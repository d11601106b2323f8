------------------------ MODULE ReservationCards_proofs ------------------------
(***************************************************************************)
(* What a typed card can commit.  The lemmas about one row of drafts hold  *)
(* for the rows of groups as well: the slots are of any set.               *)
(***************************************************************************)
EXTENDS ReservationSafety_proofs

-----------------------------------------------------------------------------
(* One row *)

\* The rows with slots of S: a Draft is a row with Slots.
CardOf(S) == [status : PendingStatus, ref : S]

RowOf(S) == [status : DraftStatus, slots : S, missing : BOOLEAN,
             quote : S \cup {Absent}, pending : CardOf(S) \cup {Absent},
             stamp : Token \cup {Absent}]

\* In an open row a quote, and a card, are those of the slots it has now, and
\* there is no card without a quote.
CardFits(row) ==
  row.status \notin {"cancelled", "expired"}
    => /\ row.quote # Absent => row.quote = row.slots
       /\ row.pending # Absent => row.quote # Absent /\ row.pending.ref = row.slots

\* A new row has neither quote nor card.
LEMMA NewRowFits ==
  ASSUME NEW S, NEW slots \in S, NEW missing \in BOOLEAN, NEW late \in BOOLEAN
  PROVE  /\ NewDraft(slots, missing, late) \in RowOf(S)
         /\ CardFits(NewDraft(slots, missing, late))
BY DEF CardFits, NewDraft, RowOf, StatusFromMissing, DraftStatus

\* New slots withdraw quote and card, unless the row is cancelled.
LEMMA UpdatedRowFits ==
  ASSUME NEW S, NEW row \in RowOf(S), NEW slots \in S, NEW missing \in BOOLEAN,
         NEW late \in BOOLEAN
  PROVE  /\ Updated(row, slots, missing, late) \in RowOf(S)
         /\ CardFits(Updated(row, slots, missing, late))
<1>1. CASE row.status = "cancelled"
  <2>1. /\ Updated(row, slots, missing, late).status = "cancelled"
        /\ Updated(row, slots, missing, late) \in RowOf(S)
    BY <1>1 DEF Updated, RowOf
  <2> QED BY <2>1 DEF CardFits
<1>2. CASE row.status # "cancelled"
  BY <1>2, NewRowFits DEF Updated
<1> QED BY <1>1, <1>2

\* A quote is for the slots of the row, and an open row's card is too.
LEMMA QuotedRowFits ==
  ASSUME NEW S, NEW row \in RowOf(S), CardFits(row), Absent \notin S, NEW late,
         Quotable(row, late)
  PROVE  /\ Quoted(row) \in RowOf(S)
         /\ CardFits(Quoted(row))
         /\ Quoted(row).status = "quoteReady"
         /\ Quoted(row).quote # Absent
<1>1. row.status \notin {"cancelled", "expired"}
  BY DEF Quotable, Inactive
<1>2. /\ Quoted(row) \in RowOf(S)
      /\ Quoted(row).status = "quoteReady"
      /\ Quoted(row).quote = row.slots
      /\ Quoted(row).slots = row.slots
      /\ Quoted(row).pending = row.pending
  BY DEF Quoted, RowOf, DraftStatus
<1>3. row.slots # Absent
  BY DEF RowOf
<1> QED BY <1>1, <1>2, <1>3 DEF CardFits

\* A card is prepared for the quote, so for the slots.
LEMMA PreparedRowFits ==
  ASSUME NEW S, NEW row \in RowOf(S), CardFits(row), row.quote # Absent,
         row.status \notin {"cancelled", "expired"}
  PROVE  Prepared(row) \in RowOf(S) /\ CardFits(Prepared(row))
<1>1. row.quote = row.slots /\ row.quote \in S
  BY DEF CardFits, RowOf
<1>2. [status |-> "awaitingConfirmation", ref |-> row.quote] \in CardOf(S)
  BY <1>1 DEF CardOf, PendingStatus
<1>3. /\ Prepared(row) \in RowOf(S)
      /\ Prepared(row).quote = row.quote
      /\ Prepared(row).slots = row.slots
      /\ Prepared(row).pending.ref = row.quote
  BY <1>2 DEF Prepared, RowOf, DraftStatus
<1> QED BY <1>1, <1>3 DEF CardFits

\* Quoting and preparing at once, as the prepare-booking handlers do.
LEMMA BookedRowFits ==
  ASSUME NEW S, NEW row \in RowOf(S), CardFits(row), Absent \notin S, NEW late,
         Quotable(row, late)
  PROVE  /\ Prepared(Quoted(row)) \in RowOf(S)
         /\ CardFits(Prepared(Quoted(row)))
<1>1. PICK quoted : quoted = Quoted(row)
  OBVIOUS
<1>2. /\ quoted \in RowOf(S)
      /\ CardFits(quoted)
      /\ quoted.quote # Absent
      /\ quoted.status \notin {"cancelled", "expired"}
  BY <1>1, QuotedRowFits
<1> QED BY <1>1, <1>2, PreparedRowFits

\* Cancelling closes the row.
LEMMA CancelledRowFits ==
  ASSUME NEW S, NEW row \in RowOf(S)
  PROVE  /\ [row EXCEPT !.status = "cancelled", !.stamp = Absent] \in RowOf(S)
         /\ CardFits([row EXCEPT !.status = "cancelled", !.stamp = Absent])
<1> DEFINE cancelled == [row EXCEPT !.status = "cancelled", !.stamp = Absent]
<1>1. cancelled \in RowOf(S) /\ cancelled.status = "cancelled"
  BY DEF RowOf, DraftStatus
<1> HIDE DEF cancelled
<1>2. CardFits(cancelled)
  BY <1>1 DEF CardFits
<1> QED BY <1>1, <1>2 DEF cancelled

\* Expiring or declining a card closes the row; confirming it changes neither
\* slots, quote nor ref.
LEMMA AnsweredRowFits ==
  ASSUME NEW S, NEW row \in RowOf(S), CardFits(row), Awaits(row),
         NEW status \in {"expired", "cancelled"}, NEW stamp \in Token \cup {Absent}
  PROVE  LET closed == [row EXCEPT !.status = status, !.stamp = stamp, !.pending.status = status]
             confirmed == [row EXCEPT !.pending.status = "confirmed", !.stamp = stamp]
         IN /\ closed \in RowOf(S) /\ CardFits(closed)
            /\ confirmed \in RowOf(S) /\ CardFits(confirmed)
<1> DEFINE closed == [row EXCEPT !.status = status, !.stamp = stamp, !.pending.status = status]
           confirmed == [row EXCEPT !.pending.status = "confirmed", !.stamp = stamp]
<1>1. row.pending \in CardOf(S)
  BY DEF Awaits, RowOf
<1>2. /\ [row.pending EXCEPT !.status = status] \in CardOf(S)
      /\ [row.pending EXCEPT !.status = "confirmed"] \in CardOf(S)
      /\ [row.pending EXCEPT !.status = "confirmed"].ref = row.pending.ref
  BY <1>1 DEF CardOf, PendingStatus
<1>3. closed \in RowOf(S) /\ closed.status = status
  BY <1>2 DEF RowOf, DraftStatus
<1>4. /\ confirmed \in RowOf(S)
      /\ confirmed.status = row.status
      /\ confirmed.quote = row.quote
      /\ confirmed.slots = row.slots
      /\ confirmed.pending = [row.pending EXCEPT !.status = "confirmed"]
  BY <1>2 DEF RowOf
<1> HIDE DEF closed, confirmed
<1>5. CardFits(closed)
  BY <1>3 DEF CardFits
<1>6. CardFits(confirmed)
  BY <1>2, <1>4 DEF CardFits, Awaits
<1> QED BY <1>3, <1>4, <1>5, <1>6 DEF closed, confirmed

-----------------------------------------------------------------------------
(* The rows of drafts *)

RowsFit == \A d \in DraftId : drafts[d] # Absent => CardFits(drafts[d])

\* A draft is a row with slots of Slots, and no slots are Absent.
LEMMA DraftIsRow == Draft = RowOf(Slots) /\ Absent \notin Slots
BY SentinelAssumption, AbsentAssumption DEF Draft, RowOf, Pending, CardOf, Slots

\* A handler that saves a fitting row keeps all rows fitting.
LEMMA SavedRowFits ==
  ASSUME TypeOK, RowsFit, NEW t, NEW d \in DraftId, NEW row, CardFits(row),
         drafts' = [drafts EXCEPT ![d] = row]
  PROVE  RowsFit'
BY DEF RowsFit, TypeOK

\* The draft operations keep the rows fitting.
LEMMA DraftStepFits ==
  ASSUME TypeOK, RowsFit, NEW t \in Token, DraftStep(t)
  PROVE  RowsFit'
<1> USE DraftIsRow
<1>1. ASSUME NEW slots \in Slots, NEW missing \in BOOLEAN, NEW late \in BOOLEAN,
             CreateDraft(t, slots, missing, late)
      PROVE  RowsFit'
  <2>1. CardFits(NewDraft(slots, missing, late))
    BY NewRowFits
  <2>2. <<"client", t>> \in DraftId
    BY DEF DraftId
  <2> QED BY <1>1, <2>1, <2>2, SavedRowFits DEF CreateDraft, SaveDraft
<1>2. ASSUME NEW d \in DraftId, NEW slots \in Slots, NEW missing \in BOOLEAN,
             NEW late \in BOOLEAN, UpdateDraft(t, d, slots, missing, late)
      PROVE  RowsFit'
  <2>1. drafts[d] \in Draft
    BY <1>2 DEF UpdateDraft, TypeOK
  <2>2. CardFits(Updated(drafts[d], slots, missing, late))
    BY <2>1, UpdatedRowFits
  <2> QED BY <1>2, <2>2, SavedRowFits DEF UpdateDraft, SaveDraft
<1>3. ASSUME NEW d \in DraftId, NEW late \in BOOLEAN, QuoteDraft(t, d, late)
      PROVE  RowsFit'
  <2>1. drafts[d] \in Draft /\ CardFits(drafts[d]) /\ Quotable(drafts[d], late)
    BY <1>3 DEF QuoteDraft, TypeOK, RowsFit
  <2>2. CardFits(Quoted(drafts[d]))
    BY <2>1, QuotedRowFits
  <2> QED BY <1>3, <2>2, SavedRowFits DEF QuoteDraft, SaveDraft
<1>4. ASSUME NEW d \in DraftId, NEW late \in BOOLEAN, PrepareConfirm(t, d, late)
      PROVE  RowsFit'
  <2>1. /\ drafts[d] \in Draft /\ CardFits(drafts[d])
        /\ drafts[d].quote # Absent
        /\ drafts[d].status \notin {"cancelled", "expired"}
    BY <1>4 DEF PrepareConfirm, TypeOK, RowsFit, Quotable, Inactive
  <2>2. CardFits(Prepared(drafts[d]))
    BY <2>1, PreparedRowFits
  <2> QED BY <1>4, <2>2, SavedRowFits DEF PrepareConfirm, SaveDraft
<1>5. ASSUME NEW d \in DraftId, CancelDraft(t, d)
      PROVE  RowsFit'
  <2>1. drafts[d] \in Draft
    BY <1>5 DEF CancelDraft, TypeOK
  <2>2. CardFits([drafts[d] EXCEPT !.status = "cancelled", !.stamp = Absent])
    BY <2>1, CancelledRowFits
  <2> QED BY <1>5, <2>2, SavedRowFits DEF CancelDraft, SaveDraft
<1>6. ASSUME NEW sel \in Selection, NEW late \in BOOLEAN, PrepareBooking(t, sel, late)
      PROVE  RowsFit'
  <2>1. <<"booking", t>> \in DraftId
    BY DEF DraftId
  <2>2. PICK draft : draft = BookingDraft(<<"booking", t>>, sel, late)
    OBVIOUS
  <2>3. draft \in Draft /\ CardFits(draft)
    BY <2>1, <2>2, NewRowFits DEF BookingDraft, TypeOK, RowsFit, Slots
  <2>4. \/ /\ Quotable(draft, late)
           /\ drafts' = [drafts EXCEPT ![<<"booking", t>>] = Prepared(Quoted(draft))]
        \/ drafts' = [drafts EXCEPT ![<<"booking", t>>] = draft]
    BY <1>6, <2>2 DEF PrepareBooking
  <2>5. CASE /\ Quotable(draft, late)
             /\ drafts' = [drafts EXCEPT ![<<"booking", t>>] = Prepared(Quoted(draft))]
    <3>1. CardFits(Prepared(Quoted(draft)))
      BY <2>3, <2>5, BookedRowFits
    <3> QED BY <2>1, <2>5, <3>1, SavedRowFits
  <2>6. CASE drafts' = [drafts EXCEPT ![<<"booking", t>>] = draft]
    BY <2>1, <2>3, <2>6, SavedRowFits
  <2> QED BY <2>4, <2>5, <2>6
<1> QED BY <1>1, <1>2, <1>3, <1>4, <1>5, <1>6 DEF DraftStep

\* Answers to cards keep the rows fitting.
LEMMA CardStepFits ==
  ASSUME TypeOK, RowsFit, NEW t \in Token, CardStep(t)
  PROVE  RowsFit'
<1> USE DraftIsRow
<1>1. ASSUME NEW d \in DraftId, ExpirePending(t, d) \/ CancelPending(t, d) \/ ConfirmPending(t, d)
      PROVE  RowsFit'
  <2>1. drafts[d] \in Draft /\ CardFits(drafts[d]) /\ Awaits(drafts[d])
    BY <1>1 DEF ExpirePending, CancelPending, ConfirmPending, Answerable, TypeOK, RowsFit
  <2>2. CASE ExpirePending(t, d)
    <3>1. CardFits([drafts[d] EXCEPT !.status = "expired", !.stamp = t,
                                     !.pending.status = "expired"])
      BY <2>1, AnsweredRowFits
    <3> QED BY <2>2, <3>1, SavedRowFits DEF ExpirePending, SaveDraft
  <2>3. CASE CancelPending(t, d)
    <3>1. CardFits([drafts[d] EXCEPT !.status = "cancelled", !.stamp = Absent,
                                     !.pending.status = "cancelled"])
      BY <2>1, AnsweredRowFits
    <3> QED BY <2>3, <3>1, SavedRowFits DEF CancelPending, SaveDraft
  <2>4. CASE ConfirmPending(t, d)
    <3>1. CardFits([drafts[d] EXCEPT !.pending.status = "confirmed", !.stamp = Absent])
      BY <2>1, AnsweredRowFits
    <3> QED BY <2>4, <3>1, SavedRowFits DEF ConfirmPending, SaveDraft
  <2> QED BY <1>1, <2>2, <2>3, <2>4
<1> QED BY <1>1 DEF CardStep

\* Every step keeps the rows fitting.
LEMMA NextRowsFit == TypeOK /\ RowsFit /\ [Next]_vars => RowsFit'
<1> SUFFICES ASSUME TypeOK, RowsFit, [Next]_vars
             PROVE  RowsFit'
  OBVIOUS
<1>1. ASSUME UNCHANGED drafts
      PROVE  RowsFit'
  BY <1>1 DEF RowsFit
<1>2. ASSUME NEW t \in Token, CancelStep(t)
      PROVE  UNCHANGED drafts
  BY <1>2 DEF CancelStep, PrepareCancel, ExpireCancel, ConfirmCancel, DeclineCancel
<1>3. ASSUME NEW t \in Token, DirectStep(t)
      PROVE  UNCHANGED drafts
  BY <1>3 DEF DirectStep, Adjust, CreateReservation, CheckIn, CheckOut, AnswerOnly,
              Replay, vars
<1>4. CASE UNCHANGED vars
  BY <1>1, <1>4 DEF vars
<1> QED BY <1>1, <1>2, <1>3, <1>4, DraftStepFits, CardStepFits DEF Next

\* A card that can still be answered shows the slots its draft has now, after
\* any updates, quotes, cancellations and late callbacks in between.
THEOREM CardsBindSelections == Spec => []CardBindsSelection
<1>1. Init => RowsFit
  BY DEF Init, RowsFit
<1>2. RowsFit => CardBindsSelection
  BY DEF RowsFit, CardFits, CardBindsSelection
<1> QED BY <1>1, <1>2, NextRowsFit, TypeCorrect, PTL DEF Spec

-----------------------------------------------------------------------------
(* Who books *)

\* What a step of a single handler may do to the row of an id that neither a
\* direct booking nor an adjustment creates.
BookedByCard(q) == q \in DraftId /\ \E t \in Token : ConfirmPending(t, q)

NotBooked(q) == reservations'[q] = reservations[q] \/ reservations'[q].status # "booked"

\* Only the confirmation of its own card books such an id.
LEMMA OnlyCardsBook ==
  ASSUME TypeOK, [Next]_vars, NEW q \in ResId,
         \A t \in Token : q # <<"adjust", t>> /\ q # <<"create", t>>
  PROVE  BookedByCard(q) \/ NotBooked(q)
<1> USE DEF NotBooked
<1>1. CASE UNCHANGED reservations
  BY <1>1
<1>2. ASSUME NEW t \in Token, CardStep(t)
      PROVE  BookedByCard(q) \/ NotBooked(q)
  <2>1. ASSUME NEW d \in DraftId, ConfirmPending(t, d)
        PROVE  d = q \/ reservations'[q] = reservations[q]
    BY <2>1 DEF ConfirmPending, TypeOK, LedgerTypeOK
  <2>2. ASSUME NEW d \in DraftId, ExpirePending(t, d) \/ CancelPending(t, d)
        PROVE  UNCHANGED reservations
    BY <2>2 DEF ExpirePending, CancelPending, ledgerVars
  <2> QED BY <1>1, <1>2, <2>1, <2>2 DEF CardStep, BookedByCard
<1>3. ASSUME NEW t \in Token, CancelStep(t)
      PROVE  NotBooked(q)
  <2>1. ASSUME NEW c \in Token, ConfirmCancel(t, c)
        PROVE  NotBooked(q)
    <3>1. cancels[c].res \in ResId /\ reservations[cancels[c].res] \in ReservationRow
      BY <2>1, BookedExists DEF ConfirmCancel, CancelAwaits, TypeOK, CancelAction
    <3>2. Cancelled(reservations[cancels[c].res]).status = "cancelled"
      BY <3>1 DEF Cancelled, ReservationRow
    <3>3. reservations' = [reservations EXCEPT ![cancels[c].res]
                                                  = Cancelled(reservations[cancels[c].res])]
      BY <2>1 DEF ConfirmCancel
    <3>4. CASE q = cancels[c].res
      BY <3>1, <3>2, <3>3, <3>4 DEF TypeOK, LedgerTypeOK
    <3>5. CASE q # cancels[c].res
      BY <3>3, <3>5 DEF TypeOK, LedgerTypeOK
    <3> QED BY <3>4, <3>5
  <2>2. ASSUME \/ \E r \in ResId : PrepareCancel(t, r)
               \/ \E c \in Token : ExpireCancel(t, c) \/ DeclineCancel(t, c)
        PROVE  UNCHANGED reservations
    BY <2>2 DEF PrepareCancel, ExpireCancel, DeclineCancel, ledgerVars
  <2> QED BY <1>1, <1>3, <2>1, <2>2 DEF CancelStep
<1>4. ASSUME NEW t \in Token, DirectStep(t)
      PROVE  NotBooked(q)
  <2>1. ASSUME NEW r \in ResId, NEW s \in Selection, Adjust(t, r, s)
        PROVE  NotBooked(q)
    <3>1. reservations[r] \in ReservationRow
      BY <2>1, BookedExists DEF Adjust
    <3>2. Cancelled(reservations[r]).status = "cancelled"
      BY <3>1 DEF Cancelled, ReservationRow
    <3>3. reservations' = [reservations EXCEPT ![r] = Cancelled(reservations[r]),
                                               ![<<"adjust", t>>] = Booking(s)]
      BY <2>1 DEF Adjust
    <3>4. q # <<"adjust", t>>
      OBVIOUS
    <3>5. CASE q = r
      BY <3>2, <3>3, <3>4, <3>5 DEF TypeOK, LedgerTypeOK
    <3>6. CASE q # r
      BY <3>3, <3>4, <3>6 DEF TypeOK, LedgerTypeOK
    <3> QED BY <3>5, <3>6
  <2>2. ASSUME NEW s \in Selection, CreateReservation(t, s)
        PROVE  NotBooked(q)
    BY <2>2 DEF CreateReservation, TypeOK, LedgerTypeOK
  <2>3. ASSUME \/ \E room \in Room, r \in ResId \cup {Absent}, at \in Clock :
                    CheckIn(t, room, r, at)
               \/ \E room \in Room, at \in Clock : \E s \in InHouse(room) \cup {Absent} :
                    CheckOut(t, room, s, at)
               \/ AnswerOnly(t) \/ Replay(t)
        PROVE  UNCHANGED reservations
    BY <2>3 DEF CheckIn, CheckOut, AnswerOnly, Replay, ledgerVars, vars
  <2> QED BY <1>1, <1>4, <2>1, <2>2, <2>3 DEF DirectStep
<1>5. ASSUME NEW t \in Token, DraftStep(t)
      PROVE  UNCHANGED reservations
  BY <1>5 DEF DraftStep, CreateDraft, UpdateDraft, QuoteDraft, PrepareConfirm, CancelDraft,
              PrepareBooking, ledgerVars
<1>6. CASE UNCHANGED vars
  BY <1>1, <1>6 DEF vars
<1> QED BY <1>1, <1>2, <1>3, <1>4, <1>5, <1>6 DEF Next

\* What OnlyCardConfirmationCommits asks of the step that books draft d.
Commits(d) ==
  /\ drafts[d].pending.status = "awaitingConfirmation"
  /\ drafts'[d].pending.status = "confirmed"
  /\ reservations'[d].sel = drafts[d].pending.ref

\* A draft becomes a booking only by the confirmation of its awaiting card, as
\* the selection the card showed.
LEMMA DraftIsBookedByItsCard ==
  ASSUME TypeOK, RowsFit, [Next]_vars, NEW d \in DraftId,
         reservations'[d] # reservations[d], reservations'[d].status = "booked"
  PROVE  Commits(d)
<1>1. d \in ResId /\ \A t \in Token : d # <<"adjust", t>> /\ d # <<"create", t>>
  BY DEF DraftId, ResId
<1>2. PICK t \in Token : ConfirmPending(t, d)
  BY <1>1, OnlyCardsBook DEF BookedByCard, NotBooked
<1>3. /\ drafts[d] \in Draft /\ CardFits(drafts[d])
      /\ Awaits(drafts[d])
      /\ drafts[d].status = "awaitingConfirmation"
      /\ drafts[d].pending \in Pending
  BY <1>2 DEF ConfirmPending, Answerable, Awaits, TypeOK, RowsFit, Draft
<1>4. drafts[d].pending.ref = drafts[d].slots
  BY <1>3 DEF CardFits, Awaits
<1>5. reservations'[d] = Booking(drafts[d].slots)
  BY <1>1, <1>2 DEF ConfirmPending, TypeOK, LedgerTypeOK
<1>6. drafts'[d] = [drafts[d] EXCEPT !.pending.status = "confirmed", !.stamp = Absent]
  BY <1>2 DEF ConfirmPending, SaveDraft, TypeOK
<1>7. drafts'[d].pending = [drafts[d].pending EXCEPT !.status = "confirmed"]
  BY <1>3, <1>6 DEF Draft
<1>8. drafts'[d].pending.status = "confirmed"
  BY <1>3, <1>7 DEF Pending
<1> QED BY <1>3, <1>4, <1>5, <1>8 DEF Awaits, Booking, Commits

\* Nothing but the answer to its own card turns a draft into a booking.
THEOREM OnlyCardsCommit == Spec => OnlyCardConfirmationCommits
<1>1. TypeOK /\ RowsFit /\ [Next]_vars =>
        [\A d \in DraftId :
           (reservations'[d] # reservations[d] /\ reservations'[d].status = "booked")
             => /\ drafts[d].pending.status = "awaitingConfirmation"
                /\ drafts'[d].pending.status = "confirmed"
                /\ reservations'[d].sel = drafts[d].pending.ref]_vars
  BY DraftIsBookedByItsCard DEF Commits
<1>2. Init => RowsFit
  BY DEF Init, RowsFit
<1> QED BY <1>1, <1>2, NextRowsFit, TypeCorrect, PTL DEF Spec, OnlyCardConfirmationCommits
=============================================================================
