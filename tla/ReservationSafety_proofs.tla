----------------------- MODULE ReservationSafety_proofs -----------------------
(***************************************************************************)
(* The safety theorems of ReservationWorkflow.  All handlers are first     *)
(* reduced to six things a step may do to the ledger (LedgerStep); the     *)
(* theorems about the ledger are then proved once per kind of step.        *)
(***************************************************************************)
EXTENDS ReservationWorkflow_proofs, FiniteSetTheorems

Free(s, r) == ~Conflicting(s, r) \/ Available(s)

Books(r, s) ==
  /\ Free(s, r)
  /\ reservations' = [reservations EXCEPT ![r] = Booking(s)]
  /\ UNCHANGED stays

Drops(r) ==
  /\ Status(r) = "booked"
  /\ reservations' = [reservations EXCEPT ![r] = Cancelled(@)]
  /\ UNCHANGED stays

Moves(r, q, s) ==
  /\ Status(r) = "booked"
  /\ ~Conflicting(s, r)
  /\ reservations' = [reservations EXCEPT ![r] = Cancelled(@), ![q] = Booking(s)]
  /\ UNCHANGED stays

Lodges(r) ==
  /\ Exists(r)
  /\ \E room \in Catalog, at \in Clock : RecordStay(r, room, at)
  /\ UNCHANGED reservations

Leaves(s) == (\E at \in Clock : CloseStay(s, at)) /\ UNCHANGED reservations

AdjustId == {"adjust"} \X Token

\* Each step leaves the ledger alone, books one reservation for which its
\* selection is free, drops one, moves one to the id of its token, or records
\* or closes one stay.  Ids of adjustments are booked by moves alone.
LEMMA LedgerStep ==
  ASSUME TypeOK, [Next]_vars
  PROVE  \/ UNCHANGED <<reservations, stays>>
         \/ \E r \in ResId \ AdjustId, s \in Selection : Books(r, s)
         \/ \E r \in ResId : Drops(r)
         \/ \E t \in Token, r \in ResId, s \in Selection :
              Fresh(t) /\ Moves(r, <<"adjust", t>>, s)
         \/ \E r \in ResId : Lodges(r)
         \/ \E s \in stays : Leaves(s)
<1>1. CASE UNCHANGED vars
  BY <1>1 DEF vars
<1>2. ASSUME NEW t \in Token, DraftStep(t)
      PROVE  UNCHANGED <<reservations, stays>>
  BY <1>2 DEF DraftStep, CreateDraft, UpdateDraft, QuoteDraft, PrepareConfirm,
              CancelDraft, PrepareBooking, ledgerVars
<1>3. ASSUME NEW t \in Token, CardStep(t)
      PROVE  \/ UNCHANGED <<reservations, stays>>
             \/ \E r \in ResId \ AdjustId, s \in Selection : Books(r, s)
  <2>1. ASSUME NEW d \in DraftId, ConfirmPending(t, d)
        PROVE  \E r \in ResId \ AdjustId, s \in Selection : Books(r, s)
    <3>1. drafts[d].slots \in Selection
      BY <2>1 DEF ConfirmPending, TypeOK, Draft, Slots
    <3>2. d \in ResId \ AdjustId
      BY DEF DraftId, ResId, AdjustId
    <3>3. Books(d, drafts[d].slots)
      BY <2>1 DEF ConfirmPending, Books, Free
    <3> QED BY <3>1, <3>2, <3>3
  <2>2. ASSUME NEW d \in DraftId, ExpirePending(t, d) \/ CancelPending(t, d)
        PROVE  UNCHANGED <<reservations, stays>>
    BY <2>2 DEF ExpirePending, CancelPending, ledgerVars
  <2> QED BY <1>3, <2>1, <2>2 DEF CardStep
<1>4. ASSUME NEW t \in Token, CancelStep(t)
      PROVE  \/ UNCHANGED <<reservations, stays>>
             \/ \E r \in ResId : Drops(r)
  <2>1. ASSUME NEW c \in Token, ConfirmCancel(t, c)
        PROVE  \E r \in ResId : Drops(r)
    <3>1. cancels[c].res \in ResId
      BY <2>1 DEF ConfirmCancel, CancelAwaits, TypeOK, CancelAction
    <3>2. Drops(cancels[c].res)
      BY <2>1 DEF ConfirmCancel, Drops
    <3> QED BY <3>1, <3>2
  <2>2. ASSUME NEW r \in ResId, PrepareCancel(t, r)
        PROVE  UNCHANGED <<reservations, stays>>
    BY <2>2 DEF PrepareCancel, ledgerVars
  <2>3. ASSUME NEW c \in Token, ExpireCancel(t, c) \/ DeclineCancel(t, c)
        PROVE  UNCHANGED <<reservations, stays>>
    BY <2>3 DEF ExpireCancel, DeclineCancel, ledgerVars
  <2> QED BY <1>4, <2>1, <2>2, <2>3 DEF CancelStep
<1>5. ASSUME NEW t \in Token, DirectStep(t)
      PROVE  \/ UNCHANGED <<reservations, stays>>
             \/ \E r \in ResId \ AdjustId, s \in Selection : Books(r, s)
             \/ \E r \in ResId, s \in Selection : Fresh(t) /\ Moves(r, <<"adjust", t>>, s)
             \/ \E r \in ResId : Lodges(r)
             \/ \E s \in stays : Leaves(s)
  <2>1. ASSUME NEW r \in ResId, NEW s \in Selection, Adjust(t, r, s)
        PROVE  Fresh(t) /\ Moves(r, <<"adjust", t>>, s)
    BY <2>1 DEF Adjust, Moves
  <2>2. ASSUME NEW s \in Selection, CreateReservation(t, s)
        PROVE  Books(<<"create", t>>, s) /\ <<"create", t>> \in ResId \ AdjustId
    BY <2>2 DEF CreateReservation, Books, Free, ResId, AdjustId
  <2>3. ASSUME NEW room \in Room, NEW r \in ResId \cup {Absent}, NEW at \in Clock,
               CheckIn(t, room, r, at)
        PROVE  \/ UNCHANGED <<reservations, stays>>
               \/ r \in ResId /\ Lodges(r)
    BY <2>3 DEF CheckIn, Lodges
  <2>4. ASSUME NEW room \in Room, NEW at \in Clock,
               NEW s \in InHouse(room) \cup {Absent}, CheckOut(t, room, s, at)
        PROVE  \/ UNCHANGED <<reservations, stays>>
               \/ s \in stays /\ Leaves(s)
    BY <2>4 DEF CheckOut, Leaves, InHouse
  <2>5. ASSUME AnswerOnly(t) \/ Replay(t)
        PROVE  UNCHANGED <<reservations, stays>>
    BY <2>5 DEF AnswerOnly, Replay, ledgerVars, vars
  <2> QED BY <1>5, <2>1, <2>2, <2>3, <2>4, <2>5 DEF DirectStep
<1>6. CASE Next
  BY <1>6, <1>2, <1>3, <1>4, <1>5 DEF Next
<1> QED BY <1>1, <1>6

-----------------------------------------------------------------------------
(* Stays and reservations *)

\* The stays of a reservation outlive it, and an id that an adjustment would
\* use is not in use while the token is fresh.
StaysAreBooked == \A s \in stays : Exists(s.res)
AdjustIdsAreFresh == \A t \in Token : Fresh(t) => ~Exists(<<"adjust", t>>)

LedgerInv == TypeOK /\ StaysAreBooked /\ AdjustIdsAreFresh

\* The empty ledger satisfies the invariant.
LEMMA InitLedgerInv == Init => LedgerInv
BY InitTypeOK DEF Init, LedgerInit, LedgerInv, StaysAreBooked, AdjustIdsAreFresh,
                  Fresh, Exists, ResId

\* A guest is checked in on a reservation that exists.
LEMMA LodgesKeepsStays ==
  ASSUME LedgerInv, NEW r \in ResId, Lodges(r)
  PROVE  StaysAreBooked'
<1>1. PICK room \in Catalog, at \in Clock : RecordStay(r, room, at)
  BY DEF Lodges
<1>2. \A u \in stays' : u \in stays \/ u.res = r
  BY <1>1 DEF RecordStay
<1> QED BY <1>2 DEF Lodges, LedgerInv, StaysAreBooked, Exists

\* A stay that is closed remains a stay of its reservation.
LEMMA LeavesKeepsStays ==
  ASSUME LedgerInv, NEW s \in stays, Leaves(s)
  PROVE  StaysAreBooked'
<1>1. PICK at \in Clock : CloseStay(s, at)
  BY DEF Leaves
<1>2. s \in StayRow
  BY DEF LedgerInv, TypeOK, LedgerTypeOK
<1>3. [s EXCEPT !.status = "checkedOut", !.updated = at].res = s.res
  BY <1>2 DEF StayRow
<1>4. \A u \in stays' : \E v \in stays : u.res = v.res
  BY <1>1, <1>3 DEF CloseStay
<1> QED BY <1>4 DEF Leaves, LedgerInv, StaysAreBooked, Exists

\* No step removes a reservation, and the id of an adjustment appears only in
\* the step that uses up its token.
LEMMA AdjustIdsStayFresh ==
  ASSUME LedgerInv, [Next]_vars
  PROVE  AdjustIdsAreFresh'
<1> USE DEF LedgerInv, AdjustIdsAreFresh, Fresh, Exists
<1>1. CASE UNCHANGED vars
  BY <1>1 DEF vars
<1>2. ASSUME NEW t \in Token, DraftStep(t)
      PROVE  UNCHANGED reservations /\ idem \subseteq idem'
  BY <1>2 DEF DraftStep, CreateDraft, UpdateDraft, QuoteDraft, PrepareConfirm,
              CancelDraft, PrepareBooking, ledgerVars, Answer
<1>3. ASSUME NEW t \in Token, CardStep(t)
      PROVE  /\ idem \subseteq idem'
             /\ \A u \in Token : reservations'[<<"adjust", u>>] = reservations[<<"adjust", u>>]
  <2>1. ASSUME NEW d \in DraftId, ConfirmPending(t, d)
        PROVE  /\ idem \subseteq idem'
               /\ \A u \in Token : reservations'[<<"adjust", u>>] = reservations[<<"adjust", u>>]
    <3>1. \A u \in Token : <<"adjust", u>> # d /\ <<"adjust", u>> \in ResId
      <4>1. PICK kind \in {"client", "booking"}, v \in Token : d = <<kind, v>>
        BY DEF DraftId
      <4> QED BY <4>1 DEF ResId
    <3>2. /\ reservations' = [reservations EXCEPT ![d] = Booking(drafts[d].slots)]
          /\ idem \subseteq idem'
      BY <2>1 DEF ConfirmPending, Answer
    <3> QED BY <3>1, <3>2 DEF TypeOK, LedgerTypeOK
  <2>2. ASSUME NEW d \in DraftId, ExpirePending(t, d) \/ CancelPending(t, d)
        PROVE  UNCHANGED reservations /\ idem \subseteq idem'
    BY <2>2 DEF ExpirePending, CancelPending, ledgerVars, Answer
  <2> QED BY <1>3, <2>1, <2>2 DEF CardStep
<1>4. ASSUME NEW t \in Token, CancelStep(t)
      PROVE  /\ idem \subseteq idem'
             /\ \A r \in ResId : reservations[r] = Absent => reservations'[r] = Absent
  <2>1. ASSUME NEW c \in Token, ConfirmCancel(t, c)
        PROVE  /\ idem \subseteq idem'
               /\ \A r \in ResId : reservations[r] = Absent => reservations'[r] = Absent
    <3>1. cancels[c].res \in ResId
      BY <2>1 DEF ConfirmCancel, CancelAwaits, TypeOK, CancelAction
    <3>2. reservations[cancels[c].res] # Absent
      BY <2>1, <3>1, BookedExists, AbsentAssumption DEF ConfirmCancel
    <3>3. /\ reservations' = [reservations EXCEPT ![cancels[c].res] = Cancelled(@)]
          /\ idem \subseteq idem'
      BY <2>1 DEF ConfirmCancel, Answer
    <3> QED BY <3>1, <3>2, <3>3 DEF TypeOK, LedgerTypeOK
  <2>2. ASSUME NEW r \in ResId, PrepareCancel(t, r)
        PROVE  UNCHANGED reservations /\ idem \subseteq idem'
    BY <2>2 DEF PrepareCancel, ledgerVars, Answer
  <2>3. ASSUME NEW c \in Token, ExpireCancel(t, c) \/ DeclineCancel(t, c)
        PROVE  UNCHANGED reservations /\ idem \subseteq idem'
    BY <2>3 DEF ExpireCancel, DeclineCancel, ledgerVars, Answer
  <2> QED BY <1>4, <2>1, <2>2, <2>3 DEF CancelStep
<1>5. ASSUME NEW t \in Token, DirectStep(t)
      PROVE  /\ idem \subseteq idem'
             /\ \A u \in Token \ idem' :
                  reservations[<<"adjust", u>>] = Absent => reservations'[<<"adjust", u>>] = Absent
  <2> \A u \in Token : <<"adjust", u>> \in ResId
    BY DEF ResId
  <2>1. ASSUME NEW r \in ResId, NEW s \in Selection, Adjust(t, r, s)
        PROVE  /\ idem \subseteq idem'
               /\ \A u \in Token \ idem' :
                    reservations[<<"adjust", u>>] = Absent => reservations'[<<"adjust", u>>] = Absent
    <3>1. reservations[r] # Absent
      BY <2>1, BookedExists, AbsentAssumption DEF Adjust
    <3>2. idem' = idem \cup {t}
      BY <2>1 DEF Adjust, Answer
    <3>3. reservations' = [reservations EXCEPT ![r] = Cancelled(@),
                                               ![<<"adjust", t>>] = Booking(s)]
      BY <2>1 DEF Adjust
    <3>4. ASSUME NEW u \in Token \ idem', reservations[<<"adjust", u>>] = Absent
          PROVE  reservations'[<<"adjust", u>>] = Absent
      <4>1. <<"adjust", u>> # <<"adjust", t>> /\ <<"adjust", u>> # r
        BY <3>1, <3>2, <3>4
      <4> QED BY <3>3, <3>4, <4>1 DEF TypeOK, LedgerTypeOK
    <3> QED BY <3>2, <3>4
  <2>2. ASSUME NEW s \in Selection, CreateReservation(t, s)
        PROVE  /\ idem \subseteq idem'
               /\ \A u \in Token : reservations'[<<"adjust", u>>] = reservations[<<"adjust", u>>]
    <3>1. /\ reservations' = [reservations EXCEPT ![<<"create", t>>] = Booking(s)]
          /\ idem \subseteq idem'
      BY <2>2 DEF CreateReservation, Answer
    <3>2. \A u \in Token : <<"adjust", u>> # <<"create", t>>
      OBVIOUS
    <3> QED BY <3>1, <3>2 DEF TypeOK, LedgerTypeOK
  <2>3. ASSUME NEW room \in Room, NEW r \in ResId \cup {Absent}, NEW at \in Clock,
               CheckIn(t, room, r, at)
        PROVE  UNCHANGED reservations /\ idem \subseteq idem'
    BY <2>3 DEF CheckIn, Answer
  <2>4. ASSUME NEW room \in Room, NEW at \in Clock,
               NEW s \in InHouse(room) \cup {Absent}, CheckOut(t, room, s, at)
        PROVE  UNCHANGED reservations /\ idem \subseteq idem'
    BY <2>4 DEF CheckOut, Answer
  <2>5. ASSUME AnswerOnly(t) \/ Replay(t)
        PROVE  UNCHANGED reservations /\ idem \subseteq idem'
    BY <2>5 DEF AnswerOnly, Replay, ledgerVars, vars, Answer
  <2> QED BY <1>5, <2>1, <2>2, <2>3, <2>4, <2>5 DEF DirectStep
<1>6. CASE Next
  <2> \A u \in Token : <<"adjust", u>> \in ResId
    BY DEF ResId
  <2> QED BY <1>6, <1>2, <1>3, <1>4, <1>5 DEF Next
<1> QED BY <1>1, <1>6

\* Only check-ins and check-outs touch the stays, and a booked id stays booked
\* or cancelled, so that every step keeps the invariant of the ledger.
LEMMA NextLedgerInv == LedgerInv /\ [Next]_vars => LedgerInv'
<1> SUFFICES ASSUME LedgerInv, [Next]_vars
             PROVE  LedgerInv'
  OBVIOUS
<1>1. TypeOK /\ TypeOK'
  BY NextTypeOK DEF LedgerInv
<1>2. AdjustIdsAreFresh'
  BY AdjustIdsStayFresh
<1>3. ASSUME UNCHANGED stays,
             \A r \in ResId : Exists(r) => reservations'[r] # Absent
      PROVE  StaysAreBooked'
  <2>1. \A s \in stays : s.res \in ResId
    BY <1>1 DEF TypeOK, LedgerTypeOK, StayRow
  <2> QED BY <1>3, <2>1 DEF LedgerInv, StaysAreBooked, Exists
<1>4. ASSUME UNCHANGED <<reservations, stays>>
      PROVE  StaysAreBooked'
  BY <1>4 DEF LedgerInv, StaysAreBooked, Exists
<1>5. ASSUME NEW r \in ResId, NEW s \in Selection, Books(r, s)
      PROVE  StaysAreBooked'
  <2>1. Booking(s) # Absent
    BY AbsentAssumption, ReservationRowTypes
  <2> QED BY <1>1, <1>3, <1>5, <2>1 DEF Books, Exists, TypeOK, LedgerTypeOK
<1>6. ASSUME NEW r \in ResId, Drops(r)
      PROVE  StaysAreBooked'
  <2>1. Cancelled(reservations[r]) # Absent
    BY <1>1, <1>6, AbsentAssumption, BookedExists, ReservationRowTypes DEF Drops
  <2> QED BY <1>1, <1>3, <1>6, <2>1 DEF Drops, Exists, TypeOK, LedgerTypeOK
<1>7. ASSUME NEW t \in Token, NEW r \in ResId, NEW s \in Selection,
             Moves(r, <<"adjust", t>>, s)
      PROVE  StaysAreBooked'
  <2>1. Cancelled(reservations[r]) # Absent /\ Booking(s) # Absent
    BY <1>1, <1>7, AbsentAssumption, BookedExists, ReservationRowTypes DEF Moves
  <2> QED BY <1>1, <1>3, <1>7, <2>1 DEF Moves, Exists, TypeOK, LedgerTypeOK
<1>8. StaysAreBooked'
  <2>1. ASSUME NEW r \in ResId, Lodges(r)
        PROVE  StaysAreBooked'
    BY <1>1, <2>1, LodgesKeepsStays
  <2>2. ASSUME NEW s \in stays, Leaves(s)
        PROVE  StaysAreBooked'
    BY <1>1, <2>2, LeavesKeepsStays
  <2> QED BY <1>1, <1>4, <1>5, <1>6, <1>7, <2>1, <2>2, LedgerStep
<1> QED BY <1>1, <1>2, <1>8 DEF LedgerInv

\* The invariant of the ledger holds throughout.
THEOREM LedgerInvariant == Spec => []LedgerInv
BY InitLedgerInv, NextLedgerInv, PTL DEF Spec

-----------------------------------------------------------------------------
(* Promises *)

\* A promised reservation is live for the availability tests, under its room.
LEMMA PromisedIsLive ==
  ASSUME LedgerInv, NEW r \in ResId, Promised(r)
  PROVE  /\ Live(r)
         /\ reservations[r] \in ReservationRow
         /\ reservations[r].sel \in Selection
         /\ reservations[r].sel.room \in RoomsHeld(r)
<1>1. reservations[r] \in ReservationRow /\ reservations[r].status = "booked"
  BY DEF Promised, Exists, LedgerInv, TypeOK, LedgerTypeOK
<1>2. Latest(r) # Absent => Latest(r).status = "inHouse"
  BY LatestStay DEF Promised, LedgerInv
<1>3. Live(r)
  BY <1>1, <1>2 DEF Promised, Live, Status
<1> QED BY <1>1, <1>3 DEF ReservationRow, RoomsHeld

\* A reservation whose read model says "booked" is promised: it has no stay.
LEMMA BookedIsPromised ==
  ASSUME LedgerInv, NEW r \in ResId, Status(r) = "booked"
  PROVE  Promised(r)
<1>1. \A s \in stays : s.res # r
  BY BookedExists, LatestStay DEF LedgerInv, StaysOf
<1> QED BY <1>1, BookedExists, AbsentAssumption DEF Promised, Exists, LedgerInv

\* The two availability tests agree: what passes either has no night in common
\* with any live reservation that holds the room, as booked or as slept in.
LEMMA FreeAvoidsHeld ==
  ASSUME LedgerInv, NEW r \in ResId, NEW s \in Selection, Free(s, r),
         NEW q \in ResId \ {r}, Live(q), s.room \in RoomsHeld(q),
         NEW n \in Nights(s), n \in Nights(reservations[q].sel)
  PROVE  FALSE
<1> DEFINE held == reservations[q].sel
<1>1. Exists(q)
  BY DEF Live, Status
<1>2. held \in Selection
  BY <1>1 DEF Exists, LedgerInv, TypeOK, LedgerTypeOK, ReservationRow
<1>3. /\ s.from \in Int /\ s.to \in Int
      /\ held.from \in Int /\ held.to \in Int
  BY <1>2, SelectionAssumption
<1>4. CASE ~Conflicting(s, r)
  <2>1. Overlaps(s, held)
    BY <1>3 DEF Overlaps, Nights
  <2> QED BY <1>4, <2>1 DEF Conflicting
<1>5. CASE Available(s)
  <2>1. Reserved(s.room, n)
    BY DEF Reserved
  <2> QED BY <1>5, <2>1 DEF Available
<1> QED BY <1>4, <1>5 DEF Free

\* What passes a test shares no night with any promised reservation.
LEMMA FreeSharesNoNight ==
  ASSUME LedgerInv, NEW r \in ResId, NEW s \in Selection, Free(s, r),
         NEW q \in ResId \ {r}, Promised(q)
  PROVE  ~Promises!SharesNight(s, reservations[q].sel)
<1> SUFFICES ASSUME Promises!SharesNight(s, reservations[q].sel)
             PROVE  FALSE
  OBVIOUS
<1>1. Live(q) /\ reservations[q].sel.room \in RoomsHeld(q)
  BY PromisedIsLive
<1>2. s.room \in RoomsHeld(q)
  BY <1>1 DEF Promises!SharesNight
<1>3. PICK n \in Nights(s) : n \in Nights(reservations[q].sel)
  BY DEF Promises!SharesNight, Nights
<1> QED BY <1>1, <1>2, <1>3, FreeAvoidsHeld

\* What a promised reservation holds is its selection, and is not Absent.
LEMMA HeldValue ==
  ASSUME LedgerInv, NEW r \in ResId
  PROVE  /\ Held[r] = IF Promised(r) THEN reservations[r].sel ELSE Absent
         /\ Held[r] # Absent <=> Promised(r)
<1>1. Held[r] = IF Promised(r) THEN reservations[r].sel ELSE Absent
  BY DEF Held
<1>2. Promised(r) => reservations[r].sel \in Selection
  BY PromisedIsLive
<1> QED BY <1>1, <1>2, AbsentAssumption

\* A selection that passes the availability tests is free in RoomPromises.
LEMMA FreeIsFreeFor ==
  ASSUME LedgerInv, NEW r \in ResId, NEW s \in Selection, Free(s, r),
         NEW leaving, r \in leaving
  PROVE  Promises!FreeFor(s, leaving)
<1> SUFFICES ASSUME NEW q \in ResId \ leaving, Held[q] # Absent
             PROVE  ~Promises!SharesNight(s, Held[q])
  BY DEF Promises!FreeFor
<1>1. q \in ResId \ {r} /\ Promised(q) /\ Held[q] = reservations[q].sel
  BY HeldValue
<1> QED BY <1>1, FreeSharesNoNight

\* Every hold is a selection or Absent.
LEMMA HeldType ==
  LedgerInv => Held \in [ResId -> Selection \cup {Absent}]
BY PromisedIsLive DEF Held

\* The ids in "ids" are granted fitting selections in "next", no others change.
GrantsOf(ids, next) ==
  /\ \A r \in ResId \ ids : next[r] = Held[r]
  /\ \A r \in ids : next[r] # Absent /\ Promises!FreeFor(next[r], ids)
  /\ \A r \in ids, q \in ids : r # q => ~Promises!SharesNight(next[r], next[q])

\* An id in "ids" may be granted what it held already: it still fits.
LEMMA GrantsSuffice ==
  ASSUME NEW ids \in SUBSET ResId, GrantsOf(ids, Held'),
         Held' \in [ResId -> Selection \cup {Absent}]
  PROVE  Promises!Grant
<1> DEFINE granted == {r \in ResId : Held'[r] # Held[r]}
<1>1. granted \subseteq ids
  BY DEF GrantsOf
<1>2. ASSUME NEW r \in granted
      PROVE  Promises!FreeFor(Held'[r], granted)
  <2> SUFFICES ASSUME NEW q \in ResId \ granted, Held[q] # Absent
               PROVE  ~Promises!SharesNight(Held'[r], Held[q])
    BY DEF Promises!FreeFor
  <2>1. Held'[q] = Held[q]
    OBVIOUS
  <2>2. CASE q \in ids
    BY <1>1, <2>1, <2>2 DEF GrantsOf
  <2>3. CASE q \notin ids
    BY <1>1, <2>3 DEF GrantsOf, Promises!FreeFor
  <2> QED BY <2>2, <2>3
<1> QED BY <1>1, <1>2 DEF Promises!Grant, GrantsOf

\* Booking grants the selection, unless the id belongs to a guest who has left.
LEMMA BooksKeepsPromises ==
  ASSUME LedgerInv, LedgerInv', NEW r \in ResId, NEW s \in Selection, Books(r, s)
  PROVE  Promises!Grant \/ Held' = Held
<1>1. /\ reservations'[r] = Booking(s)
      /\ \A q \in ResId \ {r} : reservations'[q] = reservations[q]
  BY DEF Books, LedgerInv, TypeOK, LedgerTypeOK
<1>2. \A q \in ResId \ {r} : Promised(q)' <=> Promised(q)
  BY <1>1 DEF Books, Promised, Exists
<1>3. Promises!FreeFor(s, {r})
  BY FreeIsFreeFor DEF Books
<1>4. reservations'[r].sel = s
  BY <1>1 DEF Booking
<1>5. CASE Promised(r)'
  <2>1. Held' = [Held EXCEPT ![r] = s]
    BY <1>1, <1>2, <1>4, <1>5 DEF Held
  <2>2. GrantsOf({r}, Held')
    BY <1>3, <2>1, AbsentAssumption DEF GrantsOf, Held
  <2>3. Held' \in [ResId -> Selection \cup {Absent}]
    BY <2>1, HeldType
  <2> QED BY <2>2, <2>3, GrantsSuffice
<1>6. CASE ~Promised(r)'
  <2>1. reservations'[r] # Absent /\ reservations'[r].status = "booked"
    BY <1>1, AbsentAssumption, ReservationRowTypes DEF Booking
  <2>2. ~Promised(r)
    BY <1>6, <2>1 DEF Promised, Exists, Books
  <2> QED BY <1>1, <1>2, <1>6, <2>2 DEF Held
<1> QED BY <1>5, <1>6

\* Cancelling gives up one promise.
LEMMA DropsKeepsPromises ==
  ASSUME LedgerInv, LedgerInv', NEW r \in ResId, Drops(r)
  PROVE  Promises!GiveUp(r)
<1>1. /\ reservations'[r] = Cancelled(reservations[r])
      /\ \A q \in ResId \ {r} : reservations'[q] = reservations[q]
  BY DEF Drops, LedgerInv, TypeOK, LedgerTypeOK
<1>2. \A q \in ResId \ {r} : Promised(q)' <=> Promised(q)
  BY <1>1 DEF Drops, Promised, Exists
<1>3. Held[r] # Absent
  BY BookedIsPromised, HeldValue DEF Drops
<1>4. ~Promised(r)'
  <2>1. reservations[r] \in ReservationRow
    BY BookedExists DEF Drops, LedgerInv
  <2>2. reservations'[r].status = "cancelled"
    BY <1>1, <2>1 DEF Cancelled, ReservationRow
  <2> QED BY <2>2 DEF Promised
<1>5. Held' = [Held EXCEPT ![r] = Absent]
  BY <1>1, <1>2, <1>4 DEF Held
<1> QED BY <1>3, <1>5 DEF Promises!GiveUp

\* An adjustment takes one promise away and makes one, under an id that was
\* not in use.
LEMMA MovesOnePromise ==
  ASSUME LedgerInv, LedgerInv', NEW t \in Token, NEW r \in ResId, NEW s \in Selection,
         Fresh(t), NEW q, q = <<"adjust", t>>, Moves(r, q, s)
  PROVE  /\ q \in ResId /\ r # q
         /\ Promised(r) /\ ~Promised(r)'
         /\ ~Promised(q) /\ Promised(q)' /\ reservations'[q].sel = s
         /\ \A p \in ResId \ {r, q} :
              reservations'[p] = reservations[p] /\ (Promised(p)' <=> Promised(p))
<1>1. q \in ResId /\ ~Exists(q)
  BY DEF ResId, LedgerInv, AdjustIdsAreFresh
<1>2. /\ Promised(r)
      /\ reservations[r] \in ReservationRow
  BY BookedIsPromised, BookedExists DEF Moves, LedgerInv
<1>3. r # q
  BY <1>1, <1>2 DEF Promised
<1>4. /\ reservations'[r] = Cancelled(reservations[r])
      /\ reservations'[q] = Booking(s)
      /\ \A p \in ResId \ {r, q} : reservations'[p] = reservations[p]
  BY <1>1, <1>3 DEF Moves, LedgerInv, TypeOK, LedgerTypeOK
<1>5. \A p \in ResId \ {r, q} : Promised(p)' <=> Promised(p)
  BY <1>4 DEF Moves, Promised, Exists
<1>6. ~Promised(r)'
  <2>1. reservations'[r].status = "cancelled"
    BY <1>2, <1>4 DEF Cancelled, ReservationRow
  <2> QED BY <2>1 DEF Promised
<1>7. Promised(q)' /\ reservations'[q].sel = s
  <2>1. reservations'[q] # Absent
    BY <1>4, AbsentAssumption, ReservationRowTypes
  <2>2. \A u \in stays' : u.res # q
    BY <1>1 DEF Moves, LedgerInv, StaysAreBooked
  <2> QED BY <1>4, <2>1, <2>2 DEF Promised, Exists, Booking
<1> QED BY <1>1, <1>2, <1>3, <1>4, <1>5, <1>6, <1>7 DEF Promised

\* Adjusting hands one promise over to an id that was not in use.
LEMMA MovesKeepsPromises ==
  ASSUME LedgerInv, LedgerInv', NEW t \in Token, NEW r \in ResId, NEW s \in Selection,
         Fresh(t), Moves(r, <<"adjust", t>>, s)
  PROVE  \E q \in ResId : Promises!HandOver(r, q, s)
<1>1. PICK q : q = <<"adjust", t>>
  OBVIOUS
<1>2. /\ q \in ResId /\ r # q
      /\ Promised(r) /\ ~Promised(r)'
      /\ ~Promised(q) /\ Promised(q)' /\ reservations'[q].sel = s
      /\ \A p \in ResId \ {r, q} :
           reservations'[p] = reservations[p] /\ (Promised(p)' <=> Promised(p))
  BY <1>1, MovesOnePromise
<1>3. Held[r] # Absent /\ Held[q] = Absent
  BY <1>2, HeldValue
<1>4. Held' = [Held EXCEPT ![r] = Absent, ![q] = s]
  BY <1>2 DEF Held
<1>5. Promises!FreeFor(s, {r, q})
  BY FreeIsFreeFor DEF Moves, Free
<1> QED BY <1>2, <1>3, <1>4, <1>5 DEF Promises!HandOver

\* Checking a guest in changes no promise, whatever room was given.
LEMMA LodgesKeepsPromises ==
  ASSUME LedgerInv, NEW r \in ResId, Lodges(r)
  PROVE  Held' = Held
<1>1. PICK room \in Catalog, at \in Clock : RecordStay(r, room, at)
  BY DEF Lodges
<1>2. \E new : new.status = "inHouse" /\ stays' \in {stays, stays \cup {new}}
  <2> DEFINE new == [res |-> r, room |-> room, since |-> at, updated |-> at,
                     status |-> "inHouse"]
  <2>1. stays' = stays \/ stays' = stays \cup {new}
    BY <1>1 DEF RecordStay
  <2>2. new.status = "inHouse"
    OBVIOUS
  <2> HIDE DEF new
  <2> QED BY <2>1, <2>2
<1>3. \A q \in ResId : Promised(q)' <=> Promised(q)
  BY <1>2 DEF Lodges, Promised, Exists
<1> QED BY <1>3 DEF Lodges, Held

\* Checking a guest out gives up the promise the stay was part of, if any.
LEMMA LeavesKeepsPromises ==
  ASSUME LedgerInv, NEW s \in stays, Leaves(s)
  PROVE  \E r \in ResId : Promises!GiveUp(r) \/ Held' = Held
<1> PICK at \in Clock : CloseStay(s, at)
  BY DEF Leaves
<1> DEFINE r == s.res
           closed == [s EXCEPT !.status = "checkedOut", !.updated = at]
<1>1. s \in StayRow /\ r \in ResId
  BY DEF LedgerInv, TypeOK, LedgerTypeOK, StayRow
<1>2. closed.res = r /\ closed.status = "checkedOut"
  BY <1>1 DEF StayRow
<1>3. stays' = (stays \ {s}) \cup {closed} /\ UNCHANGED reservations
  BY DEF Leaves, CloseStay
<1> HIDE DEF closed
<1>4. \A q \in ResId \ {r} : Promised(q)' <=> Promised(q)
  BY <1>2, <1>3 DEF Promised, Exists
<1>5. ~Promised(r)'
  BY <1>2, <1>3 DEF Promised
<1>6. Held' = [Held EXCEPT ![r] = Absent]
  BY <1>1, <1>3, <1>4, <1>5 DEF Held
<1>7. CASE Promised(r)
  BY <1>1, <1>6, <1>7, HeldValue DEF Promises!GiveUp
<1>8. CASE ~Promised(r)
  <2>1. Held' = Held
    BY <1>3, <1>4, <1>5, <1>8 DEF Held
  <2> QED BY <1>1, <2>1
<1> QED BY <1>7, <1>8

\* Every step of the handlers is a step of RoomPromises or leaves it alone.
LEMMA StepKeepsPromises ==
  ASSUME LedgerInv, LedgerInv', [Next]_vars
  PROVE  [Promises!Next]_Held
<1>1. CASE UNCHANGED <<reservations, stays>>
  BY <1>1 DEF Held, Promised, Exists
<1>2. ASSUME NEW r \in ResId, NEW s \in Selection, Books(r, s)
      PROVE  [Promises!Next]_Held
  BY <1>2, BooksKeepsPromises DEF Promises!Next
<1>3. ASSUME NEW r \in ResId, Drops(r)
      PROVE  [Promises!Next]_Held
  BY <1>3, DropsKeepsPromises DEF Promises!Next
<1>4. ASSUME NEW t \in Token, NEW r \in ResId, NEW s \in Selection,
             Fresh(t), Moves(r, <<"adjust", t>>, s)
      PROVE  [Promises!Next]_Held
  BY <1>4, MovesKeepsPromises DEF Promises!Next
<1>5. ASSUME NEW r \in ResId, Lodges(r)
      PROVE  [Promises!Next]_Held
  BY <1>5, LodgesKeepsPromises
<1>6. ASSUME NEW s \in stays, Leaves(s)
      PROVE  [Promises!Next]_Held
  BY <1>6, LeavesKeepsPromises DEF Promises!Next
<1> QED BY <1>1, <1>2, <1>3, <1>4, <1>5, <1>6, LedgerStep DEF LedgerInv

\* The handlers implement RoomPromises: whatever drafts, cards, tokens and
\* stays do, a reservation's hold on its room is only granted while the room
\* is free, given up, or handed over whole.
THEOREM ImplementsPromises == Spec => PromisesKept
<1>1. Init => Promises!Init
  BY DEF Init, LedgerInit, Promises!Init, Held, Promised, Exists
<1>2. LedgerInv /\ LedgerInv' /\ [Next]_vars => [Promises!Next]_Held
  BY StepKeepsPromises
<1> QED BY <1>1, <1>2, LedgerInvariant, PTL DEF Spec, PromisesKept, Promises!Spec

\* Two selections share a night in either order.
LEMMA SharesNightSymmetric ==
  ASSUME NEW a, NEW b, Promises!SharesNight(a, b)
  PROVE  Promises!SharesNight(b, a)
BY DEF Promises!SharesNight

\* No hold shares a night with another.
Disjoint ==
  \A r, q \in ResId :
    r # q /\ Held[r] # Absent /\ Held[q] # Absent => ~Promises!SharesNight(Held[r], Held[q])

\* The steps of RoomPromises keep the holds disjoint.
LEMMA PromisesStayDisjoint ==
  ASSUME Disjoint, [Promises!Next]_Held
  PROVE  Disjoint'
<1> DEFINE Old(p) == Held'[p] \in {Held[p], Absent}
<1>1. Held = [p \in ResId |-> Held[p]]
  BY DEF Held
<1>2. ASSUME \A p \in ResId : Old(p)
      PROVE  Disjoint'
  BY <1>2 DEF Disjoint
<1>3. ASSUME NEW r \in ResId, NEW s, NEW leaving, Promises!FreeFor(s, leaving),
             Held'[r] = s, \A p \in ResId \ {r} : Old(p),
             \A p \in leaving \ {r} : Held'[p] = Absent
      PROVE  Disjoint'
  <2>1. \A p \in ResId \ {r} : Held'[p] # Absent => ~Promises!SharesNight(s, Held'[p])
    BY <1>3 DEF Promises!FreeFor
  <2>2. \A p \in ResId \ {r} : Held'[p] # Absent => ~Promises!SharesNight(Held'[p], s)
    BY <2>1, SharesNightSymmetric
  <2>3. ASSUME NEW p \in ResId \ {r}, NEW q \in ResId \ {r}, p # q,
               Held'[p] # Absent, Held'[q] # Absent
        PROVE  ~Promises!SharesNight(Held'[p], Held'[q])
    BY <1>3, <2>3 DEF Disjoint
  <2> QED BY <1>3, <2>1, <2>2, <2>3 DEF Disjoint
<1>4. CASE UNCHANGED Held
  BY <1>2, <1>4
<1>5. ASSUME Promises!Grant
      PROVE  Disjoint'
  <2> DEFINE granted == {r \in ResId : Held'[r] # Held[r]}
  <2> SUFFICES ASSUME NEW r \in ResId, NEW q \in ResId, r # q,
                      Held'[r] # Absent, Held'[q] # Absent
               PROVE  ~Promises!SharesNight(Held'[r], Held'[q])
    BY DEF Disjoint
  <2>1. ASSUME NEW p \in granted, NEW o \in ResId \ granted, Held'[o] # Absent
        PROVE  ~Promises!SharesNight(Held'[p], Held'[o])
    BY <1>5, <2>1 DEF Promises!Grant, Promises!FreeFor
  <2>2. CASE r \in granted /\ q \in granted
    BY <1>5, <2>2 DEF Promises!Grant
  <2>3. CASE r \in granted /\ q \notin granted
    BY <2>1, <2>3
  <2>4. CASE r \notin granted /\ q \in granted
    BY <2>1, <2>4, SharesNightSymmetric
  <2>5. CASE r \notin granted /\ q \notin granted
    BY <2>5 DEF Disjoint
  <2> QED BY <2>2, <2>3, <2>4, <2>5
<1>6. ASSUME NEW r \in ResId, Promises!GiveUp(r)
      PROVE  Disjoint'
  <2>1. \A p \in ResId : Old(p)
    BY <1>1, <1>6 DEF Promises!GiveUp
  <2> QED BY <1>2, <2>1
<1>7. ASSUME NEW r \in ResId, NEW q \in ResId, NEW s \in Selection, Promises!HandOver(r, q, s)
      PROVE  Disjoint'
  <2>1. /\ Promises!FreeFor(s, {r, q})
        /\ Held'[q] = s
        /\ Held'[r] = Absent
        /\ \A p \in ResId \ {q} : Old(p)
    BY <1>1, <1>7 DEF Promises!HandOver
  <2> QED BY <1>3, <2>1
<1> QED BY <1>4, <1>5, <1>6, <1>7 DEF Promises!Next

\* No room is promised to two reservations for the same night: what one hold
\* guards of another in RoomPromises, the handlers guarantee of the tables.
THEOREM NoDoubleBookingHolds == Spec => []NoDoubleBooking
<1>1. LedgerInv => (NoDoubleBooking <=> Disjoint)
  BY HeldValue DEF NoDoubleBooking, Disjoint
<1>2. Init => Disjoint
  BY DEF Init, LedgerInit, Disjoint, Held, Promised, Exists
<1>3. LedgerInv /\ LedgerInv' /\ Disjoint /\ [Next]_vars => Disjoint'
  BY StepKeepsPromises, PromisesStayDisjoint
<1> QED BY <1>1, <1>2, <1>3, LedgerInvariant, PTL DEF Spec

-----------------------------------------------------------------------------
(* Actions *)

\* What ArrivedGuestKeepsReservation asks of a step, for one reservation.
KeptIfArrived(r) ==
  (/\ Exists(r) /\ reservations[r].status = "booked"
   /\ reservations'[r].status = "cancelled")
    => \A s \in stays : s.res # r

\* A reservation is cancelled only while the read model shows it as booked,
\* that is, before any guest arrived on it.
LEMMA StepKeepsArrived ==
  ASSUME LedgerInv, [Next]_vars, NEW r \in ResId
  PROVE  KeptIfArrived(r)
<1> USE DEF KeptIfArrived
<1>1. \A p \in ResId : Status(p) = "booked" => Latest(p) = Absent
  BY BookedExists DEF LedgerInv
<1>2. \A p \in ResId : Status(p) = "booked" => \A s \in stays : s.res # p
  BY <1>1, LatestStay DEF LedgerInv, StaysOf
<1>3. CASE UNCHANGED reservations
  BY <1>3
<1>4. ASSUME NEW p \in ResId, NEW s \in Selection, Books(p, s)
      PROVE  KeptIfArrived(r)
  BY <1>4 DEF Books, Booking, LedgerInv, TypeOK, LedgerTypeOK
<1>5. ASSUME NEW p \in ResId, Drops(p)
      PROVE  KeptIfArrived(r)
  BY <1>2, <1>5 DEF Drops, LedgerInv, TypeOK, LedgerTypeOK
<1>6. ASSUME NEW p \in ResId, NEW t \in Token, NEW s \in Selection,
             Moves(p, <<"adjust", t>>, s)
      PROVE  KeptIfArrived(r)
  <2>1. CASE r = <<"adjust", t>>
    BY <1>6, <2>1 DEF Moves, Booking, LedgerInv, TypeOK, LedgerTypeOK
  <2>2. CASE r # <<"adjust", t>>
    BY <1>2, <1>6, <2>2 DEF Moves, LedgerInv, TypeOK, LedgerTypeOK
  <2> QED BY <2>1, <2>2
<1>7. ASSUME NEW p \in ResId, Lodges(p)
      PROVE  KeptIfArrived(r)
  BY <1>3, <1>7 DEF Lodges
<1>8. ASSUME NEW s \in stays, Leaves(s)
      PROVE  KeptIfArrived(r)
  BY <1>3, <1>8 DEF Leaves
<1> QED BY <1>3, <1>4, <1>5, <1>6, <1>7, <1>8, LedgerStep DEF LedgerInv

\* Neither a cancel card nor an adjustment takes a reservation from a guest
\* who has arrived, in any order of the calls.
THEOREM ArrivedGuestsStay == Spec => ArrivedGuestKeepsReservation
<1>1. LedgerInv /\ [Next]_vars =>
        [\A r \in ResId :
           (/\ Exists(r) /\ reservations[r].status = "booked"
            /\ reservations'[r].status = "cancelled")
             => \A s \in stays : s.res # r]_vars
  BY StepKeepsArrived DEF KeptIfArrived
<1> QED BY <1>1, LedgerInvariant, PTL DEF Spec, ArrivedGuestKeepsReservation

\* What a booking of r in this step leaves to a live reservation q.
KeepsOff(r, q) ==
  (/\ reservations'[r] # reservations[r] /\ reservations'[r].status = "booked"
   /\ r # q /\ Live(q) /\ reservations'[q] = reservations[q]
   /\ reservations'[r].sel.room \in RoomsHeld(q))
    => Nights(reservations'[r].sel) \cap Nights(reservations[q].sel) = {}

\* Every booking passes one of the two tests for the id it books.
LEMMA StepKeepsOff ==
  ASSUME LedgerInv, [Next]_vars, NEW r \in ResId, NEW q \in ResId
  PROVE  KeepsOff(r, q)
<1> SUFFICES ASSUME reservations'[r] # reservations[r], reservations'[r].status = "booked",
                    r # q, Live(q), reservations'[q] = reservations[q],
                    reservations'[r].sel.room \in RoomsHeld(q)
             PROVE  Nights(reservations'[r].sel) \cap Nights(reservations[q].sel) = {}
  BY DEF KeepsOff
<1>1. ASSUME NEW s \in Selection, reservations'[r] = Booking(s), Free(s, r)
      PROVE  Nights(reservations'[r].sel) \cap Nights(reservations[q].sel) = {}
  <2>1. reservations'[r].sel = s
    BY <1>1 DEF Booking
  <2>2. s.room \in RoomsHeld(q)
    BY <2>1
  <2>3. ASSUME NEW n \in Nights(s)
        PROVE  n \notin Nights(reservations[q].sel)
    BY <1>1, <2>2, FreeAvoidsHeld
  <2> QED BY <2>1, <2>3
<1>2. reservations \in [ResId -> ReservationRow \cup {Absent}]
  BY DEF LedgerInv, TypeOK, LedgerTypeOK
<1>3. CASE UNCHANGED reservations
  BY <1>3
<1>4. ASSUME NEW p \in ResId, NEW s \in Selection, Books(p, s)
      PROVE  Nights(reservations'[r].sel) \cap Nights(reservations[q].sel) = {}
  <2>1. p = r
    BY <1>2, <1>4 DEF Books
  <2>2. reservations'[r] = Booking(s) /\ Free(s, r)
    BY <1>2, <1>4, <2>1 DEF Books
  <2> QED BY <1>1, <2>2
<1>5. ASSUME NEW p \in ResId, Drops(p)
      PROVE  FALSE
  <2>1. Exists(p)
    BY <1>5 DEF Drops, Status
  <2> QED BY <1>2, <1>5, <2>1 DEF Drops, Cancelled, Exists, ReservationRow
<1>6. ASSUME NEW p \in ResId, NEW t \in Token, NEW s \in Selection,
             Moves(p, <<"adjust", t>>, s)
      PROVE  Nights(reservations'[r].sel) \cap Nights(reservations[q].sel) = {}
  <2>1. Exists(p) /\ reservations[p].status = "booked" /\ Live(p)
    BY <1>6, BookedExists DEF Moves, Status, Exists, Live
  <2>2. <<"adjust", t>> \in ResId
    BY DEF ResId
  <2>3. r = <<"adjust", t>> /\ reservations'[r] = Booking(s)
    <3>1. CASE r = <<"adjust", t>>
      BY <1>2, <1>6, <2>2, <3>1 DEF Moves
    <3>2. CASE r # <<"adjust", t>> /\ r = p
      BY <1>2, <1>6, <2>1, <3>2 DEF Moves, Cancelled, Exists, ReservationRow
    <3>3. CASE r # <<"adjust", t>> /\ r # p
      BY <1>2, <1>6, <3>3 DEF Moves
    <3> QED BY <3>1, <3>2, <3>3
  <2>4. q # p
    <3>1. CASE p = <<"adjust", t>>
      BY <2>3, <3>1
    <3>2. CASE p # <<"adjust", t>>
      <4>1. reservations'[p] = Cancelled(reservations[p])
        BY <1>2, <1>6, <3>2 DEF Moves
      <4>2. reservations'[p] # reservations[p]
        BY <1>2, <2>1, <4>1 DEF Cancelled, Exists, ReservationRow
      <4> QED BY <4>2
    <3> QED BY <3>1, <3>2
  <2>5. Free(s, p)
    BY <1>6 DEF Moves, Free
  <2>6. s.room \in RoomsHeld(q) /\ reservations'[r].sel = s
    BY <2>3 DEF Booking
  <2>7. ASSUME NEW n \in Nights(s)
        PROVE  n \notin Nights(reservations[q].sel)
    BY <2>4, <2>5, <2>6, FreeAvoidsHeld
  <2> QED BY <2>6, <2>7
<1>7. ASSUME NEW p \in ResId, Lodges(p)
      PROVE  FALSE
  BY <1>7 DEF Lodges
<1>8. ASSUME NEW s \in stays, Leaves(s)
      PROVE  FALSE
  BY <1>8 DEF Leaves
<1> QED BY <1>3, <1>4, <1>5, <1>6, <1>7, <1>8, LedgerStep DEF LedgerInv

\* A booking, by card, directly or by adjustment, keeps off the nights of every
\* other reservation that holds its room at the time: the room it was booked
\* for, and the room its guest was last checked in to instead.
THEOREM BookingsKeepOffHeldRooms == Spec => BookingsKeepOff
<1>1. LedgerInv /\ [Next]_vars =>
        [\A r, q \in ResId :
           (/\ reservations'[r] # reservations[r] /\ reservations'[r].status = "booked"
            /\ r # q /\ reservations'[q] = reservations[q]
            /\ Live(q) /\ reservations'[r].sel.room \in RoomsHeld(q))
             => Nights(reservations'[r].sel) \cap Nights(reservations[q].sel) = {}]_vars
  BY StepKeepsOff DEF KeepsOff
<1> QED BY <1>1, LedgerInvariant, PTL DEF Spec, BookingsKeepOff

\* The id of a direct booking comes into being only when its token books.
LEMMA CreateIdsAppear ==
  ASSUME LedgerInv, [Next]_vars, NEW t \in Token,
         ~Exists(<<"create", t>>), Exists(<<"create", t>>)'
  PROVE  \E s \in Selection : CreateReservation(t, s)
<1>1. PICK q \in ResId : q = <<"create", t>> /\ q \notin DraftId
  BY DEF ResId, DraftId
<1>2. reservations[q] = Absent /\ reservations'[q] # Absent
  BY <1>1 DEF Exists
<1>3. reservations \in [ResId -> ReservationRow \cup {Absent}]
  BY DEF LedgerInv, TypeOK, LedgerTypeOK
<1>4. \A p \in ResId : Status(p) = "booked" => p # q
  BY <1>2, BookedExists, AbsentAssumption DEF LedgerInv
<1>5. ASSUME NEW u \in Token PROVE ~DraftStep(u)
  BY <1>2 DEF DraftStep, CreateDraft, UpdateDraft, QuoteDraft, PrepareConfirm,
              CancelDraft, PrepareBooking, ledgerVars
<1>6. ASSUME NEW u \in Token PROVE ~CardStep(u)
  <2>1. ASSUME NEW d \in DraftId, ConfirmPending(u, d) PROVE FALSE
    BY <1>1, <1>2, <1>3, <2>1 DEF ConfirmPending
  <2>2. ASSUME NEW d \in DraftId, ExpirePending(u, d) \/ CancelPending(u, d) PROVE FALSE
    BY <1>2, <2>2 DEF ExpirePending, CancelPending, ledgerVars
  <2> QED BY <2>1, <2>2 DEF CardStep
<1>7. ASSUME NEW u \in Token PROVE ~CancelStep(u)
  <2>1. ASSUME NEW c \in Token, ConfirmCancel(u, c) PROVE FALSE
    <3>1. cancels[c].res \in ResId
      BY <2>1 DEF ConfirmCancel, CancelAwaits, LedgerInv, TypeOK, CancelAction
    <3>2. cancels[c].res # q
      BY <1>4, <2>1, <3>1 DEF ConfirmCancel
    <3> QED BY <1>2, <1>3, <2>1, <3>1, <3>2 DEF ConfirmCancel
  <2>2. ASSUME NEW r \in ResId, PrepareCancel(u, r) PROVE FALSE
    BY <1>2, <2>2 DEF PrepareCancel, ledgerVars
  <2>3. ASSUME NEW c \in Token, ExpireCancel(u, c) \/ DeclineCancel(u, c) PROVE FALSE
    BY <1>2, <2>3 DEF ExpireCancel, DeclineCancel, ledgerVars
  <2> QED BY <2>1, <2>2, <2>3 DEF CancelStep
<1>8. ASSUME NEW u \in Token, DirectStep(u)
      PROVE  u = t /\ \E s \in Selection : CreateReservation(u, s)
  <2>1. ASSUME NEW r \in ResId, NEW s \in Selection, Adjust(u, r, s) PROVE FALSE
    <3>1. r # q /\ <<"adjust", u>> # q
      BY <1>1, <1>4, <2>1 DEF Adjust
    <3> QED BY <1>2, <1>3, <2>1, <3>1 DEF Adjust
  <2>2. ASSUME NEW s \in Selection, CreateReservation(u, s) PROVE u = t
    <3>1. <<"create", u>> = q
      BY <1>2, <1>3, <2>2 DEF CreateReservation
    <3> QED BY <1>1, <3>1
  <2>3. ASSUME NEW room \in Room, NEW r \in ResId \cup {Absent}, NEW at \in Clock,
               CheckIn(u, room, r, at)
        PROVE  FALSE
    BY <1>2, <2>3 DEF CheckIn
  <2>4. ASSUME NEW room \in Room, NEW at \in Clock,
               NEW s \in InHouse(room) \cup {Absent}, CheckOut(u, room, s, at)
        PROVE  FALSE
    BY <1>2, <2>4 DEF CheckOut
  <2>5. ASSUME AnswerOnly(u) \/ Replay(u) PROVE FALSE
    BY <1>2, <2>5 DEF AnswerOnly, Replay, ledgerVars, vars
  <2> QED BY <1>8, <2>1, <2>2, <2>3, <2>4, <2>5 DEF DirectStep
<1>9. CASE UNCHANGED vars
  BY <1>2, <1>9 DEF vars
<1> QED BY <1>5, <1>6, <1>7, <1>8, <1>9 DEF Next

\* What SleepersKeepTheirNights asks of a step, for the direct booking of t.
SleeperKept(t, s) ==
  LET r == <<"create", t>>
  IN (/\ ~Exists(r) /\ Exists(r)'
      /\ s.status = "inHouse" /\ s.room = reservations'[r].sel.room)
       => \A n \in Nights(reservations'[r].sel) :
            n < DayOf[s.since] \/ reservations[s.res].sel.to <= n

\* A direct booking asks the stays themselves, night by night.
LEMMA StepKeepsSleepers ==
  ASSUME LedgerInv, [Next]_vars, NEW t \in Token, NEW s \in stays
  PROVE  SleeperKept(t, s)
<1> DEFINE r == <<"create", t>>
<1> SUFFICES ASSUME ~Exists(r), Exists(r)', s.status = "inHouse",
                    s.room = reservations'[r].sel.room,
                    NEW n \in Nights(reservations'[r].sel)
             PROVE  n < DayOf[s.since] \/ reservations[s.res].sel.to <= n
  BY DEF SleeperKept
<1>1. PICK sel \in Selection : CreateReservation(t, sel)
  BY CreateIdsAppear
<1>2. reservations'[r].sel = sel
  <2>1. r \in ResId
    BY DEF ResId
  <2> QED BY <1>1, <2>1 DEF CreateReservation, Booking, LedgerInv, TypeOK, LedgerTypeOK
<1>3. n \in Nights(sel) /\ s \in InHouse(sel.room)
  BY <1>2 DEF InHouse
<1>4. ~(DayOf[s.since] <= n /\ n < reservations[s.res].sel.to)
  BY <1>1, <1>3 DEF CreateReservation, Available, Slept
<1>5. n \in Int
  BY <1>3, SelectionAssumption DEF Nights
<1>6. s \in StayRow /\ reservations[s.res] \in ReservationRow
  BY DEF LedgerInv, StaysAreBooked, Exists, TypeOK, LedgerTypeOK, StayRow
<1>7. DayOf[s.since] \in Int
  BY <1>6, DayAssumption DEF StayRow, Clock
<1>8. reservations[s.res].sel.to \in Int
  BY <1>6, SelectionAssumption DEF ReservationRow
<1> QED BY <1>4, <1>5, <1>7, <1>8

\* A guest who is in house keeps the nights up to the departure of the
\* reservation against every direct booking, whatever the read model shows of
\* it and whatever the clocks of the clients said.
THEOREM SleepersAreKept == Spec => SleepersKeepTheirNights
<1>1. LedgerInv /\ [Next]_vars =>
        [\A t \in Token, s \in stays :
           LET r == <<"create", t>>
           IN (/\ ~Exists(r) /\ Exists(r)'
               /\ s.status = "inHouse" /\ s.room = reservations'[r].sel.room)
                => \A n \in Nights(reservations'[r].sel) :
                     n < DayOf[s.since] \/ reservations[s.res].sel.to <= n]_vars
  BY StepKeepsSleepers DEF SleeperKept
<1> QED BY <1>1, LedgerInvariant, PTL DEF Spec, SleepersKeepTheirNights

\* No handler writes to the ledger without storing the response of its token.
LEMMA StepIsAnswered ==
  ASSUME [Next]_vars, ledgerVars' # ledgerVars
  PROVE  \E t \in Token \ idem : idem' = idem \cup {t}
<1> DEFINE Answered == \E t \in Token \ idem : idem' = idem \cup {t}
<1>1. ASSUME NEW t \in Token, DraftStep(t)
      PROVE  Answered
  BY <1>1 DEF DraftStep, CreateDraft, UpdateDraft, QuoteDraft, PrepareConfirm,
              CancelDraft, PrepareBooking
<1>2. ASSUME NEW t \in Token, CardStep(t)
      PROVE  Answered
  BY <1>2 DEF CardStep, ExpirePending, ConfirmPending, CancelPending, Fresh, Answer
<1>3. ASSUME NEW t \in Token, CancelStep(t)
      PROVE  Answered
  BY <1>3 DEF CancelStep, PrepareCancel, ExpireCancel, ConfirmCancel, DeclineCancel,
              Fresh, Answer
<1>4. ASSUME NEW t \in Token, DirectStep(t)
      PROVE  Answered
  BY <1>4 DEF DirectStep, Adjust, CreateReservation, CheckIn, CheckOut, AnswerOnly,
              Replay, vars, ledgerVars, Fresh, Answer
<1> QED BY <1>1, <1>2, <1>3, <1>4 DEF Next, vars, ledgerVars

\* A retry with the token of a call that wrote to the ledger finds its answer.
THEOREM WritesAreAnswered == Spec => LedgerWritesAreAnswered
<1>1. [Next]_vars =>
        [ledgerVars' # ledgerVars => \E t \in Token \ idem : idem' = idem \cup {t}]_vars
  BY StepIsAnswered
<1> QED BY <1>1, PTL DEF Spec, LedgerWritesAreAnswered

\* What AdjustMovesOnePromise asks of a step, for the adjustment of token t.
MovesOne(t) ==
  (~Exists(<<"adjust", t>>) /\ Exists(<<"adjust", t>>)')
    => /\ Cardinality({r \in ResId : Promised(r) /\ ~Promised(r)'}) = 1
       /\ {r \in ResId : ~Promised(r) /\ Promised(r)'} = {<<"adjust", t>>}

\* The id of an adjustment comes into being only by a move, and the move is
\* the only change of promises in its step.
LEMMA StepMovesOne ==
  ASSUME LedgerInv, LedgerInv', [Next]_vars, NEW t \in Token
  PROVE  MovesOne(t)
<1> SUFFICES ASSUME ~Exists(<<"adjust", t>>), Exists(<<"adjust", t>>)'
             PROVE  /\ Cardinality({r \in ResId : Promised(r) /\ ~Promised(r)'}) = 1
                    /\ {r \in ResId : ~Promised(r) /\ Promised(r)'} = {<<"adjust", t>>}
  BY DEF MovesOne
<1>1. PICK q \in ResId : q = <<"adjust", t>> /\ q \in AdjustId
  BY DEF ResId, AdjustId
<1>2. reservations[q] = Absent /\ reservations'[q] # Absent
  BY <1>1 DEF Exists
<1>3. ~UNCHANGED reservations
  BY <1>2
<1>4. ASSUME NEW r \in ResId \ AdjustId, NEW s \in Selection, Books(r, s)
      PROVE  FALSE
  BY <1>1, <1>2, <1>4 DEF Books, LedgerInv, TypeOK, LedgerTypeOK
<1>5. ASSUME NEW r \in ResId, Drops(r)
      PROVE  FALSE
  <2>1. reservations[r] # Absent
    BY <1>5, BookedExists, AbsentAssumption DEF Drops, LedgerInv
  <2> QED BY <1>2, <1>5, <2>1 DEF Drops, LedgerInv, TypeOK, LedgerTypeOK
<1>6. ~\E r \in ResId : Lodges(r)
  BY <1>3 DEF Lodges
<1>7. ~\E s \in stays : Leaves(s)
  BY <1>3 DEF Leaves
<1>8. PICK u \in Token, r \in ResId, s \in Selection : Fresh(u) /\ Moves(r, <<"adjust", u>>, s)
  BY <1>3, <1>4, <1>5, <1>6, <1>7, LedgerStep DEF LedgerInv
<1>9. q = <<"adjust", u>>
  <2>1. reservations[r] # Absent
    BY <1>8, BookedExists, AbsentAssumption DEF Moves, LedgerInv
  <2> QED BY <1>2, <1>8, <2>1 DEF Moves, LedgerInv, TypeOK, LedgerTypeOK
<1>10. /\ r # q
       /\ Promised(r) /\ ~Promised(r)'
       /\ ~Promised(q) /\ Promised(q)'
       /\ \A p \in ResId \ {r, q} : Promised(p)' <=> Promised(p)
  BY <1>8, <1>9, MovesOnePromise
<1>11. {p \in ResId : Promised(p) /\ ~Promised(p)'} = {r}
  BY <1>10
<1>12. {p \in ResId : ~Promised(p) /\ Promised(p)'} = {q}
  BY <1>10
<1> QED BY <1>1, <1>11, <1>12, FS_Singleton

\* An adjustment moves one promise: with its replacement, exactly one promised
\* original is given up, and nothing else changes hands.
THEOREM AdjustmentsMoveOne == Spec => AdjustMovesOnePromise
<1>1. LedgerInv /\ LedgerInv' /\ [Next]_vars =>
        [\A t \in Token :
           (~Exists(<<"adjust", t>>) /\ Exists(<<"adjust", t>>)')
             => /\ Cardinality({r \in ResId : Promised(r) /\ ~Promised(r)'}) = 1
                /\ {r \in ResId : ~Promised(r) /\ Promised(r)'} = {<<"adjust", t>>}]_vars
  BY StepMovesOne DEF MovesOne
<1> QED BY <1>1, LedgerInvariant, PTL DEF Spec, AdjustMovesOnePromise

-----------------------------------------------------------------------------
(* The ledger and the inventory.  Inventory derives its tables from claims   *)
(* and implements RoomCalendar; here the claims are read off the ledger, and *)
(* the night-by-night test of a direct booking is what that calendar offers. *)

\* The reservations a room is held for, the stays in house, the closed rooms.
LedgerClaims ==
  {[kind |-> "reservation", room |-> x[2], from |-> reservations[x[1]].sel.from,
    to |-> reservations[x[1]].sel.to] :
     x \in {y \in ResId \X Room : Live(y[1]) /\ y[2] \in RoomsHeld(y[1])}}
  \cup {[kind |-> "stay", room |-> s.room, from |-> DayOf[s.since],
         to |-> reservations[s.res].sel.to] : s \in {u \in stays : u.status = "inHouse"}}
  \cup {[kind |-> "sale", room |-> room, from |-> Absent, to |-> Absent] : room \in Closed}

Calendar == INSTANCE RoomCalendar
  WITH Room <- Catalog, claims <- LedgerClaims, Longest <- HorizonCap, answer <- Absent,
       Claim <- [kind : {"block", "sale", "stay", "reservation"}, room : Room,
                 from : Int \cup {Absent}, to : Int \cup {Absent}]

\* What a live reservation, a stay and a closed room claim.
LEMMA ClaimsOfLedger ==
  ASSUME LedgerInv, NEW room \in Catalog, NEW n \in Int
  PROVE  Calendar!On(room, n) = {} <=>
           room \notin Closed /\ ~Reserved(room, n) /\ ~Slept(room, n)
<1>1. ASSUME NEW r \in ResId, Live(r)
      PROVE  reservations[r] # Absent /\ reservations[r].sel \in Selection
             /\ reservations[r].sel.from \in Int /\ reservations[r].sel.to \in Int
  <2>1. Exists(r)
    BY <1>1 DEF Live, Status
  <2> QED BY <2>1, SelectionAssumption DEF Exists, LedgerInv, TypeOK, LedgerTypeOK, ReservationRow
<1>2. ASSUME NEW s \in stays
      PROVE  DayOf[s.since] \in Int /\ reservations[s.res].sel.to \in Int /\ s.room \in Catalog
  <2>1. s \in StayRow /\ reservations[s.res] # Absent
    BY DEF LedgerInv, StaysAreBooked, Exists, TypeOK, LedgerTypeOK
  <2> QED BY <2>1, DayAssumption, SelectionAssumption
        DEF StayRow, Clock, LedgerInv, TypeOK, LedgerTypeOK, ReservationRow
<1>3. ASSUME room \in Closed
      PROVE  Calendar!On(room, n) # {}
  <2>1. PICK c : c = [kind |-> "sale", room |-> room, from |-> Absent, to |-> Absent]
    OBVIOUS
  <2>2. c \in LedgerClaims
    BY <1>3, <2>1 DEF LedgerClaims
  <2>3. c.room = room /\ c.from = Absent /\ c.to = Absent
    BY <2>1
  <2> QED BY <2>2, <2>3 DEF Calendar!On
<1>4. ASSUME Reserved(room, n)
      PROVE  Calendar!On(room, n) # {}
  <2>1. PICK r \in ResId : Live(r) /\ room \in RoomsHeld(r) /\ n \in Nights(reservations[r].sel)
    BY <1>4 DEF Reserved
  <2>2. PICK c : c = [kind |-> "reservation", room |-> room,
                      from |-> reservations[r].sel.from, to |-> reservations[r].sel.to]
    OBVIOUS
  <2>3. PICK x : x = <<r, room>>
    OBVIOUS
  <2>4. c \in LedgerClaims
    <3>1. x \in {y \in ResId \X Room : Live(y[1]) /\ y[2] \in RoomsHeld(y[1])}
      BY <2>1, <2>3, RoomAssumption
    <3>2. c = [kind |-> "reservation", room |-> x[2], from |-> reservations[x[1]].sel.from,
               to |-> reservations[x[1]].sel.to]
      BY <2>2, <2>3
    <3> QED BY <3>1, <3>2 DEF LedgerClaims
  <2>5. c.room = room /\ c.from <= n /\ n < c.to
    BY <1>1, <2>1, <2>2 DEF Nights
  <2> QED BY <2>4, <2>5 DEF Calendar!On
<1>5. ASSUME Slept(room, n)
      PROVE  Calendar!On(room, n) # {}
  <2>1. PICK s \in InHouse(room) : DayOf[s.since] <= n /\ n < reservations[s.res].sel.to
    BY <1>5 DEF Slept
  <2>2. s \in {u \in stays : u.status = "inHouse"} /\ s.room = room
    BY DEF InHouse
  <2>3. PICK c : c = [kind |-> "stay", room |-> s.room, from |-> DayOf[s.since],
                      to |-> reservations[s.res].sel.to]
    OBVIOUS
  <2>4. c \in LedgerClaims
    BY <2>2, <2>3 DEF LedgerClaims
  <2>5. c.room = room /\ c.from <= n /\ n < c.to
    BY <2>1, <2>2, <2>3
  <2> QED BY <2>4, <2>5 DEF Calendar!On
<1>6. ASSUME NEW c \in Calendar!On(room, n)
      PROVE  room \in Closed \/ Reserved(room, n) \/ Slept(room, n)
  <2>0. /\ c \in LedgerClaims /\ c.room = room
        /\ c.from = Absent \/ c.from <= n
        /\ c.to = Absent \/ n < c.to
    BY DEF Calendar!On
  <2>1. CASE \E x \in {y \in ResId \X Room : Live(y[1]) /\ y[2] \in RoomsHeld(y[1])} :
               c = [kind |-> "reservation", room |-> x[2], from |-> reservations[x[1]].sel.from,
                    to |-> reservations[x[1]].sel.to]
    <3>1. PICK x \in {y \in ResId \X Room : Live(y[1]) /\ y[2] \in RoomsHeld(y[1])} :
               c = [kind |-> "reservation", room |-> x[2], from |-> reservations[x[1]].sel.from,
                    to |-> reservations[x[1]].sel.to]
      BY <2>1
    <3>2. /\ x[1] \in ResId /\ Live(x[1]) /\ room \in RoomsHeld(x[1])
          /\ c.from = reservations[x[1]].sel.from /\ c.to = reservations[x[1]].sel.to
      BY <2>0, <3>1
    <3>3. c.from \in Int /\ c.to \in Int /\ c.from <= n /\ n < c.to
      BY <1>1, <2>0, <3>2, AbsentAssumption
    <3>4. n \in Nights(reservations[x[1]].sel)
      BY <3>2, <3>3 DEF Nights
    <3> QED BY <3>2, <3>4 DEF Reserved
  <2>2. CASE \E s \in {u \in stays : u.status = "inHouse"} :
               c = [kind |-> "stay", room |-> s.room, from |-> DayOf[s.since],
                    to |-> reservations[s.res].sel.to]
    <3>1. PICK s \in {u \in stays : u.status = "inHouse"} :
               c = [kind |-> "stay", room |-> s.room, from |-> DayOf[s.since],
                    to |-> reservations[s.res].sel.to]
      BY <2>2
    <3>2. /\ s \in stays /\ s.status = "inHouse" /\ s.room = room
          /\ c.from = DayOf[s.since] /\ c.to = reservations[s.res].sel.to
      BY <2>0, <3>1
    <3>3. c.from <= n /\ n < c.to
      BY <1>2, <2>0, <3>2, AbsentAssumption
    <3> QED BY <3>2, <3>3 DEF Slept, InHouse
  <2>3. CASE \E other \in Closed :
               c = [kind |-> "sale", room |-> other, from |-> Absent, to |-> Absent]
    BY <2>0, <2>3
  <2> QED BY <2>0, <2>1, <2>2, <2>3 DEF LedgerClaims
<1> QED BY <1>3, <1>4, <1>5, <1>6

\* A direct booking passes its night-by-night test exactly if the calendar of
\* the ledger's claims offers the room for the nights.
AvailableIsOffered ==
  \A sel \in Selection :
    Available(sel) <=> /\ sel.from < sel.to
                       /\ sel.to - sel.from <= HorizonCap
                       /\ sel.room \in Calendar!Free(sel.from, sel.to)

\* The test the reservation handlers use, which this specification states over
\* the ledger, is the answer that Inventory's tables give for the claims of the
\* ledger: the two specifications fit together.
THEOREM AvailabilityIsOffered == Spec => []AvailableIsOffered
<1>1. ASSUME LedgerInv, NEW sel \in Selection
      PROVE  Available(sel) <=> /\ sel.from < sel.to
                                /\ sel.to - sel.from <= HorizonCap
                                /\ sel.room \in Calendar!Free(sel.from, sel.to)
  <2>1. sel.from \in Int /\ sel.to \in Int
    BY SelectionAssumption
  <2>2. CASE sel.from < sel.to
    <3>1. Calendar!Nights(sel.from, sel.to) = Nights(sel)
      BY <2>2 DEF Calendar!Nights, Nights
    <3>2. \A n \in Nights(sel) : n \in Int
      BY <2>1 DEF Nights
    <3>3. sel.from \in Nights(sel)
      BY <2>1, <2>2 DEF Nights
    <3>4. ASSUME sel.room \in Catalog
          PROVE  (\A n \in Nights(sel) : Calendar!On(sel.room, n) = {}) <=>
                    /\ sel.room \notin Closed
                    /\ \A n \in Nights(sel) : ~Reserved(sel.room, n) /\ ~Slept(sel.room, n)
      BY <1>1, <3>2, <3>3, <3>4, ClaimsOfLedger
    <3> QED BY <2>2, <3>1, <3>4, RoomAssumption DEF Available, Calendar!Free
  <2>3. CASE ~(sel.from < sel.to)
    BY <2>3 DEF Available
  <2> QED BY <2>2, <2>3
<1>2. LedgerInv => AvailableIsOffered
  BY <1>1 DEF AvailableIsOffered
<1> QED BY <1>2, LedgerInvariant, PTL
=============================================================================
