------------------------- MODULE ReservationWorkflow -------------------------
(***************************************************************************)
(* The handlers that move a reservation from a draft to a confirmed card   *)
(* to a booking, cancel or adjust it, and check its guest in and out.      *)
(* Each handler runs in one immediate transaction on a synchronous store,  *)
(* so a handler is one action.  Requests come from agents, typed cards and *)
(* the front desk in any order; each carries a client token and its own    *)
(* clock (requestedAt), so "late" - the clock has passed expiresAt - is an *)
(* input of each call and may be true for one call and false for the next. *)
(*                                                                         *)
(* A request whose token is in the idempotency table is answered from the  *)
(* table (replay or conflict) and changes nothing: every action asks for a *)
(* token that is not there.                                                *)
(***************************************************************************)
EXTENDS ReservationLedger

CONSTANT Incomplete   \* slots that lack a guest, a date or a room

DraftId == {"client", "booking"} \X Token

Slots == Selection \cup {Incomplete}

DraftStatus == {"collectingSlots", "quoteReady", "awaitingConfirmation",
                "cancelled", "expired"}
PendingStatus == {"awaitingConfirmation", "confirmed", "cancelled", "expired"}

\* The ref of a quote, of a pending action and of its card is a hash of the
\* draft and its slots, so within a draft the slots stand for the ref.
Pending == [status : PendingStatus, ref : Slots]

Draft == [status : DraftStatus, slots : Slots, missing : BOOLEAN,
          quote : Slots \cup {Absent}, pending : Pending \cup {Absent},
          stamp : Token \cup {Absent}]

CancelAction == [res : ResId, status : PendingStatus, stamp : Token \cup {Absent}]

ASSUME SentinelAssumption == /\ Incomplete # Absent
                             /\ Incomplete \notin Selection
                             /\ Absent \notin Pending
                             /\ Absent \notin Draft
                             /\ Absent \notin CancelAction

VARIABLES
  drafts,   \* drafts[d]: the row of reservation_drafts, or Absent
  cancels,  \* cancels[t]: the cancel action prepared with token t, or Absent
  idem      \* tokens with a stored response

vars == <<reservations, stays, occupied, drafts, cancels, idem>>

TypeOK ==
  /\ LedgerTypeOK
  /\ drafts \in [DraftId -> Draft \cup {Absent}]
  /\ cancels \in [Token -> CancelAction \cup {Absent}]
  /\ idem \subseteq Token

Init ==
  /\ LedgerInit
  /\ drafts = [d \in DraftId |-> Absent]
  /\ cancels = [t \in Token |-> Absent]
  /\ idem = {}

Fresh(t) == t \notin idem

Answer(t) == idem' = idem \cup {t}

\* client_token is unique in the table.  A token that has a stored response
\* never reaches a save, so only the tokens stamped by an expiry, which store
\* no response, are kept in "stamp".  A clash aborts the transaction.
SaveDraft(t, d, row) ==
  /\ \A e \in DraftId \ {d} : drafts[e] # Absent => drafts[e].stamp # t
  /\ drafts' = [drafts EXCEPT ![d] = row]

SaveCancel(t, c, row) ==
  /\ \A e \in Token \ {c} : cancels[e] # Absent => cancels[e].stamp # t
  /\ cancels' = [cancels EXCEPT ![c] = row]

-----------------------------------------------------------------------------
(* Draft operations *)

StatusFromMissing(missing, late) ==
  IF late THEN "expired" ELSE IF missing THEN "collectingSlots" ELSE "quoteReady"

NewDraft(slots, missing, late) ==
  [status |-> StatusFromMissing(missing, late), slots |-> slots, missing |-> missing,
   quote |-> Absent, pending |-> Absent, stamp |-> Absent]

\* A candidate ref may stand in for the room, so incomplete slots need not be
\* reported as missing.
CreateDraft(t, slots, missing, late) ==
  /\ Fresh(t)
  /\ missing => slots = Incomplete
  /\ SaveDraft(t, <<"client", t>>, NewDraft(slots, missing, late))
  /\ Answer(t)
  /\ UNCHANGED <<ledgerVars, cancels>>

\* Mutant: new slots, but the card prepared for the old ones stays.
Updated_keepingCard(draft, slots, missing, late) ==
  IF draft.status = "cancelled"
  THEN [draft EXCEPT !.slots = slots, !.missing = missing, !.stamp = Absent]
  ELSE [NewDraft(slots, missing, late) EXCEPT !.quote = draft.quote,
                                              !.pending = draft.pending]

\* The caller may send its own list of missing slots.
Updated(draft, slots, missing, late) ==
  IF draft.status = "cancelled"
  THEN [draft EXCEPT !.slots = slots, !.missing = missing, !.stamp = Absent]
  ELSE NewDraft(slots, missing, late)

UpdateDraft(t, d, slots, missing, late) ==
  /\ Fresh(t)
  /\ drafts[d] # Absent
  /\ SaveDraft(t, d, Updated(drafts[d], slots, missing, late))
  /\ Answer(t)
  /\ UNCHANGED <<ledgerVars, cancels>>

Inactive(draft, late) == draft.status \in {"cancelled", "expired"} \/ late

Quotable(draft, late) == ~Inactive(draft, late) /\ ~draft.missing

\* A quote leaves an earlier pending action in place.
Quoted(draft) ==
  [draft EXCEPT !.status = "quoteReady", !.quote = draft.slots, !.stamp = Absent]

QuoteDraft(t, d, late) ==
  /\ Fresh(t)
  /\ drafts[d] # Absent
  /\ Quotable(drafts[d], late)
  /\ SaveDraft(t, d, Quoted(drafts[d]))
  /\ Answer(t)
  /\ UNCHANGED <<ledgerVars, cancels>>

Prepared(draft) ==
  [draft EXCEPT !.status = "awaitingConfirmation", !.stamp = Absent,
                !.pending = [status |-> "awaitingConfirmation", ref |-> draft.quote]]

\* Mutant: no quote is required.
PrepareConfirm_unquoted(t, d, late) ==
  /\ Fresh(t)
  /\ drafts[d] # Absent
  /\ Quotable(drafts[d], late)
  /\ SaveDraft(t, d, Prepared(drafts[d]))
  /\ Answer(t)
  /\ UNCHANGED <<ledgerVars, cancels>>

PrepareConfirm(t, d, late) ==
  /\ Fresh(t)
  /\ drafts[d] # Absent
  /\ Quotable(drafts[d], late)
  /\ drafts[d].quote # Absent
  /\ SaveDraft(t, d, Prepared(drafts[d]))
  /\ Answer(t)
  /\ UNCHANGED <<ledgerVars, cancels>>

CancelDraft(t, d) ==
  /\ Fresh(t)
  /\ drafts[d] # Absent
  /\ SaveDraft(t, d, [drafts[d] EXCEPT !.status = "cancelled", !.stamp = Absent])
  /\ Answer(t)
  /\ UNCHANGED <<ledgerVars, cancels>>

\* prepareBooking creates, quotes and prepares a draft under nested tokens.
\* The nested create stores its response: a retry finds the draft as it is by
\* then.  When the quote is refused the handler returns, so the transaction
\* commits the draft alone and the outer token stays unused.
BookingDraft(d, sel, late) ==
  IF drafts[d] = Absent THEN NewDraft(sel, FALSE, late) ELSE drafts[d]

PrepareBooking(t, sel, late) ==
  LET d == <<"booking", t>>
      draft == BookingDraft(d, sel, late)
  IN /\ Fresh(t)
     /\ Available(sel)
     /\ \/ /\ Quotable(draft, late)
           /\ drafts' = [drafts EXCEPT ![d] = Prepared(Quoted(draft))]
           /\ Answer(t)
        \/ /\ ~Quotable(draft, late)
           /\ drafts' = [drafts EXCEPT ![d] = draft]
           /\ UNCHANGED idem
     /\ UNCHANGED <<ledgerVars, cancels>>

-----------------------------------------------------------------------------
(* Card callbacks on a draft's pending action *)

Awaits(draft) == draft.pending # Absent /\ draft.pending.status = "awaitingConfirmation"

\* Status, confirm and cancel all expire a late card first, whatever the
\* status of the draft.  No response is stored.
ExpirePending(t, d) ==
  /\ Fresh(t)
  /\ drafts[d] # Absent
  /\ Awaits(drafts[d])
  /\ SaveDraft(t, d, [drafts[d] EXCEPT !.status = "expired", !.stamp = t,
                                       !.pending.status = "expired"])
  /\ UNCHANGED <<ledgerVars, cancels, idem>>

\* Mutant: the status of the draft is not looked at.
Answerable_anyDraft(draft) == Awaits(draft)

\* A card can be answered while both the draft and its action still await it.
Answerable(draft) == Awaits(draft) /\ draft.status = "awaitingConfirmation"

ConfirmPending(t, d) ==
  /\ Fresh(t)
  /\ drafts[d] # Absent
  /\ Answerable(drafts[d])
  /\ drafts[d].slots # Incomplete
  /\ ~Conflicting(drafts[d].slots, d)
  /\ SaveDraft(t, d, [drafts[d] EXCEPT !.pending.status = "confirmed", !.stamp = Absent])
  /\ reservations' = [reservations EXCEPT ![d] = Booking(drafts[d].slots)]
  /\ Answer(t)
  /\ UNCHANGED <<stays, occupied, cancels>>

CancelPending(t, d) ==
  /\ Fresh(t)
  /\ drafts[d] # Absent
  /\ Answerable(drafts[d])
  /\ SaveDraft(t, d, [drafts[d] EXCEPT !.status = "cancelled", !.stamp = Absent,
                                       !.pending.status = "cancelled"])
  /\ Answer(t)
  /\ UNCHANGED <<ledgerVars, cancels>>

-----------------------------------------------------------------------------
(* Cancelling a booked reservation: prepared first, confirmed on a card *)

PrepareCancel(t, r) ==
  /\ Fresh(t)
  /\ Status(r) = "booked"
  /\ SaveCancel(t, t, [res |-> r, status |-> "awaitingConfirmation", stamp |-> Absent])
  /\ Answer(t)
  /\ UNCHANGED <<ledgerVars, drafts>>

CancelAwaits(c) == cancels[c] # Absent /\ cancels[c].status = "awaitingConfirmation"

ExpireCancel(t, c) ==
  /\ Fresh(t)
  /\ CancelAwaits(c)
  /\ SaveCancel(t, c, [cancels[c] EXCEPT !.status = "expired", !.stamp = t])
  /\ UNCHANGED <<ledgerVars, drafts, idem>>

\* Mutant: the reservation is not read again when the card is confirmed.
ConfirmCancel_unchecked(t, c) ==
  /\ Fresh(t)
  /\ CancelAwaits(c)
  /\ SaveCancel(t, c, [cancels[c] EXCEPT !.status = "confirmed", !.stamp = Absent])
  /\ reservations' = [reservations EXCEPT ![cancels[c].res] = Cancelled(@)]
  /\ Answer(t)
  /\ UNCHANGED <<stays, occupied, drafts>>

ConfirmCancel(t, c) ==
  /\ Fresh(t)
  /\ CancelAwaits(c)
  /\ Status(cancels[c].res) = "booked"
  /\ SaveCancel(t, c, [cancels[c] EXCEPT !.status = "confirmed", !.stamp = Absent])
  /\ reservations' = [reservations EXCEPT ![cancels[c].res] = Cancelled(@)]
  /\ Answer(t)
  /\ UNCHANGED <<stays, occupied, drafts>>

DeclineCancel(t, c) ==
  /\ Fresh(t)
  /\ CancelAwaits(c)
  /\ SaveCancel(t, c, [cancels[c] EXCEPT !.status = "cancelled", !.stamp = Absent])
  /\ Answer(t)
  /\ UNCHANGED <<ledgerVars, drafts>>

-----------------------------------------------------------------------------
(* Direct writes *)

\* Mutant: the original is left booked beside its replacement.
Adjust_keepingOriginal(t, r, sel) ==
  /\ Fresh(t)
  /\ Status(r) = "booked"
  /\ sel.room \in Catalog
  /\ sel.from < sel.to
  /\ ~Conflicting(sel, r)
  /\ reservations' = [reservations EXCEPT ![<<"adjust", t>>] = Booking(sel)]
  /\ Answer(t)
  /\ UNCHANGED <<stays, occupied, drafts, cancels>>

\* Mutant: the response is not stored, so a retry books again.
CreateReservation_unanswered(t, sel) ==
  /\ Fresh(t)
  /\ Available(sel)
  /\ reservations' = [reservations EXCEPT ![<<"create", t>>] = Booking(sel)]
  /\ UNCHANGED <<stays, occupied, drafts, cancels, idem>>

\* The original is cancelled and a replacement booked under a new id.
Adjust(t, r, sel) ==
  /\ Fresh(t)
  /\ Status(r) = "booked"
  /\ sel.room \in Catalog
  /\ sel.from < sel.to
  /\ ~Conflicting(sel, r)
  /\ reservations' = [reservations EXCEPT ![r] = Cancelled(@),
                                          ![<<"adjust", t>>] = Booking(sel)]
  /\ Answer(t)
  /\ UNCHANGED <<stays, occupied, drafts, cancels>>

CreateReservation(t, sel) ==
  /\ Fresh(t)
  /\ Available(sel)
  /\ reservations' = [reservations EXCEPT ![<<"create", t>>] = Booking(sel)]
  /\ Answer(t)
  /\ UNCHANGED <<stays, occupied, drafts, cancels>>

\* The core command looks at the room alone, the stay hook at the named
\* reservation alone: r is Absent when the request names none that exists.
CheckIn(t, room, r, at) ==
  /\ Fresh(t)
  /\ room \in Catalog \ (Closed \cup occupied)
  /\ occupied' = occupied \cup {room}
  /\ \/ r = Absent /\ UNCHANGED stays
     \/ r # Absent /\ Exists(r) /\ RecordStay(r, room, at)
  /\ Answer(t)
  /\ UNCHANGED <<reservations, drafts, cancels>>

\* With no reservation named the newest in-house stay of the room is closed;
\* s is Absent when the one named does not exist or has no such stay.
CheckOut(t, room, s, at) ==
  /\ Fresh(t)
  /\ room \in occupied
  /\ occupied' = occupied \ {room}
  /\ \/ s = Absent /\ UNCHANGED stays
     \/ s # Absent /\ CloseStay(s, at)
  /\ Answer(t)
  /\ UNCHANGED <<reservations, drafts, cancels>>

\* Status reads, dry runs and rejected room commands store their response and
\* change nothing else.
AnswerOnly(t) ==
  /\ Fresh(t)
  /\ Answer(t)
  /\ UNCHANGED <<ledgerVars, drafts, cancels>>

\* A used token is answered from the table: replay or conflict, no write.
Replay(t) ==
  /\ ~Fresh(t)
  /\ UNCHANGED vars

-----------------------------------------------------------------------------
DraftStep(t) ==
  \/ \E slots \in Slots, missing, late \in BOOLEAN : CreateDraft(t, slots, missing, late)
  \/ \E d \in DraftId, slots \in Slots, missing, late \in BOOLEAN :
       UpdateDraft(t, d, slots, missing, late)
  \/ \E d \in DraftId, late \in BOOLEAN : QuoteDraft(t, d, late)
  \/ \E d \in DraftId, late \in BOOLEAN : PrepareConfirm(t, d, late)
  \/ \E d \in DraftId : CancelDraft(t, d)
  \/ \E sel \in Selection, late \in BOOLEAN : PrepareBooking(t, sel, late)

CardStep(t) ==
  \/ \E d \in DraftId : ExpirePending(t, d)
  \/ \E d \in DraftId : ConfirmPending(t, d)
  \/ \E d \in DraftId : CancelPending(t, d)

CancelStep(t) ==
  \/ \E r \in ResId : PrepareCancel(t, r)
  \/ \E c \in Token : ExpireCancel(t, c)
  \/ \E c \in Token : ConfirmCancel(t, c)
  \/ \E c \in Token : DeclineCancel(t, c)

DirectStep(t) ==
  \/ \E r \in ResId, sel \in Selection : Adjust(t, r, sel)
  \/ \E sel \in Selection : CreateReservation(t, sel)
  \/ \E room \in Room, r \in ResId \cup {Absent}, at \in Clock : CheckIn(t, room, r, at)
  \/ \E room \in Room, at \in Clock : \E s \in InHouse(room) \cup {Absent} :
       CheckOut(t, room, s, at)
  \/ AnswerOnly(t)
  \/ Replay(t)

Next == \E t \in Token : DraftStep(t) \/ CardStep(t) \/ CancelStep(t) \/ DirectStep(t)

Spec == Init /\ [][Next]_vars
-----------------------------------------------------------------------------
(* Properties *)

\* A reservation is promised its room from its booking until it is cancelled
\* or its guest has checked out.
Promised(r) ==
  /\ Exists(r)
  /\ reservations[r].status = "booked"
  /\ \A s \in stays : s.res = r => s.status = "inHouse"

Held == [r \in ResId |-> IF Promised(r) THEN reservations[r].sel ELSE Absent]

Promises == INSTANCE RoomPromises WITH held <- Held

\* No room is promised to two reservations for the same night, whichever of
\* the three ways to book each came by, whatever was checked in where, and
\* although a draft's id can be booked again after a cancellation: the range
\* test of confirm and adjust and the night test of create agree.
NoDoubleBooking ==
  \A r, q \in ResId :
    (r # q /\ Promised(r) /\ Promised(q))
      => ~Promises!SharesNight(reservations[r].sel, reservations[q].sel)

\* While a draft is open its pending action was prepared for the slots it has
\* now: an update in between withdraws the card, so that what a late answer to
\* it can commit is what the card showed.
CardBindsSelection ==
  \A d \in DraftId :
    (/\ drafts[d] # Absent
     /\ drafts[d].status \notin {"cancelled", "expired"}
     /\ drafts[d].pending # Absent)
      => /\ drafts[d].pending.ref = drafts[d].slots
         /\ drafts[d].quote = drafts[d].slots

\* A draft becomes a booking only in the step that turns its awaiting card
\* into a confirmed one, and the booking is the selection on the card.
\* Preparing, reading or answering a card twice never books, not even after
\* the reservation was cancelled or moved.
OnlyCardConfirmationCommits ==
  [][\A d \in DraftId :
       (reservations'[d] # reservations[d] /\ reservations'[d].status = "booked")
         => /\ drafts[d].pending.status = "awaitingConfirmation"
            /\ drafts'[d].pending.status = "confirmed"
            /\ reservations'[d].sel = drafts[d].pending.ref]_vars

\* A cancel card prepared while a reservation was booked cannot take it away
\* from a guest who has arrived since, and neither can an adjustment.
ArrivedGuestKeepsReservation ==
  [][\A r \in ResId :
       (/\ Exists(r) /\ reservations[r].status = "booked"
        /\ reservations'[r].status = "cancelled")
         => \A s \in stays : s.res # r]_vars

\* A booking, by card, directly or by adjustment, takes no night of another
\* live reservation that holds the room at the time: as the room it was booked
\* for, or as the room its guest was last checked in to instead.
BookingsKeepOff ==
  [][\A r, q \in ResId :
       (/\ reservations'[r] # reservations[r] /\ reservations'[r].status = "booked"
        /\ r # q /\ reservations'[q] = reservations[q]
        /\ Live(q) /\ reservations'[r].sel.room \in RoomsHeld(q))
         => Nights(reservations'[r].sel) \cap Nights(reservations[q].sel) = {}]_vars

\* A direct booking takes no night of a room in which a guest is in house, up
\* to the departure of the guest's reservation.  The clocks of clients do not
\* matter, nor does the read model, which shows that guest as checked out once
\* another stay of the same reservation was closed with a later timestamp.
SleepersKeepTheirNights ==
  [][\A t \in Token, s \in stays :
       LET r == <<"create", t>>
       IN (/\ ~Exists(r) /\ Exists(r)'
           /\ s.status = "inHouse" /\ s.room = reservations'[r].sel.room)
            => \A n \in Nights(reservations'[r].sel) :
                 n < DayOf[s.since] \/ reservations[s.res].sel.to <= n]_vars

\* An adjustment moves one promise: the replacement appears in the step in
\* which exactly one promised original is given up, never besides it.
AdjustMovesOnePromise ==
  [][\A t \in Token :
       (~Exists(<<"adjust", t>>) /\ Exists(<<"adjust", t>>)')
         => /\ Cardinality({r \in ResId : Promised(r) /\ ~Promised(r)'}) = 1
            /\ {r \in ResId : ~Promised(r) /\ Promised(r)'} = {<<"adjust", t>>}]_vars

\* Whatever a handler writes to the ledger it writes together with the stored
\* response of an unused token, so a retry with that token writes nothing more.
LedgerWritesAreAnswered ==
  [][ledgerVars' # ledgerVars => \E t \in Token \ idem : idem' = idem \cup {t}]_vars

\* Every step grants, gives up or hands over promises as RoomPromises allows.
PromisesKept == Promises!Spec
=============================================================================
