---------------------- MODULE ReservationWorkflow_proofs ----------------------
(***************************************************************************)
(* Theorems about ReservationWorkflow, for any tokens, rooms, selections   *)
(* and days.                                                               *)
(***************************************************************************)
EXTENDS ReservationWorkflow, WellFoundedInduction, TLAPS

-----------------------------------------------------------------------------
(* Types *)

\* The initial tables are empty.
LEMMA InitTypeOK == Init => TypeOK
BY DEF Init, LedgerInit, TypeOK, LedgerTypeOK

\* Writing one row of the drafts table keeps its type.
LEMMA SaveDraftType ==
  ASSUME NEW t, NEW d \in DraftId, NEW row \in Draft, TypeOK, SaveDraft(t, d, row)
  PROVE  drafts' \in [DraftId -> Draft \cup {Absent}]
BY DEF SaveDraft, TypeOK

\* Writing one row of the cancel actions table keeps its type.
LEMMA SaveCancelType ==
  ASSUME NEW t, NEW c \in Token, NEW row \in CancelAction, TypeOK, SaveCancel(t, c, row)
  PROVE  cancels' \in [Token -> CancelAction \cup {Absent}]
BY DEF SaveCancel, TypeOK

\* A new or rewritten draft row is a draft.
LEMMA NewDraftType ==
  ASSUME NEW slots \in Slots, NEW missing \in BOOLEAN, NEW late \in BOOLEAN
  PROVE  NewDraft(slots, missing, late) \in Draft
BY DEF NewDraft, Draft, StatusFromMissing, DraftStatus

\* Each change a handler makes to a draft row yields a draft row.
LEMMA DraftRowTypes ==
  ASSUME NEW draft \in Draft, NEW slots \in Slots, NEW missing \in BOOLEAN,
         NEW late \in BOOLEAN
  PROVE  /\ Updated(draft, slots, missing, late) \in Draft
         /\ Quoted(draft) \in Draft
         /\ draft.quote # Absent => Prepared(draft) \in Draft
<1>1. Updated(draft, slots, missing, late) \in Draft
  BY NewDraftType DEF Updated, Draft
<1>2. Quoted(draft) \in Draft
  BY DEF Quoted, Draft, DraftStatus
<1>3. ASSUME draft.quote # Absent PROVE Prepared(draft) \in Draft
  <2>1. draft.quote \in Slots
    BY <1>3 DEF Draft
  <2>2. [status |-> "awaitingConfirmation", ref |-> draft.quote] \in Pending
    BY <2>1 DEF Pending, PendingStatus
  <2> QED BY <2>2 DEF Prepared, Draft, DraftStatus
<1> QED BY <1>1, <1>2, <1>3

\* Changing the status of a pending action yields a draft row.
LEMMA PendingRowTypes ==
  ASSUME NEW draft \in Draft, Awaits(draft), NEW s \in DraftStatus,
         NEW p \in PendingStatus, NEW stamp \in Token \cup {Absent}
  PROVE  [draft EXCEPT !.status = s, !.stamp = stamp, !.pending.status = p] \in Draft
<1>1. draft.pending \in Pending
  BY DEF Awaits, Draft
<1>2. [draft.pending EXCEPT !.status = p] \in Pending
  BY <1>1 DEF Pending
<1> QED BY <1>2 DEF Draft

\* Booking and cancelling yield reservation rows.
LEMMA ReservationRowTypes ==
  /\ \A s \in Selection : Booking(s) \in ReservationRow
  /\ \A row \in ReservationRow : Cancelled(row) \in ReservationRow
BY DEF Booking, Cancelled, ReservationRow

\* Only a reservation that exists and has no stay has status "booked".
LEMMA BookedExists ==
  ASSUME NEW r \in ResId, TypeOK, Status(r) = "booked"
  PROVE  /\ reservations[r] \in ReservationRow
         /\ reservations[r].status = "booked"
         /\ Latest(r) = Absent
BY DEF Status, Exists, TypeOK, LedgerTypeOK

\* The naturals are well ordered.
LEMMA NatHasLeast ==
  ASSUME NEW T \in SUBSET Nat, T # {}
  PROVE  \E x \in T : \A y \in T : x <= y
<1> DEFINE R == OpToRel(<, Nat)
<1>1. IsWellFoundedOn(R, Nat)
  BY NatLessThanWellFounded, Zenon
<1> HIDE DEF R
<1>2. PICK x \in T : \A y \in T : ~(<<y, x>> \in R)
  BY <1>1, WFMin
<1>3. \A y \in T : ~(y < x)
  BY <1>2 DEF R, OpToRel
<1> QED BY <1>3

\* The query for the newest stay of a reservation finds one if it has any: no
\* stay of it was written later.
LEMMA LatestStay ==
  ASSUME TypeOK, NEW r \in ResId
  PROVE  /\ StaysOf(r) = {} => Latest(r) = Absent
         /\ StaysOf(r) # {} => /\ Latest(r) \in stays
                               /\ Latest(r).res = r
                               /\ Latest(r) # Absent
                               /\ \A o \in StaysOf(r) : o.updated <= Latest(r).updated
<1>1. StaysOf(r) = {} => Latest(r) = Absent
  BY DEF Latest
<1>2. ASSUME StaysOf(r) # {}
      PROVE  \E s \in StaysOf(r) : \A o \in StaysOf(r) : o.updated <= s.updated
  <2>1. \A s \in StaysOf(r) : Instants - s.updated \in Nat /\ s.updated \in Int
    BY DayAssumption DEF StaysOf, TypeOK, LedgerTypeOK, StayRow, Clock
  <2> DEFINE T == {Instants - s.updated : s \in StaysOf(r)}
  <2>2. T \in SUBSET Nat /\ T # {}
    BY <1>2, <2>1
  <2>3. PICK x \in T : \A y \in T : x <= y
    <3> HIDE DEF T
    <3> QED BY <2>2, NatHasLeast
  <2>4. PICK s \in StaysOf(r) : x = Instants - s.updated
    OBVIOUS
  <2>5. ASSUME NEW o \in StaysOf(r) PROVE o.updated <= s.updated
    <3>1. Instants - s.updated <= Instants - o.updated
      BY <2>3, <2>4
    <3> QED BY <2>1, <3>1, DayAssumption
  <2> QED BY <2>5
<1>3. ASSUME StaysOf(r) # {}
      PROVE  /\ Latest(r) \in StaysOf(r)
             /\ \A o \in StaysOf(r) : o.updated <= Latest(r).updated
  BY <1>2, <1>3 DEF Latest
<1>4. StaysOf(r) \subseteq {s \in StayRow : s.res = r} /\ StaysOf(r) \subseteq stays
  BY DEF StaysOf, TypeOK, LedgerTypeOK
<1> QED BY <1>1, <1>3, <1>4, AbsentAssumption

\* Recording or closing a stay keeps the type of the stays.
LEMMA StayTypes ==
  ASSUME TypeOK
  PROVE  /\ \A r \in ResId, room \in Catalog, at \in Clock :
              RecordStay(r, room, at) => stays' \subseteq StayRow
         /\ \A s \in stays, at \in Clock : CloseStay(s, at) => stays' \subseteq StayRow
<1>1. ASSUME NEW r \in ResId, NEW room \in Catalog, NEW at \in Clock, RecordStay(r, room, at)
      PROVE  stays' \subseteq StayRow
  <2> DEFINE new == [res |-> r, room |-> room, since |-> at, updated |-> at,
                     status |-> "inHouse"]
  <2>1. new \in StayRow
    BY DEF StayRow
  <2> QED BY <1>1, <2>1 DEF RecordStay, TypeOK, LedgerTypeOK
<1>2. ASSUME NEW s \in stays, NEW at \in Clock, CloseStay(s, at)
      PROVE  stays' \subseteq StayRow
  <2>1. s \in StayRow
    BY DEF TypeOK, LedgerTypeOK
  <2>2. [s EXCEPT !.status = "checkedOut", !.updated = at] \in StayRow
    BY <2>1 DEF StayRow
  <2> QED BY <1>2, <2>2 DEF CloseStay, TypeOK, LedgerTypeOK
<1> QED BY <1>1, <1>2

\* A draft operation keeps the types.
LEMMA DraftStepType ==
  ASSUME TypeOK, NEW t \in Token, DraftStep(t)
  PROVE  TypeOK'
<1>1. ASSUME NEW slots \in Slots, NEW missing \in BOOLEAN, NEW late \in BOOLEAN,
             CreateDraft(t, slots, missing, late)
      PROVE  TypeOK'
  <2>1. <<"client", t>> \in DraftId
    BY DEF DraftId
  <2>2. drafts' \in [DraftId -> Draft \cup {Absent}]
    BY <1>1, <2>1, NewDraftType, SaveDraftType DEF CreateDraft
  <2> QED BY <1>1, <2>2 DEF CreateDraft, Answer, TypeOK, LedgerTypeOK, ledgerVars
<1>2. ASSUME NEW d \in DraftId, NEW slots \in Slots, NEW missing \in BOOLEAN,
             NEW late \in BOOLEAN, UpdateDraft(t, d, slots, missing, late)
      PROVE  TypeOK'
  <2>1. drafts[d] \in Draft
    BY <1>2 DEF UpdateDraft, TypeOK
  <2>2. drafts' \in [DraftId -> Draft \cup {Absent}]
    BY <1>2, <2>1, DraftRowTypes, SaveDraftType DEF UpdateDraft
  <2> QED BY <1>2, <2>2 DEF UpdateDraft, Answer, TypeOK, LedgerTypeOK, ledgerVars
<1>3. ASSUME NEW d \in DraftId, NEW late \in BOOLEAN, QuoteDraft(t, d, late)
      PROVE  TypeOK'
  <2>1. drafts[d] \in Draft
    BY <1>3 DEF QuoteDraft, TypeOK
  <2>2. Quoted(drafts[d]) \in Draft
    BY <2>1 DEF Quoted, Draft, DraftStatus
  <2>3. drafts' \in [DraftId -> Draft \cup {Absent}]
    BY <1>3, <2>2, SaveDraftType DEF QuoteDraft
  <2> QED BY <1>3, <2>3 DEF QuoteDraft, Answer, TypeOK, LedgerTypeOK, ledgerVars
<1>4. ASSUME NEW d \in DraftId, NEW late \in BOOLEAN, PrepareConfirm(t, d, late)
      PROVE  TypeOK'
  <2>1. drafts[d] \in Draft /\ drafts[d].quote # Absent
    BY <1>4 DEF PrepareConfirm, TypeOK
  <2>2. Prepared(drafts[d]) \in Draft
    <3>1. PICK slots \in Slots : slots = drafts[d].slots
      BY <2>1 DEF Draft
    <3> QED BY <2>1, <3>1, DraftRowTypes
  <2>3. drafts' \in [DraftId -> Draft \cup {Absent}]
    BY <1>4, <2>2, SaveDraftType DEF PrepareConfirm
  <2> QED BY <1>4, <2>3 DEF PrepareConfirm, Answer, TypeOK, LedgerTypeOK, ledgerVars
<1>5. ASSUME NEW d \in DraftId, CancelDraft(t, d)
      PROVE  TypeOK'
  <2>1. drafts[d] \in Draft
    BY <1>5 DEF CancelDraft, TypeOK
  <2>2. [drafts[d] EXCEPT !.status = "cancelled", !.stamp = Absent] \in Draft
    BY <2>1 DEF Draft, DraftStatus
  <2>3. drafts' \in [DraftId -> Draft \cup {Absent}]
    BY <1>5, <2>2, SaveDraftType DEF CancelDraft
  <2> QED BY <1>5, <2>3 DEF CancelDraft, Answer, TypeOK, LedgerTypeOK, ledgerVars
<1>6. ASSUME NEW sel \in Selection, NEW late \in BOOLEAN, PrepareBooking(t, sel, late)
      PROVE  TypeOK'
  <2> DEFINE d == <<"booking", t>>
             draft == BookingDraft(d, sel, late)
  <2>1. d \in DraftId
    BY DEF DraftId
  <2>2. draft \in Draft
    BY <2>1, NewDraftType DEF BookingDraft, TypeOK, Slots
  <2>3. Quoted(draft) \in Draft /\ Quoted(draft).quote # Absent
    BY <2>2, AbsentAssumption, SentinelAssumption DEF Quoted, Draft, DraftStatus, Slots
  <2>4. Prepared(Quoted(draft)) \in Draft
    <3>1. PICK slots \in Slots : slots = draft.slots
      BY <2>2 DEF Draft
    <3> QED BY <2>3, <3>1, DraftRowTypes
  <2>5. drafts' = [drafts EXCEPT ![d] = Prepared(Quoted(draft))]
          \/ drafts' = [drafts EXCEPT ![d] = draft]
    BY <1>6 DEF PrepareBooking
  <2>6. drafts' \in [DraftId -> Draft \cup {Absent}]
    BY <2>1, <2>2, <2>4, <2>5 DEF TypeOK
  <2>7. idem' \subseteq Token
    BY <1>6 DEF PrepareBooking, Answer, TypeOK
  <2> QED BY <1>6, <2>6, <2>7 DEF PrepareBooking, TypeOK, LedgerTypeOK, ledgerVars
<1> QED BY <1>1, <1>2, <1>3, <1>4, <1>5, <1>6 DEF DraftStep

\* A card callback keeps the types.
LEMMA CardStepType ==
  ASSUME TypeOK, NEW t \in Token, CardStep(t)
  PROVE  TypeOK'
<1>1. ASSUME NEW d \in DraftId, ExpirePending(t, d)
      PROVE  TypeOK'
  <2>1. drafts[d] \in Draft /\ Awaits(drafts[d])
    BY <1>1 DEF ExpirePending, TypeOK
  <2>2. [drafts[d] EXCEPT !.status = "expired", !.stamp = t,
                          !.pending.status = "expired"] \in Draft
    BY <2>1, PendingRowTypes DEF DraftStatus, PendingStatus
  <2>3. drafts' \in [DraftId -> Draft \cup {Absent}]
    BY <1>1, <2>2, SaveDraftType DEF ExpirePending
  <2> QED BY <1>1, <2>3 DEF ExpirePending, TypeOK, LedgerTypeOK, ledgerVars
<1>2. ASSUME NEW d \in DraftId, ConfirmPending(t, d)
      PROVE  TypeOK'
  <2>1. drafts[d] \in Draft /\ Awaits(drafts[d])
    BY <1>2 DEF ConfirmPending, Answerable, TypeOK
  <2>2. [drafts[d] EXCEPT !.pending.status = "confirmed", !.stamp = Absent] \in Draft
    <3>1. [drafts[d].pending EXCEPT !.status = "confirmed"] \in Pending
      BY <2>1 DEF Awaits, Draft, Pending, PendingStatus
    <3> QED BY <2>1, <3>1 DEF Draft
  <2>3. drafts' \in [DraftId -> Draft \cup {Absent}]
    BY <1>2, <2>2, SaveDraftType DEF ConfirmPending
  <2>4. Booking(drafts[d].slots) \in ReservationRow
    BY <1>2, <2>1, ReservationRowTypes DEF ConfirmPending, Draft, Slots
  <2>5. reservations' \in [ResId -> ReservationRow \cup {Absent}]
    BY <1>2, <2>4 DEF ConfirmPending, TypeOK, LedgerTypeOK
  <2> QED BY <1>2, <2>3, <2>5 DEF ConfirmPending, Answer, TypeOK, LedgerTypeOK
<1>3. ASSUME NEW d \in DraftId, CancelPending(t, d)
      PROVE  TypeOK'
  <2>1. drafts[d] \in Draft /\ Awaits(drafts[d])
    BY <1>3 DEF CancelPending, Answerable, TypeOK
  <2>2. [drafts[d] EXCEPT !.status = "cancelled", !.stamp = Absent,
                          !.pending.status = "cancelled"] \in Draft
    BY <2>1, PendingRowTypes DEF DraftStatus, PendingStatus
  <2>3. drafts' \in [DraftId -> Draft \cup {Absent}]
    BY <1>3, <2>2, SaveDraftType DEF CancelPending
  <2> QED BY <1>3, <2>3 DEF CancelPending, Answer, TypeOK, LedgerTypeOK, ledgerVars
<1> QED BY <1>1, <1>2, <1>3 DEF CardStep

\* A cancel-workflow operation keeps the types.
LEMMA CancelStepType ==
  ASSUME TypeOK, NEW t \in Token, CancelStep(t)
  PROVE  TypeOK'
<1>1. ASSUME NEW r \in ResId, PrepareCancel(t, r)
      PROVE  TypeOK'
  <2>1. [res |-> r, status |-> "awaitingConfirmation", stamp |-> Absent] \in CancelAction
    BY DEF CancelAction, PendingStatus
  <2>2. cancels' \in [Token -> CancelAction \cup {Absent}]
    BY <1>1, <2>1, SaveCancelType DEF PrepareCancel
  <2> QED BY <1>1, <2>2 DEF PrepareCancel, Answer, TypeOK, LedgerTypeOK, ledgerVars
<1>2. ASSUME NEW c \in Token, ExpireCancel(t, c)
      PROVE  TypeOK'
  <2>1. [cancels[c] EXCEPT !.status = "expired", !.stamp = t] \in CancelAction
    BY <1>2 DEF ExpireCancel, CancelAwaits, TypeOK, CancelAction, PendingStatus
  <2>2. cancels' \in [Token -> CancelAction \cup {Absent}]
    BY <1>2, <2>1, SaveCancelType DEF ExpireCancel
  <2> QED BY <1>2, <2>2 DEF ExpireCancel, TypeOK, LedgerTypeOK, ledgerVars
<1>3. ASSUME NEW c \in Token, ConfirmCancel(t, c)
      PROVE  TypeOK'
  <2>1. cancels[c] \in CancelAction
    BY <1>3 DEF ConfirmCancel, CancelAwaits, TypeOK
  <2>2. [cancels[c] EXCEPT !.status = "confirmed", !.stamp = Absent] \in CancelAction
    BY <2>1 DEF CancelAction, PendingStatus
  <2>3. cancels' \in [Token -> CancelAction \cup {Absent}]
    BY <1>3, <2>2, SaveCancelType DEF ConfirmCancel
  <2>4. cancels[c].res \in ResId
    BY <2>1 DEF CancelAction
  <2>5. reservations[cancels[c].res] \in ReservationRow
    BY <1>3, <2>4, BookedExists DEF ConfirmCancel
  <2>6. reservations' \in [ResId -> ReservationRow \cup {Absent}]
    BY <1>3, <2>4, <2>5, ReservationRowTypes DEF ConfirmCancel, TypeOK, LedgerTypeOK
  <2> QED BY <1>3, <2>3, <2>6 DEF ConfirmCancel, Answer, TypeOK, LedgerTypeOK
<1>4. ASSUME NEW c \in Token, DeclineCancel(t, c)
      PROVE  TypeOK'
  <2>1. [cancels[c] EXCEPT !.status = "cancelled", !.stamp = Absent] \in CancelAction
    BY <1>4 DEF DeclineCancel, CancelAwaits, TypeOK, CancelAction, PendingStatus
  <2>2. cancels' \in [Token -> CancelAction \cup {Absent}]
    BY <1>4, <2>1, SaveCancelType DEF DeclineCancel
  <2> QED BY <1>4, <2>2 DEF DeclineCancel, Answer, TypeOK, LedgerTypeOK, ledgerVars
<1> QED BY <1>1, <1>2, <1>3, <1>4 DEF CancelStep

\* A direct write to the ledger keeps the types.
LEMMA DirectStepType ==
  ASSUME TypeOK, NEW t \in Token, DirectStep(t)
  PROVE  TypeOK'
<1>1. ASSUME NEW r \in ResId, NEW sel \in Selection, Adjust(t, r, sel)
      PROVE  TypeOK'
  <2>1. <<"adjust", t>> \in ResId
    BY DEF ResId
  <2>2. Cancelled(reservations[r]) \in ReservationRow /\ Booking(sel) \in ReservationRow
    BY <1>1, BookedExists, ReservationRowTypes DEF Adjust
  <2>3. reservations' \in [ResId -> ReservationRow \cup {Absent}]
    BY <1>1, <2>1, <2>2 DEF Adjust, TypeOK, LedgerTypeOK
  <2> QED BY <1>1, <2>3 DEF Adjust, Answer, TypeOK, LedgerTypeOK
<1>2. ASSUME NEW sel \in Selection, CreateReservation(t, sel)
      PROVE  TypeOK'
  <2>1. <<"create", t>> \in ResId /\ Booking(sel) \in ReservationRow
    BY ReservationRowTypes DEF ResId
  <2> QED BY <1>2, <2>1 DEF CreateReservation, Answer, TypeOK, LedgerTypeOK
<1>3. ASSUME NEW room \in Room, NEW r \in ResId \cup {Absent}, NEW at \in Clock,
             CheckIn(t, room, r, at)
      PROVE  TypeOK'
  <2>1. room \in Catalog /\ occupied' \subseteq Catalog
    BY <1>3 DEF CheckIn, TypeOK, LedgerTypeOK
  <2>2. stays' \subseteq StayRow
    <3>1. CASE r = Absent /\ UNCHANGED stays
      BY <3>1 DEF TypeOK, LedgerTypeOK
    <3>2. CASE r # Absent /\ RecordStay(r, room, at)
      BY <2>1, <3>2, StayTypes
    <3> QED BY <1>3, <3>1, <3>2 DEF CheckIn
  <2> QED BY <1>3, <2>1, <2>2 DEF CheckIn, Answer, TypeOK, LedgerTypeOK
<1>4. ASSUME NEW room \in Room, NEW at \in Clock, NEW s \in InHouse(room) \cup {Absent},
             CheckOut(t, room, s, at)
      PROVE  TypeOK'
  <2>1. occupied' \subseteq Catalog
    BY <1>4 DEF CheckOut, TypeOK, LedgerTypeOK
  <2>2. stays' \subseteq StayRow
    <3>1. CASE s = Absent /\ UNCHANGED stays
      BY <3>1 DEF TypeOK, LedgerTypeOK
    <3>2. CASE s # Absent /\ CloseStay(s, at)
      BY <3>2, StayTypes DEF InHouse
    <3> QED BY <1>4, <3>1, <3>2 DEF CheckOut
  <2> QED BY <1>4, <2>1, <2>2 DEF CheckOut, Answer, TypeOK, LedgerTypeOK
<1>5. ASSUME AnswerOnly(t)
      PROVE  TypeOK'
  BY <1>5 DEF AnswerOnly, Answer, TypeOK, LedgerTypeOK, ledgerVars
<1>6. ASSUME Replay(t)
      PROVE  TypeOK'
  BY <1>6 DEF Replay, vars, TypeOK, LedgerTypeOK
<1> QED BY <1>1, <1>2, <1>3, <1>4, <1>5, <1>6 DEF DirectStep

\* Every step keeps the types.
LEMMA NextTypeOK == TypeOK /\ [Next]_vars => TypeOK'
<1> SUFFICES ASSUME TypeOK, [Next]_vars
             PROVE  TypeOK'
  OBVIOUS
<1>1. CASE Next
  BY <1>1, DraftStepType, CardStepType, CancelStepType, DirectStepType DEF Next
<1>2. CASE UNCHANGED vars
  BY <1>2 DEF vars, TypeOK, LedgerTypeOK
<1> QED BY <1>1, <1>2

\* All tables keep their types.
THEOREM TypeCorrect == Spec => []TypeOK
BY InitTypeOK, NextTypeOK, PTL DEF Spec
=============================================================================
