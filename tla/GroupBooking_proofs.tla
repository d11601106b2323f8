-------------------------- MODULE GroupBooking_proofs --------------------------
(***************************************************************************)
(* Theorems about GroupBooking, for groups of any size: what is proved of  *)
(* single drafts holds with groups beside them, and groups are booked      *)
(* whole.                                                                  *)
(***************************************************************************)
EXTENDS GroupBooking, ReservationCards_proofs

-----------------------------------------------------------------------------
(* Rows and ids of groups *)

\* A group is a row with slots of GroupSlots, and no slots are Absent.
LEMMA GroupIsRow == GroupDraft = RowOf(GroupSlots) /\ Absent \notin GroupSlots
BY SentinelAssumption, GroupSentinelAssumption
   DEF GroupDraft, RowOf, GroupPending, CardOf, GroupSlots

GroupsFit == \A g \in GroupId : groups[g] # Absent => CardFits(groups[g])

GroupInv == GroupTypeOK /\ GroupsFit

\* A handler that saves a fitting row of the right type keeps the invariant.
LEMMA SavedGroupFits ==
  ASSUME GroupInv, NEW g \in GroupId, NEW row \in GroupDraft, CardFits(row),
         groups' = [groups EXCEPT ![g] = row]
  PROVE  GroupInv'
BY DEF GroupInv, GroupTypeOK, GroupsFit

\* The ids a group books are reservation ids, none of them a draft's, an
\* adjustment's or a direct booking's, and each is of one place of one group.
LEMMA MemberIds ==
  ASSUME NEW g \in GroupId, NEW i \in Place
  PROVE  /\ MemberId(g, i) \in ResId
         /\ MemberId(g, i) \notin DraftId
         /\ MemberId(g, i)[3] = i
         /\ \A t \in Token : MemberId(g, i) # <<"adjust", t>> /\ MemberId(g, i) # <<"create", t>>
         /\ \A h \in GroupId, j \in Place : MemberId(g, i) = MemberId(h, j) => g = h /\ i = j
<1>1. MemberId(g, i) \in {"client", "booking"} \X Token \X Place
  BY DEF MemberId, GroupId
<1>2. MemberId(g, i) \in ResId /\ MemberId(g, i) \notin DraftId /\ MemberId(g, i)[3] = i
  BY <1>1 DEF MemberId, ResId, DraftId
<1>3. \A t \in Token : MemberId(g, i) # <<"adjust", t>> /\ MemberId(g, i) # <<"create", t>>
  BY DEF MemberId
<1>4. ASSUME NEW h \in GroupId, NEW j \in Place, MemberId(g, i) = MemberId(h, j)
      PROVE  g = h /\ i = j
  BY <1>4 DEF MemberId, GroupId
<1> QED BY <1>2, <1>3, <1>4

-----------------------------------------------------------------------------
(* Steps of groups *)

\* A group draft operation keeps the invariant and leaves the rest alone.
LEMMA GroupDraftStepInv ==
  ASSUME GroupInv, NEW t \in Token, GroupDraftStep(t)
  PROVE  GroupInv'
<1> USE GroupIsRow
<1>1. ASSUME NEW slots \in GroupSlots, NEW late \in BOOLEAN, CreateGroup(t, slots, late)
      PROVE  GroupInv'
  <2>1. (~HasCompleteSelections(slots)) \in BOOLEAN
    BY DEF HasCompleteSelections
  <2>2. PICK row : row = NewDraft(slots, ~HasCompleteSelections(slots), late)
    OBVIOUS
  <2>3. row \in GroupDraft /\ CardFits(row)
    BY <2>1, <2>2, NewRowFits
  <2>4. <<"client", t>> \in GroupId
    BY DEF GroupId
  <2>5. groups' = [groups EXCEPT ![<<"client", t>>] = row]
    BY <1>1, <2>2 DEF CreateGroup, SaveGroup
  <2> QED BY <2>3, <2>4, <2>5, SavedGroupFits
<1>2. ASSUME NEW g \in GroupId, NEW slots \in GroupSlots, NEW missing \in BOOLEAN,
             NEW late \in BOOLEAN, UpdateGroup(t, g, slots, missing, late)
      PROVE  GroupInv'
  <2>1. groups[g] \in GroupDraft
    BY <1>2 DEF UpdateGroup, GroupInv, GroupTypeOK
  <2>2. /\ Updated(groups[g], slots, missing, late) \in GroupDraft
        /\ CardFits(Updated(groups[g], slots, missing, late))
    BY <2>1, UpdatedRowFits
  <2> QED BY <1>2, <2>2, SavedGroupFits DEF UpdateGroup, SaveGroup
<1>3. ASSUME NEW g \in GroupId, NEW late \in BOOLEAN, QuoteGroup(t, g, late)
      PROVE  GroupInv'
  <2>1. groups[g] \in GroupDraft /\ CardFits(groups[g]) /\ Quotable(groups[g], late)
    BY <1>3 DEF QuoteGroup, GroupReady, GroupInv, GroupTypeOK, GroupsFit
  <2>2. Quoted(groups[g]) \in GroupDraft /\ CardFits(Quoted(groups[g]))
    BY <2>1, QuotedRowFits
  <2> QED BY <1>3, <2>2, SavedGroupFits DEF QuoteGroup, SaveGroup
<1>4. ASSUME NEW g \in GroupId, NEW late \in BOOLEAN, PrepareConfirmGroup(t, g, late)
      PROVE  GroupInv'
  <2>1. /\ groups[g] \in GroupDraft /\ CardFits(groups[g])
        /\ groups[g].quote # Absent
        /\ groups[g].status \notin {"cancelled", "expired"}
    BY <1>4 DEF PrepareConfirmGroup, GroupReady, GroupInv, GroupTypeOK, GroupsFit, Quotable, Inactive
  <2>2. Prepared(groups[g]) \in GroupDraft /\ CardFits(Prepared(groups[g]))
    BY <2>1, PreparedRowFits
  <2> QED BY <1>4, <2>2, SavedGroupFits DEF PrepareConfirmGroup, SaveGroup
<1>5. ASSUME NEW g \in GroupId, CancelGroup(t, g)
      PROVE  GroupInv'
  <2>1. groups[g] \in GroupDraft
    BY <1>5 DEF CancelGroup, GroupInv, GroupTypeOK
  <2>2. /\ [groups[g] EXCEPT !.status = "cancelled", !.stamp = Absent] \in GroupDraft
        /\ CardFits([groups[g] EXCEPT !.status = "cancelled", !.stamp = Absent])
    BY <2>1, CancelledRowFits
  <2> QED BY <1>5, <2>2, SavedGroupFits DEF CancelGroup, SaveGroup
<1>6. ASSUME NEW slots \in GroupSelection, NEW late \in BOOLEAN, PrepareGroupBooking(t, slots, late)
      PROVE  GroupInv'
  <2>1. <<"booking", t>> \in GroupId
    BY DEF GroupId
  <2>2. PICK draft : draft = GroupBookingDraft(<<"booking", t>>, slots, late)
    OBVIOUS
  <2>3. draft \in GroupDraft /\ CardFits(draft)
    BY <2>1, <2>2, NewRowFits DEF GroupBookingDraft, GroupInv, GroupTypeOK, GroupsFit, GroupSlots
  <2>4. \/ /\ Quotable(draft, late)
           /\ groups' = [groups EXCEPT ![<<"booking", t>>] = Prepared(Quoted(draft))]
        \/ groups' = [groups EXCEPT ![<<"booking", t>>] = draft]
    BY <1>6, <2>2 DEF PrepareGroupBooking
  <2>5. CASE /\ Quotable(draft, late)
             /\ groups' = [groups EXCEPT ![<<"booking", t>>] = Prepared(Quoted(draft))]
    <3>1. Prepared(Quoted(draft)) \in GroupDraft /\ CardFits(Prepared(Quoted(draft)))
      BY <2>3, <2>5, BookedRowFits
    <3> QED BY <2>1, <2>5, <3>1, SavedGroupFits
  <2>6. CASE groups' = [groups EXCEPT ![<<"booking", t>>] = draft]
    BY <2>1, <2>3, <2>6, SavedGroupFits
  <2> QED BY <2>4, <2>5, <2>6
<1> QED BY <1>1, <1>2, <1>3, <1>4, <1>5, <1>6 DEF GroupDraftStep

\* An answer to a group's card keeps the invariant.
LEMMA GroupCardStepInv ==
  ASSUME GroupInv, NEW t \in Token, NEW g \in GroupId,
         ExpireGroupPending(t, g) \/ CancelGroupPending(t, g) \/ ConfirmGroupPending(t, g)
  PROVE  GroupInv'
<1> USE GroupIsRow
<1>1. groups[g] \in GroupDraft /\ CardFits(groups[g]) /\ Awaits(groups[g])
  BY DEF ExpireGroupPending, CancelGroupPending, ConfirmGroupPending, Answerable, GroupInv,
         GroupTypeOK, GroupsFit
<1>2. CASE ExpireGroupPending(t, g)
  <2>1. PICK row : row = [groups[g] EXCEPT !.status = "expired", !.stamp = t,
                                           !.pending.status = "expired"]
    OBVIOUS
  <2>2. row \in GroupDraft /\ CardFits(row)
    BY <1>1, <2>1, AnsweredRowFits
  <2> QED BY <1>2, <2>1, <2>2, SavedGroupFits DEF ExpireGroupPending, SaveGroup
<1>3. CASE CancelGroupPending(t, g)
  <2>1. PICK row : row = [groups[g] EXCEPT !.status = "cancelled", !.stamp = Absent,
                                           !.pending.status = "cancelled"]
    OBVIOUS
  <2>2. row \in GroupDraft /\ CardFits(row)
    BY <1>1, <2>1, AnsweredRowFits
  <2> QED BY <1>3, <2>1, <2>2, SavedGroupFits DEF CancelGroupPending, SaveGroup
<1>4. CASE ConfirmGroupPending(t, g)
  <2>1. PICK row : row = [groups[g] EXCEPT !.pending.status = "confirmed", !.stamp = Absent]
    OBVIOUS
  <2>2. row \in GroupDraft /\ CardFits(row)
    BY <1>1, <2>1, AnsweredRowFits
  <2> QED BY <1>4, <2>1, <2>2, SavedGroupFits DEF ConfirmGroupPending, SaveGroup
<1> QED BY <1>2, <1>3, <1>4

\* Every step keeps the invariant of the groups.
LEMMA NextGroupInv == GroupInv /\ [GroupNext]_groupVars => GroupInv'
<1> SUFFICES ASSUME GroupInv, [GroupNext]_groupVars
             PROVE  GroupInv'
  OBVIOUS
<1>1. CASE UNCHANGED groups
  BY <1>1 DEF GroupInv, GroupTypeOK, GroupsFit
<1>2. ASSUME NEW t \in Token, GroupCardStep(t)
      PROVE  GroupInv'
  BY <1>2, GroupCardStepInv DEF GroupCardStep
<1> QED BY <1>1, <1>2, GroupDraftStepInv DEF GroupNext, groupVars

\* The groups keep their types, and their open cards show their slots.
THEOREM GroupsTypeCorrect == GroupSpec => []GroupTypeOK
<1>1. GroupInit => GroupInv
  BY DEF GroupInit, GroupInv, GroupTypeOK, GroupsFit
<1>2. GroupInv => GroupTypeOK
  BY DEF GroupInv
<1> QED BY <1>1, <1>2, NextGroupInv, PTL DEF GroupSpec

\* An open group's card was prepared for the rooms it selects now.
THEOREM GroupCardsBindSelections == GroupSpec => []GroupCardBindsSelection
<1>1. GroupInit => GroupInv
  BY DEF GroupInit, GroupInv, GroupTypeOK, GroupsFit
<1>2. GroupInv => GroupCardBindsSelection
  BY DEF GroupInv, GroupsFit, CardFits, GroupCardBindsSelection
<1> QED BY <1>1, <1>2, NextGroupInv, PTL DEF GroupSpec

-----------------------------------------------------------------------------
(* What a confirmed group writes *)

\* A confirmed group has a selection of different rooms, each of which asks
\* for something; it books one id for each of them and no other.
LEMMA ConfirmedGroup ==
  ASSUME TypeOK, GroupInv, NEW t \in Token, NEW g \in GroupId, ConfirmGroupPending(t, g),
         NEW slots, slots = groups[g].slots
  PROVE  /\ slots \in GroupSelection
         /\ IsInjective(slots.rooms)
         /\ Members(g, slots) \subseteq ResId
         /\ \A r \in Members(g, slots) :
              /\ r[3] \in DOMAIN slots.rooms
              /\ r = MemberId(g, r[3])
              /\ Member(slots, r[3]) \in Selection
              /\ reservations'[r] = Booking(Member(slots, r[3]))
         /\ \A r \in ResId \ Members(g, slots) : reservations'[r] = reservations[r]
         /\ UNCHANGED stays
<1>1. slots \in GroupSelection /\ IsInjective(slots.rooms)
  BY DEF ConfirmGroupPending, HasCompleteSelections, GroupInv, GroupTypeOK, GroupDraft, GroupSlots
<1>2. /\ DOMAIN slots.rooms \subseteq Place
      /\ \A i \in DOMAIN slots.rooms : Member(slots, i) \in Selection
  BY <1>1, GroupSelectionAssumption
<1>3. \A r \in Members(g, slots) : \E i \in DOMAIN slots.rooms : i \in Place /\ r = MemberId(g, i)
  BY <1>2 DEF Members
<1>4. \A r \in Members(g, slots) :
        /\ r \in ResId
        /\ r[3] \in DOMAIN slots.rooms
        /\ r = MemberId(g, r[3])
  BY <1>3, MemberIds
<1>5. reservations' = MembersBooked(g, slots) /\ UNCHANGED stays
  BY DEF ConfirmGroupPending
<1> QED BY <1>1, <1>2, <1>4, <1>5 DEF MembersBooked

\* The other steps of groups leave ledger, drafts and cancel actions alone.
GroupQuiet(t) ==
  /\ UNCHANGED <<reservations, stays, occupied, drafts, cancels>>
  /\ idem' \in {idem, idem \cup {t}}

LEMMA GroupStepCases ==
  ASSUME NEW t \in Token, GroupDraftStep(t) \/ GroupCardStep(t)
  PROVE  GroupQuiet(t) \/ \E g \in GroupId : ConfirmGroupPending(t, g)
<1>1. CASE GroupDraftStep(t)
  BY <1>1 DEF GroupDraftStep, CreateGroup, UpdateGroup, QuoteGroup, PrepareConfirmGroup,
              CancelGroup, PrepareGroupBooking, ledgerVars, Answer, GroupQuiet
<1>2. CASE GroupCardStep(t)
  BY <1>2 DEF GroupCardStep, ExpireGroupPending, CancelGroupPending, ledgerVars, vars, Answer,
              GroupQuiet
<1> QED BY <1>1, <1>2

\* A confirmed group keeps the invariant of the ledger.
LEMMA ConfirmedGroupLedger ==
  ASSUME LedgerInv, GroupInv, NEW t \in Token, NEW g \in GroupId, ConfirmGroupPending(t, g)
  PROVE  LedgerInv'
<1>1. PICK slots : slots = groups[g].slots
  OBVIOUS
<1>2. /\ Members(g, slots) \subseteq ResId
      /\ \A r \in Members(g, slots) :
           r = MemberId(g, r[3]) /\ r[3] \in Place
           /\ Member(slots, r[3]) \in Selection
           /\ reservations'[r] = Booking(Member(slots, r[3]))
      /\ \A r \in ResId \ Members(g, slots) : reservations'[r] = reservations[r]
      /\ UNCHANGED stays
  BY <1>1, ConfirmedGroup, GroupSelectionAssumption DEF LedgerInv
<1>3. \A r \in Members(g, slots) : reservations'[r] \in ReservationRow
  BY <1>2, ReservationRowTypes
<1>4. TypeOK'
  <2>1. reservations' = MembersBooked(g, slots)
    BY <1>1 DEF ConfirmGroupPending
  <2>2. \A r \in ResId : reservations'[r] \in ReservationRow \cup {Absent}
    BY <1>2, <1>3 DEF LedgerInv, TypeOK, LedgerTypeOK
  <2>3. reservations' = [r \in ResId |-> reservations'[r]]
    BY <2>1 DEF MembersBooked
  <2>4. reservations' \in [ResId -> ReservationRow \cup {Absent}]
    BY <2>2, <2>3
  <2> QED BY <1>2, <2>4 DEF ConfirmGroupPending, Answer, LedgerInv, TypeOK, LedgerTypeOK
<1>5. \A r \in ResId : Exists(r) => Exists(r)'
  BY <1>2, <1>3, AbsentAssumption DEF Exists
<1>6. StaysAreBooked'
  <2>1. \A s \in stays : s.res \in ResId
    BY DEF LedgerInv, TypeOK, LedgerTypeOK, StayRow
  <2> QED BY <1>2, <1>5, <2>1 DEF LedgerInv, StaysAreBooked, Exists
<1>7. AdjustIdsAreFresh'
  <2>1. \A u \in Token : <<"adjust", u>> \in ResId \ Members(g, slots)
    BY <1>2, MemberIds DEF ResId
  <2>2. \A u \in Token : Fresh(u)' => Fresh(u)
    BY DEF ConfirmGroupPending, Answer, Fresh
  <2> QED BY <1>2, <2>1, <2>2 DEF LedgerInv, AdjustIdsAreFresh, Exists
<1> QED BY <1>4, <1>6, <1>7 DEF LedgerInv

\* Every step keeps the invariants of the ledger and of the groups.
LEMMA NextBothInv ==
  LedgerInv /\ GroupInv /\ [GroupNext]_groupVars => LedgerInv' /\ GroupInv'
<1> SUFFICES ASSUME LedgerInv, GroupInv, [GroupNext]_groupVars
             PROVE  LedgerInv'
  BY NextGroupInv
<1>1. ASSUME NEW t \in Token, GroupQuiet(t)
      PROVE  LedgerInv'
  BY <1>1 DEF GroupQuiet, LedgerInv, TypeOK, LedgerTypeOK, StaysAreBooked,
              AdjustIdsAreFresh, Fresh, Exists
<1>2. ASSUME NEW t \in Token, GroupDraftStep(t) \/ GroupCardStep(t)
      PROVE  LedgerInv'
  BY <1>1, <1>2, GroupStepCases, ConfirmedGroupLedger
<1>3. CASE [Next]_vars
  BY <1>3, NextLedgerInv
<1> QED BY <1>2, <1>3 DEF GroupNext, groupVars

-----------------------------------------------------------------------------
(* Promises *)

\* The group's test: none of its rooms is held, as booked or as slept in, by a
\* live reservation of others on any of its nights.
LEMMA FreeGroupAvoidsHeld ==
  ASSUME LedgerInv, NEW slots \in GroupSelection, NEW own, ~GroupConflicting(slots, own),
         NEW i \in DOMAIN slots.rooms, NEW q \in ResId \ own, Live(q),
         slots.rooms[i] \in RoomsHeld(q),
         NEW n \in Nights(Member(slots, i)), n \in Nights(reservations[q].sel)
  PROVE  FALSE
<1> DEFINE held == reservations[q].sel
           s == Member(slots, i)
<1>1. held \in Selection
  BY DEF Live, Status, Exists, LedgerInv, TypeOK, LedgerTypeOK, ReservationRow
<1>2. s \in Selection
  BY GroupSelectionAssumption
<1>3. /\ s.from = slots.from /\ s.to = slots.to
      /\ s.from \in Int /\ s.to \in Int
      /\ held.from \in Int /\ held.to \in Int
  BY <1>1, <1>2, SelectionAssumption DEF Member
<1>4. Overlaps(slots, held)
  BY <1>3 DEF Overlaps, Nights
<1> QED BY <1>4 DEF GroupConflicting

\* What a group may not book is held by another reservation for a night.
LEMMA FreeGroupSharesNoNight ==
  ASSUME LedgerInv, NEW slots \in GroupSelection, NEW own, ~GroupConflicting(slots, own),
         NEW i \in DOMAIN slots.rooms, NEW q \in ResId \ own, Promised(q)
  PROVE  ~Promises!SharesNight(Member(slots, i), reservations[q].sel)
<1> SUFFICES ASSUME Promises!SharesNight(Member(slots, i), reservations[q].sel)
             PROVE  FALSE
  OBVIOUS
<1>1. Live(q) /\ reservations[q].sel.room \in RoomsHeld(q)
  BY PromisedIsLive
<1>2. slots.rooms[i] \in RoomsHeld(q)
  BY <1>1 DEF Promises!SharesNight, Member
<1>3. PICK n \in Nights(Member(slots, i)) : n \in Nights(reservations[q].sel)
  BY DEF Promises!SharesNight, Nights
<1> QED BY <1>1, <1>2, <1>3, FreeGroupAvoidsHeld

\* A confirmed group is granted all its rooms at once, but for places whose
\* guest has left.
LEMMA ConfirmedGroupPromises ==
  ASSUME LedgerInv, LedgerInv', GroupInv, NEW t \in Token, NEW g \in GroupId,
         ConfirmGroupPending(t, g)
  PROVE  Promises!Grant
<1>1. PICK slots : slots = groups[g].slots
  OBVIOUS
<1>2. PICK own : own = Members(g, slots)
  OBVIOUS
<1>3. /\ slots \in GroupSelection
      /\ IsInjective(slots.rooms)
      /\ own \subseteq ResId
      /\ \A r \in own : /\ r[3] \in DOMAIN slots.rooms
                        /\ r = MemberId(g, r[3])
                        /\ Member(slots, r[3]) \in Selection
                        /\ reservations'[r] = Booking(Member(slots, r[3]))
      /\ \A r \in ResId \ own : reservations'[r] = reservations[r]
      /\ UNCHANGED stays
  BY <1>1, <1>2, ConfirmedGroup DEF LedgerInv
<1>4. ~GroupConflicting(slots, own)
  BY <1>1, <1>2 DEF ConfirmGroupPending
<1>5. ASSUME NEW r \in own
       PROVE  /\ reservations'[r].sel = Member(slots, r[3])
              /\ reservations'[r].status = "booked"
              /\ reservations'[r] # Absent
  <2>1. PICK s \in Selection : s = Member(slots, r[3])
    BY <1>3
  <2>2. reservations'[r] = Booking(s)
    BY <1>3, <2>1
  <2>3. Booking(s) \in ReservationRow
    BY ReservationRowTypes
  <2>4. Booking(s).sel = s /\ Booking(s).status = "booked"
    BY DEF Booking
  <2> QED BY <2>1, <2>2, <2>3, <2>4, AbsentAssumption
<1>6. PICK ids \in SUBSET ResId : ids = {r \in own : Promised(r)'}
  BY <1>3
<1>7. \A r \in ResId \ own : (Promised(r)' <=> Promised(r)) /\ Held'[r] = Held[r]
  BY <1>3 DEF Promised, Exists, Held
<1>8. \A r \in own \ ids : ~Promised(r)
  <2> SUFFICES ASSUME NEW r \in own \ ids, Promised(r)
               PROVE  FALSE
    OBVIOUS
  <2>1. reservations'[r] # Absent /\ reservations'[r].status = "booked"
    BY <1>5
  <2>2. Promised(r)'
    BY <1>3, <2>1 DEF Promised, Exists
  <2> QED BY <1>6, <2>2
<1>9. \A r \in own \ ids : Held'[r] = Held[r]
  BY <1>3, <1>6, <1>8 DEF Held
<1>10. \A r \in ids : Held'[r] = Member(slots, r[3])
  BY <1>6, <1>5 DEF Held
<1>11. ASSUME NEW r \in ids
       PROVE  Promises!FreeFor(Held'[r], ids)
  <2> SUFFICES ASSUME NEW q \in ResId \ ids, Held[q] # Absent
               PROVE  ~Promises!SharesNight(Held'[r], Held[q])
    BY DEF Promises!FreeFor
  <2>1. Promised(q) /\ Held[q] = reservations[q].sel
    BY HeldValue
  <2>2. q \in ResId \ own
    BY <1>8, <2>1
  <2>3. r[3] \in DOMAIN slots.rooms
    BY <1>3, <1>6
  <2> QED BY <1>3, <1>4, <1>10, <2>1, <2>2, <2>3, FreeGroupSharesNoNight
<1>12. ASSUME NEW r \in ids, NEW q \in ids, r # q
       PROVE  ~Promises!SharesNight(Held'[r], Held'[q])
  <2>1. /\ r[3] \in DOMAIN slots.rooms /\ q[3] \in DOMAIN slots.rooms
        /\ r[3] # q[3]
    BY <1>3, <1>6, <1>12
  <2>2. slots.rooms[r[3]] # slots.rooms[q[3]]
    BY <1>3, <2>1 DEF IsInjective
  <2>3. /\ Held'[r] = Member(slots, r[3])
        /\ Held'[q] = Member(slots, q[3])
    BY <1>10
  <2>4. Member(slots, r[3]).room # Member(slots, q[3]).room
    BY <2>2 DEF Member
  <2> QED BY <2>3, <2>4 DEF Promises!SharesNight
<1>13. \A r \in ids : Held'[r] # Absent
  BY <1>3, <1>6, <1>10, AbsentAssumption
<1>14. GrantsOf(ids, Held')
  BY <1>7, <1>9, <1>11, <1>12, <1>13 DEF GrantsOf
<1>15. Held' \in [ResId -> Selection \cup {Absent}]
  <2>1. \A r \in ResId : Held'[r] \in Selection \cup {Absent}
    BY <1>3, <1>6, <1>7, <1>9, <1>10, HeldType
  <2>2. Held' = [r \in ResId |-> Held'[r]]
    BY DEF Held
  <2> QED BY <2>1, <2>2
<1> QED BY <1>14, <1>15, GrantsSuffice

\* Every step of the composition is a step of RoomPromises or leaves it alone.
LEMMA GroupStepKeepsPromises ==
  ASSUME LedgerInv, LedgerInv', GroupInv, [GroupNext]_groupVars
  PROVE  [Promises!Next]_Held
<1>1. CASE [Next]_vars
  BY <1>1, StepKeepsPromises
<1>2. ASSUME NEW t \in Token, GroupDraftStep(t) \/ GroupCardStep(t)
      PROVE  [Promises!Next]_Held
  <2>1. CASE GroupQuiet(t)
    BY <2>1 DEF GroupQuiet, Held, Promised, Exists
  <2>2. ASSUME NEW g \in GroupId, ConfirmGroupPending(t, g)
        PROVE  [Promises!Next]_Held
    BY <2>2, ConfirmedGroupPromises DEF Promises!Next
  <2> QED BY <1>2, <2>1, <2>2, GroupStepCases
<1> QED BY <1>1, <1>2 DEF GroupNext, groupVars

\* With groups, too, the handlers implement RoomPromises: a group's rooms are
\* granted together, each free on every night, or none is.
THEOREM GroupsImplementPromises == GroupSpec => GroupPromisesKept
<1>1. GroupInit => Promises!Init /\ LedgerInv /\ GroupInv
  <2>1. GroupInit => Promises!Init
    BY DEF GroupInit, Init, LedgerInit, Promises!Init, Held, Promised, Exists
  <2>2. GroupInit => LedgerInv /\ GroupInv
    BY InitLedgerInv DEF GroupInit, GroupInv, GroupTypeOK, GroupsFit
  <2> QED BY <2>1, <2>2
<1>2. LedgerInv /\ LedgerInv' /\ GroupInv /\ [GroupNext]_groupVars => [Promises!Next]_Held
  BY GroupStepKeepsPromises
<1> QED BY <1>1, <1>2, NextBothInv, PTL DEF GroupSpec, GroupPromisesKept, Promises!Spec

\* No room is promised to two reservations for the same night, whether they
\* were booked one by one, in groups, or in groups confirmed again.
THEOREM GroupsNoDoubleBooking == GroupSpec => []NoDoubleBooking
<1>1. LedgerInv => (NoDoubleBooking <=> Disjoint)
  BY HeldValue DEF NoDoubleBooking, Disjoint
<1>2. GroupInit => Disjoint /\ LedgerInv /\ GroupInv
  BY InitLedgerInv DEF GroupInit, Init, LedgerInit, Disjoint, Held, Promised, Exists, GroupInv,
                       GroupTypeOK, GroupsFit
<1>3. LedgerInv /\ LedgerInv' /\ GroupInv /\ Disjoint /\ [GroupNext]_groupVars => Disjoint'
  BY GroupStepKeepsPromises, PromisesStayDisjoint
<1> QED BY <1>1, <1>2, <1>3, NextBothInv, PTL DEF GroupSpec

-----------------------------------------------------------------------------
(* Groups are booked whole *)

\* What the property asks of the step in which a place of g is booked.
BookedWhole(g) ==
  /\ groups[g].pending.status = "awaitingConfirmation"
  /\ groups'[g].pending.status = "confirmed"
  /\ LET card == groups[g].pending.ref
     IN \A i \in DOMAIN card.rooms :
          reservations'[MemberId(g, i)] = Booking(Member(card, i))

\* Confirming a group's card books every place of the card.
LEMMA ConfirmationIsWhole ==
  ASSUME TypeOK, GroupInv, NEW t \in Token, NEW g \in GroupId, ConfirmGroupPending(t, g)
  PROVE  BookedWhole(g)
<1>1. PICK slots : slots = groups[g].slots
  OBVIOUS
<1>2. PICK row : row = groups[g]
  OBVIOUS
<1>3. /\ row \in GroupDraft /\ CardFits(row)
      /\ Awaits(row) /\ row.status = "awaitingConfirmation"
  BY <1>2 DEF ConfirmGroupPending, Answerable, GroupInv, GroupTypeOK, GroupsFit
<1>4. row.pending \in GroupPending
  BY <1>3 DEF Awaits, GroupDraft
<1>5. row.pending.ref = slots
  BY <1>1, <1>2, <1>3 DEF CardFits, Awaits
<1>6. groups'[g] = [row EXCEPT !.pending.status = "confirmed", !.stamp = Absent]
  BY <1>2 DEF ConfirmGroupPending, SaveGroup, GroupInv, GroupTypeOK
<1>7. groups'[g].pending = [row.pending EXCEPT !.status = "confirmed"]
  BY <1>3, <1>6 DEF GroupDraft
<1>8. groups'[g].pending.status = "confirmed"
  BY <1>4, <1>7 DEF GroupPending
<1>9. ASSUME NEW i \in DOMAIN slots.rooms
      PROVE  reservations'[MemberId(g, i)] = Booking(Member(slots, i))
  <2>1. slots \in GroupSelection /\ i \in Place
    BY <1>1, ConfirmedGroup, GroupSelectionAssumption
  <2>2. MemberId(g, i) \in Members(g, slots) /\ MemberId(g, i)[3] = i
    BY <2>1, MemberIds DEF Members
  <2> QED BY <1>1, <2>2, ConfirmedGroup
<1> QED BY <1>2, <1>3, <1>5, <1>8, <1>9 DEF BookedWhole, Awaits

\* A place of a group is booked only by a confirmation of that group's card.
LEMMA PlaceIsBookedByItsCard ==
  ASSUME TypeOK, GroupInv, [GroupNext]_groupVars, NEW g \in GroupId, NEW i \in Place,
         reservations'[MemberId(g, i)] # reservations[MemberId(g, i)],
         reservations'[MemberId(g, i)].status = "booked"
  PROVE  BookedWhole(g)
<1> DEFINE m == MemberId(g, i)
<1>1. CASE [Next]_vars
  BY <1>1, MemberIds, OnlyCardsBook DEF BookedByCard, NotBooked
<1>2. ASSUME NEW t \in Token, GroupDraftStep(t) \/ GroupCardStep(t)
      PROVE  BookedWhole(g)
  <2>1. ~GroupQuiet(t)
    BY DEF GroupQuiet
  <2>2. PICK h \in GroupId : ConfirmGroupPending(t, h)
    BY <1>2, <2>1, GroupStepCases
  <2>3. PICK slots : slots = groups[h].slots
    OBVIOUS
  <2>4. m \in Members(h, slots)
    BY <2>2, <2>3, ConfirmedGroup, MemberIds
  <2>5. PICK j \in Place : m = MemberId(h, j)
    BY <2>2, <2>3, <2>4, ConfirmedGroup, GroupSelectionAssumption DEF Members
  <2>6. g = h
    BY <2>5, MemberIds
  <2> QED BY <2>2, <2>6, ConfirmationIsWhole
<1> QED BY <1>1, <1>2 DEF GroupNext, groupVars

\* A group is booked whole, as its card showed it, or not at all.
THEOREM GroupsAreBookedWhole == GroupSpec => GroupIsBookedWhole
<1>1. TypeOK /\ GroupInv /\ [GroupNext]_groupVars =>
        [\A g \in GroupId :
           (\E i \in Place : /\ reservations'[MemberId(g, i)] # reservations[MemberId(g, i)]
                             /\ reservations'[MemberId(g, i)].status = "booked")
             => /\ groups[g].pending.status = "awaitingConfirmation"
                /\ groups'[g].pending.status = "confirmed"
                /\ LET card == groups[g].pending.ref
                   IN \A i \in DOMAIN card.rooms :
                        reservations'[MemberId(g, i)] = Booking(Member(card, i))]_groupVars
  BY PlaceIsBookedByItsCard DEF BookedWhole
<1>2. GroupInit => LedgerInv /\ GroupInv
  BY InitLedgerInv DEF GroupInit, GroupInv, GroupTypeOK, GroupsFit
<1>3. LedgerInv => TypeOK
  BY DEF LedgerInv
<1> QED BY <1>1, <1>2, <1>3, NextBothInv, PTL DEF GroupSpec, GroupIsBookedWhole

-----------------------------------------------------------------------------
(* Single reservations beside groups *)

\* The invariants of the ledger, of the single drafts and of the groups.
AllInv == LedgerInv /\ RowsFit /\ GroupInv

\* Groups leave the drafts alone, so the three are invariant together.
LEMMA NextAllInv == AllInv /\ [GroupNext]_groupVars => AllInv'
<1> SUFFICES ASSUME AllInv, [GroupNext]_groupVars
             PROVE  AllInv'
  OBVIOUS
<1>1. ASSUME UNCHANGED drafts
      PROVE  RowsFit'
  BY <1>1 DEF RowsFit, AllInv
<1>2. ASSUME NEW t \in Token, GroupDraftStep(t) \/ GroupCardStep(t)
      PROVE  UNCHANGED drafts
  BY <1>2, GroupStepCases DEF GroupQuiet, ConfirmGroupPending
<1>3. ASSUME [Next]_vars
      PROVE  RowsFit'
  BY <1>3, NextRowsFit DEF AllInv, LedgerInv
<1>4. RowsFit'
  BY <1>1, <1>2, <1>3 DEF GroupNext, groupVars
<1> QED BY <1>4, NextBothInv DEF AllInv

\* The invariant holds throughout, for groups and single reservations of any
\* number.
THEOREM GroupLedgerInvariant == GroupSpec => []AllInv
<1>1. GroupInit => AllInv
  BY InitLedgerInv DEF GroupInit, Init, GroupInv, GroupTypeOK, GroupsFit, RowsFit, AllInv
<1> QED BY <1>1, NextAllInv, PTL DEF GroupSpec

\* What a step of a group does to ids that are none of its members: nothing;
\* its members it books.
LEMMA GroupStepBooks ==
  ASSUME AllInv, NEW t \in Token, GroupDraftStep(t) \/ GroupCardStep(t)
  PROVE  /\ UNCHANGED <<stays, drafts>>
         /\ \A r \in ResId : \/ reservations'[r] = reservations[r]
                             \/ /\ reservations'[r].status = "booked"
                                /\ \E g \in GroupId, i \in Place : r = MemberId(g, i)
<1>1. CASE GroupQuiet(t)
  BY <1>1 DEF GroupQuiet
<1>2. ASSUME NEW g \in GroupId, ConfirmGroupPending(t, g)
      PROVE  /\ UNCHANGED <<stays, drafts>>
             /\ \A r \in ResId : \/ reservations'[r] = reservations[r]
                                 \/ /\ reservations'[r].status = "booked"
                                    /\ \E i \in Place : r = MemberId(g, i)
  <2>1. PICK slots : slots = groups[g].slots
    OBVIOUS
  <2>2. /\ slots \in GroupSelection
        /\ \A r \in Members(g, slots) :
             /\ r[3] \in DOMAIN slots.rooms
             /\ r = MemberId(g, r[3])
             /\ reservations'[r] = Booking(Member(slots, r[3]))
        /\ \A r \in ResId \ Members(g, slots) : reservations'[r] = reservations[r]
    BY <1>2, <2>1, ConfirmedGroup DEF AllInv, LedgerInv
  <2>3. DOMAIN slots.rooms \subseteq Place
    BY <2>2, GroupSelectionAssumption
  <2>4. \A r \in Members(g, slots) : reservations'[r].status = "booked"
    <3>1. \A s : Booking(s).status = "booked"
      BY DEF Booking
    <3> QED BY <2>2, <3>1
  <2>5. UNCHANGED <<stays, drafts>>
    BY <1>2 DEF ConfirmGroupPending
  <2> QED BY <2>2, <2>3, <2>4, <2>5
<1> QED BY <1>1, <1>2, GroupStepCases

\* With groups, too, a draft becomes a booking only as its own card showed it.
THEOREM GroupsLeaveCardsAlone == GroupSpec => OnlyCardConfirmationCommits
<1>1. ASSUME AllInv, [GroupNext]_groupVars, NEW d \in DraftId,
             reservations'[d] # reservations[d], reservations'[d].status = "booked"
      PROVE  Commits(d)
  <2>1. ASSUME NEW t \in Token, GroupDraftStep(t) \/ GroupCardStep(t)
        PROVE  FALSE
    <3>1. d \in ResId
      BY DEF DraftId, ResId
    <3>2. PICK g \in GroupId, i \in Place : d = MemberId(g, i)
      BY <1>1, <2>1, <3>1, GroupStepBooks
    <3> QED BY <3>2, MemberIds
  <2>2. [Next]_vars
    BY <1>1, <2>1 DEF GroupNext, groupVars
  <2> QED BY <1>1, <2>2, DraftIsBookedByItsCard DEF AllInv, LedgerInv
<1>2. AllInv /\ [GroupNext]_groupVars =>
        [\A d \in DraftId :
           (reservations'[d] # reservations[d] /\ reservations'[d].status = "booked")
             => /\ drafts[d].pending.status = "awaitingConfirmation"
                /\ drafts'[d].pending.status = "confirmed"
                /\ reservations'[d].sel = drafts[d].pending.ref]_vars
  BY <1>1 DEF Commits
<1> QED BY <1>2, GroupLedgerInvariant, PTL DEF GroupSpec, OnlyCardConfirmationCommits

\* With groups, too, an open draft's card shows the slots it has now.
THEOREM GroupsKeepCardsBound == GroupSpec => []CardBindsSelection
<1>1. AllInv => CardBindsSelection
  BY DEF AllInv, RowsFit, CardFits, CardBindsSelection
<1> QED BY <1>1, GroupLedgerInvariant, PTL

\* No confirmation of a group cancels a reservation: one a guest has arrived on
\* stays booked although the group it is a place of is confirmed again.
THEOREM GroupsKeepArrivedGuests == GroupSpec => ArrivedGuestKeepsReservation
<1>1. ASSUME AllInv, [GroupNext]_groupVars, NEW r \in ResId
      PROVE  KeptIfArrived(r)
  <2>1. ASSUME NEW t \in Token, GroupDraftStep(t) \/ GroupCardStep(t)
        PROVE  KeptIfArrived(r)
    BY <1>1, <2>1, GroupStepBooks DEF KeptIfArrived
  <2>2. CASE [Next]_vars
    BY <1>1, <2>2, StepKeepsArrived DEF AllInv
  <2> QED BY <1>1, <2>1, <2>2 DEF GroupNext, groupVars
<1>2. AllInv /\ [GroupNext]_groupVars =>
        [\A r \in ResId :
           (/\ Exists(r) /\ reservations[r].status = "booked"
            /\ reservations'[r].status = "cancelled")
             => \A s \in stays : s.res # r]_vars
  BY <1>1 DEF KeptIfArrived
<1> QED BY <1>2, GroupLedgerInvariant, PTL DEF GroupSpec, ArrivedGuestKeepsReservation

\* A confirmed group is no adjustment, and an adjustment beside groups still
\* moves one promise.
THEOREM GroupsKeepAdjustments == GroupSpec => AdjustMovesOnePromise
<1>1. ASSUME AllInv, AllInv', [GroupNext]_groupVars, NEW t \in Token
      PROVE  MovesOne(t)
  <2>1. ASSUME NEW u \in Token, GroupDraftStep(u) \/ GroupCardStep(u)
        PROVE  MovesOne(t)
    <3>1. <<"adjust", t>> \in ResId
      BY DEF ResId
    <3>2. \A g \in GroupId, i \in Place : <<"adjust", t>> # MemberId(g, i)
      BY MemberIds
    <3>3. reservations'[<<"adjust", t>>] = reservations[<<"adjust", t>>]
      BY <1>1, <2>1, <3>1, <3>2, GroupStepBooks
    <3> QED BY <3>3 DEF MovesOne, Exists
  <2>2. CASE [Next]_vars
    BY <1>1, <2>2, StepMovesOne DEF AllInv
  <2> QED BY <1>1, <2>1, <2>2 DEF GroupNext, groupVars
<1>2. AllInv /\ AllInv' /\ [GroupNext]_groupVars =>
        [\A t \in Token :
           (~Exists(<<"adjust", t>>) /\ Exists(<<"adjust", t>>)')
             => /\ Cardinality({r \in ResId : Promised(r) /\ ~Promised(r)'}) = 1
                /\ {r \in ResId : ~Promised(r) /\ Promised(r)'} = {<<"adjust", t>>}]_vars
  BY <1>1 DEF MovesOne
<1> QED BY <1>2, GroupLedgerInvariant, PTL DEF GroupSpec, AdjustMovesOnePromise

\* What a step leaves to others whose rooms it takes: the members of one
\* group do not keep off each other, the confirmation books them together.
KeepsOffOthers(r, q) ==
  (~\E g \in GroupId : groups[g] # Absent /\ {r, q} \subseteq Members(g, groups[g].slots))
    => KeepsOff(r, q)

\* A confirmed group keeps off whoever is none of the members it books.
LEMMA ConfirmedGroupKeepsOff ==
  ASSUME AllInv, NEW t \in Token, NEW g \in GroupId, ConfirmGroupPending(t, g),
         NEW r \in ResId, NEW q \in ResId
  PROVE  KeepsOffOthers(r, q)
<1>1. PICK slots : slots = groups[g].slots
  OBVIOUS
<1>2. /\ slots \in GroupSelection
      /\ \A m \in Members(g, slots) :
           /\ m[3] \in DOMAIN slots.rooms
           /\ Member(slots, m[3]) \in Selection
           /\ reservations'[m] = Booking(Member(slots, m[3]))
      /\ \A m \in ResId \ Members(g, slots) : reservations'[m] = reservations[m]
  BY <1>1, ConfirmedGroup DEF AllInv, LedgerInv
<1>3. ~GroupConflicting(slots, Members(g, slots)) /\ groups[g] # Absent
  BY <1>1 DEF ConfirmGroupPending
<1> SUFFICES ASSUME reservations'[r] # reservations[r], q \notin Members(g, slots), Live(q),
                    reservations'[r].sel.room \in RoomsHeld(q)
             PROVE  Nights(reservations'[r].sel) \cap Nights(reservations[q].sel) = {}
  BY <1>1, <1>2, <1>3 DEF KeepsOffOthers, KeepsOff
<1>4. r \in Members(g, slots)
  BY <1>2
<1>5. reservations'[r].sel = Member(slots, r[3])
  <2>1. \A m : Booking(m).sel = m
    BY DEF Booking
  <2> QED BY <1>2, <1>4, <2>1
<1>6. slots.rooms[r[3]] \in RoomsHeld(q)
  BY <1>5 DEF Member
<1>7. ASSUME NEW n \in Nights(Member(slots, r[3]))
      PROVE  n \notin Nights(reservations[q].sel)
  BY <1>2, <1>3, <1>4, <1>6, <1>7, FreeGroupAvoidsHeld DEF AllInv
<1> QED BY <1>5, <1>7

\* Bookings, of groups too, keep off the nights of every other reservation
\* that holds the room, as booked or as slept in, unless both are members of
\* one group as it is now: a group booked again may take a room for one place
\* in which the guest of another place sleeps.
THEOREM GroupBookingsKeepOffHeldRooms ==
  GroupSpec =>
    [][\A r \in ResId, q \in ResId :
         (/\ ~\E g \in GroupId : groups[g] # Absent /\ {r, q} \subseteq Members(g, groups[g].slots)
          /\ reservations'[r] # reservations[r] /\ reservations'[r].status = "booked"
          /\ r # q /\ Live(q) /\ reservations'[q] = reservations[q]
          /\ reservations'[r].sel.room \in RoomsHeld(q))
           => Nights(reservations'[r].sel) \cap Nights(reservations[q].sel) = {}]_groupVars
<1>1. ASSUME AllInv, [GroupNext]_groupVars, NEW r \in ResId, NEW q \in ResId
      PROVE  KeepsOffOthers(r, q)
  <2>1. CASE [Next]_vars
    BY <1>1, <2>1, StepKeepsOff DEF AllInv, KeepsOffOthers
  <2>2. ASSUME NEW t \in Token, GroupQuiet(t)
        PROVE  KeepsOffOthers(r, q)
    BY <2>2 DEF GroupQuiet, KeepsOffOthers, KeepsOff
  <2>3. ASSUME NEW t \in Token, NEW g \in GroupId, ConfirmGroupPending(t, g)
        PROVE  KeepsOffOthers(r, q)
    BY <1>1, <2>3, ConfirmedGroupKeepsOff
  <2> QED BY <1>1, <2>1, <2>2, <2>3, GroupStepCases DEF GroupNext, groupVars
<1>2. AllInv /\ [GroupNext]_groupVars =>
        [\A r \in ResId, q \in ResId :
           (/\ ~\E g \in GroupId : groups[g] # Absent /\ {r, q} \subseteq Members(g, groups[g].slots)
            /\ reservations'[r] # reservations[r] /\ reservations'[r].status = "booked"
            /\ r # q /\ Live(q) /\ reservations'[q] = reservations[q]
            /\ reservations'[r].sel.room \in RoomsHeld(q))
             => Nights(reservations'[r].sel) \cap Nights(reservations[q].sel) = {}]_groupVars
  BY <1>1 DEF KeepsOffOthers, KeepsOff
<1> QED BY <1>2, GroupLedgerInvariant, PTL DEF GroupSpec

\* A confirmed group, too, books under an unused token and stores its answer.
THEOREM GroupWritesAreAnswered == GroupSpec => LedgerWritesAreAnswered
<1>1. ASSUME [GroupNext]_groupVars, ledgerVars' # ledgerVars
      PROVE  \E t \in Token \ idem : idem' = idem \cup {t}
  <2>1. ASSUME NEW t \in Token, GroupQuiet(t)
        PROVE  FALSE
    BY <1>1, <2>1 DEF GroupQuiet, ledgerVars
  <2>2. ASSUME NEW t \in Token, NEW g \in GroupId, ConfirmGroupPending(t, g)
        PROVE  t \in Token \ idem /\ idem' = idem \cup {t}
    BY <2>2 DEF ConfirmGroupPending, Fresh, Answer
  <2>3. CASE [Next]_vars
    BY <1>1, <2>3, StepIsAnswered
  <2> QED BY <1>1, <2>1, <2>2, <2>3, GroupStepCases DEF GroupNext, groupVars, vars
<1>2. [GroupNext]_groupVars =>
        [ledgerVars' # ledgerVars => \E t \in Token \ idem : idem' = idem \cup {t}]_vars
  BY <1>1
<1> QED BY <1>2, PTL DEF GroupSpec, LedgerWritesAreAnswered
=============================================================================
