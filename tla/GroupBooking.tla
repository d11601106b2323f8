---------------------------- MODULE GroupBooking ----------------------------
(***************************************************************************)
(* Group drafts: one draft, one card and one confirmation for several      *)
(* rooms, beside everything that ReservationWorkflow does.  A group has a  *)
(* table of its own but shares the idempotency table, the ledger and the   *)
(* card callbacks with single drafts.  A confirmed group books one         *)
(* reservation per selected room; its id is the group's with the place of  *)
(* the room in the selection, so a group confirmed again rewrites its      *)
(* reservations place by place.                                            *)
(*                                                                         *)
(* A group row has the shape of a Draft with several rooms in its slots,   *)
(* and the operations on rows (NewDraft, Quoted, ...) are those of         *)
(* ReservationWorkflow: the group handlers repeat their code.              *)
(***************************************************************************)
EXTENDS ReservationWorkflow, Functions

CONSTANT GroupSelection   \* rooms in their places, and the dates they share

GroupId == {"client", "booking"} \X Token

\* What place i of a group's slots asks for.
Member(slots, i) == [room |-> slots.rooms[i], from |-> slots.from, to |-> slots.to]

ASSUME GroupSelectionAssumption ==
  \A s \in GroupSelection :
    /\ DOMAIN s.rooms \subseteq Place
    /\ \A i \in DOMAIN s.rooms : Member(s, i) \in Selection

GroupSlots == GroupSelection \cup {Incomplete}

GroupPending == [status : PendingStatus, ref : GroupSlots]

GroupDraft == [status : DraftStatus, slots : GroupSlots, missing : BOOLEAN,
               quote : GroupSlots \cup {Absent}, pending : GroupPending \cup {Absent},
               stamp : Token \cup {Absent}]

ASSUME GroupSentinelAssumption == /\ Incomplete \notin GroupSelection
                                  /\ Absent \notin GroupSelection
                                  /\ Absent \notin GroupPending
                                  /\ Absent \notin GroupDraft

VARIABLE groups   \* groups[g]: the row of reservation_group_drafts, or Absent

groupVars == <<vars, groups>>

GroupTypeOK == groups \in [GroupId -> GroupDraft \cup {Absent}]

GroupInit == Init /\ groups = [g \in GroupId |-> Absent]

\* The ids a group books: one for each place of its slots.
MemberId(g, i) == <<g[1], g[2], i>>

Members(g, slots) == {MemberId(g, i) : i \in DOMAIN slots.rooms}

\* Guest, dates and quantity are there, and as many different rooms.
HasCompleteSelections(slots) == slots # Incomplete /\ IsInjective(slots.rooms)

SaveGroup(t, g, row) ==
  /\ \A e \in GroupId \ {g} : groups[e] # Absent => groups[e].stamp # t
  /\ groups' = [groups EXCEPT ![g] = row]

-----------------------------------------------------------------------------
(* Group draft operations *)

CreateGroup(t, slots, late) ==
  /\ Fresh(t)
  /\ SaveGroup(t, <<"client", t>>, NewDraft(slots, ~HasCompleteSelections(slots), late))
  /\ Answer(t)
  /\ UNCHANGED <<ledgerVars, drafts, cancels>>

\* The caller may send its own list of missing slots.
UpdateGroup(t, g, slots, missing, late) ==
  /\ Fresh(t)
  /\ groups[g] # Absent
  /\ SaveGroup(t, g, Updated(groups[g], slots, missing, late))
  /\ Answer(t)
  /\ UNCHANGED <<ledgerVars, drafts, cancels>>

\* Found, neither cancelled nor expired, and nothing reported missing: any
\* other group is refused, and nothing is stored.
GroupReady(g, late) == groups[g] # Absent /\ Quotable(groups[g], late)

QuoteGroup(t, g, late) ==
  /\ Fresh(t)
  /\ GroupReady(g, late)
  /\ SaveGroup(t, g, Quoted(groups[g]))
  /\ Answer(t)
  /\ UNCHANGED <<ledgerVars, drafts, cancels>>

\* Mutant: no quote is required.
PrepareConfirmGroup_unquoted(t, g, late) ==
  /\ Fresh(t)
  /\ GroupReady(g, late)
  /\ SaveGroup(t, g, Prepared(groups[g]))
  /\ Answer(t)
  /\ UNCHANGED <<ledgerVars, drafts, cancels>>

PrepareConfirmGroup(t, g, late) ==
  /\ Fresh(t)
  /\ GroupReady(g, late)
  /\ groups[g].quote # Absent
  /\ SaveGroup(t, g, Prepared(groups[g]))
  /\ Answer(t)
  /\ UNCHANGED <<ledgerVars, drafts, cancels>>

CancelGroup(t, g) ==
  /\ Fresh(t)
  /\ groups[g] # Absent
  /\ SaveGroup(t, g, [groups[g] EXCEPT !.status = "cancelled", !.stamp = Absent])
  /\ Answer(t)
  /\ UNCHANGED <<ledgerVars, drafts, cancels>>

\* As many available rooms as asked for, of the rooms the keyword matches.
SelectedRooms(slots) ==
  /\ IsInjective(slots.rooms)
  /\ \A i \in DOMAIN slots.rooms : Available(Member(slots, i))

\* The nested create and selection store their responses: a retry finds the
\* group as it is by then, with the rooms that were free the first time.
GroupBookingDraft(g, slots, late) ==
  IF groups[g] = Absent THEN NewDraft(slots, FALSE, late) ELSE groups[g]

PrepareGroupBooking(t, slots, late) ==
  LET g == <<"booking", t>>
      draft == GroupBookingDraft(g, slots, late)
  IN /\ Fresh(t)
     /\ SelectedRooms(slots)
     /\ \/ /\ Quotable(draft, late)
           /\ groups' = [groups EXCEPT ![g] = Prepared(Quoted(draft))]
           /\ Answer(t)
        \/ /\ ~Quotable(draft, late)
           /\ groups' = [groups EXCEPT ![g] = draft]
           /\ UNCHANGED idem
     /\ UNCHANGED <<ledgerVars, drafts, cancels>>

-----------------------------------------------------------------------------
(* Card callbacks on a group's pending action *)

ExpireGroupPending(t, g) ==
  /\ Fresh(t)
  /\ groups[g] # Absent
  /\ Awaits(groups[g])
  /\ SaveGroup(t, g, [groups[g] EXCEPT !.status = "expired", !.stamp = t,
                                       !.pending.status = "expired"])
  /\ UNCHANGED <<vars>>

\* Mutant: only the room in the first place is looked at.
GroupConflicting_firstRoom(slots, own) ==
  \E r \in ResId \ own :
    /\ Live(r)
    /\ slots.rooms[1] \in RoomsHeld(r)
    /\ Overlaps(slots, reservations[r].sel)

\* Mutant: every reservation the group ever booked counts as its own.
GroupConflicting_anyPlace(slots, own) ==
  \E r \in ResId \ {q \in ResId : \E o \in own : q[1] = o[1] /\ q[2] = o[2]} :
    /\ Live(r)
    /\ \E i \in DOMAIN slots.rooms : slots.rooms[i] \in RoomsHeld(r)
    /\ Overlaps(slots, reservations[r].sel)

\* The reservations that confirming will write are not in its way.
GroupConflicting(slots, own) ==
  \E r \in ResId \ own :
    /\ Live(r)
    /\ \E i \in DOMAIN slots.rooms : slots.rooms[i] \in RoomsHeld(r)
    /\ Overlaps(slots, reservations[r].sel)

MembersBooked(g, slots) ==
  [r \in ResId |-> IF r \in Members(g, slots) THEN Booking(Member(slots, r[3]))
                                              ELSE reservations[r]]

\* Mutant: the rooms that are still free are booked, the others left out.
ConfirmGroupPending_freeOnly(t, g) ==
  LET slots == groups[g].slots
  IN /\ Fresh(t)
     /\ groups[g] # Absent
     /\ Answerable(groups[g])
     /\ HasCompleteSelections(slots)
     /\ Range(slots.rooms) \subseteq Catalog
     /\ SaveGroup(t, g, [groups[g] EXCEPT !.pending.status = "confirmed", !.stamp = Absent])
     /\ reservations' = [r \in ResId |->
                          IF r \in Members(g, slots) /\ ~Conflicting(Member(slots, r[3]), r)
                          THEN Booking(Member(slots, r[3])) ELSE reservations[r]]
     /\ Answer(t)
     /\ UNCHANGED <<stays, occupied, drafts, cancels>>

\* The missing list is not asked again, the rooms are.
ConfirmGroupPending(t, g) ==
  LET slots == groups[g].slots
  IN /\ Fresh(t)
     /\ groups[g] # Absent
     /\ Answerable(groups[g])
     /\ HasCompleteSelections(slots)
     /\ Range(slots.rooms) \subseteq Catalog
     /\ ~GroupConflicting(slots, Members(g, slots))
     /\ SaveGroup(t, g, [groups[g] EXCEPT !.pending.status = "confirmed", !.stamp = Absent])
     /\ reservations' = MembersBooked(g, slots)
     /\ Answer(t)
     /\ UNCHANGED <<stays, occupied, drafts, cancels>>

CancelGroupPending(t, g) ==
  /\ Fresh(t)
  /\ groups[g] # Absent
  /\ Answerable(groups[g])
  /\ SaveGroup(t, g, [groups[g] EXCEPT !.status = "cancelled", !.stamp = Absent,
                                       !.pending.status = "cancelled"])
  /\ Answer(t)
  /\ UNCHANGED <<ledgerVars, drafts, cancels>>

-----------------------------------------------------------------------------
GroupDraftStep(t) ==
  \/ \E slots \in GroupSlots, late \in BOOLEAN : CreateGroup(t, slots, late)
  \/ \E g \in GroupId, slots \in GroupSlots, missing, late \in BOOLEAN :
       UpdateGroup(t, g, slots, missing, late)
  \/ \E g \in GroupId, late \in BOOLEAN : QuoteGroup(t, g, late)
  \/ \E g \in GroupId, late \in BOOLEAN : PrepareConfirmGroup(t, g, late)
  \/ \E g \in GroupId : CancelGroup(t, g)
  \/ \E slots \in GroupSelection, late \in BOOLEAN : PrepareGroupBooking(t, slots, late)

GroupCardStep(t) ==
  \/ \E g \in GroupId : ExpireGroupPending(t, g)
  \/ \E g \in GroupId : ConfirmGroupPending(t, g)
  \/ \E g \in GroupId : CancelGroupPending(t, g)

GroupNext ==
  \/ Next /\ UNCHANGED groups
  \/ \E t \in Token : GroupDraftStep(t) \/ GroupCardStep(t)

GroupSpec == GroupInit /\ [][GroupNext]_groupVars
-----------------------------------------------------------------------------
(* Properties *)

\* One answer to a group's card books every room the card showed, for the
\* dates it showed, or none: never a part of the group, never a room of an
\* older selection, and never without an awaiting card.
GroupIsBookedWhole ==
  [][\A g \in GroupId :
       (\E i \in Place : /\ reservations'[MemberId(g, i)] # reservations[MemberId(g, i)]
                         /\ reservations'[MemberId(g, i)].status = "booked")
         => /\ groups[g].pending.status = "awaitingConfirmation"
            /\ groups'[g].pending.status = "confirmed"
            /\ LET card == groups[g].pending.ref
               IN \A i \in DOMAIN card.rooms :
                    reservations'[MemberId(g, i)] = Booking(Member(card, i))]_groupVars

\* While a group is open its card was prepared for the slots it has now.
GroupCardBindsSelection ==
  \A g \in GroupId :
    (/\ groups[g] # Absent
     /\ groups[g].status \notin {"cancelled", "expired"}
     /\ groups[g].pending # Absent)
      => /\ groups[g].pending.ref = groups[g].slots
         /\ groups[g].quote = groups[g].slots

\* Groups and single reservations draw on the same promises: several may be
\* granted in one step, none beside another for the same night.
GroupPromisesKept == Promises!Spec
=============================================================================
