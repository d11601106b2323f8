---------------------------- MODULE MCRoomCommands ----------------------------
(***************************************************************************)
(* Instances of RoomCommands for TLC: two keys share a suffix, and rooms   *)
(* are seeded ready for a guest or due out, dirty and out of service.      *)
(***************************************************************************)
EXTENDS RoomCommands, TLC

CONSTANTS k1, k2, k3, k4, a, b, c

Keys == {k1, k2, k3, k4}
Ids == {a, b, c}
SharedSuffix == (k1 :> a @@ k2 :> a @@ k3 :> b @@ k4 :> c)

Ready == [occupancy |-> "vacant", cleaning |-> "clean", sale |-> "sellable"]
DueOut == [occupancy |-> "dueOut", cleaning |-> "dirty", sale |-> "outOfService"]
OneReady == {Ready}
ReadyOrDueOut == {Ready, DueOut}

\* Rooms, the two keys of one suffix, and the other two with their suffixes.
Symmetry == Permutations(Room) \cup Permutations({k1, k2})
              \cup {k3 :> k4 @@ k4 :> k3 @@ b :> c @@ c :> b}

-----------------------------------------------------------------------------
\* Guests, housekeeping and nothing else, so that more of it fits.
CleaningStep(k, r) ==
  \/ \E o \in BOOLEAN : CheckIn(k, r, o)
  \/ CheckOut(k, r)
  \/ \E q \in BOOLEAN : HousekeepingDone(k, r, q)
  \/ \E p \in BOOLEAN, i \in TaskId \cup {Absent} : HousekeepingInspection(k, r, p, i)
  \/ \E q \in BOOLEAN, i \in TaskId \cup {Absent} : HousekeepingRework(k, r, q, i)
  \/ HousekeepingMarkDirty(k, r)
  \/ Replay(k)

CleaningSpec == Init /\ [][\E k \in Key, r \in Room : CleaningStep(k, r)]_vars
=============================================================================
