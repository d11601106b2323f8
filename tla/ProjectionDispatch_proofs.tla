---------------------- MODULE ProjectionDispatch_proofs ----------------------
(***************************************************************************)
(* Safety of the outbox dispatcher, for any number of keys, changes,       *)
(* attempts and crashes and any batch size.  HandInv ties the items a tick *)
(* has handed out to their rows; RowInv, WitnessInv and SentInv say what   *)
(* the adapter has been told meanwhile.                                    *)
(***************************************************************************)
EXTENDS ProjectionDispatch, TLAPS

Open(e) == ledger[e] # Absent /\ ledger[e].status \in {"pending", "retryable"}

\* Listed, and not marked yet.
InHand(i) == i \in batch \/ (flight # Absent /\ i = flight.item)

\* Rows stand for committed changes; an open row has attempts left; an item in
\* hand belongs to an open row and is its only one.
HandInv ==
  /\ \A e \in Entry : ledger[e] # Absent => e \in outbox
  /\ \A e \in outbox : e[2] <= truth[e[1]]
  /\ \A e \in Entry : Open(e) => ledger[e].attempts < MaxAttempts
  /\ \A i \in Item : InHand(i) => Open(i.entry) /\ i.attempt = ledger[i.entry].attempts + 1
  /\ \A i, j \in Item : InHand(i) /\ InHand(j) /\ i.entry = j.entry => i = j
  /\ flight # Absent => flight.item \notin batch

DispatchInv == TypeOK /\ HandInv

\* The empty tables satisfy the invariant.
LEMMA InitDispatchInv == Init => DispatchInv
BY BoundAssumption DEF Init, DispatchInv, TypeOK, HandInv, Open, InHand, Item

\* A row that Ensured adds is pending and has not been tried.
LEMMA EnsuredRow ==
  ASSUME DispatchInv, NEW e \in Entry
  PROVE  /\ Ensured[e] \in Row \cup {Absent}
         /\ ledger[e] # Absent => Ensured[e] = ledger[e]
         /\ e \in outbox => Ensured[e] # Absent
         /\ (ledger[e] = Absent /\ Ensured[e] # Absent)
               => e \in outbox /\ Ensured[e] = [status |-> "pending", attempts |-> 0, due |-> TRUE]
<1>1. [status |-> "pending", attempts |-> 0, due |-> TRUE] \in Row
  BY BoundAssumption DEF Row
<1>2. [status |-> "pending", attempts |-> 0, due |-> TRUE] # Absent
  BY <1>1, AbsentAssumption
<1> QED BY <1>1, <1>2 DEF Ensured, DispatchInv, TypeOK

\* What a tick lists is a well-formed item of an open row.
LEMMA ListedItem ==
  ASSUME DispatchInv, NEW e \in outbox, Due(Ensured[e])
  PROVE  /\ Listed(e, Ensured[e]) \in Item
         /\ Listed(e, Ensured[e]).entry = e
         /\ Listed(e, Ensured[e]).attempt = Ensured[e].attempts + 1
         /\ Listed(e, Ensured[e]).value = Shown(e)
<1>0. e \in Entry
  BY DEF DispatchInv, TypeOK
<1>1. Ensured[e] \in Row
  BY <1>0, EnsuredRow DEF Due
<1>2. Ensured[e].attempts < MaxAttempts
  <2>1. CASE ledger[e] = Absent
    BY <1>0, <2>1, EnsuredRow, BoundAssumption DEF Due
  <2>2. CASE ledger[e] # Absent
    BY <1>0, <2>2, EnsuredRow DEF Due, DispatchInv, HandInv, Open
  <2> QED BY <2>1, <2>2
<1>3. Ensured[e].attempts + 1 \in 1 .. MaxAttempts
  BY <1>1, <1>2, BoundAssumption DEF Row
<1>4. Shown(e) \in Version
  <2>1. e[1] \in Key /\ e[2] \in Version /\ truth[e[1]] \in 0 .. MaxChange
    BY <1>0 DEF Entry, DispatchInv, TypeOK
  <2>2. e[2] <= truth[e[1]]
    BY DEF DispatchInv, HandInv
  <2> QED BY <2>1, <2>2, BoundAssumption DEF Shown, Version
<1> QED BY <1>0, <1>3, <1>4 DEF Listed, Item

\* The rows change only for the item being marked.
LEMMA MarkItem ==
  ASSUME DispatchInv, NEW item \in Item, InHand(item),
         NEW status \in {"retryable", "delivered", "failed"}, Mark(item, status)
  PROVE  /\ item.entry \in Entry
         /\ ledger' \in [Entry -> Row \cup {Absent}]
         /\ ledger'[item.entry] # Absent
         /\ ledger'[item.entry].status = status
         /\ ledger'[item.entry].attempts = item.attempt
         /\ ledger[item.entry].attempts = item.attempt - 1
         /\ Open(item.entry)
         /\ \A e \in Entry \ {item.entry} : ledger'[e] = ledger[e]
<1> DEFINE f == item.entry
<1>2. f \in Entry /\ item.attempt \in 1 .. MaxAttempts
  BY DEF Item
<1>3. Open(f) /\ item.attempt = ledger[f].attempts + 1
  BY DEF DispatchInv, HandInv
<1>4. ledger[f] \in Row /\ ledger[f].attempts \in 0 .. MaxAttempts
  BY <1>2, <1>3 DEF Open, DispatchInv, TypeOK, Row
<1> DEFINE row == [status |-> status, attempts |-> ledger[f].attempts + 1, due |-> FALSE]
<1>5. row.attempts = item.attempt /\ ledger[f].attempts = item.attempt - 1
  BY <1>2, <1>3, <1>4, BoundAssumption
<1>6. row \in Row
  BY <1>2, <1>3 DEF Row
<1>7. row # Absent
  BY <1>6, AbsentAssumption
<1>8. ledger' = [ledger EXCEPT ![f] = row]
  BY DEF Mark
<1>9. row.status = status
  OBVIOUS
<1> HIDE DEF row, f
<1>10. /\ ledger' \in [Entry -> Row \cup {Absent}]
       /\ ledger'[f] = row
       /\ \A e \in Entry \ {f} : ledger'[e] = ledger[e]
  BY <1>2, <1>6, <1>8 DEF DispatchInv, TypeOK
<1> QED BY <1>2, <1>3, <1>5, <1>7, <1>9, <1>10 DEF f

\* The post in flight is an item in hand.
LEMMA MarkRow ==
  ASSUME DispatchInv, flight # Absent,
         NEW status \in {"retryable", "delivered", "failed"}, Mark(flight.item, status)
  PROVE  /\ flight.item \in Item /\ InHand(flight.item)
         /\ flight.item.entry \in Entry
         /\ ledger' \in [Entry -> Row \cup {Absent}]
         /\ ledger'[flight.item.entry] # Absent
         /\ ledger'[flight.item.entry].status = status
         /\ ledger'[flight.item.entry].attempts = flight.item.attempt
         /\ ledger[flight.item.entry].attempts = flight.item.attempt - 1
         /\ Open(flight.item.entry)
         /\ \A e \in Entry \ {flight.item.entry} : ledger'[e] = ledger[e]
<1>1. flight.item \in Item /\ InHand(flight.item)
  BY DEF DispatchInv, TypeOK, InHand
<1> QED BY <1>1, MarkItem

-----------------------------------------------------------------------------
(* Commands *)

Command ==
  \/ \E r \in Room : RoomEvent(r) \/ MarkedDirty(r)
  \/ \E r \in Room, j \in Job : CheckOut(r, j) \/ RoomJobEvent(r, j)
  \/ \E j \in Job : JobEvent(j)
  \/ \E d \in Workflow : WorkflowStep(d)
  \/ \E o \in Record : RecordChange(o)

\* A commit counts its keys on and adds entries for what it counted.
LEMMA CommitAdds ==
  ASSUME DispatchInv, NEW changed \in SUBSET Key, NEW told \in SUBSET changed,
         Commit(changed, told)
  PROVE  /\ truth' \in [Key -> 0 .. MaxChange]
         /\ \A k \in Key : truth[k] <= truth'[k]
         /\ outbox \subseteq outbox' /\ outbox' \subseteq Entry
         /\ \A e \in outbox' : e[2] <= truth'[e[1]]
         /\ UNCHANGED <<ledger, batch, flight, external, sent, restarts>>
<1>1. /\ \A k \in Key : truth[k] \in 0 .. MaxChange
      /\ \A k \in changed : truth[k] < MaxChange
      /\ truth' = [k \in Key |-> IF k \in changed THEN truth[k] + 1 ELSE truth[k]]
      /\ outbox' = outbox \cup {<<k, truth[k] + 1>> : k \in told}
      /\ MaxChange \in Nat
  BY BoundAssumption DEF Commit, DispatchInv, TypeOK
<1>2. truth' \in [Key -> 0 .. MaxChange] /\ \A k \in Key : truth[k] <= truth'[k]
  BY <1>1
<1>3. \A k \in told : <<k, truth[k] + 1>> \in Entry /\ truth'[k] = truth[k] + 1
  BY <1>1 DEF Entry, Version
<1>4. \A e \in outbox : e \in Entry /\ e[1] \in Key /\ e[2] \in Int /\ e[2] <= truth[e[1]]
  BY <1>1 DEF DispatchInv, TypeOK, HandInv, Entry, Version
<1>5. outbox \subseteq outbox' /\ outbox' \subseteq Entry
  BY <1>1, <1>3, <1>4
<1>6. \A e \in outbox' : e[2] <= truth'[e[1]]
  <2> SUFFICES ASSUME NEW e \in outbox'
               PROVE  e[2] <= truth'[e[1]]
    OBVIOUS
  <2>1. CASE e \in outbox
    BY <1>1, <1>2, <1>4, <2>1
  <2>2. ASSUME NEW k \in told, e = <<k, truth[k] + 1>>
        PROVE  e[2] <= truth'[e[1]]
    BY <1>1, <1>3, <2>2
  <2> QED BY <1>1, <2>1, <2>2
<1> QED BY <1>2, <1>5, <1>6 DEF Commit

\* So does every command.
LEMMA CommandAdds ==
  ASSUME DispatchInv, Command
  PROVE  /\ truth' \in [Key -> 0 .. MaxChange]
         /\ \A k \in Key : truth[k] <= truth'[k]
         /\ outbox \subseteq outbox' /\ outbox' \subseteq Entry /\ blank' \subseteq outbox'
         /\ \A e \in outbox' : e[2] <= truth'[e[1]]
         /\ UNCHANGED <<ledger, batch, flight, external, sent, restarts>>
<1>1. PICK changed, told \in SUBSET Key :
        /\ told \subseteq changed /\ Commit(changed, told)
        /\ UNCHANGED blank \/ \E r \in told : blank' = blank \cup {<<r, truth[r] + 1>>}
  <2>1. ASSUME NEW r \in Room, MarkedDirty(r)
        PROVE  Commit({r}, {r}) /\ blank' = blank \cup {<<r, truth[r] + 1>>} /\ r \in Key
    BY <2>1 DEF MarkedDirty, Key
  <2>2. ASSUME NEW r \in Room, RoomEvent(r)
        PROVE  Commit({r}, {r}) /\ UNCHANGED blank /\ r \in Key
    BY <2>2 DEF RoomEvent, Key
  <2>3. ASSUME NEW r \in Room, NEW j \in Job, CheckOut(r, j)
        PROVE  Commit({r, j}, {r, j}) /\ UNCHANGED blank /\ r \in Key /\ j \in Key
    BY <2>3 DEF CheckOut, Key
  <2>4. ASSUME NEW r \in Room, NEW j \in Job, RoomJobEvent(r, j)
        PROVE  Commit({r, j}, {j}) /\ UNCHANGED blank /\ r \in Key /\ j \in Key
    BY <2>4 DEF RoomJobEvent, Key
  <2>5. ASSUME NEW j \in Job, JobEvent(j)
        PROVE  Commit({j}, {j}) /\ UNCHANGED blank /\ j \in Key
    BY <2>5 DEF JobEvent, Key
  <2>6. ASSUME NEW d \in Workflow, WorkflowStep(d)
        PROVE  Commit({d}, {d}) /\ UNCHANGED blank /\ d \in Key
    BY <2>6 DEF WorkflowStep, Key
  <2>7. ASSUME NEW o \in Record, RecordChange(o)
        PROVE  /\ Commit({o}, IF truth[o] = 0 THEN {o} ELSE {}) /\ UNCHANGED blank /\ o \in Key
    BY <2>7 DEF RecordChange, Key
  <2> HIDE DEF Key
  <2>8. CASE \E r \in Room : MarkedDirty(r)
    BY <2>1, <2>8
  <2>9. CASE \E r \in Room : RoomEvent(r)
    BY <2>2, <2>9
  <2>10. CASE \E r \in Room, j \in Job : CheckOut(r, j)
    <3>1. PICK r \in Room, j \in Job : CheckOut(r, j)
      BY <2>10
    <3>2. {r, j} \in SUBSET Key
      BY <2>3, <3>1
    <3> QED BY <2>3, <3>1, <3>2
  <2>11. CASE \E r \in Room, j \in Job : RoomJobEvent(r, j)
    <3>1. PICK r \in Room, j \in Job : RoomJobEvent(r, j)
      BY <2>11
    <3>2. {r, j} \in SUBSET Key /\ {j} \in SUBSET Key /\ {j} \subseteq {r, j}
      BY <2>4, <3>1
    <3> QED BY <2>4, <3>1, <3>2
  <2>12. CASE \E j \in Job : JobEvent(j)
    BY <2>5, <2>12
  <2>13. CASE \E d \in Workflow : WorkflowStep(d)
    BY <2>6, <2>13
  <2>14. CASE \E o \in Record : RecordChange(o)
    BY <2>7, <2>14
  <2> QED BY <2>8, <2>9, <2>10, <2>11, <2>12, <2>13, <2>14 DEF Command
<1>2. outbox' = outbox \cup {<<k, truth[k] + 1>> : k \in told}
  BY <1>1 DEF Commit
<1>3. blank' \subseteq outbox'
  BY <1>1, <1>2 DEF DispatchInv, TypeOK
<1> QED BY <1>1, <1>3, CommitAdds

\* Every step keeps the types.
LEMMA NextTypeOK ==
  ASSUME DispatchInv, [Next]_vars
  PROVE  TypeOK'
<1>0. TypeOK
  BY DEF DispatchInv
<1>1. CASE UNCHANGED vars
  BY <1>0, <1>1 DEF vars, derived, external, TypeOK
<1>2. CASE Command
  BY <1>0, <1>2, CommandAdds DEF external, TypeOK
<1>3. CASE Tick
  <2>1. ledger' \in [Entry -> Row \cup {Absent}]
    <3>1. Ensured = [e \in Entry |-> Ensured[e]]
      BY DEF Ensured
    <3> QED BY <1>3, <3>1, EnsuredRow DEF Tick
  <2>2. batch' \subseteq Item
    BY <1>3, ListedItem DEF Tick
  <2> QED BY <1>0, <1>3, <2>1, <2>2 DEF Tick, derived, external, TypeOK
<1>4. CASE Post
  <2>1. PICK item \in batch :
          /\ batch' = batch \ {item}
          /\ flight' = [item |-> item, applied |-> FALSE]
          /\ sent' = [sent EXCEPT ![item.entry] = @ + 1]
    BY <1>4 DEF Post
  <2>2. item \in Item /\ item.entry \in Entry
    BY <1>0 DEF TypeOK, Item
  <2>3. sent' \in [Entry -> Nat]
    BY <1>0, <2>1, <2>2 DEF TypeOK
  <2> QED BY <1>0, <1>4, <2>1, <2>2, <2>3 DEF Post, derived, external, TypeOK
<1>5. ASSUME NEW item \in Item, Accept(item)
      PROVE  base' \in [Key -> 0 .. MaxChange] /\ shown' \in [Key -> SUBSET Version]
  <2>1. item.entry[1] \in Key /\ item.value \in Version /\ item.value \in 0 .. MaxChange
    BY BoundAssumption DEF Item, Entry, Version
  <2> QED BY <1>0, <1>5, <2>1 DEF Accept, TypeOK
<1>6. CASE Apply
  <2>1. flight.item \in Item /\ flight' \in [item : Item, applied : BOOLEAN] \cup {Absent}
    BY <1>0, <1>6 DEF Apply, TypeOK
  <2> QED BY <1>0, <1>5, <1>6, <2>1 DEF Apply, derived, TypeOK
<1>7. CASE Delivered
  BY <1>0, <1>7, MarkRow DEF Delivered, derived, external, TypeOK
<1>8. CASE Refused
  BY <1>0, <1>8, MarkRow DEF Refused, derived, external, TypeOK
<1>9. ASSUME flight # Absent, \E left \in Linger : lingering' = lingering \cup left
      PROVE  lingering' \subseteq Item
  BY <1>0, <1>9 DEF Linger, TypeOK
<1>10. CASE Faltered
  <2>1. Verdict(flight.item) \in {"retryable", "failed"}
    BY DEF Verdict
  <2> QED BY <1>0, <1>9, <1>10, <2>1, MarkRow DEF Faltered, derived, TypeOK
<1>11. CASE ApplyLate
  <2>1. PICK item \in lingering :
          /\ Accept(item)
          /\ lingering' = lingering \ {item}
          /\ overtaken' = overtaken \cup {item.entry[1]}
    BY <1>11 DEF ApplyLate
  <2>2. item \in Item /\ item.entry[1] \in Key
    BY <1>0 DEF TypeOK, Item, Entry
  <2> QED BY <1>0, <1>5, <1>11, <2>1, <2>2 DEF ApplyLate, derived, TypeOK
<1>12. ASSUME NEW e \in Entry, Elapse(e)
       PROVE  TypeOK'
  <2>1. [ledger[e] EXCEPT !.due = TRUE] \in Row
    BY <1>0, <1>12 DEF Elapse, TypeOK, Row
  <2> QED BY <1>0, <1>12, <2>1 DEF Elapse, derived, external, TypeOK
<1>13. CASE Crash
  <2>1. restarts' \in 0 .. MaxRestarts
    BY <1>0, <1>13, BoundAssumption DEF Crash, TypeOK
  <2>2. lingering' \subseteq Item
    BY <1>0, <1>9, <1>13 DEF Crash, TypeOK
  <2> QED BY <1>0, <1>13, <2>1, <2>2 DEF Crash, derived, TypeOK
<1>14. CASE Unmapped
  <2>1. PICK item \in batch : batch' = batch \ {item} /\ Mark(item, "failed")
    BY <1>14 DEF Unmapped
  <2>2. item \in Item /\ InHand(item)
    BY <1>0 DEF TypeOK, InHand
  <2>3. ledger' \in [Entry -> Row \cup {Absent}]
    BY <2>1, <2>2, MarkItem
  <2> QED BY <1>0, <1>14, <2>1, <2>3 DEF Unmapped, derived, external, TypeOK
<1> QED BY <1>1, <1>2, <1>3, <1>4, <1>6, <1>7, <1>8, <1>10, <1>11, <1>12, <1>13, <1>14
        DEF Next, Command

\* Marking an item in hand takes it out of hand and closes or reopens its
\* row.
LEMMA MarkKeepsHandInv ==
  ASSUME DispatchInv, UNCHANGED derived, flight' = Absent, NEW item \in Item, InHand(item),
         batch' = batch \ {item}, flight # Absent => flight.item = item,
         NEW status \in {"retryable", "delivered", "failed"}, Mark(item, status),
         status = "retryable" => item.attempt < MaxAttempts
  PROVE  HandInv'
<1>0. PICK f \in Entry : f = item.entry
  BY MarkItem
<1>1. \A i \in Item : InHand(i)' => InHand(i) /\ i.entry \in Entry /\ i.entry # f
  BY <1>0 DEF InHand, DispatchInv, HandInv, Item
<1>2. UNCHANGED <<truth, outbox>>
  BY DEF derived
<1>3. \A e \in Entry : ledger'[e] # Absent => e \in outbox'
  BY <1>0, <1>2, MarkItem DEF DispatchInv, HandInv, Open
<1>4. \A e \in Entry : Open(e)' => ledger'[e].attempts < MaxAttempts
  <2>1. /\ ledger'[f].status = status
        /\ ledger'[f].attempts = item.attempt
        /\ \A e \in Entry \ {f} : ledger'[e] = ledger[e]
    BY <1>0, MarkItem
  <2>2. Open(f)' => ledger'[f].attempts < MaxAttempts
    BY <2>1 DEF Open
  <2>3. \A e \in Entry \ {f} : Open(e)' => Open(e)
    BY <2>1 DEF Open
  <2> QED BY <2>1, <2>2, <2>3 DEF DispatchInv, HandInv
<1>5. \A i \in Item : InHand(i)' => Open(i.entry)' /\ i.attempt = ledger'[i.entry].attempts + 1
  BY <1>0, <1>1, MarkItem DEF DispatchInv, HandInv, Open
<1>6. \A i, j \in Item : InHand(i)' /\ InHand(j)' /\ i.entry = j.entry => i = j
  BY <1>1 DEF DispatchInv, HandInv
<1> QED BY <1>2, <1>3, <1>4, <1>5, <1>6 DEF DispatchInv, HandInv

\* The same for the post in flight.
LEMMA AnswerKeepsHandInv ==
  ASSUME DispatchInv, flight # Absent, UNCHANGED <<derived, batch>>, flight' = Absent,
         NEW status \in {"retryable", "delivered", "failed"}, Mark(flight.item, status),
         status = "retryable" => flight.item.attempt < MaxAttempts
  PROVE  HandInv'
<1>1. flight.item \in Item /\ InHand(flight.item)
  BY MarkRow
<1>2. batch' = batch \ {flight.item}
  BY DEF DispatchInv, HandInv
<1> QED BY <1>1, <1>2, MarkKeepsHandInv

\* Every step keeps the tie between items in hand and their rows.
LEMMA NextHandInv ==
  ASSUME DispatchInv, [Next]_vars
  PROVE  HandInv'
<1>0. TypeOK /\ TypeOK' /\ HandInv
  BY NextTypeOK DEF DispatchInv
<1>1. ASSUME UNCHANGED <<derived, ledger>>, \A i \in Item : InHand(i)' => InHand(i),
             flight' # Absent => flight'.item \notin batch'
      PROVE  HandInv'
  BY <1>0, <1>1 DEF derived, HandInv, Open
<1>2. CASE UNCHANGED vars
  BY <1>0, <1>1, <1>2 DEF vars, InHand, HandInv
<1>3. CASE Command
  BY <1>0, <1>3, CommandAdds DEF HandInv, Open, InHand
<1>4. CASE Tick
  <2>1. PICK some \in SUBSET {e \in outbox : Due(Ensured[e])} :
          batch' = {Listed(e, Ensured[e]) : e \in some}
    BY <1>4 DEF Tick
  <2>2. ledger' = Ensured /\ flight' = Absent /\ UNCHANGED <<truth, outbox>>
    BY <1>4 DEF Tick, derived
  <2>3. \A e \in Entry : ledger'[e] # Absent => e \in outbox'
    BY <1>0, <2>2, EnsuredRow DEF HandInv
  <2>4. \A e \in Entry : Open(e)' => ledger'[e].attempts < MaxAttempts
    BY <1>0, <2>2, EnsuredRow, BoundAssumption DEF HandInv, Open
  <2>5. \A i \in Item : InHand(i)' =>
          \E e \in some : i = Listed(e, Ensured[e]) /\ i.entry = e /\ Open(e)'
                          /\ i.attempt = ledger'[e].attempts + 1
    BY <2>1, <2>2, ListedItem DEF InHand, Open, Due
  <2> QED BY <1>0, <2>2, <2>3, <2>4, <2>5 DEF HandInv
<1>5. CASE Post
  <2>1. PICK item \in batch : batch' = batch \ {item} /\ flight' = [item |-> item, applied |-> FALSE]
    BY <1>5 DEF Post
  <2> QED BY <1>1, <1>5, <2>1 DEF Post, InHand
<1>6. CASE Apply
  <2>1. flight'.item = flight.item /\ flight' # Absent
    BY <1>0, <1>6, AbsentAssumption DEF Apply, TypeOK
  <2> QED BY <1>0, <1>1, <1>6, <2>1 DEF Apply, InHand, HandInv
<1>7. CASE Delivered
  BY <1>7, AnswerKeepsHandInv DEF Delivered
<1>8. CASE Refused
  BY <1>8, AnswerKeepsHandInv DEF Refused
<1>9. CASE Faltered
  BY <1>9, AnswerKeepsHandInv DEF Faltered, Verdict
<1>10. CASE ApplyLate
  BY <1>0, <1>1, <1>10 DEF ApplyLate, InHand, HandInv
<1>11. ASSUME NEW e \in Entry, Elapse(e)
       PROVE  HandInv'
  <2>1. [ledger[e] EXCEPT !.due = TRUE] \in Row
    BY <1>0, <1>11 DEF Elapse, TypeOK, Row
  <2>2. /\ ledger'[e] # Absent /\ ledger[e] # Absent
        /\ ledger'[e].status = ledger[e].status /\ ledger'[e].attempts = ledger[e].attempts
    BY <1>0, <1>11, <2>1, AbsentAssumption DEF Elapse, TypeOK, Row
  <2>3. \A f \in Entry : Open(f)' <=> Open(f)
    BY <1>0, <1>11, <2>2 DEF Elapse, Open, TypeOK
  <2>4. \A f \in Entry : /\ ledger'[f] # Absent <=> ledger[f] # Absent
                         /\ ledger'[f] # Absent => ledger'[f].attempts = ledger[f].attempts
    BY <1>0, <1>11, <2>2 DEF Elapse, TypeOK
  <2>5. \A i \in Item : i.entry \in Entry
    BY DEF Item
  <2>6. UNCHANGED <<truth, outbox, batch, flight>>
    BY <1>11 DEF Elapse, derived
  <2>7. \A i \in Item : InHand(i)' <=> InHand(i)
    BY <2>6 DEF InHand
  <2>8. \A f \in Entry : Open(f) => ledger[f] # Absent
    BY DEF Open
  <2> QED BY <1>0, <2>3, <2>4, <2>5, <2>6, <2>7, <2>8 DEF HandInv
<1>12. CASE Crash
  BY <1>1, <1>12 DEF Crash, InHand
<1>13. CASE Unmapped
  <2>1. PICK item \in batch : batch' = batch \ {item} /\ Mark(item, "failed")
    BY <1>13 DEF Unmapped
  <2>2. item \in Item /\ InHand(item)
    BY <1>0 DEF TypeOK, InHand
  <2>3. flight = Absent /\ flight' = Absent /\ UNCHANGED derived
    BY <1>13 DEF Unmapped
  <2> QED BY <2>1, <2>2, <2>3, MarkKeepsHandInv
<1> QED BY <1>2, <1>3, <1>4, <1>5, <1>6, <1>7, <1>8, <1>9, <1>10, <1>11, <1>12, <1>13
        DEF Next, Command

\* The ledger and the items handed out stay in step.
THEOREM DispatchInvariant == Spec => []DispatchInv
<1>1. DispatchInv /\ [Next]_vars => DispatchInv'
  BY NextTypeOK, NextHandInv DEF DispatchInv
<1> QED BY <1>1, InitDispatchInv, PTL DEF Spec

\* The state has its types in every behaviour.
THEOREM TypeCorrect == Spec => []TypeOK
<1>1. DispatchInv => TypeOK
  BY DEF DispatchInv
<1> QED BY <1>1, DispatchInvariant, PTL

-----------------------------------------------------------------------------
(* Rows *)

\* What is delivered or given up is never reopened: the dispatcher marks only
\* items in hand, and their rows are open.
THEOREM SettledStays == Spec => SettledIsFinal
<1> DEFINE Final == \A e \in Entry : Settled(e) => ledger'[e] = ledger[e]
<1>1. ASSUME DispatchInv, [Next]_vars
      PROVE  Final
  <2>1. CASE UNCHANGED ledger
    BY <2>1
  <2>2. CASE Tick
    BY <1>1, <2>2, EnsuredRow DEF Tick, Settled
  <2>3. ASSUME flight # Absent, NEW status \in {"retryable", "delivered", "failed"},
               Mark(flight.item, status)
        PROVE  Final
    BY <1>1, <2>3, MarkRow DEF Settled, Open
  <2>4. ASSUME NEW e \in Entry, Elapse(e)
        PROVE  Final
    BY <1>1, <2>4 DEF Elapse, Settled, DispatchInv, TypeOK
  <2>5. CASE Delivered \/ Refused \/ Faltered
    BY <2>3, <2>5 DEF Delivered, Refused, Faltered, Verdict
  <2>6. CASE Post \/ Apply \/ ApplyLate \/ Crash
    BY <2>1, <2>6 DEF Post, Apply, ApplyLate, Crash
  <2>7. CASE UNCHANGED vars
    BY <2>1, <2>7 DEF vars
  <2>8. CASE Command
    BY <1>1, <2>1, <2>8, CommandAdds
  <2>9. CASE Unmapped
    <3>1. PICK item \in batch : Mark(item, "failed")
      BY <2>9 DEF Unmapped
    <3>2. item \in Item /\ InHand(item)
      BY <1>1 DEF DispatchInv, TypeOK, InHand
    <3> QED BY <1>1, <3>1, <3>2, MarkItem DEF Settled, Open
  <2> QED BY <1>1, <2>2, <2>4, <2>5, <2>6, <2>7, <2>8, <2>9 DEF Next, Command
<1>2. DispatchInv /\ [Next]_vars => [Final]_vars
  BY <1>1
<1> QED BY <1>2, DispatchInvariant, PTL DEF Spec, SettledIsFinal

-----------------------------------------------------------------------------
(* Posts *)

Attempts(e) == IF ledger[e] = Absent THEN 0 ELSE ledger[e].attempts

\* An entry was posted once per marked attempt, at most once per crash, and
\* once more while it is in flight; the post in flight is never a wasted one.
SentInv ==
  \A e \in Entry :
    sent[e] <= Attempts(e) + restarts + (IF flight # Absent /\ flight.item.entry = e THEN 1 ELSE 0)

\* Every step keeps the account of the posts.
LEMMA NextSentInv ==
  ASSUME DispatchInv, DispatchInv', SentInv, [Next]_vars
  PROVE  SentInv'
<1> DEFINE Flying(e) == flight # Absent /\ flight.item.entry = e
<1>0. /\ sent \in [Entry -> Nat] /\ restarts \in Nat
      /\ \A e \in Entry : Attempts(e) \in Nat
  BY BoundAssumption DEF DispatchInv, TypeOK, Attempts, Row
<1>1. ASSUME UNCHANGED <<sent, restarts>>, \A e \in Entry : Attempts(e)' = Attempts(e),
             \A e \in Entry : Flying(e)' <=> Flying(e)
      PROVE  SentInv'
  BY <1>0, <1>1 DEF SentInv
<1>2. CASE UNCHANGED vars
  BY <1>1, <1>2 DEF vars, Attempts
<1>3. CASE Command
  BY <1>1, <1>3, CommandAdds DEF Attempts
<1>4. CASE Tick
  <2>1. \A e \in Entry : Attempts(e)' = Attempts(e)
    BY <1>4, EnsuredRow DEF Tick, Attempts
  <2> QED BY <1>1, <1>4, <2>1 DEF Tick
<1>5. CASE Post
  <2>1. PICK item \in batch :
          /\ flight' = [item |-> item, applied |-> FALSE]
          /\ sent' = [sent EXCEPT ![item.entry] = @ + 1]
    BY <1>5 DEF Post
  <2>2. /\ flight = Absent /\ flight' # Absent
        /\ \A e \in Entry : Attempts(e)' = Attempts(e)
        /\ restarts' = restarts
    <3>1. [item |-> item, applied |-> FALSE] \in [item : Item, applied : BOOLEAN]
      BY DEF DispatchInv, TypeOK
    <3> QED BY <1>5, <2>1, <3>1, AbsentAssumption DEF Post, Attempts
  <2>3. \A e \in Entry : sent[e] <= Attempts(e) + restarts
    BY <1>0, <2>2 DEF SentInv
  <2>4. \A e \in Entry : sent'[e] = IF e = item.entry THEN sent[e] + 1 ELSE sent[e]
    BY <1>0, <2>1
  <2> QED BY <1>0, <2>1, <2>2, <2>3, <2>4 DEF SentInv
<1>6. CASE Apply
  <2>1. flight'.item = flight.item /\ flight' # Absent
    BY <1>6, AbsentAssumption DEF Apply, DispatchInv, TypeOK
  <2> QED BY <1>1, <1>6, <2>1 DEF Apply, Attempts
<1>7. ASSUME flight # Absent, flight' = Absent, UNCHANGED <<sent, restarts>>,
             NEW status \in {"retryable", "delivered", "failed"}, Mark(flight.item, status)
      PROVE  SentInv'
  <2>0. PICK f \in Entry : f = flight.item.entry
    BY <1>7, MarkRow
  <2>1. f \in Entry /\ Attempts(f)' = Attempts(f) + 1
    <3>1. /\ flight.item \in Item
          /\ f \in Entry
          /\ ledger'[f] # Absent /\ Open(f)
          /\ ledger'[f].attempts = flight.item.attempt
          /\ ledger[f].attempts = flight.item.attempt - 1
      BY <1>7, <2>0, MarkRow
    <3>2. flight.item.attempt \in Int
      BY <3>1, BoundAssumption DEF Item
    <3> QED BY <3>1, <3>2 DEF Attempts, Open
  <2>2. \A e \in Entry \ {f} : Attempts(e)' = Attempts(e)
    <3>1. \A e \in Entry \ {f} : ledger'[e] = ledger[e]
      BY <1>7, <2>0, MarkRow
    <3> QED BY <3>1 DEF Attempts
  <2>3. \A e \in Entry : sent'[e] = sent[e] /\ restarts' = restarts /\ ~Flying(e)'
    BY <1>7
  <2>4. sent[f] <= Attempts(f) + restarts + 1
    BY <1>0, <1>7, <2>0, <2>1 DEF SentInv
  <2>5. \A e \in Entry \ {f} : sent[e] <= Attempts(e) + restarts
    BY <1>0, <1>7, <2>0 DEF SentInv
  <2> QED BY <1>0, <2>1, <2>2, <2>3, <2>4, <2>5 DEF SentInv
<1>8. CASE Delivered \/ Refused \/ Faltered
  BY <1>7, <1>8 DEF Delivered, Refused, Faltered, Verdict
<1>9. CASE ApplyLate
  BY <1>1, <1>9 DEF ApplyLate, Attempts
<1>10. ASSUME NEW e \in Entry, Elapse(e)
       PROVE  SentInv'
  <2>1. \A f \in Entry : Attempts(f)' = Attempts(f)
    <3>1. [ledger[e] EXCEPT !.due = TRUE] \in Row
      BY <1>10 DEF Elapse, DispatchInv, TypeOK, Row
    <3>2. ledger'[e] # Absent /\ ledger'[e].attempts = ledger[e].attempts
      BY <1>10, <3>1, AbsentAssumption DEF Elapse, DispatchInv, TypeOK, Row
    <3> QED BY <1>10, <3>2 DEF Elapse, Attempts, DispatchInv, TypeOK
  <2> QED BY <1>1, <1>10, <2>1 DEF Elapse
<1>11. CASE Crash
  <2>1. /\ flight' = Absent /\ restarts' = restarts + 1 /\ sent' = sent
        /\ \A e \in Entry : Attempts(e)' = Attempts(e)
    BY <1>11 DEF Crash, Attempts
  <2> QED BY <1>0, <2>1 DEF SentInv
<1>12. CASE Unmapped
  <2>1. PICK item \in batch : Mark(item, "failed")
    BY <1>12 DEF Unmapped
  <2>2. item \in Item /\ InHand(item)
    BY DEF DispatchInv, TypeOK, InHand
  <2>3. PICK f \in Entry : f = item.entry
    BY <2>1, <2>2, MarkItem
  <2>4. Attempts(f)' = Attempts(f) + 1
    <3>1. /\ ledger'[f] # Absent /\ ledger[f] # Absent
          /\ ledger'[f].attempts = item.attempt
          /\ ledger[f].attempts = item.attempt - 1
      BY <2>1, <2>2, <2>3, MarkItem DEF Open
    <3>2. item.attempt \in Int
      BY <2>2, BoundAssumption DEF Item
    <3> QED BY <3>1, <3>2 DEF Attempts
  <2>5. \A e \in Entry \ {f} : Attempts(e)' = Attempts(e)
    BY <2>1, <2>2, <2>3, MarkItem DEF Attempts
  <2>6. UNCHANGED <<sent, restarts, flight>>
    BY <1>12 DEF Unmapped
  <2> QED BY <1>0, <2>4, <2>5, <2>6 DEF SentInv
<1> QED BY <1>2, <1>3, <1>4, <1>5, <1>6, <1>8, <1>9, <1>10, <1>11, <1>12 DEF Next, Command

\* The retry ceiling bounds the posts themselves, up to one per crash.
THEOREM PostsBounded == Spec => []PostsAreBounded
<1>1. Init => SentInv
  BY DEF Init, SentInv, Attempts
<1>2. DispatchInv /\ DispatchInv' /\ SentInv /\ [Next]_vars => SentInv'
  BY NextSentInv
<1>3. ASSUME DispatchInv, SentInv
      PROVE  PostsAreBounded
  <2> SUFFICES ASSUME NEW e \in Entry
               PROVE  sent[e] <= MaxAttempts + restarts
    BY DEF PostsAreBounded
  <2>1. /\ sent[e] \in Nat /\ restarts \in Nat /\ MaxAttempts \in Nat \ {0}
        /\ Attempts(e) \in 0 .. MaxAttempts
    BY <1>3, BoundAssumption DEF DispatchInv, TypeOK, Attempts, Row
  <2>2. CASE flight # Absent /\ flight.item.entry = e
    <3>1. flight.item \in Item /\ InHand(flight.item)
      BY <1>3, <2>2 DEF DispatchInv, TypeOK, InHand
    <3>2. Attempts(e) < MaxAttempts
      BY <1>3, <2>2, <3>1 DEF DispatchInv, HandInv, Attempts, Open
    <3> QED BY <1>3, <2>1, <2>2, <3>2 DEF SentInv
  <2>3. CASE ~(flight # Absent /\ flight.item.entry = e)
    BY <1>3, <2>1, <2>3 DEF SentInv
  <2> QED BY <2>2, <2>3
<1> QED BY <1>1, <1>2, <1>3, DispatchInvariant, PTL DEF Spec

-----------------------------------------------------------------------------
(* What the adapter has been told *)

\* The state an entry asks to be shown, or a later one.
Fits(e, v) == IF e[1] \in Workflow THEN v = e[2] ELSE v >= e[2]

\* Items show what their entry asks for and nothing that is not committed, and
\* what was answered as applied was applied.
WitnessInv ==
  /\ \A i \in Item : InHand(i) => i.value <= truth[i.entry[1]] /\ Fits(i.entry, i.value)
  /\ flight # Absent /\ flight.applied => flight.item.value \in shown[flight.item.entry[1]]
  /\ \A e \in Entry : IsDelivered(e) => \E v \in shown[e[1]] : Fits(e, v)

\* While no aborted post of a room or job is applied late, the adapter is behind
\* every item in hand, never behind a delivered entry, and all items of a batch
\* for the key show the same.
RowInv ==
  \A k \in (Room \cup Job) \ overtaken :
    /\ base[k] <= truth[k]
    /\ \A i \in Item : InHand(i) /\ i.entry[1] = k => base[k] <= i.value
    /\ \A i, j \in Item : InHand(i) /\ InHand(j) /\ i.entry[1] = k /\ j.entry[1] = k
                            => i.value = j.value
    /\ flight # Absent /\ flight.applied /\ flight.item.entry[1] = k
         => base[k] = flight.item.value
    /\ \A e \in Entry : IsDelivered(e) /\ e[1] = k => e[2] <= base[k]

ToldInv == WitnessInv /\ RowInv

\* The numbers and keys of the state are numbers and keys.
LEMMA Numbers ==
  ASSUME DispatchInv
  PROVE  /\ \A k \in Key : truth[k] \in Int /\ base[k] \in Int
         /\ \A e \in Entry : e[1] \in Key /\ e[2] \in Int
         /\ \A i \in Item : i.entry \in Entry /\ i.entry[1] \in Key /\ i.value \in Int
         /\ Room \subseteq Key /\ Job \subseteq Key
         /\ flight # Absent => flight.item \in Item /\ InHand(flight.item)
BY BoundAssumption DEF DispatchInv, TypeOK, Entry, Item, Version, Key, InHand

\* A step that tells the adapter nothing, hands out nothing and delivers
\* nothing keeps what is known of the adapter.
LEMMA QuietKeepsTold ==
  ASSUME DispatchInv, DispatchInv', ToldInv,
         UNCHANGED <<base, shown, overtaken>>,
         \A k \in Key : truth[k] <= truth'[k],
         \A i \in Item : InHand(i)' => InHand(i),
         flight' # Absent /\ flight'.applied
           => flight # Absent /\ flight.applied /\ flight'.item = flight.item,
         \A e \in Entry : IsDelivered(e)' => IsDelivered(e)
  PROVE  ToldInv'
<1>1. \A k \in Key : truth[k] \in Int /\ truth'[k] \in Int /\ base[k] \in Int
  BY Numbers, BoundAssumption DEF DispatchInv, TypeOK
<1>2. WitnessInv'
  <2>1. \A i \in Item : InHand(i)' => i.value <= truth'[i.entry[1]] /\ Fits(i.entry, i.value)'
    BY <1>1, Numbers DEF ToldInv, WitnessInv, Fits
  <2>2. \A e \in Entry : IsDelivered(e)' => \E v \in shown'[e[1]] : Fits(e, v)'
    BY DEF ToldInv, WitnessInv, Fits
  <2> QED BY <2>1, <2>2 DEF ToldInv, WitnessInv
<1>3. RowInv'
  BY <1>1, Numbers DEF ToldInv, RowInv
<1> QED BY <1>2, <1>3 DEF ToldInv

\* A tick hands out items that show the tables as they are.
LEMMA TickKeepsTold ==
  ASSUME DispatchInv, DispatchInv', ToldInv, Tick
  PROVE  ToldInv'
<1>1. /\ ledger' = Ensured /\ flight = Absent /\ flight' = Absent
      /\ UNCHANGED <<truth, base, shown, overtaken>>
  BY DEF Tick, derived, external
<1>2. \A i \in Item : InHand(i)' => i.entry \in outbox /\ i.value = Shown(i.entry)
  <2>1. PICK some \in SUBSET {e \in outbox : Due(Ensured[e])} :
          batch' = {Listed(e, Ensured[e]) : e \in some}
    BY DEF Tick
  <2> QED BY <1>1, <2>1, ListedItem DEF InHand
<1>3. \A e \in Entry : IsDelivered(e)' => IsDelivered(e)
  BY <1>1, EnsuredRow DEF IsDelivered
<1>4. \A i \in Item : InHand(i)' => i.value <= truth[i.entry[1]] /\ Fits(i.entry, i.value)
  BY <1>2, Numbers DEF DispatchInv, HandInv, Shown, Fits
<1>5. WitnessInv'
  BY <1>1, <1>3, <1>4 DEF ToldInv, WitnessInv, Fits
<1>6. \A i \in Item : InHand(i)' /\ i.entry[1] \in Room \cup Job => i.value = truth[i.entry[1]]
  BY <1>2, KeyAssumption DEF Shown
<1>7. RowInv'
  BY <1>1, <1>3, <1>6 DEF ToldInv, RowInv
<1> QED BY <1>5, <1>7 DEF ToldInv

\* The adapter moves forward when it applies the post in flight.
LEMMA ApplyKeepsTold ==
  ASSUME DispatchInv, DispatchInv', ToldInv, Apply
  PROVE  ToldInv'
<1>1. PICK item \in Item : item = flight.item /\ InHand(item)
  BY Numbers DEF Apply
<1>2. PICK key \in Key : key = item.entry[1]
  BY Numbers
<1>3. /\ base' = [base EXCEPT ![key] = item.value]
      /\ shown' = [shown EXCEPT ![key] = @ \cup {item.value}]
      /\ UNCHANGED <<truth, ledger, batch, overtaken>>
      /\ flight # Absent
  BY <1>1, <1>2 DEF Apply, Accept, derived
<1>4. flight' # Absent /\ flight'.item = item /\ flight'.applied
  BY <1>1, AbsentAssumption DEF Apply, DispatchInv, TypeOK
<1>5. \A i \in Item : InHand(i)' <=> InHand(i)
  BY <1>1, <1>3, <1>4 DEF InHand
<1>6. \A e \in Entry : IsDelivered(e)' <=> IsDelivered(e)
  BY <1>3 DEF IsDelivered
<1>7. /\ base'[key] = item.value
      /\ \A k \in Key \ {key} : base'[k] = base[k]
      /\ item.value \in shown'[key]
      /\ \A k \in Key : shown[k] \subseteq shown'[k]
  BY <1>3 DEF DispatchInv, TypeOK
<1>8. WitnessInv'
  BY <1>2, <1>3, <1>4, <1>5, <1>6, <1>7, Numbers DEF ToldInv, WitnessInv, Fits
<1>9. RowInv'
  <2> SUFFICES ASSUME NEW k \in (Room \cup Job) \ overtaken
               PROVE  /\ base'[k] <= truth[k]
                      /\ \A i \in Item : InHand(i) /\ i.entry[1] = k => base'[k] <= i.value
                      /\ item.entry[1] = k => base'[k] = item.value
                      /\ \A e \in Entry : IsDelivered(e) /\ e[1] = k => e[2] <= base'[k]
    BY <1>3, <1>4, <1>5, <1>6 DEF ToldInv, RowInv
  <2>1. CASE k # key
    BY <1>2, <1>7, <2>1, Numbers DEF ToldInv, RowInv
  <2>2. CASE k = key
    <3>1. base[k] <= item.value /\ item.value <= truth[k]
      BY <1>1, <1>2, <2>2 DEF ToldInv, RowInv, WitnessInv
    <3>2. \A i \in Item : InHand(i) /\ i.entry[1] = k => i.value = item.value
      BY <1>1, <1>2, <2>2 DEF ToldInv, RowInv
    <3> QED BY <1>2, <1>7, <2>2, <3>1, <3>2, Numbers DEF ToldInv, RowInv
  <2> QED BY <2>1, <2>2
<1> QED BY <1>8, <1>9 DEF ToldInv

\* A post is marked as delivered only after the adapter has applied it.
LEMMA DeliveredKeepsTold ==
  ASSUME DispatchInv, DispatchInv', ToldInv, Delivered
  PROVE  ToldInv'
<1>1. PICK item \in Item : item = flight.item /\ InHand(item)
  BY Numbers DEF Delivered
<1>2. PICK f \in Entry : f = item.entry
  BY Numbers
<1>3. /\ flight # Absent /\ flight.applied /\ flight' = Absent
      /\ UNCHANGED <<truth, batch, base, shown, overtaken>>
  BY DEF Delivered, derived, external
<1>4. \A i \in Item : InHand(i)' => InHand(i)
  BY <1>3 DEF InHand
<1>5. \A e \in Entry \ {f} : IsDelivered(e)' <=> IsDelivered(e)
  BY <1>1, <1>2, <1>3, MarkRow DEF Delivered, IsDelivered
<1>6. item.value \in shown[f[1]] /\ Fits(f, item.value)
  BY <1>1, <1>2, <1>3 DEF ToldInv, WitnessInv
<1>7. WitnessInv'
  BY <1>3, <1>4, <1>5, <1>6 DEF ToldInv, WitnessInv, Fits
<1>8. f[1] \in (Room \cup Job) \ overtaken => f[2] <= base[f[1]]
  BY <1>1, <1>2, <1>3, <1>6, KeyAssumption DEF ToldInv, RowInv, Fits
<1>9. RowInv'
  BY <1>3, <1>4, <1>5, <1>8 DEF ToldInv, RowInv
<1> QED BY <1>7, <1>9 DEF ToldInv

\* A post applied late puts its key out of the account.
LEMMA LateKeepsTold ==
  ASSUME DispatchInv, DispatchInv', ToldInv, ApplyLate
  PROVE  ToldInv'
<1>1. PICK item \in lingering : Accept(item) /\ overtaken' = overtaken \cup {item.entry[1]}
  BY DEF ApplyLate
<1>2. PICK key \in Key : key = item.entry[1]
  BY <1>1, Numbers DEF DispatchInv, TypeOK
<1>3. /\ UNCHANGED <<truth, ledger, batch, flight>>
      /\ \A k \in Key \ {key} : base'[k] = base[k]
      /\ \A k \in Key : shown[k] \subseteq shown'[k]
      /\ overtaken' = overtaken \cup {key}
  BY <1>1, <1>2 DEF ApplyLate, Accept, derived, DispatchInv, TypeOK
<1>4. \A i \in Item : InHand(i)' <=> InHand(i)
  BY <1>3 DEF InHand
<1>5. \A e \in Entry : IsDelivered(e)' <=> IsDelivered(e)
  BY <1>3 DEF IsDelivered
<1>6. WitnessInv'
  BY <1>3, <1>4, <1>5, Numbers DEF ToldInv, WitnessInv, Fits
<1>7. RowInv'
  BY <1>3, <1>4, <1>5, Numbers DEF ToldInv, RowInv
<1> QED BY <1>6, <1>7 DEF ToldInv

\* Every step keeps what is known of the adapter.
LEMMA NextToldInv ==
  ASSUME DispatchInv, DispatchInv', ToldInv, [Next]_vars
  PROVE  ToldInv'
<1>1. CASE UNCHANGED vars
  BY <1>1, QuietKeepsTold, Numbers DEF vars, derived, external, InHand, IsDelivered
<1>2. CASE Command
  BY <1>2, CommandAdds, QuietKeepsTold DEF external, InHand, IsDelivered
<1>3. CASE Post
  <2>1. PICK item \in batch : batch' = batch \ {item} /\ flight' = [item |-> item, applied |-> FALSE]
    BY <1>3 DEF Post
  <2>2. UNCHANGED <<truth, ledger, base, shown, overtaken>>
    BY <1>3 DEF Post, derived, external
  <2>3. \A k \in Key : truth[k] <= truth'[k]
    BY <2>2, Numbers
  <2>4. \A i \in Item : InHand(i)' => InHand(i)
    BY <2>1 DEF InHand
  <2>5. \A e \in Entry : IsDelivered(e)' => IsDelivered(e)
    BY <2>2 DEF IsDelivered
  <2> QED BY <2>1, <2>2, <2>3, <2>4, <2>5, QuietKeepsTold
<1>4. ASSUME flight # Absent, flight' = Absent, UNCHANGED <<truth, batch, base, shown, overtaken>>,
             NEW status \in {"retryable", "failed"}, Mark(flight.item, status)
      PROVE  ToldInv'
  <2>1. \A e \in Entry : IsDelivered(e)' => IsDelivered(e)
    BY <1>4, MarkRow DEF IsDelivered
  <2>2. \A i \in Item : InHand(i)' => InHand(i)
    BY <1>4 DEF InHand
  <2>3. \A k \in Key : truth[k] <= truth'[k]
    BY <1>4, Numbers
  <2> QED BY <1>4, <2>1, <2>2, <2>3, QuietKeepsTold
<1>5. CASE Refused \/ Faltered
  BY <1>4, <1>5 DEF Refused, Faltered, Verdict, derived, external
<1>6. ASSUME NEW e \in Entry, Elapse(e)
      PROVE  ToldInv'
  <2>1. \A f \in Entry : IsDelivered(f)' => IsDelivered(f)
    <3>1. ledger[e] \in Row /\ [ledger[e] EXCEPT !.due = TRUE].status = "retryable"
      BY <1>6 DEF Elapse, DispatchInv, TypeOK, Row
    <3> QED BY <1>6, <3>1 DEF Elapse, IsDelivered, DispatchInv, TypeOK
  <2>2. UNCHANGED <<truth, batch, flight, base, shown, overtaken>>
    BY <1>6 DEF Elapse, derived, external
  <2>3. \A k \in Key : truth[k] <= truth'[k]
    BY <2>2, Numbers
  <2> QED BY <2>1, <2>2, <2>3, QuietKeepsTold DEF InHand
<1>7. CASE Crash
  <2>1. \A k \in Key : truth[k] <= truth'[k]
    BY <1>7, Numbers DEF Crash, derived
  <2> QED BY <1>7, <2>1, QuietKeepsTold DEF Crash, derived, InHand, IsDelivered
<1>8. CASE Unmapped
  <2>1. PICK item \in batch : batch' = batch \ {item} /\ Mark(item, "failed")
    BY <1>8 DEF Unmapped
  <2>2. item \in Item /\ InHand(item)
    BY DEF DispatchInv, TypeOK, InHand
  <2>3. \A e \in Entry : IsDelivered(e)' => IsDelivered(e)
    BY <2>1, <2>2, MarkItem DEF IsDelivered
  <2>4. UNCHANGED <<truth, flight, base, shown, overtaken>>
    BY <1>8 DEF Unmapped, derived, external
  <2>5. \A i \in Item : InHand(i)' => InHand(i)
    BY <2>1, <2>4 DEF InHand
  <2>6. \A k \in Key : truth[k] <= truth'[k]
    BY <2>4, Numbers
  <2> QED BY <2>3, <2>4, <2>5, <2>6, QuietKeepsTold
<1> QED BY <1>1, <1>2, <1>3, <1>5, <1>6, <1>7, <1>8, TickKeepsTold, ApplyKeepsTold,
           DeliveredKeepsTold, LateKeepsTold DEF Next, Command

\* What is known of the adapter holds throughout.
LEMMA ToldInvariant == Spec => []ToldInv
<1>1. Init => ToldInv
  BY AbsentAssumption, BoundAssumption DEF Init, ToldInv, WitnessInv, RowInv, InHand, IsDelivered, Key
<1>2. DispatchInv /\ DispatchInv' /\ ToldInv /\ [Next]_vars => ToldInv'
  BY NextToldInv
<1> QED BY <1>1, <1>2, DispatchInvariant, PTL DEF Spec

\* No entry is marked as delivered that the adapter was not told.
THEOREM DeliveredMeansApplied == Spec => []DeliveredWasApplied
<1>1. ToldInv => DeliveredWasApplied
  BY DEF ToldInv, WitnessInv, DeliveredWasApplied, IsDelivered, Fits
<1> QED BY <1>1, ToldInvariant, PTL

\* The adapter's rows of rooms, tasks and tickets are never older than what was
\* delivered of them, and with all of a task or ticket delivered show it as it is.
THEOREM RowsAreNeverOlder == Spec => []RowsKeepUp
<1>1. ASSUME DispatchInv, ToldInv
      PROVE  RowsKeepUp
  <2> SUFFICES ASSUME NEW k \in (Room \cup Job) \ overtaken
               PROVE  /\ \A v \in Version : IsDelivered(<<k, v>>) => base[k] >= v
                      /\ (\A v \in 1 .. truth[k] : IsDelivered(<<k, v>>)) => base[k] = truth[k]
    BY DEF RowsKeepUp
  <2>1. k \in Key /\ truth[k] \in 0 .. MaxChange /\ base[k] \in 0 .. MaxChange
    BY <1>1, Numbers DEF DispatchInv, TypeOK
  <2>2. base[k] <= truth[k]
    BY <1>1 DEF ToldInv, RowInv
  <2>3. ASSUME NEW v \in Version, IsDelivered(<<k, v>>)
        PROVE  base[k] >= v
    <3>1. <<k, v>> \in Entry /\ v \in Int
      BY <2>1, BoundAssumption DEF Entry, Version
    <3>2. v <= base[k]
      BY <1>1, <2>3, <3>1 DEF ToldInv, RowInv
    <3> QED BY <2>1, <3>1, <3>2, BoundAssumption
  <2>4. ASSUME \A v \in 1 .. truth[k] : IsDelivered(<<k, v>>)
        PROVE  base[k] = truth[k]
    <3>1. CASE truth[k] = 0
      BY <2>1, <2>2, <3>1, BoundAssumption
    <3>2. CASE truth[k] # 0
      <4>1. truth[k] \in Version /\ truth[k] \in 1 .. truth[k]
        BY <2>1, <3>2, BoundAssumption DEF Version
      <4>2. truth[k] <= base[k]
        BY <2>1, <2>3, <2>4, <4>1, BoundAssumption
      <4> QED BY <2>1, <2>2, <4>2, BoundAssumption
    <3> QED BY <3>1, <3>2
  <2> QED BY <2>3, <2>4
<1> QED BY <1>1, ToldInvariant, DispatchInvariant, PTL
=============================================================================
