------------------------- MODULE RoomCommands_proofs -------------------------
(***************************************************************************)
(* Safety of the room commands, for any rooms, keys and seeds.  All of it  *)
(* rests on RecordsAudited: a record exists only if the audit row does     *)
(* that its creator wrote, so a command whose audit id is free makes       *)
(* records whose ids are free.                                             *)
(***************************************************************************)
EXTENDS RoomCommands, TLAPS

\* The command whose confirmation creates the tasks with this prefix.
Creator == [p \in {"checkout", "housekeeping", "inspection", "rework"} |->
              CASE p = "checkout" -> "CHECK_OUT"
                [] p = "housekeeping" -> "HOUSEKEEPING_DONE"
                [] p = "inspection" -> "HOUSEKEEPING_INSPECTION"
                [] p = "rework" -> "HOUSEKEEPING_REWORK"]

RecordsAudited ==
  /\ \A i \in TaskId : tasks[i] # Absent => <<Creator[i[1]], i[2]>> \in audits
  /\ \A i \in TicketId : tickets[i] # Absent => <<"REPORT_MAINTENANCE", i>> \in audits
  /\ \A i \in TicketId : blocks[i] # "none" <=> (tickets[i] # Absent /\ tickets[i].stop)

RecordInv == TypeOK /\ RecordsAudited

\* The seeds satisfy the invariant.
LEMMA InitRecordInv == Init => RecordInv
BY SeedAssumption DEF Init, RecordInv, TypeOK, RecordsAudited

\* What the executor writes keeps its type.
LEMMA ConfirmTypes ==
  ASSUME TypeOK, NEW k \in Key, NEW r \in Room, NEW type \in CommandType,
         NEW status \in RoomStatus, Confirm(k, r, type, status)
  PROVE  /\ rooms' \in [Room -> RoomStatus]
         /\ audits' \subseteq CommandType \X Id
         /\ used' \subseteq Key
         /\ rooms'[r] = status
         /\ \A q \in Room \ {r} : rooms'[q] = rooms[q]
         /\ audits \subseteq audits'
         /\ <<type, Suffix[k]>> \in audits' /\ <<type, Suffix[k]>> \notin audits
         /\ Suffix[k] \in Id
BY SuffixAssumption DEF TypeOK, Confirm

\* What a cleaning report on room r that leaves it in status c does to the tasks.
TaskWritten(r, c) ==
  \E i \in TaskId, room \in Room :
    /\ tasks' = [tasks EXCEPT ![i] = [room |-> room, status |-> Completed(c)]]
    /\ tasks[i] # Absent => room = tasks[i].room
    /\ tasks[i] = Absent => room = r /\ <<Creator[i[1]], i[2]>> \in audits'
    /\ room = r \/ {r, room} \subseteq apart'
    /\ apart' \subseteq Room
    /\ apart \ {r} \subseteq apart'

\* A cleaning report writes one task, of its room or of one set apart with it.
LEMMA CleanTask ==
  ASSUME RecordInv, NEW k \in Key, NEW r \in Room,
         NEW prefix \in {"housekeeping", "inspection", "rework"},
         NEW named \in TaskId \cup {Absent}, NEW c \in {"clean", "inspection", "rework"},
         Clean(k, r, Creator[prefix], prefix, named, c)
  PROVE  TaskWritten(r, c)
<1> DEFINE new == <<prefix, Suffix[k]>>
<1>1. new \in TaskId /\ new[1] = prefix /\ new[2] = Suffix[k]
  BY SuffixAssumption DEF TaskId
<1>2. Confirm(k, r, Creator[prefix], [rooms[r] EXCEPT !.cleaning = c])
  BY DEF Clean
<1>3. tasks[new] = Absent /\ <<Creator[new[1]], new[2]>> \in audits'
  BY <1>1, <1>2 DEF Confirm, RecordInv, RecordsAudited
<1>4. PICK i \in Worked(k, r, prefix, named) :
        tasks' = [tasks EXCEPT ![i] =
                    [room |-> IF tasks[i] # Absent THEN tasks[i].room ELSE r,
                     status |-> Completed(c)]]
  BY DEF Clean
<1>5. i \in TaskId /\ (tasks[i] = Absent => i = new)
  BY <1>1, <1>4 DEF Worked, OpenTasks
<1>6. tasks[i] \in Task \cup {Absent}
  BY <1>5 DEF RecordInv, TypeOK
<1> DEFINE room == IF tasks[i] # Absent THEN tasks[i].room ELSE r
<1>7. room \in Room
  BY <1>6 DEF Task
<1>8. apart' = Apart(r, named)
  BY DEF Clean
<1>9. NamedRoom(named) \subseteq Room
  BY DEF NamedRoom, RecordInv, TypeOK, Task
<1>10. apart' \subseteq Room /\ apart \ {r} \subseteq apart'
  BY <1>8, <1>9 DEF Apart, RecordInv, TypeOK
<1>11. room = r \/ {r, room} \subseteq apart'
  <2>1. CASE named # Absent /\ tasks[named] # Absent
    <3>1. i = named /\ NamedRoom(named) = {room}
      BY <1>4, <2>1 DEF Worked, NamedRoom
    <3> QED BY <1>8, <3>1 DEF Apart
  <2>2. CASE ~(named # Absent /\ tasks[named] # Absent)
    BY <1>3, <1>4, <2>2 DEF Worked, OpenTasks
  <2> QED BY <2>1, <2>2
<1> QED BY <1>3, <1>4, <1>5, <1>7, <1>10, <1>11 DEF TaskWritten

\* A report opens a ticket that was not there, and its block if it stops sales.
TicketWritten(r, stop) ==
  \E i \in TicketId :
    /\ tickets[i] = Absent /\ blocks[i] = "none"
    /\ <<"REPORT_MAINTENANCE", i>> \in audits'
    /\ tickets' = [tickets EXCEPT ![i] = [room |-> r, status |-> "open", stop |-> stop]]
    /\ blocks' = IF stop THEN [blocks EXCEPT ![i] = "active"] ELSE blocks

LEMMA ReportedTicket ==
  ASSUME RecordInv, NEW k \in Key, NEW r \in Room, NEW stop \in BOOLEAN,
         ReportMaintenance(k, r, stop)
  PROVE  TicketWritten(r, stop)
<1>1. Suffix[k] \in TicketId
  BY SuffixAssumption DEF TicketId
<1>2. tickets[Suffix[k]] = Absent /\ <<"REPORT_MAINTENANCE", Suffix[k]>> \in audits'
  BY <1>1 DEF ReportMaintenance, Confirm, RecordInv, RecordsAudited
<1>3. blocks[Suffix[k]] = "none"
  BY <1>1, <1>2 DEF RecordInv, RecordsAudited
<1> QED BY <1>1, <1>2, <1>3 DEF ReportMaintenance, BlocksAfterTicket, TicketWritten

\* Resolving changes the status of one ticket and no block.
LEMMA ResolvedTicket ==
  ASSUME RecordInv, NEW k \in Key, NEW r \in Room, NEW named \in TicketId \cup {Absent},
         MaintenanceDone(k, r, named)
  PROVE  /\ \E i \in TicketId :
              /\ tickets[i] # Absent
              /\ tickets' = [tickets EXCEPT ![i] = [tickets[i] EXCEPT !.status = "resolved"]]
         /\ blocks' = blocks
<1>1. PICK i \in Resolvable(r, named) :
        LET ticket == [tickets[i] EXCEPT !.status = "resolved"]
        IN /\ tickets' = [tickets EXCEPT ![i] = ticket]
           /\ blocks' = BlocksAfterTicket(i, ticket)
  BY DEF MaintenanceDone
<1> DEFINE ticket == [tickets[i] EXCEPT !.status = "resolved"]
<1>2. i \in TicketId /\ tickets[i] # Absent
  BY DEF Resolvable
<1>3. tickets[i] \in Ticket
  BY <1>2 DEF RecordInv, TypeOK
<1>4. ticket.stop = tickets[i].stop
  BY <1>3 DEF Ticket
<1>5. blocks \in [TicketId -> {"none", "active", "closed"}]
  BY DEF RecordInv, TypeOK
<1>6. (ticket.stop /\ blocks[i] # "closed") => blocks[i] = "active"
  BY <1>2, <1>4, <1>5 DEF RecordInv, RecordsAudited
<1>7. BlocksAfterTicket(i, ticket) = blocks
  BY <1>2, <1>5, <1>6 DEF BlocksAfterTicket
<1> QED BY <1>1, <1>2, <1>7

\* Restoring closes the active blocks of the room and no other.
LEMMA RestoredBlocks ==
  ASSUME RecordInv, NEW k \in Key, NEW r \in Room, RestoreSellable(k, r)
  PROVE  /\ blocks' = [i \in TicketId |-> IF i \in BlockedBy(r) THEN "closed" ELSE blocks[i]]
         /\ rooms'[r].sale = "sellable"
         /\ \A q \in Room \ {r} : rooms'[q] = rooms[q]
<1> DEFINE status == [rooms[r] EXCEPT !.sale = "sellable"]
<1>1. rooms[r] \in RoomStatus /\ rooms \in [Room -> RoomStatus]
  BY DEF RecordInv, TypeOK
<1>2. status.sale = "sellable"
  BY <1>1 DEF RoomStatus
<1>3. rooms' = [rooms EXCEPT ![r] = status]
  BY DEF RestoreSellable, Confirm
<1> HIDE DEF status
<1> QED BY <1>1, <1>2, <1>3 DEF RestoreSellable, BlocksAfterRoom, status

\* Commands that leave the sale status of their room leave that of all rooms.
LEMMA GuestsKeepSale ==
  ASSUME RecordInv, NEW k \in Key, NEW r \in Room,
         NEW type \in CommandType, NEW status \in RoomStatus,
         status.sale = rooms[r].sale, Confirm(k, r, type, status)
  PROVE  \A q \in Room : rooms'[q].sale = rooms[q].sale
BY DEF Confirm, RecordInv, TypeOK

-----------------------------------------------------------------------------
(* The three shapes of a step *)

\* A command on guests or cleaning: one task at most, no ticket, no sale.
GuestStep ==
  \E k \in Key, r \in Room, type \in CommandType, status \in RoomStatus :
    /\ Confirm(k, r, type, status)
    /\ status.sale = rooms[r].sale
    /\ UNCHANGED <<tickets, blocks>>
    /\ \/ /\ UNCHANGED <<tasks, apart>>
          /\ status.cleaning \in {rooms[r].cleaning, "dirty"}
       \/ /\ type = "CHECK_OUT"
          /\ status.cleaning = "dirty"
          /\ apart' = apart
          /\ tasks' = [tasks EXCEPT ![<<"checkout", Suffix[k]>>] =
                         [room |-> r, status |-> "pending"]]
       \/ /\ status.cleaning \in {"clean", "inspection", "rework"}
          /\ TaskWritten(r, status.cleaning)

SaleStep ==
  \E k \in Key, r \in Room :
    /\ UNCHANGED <<tasks, apart>>
    /\ \/ \E s \in BOOLEAN : ReportMaintenance(k, r, s)
       \/ \E i \in TicketId \cup {Absent} : MaintenanceDone(k, r, i)
       \/ RestoreSellable(k, r)

IdleStep ==
  /\ UNCHANGED <<rooms, tasks, tickets, blocks, audits, apart>>
  /\ used' \subseteq used \cup Key

\* Cleaning reports have the shape of a guest step.
LEMMA CleanIsGuestStep ==
  ASSUME RecordInv, NEW k \in Key, NEW r \in Room,
         NEW prefix \in {"housekeeping", "inspection", "rework"},
         NEW named \in TaskId \cup {Absent}, NEW c \in {"clean", "inspection", "rework"},
         Clean(k, r, Creator[prefix], prefix, named, c)
  PROVE  GuestStep
<1>0. TaskWritten(r, c)
  BY CleanTask
<1> DEFINE status == [rooms[r] EXCEPT !.cleaning = c]
<1>1. rooms[r] \in RoomStatus
  BY DEF RecordInv, TypeOK
<1>2. status \in RoomStatus /\ status.sale = rooms[r].sale /\ status.cleaning = c
  BY <1>1 DEF RoomStatus, Cleaning
<1>3. Creator[prefix] \in CommandType
  BY DEF Creator, CommandType
<1>4. Confirm(k, r, Creator[prefix], status) /\ UNCHANGED <<tickets, blocks>>
  BY DEF Clean
<1> HIDE DEF status
<1> QED BY <1>0, <1>2, <1>3, <1>4 DEF GuestStep

\* Every step has one of the three shapes.
LEMMA StepShapes ==
  ASSUME RecordInv, [Next]_vars
  PROVE  GuestStep \/ SaleStep \/ IdleStep
<1>1. CASE UNCHANGED vars
  BY <1>1 DEF vars, IdleStep
<1>2. ASSUME NEW k \in Key, AnswerOnly(k) \/ Replay(k) \/ (\E type \in CommandType : Aborted(k, type))
      PROVE  IdleStep
  BY <1>2 DEF AnswerOnly, Replay, Aborted, vars, IdleStep
<1>3. ASSUME NEW k \in Key, NEW r \in Room, RoomStep(k, r)
      PROVE  GuestStep \/ SaleStep
  <2>1. rooms[r] \in RoomStatus
    BY DEF RecordInv, TypeOK
  <2>2. ASSUME NEW o \in BOOLEAN, CheckIn(k, r, o)
        PROVE  GuestStep
    <3> DEFINE status == [rooms[r] EXCEPT !.occupancy = "occupied"]
    <3>1. /\ status \in RoomStatus /\ status.sale = rooms[r].sale
          /\ status.cleaning = rooms[r].cleaning
      BY <2>1 DEF RoomStatus, Occupancy
    <3>2. Confirm(k, r, "CHECK_IN", status) /\ UNCHANGED <<tasks, tickets, blocks, apart>>
      BY <2>2 DEF CheckIn
    <3>3. "CHECK_IN" \in CommandType
      BY DEF CommandType
    <3> HIDE DEF status
    <3> QED BY <3>1, <3>2, <3>3 DEF GuestStep
  <2>3. CASE CheckOut(k, r)
    <3> DEFINE status == [rooms[r] EXCEPT !.occupancy = "vacant", !.cleaning = "dirty"]
    <3>1. status \in RoomStatus /\ status.sale = rooms[r].sale /\ status.cleaning = "dirty"
      BY <2>1 DEF RoomStatus, Occupancy, Cleaning
    <3>2. /\ Confirm(k, r, "CHECK_OUT", status) /\ UNCHANGED <<tickets, blocks, apart>>
          /\ tasks' = [tasks EXCEPT ![<<"checkout", Suffix[k]>>] =
                         [room |-> r, status |-> "pending"]]
      BY <2>3 DEF CheckOut
    <3>3. "CHECK_OUT" \in CommandType
      BY DEF CommandType
    <3> HIDE DEF status
    <3> QED BY <3>1, <3>2, <3>3 DEF GuestStep
  <2>4. ASSUME NEW q \in BOOLEAN, HousekeepingDone(k, r, q)
        PROVE  GuestStep
    <3>1. AfterCleaning(q) \in {"clean", "inspection", "rework"}
      BY DEF AfterCleaning
    <3>2. Clean(k, r, Creator["housekeeping"], "housekeeping", Absent, AfterCleaning(q))
      BY <2>4 DEF HousekeepingDone, Creator
    <3> QED BY <3>1, <3>2, CleanIsGuestStep
  <2>5. ASSUME NEW p \in BOOLEAN, NEW i \in TaskId \cup {Absent}, HousekeepingInspection(k, r, p, i)
        PROVE  GuestStep
    <3> DEFINE c == IF p THEN "clean" ELSE "rework"
    <3>1. Clean(k, r, Creator["inspection"], "inspection", i, c)
      BY <2>5 DEF HousekeepingInspection, Creator
    <3>2. c \in {"clean", "inspection", "rework"}
      OBVIOUS
    <3> HIDE DEF c
    <3> QED BY <3>1, <3>2, CleanIsGuestStep
  <2>6. ASSUME NEW q \in BOOLEAN, NEW i \in TaskId \cup {Absent}, HousekeepingRework(k, r, q, i)
        PROVE  GuestStep
    <3>1. AfterCleaning(q) \in {"clean", "inspection", "rework"}
      BY DEF AfterCleaning
    <3>2. Clean(k, r, Creator["rework"], "rework", i, AfterCleaning(q))
      BY <2>6 DEF HousekeepingRework, Creator
    <3> QED BY <3>1, <3>2, CleanIsGuestStep
  <2>7. CASE HousekeepingMarkDirty(k, r)
    <3> DEFINE status == [rooms[r] EXCEPT !.cleaning = "dirty"]
    <3>1. status \in RoomStatus /\ status.sale = rooms[r].sale /\ status.cleaning = "dirty"
      BY <2>1 DEF RoomStatus, Cleaning
    <3>2. /\ Confirm(k, r, "HOUSEKEEPING_MARK_DIRTY", status)
          /\ UNCHANGED <<tasks, tickets, blocks, apart>>
      BY <2>7 DEF HousekeepingMarkDirty
    <3>3. "HOUSEKEEPING_MARK_DIRTY" \in CommandType
      BY DEF CommandType
    <3> HIDE DEF status
    <3> QED BY <3>1, <3>2, <3>3 DEF GuestStep
  <2>8. ASSUME \/ \E s \in BOOLEAN : ReportMaintenance(k, r, s)
               \/ \E i \in TicketId \cup {Absent} : MaintenanceDone(k, r, i)
               \/ RestoreSellable(k, r)
        PROVE  SaleStep
    BY <2>8 DEF SaleStep, ReportMaintenance, MaintenanceDone, RestoreSellable
  <2> QED BY <1>3, <2>2, <2>3, <2>4, <2>5, <2>6, <2>7, <2>8 DEF RoomStep
<1> QED BY <1>1, <1>2, <1>3 DEF Next


-----------------------------------------------------------------------------
(* The invariant *)

\* The task of a check-out has an id no task had.
LEMMA CheckOutTaskIsNew ==
  ASSUME RecordInv, NEW k \in Key, NEW r \in Room, NEW status \in RoomStatus,
         Confirm(k, r, "CHECK_OUT", status)
  PROVE  LET new == <<"checkout", Suffix[k]>>
         IN new \in TaskId /\ tasks[new] = Absent /\ <<Creator[new[1]], new[2]>> \in audits'
<1> DEFINE new == <<"checkout", Suffix[k]>>
<1>1. new \in TaskId /\ new[1] = "checkout" /\ new[2] = Suffix[k]
  BY SuffixAssumption DEF TaskId
<1>2. Creator[new[1]] = "CHECK_OUT"
  BY <1>1 DEF Creator
<1>3. <<Creator[new[1]], new[2]>> \notin audits /\ <<Creator[new[1]], new[2]>> \in audits'
  BY <1>1, <1>2 DEF Confirm
<1> QED BY <1>1, <1>3 DEF RecordInv, RecordsAudited

LEMMA GuestRecordInv == RecordInv /\ GuestStep => RecordInv'
<1> SUFFICES ASSUME RecordInv, GuestStep
             PROVE  RecordInv'
  OBVIOUS
<1>1. PICK k \in Key, r \in Room, type \in CommandType, status \in RoomStatus :
        /\ Confirm(k, r, type, status)
        /\ UNCHANGED <<tickets, blocks>>
        /\ \/ UNCHANGED <<tasks, apart>>
           \/ /\ type = "CHECK_OUT"
              /\ apart' = apart
              /\ tasks' = [tasks EXCEPT ![<<"checkout", Suffix[k]>>] =
                             [room |-> r, status |-> "pending"]]
           \/ /\ status.cleaning \in {"clean", "inspection", "rework"}
              /\ TaskWritten(r, status.cleaning)
  BY DEF GuestStep
<1>4. apart' \subseteq Room
  BY <1>1 DEF TaskWritten, RecordInv, TypeOK
<1>2. /\ rooms' \in [Room -> RoomStatus]
      /\ audits' \subseteq CommandType \X Id
      /\ used' \subseteq Key
      /\ audits \subseteq audits'
  BY <1>1, ConfirmTypes DEF RecordInv
<1>3. /\ tasks' \in [TaskId -> Task \cup {Absent}]
      /\ \A i \in TaskId : tasks'[i] # Absent => <<Creator[i[1]], i[2]>> \in audits'
  <2>1. CASE UNCHANGED tasks
    BY <1>2, <2>1 DEF RecordInv, TypeOK, RecordsAudited
  <2>2. CASE /\ type = "CHECK_OUT"
             /\ tasks' = [tasks EXCEPT ![<<"checkout", Suffix[k]>>] =
                            [room |-> r, status |-> "pending"]]
    <3> DEFINE new == <<"checkout", Suffix[k]>>
    <3>1. new \in TaskId /\ <<Creator[new[1]], new[2]>> \in audits'
      BY <1>1, <2>2, CheckOutTaskIsNew
    <3>2. [room |-> r, status |-> "pending"] \in Task
      BY DEF Task
    <3>3. tasks' = [tasks EXCEPT ![new] = [room |-> r, status |-> "pending"]]
      BY <2>2
    <3> HIDE DEF new
    <3> QED BY <1>2, <3>1, <3>2, <3>3 DEF RecordInv, TypeOK, RecordsAudited
  <2>3. CASE /\ status.cleaning \in {"clean", "inspection", "rework"}
             /\ TaskWritten(r, status.cleaning)
    <3>1. PICK i \in TaskId, room \in Room :
            /\ tasks' = [tasks EXCEPT ![i] =
                           [room |-> room, status |-> Completed(status.cleaning)]]
            /\ tasks[i] = Absent => <<Creator[i[1]], i[2]>> \in audits'
      BY <2>3 DEF TaskWritten
    <3>2. [room |-> room, status |-> Completed(status.cleaning)] \in Task
      BY <2>3 DEF Task, Completed
    <3> QED BY <1>2, <3>1, <3>2 DEF RecordInv, TypeOK, RecordsAudited
  <2> QED BY <1>1, <2>1, <2>2, <2>3
<1> QED BY <1>1, <1>2, <1>3, <1>4 DEF RecordInv, TypeOK, RecordsAudited

\* What the maintenance commands write to the rooms.
LEMMA SaleConfirm ==
  ASSUME RecordInv, SaleStep
  PROVE  /\ rooms' \in [Room -> RoomStatus]
         /\ audits' \subseteq CommandType \X Id
         /\ used' \subseteq Key
         /\ audits \subseteq audits'
         /\ tasks' = tasks /\ apart' = apart
         /\ \A q \in Room : rooms'[q].cleaning = rooms[q].cleaning
<1>1. PICK k \in Key, r \in Room, type \in CommandType, sale \in Sale :
        Confirm(k, r, type, [rooms[r] EXCEPT !.sale = sale])
  <2>1. PICK k \in Key, r \in Room :
          \/ \E s \in BOOLEAN : ReportMaintenance(k, r, s)
          \/ \E i \in TicketId \cup {Absent} : MaintenanceDone(k, r, i)
          \/ RestoreSellable(k, r)
    BY DEF SaleStep
  <2>2. rooms[r] = [rooms[r] EXCEPT !.sale = rooms[r].sale] /\ rooms[r].sale \in Sale
    BY DEF RecordInv, TypeOK, RoomStatus
  <2>3. {"outOfOrder", "sellable"} \subseteq Sale
    BY DEF Sale
  <2>4. {"REPORT_MAINTENANCE", "MAINTENANCE_DONE", "RESTORE_SELLABLE"} \subseteq CommandType
    BY DEF CommandType
  <2>5. ASSUME NEW s \in BOOLEAN, ReportMaintenance(k, r, s)
        PROVE  \E sale \in Sale : Confirm(k, r, "REPORT_MAINTENANCE", [rooms[r] EXCEPT !.sale = sale])
    <3>1. CASE s
      BY <2>3, <2>5, <3>1 DEF ReportMaintenance
    <3>2. CASE ~s
      BY <2>2, <2>5, <3>2 DEF ReportMaintenance
    <3> QED BY <3>1, <3>2
  <2>6. ASSUME NEW i \in TicketId \cup {Absent}, MaintenanceDone(k, r, i)
        PROVE  \E sale \in Sale : Confirm(k, r, "MAINTENANCE_DONE", [rooms[r] EXCEPT !.sale = sale])
    BY <2>2, <2>6 DEF MaintenanceDone
  <2>7. ASSUME RestoreSellable(k, r)
        PROVE  \E sale \in Sale : Confirm(k, r, "RESTORE_SELLABLE", [rooms[r] EXCEPT !.sale = sale])
    BY <2>3, <2>7 DEF RestoreSellable
  <2> QED BY <2>1, <2>4, <2>5, <2>6, <2>7
<1> DEFINE status == [rooms[r] EXCEPT !.sale = sale]
<1>2. rooms[r] \in RoomStatus
  BY DEF RecordInv, TypeOK
<1>3. status \in RoomStatus /\ status.cleaning = rooms[r].cleaning
  BY <1>2 DEF RoomStatus
<1>4. Confirm(k, r, type, status)
  BY <1>1
<1>5. tasks' = tasks /\ apart' = apart
  BY DEF SaleStep
<1>6. TypeOK
  BY DEF RecordInv
<1> HIDE DEF status
<1>7. /\ rooms' \in [Room -> RoomStatus]
      /\ audits' \subseteq CommandType \X Id
      /\ used' \subseteq Key
      /\ rooms'[r] = status
      /\ \A q \in Room \ {r} : rooms'[q] = rooms[q]
      /\ audits \subseteq audits'
  BY <1>3, <1>4, <1>6, ConfirmTypes
<1> QED BY <1>3, <1>5, <1>7


LEMMA SaleRecordInv == RecordInv /\ SaleStep => RecordInv'
<1> SUFFICES ASSUME RecordInv, SaleStep
             PROVE  RecordInv'
  OBVIOUS
<1>1. /\ rooms' \in [Room -> RoomStatus]
      /\ audits' \subseteq CommandType \X Id
      /\ used' \subseteq Key
      /\ audits \subseteq audits'
      /\ tasks' = tasks /\ apart' = apart
  BY SaleConfirm
<1>2. /\ tasks' \in [TaskId -> Task \cup {Absent}]
      /\ \A i \in TaskId : tasks'[i] # Absent => <<Creator[i[1]], i[2]>> \in audits'
  BY <1>1 DEF RecordInv, TypeOK, RecordsAudited
<1> DEFINE TicketsOK ==
      /\ tickets' \in [TicketId -> Ticket \cup {Absent}]
      /\ blocks' \in [TicketId -> {"none", "active", "closed"}]
      /\ \A i \in TicketId : tickets'[i] # Absent => <<"REPORT_MAINTENANCE", i>> \in audits'
      /\ \A i \in TicketId : blocks'[i] # "none" <=> (tickets'[i] # Absent /\ tickets'[i].stop)
<1>3. ASSUME NEW k \in Key, NEW r \in Room, NEW s \in BOOLEAN, ReportMaintenance(k, r, s)
      PROVE  TicketsOK
  <2>0. TicketWritten(r, s)
    BY <1>3, ReportedTicket
  <2> DEFINE ticket == [room |-> r, status |-> "open", stop |-> s]
  <2>1. PICK i \in TicketId :
          /\ tickets[i] = Absent /\ blocks[i] = "none"
          /\ <<"REPORT_MAINTENANCE", i>> \in audits'
          /\ tickets' = [tickets EXCEPT ![i] = ticket]
          /\ blocks' = IF s THEN [blocks EXCEPT ![i] = "active"] ELSE blocks
    BY <2>0 DEF TicketWritten
  <2>2. ticket \in Ticket /\ ticket # Absent /\ ticket.stop = s
    BY AbsentAssumption DEF Ticket
  <2> HIDE DEF ticket
  <2> QED BY <1>1, <2>1, <2>2 DEF RecordInv, TypeOK, RecordsAudited
<1>4. ASSUME NEW k \in Key, NEW r \in Room, NEW named \in TicketId \cup {Absent},
             MaintenanceDone(k, r, named)
      PROVE  TicketsOK
  <2>1. PICK i \in TicketId :
          /\ tickets[i] # Absent
          /\ tickets' = [tickets EXCEPT ![i] = [tickets[i] EXCEPT !.status = "resolved"]]
    BY <1>4, ResolvedTicket
  <2>2. blocks' = blocks
    BY <1>4, ResolvedTicket
  <2>3. tickets[i] \in Ticket
    BY <2>1 DEF RecordInv, TypeOK
  <2> DEFINE ticket == [tickets[i] EXCEPT !.status = "resolved"]
  <2>4. ticket \in Ticket /\ ticket # Absent /\ ticket.stop = tickets[i].stop
    BY <2>3, AbsentAssumption DEF Ticket
  <2>5. tickets' = [tickets EXCEPT ![i] = ticket]
    BY <2>1
  <2> HIDE DEF ticket
  <2> QED BY <1>1, <2>1, <2>2, <2>4, <2>5 DEF RecordInv, TypeOK, RecordsAudited
<1>5. ASSUME NEW k \in Key, NEW r \in Room, RestoreSellable(k, r)
      PROVE  TicketsOK
  <2>1. blocks' = [i \in TicketId |-> IF i \in BlockedBy(r) THEN "closed" ELSE blocks[i]]
    BY <1>5, RestoredBlocks
  <2>2. tickets' = tickets
    BY <1>5 DEF RestoreSellable
  <2>3. \A i \in BlockedBy(r) : blocks[i] = "active"
    BY DEF BlockedBy
  <2> QED BY <1>1, <2>1, <2>2, <2>3 DEF RecordInv, TypeOK, RecordsAudited
<1>6. TicketsOK
  <2> HIDE DEF TicketsOK
  <2> QED BY <1>3, <1>4, <1>5 DEF SaleStep
<1> QED BY <1>1, <1>2, <1>6 DEF RecordInv, TypeOK, RecordsAudited

LEMMA NextRecordInv == RecordInv /\ [Next]_vars => RecordInv'
<1> SUFFICES ASSUME RecordInv, [Next]_vars
             PROVE  RecordInv'
  OBVIOUS
<1>1. CASE IdleStep
  BY <1>1 DEF IdleStep, RecordInv, TypeOK, RecordsAudited
<1> QED BY <1>1, StepShapes, GuestRecordInv, SaleRecordInv

\* A record exists only together with the audit row its creator wrote.
THEOREM RecordsAreAudited == Spec => []RecordInv
<1> QED BY InitRecordInv, NextRecordInv, PTL DEF Spec

\* The tables hold rows of their schema: no command writes a status of one
\* table into another.
THEOREM TypeCorrect == Spec => []TypeOK
<1>1. RecordInv => TypeOK
  BY DEF RecordInv
<1> QED BY <1>1, RecordsAreAudited, PTL

-----------------------------------------------------------------------------
(* Stop-sell blocks *)

LEMMA GuestsKeepBlocks ==
  RecordInv /\ StopSellIsBlocked /\ (GuestStep \/ IdleStep) => StopSellIsBlocked'
<1> SUFFICES ASSUME RecordInv, StopSellIsBlocked, GuestStep \/ IdleStep
             PROVE  StopSellIsBlocked'
  OBVIOUS
<1>1. UNCHANGED <<tickets, blocks>>
  BY DEF GuestStep, IdleStep
<1>2. \A q \in Room : rooms'[q].sale = rooms[q].sale
  <2>1. CASE IdleStep
    BY <2>1 DEF IdleStep
  <2>2. CASE GuestStep
    <3>1. PICK k \in Key, r \in Room, type \in CommandType, status \in RoomStatus :
            Confirm(k, r, type, status) /\ status.sale = rooms[r].sale
      BY <2>2 DEF GuestStep
    <3> QED BY <3>1, GuestsKeepSale
  <2> QED BY <2>1, <2>2
<1> QED BY <1>1, <1>2 DEF StopSellIsBlocked, StopSellTickets, BlockedBy

LEMMA SaleKeepsBlocks == RecordInv /\ StopSellIsBlocked /\ SaleStep => StopSellIsBlocked'
<1> SUFFICES ASSUME RecordInv, StopSellIsBlocked, SaleStep, NEW q \in Room
             PROVE  (StopSellTickets(q) # {} =>
                       (rooms[q].sale # "sellable" <=> BlockedBy(q) # {}))'
  BY DEF StopSellIsBlocked
<1>0. TypeOK
  BY DEF RecordInv
<1>1. ASSUME NEW k \in Key, NEW r \in Room, NEW s \in BOOLEAN, ReportMaintenance(k, r, s)
      PROVE  (StopSellTickets(q) # {} => (rooms[q].sale # "sellable" <=> BlockedBy(q) # {}))'
  <2>0. TicketWritten(r, s)
    BY <1>1, ReportedTicket
  <2> DEFINE ticket == [room |-> r, status |-> "open", stop |-> s]
  <2>1. PICK i \in TicketId :
          /\ tickets[i] = Absent /\ blocks[i] = "none"
          /\ <<"REPORT_MAINTENANCE", i>> \in audits'
          /\ tickets' = [tickets EXCEPT ![i] = ticket]
          /\ blocks' = IF s THEN [blocks EXCEPT ![i] = "active"] ELSE blocks
    BY <2>0 DEF TicketWritten
  <2>2. ticket # Absent /\ ticket.stop = s /\ ticket.room = r
    <3>1. ticket \in Ticket
      BY DEF Ticket
    <3> QED BY <3>1, AbsentAssumption
  <2>3. tickets'[i] = ticket /\ \A j \in TicketId \ {i} : tickets'[j] = tickets[j] /\ blocks'[j] = blocks[j]
    BY <1>0, <2>1 DEF TypeOK
  <2>4. blocks'[i] = IF s THEN "active" ELSE "none"
    BY <1>0, <2>1 DEF TypeOK
  <2> HIDE DEF ticket
  <2>5. CASE s /\ q = r
    <3>1. rooms'[r] = [rooms[r] EXCEPT !.sale = "outOfOrder"] /\ rooms[r] \in RoomStatus
      BY <1>0, <1>1, <2>5 DEF ReportMaintenance, Confirm, TypeOK
    <3>2. rooms'[r].sale = "outOfOrder"
      BY <3>1 DEF RoomStatus
    <3>3. i \in BlockedBy(q)'
      BY <2>2, <2>3, <2>4, <2>5 DEF BlockedBy
    <3> QED BY <2>5, <3>2, <3>3
  <2>6. CASE ~(s /\ q = r)
    <3>1. rooms'[q] = rooms[q]
      BY <1>0, <1>1, <2>6 DEF ReportMaintenance, Confirm, TypeOK
    <3>2. StopSellTickets(q)' = StopSellTickets(q)
      BY <2>1, <2>2, <2>3, <2>6 DEF StopSellTickets
    <3>3. BlockedBy(q)' = BlockedBy(q)
      BY <2>1, <2>2, <2>3, <2>4, <2>6 DEF BlockedBy
    <3> QED BY <3>1, <3>2, <3>3 DEF StopSellIsBlocked
  <2> QED BY <2>5, <2>6
<1>2. ASSUME NEW k \in Key, NEW r \in Room, NEW named \in TicketId \cup {Absent},
             MaintenanceDone(k, r, named)
      PROVE  (StopSellTickets(q) # {} => (rooms[q].sale # "sellable" <=> BlockedBy(q) # {}))'
  <2>1. PICK i \in TicketId :
          /\ tickets[i] # Absent
          /\ tickets' = [tickets EXCEPT ![i] = [tickets[i] EXCEPT !.status = "resolved"]]
    BY <1>2, ResolvedTicket
  <2>2. blocks' = blocks
    BY <1>2, ResolvedTicket
  <2>3. tickets[i] \in Ticket
    BY <1>0, <2>1 DEF TypeOK
  <2> DEFINE ticket == [tickets[i] EXCEPT !.status = "resolved"]
  <2>4. ticket # Absent /\ ticket.stop = tickets[i].stop /\ ticket.room = tickets[i].room
    BY <2>3, AbsentAssumption DEF Ticket
  <2>5. tickets'[i] = ticket /\ \A j \in TicketId \ {i} : tickets'[j] = tickets[j]
    BY <1>0, <2>1 DEF TypeOK
  <2> HIDE DEF ticket
  <2>6. rooms'[q] = rooms[q]
    BY <1>0, <1>2 DEF MaintenanceDone, Confirm, TypeOK
  <2>7. StopSellTickets(q)' = StopSellTickets(q)
    BY <2>1, <2>4, <2>5 DEF StopSellTickets
  <2>8. BlockedBy(q)' = BlockedBy(q)
    BY <2>1, <2>2, <2>4, <2>5 DEF BlockedBy
  <2> QED BY <2>6, <2>7, <2>8 DEF StopSellIsBlocked
<1>3. ASSUME NEW k \in Key, NEW r \in Room, RestoreSellable(k, r)
      PROVE  (StopSellTickets(q) # {} => (rooms[q].sale # "sellable" <=> BlockedBy(q) # {}))'
  <2>1. /\ blocks' = [i \in TicketId |-> IF i \in BlockedBy(r) THEN "closed" ELSE blocks[i]]
        /\ rooms'[r].sale = "sellable"
        /\ \A p \in Room \ {r} : rooms'[p] = rooms[p]
    BY <1>3, RestoredBlocks
  <2>2. tickets' = tickets
    BY <1>3 DEF RestoreSellable
  <2>3. CASE q = r
    <3>1. BlockedBy(r)' = {}
      BY <2>1, <2>2 DEF BlockedBy
    <3> QED BY <2>1, <2>3, <3>1
  <2>4. CASE q # r
    <3>1. StopSellTickets(q)' = StopSellTickets(q)
      BY <2>2 DEF StopSellTickets
    <3>2. BlockedBy(q)' = BlockedBy(q)
      BY <2>1, <2>2, <2>4 DEF BlockedBy
    <3> QED BY <2>1, <2>4, <3>1, <3>2 DEF StopSellIsBlocked
  <2> QED BY <2>3, <2>4
<1> QED BY <1>1, <1>2, <1>3 DEF SaleStep

\* Once a stop-sell ticket was reported for a room, the room has an active
\* block exactly while it is not sellable.
THEOREM StopSellHolds == Spec => []StopSellIsBlocked
<1>1. Init => StopSellIsBlocked
  BY DEF Init, StopSellIsBlocked, StopSellTickets
<1>2. RecordInv /\ [Next]_vars /\ StopSellIsBlocked => StopSellIsBlocked'
  BY StepShapes, GuestsKeepBlocks, SaleKeepsBlocks
<1> QED BY <1>1, <1>2, RecordsAreAudited, PTL DEF Spec


-----------------------------------------------------------------------------
(* Records of other keys *)

\* No key overwrites the records another one made: tasks and tickets keep
\* their room, a ticket its kind, and a resolved ticket stays resolved.
THEOREM RecordsSurviveHolds == Spec => RecordsSurvive
<1> DEFINE Kept ==
      /\ \A i \in TaskId : tasks[i] # Absent => tasks'[i].room = tasks[i].room
      /\ \A i \in TicketId :
           tickets[i] # Absent
             => /\ tickets'[i].room = tickets[i].room
                /\ tickets'[i].stop = tickets[i].stop
                /\ tickets[i].status = "resolved" => tickets'[i].status = "resolved"
<1>1. RecordInv /\ [Next]_vars => [Kept]_vars
  <2> SUFFICES ASSUME RecordInv, [Next]_vars
               PROVE  Kept
    OBVIOUS
  <2>0. TypeOK
    BY DEF RecordInv
  <2>1. CASE GuestStep
    <3>1. PICK k \in Key, r \in Room, type \in CommandType, status \in RoomStatus :
            /\ Confirm(k, r, type, status)
            /\ UNCHANGED <<tickets, blocks>>
            /\ \/ UNCHANGED tasks
               \/ /\ type = "CHECK_OUT"
                  /\ tasks' = [tasks EXCEPT ![<<"checkout", Suffix[k]>>] =
                                 [room |-> r, status |-> "pending"]]
               \/ TaskWritten(r, status.cleaning)
      BY <2>1 DEF GuestStep
    <3>2. CASE UNCHANGED tasks
      BY <3>1, <3>2
    <3>3. CASE /\ type = "CHECK_OUT"
               /\ tasks' = [tasks EXCEPT ![<<"checkout", Suffix[k]>>] =
                              [room |-> r, status |-> "pending"]]
      <4>1. tasks[<<"checkout", Suffix[k]>>] = Absent
        BY <3>1, <3>3, CheckOutTaskIsNew
      <4>2. \A i \in TaskId : tasks[i] # Absent => tasks'[i] = tasks[i]
        BY <2>0, <3>3, <4>1 DEF TypeOK
      <4> QED BY <3>1, <4>2
    <3>4. CASE TaskWritten(r, status.cleaning)
      <4>1. PICK i \in TaskId, room \in Room :
              /\ tasks' = [tasks EXCEPT ![i] =
                             [room |-> room, status |-> Completed(status.cleaning)]]
              /\ tasks[i] # Absent => room = tasks[i].room
        BY <3>4 DEF TaskWritten
      <4>2. tasks'[i].room = room /\ \A j \in TaskId \ {i} : tasks'[j] = tasks[j]
        BY <2>0, <4>1 DEF TypeOK
      <4> QED BY <3>1, <4>1, <4>2
    <3> QED BY <3>1, <3>2, <3>3, <3>4
  <2>2. CASE SaleStep
    <3>1. tasks' = tasks
      BY <2>2 DEF SaleStep
    <3>2. ASSUME NEW k \in Key, NEW r \in Room, NEW s \in BOOLEAN, ReportMaintenance(k, r, s)
          PROVE  Kept
      <4>1. TicketWritten(r, s)
        BY <3>2, ReportedTicket
      <4>2. PICK i \in TicketId :
              /\ tickets[i] = Absent
              /\ tickets' = [tickets EXCEPT ![i] = [room |-> r, status |-> "open", stop |-> s]]
        BY <4>1 DEF TicketWritten
      <4>3. \A j \in TicketId : tickets[j] # Absent => tickets'[j] = tickets[j]
        BY <2>0, <4>2 DEF TypeOK
      <4> QED BY <3>1, <4>3
    <3>3. ASSUME NEW k \in Key, NEW r \in Room, NEW named \in TicketId \cup {Absent},
                 MaintenanceDone(k, r, named)
          PROVE  Kept
      <4>1. PICK i \in TicketId :
              /\ tickets[i] # Absent
              /\ tickets' = [tickets EXCEPT ![i] = [tickets[i] EXCEPT !.status = "resolved"]]
        BY <3>3, ResolvedTicket
      <4>2. tickets[i] \in Ticket
        BY <2>0, <4>1 DEF TypeOK
      <4> DEFINE ticket == [tickets[i] EXCEPT !.status = "resolved"]
      <4>3. /\ ticket.stop = tickets[i].stop /\ ticket.room = tickets[i].room
            /\ ticket.status = "resolved"
        BY <4>2 DEF Ticket
      <4>4. tickets'[i] = ticket /\ \A j \in TicketId \ {i} : tickets'[j] = tickets[j]
        BY <2>0, <4>1 DEF TypeOK
      <4> HIDE DEF ticket
      <4> QED BY <3>1, <4>3, <4>4
    <3>4. ASSUME NEW k \in Key, NEW r \in Room, RestoreSellable(k, r)
          PROVE  Kept
      BY <3>1, <3>4 DEF RestoreSellable
    <3> HIDE DEF Kept
    <3> QED BY <2>2, <3>2, <3>3, <3>4 DEF SaleStep
  <2>3. CASE IdleStep
    BY <2>3 DEF IdleStep
  <2> HIDE DEF Kept
  <2> QED BY <2>1, <2>2, <2>3, StepShapes
<1> QED BY <1>1, RecordsAreAudited, PTL DEF Spec, RecordsSurvive

-----------------------------------------------------------------------------
(* Cleaning, with callers that name tasks of any room *)

\* A guest step touches the cleaning status of one room: it makes the room
\* dirty or leaves it and changes no task, or it reports an outcome and writes
\* it to one task, of that room or of one that is then apart with it.
LEMMA GuestCleaning ==
  ASSUME RecordInv, GuestStep
  PROVE  \E r \in Room :
           /\ \A q \in Room \ {r} : rooms'[q].cleaning = rooms[q].cleaning
           /\ \/ /\ apart' = apart
                 /\ rooms'[r].cleaning \in {rooms[r].cleaning, "dirty"}
                 /\ \A i \in TaskId : tasks[i] # Absent => tasks'[i] = tasks[i]
              \/ /\ apart \ {r} \subseteq apart'
                 /\ \E i \in TaskId :
                      /\ tasks'[i] # Absent
                      /\ tasks'[i].status = Completed(rooms'[r].cleaning)
                      /\ tasks[i] # Absent => tasks'[i].room = tasks[i].room
                      /\ tasks'[i].room = r \/ {r, tasks'[i].room} \subseteq apart'
                      /\ \A j \in TaskId \ {i} : tasks'[j] = tasks[j]
<1>0. TypeOK
  BY DEF RecordInv
<1>1. PICK k \in Key, r \in Room, type \in CommandType, status \in RoomStatus :
        /\ Confirm(k, r, type, status)
        /\ \/ /\ UNCHANGED <<tasks, apart>>
              /\ status.cleaning \in {rooms[r].cleaning, "dirty"}
           \/ /\ type = "CHECK_OUT"
              /\ status.cleaning = "dirty"
              /\ apart' = apart
              /\ tasks' = [tasks EXCEPT ![<<"checkout", Suffix[k]>>] =
                             [room |-> r, status |-> "pending"]]
           \/ TaskWritten(r, status.cleaning) /\ status.cleaning \in {"clean", "inspection", "rework"}
  BY DEF GuestStep
<1>2. rooms'[r] = status /\ \A q \in Room \ {r} : rooms'[q] = rooms[q]
  BY <1>0, <1>1, ConfirmTypes
<1>3. CASE UNCHANGED <<tasks, apart>> /\ status.cleaning \in {rooms[r].cleaning, "dirty"}
  BY <1>2, <1>3
<1>4. CASE /\ type = "CHECK_OUT"
           /\ status.cleaning = "dirty"
           /\ apart' = apart
           /\ tasks' = [tasks EXCEPT ![<<"checkout", Suffix[k]>>] =
                          [room |-> r, status |-> "pending"]]
  <2>1. tasks[<<"checkout", Suffix[k]>>] = Absent
    BY <1>1, <1>4, CheckOutTaskIsNew
  <2>2. \A i \in TaskId : tasks[i] # Absent => tasks'[i] = tasks[i]
    BY <1>0, <1>4, <2>1 DEF TypeOK
  <2> QED BY <1>2, <1>4, <2>2
<1>5. CASE TaskWritten(r, status.cleaning) /\ status.cleaning \in {"clean", "inspection", "rework"}
  <2>1. PICK i \in TaskId, room \in Room :
          /\ tasks' = [tasks EXCEPT ![i] =
                         [room |-> room, status |-> Completed(status.cleaning)]]
          /\ tasks[i] # Absent => room = tasks[i].room
          /\ room = r \/ {r, room} \subseteq apart'
          /\ apart \ {r} \subseteq apart'
    BY <1>5 DEF TaskWritten
  <2> DEFINE task == [room |-> room, status |-> Completed(status.cleaning)]
  <2>2. task \in Task /\ task.room = room /\ task.status = Completed(rooms'[r].cleaning)
    BY <1>2, <1>5 DEF Task, Completed
  <2>3. tasks' = [tasks EXCEPT ![i] = task]
    BY <2>1
  <2> HIDE DEF task
  <2>4. tasks'[i] = task /\ \A j \in TaskId \ {i} : tasks'[j] = tasks[j]
    BY <1>0, <2>3 DEF TypeOK
  <2>5. task # Absent
    BY <2>2, AbsentAssumption
  <2> QED BY <1>2, <2>1, <2>2, <2>4, <2>5
<1> QED BY <1>1, <1>3, <1>4, <1>5

\* The other steps leave tasks and cleaning alone.
LEMMA OthersKeepCleaning ==
  ASSUME RecordInv, SaleStep \/ IdleStep
  PROVE  /\ tasks' = tasks /\ apart' = apart
         /\ \A q \in Room : rooms'[q].cleaning = rooms[q].cleaning
BY SaleConfirm DEF IdleStep

LEMMA CleaningKeepsWaiting ==
  ASSUME RecordInv, [Next]_vars, WaitingRoomHasTask
  PROVE  WaitingRoomHasTask'
<1> SUFFICES ASSUME NEW q \in Room, q \notin apart', rooms'[q].cleaning \in Waiting
             PROVE  \E i \in OpenTasks(q)' : tasks'[i].status = rooms'[q].cleaning
  BY DEF WaitingRoomHasTask
<1>1. ASSUME q \notin apart, rooms'[q].cleaning = rooms[q].cleaning,
             \A i \in TaskId : tasks[i] # Absent /\ tasks[i].room = q => tasks'[i] = tasks[i]
      PROVE  \E i \in OpenTasks(q)' : tasks'[i].status = rooms'[q].cleaning
  <2>1. PICK i \in OpenTasks(q) : tasks[i].status = rooms[q].cleaning
    BY <1>1 DEF WaitingRoomHasTask
  <2>2. i \in OpenTasks(q)' /\ tasks'[i] = tasks[i]
    BY <1>1, <2>1 DEF OpenTasks
  <2> QED BY <1>1, <2>1, <2>2
<1>2. CASE SaleStep \/ IdleStep
  BY <1>1, <1>2, OthersKeepCleaning
<1>3. CASE GuestStep
  <2>1. PICK r \in Room :
          /\ \A p \in Room \ {r} : rooms'[p].cleaning = rooms[p].cleaning
          /\ \/ /\ apart' = apart
                /\ rooms'[r].cleaning \in {rooms[r].cleaning, "dirty"}
                /\ \A i \in TaskId : tasks[i] # Absent => tasks'[i] = tasks[i]
             \/ /\ apart \ {r} \subseteq apart'
                /\ \E i \in TaskId :
                     /\ tasks'[i] # Absent
                     /\ tasks'[i].status = Completed(rooms'[r].cleaning)
                     /\ tasks[i] # Absent => tasks'[i].room = tasks[i].room
                     /\ tasks'[i].room = r \/ {r, tasks'[i].room} \subseteq apart'
                     /\ \A j \in TaskId \ {i} : tasks'[j] = tasks[j]
    BY <1>3, GuestCleaning
  <2>2. CASE /\ apart' = apart
             /\ rooms'[r].cleaning \in {rooms[r].cleaning, "dirty"}
             /\ \A i \in TaskId : tasks[i] # Absent => tasks'[i] = tasks[i]
    BY <1>1, <2>1, <2>2 DEF Waiting
  <2>3. ASSUME apart \ {r} \subseteq apart',
               NEW i \in TaskId,
               tasks'[i] # Absent,
               tasks'[i].status = Completed(rooms'[r].cleaning),
               tasks[i] # Absent => tasks'[i].room = tasks[i].room,
               tasks'[i].room = r \/ {r, tasks'[i].room} \subseteq apart',
               \A j \in TaskId \ {i} : tasks'[j] = tasks[j]
        PROVE  \E j \in OpenTasks(q)' : tasks'[j].status = rooms'[q].cleaning
    <3>1. CASE q = r
      <4>1. tasks'[i].room = q
        BY <2>3, <3>1
      <4>2. tasks'[i].status = rooms'[q].cleaning /\ tasks'[i].status # "done"
        BY <2>3, <3>1 DEF Completed, Waiting
      <4>3. i \in OpenTasks(q)'
        BY <2>3, <4>1, <4>2 DEF OpenTasks
      <4> QED BY <4>2, <4>3
    <3>2. CASE q # r
      <4>1. q \notin apart /\ tasks'[i].room # q
        BY <2>3, <3>2
      <4> QED BY <1>1, <2>1, <2>3, <3>2, <4>1
    <3> QED BY <3>1, <3>2
  <2> QED BY <2>1, <2>2, <2>3
<1> QED BY <1>2, <1>3, StepShapes

\* While a room waits for an inspection or a rework, a task of that room says
\* so, unless a command that named a task of another room, or the seed, has
\* set the room apart from its tasks.
THEOREM WaitingRoomsHaveTasks == Spec => []WaitingRoomHasTask
<1>1. Init => WaitingRoomHasTask
  BY DEF Init, WaitingRoomHasTask
<1>2. RecordInv /\ [Next]_vars /\ WaitingRoomHasTask => WaitingRoomHasTask'
  BY CleaningKeepsWaiting
<1> QED BY <1>1, <1>2, RecordsAreAudited, PTL DEF Spec

\* A task is finished only by a step that makes its own room clean, or by a
\* command of another room that names it and sets the rooms apart.
THEOREM FinishedTasksMeanClean == Spec => FinishedMeansClean
<1> DEFINE Finishes ==
      \A i \in TaskId :
        (tasks[i] # Absent /\ tasks[i].status # "done" /\ tasks'[i].status = "done")
          => \/ rooms'[tasks[i].room].cleaning = "clean"
             \/ tasks[i].room \in apart'
<1>1. RecordInv /\ [Next]_vars => [Finishes]_vars
  <2> SUFFICES ASSUME RecordInv, [Next]_vars
               PROVE  Finishes
    OBVIOUS
  <2>1. CASE SaleStep \/ IdleStep
    BY <2>1, OthersKeepCleaning
  <2>2. CASE GuestStep
    <3>1. PICK r \in Room :
            \/ \A i \in TaskId : tasks[i] # Absent => tasks'[i] = tasks[i]
            \/ \E i \in TaskId :
                 /\ tasks'[i].status = Completed(rooms'[r].cleaning)
                 /\ tasks[i] # Absent => tasks'[i].room = tasks[i].room
                 /\ tasks'[i].room = r \/ {r, tasks'[i].room} \subseteq apart'
                 /\ \A j \in TaskId \ {i} : tasks'[j] = tasks[j]
      BY <2>2, GuestCleaning
    <3>2. rooms'[r].cleaning \in Cleaning
      BY NextRecordInv DEF RecordInv, TypeOK, RoomStatus
    <3> QED BY <3>1, <3>2 DEF Completed, Cleaning
  <2> HIDE DEF Finishes
  <2> QED BY <2>1, <2>2, StepShapes
<1> QED BY <1>1, RecordsAreAudited, PTL DEF Spec, FinishedMeansClean
=============================================================================
