----------------------------- MODULE RoomCommands -----------------------------
(***************************************************************************)
(* The core commands on a room: check-in, check-out, the housekeeping      *)
(* steps and maintenance, with the tables they write: rooms, housekeeping  *)
(* tasks, maintenance tickets, the stop-sell blocks that hang on tickets,  *)
(* and audits.  A command runs in one transaction together with the        *)
(* storing of its response, so a command is one action.                    *)
(*                                                                         *)
(* Records get ids derived from the idempotency key by safeIdSuffix, which *)
(* maps different keys to one suffix.  The primary key of the audits table *)
(* is derived the same way: a clash aborts the whole transaction.          *)
(***************************************************************************)
EXTENDS Integers, FiniteSets

CONSTANTS
  Room,      \* the rooms of the hotel
  Seeded,    \* the statuses a room may be seeded with
  Key,       \* idempotency keys
  Id,        \* suffixes of record ids
  Suffix,    \* Suffix[k]: the suffix made from key k
  Absent     \* no row, no value

Occupancy == {"vacant", "occupied", "dueOut"}
Cleaning == {"clean", "dirty", "cleaning", "inspection", "rework"}
Sale == {"sellable", "outOfOrder", "outOfService"}

\* A room in one of these waits for somebody's work.
Waiting == {"inspection", "rework"}

RoomStatus == [occupancy : Occupancy, cleaning : Cleaning, sale : Sale]

ASSUME SeedAssumption == Seeded \subseteq RoomStatus
ASSUME SuffixAssumption == Suffix \in [Key -> Id]

TaskId == {"checkout", "housekeeping", "inspection", "rework"} \X Id
TicketId == Id

Task == [room : Room, status : {"pending", "inspection", "rework", "done"}]
Ticket == [room : Room, status : {"open", "resolved"}, stop : BOOLEAN]

CommandType == {"CHECK_IN", "CHECK_OUT", "HOUSEKEEPING_DONE", "HOUSEKEEPING_INSPECTION",
                "HOUSEKEEPING_REWORK", "HOUSEKEEPING_MARK_DIRTY", "REPORT_MAINTENANCE",
                "MAINTENANCE_DONE", "RESTORE_SELLABLE"}

ASSUME AbsentAssumption == /\ Absent \notin Task
                           /\ Absent \notin Ticket
                           /\ Absent \notin TaskId
                           /\ Absent \notin TicketId

VARIABLES
  rooms,    \* rooms[r]: the status of room r
  tasks,    \* tasks[i]: the housekeeping task with id i, or Absent
  tickets,  \* tickets[i]: the maintenance ticket with id i, or Absent
  blocks,   \* blocks[i]: the stop-sell block of ticket i, for the room of i
  audits,   \* the ids in the audits table
  used,     \* keys with a stored response
  apart     \* history: rooms whose status and tasks were written apart

vars == <<rooms, tasks, tickets, blocks, audits, used, apart>>

TypeOK ==
  /\ rooms \in [Room -> RoomStatus]
  /\ tasks \in [TaskId -> Task \cup {Absent}]
  /\ tickets \in [TicketId -> Ticket \cup {Absent}]
  /\ blocks \in [TicketId -> {"none", "active", "closed"}]
  /\ audits \subseteq CommandType \X Id
  /\ used \subseteq Key
  /\ apart \subseteq Room

Init ==
  /\ rooms \in [Room -> Seeded]
  /\ tasks = [i \in TaskId |-> Absent]
  /\ tickets = [i \in TicketId |-> Absent]
  /\ blocks = [i \in TicketId |-> "none"]
  /\ audits = {}
  /\ used = {}
  /\ apart = {r \in Room : rooms[r].cleaning \in Waiting}

-----------------------------------------------------------------------------
(* Blocks *)

BlockedBy(r) == {i \in TicketId : /\ tickets[i] # Absent
                                  /\ tickets[i].room = r
                                  /\ blocks[i] = "active"}

\* Saving a room that becomes sellable closes its blocks.
BlocksAfterRoom(r, status) ==
  IF rooms[r].sale # "sellable" /\ status.sale = "sellable"
  THEN [i \in TicketId |-> IF i \in BlockedBy(r) THEN "closed" ELSE blocks[i]]
  ELSE blocks

\* Mutant: a block that was closed is opened again with its ticket.
BlocksAfterTicket_reopening(i, ticket) ==
  IF ticket.stop THEN [blocks EXCEPT ![i] = "active"] ELSE blocks

\* Saving a stop-sell ticket opens its block, unless it was closed.
BlocksAfterTicket(i, ticket) ==
  IF ticket.stop /\ blocks[i] # "closed" THEN [blocks EXCEPT ![i] = "active"] ELSE blocks

-----------------------------------------------------------------------------
(* The executor all commands share *)

\* Mutant: audit rows may clash.
Confirm_unaudited(k, r, type, status) ==
  /\ k \notin used
  /\ rooms' = [rooms EXCEPT ![r] = status]
  /\ audits' = audits \cup {<<type, Suffix[k]>>}
  /\ used' = used \cup {k}

Confirm(k, r, type, status) ==
  /\ k \notin used
  /\ <<type, Suffix[k]>> \notin audits
  /\ rooms' = [rooms EXCEPT ![r] = status]
  /\ audits' = audits \cup {<<type, Suffix[k]>>}
  /\ used' = used \cup {k}

-----------------------------------------------------------------------------
(* Check-in and check-out *)

CheckIn(k, r, overrideDirty) ==
  /\ rooms[r].occupancy = "vacant"
  /\ rooms[r].sale = "sellable"
  /\ rooms[r].cleaning = "clean" \/ overrideDirty
  /\ Confirm(k, r, "CHECK_IN", [rooms[r] EXCEPT !.occupancy = "occupied"])
  /\ UNCHANGED <<tasks, tickets, blocks, apart>>

CheckOut(k, r) ==
  /\ rooms[r].occupancy \in {"occupied", "dueOut"}
  /\ Confirm(k, r, "CHECK_OUT",
             [rooms[r] EXCEPT !.occupancy = "vacant", !.cleaning = "dirty"])
  /\ tasks' = [tasks EXCEPT ![<<"checkout", Suffix[k]>>] = [room |-> r, status |-> "pending"]]
  /\ UNCHANGED <<tickets, blocks, apart>>

-----------------------------------------------------------------------------
(* Housekeeping *)

\* Mutant: the open tasks of all rooms.
OpenTasks_anyRoom(r) == {i \in TaskId : tasks[i] # Absent /\ tasks[i].status # "done"}

OpenTasks(r) == {i \in TaskId : /\ tasks[i] # Absent
                                /\ tasks[i].room = r
                                /\ tasks[i].status # "done"}

\* Mutant: the status of the room is written to the task.
Completed_roomStatus(cleaning) == cleaning

\* Mutant: cleaning finishes the task although an inspection follows.
Completed_early(cleaning) == IF cleaning = "rework" THEN "rework" ELSE "done"

Completed(cleaning) == IF cleaning = "clean" THEN "done" ELSE cleaning

\* The task a command works on: the one it names, of whatever room, else one
\* that is open for the room, else a new one.  "The last one" of the open tasks
\* is by creation time, the clock of the client that caused it: any of them.
Worked(k, r, prefix, named) ==
  IF named # Absent
  THEN {IF tasks[named] # Absent THEN named ELSE <<prefix, Suffix[k]>>}
  ELSE IF OpenTasks(r) # {} THEN OpenTasks(r) ELSE {<<prefix, Suffix[k]>>}

\* The room of the task that a command names, if there is one.
NamedRoom(named) == IF named # Absent /\ tasks[named] # Absent THEN {tasks[named].room} ELSE {}

\* History: a command that names a task of another room writes the status of
\* its own room and the task of that one.  One that does not brings the status
\* of its room and its task together.
Apart(r, named) ==
  IF NamedRoom(named) \subseteq {r} THEN apart \ {r} ELSE apart \cup {r} \cup NamedRoom(named)

\* A task keeps the room it was created for.
Clean(k, r, type, prefix, named, cleaning) ==
  /\ Confirm(k, r, type, [rooms[r] EXCEPT !.cleaning = cleaning])
  /\ \E i \in Worked(k, r, prefix, named) :
       tasks' = [tasks EXCEPT ![i] =
                   [room |-> IF tasks[i] # Absent THEN tasks[i].room ELSE r,
                    status |-> Completed(cleaning)]]
  /\ apart' = Apart(r, named)
  /\ UNCHANGED <<tickets, blocks>>

AfterCleaning(inspectionRequired) == IF inspectionRequired THEN "inspection" ELSE "clean"

HousekeepingDone(k, r, inspectionRequired) ==
  Clean(k, r, "HOUSEKEEPING_DONE", "housekeeping", Absent, AfterCleaning(inspectionRequired))

HousekeepingInspection(k, r, passed, named) ==
  Clean(k, r, "HOUSEKEEPING_INSPECTION", "inspection", named,
        IF passed THEN "clean" ELSE "rework")

HousekeepingRework(k, r, inspectionRequired, named) ==
  Clean(k, r, "HOUSEKEEPING_REWORK", "rework", named, AfterCleaning(inspectionRequired))

HousekeepingMarkDirty(k, r) ==
  /\ rooms[r].cleaning = "clean"
  /\ Confirm(k, r, "HOUSEKEEPING_MARK_DIRTY", [rooms[r] EXCEPT !.cleaning = "dirty"])
  /\ UNCHANGED <<tasks, tickets, blocks, apart>>

-----------------------------------------------------------------------------
(* Maintenance *)

ReportMaintenance(k, r, stopSell) ==
  LET ticket == [room |-> r, status |-> "open", stop |-> stopSell]
  IN /\ Confirm(k, r, "REPORT_MAINTENANCE",
                IF stopSell THEN [rooms[r] EXCEPT !.sale = "outOfOrder"] ELSE rooms[r])
     /\ tickets' = [tickets EXCEPT ![Suffix[k]] = ticket]
     /\ blocks' = BlocksAfterTicket(Suffix[k], ticket)
     /\ UNCHANGED <<tasks, apart>>

\* A ticket is found by id whatever its status, else among the open ones.
Resolvable(r, named) ==
  {i \in TicketId : /\ tickets[i] # Absent
                    /\ tickets[i].room = r
                    /\ IF named # Absent THEN i = named ELSE tickets[i].status # "resolved"}

MaintenanceDone(k, r, named) ==
  /\ Confirm(k, r, "MAINTENANCE_DONE", rooms[r])
  /\ \E i \in Resolvable(r, named) :
       LET ticket == [tickets[i] EXCEPT !.status = "resolved"]
       IN /\ tickets' = [tickets EXCEPT ![i] = ticket]
          /\ blocks' = BlocksAfterTicket(i, ticket)
  /\ UNCHANGED <<tasks, apart>>

RestoreSellable(k, r) ==
  LET status == [rooms[r] EXCEPT !.sale = "sellable"]
  IN /\ rooms[r].sale # "sellable"
     /\ Confirm(k, r, "RESTORE_SELLABLE", status)
     /\ blocks' = BlocksAfterRoom(r, status)
     /\ UNCHANGED <<tasks, tickets, apart>>

-----------------------------------------------------------------------------
\* A dry run and a rejected command store their response and nothing else.
AnswerOnly(k) ==
  /\ k \notin used
  /\ used' = used \cup {k}
  /\ UNCHANGED <<rooms, tasks, tickets, blocks, audits, apart>>

\* A used key is answered from the table, or refused if the request differs.
Replay(k) ==
  /\ k \in used
  /\ UNCHANGED vars

\* A clash of audit ids aborts the transaction: the key stays unused and the
\* command can never succeed under it.
Aborted(k, type) ==
  /\ k \notin used
  /\ <<type, Suffix[k]>> \in audits
  /\ UNCHANGED vars

RoomStep(k, r) ==
  \/ \E o \in BOOLEAN : CheckIn(k, r, o)
  \/ CheckOut(k, r)
  \/ \E q \in BOOLEAN : HousekeepingDone(k, r, q)
  \/ \E p \in BOOLEAN, i \in TaskId \cup {Absent} : HousekeepingInspection(k, r, p, i)
  \/ \E q \in BOOLEAN, i \in TaskId \cup {Absent} : HousekeepingRework(k, r, q, i)
  \/ HousekeepingMarkDirty(k, r)
  \/ \E s \in BOOLEAN : ReportMaintenance(k, r, s)
  \/ \E i \in TicketId \cup {Absent} : MaintenanceDone(k, r, i)
  \/ RestoreSellable(k, r)

Next ==
  \E k \in Key :
    \/ \E r \in Room : RoomStep(k, r)
    \/ AnswerOnly(k)
    \/ Replay(k)
    \/ \E type \in CommandType : Aborted(k, type)

Spec == Init /\ [][Next]_vars
-----------------------------------------------------------------------------
(* Properties *)

StopSellTickets(r) == {i \in TicketId : /\ tickets[i] # Absent
                                        /\ tickets[i].room = r
                                        /\ tickets[i].stop}

\* Once a stop-sell ticket was reported for a room, the room has an active
\* block exactly while it is not sellable.  A block left behind on a sellable
\* room would take it off the inventory for good, since restoreSellable
\* refuses a room that is sellable; a closed room without a block would lose
\* the reason in the calendar.  Tickets may be resolved before or after the
\* room is restored, again, or by id.
StopSellIsBlocked ==
  \A r \in Room :
    StopSellTickets(r) # {} => (rooms[r].sale # "sellable" <=> BlockedBy(r) # {})

\* While a room waits for an inspection or a rework, a task of that room says
\* so: the work is on somebody's list, whatever order check-outs, overridden
\* check-ins and cleaning reports came in.  The code never compares the room
\* of a named task with the room reported on, so rooms that such a command
\* has set apart are excepted, until the next report of their own.
WaitingRoomHasTask ==
  \A r \in Room \ apart :
    rooms[r].cleaning \in Waiting
      => \E i \in OpenTasks(r) : tasks[i].status = rooms[r].cleaning

\* A task is finished only by a step that makes its own room clean, or by a
\* command of another room that names it: the second leaves its room apart.
FinishedMeansClean ==
  [][\A i \in TaskId :
       (tasks[i] # Absent /\ tasks[i].status # "done" /\ tasks'[i].status = "done")
         => \/ rooms'[tasks[i].room].cleaning = "clean"
            \/ tasks[i].room \in apart']_vars

\* No key overwrites the records another one made, although ids are made from
\* keys with letters replaced: tasks and tickets keep their room, a ticket
\* keeps its kind, and a resolved one stays resolved.
RecordsSurvive ==
  [][/\ \A i \in TaskId : tasks[i] # Absent => tasks'[i].room = tasks[i].room
     /\ \A i \in TicketId :
          tickets[i] # Absent
            => /\ tickets'[i].room = tickets[i].room
               /\ tickets'[i].stop = tickets[i].stop
               /\ tickets[i].status = "resolved" => tickets'[i].status = "resolved"]_vars
=============================================================================
