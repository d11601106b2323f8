-------------------------- MODULE ProjectionDispatch --------------------------
(***************************************************************************)
(* The outbox dispatcher that shows the platform's state to the adapter.   *)
(* The outbox is derived from the tables each time it is read; only the    *)
(* delivery ledger is stored.  A tick lists a batch of work items in one   *)
(* transaction, with the state each will show, and then posts them one at  *)
(* a time.  The process yields at every post: commands change the tables   *)
(* meanwhile, and a crash loses the batch but not the ledger.              *)
(*                                                                         *)
(* A version counts the changes of a key: a room, a job (a cleaning task   *)
(* or a maintenance ticket), a draft workflow, or a record (a reservation  *)
(* or an operation request).  Each domain event and each audit row has an  *)
(* outbox entry, and shows one row of the adapter only: the room's for a   *)
(* check-in, a check-out or a return to sale, the task's for a cleaning    *)
(* event, the ticket's for a maintenance event.  So a cleaning step, or a  *)
(* report that stops the sale, changes the room and tells of the job       *)
(* alone, and a room marked dirty has an entry that names no task: it      *)
(* cannot be mapped and is given up unposted.  A record has a single entry *)
(* however often it changes.  The adapter is external: it keeps, for each  *)
(* key, the version it was last told.                                      *)
(*                                                                         *)
(* Left out: entries of dry runs, which are born skipped and never listed, *)
(* and the failed mapping of an item whose row is gone, which the tables,  *)
(* being append-only, do not produce.                                      *)
(***************************************************************************)
EXTENDS Integers, FiniteSets

CONSTANTS
  Room,         \* rooms: shown as they are now
  Job,          \* cleaning tasks and maintenance tickets: shown as they are now
  Workflow,     \* reservation and group drafts: shown as the audit row says
  Record,       \* reservations and operation requests: one entry each
  MaxChange,    \* bound: changes per key
  MaxEntry,     \* bound: outbox entries
  MaxAttempts,  \* retry ceiling (default 5)
  BatchSize,    \* work items per tick (default 25)
  MaxRestarts,  \* bound: crashes
  InOrder,      \* clients' clocks agree with the order of the changes of a key
  Absent

Key == Room \cup Job \cup Workflow \cup Record
Version == 1 .. MaxChange
Entry == Key \X Version

ASSUME BoundAssumption ==
  /\ MaxChange \in Nat /\ MaxEntry \in Nat /\ MaxAttempts \in Nat \ {0}
  /\ BatchSize \in Nat \ {0} /\ MaxRestarts \in Nat
  /\ InOrder \in BOOLEAN
ASSUME KeyAssumption ==
  /\ Room \cap (Job \cup Workflow \cup Record) = {}
  /\ Job \cap (Workflow \cup Record) = {}
  /\ Workflow \cap Record = {}

Row == [status : {"pending", "retryable", "delivered", "failed"},
        attempts : 0 .. MaxAttempts, due : BOOLEAN]

Item == [entry : Entry, attempt : 1 .. MaxAttempts, value : Version]

ASSUME AbsentAssumption == Absent \notin Row /\ Absent \notin [item : Item, applied : BOOLEAN]

VARIABLES
  truth,      \* truth[k]: changes of k committed so far
  outbox,     \* the entries of the events and rows committed so far
  blank,      \* the entries whose event names no row to show
  ledger,     \* ledger[e]: the row of projection_dispatch_ledger, or Absent
  batch,      \* listed items not yet posted
  flight,     \* the item being posted and whether the adapter has applied it
  base,       \* base[k]: the version the adapter shows, 0 for none
  lingering,  \* aborted posts that the adapter may still apply
  shown,      \* history: shown[k], every version of k the adapter has applied
  overtaken,  \* history: keys for which an aborted post was applied late
  sent,       \* history: sent[e], how often e was posted
  restarts

derived == <<truth, outbox, blank>>
external == <<base, lingering, shown, overtaken>>
vars == <<derived, ledger, batch, flight, external, sent, restarts>>

TypeOK ==
  /\ truth \in [Key -> 0 .. MaxChange]
  /\ outbox \subseteq Entry /\ blank \subseteq outbox
  /\ ledger \in [Entry -> Row \cup {Absent}]
  /\ batch \subseteq Item
  /\ flight \in [item : Item, applied : BOOLEAN] \cup {Absent}
  /\ base \in [Key -> 0 .. MaxChange]
  /\ lingering \subseteq Item
  /\ shown \in [Key -> SUBSET Version]
  /\ overtaken \subseteq Key
  /\ sent \in [Entry -> Nat]
  /\ restarts \in 0 .. MaxRestarts

Init ==
  /\ truth = [k \in Key |-> 0]
  /\ outbox = {} /\ blank = {}
  /\ ledger = [e \in Entry |-> Absent]
  /\ batch = {}
  /\ flight = Absent
  /\ base = [k \in Key |-> 0]
  /\ lingering = {}
  /\ shown = [k \in Key |-> {}]
  /\ overtaken = {}
  /\ sent = [e \in Entry |-> 0]
  /\ restarts = 0

-----------------------------------------------------------------------------
(* The outbox and its ledger *)

\* Mutant: INSERT OR REPLACE.
Ensured_replacing ==
  [e \in Entry |-> IF e \in outbox THEN [status |-> "pending", attempts |-> 0, due |-> TRUE]
                                    ELSE ledger[e]]

\* INSERT OR IGNORE: a row that is there is left as it is.
Ensured ==
  [e \in Entry |-> IF e \in outbox /\ ledger[e] = Absent
                   THEN [status |-> "pending", attempts |-> 0, due |-> TRUE]
                   ELSE ledger[e]]

\* Mutant: only pending rows are listed.
Due_pendingOnly(row) == row # Absent /\ row.status = "pending"

Due(row) == row # Absent /\ row.status \in {"pending", "retryable"} /\ row.due

Settled(e) == ledger[e] # Absent /\ ledger[e].status \in {"delivered", "failed"}

Before(e, f) == InOrder /\ e[1] = f[1] /\ e[2] < f[2]

Smaller(m, n) == IF m < n THEN m ELSE n

\* Mutant: a room or job is shown as the event left it.
Shown_byEvent(e) == e[2]

Shown(e) == IF e[1] \in Workflow THEN e[2] ELSE truth[e[1]]

Listed(e, row) == [entry |-> e, attempt |-> row.attempts + 1, value |-> Shown(e)]

\* Mutant: only as many retries as the first attempt allows plus one.
Verdict_offByOne(item) == IF item.attempt <= MaxAttempts THEN "retryable" ELSE "failed"

\* What becomes of an item whose post may be tried again.
Verdict(item) == IF item.attempt < MaxAttempts THEN "retryable" ELSE "failed"

\* Mutant: a retryable row is due at once and its attempts are not counted.
Mark_uncounted(item, status) ==
  ledger' = [ledger EXCEPT ![item.entry].status = status]

Mark(item, status) ==
  ledger' = [ledger EXCEPT ![item.entry] =
               [status |-> status, attempts |-> @.attempts + 1, due |-> FALSE]]

-----------------------------------------------------------------------------
(* Steps *)

\* A command commits the changes of some keys together with the entries of
\* its events or audit rows, by the key each is about.
Commit(changed, told) ==
  /\ \A k \in changed : truth[k] < MaxChange
  /\ truth' = [k \in Key |-> IF k \in changed THEN truth[k] + 1 ELSE truth[k]]
  /\ outbox' = outbox \cup {<<k, truth[k] + 1>> : k \in told}
  /\ Cardinality(outbox') <= MaxEntry
  /\ UNCHANGED <<ledger, batch, flight, external, sent, restarts>>

\* RoomCheckedIn, RoomSellabilityRestored.
RoomEvent(r) == Commit({r}, {r}) /\ UNCHANGED blank

\* RoomCheckedOut and HousekeepingTaskCreated.
CheckOut(r, j) == truth[j] = 0 /\ Commit({r, j}, {r, j}) /\ UNCHANGED blank

\* MaintenanceReported that leaves the room on sale, MaintenanceCompleted.
JobEvent(j) == Commit({j}, {j}) /\ UNCHANGED blank

\* HousekeepingCompleted, HousekeepingInspectionPassed and -Failed,
\* HousekeepingReworkCompleted, MaintenanceReported that stops the sale.
RoomJobEvent(r, j) == Commit({r, j}, {j}) /\ UNCHANGED blank

\* HousekeepingMarkedDirty: the entry is of the kind of a task and names the
\* room.
MarkedDirty(r) ==
  /\ Commit({r}, {r})
  /\ blank' = blank \cup {<<r, truth[r] + 1>>}

\* An audit row of a reservation or group draft.
WorkflowStep(d) == Commit({d}, {d}) /\ UNCHANGED blank

\* A reservation or operation request has its entry from the start.
RecordChange(o) ==
  /\ Commit({o}, IF truth[o] = 0 THEN {o} ELSE {})
  /\ UNCHANGED blank

\* The timer fires; nothing happens while a batch is being worked off.
Tick ==
  /\ batch = {} /\ flight = Absent
  /\ ledger' = Ensured
  /\ LET due == {e \in outbox : Due(Ensured[e])}
     IN \E some \in SUBSET due :
          /\ Cardinality(some) = Smaller(BatchSize, Cardinality(due))
          /\ \A f \in some, e \in due : Before(e, f) => e \in some
          /\ batch' = {Listed(e, Ensured[e]) : e \in some}
  /\ UNCHANGED <<derived, flight, external, sent, restarts>>

\* The first item left is mapped and posted.
Post ==
  /\ flight = Absent
  /\ \E item \in batch :
       /\ item.entry \notin blank
       /\ \A other \in batch : ~Before(other.entry, item.entry)
       /\ batch' = batch \ {item}
       /\ flight' = [item |-> item, applied |-> FALSE]
       /\ sent' = [sent EXCEPT ![item.entry] = @ + 1]
  /\ UNCHANGED <<derived, ledger, external, restarts>>

\* Its mapping throws the permanent error.
Unmapped ==
  /\ flight = Absent
  /\ \E item \in batch :
       /\ item.entry \in blank
       /\ \A other \in batch : ~Before(other.entry, item.entry)
       /\ batch' = batch \ {item}
       /\ Mark(item, "failed")
  /\ UNCHANGED <<derived, flight, external, sent, restarts>>

Accept(item) ==
  /\ base' = [base EXCEPT ![item.entry[1]] = item.value]
  /\ shown' = [shown EXCEPT ![item.entry[1]] = @ \cup {item.value}]

\* The adapter upserts the row of the key.
Apply ==
  /\ flight # Absent /\ ~flight.applied
  /\ Accept(flight.item)
  /\ flight' = [flight EXCEPT !.applied = TRUE]
  /\ UNCHANGED <<derived, ledger, batch, lingering, overtaken, sent, restarts>>

\* Mutant: the code in the body of the answer is not looked at.
Delivered_anyBody ==
  /\ flight # Absent
  /\ Mark(flight.item, "delivered")
  /\ flight' = Absent
  /\ UNCHANGED <<derived, batch, external, sent, restarts>>

\* HTTP success with code 0.
Delivered ==
  /\ flight # Absent /\ flight.applied
  /\ Mark(flight.item, "delivered")
  /\ flight' = Absent
  /\ UNCHANGED <<derived, batch, external, sent, restarts>>

\* Any other answer that is neither 5xx nor 429.
Refused ==
  /\ flight # Absent
  /\ Mark(flight.item, "failed")
  /\ flight' = Absent
  /\ UNCHANGED <<derived, batch, external, sent, restarts>>

Linger == IF flight.applied THEN {{}} ELSE {{}, {flight.item}}

\* 5xx, 429, a network error or the abort timer, whether or not the adapter
\* has applied the post or still will.
Faltered ==
  /\ flight # Absent
  /\ Mark(flight.item, Verdict(flight.item))
  /\ flight' = Absent
  /\ \E left \in Linger : lingering' = lingering \cup left
  /\ UNCHANGED <<derived, batch, base, shown, overtaken, sent, restarts>>

\* The adapter gets round to a post its sender has given up.
ApplyLate ==
  /\ \E item \in lingering :
       /\ Accept(item)
       /\ lingering' = lingering \ {item}
       /\ overtaken' = overtaken \cup {item.entry[1]}
  /\ UNCHANGED <<derived, ledger, batch, flight, sent, restarts>>

\* The backoff of a retryable row runs out.
Elapse(e) ==
  /\ ledger[e] # Absent /\ ledger[e].status = "retryable" /\ ~ledger[e].due
  /\ ledger' = [ledger EXCEPT ![e].due = TRUE]
  /\ UNCHANGED <<derived, batch, flight, external, sent, restarts>>

Crash ==
  /\ restarts < MaxRestarts
  /\ restarts' = restarts + 1
  /\ batch' = {} /\ flight' = Absent
  /\ IF flight = Absent THEN UNCHANGED lingering
     ELSE \E left \in Linger : lingering' = lingering \cup left
  /\ UNCHANGED <<derived, ledger, base, shown, overtaken, sent>>

Answered == Delivered \/ Refused \/ Faltered

Next ==
  \/ \E r \in Room : RoomEvent(r) \/ MarkedDirty(r)
  \/ \E r \in Room, j \in Job : CheckOut(r, j) \/ RoomJobEvent(r, j)
  \/ \E j \in Job : JobEvent(j)
  \/ \E d \in Workflow : WorkflowStep(d)
  \/ \E o \in Record : RecordChange(o)
  \/ Tick
  \/ Post
  \/ Unmapped
  \/ Apply
  \/ Delivered
  \/ Refused
  \/ Faltered
  \/ ApplyLate
  \/ \E e \in Entry : Elapse(e)
  \/ Crash

Spec == Init /\ [][Next]_vars

\* The interval timer keeps firing, the loop over a batch goes on, every post
\* is answered or aborted by its own timer, and time passes.  The adapter owes
\* nothing.
FairSpec == Spec /\ WF_vars(Tick) /\ WF_vars(Post \/ Unmapped) /\ WF_vars(Answered)
                 /\ \A e \in Entry : WF_vars(Elapse(e))

-----------------------------------------------------------------------------
(* Properties *)

IsDelivered(e) == ledger[e] # Absent /\ ledger[e].status = "delivered"

\* A delivered entry was applied by the adapter: a draft's with the very state
\* its audit row recorded, any other with the state at its change or a later
\* one, although the item was listed before other posts were awaited.
DeliveredWasApplied ==
  \A e \in Entry :
    IsDelivered(e) => \E v \in shown[e[1]] : IF e[1] \in Workflow THEN v = e[2] ELSE v >= e[2]

\* The adapter's row of a room, task or ticket is never older than a delivered
\* event about it, in whatever order the entries were retried and whatever was
\* committed while a batch was out; and with every event of a task or ticket
\* delivered the row is the task or ticket as it is.  Excepted are rows for
\* which the adapter applied a post after its sender had given it up.
RowsKeepUp ==
  \A k \in (Room \cup Job) \ overtaken :
    /\ \A v \in Version : IsDelivered(<<k, v>>) => base[k] >= v
    /\ (k \in Job /\ \A v \in 1 .. truth[k] : IsDelivered(<<k, v>>)) => base[k] = truth[k]

\* An entry is never posted more often than the retry ceiling allows, except
\* once more for each crash, which may fall between a post and its mark.
PostsAreBounded == \A e \in Entry : sent[e] <= MaxAttempts + restarts

\* What is delivered or given up stays so: no later tick, retry or restart
\* reopens the row.
SettledIsFinal == [][\A e \in Entry : Settled(e) => ledger'[e] = ledger[e]]_vars

\* Every committed event and row is delivered or given up for good in the end,
\* however the adapter answers.
EverySettles == \A e \in Entry : e \in outbox ~> Settled(e)

\* "reservation and multi-room reservation group workflow state is projected
\* into the Base table": once every audit row of a draft is delivered, none
\* applied late, the table shows the state of its last one.
WorkflowStateIsShown ==
  \A d \in Workflow \ overtaken :
    (\A v \in 1 .. truth[d] : IsDelivered(<<d, v>>)) => base[d] = truth[d]
=============================================================================
