# TLA+ models of pms-platform

This directory models the state-changing core of the hotel platform in
`packages/`: how a reservation, or a group of them, is drafted, confirmed on a
card, booked, moved, cancelled, and how its guest is checked in and out; how
rooms are cleaned, closed and restored; how the inventory tables follow; how
guests' documents and requests to operators are kept; and how changes are
projected to the adapter.  TLC checks the models on small instances (`*.cfg`),
TLAPS proves theorems about them for every instance (`*_proofs.tla`).

    tlc -workers 2 -config MCReservationBooking.cfg MCReservationWorkflow
    tlapm ReservationSafety_proofs.tla

## The system

| Component | State | Operations | Talks to |
|---|---|---|---|
| Reservation workflow | `reservation_drafts`, with a quote and a pending action per draft | create, update, quote, prepare confirm, cancel; card callbacks status, confirm, cancel | ledger (confirm books), idempotency |
| Cancel workflow | `reservation_cancel_actions` | prepare; card confirm, cancel, expiry | ledger |
| Reservation ledger | `reservations`, `reservation_room_allocations`, `stays` | book, cancel, adjust, record and close a stay, availability | inventory, core |
| Core room commands | `rooms`, `housekeeping_tasks`, `maintenance_tickets`, `audits`, `domain_events`, `core_idempotency` | check-in, check-out, cleaning steps, maintenance, sale status, block | ledger through stay hooks |
| Inventory | `inventory_*` tables, `inventory_blocks` | rebuild a window, block, search for free rooms | rooms, ledger; every commit that touched either |
| API idempotency | `api_idempotency` | look up, save | every handler |
| Group bookings | `reservation_group_drafts` | as the draft workflow, for several rooms | ledger |
| Operation requests | `operation_requests` | create, update | outbox |
| Guest id cards | `guest_id_cards`, `guest_id_card_drafts` | archive, prepare, confirm | ledger |
| Projection outbox and dispatcher | `projection_dispatch_ledger`, one in-memory batch | derive outbox, list due work, post to the adapter, mark | all tables; the adapter over HTTP |
| HTTP server, read models, manifest, contracts, provisioning, MCP bridge | none of their own | transport, reads, checks | |

All tables are in one SQLite database behind a synchronous driver.  A handler
parses its request, then runs in one `BEGIN IMMEDIATE` transaction
(`baseStore.ts`, `runInTransaction`), so handlers do not interleave inside and
a crash leaves all or nothing: one handler is one action.  What makes the
reservation side hard is therefore not torn handlers but long sequences of
legal calls: cards answered late, retries with old tokens, client clocks that
disagree, ids that are booked again after a cancellation, a guest checked in
elsewhere.  The dispatcher is the exception: it awaits the adapter between
reading the tables and recording the outcome, so anything may happen there,
including a crash, a reset and a second delivery.

### What makes each component correct, and what is hard about it

| Component | Hard | Correct means |
|---|---|---|
| Reservation and cancel workflow | cards answered late, twice, or after the draft changed; clocks that disagree; a cancel card outliving the check-in | a card confirms what it showed and nothing else books; a guest who arrived keeps the reservation |
| Reservation ledger | three booking routes with two availability tests; ids booked again; stays in another room than the booked one | no night of a room is promised twice; adjusting moves one promise |
| Core room commands | ids derived from keys by a lossy function; independent sale, ticket and block state; several open tasks | no key overwrites another's record; blocks follow the room; waiting rooms have a task |
| Outbox and dispatcher | work listed before awaits and posted after; crash between post and mark; retries overtaking; adapter applying late; events that show the job and not the room | what is delivered was applied; no row is older than a delivered entry of its kind; bounded posts; everything settles |
| API idempotency | a lost answer and a retry; a key used for two operations | a used token writes nothing |
| Inventory | windows of all lengths rebuilt over each other; a dirty mark any rebuild clears; searches longer than a window | days, intervals and counts agree; the horizon is current after a transaction; what is read or offered is so |
| Group bookings | one room of several gone at confirmation; a group confirmed, re-slotted and confirmed again under the same ids | all rooms the card showed or none; no night promised twice |
| Operation requests | creates repeated after updates; updates that leave out or clear fields | a repeat changes nothing |
| Guest id cards | drafts found by a short hash; the same card confirmed under several tokens; tokens used before for any operation | a row is one call's document; a card is confirmed once; the number leaves the draft when it is archived |

## Modules

| Module | Models | State |
|---|---|---|
| `RoomPromises` | abstract: which reservation id holds which room and nights | `held` |
| `RoomCalendar` | abstract: what readers, searches and bookings may be told of the claims on rooms, without any tables | `claims`, `answer` |
| `ReservationLedger` | the tables of the reservation side and what handlers read and write in them | `reservations`, `stays`, `occupied` |
| `ReservationWorkflow` | one action per handler of drafts, cards, cancel actions, direct writes, check-in and check-out | the ledger's, `drafts`, `cancels`, `idem` |
| `ProjectionDispatch` | the outbox dispatcher and the adapter | `truth`, `outbox` and `blank`, `ledger`, `batch`, `flight`, the adapter's `base` and `lingering`, histories |
| `RoomCommands` | the nine core commands on a room | `rooms`, `tasks`, `tickets`, `blocks`, `audits`, `used`, the history `apart` |
| `GroupBooking` | group drafts, their cards and their confirmation; extends `ReservationWorkflow` | its, and `groups` |
| `Inventory` | the derived tables, rebuilt from what binds rooms to days, and who reads them | `claims`, `tables`, `today`, `horizon`, `answer` |
| `GuestDocuments` | archive of identity documents, and the tokens all operations share | `cards`, `drafts`, `settled` |
| `OperationRequests` | the queue of requests to operators | `requests` |
| `Desk` | the last two in one server | theirs |
| `MC*`, `*.cfg` | instances for TLC | |
| `*_proofs` | theorems | |

`PROJECT.json` maps every definition to the lines it stands for.

### Reservations

`RoomPromises` says what the reservation side promises with drafts, cards and
stays left out: ids are granted selections, an id gives its own up, or hands over to a
replacement in one step, and no night of a room is held twice.
`ReservationWorkflow` implements it under the mapping `Held`: an id holds its
selection while its reservation is booked and no stay of it has ended.

The reservation of a draft shares its id with the draft; `create`, `adjust` and
`prepareBooking` derive theirs from the client token, so `ResId` and `DraftId`
are pairs of an origin and a token.  Two different availability tests are kept
as the code has them: `Conflicting` compares date ranges (confirm, adjust) and
`Available` looks at the derived nights (create, prepare booking).

Simplifications, each with its reason:
- Refs of quotes, cards and evidence are hashes of a draft and its slots; they
  are modelled by the slots, which takes the hash to be injective.
- `Absent` is one value for all that may be missing; no date or row is equal to it.
- `stamp` is `client_token`.  Only the tokens stamped by an expiry can clash
  with a later save: all others have a stored response.
- Which stay is newest goes by the client's clock.  A stay row carries the
  instant it began and the instant it was last written, both given by the call
  that writes it, and `Latest` is the query by `updated_at`, asked again by each
  reader as in `getLatestStay`.  `DayOf` is the date of an instant.
- The query breaks ties of `updated_at` by a hash; what a tie can select,
  unequal clocks can select too.
- `Closed` is the set of rooms not for sale.  It is a constant here; its
  composition with `RoomCommands` is not written yet.
- Import and sandbox reset are not modelled.

`GroupBooking` adds group drafts to all of this.  The group handlers repeat the
code of the single ones on rows of the same shape, so the module reuses the
operations on rows (`NewDraft`, `Updated`, `Quoted`, `Prepared`, `Quotable`,
`Awaits`, `Answerable`) and states what differs: slots hold rooms in places,
the confirmation compares all rooms with everybody else's reservations and
writes one reservation per place.  Its id is the group's with the place, so a
group that is confirmed, re-slotted and confirmed again rewrites its
reservations place by place, and leftovers of a larger selection stay booked;
`GroupConflicting` excludes only the ids it is about to write.  `GroupPromisesKept`
says that the composition still implements `RoomPromises`, in which one step
may grant several ids.  `Place` is empty where groups are left out.

### Rooms

Each command is the action of its name; all go through `Confirm`, the part of
`executeRoomCommand` that saves the room, appends the audit row and stores the
response.  A task id is the prefix of the command that creates it and the
suffix of the key; `Suffix` maps several keys to one suffix, as `safeIdSuffix`
does.  A clash of audit ids makes the insert fail and the transaction roll
back: that is the conjunct on `audits` in `Confirm`, and `Aborted`.
A block is identified by its ticket, whose room never changes.
`core_idempotency` is only written together with `api_idempotency` (the
handlers store both in one transaction), so `used` stands for both.

`inspection` and `rework` may name a task, and the code does not compare the
task's room with the command's, nor does the model.  A report that names a task
of another room leaves two rooms whose status and tasks were written apart: its
own, whose task stays as it was, and the task's, whose status stays as it was.
The history variable `apart` holds them, until a report of the room itself
brings both together again.  `WaitingRoomHasTask` and `FinishedMeansClean` are
about all other rooms, whatever calls are made.

### Inventory

What binds a room to days (a block, the sale status, a stay, a reservation) is
a claim; `DayCell` ranks the claims as `deriveInventoryDayRoom` tests them.
`Rebuilt` replaces a window of the three tables: it deletes days and counts of
the window and every interval that overlaps it, and writes new ones.  Four
callers do so with windows of their own: a transaction that touched a claim
(`Commit`, the default horizon), a booking check (`Checked`, the nights asked),
a reader (`Read`) and a search (`Search`, the nights of the stay, clamped).
A transaction is a record of claims, tables and the dirty mark: `Begin` finds
the mark clear, `Write` sets it, `Rebuild` of whatever window clears it, and
`Commit` rebuilds the default horizon only if it is set.  The order of the
operators in an action is the order of the calls in the code: a booking checks
its nights first and writes then, so its mark survives the check.
Days are integers and the server's date moves with `NextDay`.  A rebuild of a
narrow window cuts intervals that reach out of it, so stored days may lie in no
interval until somebody rebuilds them; readers always rebuild first, and
`ReadsAreExact` is about what they get.  A booking check looks at the rows of the
window it has just rebuilt and at no older ones (`Listed`), so a stay longer than
the longest window is refused even where rows of another rebuild would fill the
gap.

All of this is machinery to keep a cache true, and `RoomCalendar` says what it
is a cache of: claims come and go, a read is answered with the strongest claim
of each room-day and the fewest intervals that say the same, a search with exactly the
rooms free on all nights, none if the nights do not fit in a window.
`TablesAreInvisible` states that `Inventory` implements it.  Claims are added and removed as the
writers do it, but without the drafts, cards and tickets behind them.

### The desk

In `GuestDocuments` a call is a request with an operation, a token and a body.
`Settle` stores under the token that it is used, in the table all operations
share, which `Other` stands for; `settled` keeps the whole request, so that rows
can be traced to it.  A call with a used token writes nothing (`Replay`).  What it
is answered is not modelled: that goes by a fingerprint string the client makes
up, the server neither computes nor checks it, and a client that sends the hash
of its token gets the answer of whatever operation used the token before.

A draft is found by a short
reference (`RefOf`, which two tokens may share) of which the query returns any.
A card's payload is a digest of the draft's id and the hash shown; digests are
taken to be injective, the short references are not.  `by` in a row of the
archive is a history variable.  The code does not look at a draft's expiry when
it is confirmed, nor does the model.

`OperationRequests` has a create that answers a taken token with the row as it
stands, and an update that takes any status after any other, as the code does.
Both modules change disjoint tables; `Desk` composes them, and is what TLC runs
and the theorems are about.

### Projection

A version counts the changes of a key: a room, a job (a cleaning task or a
maintenance ticket), a draft, or a record (a reservation or an operation
request).  `outbox` is the set of entries the tables give rise to, a key with the
version it tells of.  Which commands change what and tell of what is kept, since
an entry upserts one row of the adapter only:

| Action | Commands | Changes | Entry about |
|---|---|---|---|
| `RoomEvent` | check-in, return to sale | room | room |
| `CheckOut` | check-out | room, new task | room; task |
| `RoomJobEvent` | cleaning done, inspection, rework; report that stops the sale | room, job | job |
| `JobEvent` | report that leaves the room on sale, maintenance done | job | job |
| `MarkedDirty` | mark dirty | room | a task that does not exist |
| `WorkflowStep` | any step of a reservation or group draft | draft | its audit row |
| `RecordChange` | any change of a reservation or operation request | record | record, the first time only |

So the adapter's row of a room stays as it was after a cleaning report, however
well everything is delivered.  The entry of `MarkedDirty` names the room where
the task should be; `blank` holds such entries, and `Unmapped` is the dispatcher
giving one up without a post.

`Tick` is the listing of one batch, in one transaction; `Post`, the answers and
their marks follow one item at a time, with any command, a `Crash`
or a late application by the adapter in between.  An item carries the state of
its row at the time of listing (`Shown`), except that of a draft, which carries
what its audit row says.  The order in which entries of a batch are posted is
`occurredAt`, a client's clock, hence arbitrary unless `InOrder`.  The adapter is
external: it applies a post or not, and answers or not.
Left out: entries of dry runs (skipped, never listed), items whose row is gone
(rows are never deleted), and a sandbox reset while a batch is out.

## Runs

| Run | Instance | Shows |
|---|---|---|
| `reservation_all` | every request, 3 tokens, 2 rooms (one closed), 2 overlapping selections | `TypeOK`, `LedgerWritesAreAnswered` |
| `reservation_booking` | bookings by card, directly and by adjustment, cancelled, checked in and out; 5 tokens, 2 rooms, 3 selections, 2 instants on different days | `NoDoubleBooking`, `BookingsKeepOff`, `SleepersKeepTheirNights`, `ArrivedGuestKeepsReservation`, `AdjustMovesOnePromise`, `PromisesKept` (refinement) |
| `reservation_cards` | drafts changed under their cards; 5 tokens | `CardBindsSelection`, `OnlyCardConfirmationCommits` |
| `reservation_expiry` | violation | `CancelledDraftIsNeverPrepared` (finding 1) |
| `room_sales` | all commands, any named task, 4 keys of which 2 share a suffix, 2 rooms | `TypeOK`, `StopSellIsBlocked`, `RecordsSurvive` |
| `room_cleaning` | guests and housekeeping, any named task, 4 keys, 2 rooms | `WaitingRoomHasTask`, `FinishedMeansClean` |
| `group_booking` | groups of one and two rooms and single bookings, 6 tokens, 3 rooms | `GroupTypeOK`, `NoDoubleBooking`, `GroupCardBindsSelection`, `GroupIsBookedWhole`, `GroupPromisesKept` (refinement) |
| `inventory_tables` | 2 rooms, up to 3 claims, 2 dates, horizon 2, longest window 3 | `InventoryTypeOK`, `TablesAgree`, `HorizonIsCurrent`, `ReadsAreExact`, `TablesAreInvisible` (refinement) |
| `desk` | 4 tokens, 2 drafts with one reference, 5 documents; one operation request | `DocumentsTypeOK`, `RowIsOneDocument`, `ConfirmedOnce`, `NumberWaitsForItsCard`, `RequestsTypeOK`, `RepeatsChangeNothing` |
| `projection_mixed` | a room and a job with 2 changes each, 3 entries, 2 attempts, batches of 2, 1 crash | `TypeOK`, `RowsKeepUp`, `DeliveredWasApplied`, `PostsAreBounded`, `SettledIsFinal` |
| `projection_settles` | fair; a draft, a request and a room that is also marked dirty, 2 entries, batches of 1, 1 crash | `DeliveredWasApplied`, `EverySettles` |
| `projection_workflow` | violation, clocks in order, no crash | `WorkflowStateIsShown` (finding 2) |

Bounds.  A token or key is spent by each response stored, so their number
bounds the length of a history (replays and expiries come free).  Five tokens
hold the longest conflict the reservation side offers: prepare, confirm,
cancel or check in, book again over it, and a late answer.  Three nights and
two overlapping ranges of a room give touching and overlapping selections; the
second room is there to check a guest in elsewhere.  The longest room history
of interest has four commands: report, resolve or restore, resolve again;
check-out, overridden check-in, check-out and one report.  Two attempts are
enough for a retry that is overtaken and for the ceiling to be met; one crash
for one lost mark.  `MaxEntry` bounds the entries of all keys together: three
are two of one row and one of the other beside it, two are a backlog for
batches of one.  Two instants order any two writes of stays either way, or tie
them.  Six tokens let a group be created, quoted, prepared and confirmed and
still be re-slotted or meet a single booking.  Inventory windows of two and
three days give every overlap of two windows (before, across, inside, after),
and a search up to day 5 goes beyond the longest window.  Four tokens are two
documents prepared under one reference and two confirmations.  The booking,
card and cleaning runs leave requests out of `Next` so that longer histories of
the rest fit, and so does the group run; `reservation_all` and `room_sales`
take all of them, and the theorems cover all of them for every bound.

Fairness (`FairSpec`).  The interval timer keeps firing and finds no batch
running after one ends (weak fairness of `Tick`); the loop over a batch goes on
(`Post`, or `Unmapped`); the abort timer ends every post even if the adapter never answers
(`Answered`); time passes (`Elapse`).  Nothing is assumed of the adapter.

## Findings

1. *A cancelled draft is quoted and prepared again.*  A late callback on the
   card of a cancelled draft sets the draft to `expired`
   (`pendingActionStore.ts`), and an update whose `requestedAt` lies before
   `expiresAt` reopens an expired draft (`reservationDraftStore.ts`).  The
   refusal message says a cancelled draft "cannot be quoted or prepared".
2. *A retried audit overwrites a newer workflow status.*  The row of a draft in
   the adapter's base carries the status of the audit entry being delivered.
   An entry that falters is retried after later ones were delivered, and the
   table ends on the older state with every entry marked delivered.  The
   runtime document says that workflow state is projected into the table.

## Proofs

Everything below holds for any number of tokens, keys, rooms and nights, under
the named `ASSUME`s of the modules only (the sentinels `Absent` and
`Incomplete` are no rows; bounds are natural numbers; suffixes are ids).

*Reservations.*  `LedgerInv` strengthens the type invariant by two facts:
every stay belongs to a
reservation that exists, and the id an unused token would adjust to is unused.
The steps of `Next` are sorted into six kinds of ledger write - nothing, a
booking, a cancellation, an adjustment, a check-in, a check-out - and each kind
is shown to be a grant, a give-up, a hand-over or a stutter of `RoomPromises`
(`ImplementsPromises`).  A booking is free in `RoomPromises` because both
availability tests exclude every id that is promised; a check-out of another
room's stay only gives up.  `NoDoubleBookingHolds` then follows from the
disjointness of holds, proved of `RoomPromises` alone.  `ArrivedGuestsStay`
rests on `LatestStay`: the query by `updated_at` finds a stay as soon as there is
one, whatever the clocks, so the read model says `booked` only if there is none.
`AdjustmentsMoveOne` adds that only an adjustment books an id of adjustment origin,
and that of the six kinds only it gives up one promise and makes another.

What the two availability tests have in common is `FreeAvoidsHeld`: a selection
that passes either shares no night with any live reservation that holds its room,
as booked or as slept in.  `BookingsKeepOffHeldRooms` states it of
every booking step (`BookingsKeepOff`), which is more than `NoDoubleBooking`: that one says nothing
of a room a guest was checked in to instead of the booked one.
`SleepersAreKept` is about direct bookings alone, and does without the read model:
a guest in house keeps the nights also when the reservation reads as checked out,
because the test by nights looks at the stays themselves.
`AvailabilityIsOffered` joins the ledger to the inventory: for the claims read
off the ledger (`LedgerClaims`), the test of direct bookings is membership in what
`RoomCalendar` offers, which `TablesStayInvisible` shows to be what the tables
offer.

*Cards.*  `CardsBindSelections` strengthens the property by what `Prepared`
and `Updated` leave behind: an open draft with a quote was quoted for its slots,
and one with a card has a quote.  `OnlyCardsCommit` uses it for
the selection that is booked, and for the rest only the types and that a
draft's id is none of those direct writes make.

*Groups.*  The single steps are the theorems above again, with `groups`
unchanged.  `GroupsImplementPromises` shows that a confirmation is a grant of
all the members at once: the members' own earlier holds are given up in the
same step, `GroupConflicting` excludes everybody else's, and the rooms are
pairwise different (`HasCompleteSelections`), so the new holds are disjoint
among themselves too.  `GroupsNoDoubleBooking` follows.
The invariants and action properties of the single reservations
are carried over by their step lemmas: a step of a single handler is the step
proved above, a step on group tables leaves the ledger alone, and only the
confirmation needs an argument (`GroupsLeaveCardsAlone`,
`GroupsKeepCardsBound`, `GroupsKeepArrivedGuests`,
`GroupsKeepAdjustments`, `GroupWritesAreAnswered`).
`GroupBookingsKeepOffHeldRooms` is the one that is weaker with groups:
`GroupConflicting` leaves out the ids it is about to write, so a group booked again may be
given a room in which the guest of another of its places sleeps, and the theorem excepts members of
one group as it is now.
`GroupsAreBookedWhole` rests on `GroupCardsBindSelections`: what is booked is
the row's slots, and those are what the card showed.

*Inventory.*  The properties themselves, with the types, are inductive:
`InventoryInv` only restates them over any value of the tables (`Typed`,
`Agree`), because a booking commits tables it has rebuilt before.  The hard
part is `TablesAgree`: a kept interval lies outside the new window, so it overlaps no
new day and no new interval, and it agrees with the kept days because no kept
row changed; runs of one window are disjoint by their maximality.  `HorizonIsCurrent` holds because
every action that changes `claims` commits a transaction that ends in `Write`, so
the mark is set (`WriteIsCommitted`), and no other rebuild writes
anything but the claims of the moment.  `OffersAreSound` needs `Clamped` and
`Asked` together: a window never longer than the cap has no row for the last
night of a longer list.

The runs of a row are its maximal intervals, so the theorems about them need
the least and the greatest element of a set of integers that is bounded on one
side.  `NatHasLeast` gets the least from the well-foundedness of the
naturals, `IntHasLeast` and `IntHasGreatest` shift and mirror it, and `RunExists`
concludes that every day lies in a run.  With `RunsDiffer` (adjacent
runs show different cells) this gives `ReadsAreAlwaysExact`, and, with a case per action
in `StepIsCalendarStep`, the refinement `TablesStayInvisible`.  It is stronger
than `OffersAreSound`: a search also finds every free room.
`DirectBookingsTakeFreeNights` is the same fact about booking checks.

*The desk.*  The invariant of the archive traces every row and draft back to the
stored request that wrote it, and says that a draft is confirmed exactly if a
stored confirmation names it, with the hash the draft has; a card's payload names the
draft, so sharing a short reference does not matter.
`DeskRunsBoth` shows that the desk implements each of its two books, so the
theorems about the archive hold of it; `RequestsTypeCorrect` and
`RepeatsAreHarmless` are the ones about requests, for any tokens and contents.

*Rooms.*  `RecordsAudited` is what makes lossy ids safe: a record exists only
with the audit row of the command that created it, and the row's id has the
same suffix.  So a command whose audit id is free creates records whose ids
are free.  With it every step has one of three shapes (`GuestStep`, `SaleStep`,
`IdleStep`): guest and cleaning steps touch at most one task and no sale
status, maintenance steps touch no task and no cleaning status.  `StopSellHolds`
and `RecordsSurviveHolds` need nothing more.  `WaitingRoomsHaveTasks` and
`FinishedTasksMeanClean` assume nothing of the calls either: a report either
writes its room and a task of that room, and brings them together, or puts both
rooms it touched among those apart.  A room seeded waiting starts apart.

*Projection.*  `HandInv` says that an item in hand belongs to an open row
whose attempts it continues, that no row is in hand twice and that an entry is no
newer than its row's state; `SentInv` that posts are attempts plus crashes;
`ToldInv` that a delivered row has a witness
among the applied versions (`WitnessInv`) and that the adapter's row of a room or
job, unless overtaken, is
never newer than an item in hand nor older than a delivered entry
(`RowInv`), because all items of one batch show the same state of a row.
`CommandAdds` states what all commands have in common, so the invariants see one
kind of command; `MarkItem` covers the marks after a post and those of
`Unmapped`.  From these follow
`PostsBounded`, `SettledStays`, `DeliveredMeansApplied` and `RowsAreNeverOlder`.

Only model-checked: `EverySettles` (liveness and `ENABLED` are out of the prover's
reach) and the two findings.  Every other property of a passing run is stated by a
theorem.  Induction over data is out of reach too; the arguments
about least and greatest days avoid it as described.

Limits.  `NoDoubleBooking` speaks of the room that was booked.  A guest checked
in to another room keeps new bookings off that room too (`RoomsHeld`, `Slept`):
that is `BookingsKeepOffHeldRooms`, and it is about bookings made while the guest is
there.  Nothing forbids the check-in itself over a booking
somebody else already has.  A guest in house whose
reservation reads as checked out, because another of its stays was closed with a
later timestamp, does not keep card confirmations and adjustments off the room;
`SleepersKeepTheirNights` is therefore about direct bookings.
`RowsKeepUp` excepts rows for which the adapter applied an aborted post late, and
asks nothing once an entry has been given up.  Of a room's row it asks only that
it is not older than the room events delivered, since no entry brings it up to
date after a cleaning report.
Confidentiality of projected fields, formatting and wording are not modelled.

## Not modelled, and the plan

- Pure reads (read models, capability manifest, dashboards), transport and
  authentication, contracts and validation, provisioning and the MCP bridge
  keep no state of the running platform.  They are listed in `PROJECT.json`.
- Storage: transactions are atomic steps and unique keys are guards; the SQL
  itself and the conversion of rows are not modelled.
- Import of a whole database state and the reset of the sandbox.
- What documents leave open is modelled but not judged: a delivered record that
  changes again, an entry given up, a room marked dirty that no entry tells of, the
  adapter's row of a room after a cleaning report, two open cleaning tasks of one
  room, tasks named across rooms, document drafts confirmed after their expiry, a
  guest in house under a reservation that reads as checked out.  The
  hazards in `PROJECT.json` name the lines.
- Fingerprints and the answers to repeated calls: which answer a used token gets
  depends on a string the client makes up.

What would come next: `FrontDesk`, the composition of `RoomCommands` with the
ledger, in which `Closed` becomes the sale status and stays are compared with
occupancy (check-out under another reservation's name is the case of interest);
an abstract specification of answered tokens (a request is carried out at most once)
implemented by every module that stores responses.
