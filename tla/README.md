# TimeTracker: a verification project in TLA+

TimeTracker is a daemon that watches which registered programs run, counts their
minutes and launches into a database, and serves the numbers over WebSocket, RPC and
a tray icon. This directory models its concurrent core in TLA+, checks the models with
TLC and proves with TLAPS every invariant that TLC checks, and two refinements. Line numbers refer to
`src/time_tracker/src/` unless a path says otherwise; `PROJECT.json` maps every
definition to its lines.

## 1. Inventory

| Component | State | Operations | Interacts with |
|---|---|---|---|
| Tracking core, `time_tracking.rs` | globals `PROCESS_MAP` (name -> two flags, a mutex) and `PAUSE` (an RwLock) | `init` loads the map and starts threads; `check_processes` (watcher) scans every few seconds; session threads count minutes; `add_process`, `delete_process`, `pause` | database; event channel; spawn channel; published status |
| Process scan, `linux.rs`, `windows.rs`, `native.rs` | none | `are_processes_running`: OS processes and aliases | watcher; alias table |
| Event loop, `seaorm_client.rs` | tables `apps`, `timeline`, `checkpoints` | four event handlers; `put_data`, `delete_data` | event channel; users' requests on the same tables |
| Checkpoint queries, `seaorm_queries.rs` | table `checkpoints` | create, activate, delete, lists | event loop, through the tables |
| Schema, `migration/`, `entities/` | the tables, the record of migrations | `Migrator::up` at every start of a process; foreign keys with cascades | all queries |
| WebSocket server, `websocket/server.rs`, `client.rs`, `broadcast.rs`, `tracking_notifier.rs` | map of clients, tracking status, broadcast channel, per client a queue and subscriptions | accept, greet, subscribe, publish, broadcast, remove | session threads and event loop publish; handlers subscribe |
| Statistics and counts, `websocket/handlers.rs` | locals of a request | `get_statistics`, `get_session_counts` | reads the tables next to the event loop |
| Request handlers, `websocket/handlers.rs` | none | dispatch of some twenty requests | all of the above |
| Entry points, `main.rs`, `rpc.rs`, `hook.rs`, tray | none | CLI `add`, RPC, global hotkeys | tracking core |
| `firebase.rs`, `structs.rs`, `args.rs`, `error.rs`, `test_client.rs` | none | conversions, an unused backend | - |
| `src/cpp/TimeTracker` | the predecessor's map | superseded | - |

What makes the code hard, and what the properties are for:

* **Locks released between look and use.** The watcher copies the keys of `PROCESS_MAP`,
  scans without the lock, and updates whatever keys there are then. `active!` tests
  `PAUSE` and drops the guard before it sends.
* **No transactions.** Every handler and request is a series of SQL statements, so ids and
  rows read in one may be stale in the next; SQLite hands out the highest deleted id again.
* **Reads in pieces.** Statistics and counts are gathered row by row while the event loop writes
  and the date changes.
* **Two processes, one file.** The daemon and `time_tracker add` migrate the same database file side by side.
* **Partial failure.** A panic with `PROCESS_MAP` locked poisons it for everyone. A failing
  statement ends a handler half way.
* **Stale clones.** A broadcast round works on a copy of the client map, and a connection is
  in that map before its sender works.
* **Ten locks, a dozen kinds of threads.** A minute is published under the `PROCESS_MAP` lock, through three more
  locks that connections, requests and the broadcaster take as well; readers may queue behind writers.
* **A crash between two statements.** Events in the channel are in memory only, and half an event may be in the tables.
* **Liveness.** Minutes must flow while an app runs; sessions must end; events must not jam.

`PROJECT.json` lists each hazard at its line with the properties that cover it, or why none does.

## 2. Modules

| Module | Models | Abstract specification |
|---|---|---|
| `Tracking` (+ `TrackingProofs`, `MCTracking`) | tracking core, scan, entry points | - |
| `Store` (+ `StoreProofs`, `LedgerProofs`) | event loop, checkpoint and app requests, cascades | `Ledger` |
| `Reports` (+ `ReportsProofs`, `MCReports`) | statistics and session counts, extends `Store` | `Store` |
| `Migrations` (+ `MigrationsProofs`) | how the tables come to exist | - |
| `Broadcast` (+ `BroadcastProofs`, `MCBroadcast`) | WebSocket server and connections | `Feed` |
| `Presence` (+ `PresenceProofs`) | session threads as publishers of the server, extends `Broadcast` | `Broadcast` |
| `Locks` (+ `LocksProofs`) | every lock call of the daemon, and who may wait for whom | - |

`Tracking` sends its events into tallies only; `Store` begins at the channel those events go
into, with any order of events the threads can produce (a minute is `Duration` then
`Timeline` with no other minute in between, since both are sent under the map's lock).
`Reports` adds connections that read in several statements to `Store`, and is composed with it:
its steps are those of `Store` and of its requests, on the same tables. `Migrations` is what happens before `Store`'s `Init`.
`Broadcast` takes the published statuses and table updates as numbered updates; `Presence` is its composition
with the session threads of `Tracking`, reduced to when they publish and what they say. `Locks` looks across all of them
at the locks that the other modules take as single steps: what it shows is that those steps do end.

### Tracking

A step is one critical section, one statement or one channel operation.

* `keys`, `fst`, `snd` are `PROCESS_MAP` with its flag pair; `poisoned` its mutex; `stored` the
  number of rows with a name; `up` what the operating system runs; `byCli` remembers which names have a row
  that the CLI wrote since the daemon started.
* Watcher: `Snapshot` (copy of the keys), `Scan` (whose alias query may fail and is then read as empty) or `ScanFails`, `Update` (all flags in one critical
  section, names appended to the spawn channel) or `UpdatePanics` (an unwrap of a missing answer).
* `Spawn` and `MainExit` are the main loop of `init`, which ends when the watcher's sender is gone.
* Session thread: `CheckLaunch`, `SendLaunch`, `Announce`, `Wake` (the sleep and the `active!` check),
  `TickMinute` / `TickBreak` / `TickNoEntry` / `TickPanics` (the critical section), `AfterBreak`,
  `CheckLongest`, `SendLongest`, `Retire`. `start` ... `tick` is "tracking".
* Callers: `AddCheck`, `PutData` / `PutFails`, `InsertEntry`; `DeleteData`, `RemoveEntry`;
  `CallerPanics` on a poisoned mutex. Callers in `Cli` are `time_tracker add`, another process.
* `Restart` is a crash and restart; it loses all but `stored`, `up` and what a CLI is doing.

### Store and Ledger

* `apps`, `checkpoints`, `timeline` are partial functions by row id. `loop` is the event
  loop's next statement with what it has read; `upc` the same for each user.
* The loop: `Receive`, `FindNone` / `FindOne`, then `WriteApp`, `ListActive`, `WriteCheckpoint` once per
  listed checkpoint; for `Timeline`, `FindEntry`, then `GrowEntry`, or `FindCover` and `StartEntry`.
  `LoopFails` is an error of the statement at hand.
* Users: `AddCheck`, `ReadMaxId`, `InsertApp`; `DeleteApp`; `CreateCheckpoint`; `SetActive`,
  `ListOthers`, `DeactivateOther`, `SetSelf`; `DeleteCheckpoint`; `RequestFails` for an error of a
  statement. `AddProcess`, `DeleteProcess`, `CreateOne`, `Switch` and `DeleteOne` are the requests made of them. Deletes cascade as the foreign keys
  of `migration/` say.
* `Crash` is the daemon dying between any two statements and starting again: the channel, the event in hand and the
  requests are lost, the tables stay as the last statement left them.
* Data is abstracted to what the counters need: names are model values, a date is a day number;
  descriptions, colours and timestamps are left out.

`Ledger` has the events not yet applied (`pending`) and an account per registered name (`book`); `Settle` applies
the oldest event whole, and its `Crash` loses `pending` and nothing else. `Store` maps to it with the event in the loop's hand counted as pending
until its first write, and the minutes of an account summed over its timeline rows. The promise has two parts: `Safety`
(`Store`'s `LedgerKept`), that the books change in no other way, and `Progress` (`EventsSettled`), that a pending event is settled in the end.

### Reports

* `req` is, per connection, the request at hand: its next statement, the apps still to do, the rows
  read, the reply so far, and a ghost `was` with the tables of the moment it came in.
* `get_statistics`: `Ask`, `ReadApps`, then per app by ascending id `ReadRows` (the query of the last `Month` days) and
  `Calculate` (which reads the date again), or `SkipApp` on an error; `Respond`.
* `get_session_counts`: `Ask`, `ReadApps`, then `CountRows` in any order (`try_join_all`); `ReadFails`
  is the first error, which ends the request; `Respond`.
* The average session length and the ten recent sessions are left out of the reply. No step of a request writes.

### Migrations

* `tables` and `recorded` are the database file; `at`, `todo` and `passes` are each process's place in
  `Migrator::up`. A daemon makes two passes (`init_client`, then `setup`), a command one.
* `Start`; `Install` (the table of records), `Status` (what is pending), then `Up` and `Record` for each
  pending migration; `Exit`. `Killed` and `StatementFails` may come between any two statements.
* SQLite runs no transaction around a pass. `Up` keeps a table that exists (`if_not_exists`);
  `Record` fails on a version another process has recorded since. The library's
  own steps are modelled from how the code uses it and are marked external.

### Broadcast and Feed

* `clients` is the map, `wired` the ids whose entry holds a sender with a receiver behind it;
  `channel` and `cast` are the broadcast channel and the round in progress with its stale clones.
* Publishers: `WriteStatus` then `SendStatus`; `SendData`. Broadcaster: `ChangeSubscription`, `Snapshot`, `Serve`
  per client, `Purge`. Connection: `Connect`, `Greet` / `GreetFails`, `Wire`, then `Push` and
  `ReadNothing` / `Request` in turns, with `PushFails` and `ReadFails`; `RemoveClient`, `DropReceiver`.
* `ClientConnected` and `ClientDisconnected` are only logged, and left out. So are replies to
  requests that read.

`Feed` publishes an update to all subscribed members in one step. The mapping counts an
update as received by a client that the round has still to serve.

### Presence

* `life` is how far each session thread has come, `says` of each update made its session and whether it tracks.
* `Start` (the announcement), `Minute` (under the lock of `PROCESS_MAP`, so one session at a time), `End` (the farewell,
  without a lock) write the status with `Broadcast`'s `WriteStatus`; `Tell` sends it. A session may start again.
* The broadcaster and the connections are `Broadcast`'s, unchanged; no other topic is published.

### Locks

* A routine is the sequence of its lock calls, each a pair: the guards alive at the call and the guard
  wanted. `Calls` lists the fourteen routines, `RunBy` the threads that run each.
* `Begin`, `Take` (when no conflicting guard is alive), `Proceed` (to a later call, or to the same one again; guards whose scope
  has ended are dropped), `Return` (after any call, for early returns).
* `MayWaitFor` is conservative: a thread may wait for whoever holds a conflicting guard, and as a reader also for a
  writer in the queue of the same RwLock, even if it has a read guard of it already. Whether the platform's RwLock lets the reader pass is left open.
* Channels are unbounded, so no send blocks; the receivers hold no lock while they wait.

## 3. Runs

| Run | Question | Instance |
|---|---|---|
| `tracking_one_app` | sessions, pauses, tallies and registrations agree in every interleaving, over a crash | 1 app, under its own name or an alias, 2 slots, RPC and CLI, 2 minutes, 2 insertions, 1 restart |
| `tracking_two_apps` | minutes flow though alias queries fail, sessions end, the status the apps share clears; a dead watcher ends the whole daemon | 2 apps under aliases, adds and deletes, pauses, fair threads, minutes not counted |
| `tracking_duplicate_rows` | *violated*: a name is registered once | 2 adders |
| `tracking_scan_panic` | *violated*: the scan answers for every key | 2 apps, an adder |
| `store_ledger` | the event loop implements the `Ledger`; every event is finished with; a crash loses nothing else; the two counters of a minute agree | 2 names, 4 events, 2 days, 1 crash |
| `store_checkpoints` | a checkpoint counts no more than its app; one is active | 1 name, 2 adders, 2 checkpoint ids, 3 events, 1 day, failing statements, 1 crash |
| `store_deletes` | no dangling row, one timeline row per app and day | deletes, re-used ids, failing statements, 1 crash |
| `reports_between` | what a reply says lies between the tables of the request and of the reply | 2 names, an adder, a reader, two minutes, 4 days, windows of 1 and 2 days, failing reads, 1 crash |
| `migrations` | past the migrations every table is there; simultaneous starts do not all fail | a daemon, 2 commands, 2 kills or errors |
| `broadcast_feed` | rounds implement the `Feed`; live connections stay registered | 2 connections, 2 topics, 2 updates |
| `presence` | each session is followed forwards; once the last has ended every client comes to know | 2 sessions, 1 connection, 4 statuses, 1 request, fair threads |
| `locks` | no set of threads waits in a circle | 4 threads: watcher, event loop and starter in turn; the broadcaster; a connection; a session, RPC caller and second connection in turn |

**Bounds.** Two slots suffice to see a second session next to a first; two insertions
are an add, a delete and another add; recorded minutes and late events saturate at `MaxMinutes`, which leaves
the comparison of `longest` with `minutes` exact up to it (`tracking_two_apps` sets it to 0, since nothing it asks depends on the tallies, and has one slot per app: the second session of an app is `tracking_one_app`'s, and so is an app under its own name, which to the daemon is one under an alias whose query never fails). In `Store` four events are two whole minutes, so
a row is started and grown, on either side of midnight; two or three ids let an id be freed
and used again. One crash is enough to cut an event
or a request at any of its statements; a second one starts from tables that a first may have left, which TLC reaches with an error as well. In `Broadcast` two connections are one that fails and one that must not
notice. In `Presence` four statuses let two sessions start and end around each other, or one end and start again; every session that is up keeps
one status in reserve for its farewell, so that the bound never silences it. In `Locks` a thread that runs the routines of several kinds in turn
stands for whichever of them the others meet, and two threads that run those of a connection meet each other; circles
of more threads, and of kinds that share one here, are left to the proof, which is about any number of each.
In `Reports` only the events of the ticks are sent (`FreeKinds`), which are all that the durations and the timeline count, and the windows of 7 and 30 days are
scaled to `Week` = 1 and `Month` = 2, so that four days have a row inside both, one inside the month only, and
one outside, with midnight between any two statements of a request. Apps, slots and connections are exchanged by symmetry where a run says so (`SYMMETRY`); no run that checks liveness does. In `Migrations` three processes are two that run into each other and one that
comes later; two mishaps are a kill and a failure at the start after it.
`OneActivePerApp` is checked with one user activating, with two the code does not keep it, and no document says it does. Statuses of
two different sessions may reach a client in the other order; `InSessionOrder` says what remains.

**Deadlock.** It is checked where the daemon runs forever, in `migrations`, where a process can always be started, and in `locks`, where it would mean that nobody can go on. The runs of `Store`, `Reports`, `Broadcast` and `Presence` set
`CHECK_DEADLOCK FALSE`: when all bounded events, ids and requests are used up the
system is at rest. So does `tracking_two_apps`, where the daemon exits.

**Fairness.** Threads that can take a step take one: weak fairness of the watcher, the main loop,
each spawn and each session thread (`Tracking`), of the event loop (`Store`, which blocks on `rx.recv` and has no
other reason to wait), of the broadcaster, each connection thread's own steps and each session's send
(`Presence`), and of each process's statements in `Migrations`. Users, peers, the machine's processes, midnight and failures are never assumed to do anything; what a liveness property needs of them
its own antecedent says: for `MinutesFlow` an app that stays registered and keeps running, no pause, and alias queries that fail only finitely often (`ScanFindsAll`),
for `StatusClears` a set of registered apps that stays as it is.

**Findings** (the *violated* runs):

1. Two simultaneous adds of one name both pass the check of `add_process` and both insert
   (`time_tracking.rs:235-253`).
2. An add during a scan makes the watcher unwrap a missing answer; the poisoned map ends
   the daemon (`time_tracking.rs:182-207`).

Seen while modelling, and not asked of any run:

* An app is deleted while it is tracked: its session thread finds no entry, which is neither a minute nor an end, and loops for ever
  (`time_tracking.rs:124`). The status may name the app although every registered app has ended; `StatusClears` says it can be no other name.
* A delete that overlaps an add of the same name, in two callers of the daemon, may leave a watched app without a row
  (`time_tracking.rs:253-281`). `WatchedIsStored` is checked with one caller inside the daemon.
* A status published between the greeting of a connection and its subscription reaches neither: until the next
  one the client shows what it was greeted with (`websocket/client.rs:57`). `EndedIsTold` is about clients subscribed before the last session ends.
* A checkpoint listed by the event loop is deleted and its id given to another app's checkpoint: the
  other one gets the old count (`seaorm_client.rs:231-255`). `CheckpointWithinApp` is checked
  where no checkpoint is deleted.
* The covering checkpoint is deleted between its lookup and the insert of the day's row: the insert
  fails on the foreign key and the minute is missing from the timeline (`seaorm_client.rs:188-202`).
* The timeline migration refers to the checkpoints table, which the next one creates. SQLite takes that; Postgres (`--features psql`)
  rejects it, so a fresh Postgres database cannot be migrated (`m20230101_000002`, line 35).

## 4. Proofs

`TrackingProofs`, `StoreProofs`, `LedgerProofs`, `ReportsProofs`, `MigrationsProofs`, `BroadcastProofs`, `PresenceProofs` and `LocksProofs` prove for every value of the constants, from the named assumptions
in the modules (finite `Slots`, `None` not an app, natural bounds):

| Theorem | Invariant | Strengthening |
|---|---|---|
| `TypeCorrect` | `TypeOK` of `Tracking`, with it that no flag stands for a name outside `PROCESS_MAP` | inductive as it stands: the watcher writes flags under the lock and for the keys it finds there, removal and insertion clear both |
| `StatusCorrect` | `StatusHasSession` | inductive with `TypeOK`: a thread that leaves `Announced` writes the status in the same step |
| `PauseCorrect` | `PauseLag` | `PauseInv`: a thread that may still send has sent nothing since the pause, and no thread that sent can send again before it re-reads `PAUSE` |
| `BudgetCorrect` | `SessionBudget` | inductive with `TypeOK`; cardinality lemmas per thread move (`LeaveShrinksLive`, `EnterGrowsLive`) |
| `LongestCorrect` | `LongestWithinMinutes` | `TallyInv`: each thread's counter is within the recorded minutes |
| `WatchedCorrect` | `WatchedIsStored`, without deletes or with one caller inside the daemon | `WatchInv`: a caller between its two writes accounts for the one name on which the database and `PROCESS_MAP` disagree, and the CLI for the rows in `byCli` |
| `OneRowCorrect` | `OneRowPerDay` | `RowsInv`: while the loop holds no row of today for the app it looked up (`FindCover`, `StartEntry`) there is none, since only the loop inserts rows and dates only move on |
| `StoreTypes` | `TypeOK` of `Store`, with it that no row refers to a row that is gone | `StoreInv`: also what the loop and a request carry from one statement to the next is typed; a delete clears or removes every row that refers to what goes (`UncoveredTypes`), and an event of the timeline is never written to an app |
| `OneActiveCorrect` | `OneActivePerApp`, for one activating user and no deletes | `SwitchInv`: from the list of the others on, every active checkpoint of the app but the user's own is still on the list, and none is left when its own is set |
| `WithinCorrect` | `CheckpointWithinApp`, without deletes | `WithinInv`: once the loop has written the app, each of its checkpoints lags behind by one, and each value listed, raised by one, still fits |
| `LedgerCorrect` | `LedgerKept`: `Store` implements `Ledger` | `KeptInv`: names are unique, what the loop and a registration have read is still so; then each statement is a stutter or one `Settle` or `Register` of the `Ledger` (`BookStep`) |
| `BalanceCorrect` | `BooksBalance` | `BalanceInv`: the ticks among the pending events alternate (`Paired`), and an app whose next one is the `Timeline` half is owed a minute (`Owed`) |
| `ReportsRefineStore` | `ReportSpec => Spec` | every step of a request leaves the variables of `Store` alone; with it every invariant of `Store` holds of `Reports` (`ReportsOneRow`) |
| `CountsCorrect` | `CountsBetween` | `CountsInv`, where nobody deletes apps: each app of the moment of the request is still to be counted or has a count between then and now; the tables only grow, since a new row's id is beyond the largest (`NextIdIsFree`, from `MaxIsLargest`, from the well-foundedness of the naturals) |
| `StatisticsCorrect` | `StatisticsBetween`, where one user adds and nobody deletes apps | `OnwardInv`: what the loop writes back is what it read plus one and no row is of a day to come, so that durations and rows only grow; `StatInv`: each app listed, the rows read of an app and each number reported stay between the tables of the request and those of now |
| `SchemaCorrect` | `ReadySchema` | `SchemaInv`: a recorded migration has made its table, and so has one that a process has not to do any more or is about to record |
| `BroadcastTypes` | `TypeOK` | - |
| `LiveCorrect` | `LiveStaysRegistered` | `RegistryInv`: an entry whose sender is not yet wired has no subscriptions, neither in the map nor in the clones of a round, so no round sends to it and none can find it failed; what a round has marked failed belongs to a connection that is gone |
| `FeedCorrect` | `FeedKept`: `Broadcast` implements `Feed` | `FeedInv`: also a connection not yet registered has been sent nothing, and a round has one copy of a client; then `ChangeSubscription` subscribes, the `Snapshot` of a round publishes, a connection that ends its loop leaves, and every other step stutters |
| `PresenceRefinesBroadcast` | `PresenceSpec => Spec` of `Broadcast` | a session that writes or sends is a publisher that does |
| `InSessionCorrect` | `InSessionOrder` | `OrderInv`: a session's updates are in order along what a client was sent, the round, the channel and the update still to be sent; a subscription in the channel is behind every update older than the greeting |
| `LocksCorrect` | `NoCircularWait` | `CallsClimb`: every lock call climbs a ladder of four rungs (`PROCESS_MAP`; `BROADCASTER`; `state`; the rest), so who may be waited for stands higher or waits for nothing |

The inductive step has one step per action, and under it one per conjunct the action can disturb.

**Hypotheses.** Three theorems ask something of the callers; each is what the run of the property assumes too, or less.

* `Serial` (`WatchedCorrect`): the daemon has no deleter, or at most one caller of its own. An add that overlaps a delete of the same name
  may leave a row that nobody watches, or a watched name without a row; the CLI may add at any time, and its rows are the exception the property names.
* `OneHand` (`LedgerCorrect`, `BalanceCorrect`): nothing is deleted, no statement fails, one user adds. A delete takes
  minutes out of the books, a failing statement drops an event half way, and two simultaneous adds register a name twice;
  the `Ledger` promises nothing then. Checkpoints may be created and switched, and the daemon may die, at any time.
* `OnlyAdding` (`StatisticsCorrect`): no app is deleted and one user adds. Checkpoints may be deleted and statements, of the loop or of a request, may fail.

**Sums.** The minutes of an app are a sum over its timeline rows, `SumFunctionOnSet`, a fold. The library's induction is out of the prover's reach
(see below), so `LedgerProofs` derives what it needs (`SumType`, `SumRemoves`, `SumGrows`, `SumBumped`) from the fold's own
equation and a counterexample of least cardinality, which the well-foundedness of the naturals gives (`LeastNumber`).

Every invariant of a passing run is stated by a theorem above, and so are the two refinements. Only model-checked is
liveness, since weak fairness and ENABLED are beyond the prover: `EventsSettled`, `MinutesFlow`, `SessionEnds`, `StatusClears`, `PoisonedEndsDaemon`, `SomeoneReady` and `EndedIsTold`. Induction over data is, too, as the
library's theorems take an operator as a parameter; no proof above depends on it.

## 5. Plan

1. Done: `Tracking`, `Store` with `Ledger` and crashes, `Reports`, `Migrations`, `Broadcast` with `Feed`, `Presence`, `Locks`, and the proofs above.
2. Next to prove: the action property behind `EventsSettled`, that a statement of the loop brings its event closer to the end; `StatisticsBetween` where deleted apps are exempt.
3. Next to model, when code grows there: replies that list after a change (`handle_create_checkpoint`).

## 6. Not modelled

* Operating-system code: foreground window, registry, version lookup, tray, audio.
* HTTP, argument and configuration parsing, serialisation, logging. Formatting of the `LongestSession` payload (`name;count`) is abstracted to
  the pair, so a name with a semicolon is outside the model, and a JSON integer to its value, so one beyond 32 bits is.
* Requests that read in one statement, and the process alias requests: one statement on a table that only the watcher reads, whose
  answer `Tracking`'s scan takes as any.
* Values of the configuration: delays are not in the models, in which a sleep may take any time. Its lock is in `Locks`.
* The Postgres engine, the down migrations, the tables of m4 to m6, which no longer exist.
* `broadcast_logger.rs` apart from the calls it wraps: log lines and statistics that nobody calls.
* `firebase.rs`, a backend nobody calls, and the C++ tracker under `src/cpp`, the superseded predecessor: neither is part of the program that runs.
