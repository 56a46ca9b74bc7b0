------------------------------- MODULE Store --------------------------------
(***************************************************************************)
(* The persistence of the daemon: the event loop of SeaORMClient, which    *)
(* applies the events of the session threads to the tables apps, timeline  *)
(* and checkpoints, and the requests that change the same tables meanwhile *)
(* (put_data, delete_data and the checkpoint queries).  None of them opens *)
(* a transaction: a step is one SQL statement or one channel operation,    *)
(* and what a statement read may be stale when a later one uses it.        *)
(***************************************************************************)
EXTENDS Naturals, Sequences, FiniteSets, Functions, FiniteSetsExt

CONSTANTS
    Names,         \* process names
    Adders,        \* users that run put_data
    Deleters,      \* users that run delete_data
    Creators,      \* users that run create_checkpoint
    Activators,    \* users that run set_checkpoint_active
    Droppers,      \* users that run delete_checkpoint
    DbErrors,      \* TRUE where any statement of the event loop may fail
    FreeKinds,     \* the kinds of event sent next to those of the ticks
    None,
    MaxId,         \* bound on the row ids of each table
    MaxDay,        \* bound on the days that pass
    MaxEvents,     \* bound on the events sent by session threads
    MaxLength,     \* bound on the minutes of a session reported
    MaxCrashes     \* bound on the times the daemon dies and starts again

ASSUME NamesAssumption == None \notin Names
ASSUME LimitsAssumption ==
    /\ MaxId \in Nat \ {0} /\ MaxDay \in Nat \ {0}
    /\ MaxEvents \in Nat /\ MaxLength \in Nat /\ MaxCrashes \in Nat
    /\ DbErrors \in BOOLEAN
    /\ FreeKinds \subseteq {"Launches", "LongestSession"}

Users == Adders \cup Deleters \cup Creators \cup Activators \cup Droppers

VARIABLES
    apps,         \* rows by id: name, duration, launches, longest
    checkpoints,  \* rows by id: app, active, duration, sessions
    timeline,     \* rows by id: app, day, minutes, checkpoint
    day,          \* the local date
    queue,        \* the event channel
    half,         \* app of the tick that has sent Duration and not yet Timeline
    sent,         \* events sent so far
    loop,         \* event loop: next step and locals
    upc,          \* users: next step and locals
    crashes       \* times the daemon has died

vars == <<apps, checkpoints, timeline, day, queue, half, sent, loop, upc, crashes>>
tables == <<apps, checkpoints, timeline>>
channel == <<queue, half, sent>>

Ids == 1 .. MaxId
Kinds == {"Launches", "Duration", "Timeline", "LongestSession"}
Lengths == 1 .. MaxLength

\* "SELECT max(id) + 1", and what SQLite assigns to an integer primary key.
NextId(table) == IF DOMAIN table = {} THEN 1 ELSE Max(DOMAIN table) + 1
Insert(table, i, row) ==
    [j \in DOMAIN table \cup {i} |-> IF j = i THEN row ELSE table[j]]
Delete(table, gone) == Restrict(table, DOMAIN table \ gone)

Named(n) == {i \in DOMAIN apps : apps[i].name = n}
ActiveOf(i) == {c \in DOMAIN checkpoints : checkpoints[c].app = i /\ checkpoints[c].active}
DayRows(i, d) == {t \in DOMAIN timeline : timeline[t].app = i /\ timeline[t].day = d}

Idle == [at |-> "idle", name |-> None, id |-> 0, val |-> 0, day |-> 0, todo |-> {}]

LoopStates == {"idle", "find", "write", "list", "each", "entry", "grow", "cover", "start"}
UserStates == {"idle", "maxid", "insert", "self", "others", "each"}

TypeOK ==
    /\ DOMAIN apps \subseteq Ids /\ DOMAIN checkpoints \subseteq Ids
    /\ DOMAIN timeline \subseteq Ids
    /\ \A i \in DOMAIN apps :
          apps[i] \in [name : Names, duration : Nat, launches : Nat, longest : Nat]
    /\ \A c \in DOMAIN checkpoints :
          checkpoints[c] \in [app : DOMAIN apps, active : BOOLEAN, duration : Nat,
                              sessions : Nat]
    /\ \A t \in DOMAIN timeline :
          timeline[t] \in [app : DOMAIN apps, day : 1 .. MaxDay, minutes : Nat,
                           checkpoint : DOMAIN checkpoints \cup {0}]
    /\ day \in 1 .. MaxDay
    /\ half \in Names \cup {None}
    /\ sent \in 0 .. MaxEvents
    /\ loop.at \in LoopStates
    /\ \A u \in Users : upc[u].at \in UserStates
    /\ crashes \in 0 .. MaxCrashes

\* The daemon starts on the tables it finds.
Booted == [at |-> "idle", kind |-> "Launches", name |-> None, n |-> 0,
           id |-> 0, val |-> 0, day |-> 0, todo |-> {}]

Init ==
    /\ apps = << >> /\ checkpoints = << >> /\ timeline = << >>
    /\ day = 1
    /\ queue = << >> /\ half = None /\ sent = 0
    /\ loop = Booted
    /\ upc = [u \in Users |-> Idle]
    /\ crashes = 0

(***************************************************************************)
(* The session threads, seen from the channel: Duration and Timeline of a  *)
(* tick are two sends under the PROCESS_MAP lock, so no other tick comes   *)
(* between them; Launches and LongestSession are sent without the lock.    *)
(***************************************************************************)
Send(kind, name, n) ==
    /\ sent' = sent + 1
    /\ queue' = Append(queue, [kind |-> kind, name |-> name, n |-> n])

SendFree(name) ==
    /\ sent + (IF half = None THEN 0 ELSE 1) < MaxEvents
    /\ \/ "Launches" \in FreeKinds /\ Send("Launches", name, 0)
       \/ "LongestSession" \in FreeKinds /\ \E n \in Lengths : Send("LongestSession", name, n)
    /\ UNCHANGED <<tables, day, half, loop, upc, crashes>>

SendDuration(name) ==
    /\ half = None
    /\ sent + 2 <= MaxEvents
    /\ Send("Duration", name, 0)
    /\ half' = name
    /\ UNCHANGED <<tables, day, loop, upc, crashes>>

SendTimeline ==
    /\ half # None
    /\ Send("Timeline", half, 0)
    /\ half' = None
    /\ UNCHANGED <<tables, day, loop, upc, crashes>>

Midnight ==
    /\ day < MaxDay
    /\ day' = day + 1
    /\ UNCHANGED <<tables, channel, loop, upc, crashes>>

(***************************************************************************)
(* The event loop: init_event_loop and its four handlers.                  *)
(***************************************************************************)
Finish == loop' = [loop EXCEPT !.at = "idle", !.name = None, !.n = 0, !.id = 0,
                               !.val = 0, !.day = 0, !.todo = {}]
Proceed(at, id, val) == loop' = [loop EXCEPT !.at = at, !.id = id, !.val = val]

Receive ==
    /\ loop.at = "idle"
    /\ queue # << >>
    /\ loop' = [loop EXCEPT !.at = "find", !.kind = Head(queue).kind,
                            !.name = Head(queue).name, !.n = Head(queue).n]
    /\ queue' = Tail(queue)
    /\ UNCHANGED <<tables, day, half, sent, upc, crashes>>

\* Mutant: an event for a name nobody registered is held until somebody does.
FindNoneWaits ==
    /\ loop.at = "find"
    /\ Named(loop.name) = {}
    /\ UNCHANGED vars

\* No row carries the name: the event is dropped.
FindNone ==
    /\ loop.at = "find"
    /\ Named(loop.name) = {}
    /\ Finish
    /\ UNCHANGED <<tables, day, channel, upc, crashes>>

\* The row found, and the column the handler will write back from.
ReadColumn(row) ==
    CASE loop.kind = "Duration"       -> row.duration
      [] loop.kind = "Launches"       -> row.launches
      [] loop.kind = "LongestSession" -> row.longest
      [] loop.kind = "Timeline"       -> 0

FindOne ==
    /\ loop.at = "find"
    /\ \E i \in Named(loop.name) :
          IF loop.kind = "LongestSession" /\ loop.n <= apps[i].longest
          THEN Finish
          ELSE loop' = [loop EXCEPT !.at = IF loop.kind = "Timeline" THEN "entry" ELSE "write",
                                    !.id = i, !.val = ReadColumn(apps[i]),
                                    !.day = IF loop.kind = "Timeline" THEN day ELSE 0]
    /\ UNCHANGED <<tables, day, channel, upc, crashes>>

\* Mutant: the longest session is added up instead of compared.
WrittenSum(row) ==
    CASE loop.kind = "Duration"       -> [row EXCEPT !.duration = loop.val + 1]
      [] loop.kind = "Launches"       -> [row EXCEPT !.launches = loop.val + 1]
      [] loop.kind = "LongestSession" -> [row EXCEPT !.longest = loop.val + loop.n]

\* "UPDATE apps SET column WHERE id": the other columns are left alone.
Written(row) ==
    CASE loop.kind = "Duration"       -> [row EXCEPT !.duration = loop.val + 1]
      [] loop.kind = "Launches"       -> [row EXCEPT !.launches = loop.val + 1]
      [] loop.kind = "LongestSession" -> [row EXCEPT !.longest = loop.n]

WriteApp ==
    /\ loop.at = "write"
    /\ IF loop.id \in DOMAIN apps
       THEN /\ apps' = [apps EXCEPT ![loop.id] = Written(@)]
            /\ IF loop.kind = "LongestSession" THEN Finish ELSE Proceed("list", loop.id, 0)
       ELSE Finish /\ UNCHANGED apps
    /\ UNCHANGED <<checkpoints, timeline, day, channel, upc, crashes>>

\* update_checkpoint_durations and _sessions: the active checkpoints with the
\* column as listed, then one update after the other, newest id first.
CheckpointColumn(row) == IF loop.kind = "Duration" THEN row.duration ELSE row.sessions

ListActive ==
    /\ loop.at = "list"
    /\ IF ActiveOf(loop.id) = {}
       THEN Finish
       ELSE loop' = [loop EXCEPT !.at = "each",
                                 !.todo = {<<c, CheckpointColumn(checkpoints[c])>> :
                                              c \in ActiveOf(loop.id)}]
    /\ UNCHANGED <<tables, day, channel, upc, crashes>>

Newest(todo) == CHOOSE e \in todo : \A f \in todo : f[1] <= e[1]

\* A listed checkpoint that is gone is skipped.
WriteCheckpoint ==
    /\ loop.at = "each"
    /\ LET e == Newest(loop.todo)
           c == e[1]
           bumped == e[2] + 1
       IN  /\ checkpoints' =
                 IF c \notin DOMAIN checkpoints THEN checkpoints
                 ELSE IF loop.kind = "Duration"
                      THEN [checkpoints EXCEPT ![c].duration = bumped]
                      ELSE [checkpoints EXCEPT ![c].sessions = bumped]
           /\ IF loop.todo = {e} THEN Finish ELSE loop' = [loop EXCEPT !.todo = @ \ {e}]
    /\ UNCHANGED <<apps, timeline, day, channel, upc, crashes>>

\* Mutant: today's row counts only while the checkpoint it started under is active.
FindEntryCovered ==
    /\ loop.at = "entry"
    /\ LET rows == {t \in DayRows(loop.id, loop.day) :
                       timeline[t].checkpoint \in ActiveOf(loop.id) \cup {0}} IN
          IF rows = {} THEN Proceed("cover", loop.id, 0)
          ELSE \E t \in rows : Proceed("grow", t, timeline[t].minutes)
    /\ UNCHANGED <<tables, day, channel, upc, crashes>>

\* handle_timeline: today's row of the app grows, or is started.
FindEntry ==
    /\ loop.at = "entry"
    /\ LET rows == DayRows(loop.id, loop.day) IN
          IF rows = {} THEN Proceed("cover", loop.id, 0)
          ELSE \E t \in rows : Proceed("grow", t, timeline[t].minutes)
    /\ UNCHANGED <<tables, day, channel, upc, crashes>>

GrowEntry ==
    /\ loop.at = "grow"
    /\ timeline' = IF loop.id \in DOMAIN timeline
                   THEN [timeline EXCEPT ![loop.id].minutes = loop.val + 1]
                   ELSE timeline
    /\ Finish
    /\ UNCHANGED <<apps, checkpoints, day, channel, upc, crashes>>

\* get_first_active_checkpoint_id
FindCover ==
    /\ loop.at = "cover"
    /\ Proceed("start", loop.id,
               IF ActiveOf(loop.id) = {} THEN 0 ELSE Max(ActiveOf(loop.id)))
    /\ UNCHANGED <<tables, day, channel, upc, crashes>>

\* Mutant: a new row starts at zero minutes.
StartEntryEmpty ==
    /\ loop.at = "start"
    /\ NextId(timeline) \in Ids
    /\ timeline' = IF loop.id \in DOMAIN apps /\ loop.val \in DOMAIN checkpoints \cup {0}
                   THEN Insert(timeline, NextId(timeline),
                               [app |-> loop.id, day |-> loop.day, minutes |-> 0,
                                checkpoint |-> loop.val])
                   ELSE timeline
    /\ Finish
    /\ UNCHANGED <<apps, checkpoints, day, channel, upc, crashes>>

\* The insert fails when a row it refers to is gone.  The id was read two
\* statements earlier; nobody else inserts here, so it is still free.
StartEntry ==
    /\ loop.at = "start"
    /\ NextId(timeline) \in Ids
    /\ timeline' = IF loop.id \in DOMAIN apps /\ loop.val \in DOMAIN checkpoints \cup {0}
                   THEN Insert(timeline, NextId(timeline),
                               [app |-> loop.id, day |-> loop.day, minutes |-> 1,
                                checkpoint |-> loop.val])
                   ELSE timeline
    /\ Finish
    /\ UNCHANGED <<apps, checkpoints, day, channel, upc, crashes>>

\* Mutant: the checkpoints are updated although the app's row was not.
LoopFailsOnward ==
    /\ DbErrors
    /\ loop.at # "idle"
    /\ CASE loop.at = "write" -> Proceed("list", loop.id, 0)
         [] loop.at = "cover" -> Proceed("start", loop.id, 0)
         [] OTHER -> Finish
    /\ UNCHANGED <<tables, day, channel, upc, crashes>>

\* Any statement may fail: the handler logs it and gives up, except that one
\* checkpoint's error leaves the others and an unread cover counts as none.
LoopFails ==
    /\ DbErrors
    /\ loop.at # "idle"
    /\ CASE loop.at = "each" /\ Cardinality(loop.todo) > 1 ->
              loop' = [loop EXCEPT !.todo = @ \ {Newest(@)}]
         [] loop.at = "cover" -> Proceed("start", loop.id, 0)
         [] OTHER -> Finish
    /\ UNCHANGED <<tables, day, channel, upc, crashes>>

Handle ==
    \/ FindNone \/ FindOne \/ WriteApp
    \/ ListActive \/ WriteCheckpoint
    \/ FindEntry \/ GrowEntry \/ FindCover \/ StartEntry

(***************************************************************************)
(* The requests: add_process up to put_data, delete_data, and the          *)
(* checkpoint queries.                                                     *)
(***************************************************************************)
At(u, here) == upc[u].at = here
Reply(u) == upc' = [upc EXCEPT ![u] = Idle]
Continue(u, locals) == upc' = [upc EXCEPT ![u] = locals]

\* add_process: the name is not listed yet.
AddCheck(u, n) ==
    /\ u \in Adders /\ At(u, "idle")
    /\ Named(n) = {}
    /\ Continue(u, [Idle EXCEPT !.at = "maxid", !.name = n])
    /\ UNCHANGED <<tables, day, channel, loop, crashes>>

ReadMaxId(u) ==
    /\ At(u, "maxid")
    /\ NextId(apps) \in Ids
    /\ Continue(u, [upc[u] EXCEPT !.at = "insert", !.id = NextId(apps)])
    /\ UNCHANGED <<tables, day, channel, loop, crashes>>

\* An id taken meanwhile is a primary key conflict: put_data returns the error.
InsertApp(u) ==
    /\ At(u, "insert")
    /\ apps' = IF upc[u].id \in DOMAIN apps THEN apps
               ELSE Insert(apps, upc[u].id, [name |-> upc[u].name, duration |-> 0,
                                             launches |-> 0, longest |-> 0])
    /\ Reply(u)
    /\ UNCHANGED <<checkpoints, timeline, day, channel, loop, crashes>>

\* Rows of a deleted checkpoint keep their minutes (SET NULL).
Uncovered(rows, gone) ==
    [t \in DOMAIN rows |-> IF rows[t].checkpoint \in gone
                           THEN [rows[t] EXCEPT !.checkpoint = 0] ELSE rows[t]]

\* Mutant: the timeline has no foreign key to the apps.
DeleteAppOnly(u, n) ==
    /\ u \in Deleters /\ At(u, "idle")
    /\ LET gone == {c \in DOMAIN checkpoints : checkpoints[c].app \in Named(n)} IN
          /\ checkpoints' = Delete(checkpoints, gone)
          /\ timeline' = Uncovered(timeline, gone)
    /\ apps' = Delete(apps, Named(n))
    /\ UNCHANGED <<day, channel, loop, upc, crashes>>

\* delete_data, and what the foreign keys of its rows cascade to.
DeleteApp(u, n) ==
    /\ u \in Deleters /\ At(u, "idle")
    /\ LET gone == {c \in DOMAIN checkpoints : checkpoints[c].app \in Named(n)} IN
          /\ checkpoints' = Delete(checkpoints, gone)
          /\ timeline' = Uncovered(Delete(timeline, {t \in DOMAIN timeline :
                                             timeline[t].app \in Named(n)}), gone)
    /\ apps' = Delete(apps, Named(n))
    /\ UNCHANGED <<day, channel, loop, upc, crashes>>

CreateCheckpoint(u, i) ==
    /\ u \in Creators /\ At(u, "idle")
    /\ i \in DOMAIN apps
    /\ NextId(checkpoints) \in Ids
    /\ checkpoints' = Insert(checkpoints, NextId(checkpoints),
                             [app |-> i, active |-> FALSE, duration |-> 0, sessions |-> 0])
    /\ UNCHANGED <<apps, timeline, day, channel, loop, upc, crashes>>

\* Mutant: activating leaves the app's other checkpoints as they are.
SetActiveAlone(u, c, on) ==
    /\ u \in Activators /\ At(u, "idle")
    /\ c \in DOMAIN checkpoints
    /\ Continue(u, [Idle EXCEPT !.at = "self", !.id = c, !.val = IF on THEN 1 ELSE 0])
    /\ UNCHANGED <<tables, day, channel, loop, crashes>>

\* set_checkpoint_active reads the checkpoint first; day holds no date here, val
\* the flag, and todo the other checkpoints to deactivate.
SetActive(u, c, on) ==
    /\ u \in Activators /\ At(u, "idle")
    /\ c \in DOMAIN checkpoints
    /\ Continue(u, [Idle EXCEPT !.at = IF on THEN "others" ELSE "self",
                                !.id = c, !.val = IF on THEN 1 ELSE 0,
                                !.day = checkpoints[c].app])
    /\ UNCHANGED <<tables, day, channel, loop, crashes>>

ListOthers(u) ==
    /\ At(u, "others")
    /\ LET others == ActiveOf(upc[u].day) \ {upc[u].id} IN
          Continue(u, [upc[u] EXCEPT !.at = IF others = {} THEN "self" ELSE "each",
                                     !.todo = others])
    /\ UNCHANGED <<tables, day, channel, loop, crashes>>

\* Updating a row that is gone is an error, which ends the request half done.
DeactivateOther(u) ==
    /\ At(u, "each")
    /\ \E c \in upc[u].todo :
          IF c \in DOMAIN checkpoints
          THEN /\ checkpoints' = [checkpoints EXCEPT ![c].active = FALSE]
               /\ Continue(u, [upc[u] EXCEPT !.at = IF upc[u].todo = {c} THEN "self" ELSE @,
                                             !.todo = @ \ {c}])
          ELSE Reply(u) /\ UNCHANGED checkpoints
    /\ UNCHANGED <<apps, timeline, day, channel, loop, crashes>>

SetSelf(u) ==
    /\ At(u, "self")
    /\ checkpoints' = IF upc[u].id \in DOMAIN checkpoints
                      THEN [checkpoints EXCEPT ![upc[u].id].active = upc[u].val = 1]
                      ELSE checkpoints
    /\ Reply(u)
    /\ UNCHANGED <<apps, timeline, day, channel, loop, crashes>>

DeleteCheckpoint(u, c) ==
    /\ u \in Droppers /\ At(u, "idle")
    /\ c \in DOMAIN checkpoints
    /\ checkpoints' = Delete(checkpoints, {c})
    /\ timeline' = Uncovered(timeline, {c})
    /\ UNCHANGED <<apps, day, channel, loop, upc, crashes>>

\* A statement of a request fails, and with it the rest of the request.
RequestFails(u) ==
    /\ DbErrors /\ ~At(u, "idle")
    /\ Reply(u)
    /\ UNCHANGED <<tables, day, channel, loop, crashes>>

\* The requests, each with its statements, and their dispatch.
AddProcess(u) ==
    (\E n \in Names : AddCheck(u, n)) \/ ReadMaxId(u) \/ InsertApp(u)
DeleteProcess(u) == \E n \in Names : DeleteApp(u, n)
CreateOne(u) == \E i \in Ids : CreateCheckpoint(u, i)
DeleteOne(u) == \E c \in Ids : DeleteCheckpoint(u, c)
Switch(u) ==
    \/ \E c \in Ids, on \in BOOLEAN : SetActive(u, c, on)
    \/ ListOthers(u) \/ DeactivateOther(u) \/ SetSelf(u)

User(u) ==
    \/ AddProcess(u) \/ DeleteProcess(u)
    \/ CreateOne(u) \/ DeleteOne(u) \/ Switch(u)
    \/ RequestFails(u)

-----------------------------------------------------------------------------
Sender == (\E n \in Names : SendFree(n) \/ SendDuration(n)) \/ SendTimeline

\* The daemon dies and starts again: what was sent and not applied is lost, and
\* an event or a request stays as far as its last statement took it.
Crash ==
    /\ crashes < MaxCrashes
    /\ crashes' = crashes + 1
    /\ queue' = << >> /\ half' = None
    /\ loop' = Booted
    /\ upc' = [u \in Users |-> Idle]
    /\ UNCHANGED <<tables, day, sent>>

Work ==
    \/ Sender
    \/ Midnight
    \/ Receive \/ Handle \/ LoopFails
    \/ \E u \in Users : User(u)

Next == Work \/ Crash

\* The event loop thread is scheduled; nothing is assumed of anyone else.
Fairness == WF_vars(Receive \/ Handle)

Spec == Init /\ [][Next]_vars
FairSpec == Spec /\ Fairness

-----------------------------------------------------------------------------
MinutesColumn(rows) == [t \in DOMAIN rows |-> rows[t].minutes]
MinutesOf(i) ==
    SumFunctionOnSet(MinutesColumn(timeline), {t \in DOMAIN timeline : timeline[t].app = i})

\* The events sent and not settled: those in the channel and the one that has
\* not reached its first write to an app or timeline row.
InHand == loop.at \in {"find", "write", "entry", "grow", "cover", "start"}
Event == [kind |-> loop.kind, name |-> loop.name, n |-> loop.n]
Pending == IF InHand THEN <<Event>> \o queue ELSE queue

Registered == {apps[i].name : i \in DOMAIN apps}
Book ==
    [n \in Registered |->
        LET i == CHOOSE j \in DOMAIN apps : apps[j].name = n IN
            [duration |-> apps[i].duration, launches |-> apps[i].launches,
             longest |-> apps[i].longest, minutes |-> MinutesOf(i)]]

Books == INSTANCE Ledger WITH pending <- Pending, book <- Book

(***************************************************************************)
(* Where nobody deletes, one caller adds and no statement fails, the four  *)
(* handlers with all their statements amount to the Ledger: every event    *)
(* is applied at most once, in order, whole, to the columns it is about,   *)
(* and nothing else changes them (the event loop of SeaORMClient).         *)
(***************************************************************************)
LedgerKept == Books!Safety

(***************************************************************************)
(* An event sent does not wait for ever: a name nobody registered, a name  *)
(* registered meanwhile or the checkpoints to update never hold up the     *)
(* events behind it (the event loop of SeaORMClient).                      *)
(***************************************************************************)
EventsSettled == Books!Progress

(***************************************************************************)
(* The two counters a minute goes to, apps.duration and the timeline row   *)
(* of the day, are settled back to back: midnight, other apps and requests *)
(* never set them apart for good.  A registration between the two costs    *)
(* the app's duration one minute, and a crash its timeline one at most     *)
(* (handle_duration, handle_timeline).                                     *)
(***************************************************************************)
BooksBalance ==
    \A i \in DOMAIN apps :
        /\ apps[i].duration <= MinutesOf(i) + 1 + crashes
        /\ MinutesOf(i) <= apps[i].duration + 1

(***************************************************************************)
(* The minutes of a checkpoint are a part of the minutes of its app: the   *)
(* loop writes the app first and gives up on the checkpoints when that     *)
(* write fails (handle_duration).                                          *)
(***************************************************************************)
DurationWithinApp ==
    \A c \in DOMAIN checkpoints :
        checkpoints[c].duration <= apps[checkpoints[c].app].duration

(***************************************************************************)
(* The same of its sessions, which follow the launches of the app          *)
(* (handle_duration, handle_launches).                                     *)
(***************************************************************************)
CheckpointWithinApp ==
    /\ DurationWithinApp
    /\ \A c \in DOMAIN checkpoints :
          checkpoints[c].sessions <= apps[checkpoints[c].app].launches

(***************************************************************************)
(* An app has at most one active checkpoint: activating one deactivates    *)
(* the others before, though every update is a statement of its own        *)
(* (set_checkpoint_active, with one user activating at a time).            *)
(***************************************************************************)
OneActivePerApp ==
    \A c, e \in DOMAIN checkpoints :
        /\ checkpoints[c].app = checkpoints[e].app
        /\ checkpoints[c].active /\ checkpoints[e].active
        => c = e

(***************************************************************************)
(* An app has one timeline row per day, though the row is looked up and    *)
(* inserted in separate statements, at midnight, while the app is deleted  *)
(* and added again, and when statements fail (handle_timeline).            *)
(***************************************************************************)
OneRowPerDay ==
    \A s, t \in DOMAIN timeline :
        timeline[s].app = timeline[t].app /\ timeline[s].day = timeline[t].day => s = t

=============================================================================
