------------------------------ MODULE Tracking ------------------------------
(***************************************************************************)
(* The tracking core of the daemon (time_tracking.rs): the PROCESS_MAP and *)
(* PAUSE globals, the watcher thread of check_processes, the spawn loop    *)
(* and the session threads of init, and the callers of add_process,        *)
(* delete_process and pause (RPC, WebSocket, keyboard hook, tray, CLI).    *)
(* A step is one critical section, one database statement or one channel   *)
(* operation; the sleeps between them are the scheduling.                  *)
(***************************************************************************)
EXTENDS Naturals, FiniteSets

CONSTANTS
    Apps,         \* process names a user may register
    Slots,        \* session threads an app can have at the same time
    Adders,       \* callers that may run add_process
    Deleters,     \* callers that may run delete_process
    Cli,          \* the adders that are `time_tracker add` in a process of their own
    Ways,         \* how an app may run: "down", "exe" (own name), "alias"
    MayPause,     \* TRUE where the user may pause tracking
    ScanErrors,   \* TRUE where are_processes_running may fail (Windows)
    None,         \* current_app: None
    MaxMinutes,   \* recorded minutes and late events are counted up to this bound (0: not counted)
    MaxInserts,   \* bound on PROCESS_MAP insertions per app and daemon run
    MaxRestarts   \* bound on crashes and restarts of the daemon

ASSUME SlotsAssumption == IsFiniteSet(Slots)
ASSUME NoneAssumption == None \notin Apps
ASSUME CliAssumption == Cli \subseteq Adders /\ Cli \cap Deleters = {}
ASSUME BoundsAssumption ==
    /\ MaxMinutes \in Nat
    /\ MaxInserts \in Nat
    /\ MaxRestarts \in Nat

ASSUME EnvironmentAssumption ==
    /\ "down" \in Ways /\ Ways \subseteq {"down", "exe", "alias"}
    /\ MayPause \in BOOLEAN
    /\ ScanErrors \in BOOLEAN

Callers == Adders \cup Deleters

VARIABLES
    stored,     \* apps rows in the database carrying each name
    byCli,      \* apps with a row the CLI wrote since the daemon started
    keys,       \* the key set of PROCESS_MAP
    fst,        \* first flag of an entry: the last scan saw the process
    snd,        \* second flag of an entry: a session thread was asked for
    poisoned,   \* the PROCESS_MAP mutex is poisoned by a panic
    paused,     \* PAUSE
    up,         \* operating system: how each app runs, if it does
    wpc,        \* watcher: next step
    snap,       \* watcher: app_names, the keys it copied
    seen,       \* watcher: the names the scan found running
    spawn,      \* names in the spawn channel, counted per app
    pc,         \* session threads: next step
    count,      \* session threads: counter
    late,       \* events a session thread sent since the pause began
    minutes,    \* Duration events sent per app
    longest,    \* largest LongestSession value sent per app
    status,     \* ServerState.tracking_status.current_app
    inserts,    \* PROCESS_MAP insertions per app in this daemon run
    cpc,        \* callers: next step and the app they work on
    daemon,     \* the daemon process
    restarts

entries  == <<keys, fst, snd>>
watcher  == <<wpc, snap, seen>>
sessions == <<pc, count, late>>
tally    == <<minutes, longest>>
vars == <<stored, byCli, entries, poisoned, paused, up, watcher, spawn, sessions,
          tally, status, inserts, cpc, daemon, restarts>>

Bump(n) == IF n < MaxMinutes THEN n + 1 ELSE n

SessionStates == {"idle", "start", "launch", "announce", "sleep", "tick",
                  "stop", "longest", "retire"}
\* A thread is tracking from its spawn until its loop breaks.
Tracking == {"start", "launch", "announce", "sleep", "tick"}
\* It has announced itself, and not yet announced its end.
Announced == {"sleep", "tick", "stop", "longest", "retire"}

Live(p) == {k \in Slots : pc[p][k] \in Tracking}
Stored == {p \in Apps : stored[p] > 0}
AtRest == [at |-> "idle", app |-> None]
CallerStates == {AtRest} \cup [at : {"put", "insert", "remove"}, app : Apps]

\* Types, and the shape of the data: a scan answers for the names it was asked
\* for, and a flag stands only in an entry of PROCESS_MAP.  (check_processes 205-216.)
TypeOK ==
    /\ stored \in [Apps -> Nat]
    /\ byCli \subseteq Apps
    /\ keys \subseteq Apps
    /\ fst \in [Apps -> BOOLEAN]
    /\ snd \in [Apps -> BOOLEAN]
    /\ poisoned \in BOOLEAN
    /\ paused \in BOOLEAN
    /\ up \in [Apps -> Ways]
    /\ wpc \in {"snap", "scan", "update", "dead"}
    /\ snap \subseteq Apps
    /\ spawn \in [Apps -> Nat]
    /\ pc \in [Apps -> [Slots -> SessionStates]]
    /\ count \in [Apps -> [Slots -> 0 .. MaxMinutes]]
    /\ late \in [Apps -> [Slots -> Nat]]
    /\ minutes \in [Apps -> 0 .. MaxMinutes]
    /\ longest \in [Apps -> 0 .. MaxMinutes]
    /\ status \in Apps \cup {None}
    /\ inserts \in [Apps -> Nat]
    /\ cpc \in [Callers -> CallerStates]
    /\ daemon \in {"running", "exited"}
    /\ restarts \in Nat
    /\ seen \subseteq IF wpc = "update" THEN snap ELSE {}
    /\ \A p \in Apps : fst[p] \/ snd[p] => p \in keys

(***************************************************************************)
(* Start of the daemon: init loads PROCESS_MAP from the database before it *)
(* starts any thread.                                                      *)
(***************************************************************************)
Off == [p \in Apps |-> FALSE]
Zero == [p \in Apps |-> 0]
Zeroes == [p \in Apps |-> [k \in Slots |-> 0]]
NoThread == [p \in Apps |-> [k \in Slots |-> "idle"]]
LoadedOnce == [p \in Apps |-> IF p \in Stored THEN 1 ELSE 0]

Init ==
    /\ stored \in [Apps -> {0, 1}] /\ byCli = {}
    /\ up = [p \in Apps |-> "down"]
    /\ cpc = [c \in Callers |-> AtRest]
    /\ restarts = 0
    /\ daemon = "running"
    /\ keys = Stored /\ fst = Off /\ snd = Off /\ poisoned = FALSE
    /\ paused = FALSE
    /\ wpc = "snap" /\ snap = {} /\ seen = {}
    /\ spawn = Zero
    /\ pc = NoThread /\ count = Zeroes /\ late = Zeroes
    /\ minutes = Zero /\ longest = Zero
    /\ status = None
    /\ inserts = LoadedOnce

(***************************************************************************)
(* The watcher thread: check_processes.                                    *)
(***************************************************************************)
\* Mutant: scan only for the apps that are not tracked yet.
SnapshotUntracked ==
    /\ wpc = "snap"
    /\ snap' = {p \in keys : ~snd[p]}
    /\ wpc' = "scan"
    /\ UNCHANGED <<stored, byCli, entries, poisoned, paused, up, seen, spawn,
                   sessions, tally, status, inserts, cpc, daemon, restarts>>

\* app_names is copied under the lock, which is then released.
Snapshot ==
    /\ wpc = "snap"
    /\ snap' = keys
    /\ wpc' = "scan"
    /\ UNCHANGED <<stored, byCli, entries, poisoned, paused, up, seen, spawn,
                   sessions, tally, status, inserts, cpc, daemon, restarts>>

\* are_processes_running: an app runs under its own name or under an alias,
\* and the aliases are an empty map when their query fails.
UnderAlias(aliasesRead) == {p \in snap : up[p] = "alias" /\ aliasesRead}
Running(aliasesRead) == {p \in snap : up[p] = "exe"} \cup UnderAlias(aliasesRead)

\* Mutant: a failed alias query is unwrapped, and the watcher dies of it.
ScanUnwraps ==
    /\ wpc = "scan"
    /\ \E aliasesRead \in BOOLEAN :
          /\ seen' = IF snap = {} \/ ~aliasesRead THEN {} ELSE Running(TRUE)
          /\ wpc' = IF ~aliasesRead THEN "dead" ELSE IF snap = {} THEN "snap" ELSE "update"
    /\ UNCHANGED <<stored, byCli, entries, poisoned, paused, up, snap, spawn,
                   sessions, tally, status, inserts, cpc, daemon, restarts>>

Scan ==
    /\ wpc = "scan"
    /\ \E aliasesRead \in BOOLEAN :
          seen' = IF snap = {} THEN {} ELSE Running(aliasesRead)
    /\ wpc' = IF snap = {} THEN "snap" ELSE "update"
    /\ UNCHANGED <<stored, byCli, entries, poisoned, paused, up, snap, spawn,
                   sessions, tally, status, inserts, cpc, daemon, restarts>>

\* The locals of one iteration go out of scope.
Forget == snap' = {} /\ seen' = {}

ScanFails ==
    /\ ScanErrors
    /\ wpc = "scan"
    /\ wpc' = "snap"
    /\ Forget
    /\ UNCHANGED <<stored, byCli, entries, poisoned, paused, up, spawn,
                   sessions, tally, status, inserts, cpc, daemon, restarts>>

\* Mutants: respawn whatever runs; never clear the flag of a process that ended;
\* write the answers back for names that were removed during the scan as well.
RisingAlways == keys \cap seen
ScanFlagsSticky == [p \in Apps |-> fst[p] \/ p \in keys \cap seen]
ScanFlagsOfAnswers == [p \in Apps |-> p \in seen]

\* The critical section that writes the flags, and the sends that follow it.
ScanFlags == [p \in Apps |-> p \in keys \cap seen]
Rising == {p \in keys \cap seen : ~snd[p]}

Update ==
    /\ wpc = "update"
    /\ keys \subseteq snap
    /\ fst' = ScanFlags
    /\ snd' = [p \in Apps |-> snd[p] \/ p \in Rising]
    /\ spawn' = [p \in Apps |-> IF p \in Rising THEN spawn[p] + 1 ELSE spawn[p]]
    /\ wpc' = "snap"
    /\ Forget
    /\ UNCHANGED <<stored, byCli, keys, poisoned, paused, up, sessions, tally,
                   status, inserts, cpc, daemon, restarts>>

\* `*m.get(p).unwrap()` on a key the scan does not know: the thread dies with
\* the lock held and the spawn channel loses its only sender.
UpdatePanics ==
    /\ wpc = "update"
    /\ ~ (keys \subseteq snap)
    /\ wpc' = "dead"
    /\ poisoned' = TRUE
    /\ Forget
    /\ UNCHANGED <<stored, byCli, entries, paused, up, spawn, sessions,
                   tally, status, inserts, cpc, daemon, restarts>>

(***************************************************************************)
(* The main thread: the receive loop of init, and its return.              *)
(***************************************************************************)
Spawn(p, k) ==
    /\ spawn[p] > 0
    /\ pc[p][k] = "idle"
    /\ spawn' = [spawn EXCEPT ![p] = @ - 1]
    /\ pc' = [pc EXCEPT ![p][k] = "start"]
    /\ UNCHANGED <<stored, byCli, entries, poisoned, paused, up, watcher, count, late,
                   tally, status, inserts, cpc, daemon, restarts>>

\* Mutant: init joins its session threads before it returns.
MainExitJoins ==
    /\ daemon = "running"
    /\ wpc = "dead"
    /\ \A p \in Apps : spawn[p] = 0 /\ \A k \in Slots : pc[p][k] = "idle"
    /\ daemon' = "exited"
    /\ pc' = NoThread /\ count' = Zeroes /\ late' = Zeroes
    /\ status' = None
    /\ cpc' = [c \in Callers |-> IF c \in Cli THEN cpc[c] ELSE AtRest]
    /\ UNCHANGED <<stored, byCli, entries, poisoned, paused, up, watcher, spawn, tally,
                   inserts, restarts>>

\* recv fails once the sender is gone and the channel empty; init returns and
\* the process ends with every thread in it.
MainExit ==
    /\ daemon = "running"
    /\ wpc = "dead"
    /\ \A p \in Apps : spawn[p] = 0
    /\ daemon' = "exited"
    /\ pc' = NoThread /\ count' = Zeroes /\ late' = Zeroes
    /\ status' = None
    /\ cpc' = [c \in Callers |-> IF c \in Cli THEN cpc[c] ELSE AtRest]
    /\ UNCHANGED <<stored, byCli, entries, poisoned, paused, up, watcher, spawn, tally,
                   inserts, restarts>>

(***************************************************************************)
(* A session thread: the closure init spawns.  `active!` reads PAUSE and   *)
(* drops the guard before its body runs, so check and body are two steps.  *)
(***************************************************************************)
At(p, k, here) == pc[p][k] = here
Goto(p, k, there) == pc' = [pc EXCEPT ![p][k] = there]
MarkLate(p, k) == late' = IF paused THEN [late EXCEPT ![p][k] = Bump(@)] ELSE late

CheckLaunch(p, k) ==
    /\ At(p, k, "start")
    /\ Goto(p, k, IF paused THEN "announce" ELSE "launch")
    /\ UNCHANGED <<stored, byCli, entries, poisoned, paused, up, watcher, spawn, count,
                   late, tally, status, inserts, cpc, daemon, restarts>>

SendLaunch(p, k) ==
    /\ At(p, k, "launch")
    /\ MarkLate(p, k)
    /\ Goto(p, k, "announce")
    /\ UNCHANGED <<stored, byCli, entries, poisoned, paused, up, watcher, spawn, count,
                   tally, status, inserts, cpc, daemon, restarts>>

Announce(p, k) ==
    /\ At(p, k, "announce")
    /\ status' = p
    /\ Goto(p, k, "sleep")
    /\ UNCHANGED <<stored, byCli, entries, poisoned, paused, up, watcher, spawn, count,
                   late, tally, inserts, cpc, daemon, restarts>>

\* Mutant: the loop does not ask whether tracking is paused.
WakeUnchecked(p, k) ==
    /\ At(p, k, "sleep")
    /\ Goto(p, k, "tick")
    /\ UNCHANGED <<stored, byCli, entries, poisoned, paused, up, watcher, spawn, count,
                   late, tally, status, inserts, cpc, daemon, restarts>>

\* The thread wakes up and finds PAUSE off; while it is on the thread sleeps on.
Wake(p, k) ==
    /\ At(p, k, "sleep")
    /\ ~paused
    /\ Goto(p, k, "tick")
    /\ UNCHANGED <<stored, byCli, entries, poisoned, paused, up, watcher, spawn, count,
                   late, tally, status, inserts, cpc, daemon, restarts>>

\* The entry is found and set: one more minute, sent and announced under the lock.
TickMinute(p, k) ==
    /\ At(p, k, "tick")
    /\ ~poisoned
    /\ p \in keys /\ fst[p]
    /\ minutes' = [minutes EXCEPT ![p] = Bump(@)]
    /\ count' = [count EXCEPT ![p][k] = Bump(@)]
    /\ MarkLate(p, k)
    /\ status' = p
    /\ Goto(p, k, "sleep")
    /\ UNCHANGED <<stored, byCli, entries, poisoned, paused, up, watcher, spawn,
                   longest, inserts, cpc, daemon, restarts>>

\* Mutants: the begun minute is counted; the entry stays taken.
TickBreakCounts(p, k) ==
    /\ At(p, k, "tick")
    /\ ~poisoned
    /\ p \in keys /\ ~fst[p]
    /\ snd' = [snd EXCEPT ![p] = FALSE]
    /\ count' = [count EXCEPT ![p][k] = Bump(@)]
    /\ Goto(p, k, "stop")
    /\ UNCHANGED <<stored, byCli, keys, fst, poisoned, paused, up, watcher, spawn,
                   late, tally, status, inserts, cpc, daemon, restarts>>

TickBreakKeeps(p, k) ==
    /\ At(p, k, "tick")
    /\ ~poisoned
    /\ p \in keys /\ ~fst[p]
    /\ Goto(p, k, "stop")
    /\ UNCHANGED <<stored, byCli, entries, poisoned, paused, up, watcher, spawn,
                   count, late, tally, status, inserts, cpc, daemon, restarts>>

\* The process is gone: the entry is given free and the loop breaks.
TickBreak(p, k) ==
    /\ At(p, k, "tick")
    /\ ~poisoned
    /\ p \in keys /\ ~fst[p]
    /\ snd' = [snd EXCEPT ![p] = FALSE]
    /\ Goto(p, k, "stop")
    /\ UNCHANGED <<stored, byCli, keys, fst, poisoned, paused, up, watcher, spawn,
                   count, late, tally, status, inserts, cpc, daemon, restarts>>

\* The entry was removed: nothing happens and the loop goes on.
TickNoEntry(p, k) ==
    /\ At(p, k, "tick")
    /\ ~poisoned
    /\ p \notin keys
    /\ Goto(p, k, "sleep")
    /\ UNCHANGED <<stored, byCli, entries, poisoned, paused, up, watcher, spawn, count,
                   late, tally, status, inserts, cpc, daemon, restarts>>

\* `lock().unwrap()` on a poisoned mutex: the thread dies without a farewell.
TickPanics(p, k) ==
    /\ At(p, k, "tick")
    /\ poisoned
    /\ Goto(p, k, "idle")
    /\ count' = [count EXCEPT ![p][k] = 0]
    /\ late' = [late EXCEPT ![p][k] = 0]
    /\ UNCHANGED <<stored, byCli, entries, poisoned, paused, up, watcher, spawn,
                   tally, status, inserts, cpc, daemon, restarts>>

\* Mutant: a thread that ends during a pause returns at once.
AfterBreakReturns == IF paused THEN "idle" ELSE "longest"

AfterBreak == IF paused THEN "retire" ELSE "longest"

CheckLongest(p, k) ==
    /\ At(p, k, "stop")
    /\ Goto(p, k, AfterBreak)
    /\ UNCHANGED <<stored, byCli, entries, poisoned, paused, up, watcher, spawn, count,
                   late, tally, status, inserts, cpc, daemon, restarts>>

SendLongest(p, k) ==
    /\ At(p, k, "longest")
    /\ longest' = [longest EXCEPT ![p] = IF count[p][k] > @ THEN count[p][k] ELSE @]
    /\ MarkLate(p, k)
    /\ Goto(p, k, "retire")
    /\ UNCHANGED <<stored, byCli, entries, poisoned, paused, up, watcher, spawn, count,
                   minutes, status, inserts, cpc, daemon, restarts>>

\* The last status says that nothing is tracked, whatever else still runs.
Retire(p, k) ==
    /\ At(p, k, "retire")
    /\ status' = None
    /\ Goto(p, k, "idle")
    /\ count' = [count EXCEPT ![p][k] = 0]
    /\ late' = [late EXCEPT ![p][k] = 0]
    /\ UNCHANGED <<stored, byCli, entries, poisoned, paused, up, watcher, spawn, tally,
                   inserts, cpc, daemon, restarts>>

Session(p, k) ==
    \/ CheckLaunch(p, k) \/ SendLaunch(p, k) \/ Announce(p, k) \/ Wake(p, k)
    \/ TickMinute(p, k) \/ TickBreak(p, k) \/ TickNoEntry(p, k)
    \/ TickPanics(p, k)
    \/ CheckLongest(p, k) \/ SendLongest(p, k) \/ Retire(p, k)

(***************************************************************************)
(* pause(), from the hook or the tray, and the processes of the machine.   *)
(***************************************************************************)
TogglePause ==
    /\ MayPause
    /\ daemon = "running"
    /\ paused' = ~paused
    /\ late' = Zeroes
    /\ UNCHANGED <<stored, byCli, entries, poisoned, up, watcher, spawn, pc, count,
                   tally, status, inserts, cpc, daemon, restarts>>

Environment(p, how) ==
    /\ up[p] # how
    /\ up' = [up EXCEPT ![p] = how]
    /\ UNCHANGED <<stored, byCli, entries, poisoned, paused, watcher, spawn, sessions,
                   tally, status, inserts, cpc, daemon, restarts>>

(***************************************************************************)
(* add_process and delete_process, one database statement or one critical  *)
(* section at a time.  A CLI adder works on the PROCESS_MAP of its own     *)
(* process, which nothing reads.                                           *)
(***************************************************************************)
CanCall(c) == cpc[c].at = "idle" /\ (daemon = "running" \/ c \in Cli)
Call(c, step, p) == cpc' = [cpc EXCEPT ![c] = [at |-> step, app |-> p]]
Return(c) == cpc' = [cpc EXCEPT ![c] = AtRest]

Inserting(p) == {c \in Callers \ Cli : cpc[c].at \in {"put", "insert"} /\ cpc[c].app = p}

\* get_processes does not list the name; a listed name is an AddError.
AddCheck(c, p) ==
    /\ c \in Adders
    /\ CanCall(c)
    /\ stored[p] = 0
    /\ inserts[p] + Cardinality(Inserting(p)) < MaxInserts
    /\ Call(c, "put", p)
    /\ UNCHANGED <<stored, byCli, entries, poisoned, paused, up, watcher, spawn,
                   sessions, tally, status, inserts, daemon, restarts>>

PutData(c) ==
    /\ cpc[c].at = "put"
    /\ stored' = [stored EXCEPT ![cpc[c].app] = @ + 1]
    /\ byCli' = IF c \in Cli THEN byCli \cup {cpc[c].app} ELSE byCli
    /\ IF c \in Cli THEN Return(c) ELSE Call(c, "insert", cpc[c].app)
    /\ UNCHANGED <<entries, poisoned, paused, up, watcher, spawn, sessions,
                   tally, status, inserts, daemon, restarts>>

\* Mutant: the error of put_data is dropped.
PutFailsOnward(c) ==
    /\ cpc[c].at = "put"
    /\ Call(c, "insert", cpc[c].app)
    /\ UNCHANGED <<stored, byCli, entries, poisoned, paused, up, watcher, spawn,
                   sessions, tally, status, inserts, daemon, restarts>>

\* put_data returns an error (its id was taken meanwhile, or the database is gone).
PutFails(c) ==
    /\ cpc[c].at = "put"
    /\ Return(c)
    /\ UNCHANGED <<stored, byCli, entries, poisoned, paused, up, watcher, spawn,
                   sessions, tally, status, inserts, daemon, restarts>>

InsertEntry(c) ==
    /\ cpc[c].at = "insert"
    /\ ~poisoned
    /\ LET p == cpc[c].app IN
          /\ keys' = keys \cup {p}
          /\ fst' = [fst EXCEPT ![p] = FALSE]
          /\ snd' = [snd EXCEPT ![p] = FALSE]
          /\ inserts' = [inserts EXCEPT ![p] = @ + 1]
    /\ Return(c)
    /\ UNCHANGED <<stored, byCli, poisoned, paused, up, watcher, spawn, sessions,
                   tally, status, daemon, restarts>>

DeleteData(c, p) ==
    /\ c \in Deleters
    /\ CanCall(c)
    /\ stored' = [stored EXCEPT ![p] = 0]
    /\ byCli' = byCli \ {p}
    /\ Call(c, "remove", p)
    /\ UNCHANGED <<entries, poisoned, paused, up, watcher, spawn, sessions,
                   tally, status, inserts, daemon, restarts>>

RemoveEntry(c) ==
    /\ cpc[c].at = "remove"
    /\ ~poisoned
    /\ LET p == cpc[c].app IN
          /\ keys' = keys \ {p}
          /\ fst' = [fst EXCEPT ![p] = FALSE]
          /\ snd' = [snd EXCEPT ![p] = FALSE]
    /\ Return(c)
    /\ UNCHANGED <<stored, byCli, poisoned, paused, up, watcher, spawn, sessions,
                   tally, status, inserts, daemon, restarts>>

\* `lock().unwrap()` on a poisoned mutex, after the database was changed.
CallerPanics(c) ==
    /\ cpc[c].at \in {"insert", "remove"}
    /\ poisoned
    /\ Return(c)
    /\ UNCHANGED <<stored, byCli, entries, poisoned, paused, up, watcher, spawn,
                   sessions, tally, status, inserts, daemon, restarts>>

Caller(c) ==
    \/ \E p \in Apps : AddCheck(c, p) \/ DeleteData(c, p)
    \/ PutData(c) \/ PutFails(c)
    \/ InsertEntry(c) \/ RemoveEntry(c) \/ CallerPanics(c)

(***************************************************************************)
(* The daemon is killed, or has returned, and is started again.            *)
(***************************************************************************)
Restart ==
    /\ restarts < MaxRestarts
    /\ restarts' = restarts + 1
    /\ daemon' = "running"
    /\ keys' = Stored /\ fst' = Off /\ snd' = Off /\ poisoned' = FALSE
    /\ paused' = FALSE
    /\ wpc' = "snap" /\ Forget
    /\ spawn' = Zero
    /\ pc' = NoThread /\ count' = Zeroes /\ late' = Zeroes
    /\ minutes' = Zero /\ longest' = Zero
    /\ status' = None
    /\ inserts' = LoadedOnce
    /\ byCli' = {}
    /\ UNCHANGED <<stored, up>>
    /\ cpc' = [c \in Callers |-> IF c \in Cli THEN cpc[c] ELSE AtRest]

-----------------------------------------------------------------------------
Watcher == Snapshot \/ Scan \/ ScanFails \/ Update \/ UpdatePanics

Next ==
    \/ Watcher
    \/ \E p \in Apps, k \in Slots : Spawn(p, k) \/ Session(p, k)
    \/ MainExit
    \/ TogglePause
    \/ \E p \in Apps : \E how \in Ways : Environment(p, how)
    \/ \E c \in Callers : Caller(c)
    \/ Restart

\* Threads are scheduled: none that can take a step waits forever.  Nothing is
\* assumed of users, callers and the machine's processes.
Fairness ==
    /\ WF_vars(Watcher)
    /\ WF_vars(MainExit)
    /\ \A p \in Apps : \A k \in Slots : WF_vars(Spawn(p, k)) /\ WF_vars(Session(p, k))

Spec == Init /\ [][Next]_vars
FairSpec == Spec /\ Fairness

-----------------------------------------------------------------------------
(***************************************************************************)
(* Properties.                                                             *)
(***************************************************************************)
Vacant(p) == IF p \in keys /\ ~snd[p] THEN 1 ELSE 0

\* The flag pair of an entry is a permit for one session thread: of the threads
\* counting minutes for an app, those still in the spawn channel and the permit
\* that is left, there are never more than PROCESS_MAP insertions of the app.
\* (check_processes 206-217, the break of a session 140-143, add_process 255-258.)
SessionBudget ==
    \A p \in Apps : Cardinality(Live(p)) + spawn[p] + Vacant(p) <= inserts[p]

\* The published status names an app only while a session thread of that app is
\* between its announcement and its farewell, whichever threads of other apps
\* wrote the status meanwhile.  (Session closure, 96-108, 131-138, 150-159.)
StatusHasSession ==
    status # None /\ ~poisoned =>
        \E k \in Slots : pc[status][k] \in Announced

\* After PAUSE is set a session thread sends at most one more round of events:
\* the one whose `active!` check had already passed.  (active! 47-53.)
PauseLag == \A p \in Apps, k \in Slots : late[p][k] <= 1

\* No reported session is longer than the minutes recorded for its app in the
\* same daemon run.  (counter against Duration events, 126-128 and 148.)
LongestWithinMinutes == \A p \in Apps : longest[p] <= minutes[p]

\* When no call of the daemon's own adders and deleters is in flight, every
\* watched app has a row, and every row is watched unless `time_tracker add` wrote
\* it since the daemon started.  (add_process 253-258, delete_process 279-281,
\* init 61-63.)
WatchedIsStored ==
    daemon = "running" /\ ~poisoned /\ (\A c \in Callers \ Cli : cpc[c] = AtRest) =>
        keys \subseteq Stored /\ Stored \subseteq keys \cup byCli

\* A name is registered once: "Process ... has already been added before".
\* (add_process 235-253.)
NoDuplicateRows == \A p \in Apps : stored[p] <= 1

\* `*m.get(p).unwrap()`: the scan has an answer for every entry it meets.
\* (check_processes 180-183 against 206-207.)
ScanCoversMap == wpc = "update" => keys \subseteq snap

\* When the watcher has died the whole daemon ends, so that a supervisor can
\* restart it; it does not go on half alive for ever.  (Main loop of init 86, 165.)
PoisonedEndsDaemon == []<>(poisoned => daemon = "exited")

Tracked(p) == spawn[p] > 0 \/ Live(p) # {}

\* Nothing is paused, and the watcher is alive.
Tracks == ~paused /\ ~poisoned

\* A finished scan found every app that runs, under whatever name.
ScanFindsAll ==
    wpc = "scan" /\ wpc' = "update" => {p \in snap : up[p] # "down"} \subseteq seen'

\* An app that stays registered and keeps running while nothing is paused has
\* minute after minute recorded, without end, however many alias queries failed
\* before: a failed query costs a session, never the tracking.  (The watcher and a
\* session's loop, 179-222 with 193-195, and 113-146.)
MinutesFlow ==
    \A p \in Apps :
        <>[](p \in keys /\ up[p] # "down" /\ Tracks) /\ <>[][ScanFindsAll]_vars
            => []<><<\E k \in Slots : TickMinute(p, k)>>_vars

\* An app that stays registered and has ended while nothing is paused is at last
\* tracked by no thread.
SessionEnds ==
    \A p \in Apps :
        <>[](p \in keys /\ up[p] = "down" /\ Tracks) => <>[](~Tracked(p))

\* An app that was deleted while a thread was counting for it.
Orphaned(p) == p \notin keys /\ Live(p) # {}

\* Once every registered app has ended, and nobody registers or deletes any more,
\* the published status says so and stays so; the one name that may stay is that
\* of an app deleted while it was tracked, whose thread nothing ends.
\* (Farewell 150-159; the `if let` of line 124 has no else.)
StatusClears ==
    <>[](Tracks /\ \A p \in keys : up[p] = "down") /\ <>[][UNCHANGED keys]_vars
        => <>[](status = None \/ Orphaned(status))
=============================================================================
