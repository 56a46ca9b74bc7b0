----------------------------- MODULE Migrations -----------------------------
(***************************************************************************)
(* How the tables come to exist.  The daemon and every `time_tracker add`  *)
(* are processes that run Migrator::up on the same database file before    *)
(* anything else, the daemon a second time in setup.  On SQLite a pass is  *)
(* a series of statements without a transaction: a pass reads which        *)
(* migrations are recorded, and for each other one creates its table and   *)
(* then records it.  Two first starts run through this side by side, and   *)
(* one that is killed leaves it where it was.                              *)
(***************************************************************************)
EXTENDS Naturals, FiniteSets, FiniteSetsExt

CONSTANTS
    Daemons,      \* processes started as the daemon
    Commands,     \* processes started as `time_tracker add`
    DbErrors,     \* TRUE where any statement may fail
    MaxMishaps    \* bound on the kills and failing statements

ASSUME ProcessesAssumption == Daemons \cap Commands = {}
ASSUME MishapsAssumption == MaxMishaps \in Nat /\ DbErrors \in BOOLEAN

Processes == Daemons \cup Commands

VARIABLES
    tables,    \* tables that exist
    recorded,  \* migrations recorded in seaql_migrations
    at,        \* what each process is at
    todo,      \* migrations a pass has still to run
    passes,    \* passes a process has still to make after this one
    mishaps    \* kills and failing statements so far

vars == <<tables, recorded, at, todo, passes, mishaps>>
database == <<tables, recorded>>

(***************************************************************************)
(* The migrations, by the table each creates and the tables that one's     *)
(* foreign keys refer to.  Three create nothing any more.                  *)
(***************************************************************************)
Creates(table, refs) == [tables |-> {table}, refs |-> refs]
CreateApps == Creates("apps", {})
CreateTimeline == Creates("timeline", {"apps", "checkpoints"})
CreateCheckpoints == Creates("checkpoints", {"apps"})
CreateAliases == Creates("process_aliases", {"apps"})

NoLongerCreates == [tables |-> {}, refs |-> {}]
TimelineCheckpoints == NoLongerCreates
CheckpointDurations == NoLongerCreates
ActiveCheckpoints == NoLongerCreates

\* Mutant: the migration of the checkpoints is not listed.
MigrationsButCheckpoints == <<CreateApps, CreateTimeline, NoLongerCreates, TimelineCheckpoints,
                              CheckpointDurations, ActiveCheckpoints, CreateAliases>>

Migrations == <<CreateApps, CreateTimeline, CreateCheckpoints, TimelineCheckpoints,
                CheckpointDurations, ActiveCheckpoints, CreateAliases>>

Steps == {"off", "install", "status", "up", "record", "ready", "failed"}
Running(p) == at[p] \notin {"off", "failed"}

TypeOK ==
    /\ tables \subseteq {"seaql_migrations", "apps", "timeline", "checkpoints", "process_aliases"}
    /\ recorded \subseteq DOMAIN Migrations
    /\ at \in [Processes -> Steps]
    /\ todo \in [Processes -> SUBSET DOMAIN Migrations]
    /\ passes \in [Processes -> 0 .. 1]
    /\ mishaps \in 0 .. MaxMishaps

Init ==
    /\ tables = {} /\ recorded = {}
    /\ at = [p \in Processes |-> "off"]
    /\ todo = [p \in Processes |-> {}]
    /\ passes = [p \in Processes |-> 0]
    /\ mishaps = 0

Goto(p, step) == at' = [at EXCEPT ![p] = step]

\* Started by the user or the autostart, for the first time or again.
Start(p) ==
    /\ ~Running(p)
    /\ Goto(p, "install")
    /\ passes' = [passes EXCEPT ![p] = IF p \in Daemons THEN 1 ELSE 0]
    /\ UNCHANGED <<database, todo, mishaps>>

\* The table of the records is created if it does not exist.
Install(p) ==
    /\ at[p] = "install"
    /\ tables' = tables \cup {"seaql_migrations"}
    /\ Goto(p, "status")
    /\ UNCHANGED <<recorded, todo, passes, mishaps>>

\* A pass is over: main makes one, and time_tracking::init another (setup).
PassOver(p) ==
    /\ Goto(p, IF passes[p] = 0 THEN "ready" ELSE "install")
    /\ passes' = [passes EXCEPT ![p] = 0]

\* The migrations that have no record, to be run in their order.
Status(p) ==
    /\ at[p] = "status"
    /\ LET pending == DOMAIN Migrations \ recorded IN
          /\ todo' = [todo EXCEPT ![p] = pending]
          /\ IF pending = {} THEN PassOver(p) ELSE Goto(p, "up") /\ UNCHANGED passes
    /\ UNCHANGED <<database, mishaps>>

Due(p) == Min(todo[p])

\* Mutant: a table that exists is an error.
UpStrict(p) ==
    /\ at[p] = "up"
    /\ IF Migrations[Due(p)].tables \cap tables = {}
       THEN /\ tables' = tables \cup Migrations[Due(p)].tables
            /\ Goto(p, "record") /\ UNCHANGED todo
       ELSE Goto(p, "failed") /\ todo' = [todo EXCEPT ![p] = {}] /\ UNCHANGED tables
    /\ UNCHANGED <<recorded, passes, mishaps>>

\* "CREATE TABLE IF NOT EXISTS": a table that is there stays as it is.  SQLite
\* takes a reference to a table that a later migration creates.
Up(p) ==
    /\ at[p] = "up"
    /\ tables' = tables \cup Migrations[Due(p)].tables
    /\ Goto(p, "record")
    /\ UNCHANGED <<recorded, todo, passes, mishaps>>

\* The version is the primary key: one that another process has recorded since
\* is an error, with which the process ends.
Record(p) ==
    /\ at[p] = "record"
    /\ IF Due(p) \in recorded
       THEN Goto(p, "failed") /\ todo' = [todo EXCEPT ![p] = {}] /\ UNCHANGED <<recorded, passes>>
       ELSE /\ recorded' = recorded \cup {Due(p)}
            /\ todo' = [todo EXCEPT ![p] = @ \ {Due(p)}]
            /\ IF todo'[p] = {} THEN PassOver(p) ELSE Goto(p, "up") /\ UNCHANGED passes
    /\ UNCHANGED <<tables, mishaps>>

\* The command has added its process, or the daemon has ended.
Exit(p) ==
    /\ at[p] = "ready"
    /\ Goto(p, "off")
    /\ UNCHANGED <<database, todo, passes, mishaps>>

\* A process is killed between two statements, or a statement fails.
Ends(p, step) ==
    /\ mishaps < MaxMishaps
    /\ mishaps' = mishaps + 1
    /\ Goto(p, step)
    /\ todo' = [todo EXCEPT ![p] = {}]
    /\ UNCHANGED <<database, passes>>

Killed(p) == Running(p) /\ Ends(p, "off")
StatementFails(p) ==
    DbErrors /\ at[p] \in {"install", "status", "up", "record"} /\ Ends(p, "failed")

Pass(p) == Install(p) \/ Status(p) \/ Up(p) \/ Record(p)

Next == \E p \in Processes : Start(p) \/ Pass(p) \/ Exit(p) \/ Killed(p) \/ StatementFails(p)

Spec == Init /\ [][Next]_vars

\* A process that can take its next step takes it; nobody has to start one.
FairSpec == Spec /\ \A p \in Processes : WF_vars(Pass(p))

-----------------------------------------------------------------------------
Needed == UNION {Migrations[m].tables : m \in DOMAIN Migrations}

(***************************************************************************)
(* Whoever gets past the migrations finds every table, and every table the *)
(* foreign keys of one refer to, however many processes ran them together, *)
(* were killed or failed before (Migrator::up, called at main.rs:213 and   *)
(* seaorm_client.rs:328).                                                  *)
(***************************************************************************)
ReadySchema ==
    \A p \in Processes : at[p] = "ready" =>
        /\ Needed \subseteq tables
        /\ \A m \in DOMAIN Migrations :
              Migrations[m].tables \subseteq tables => Migrations[m].refs \subseteq tables

(***************************************************************************)
(* Starts that run into each other do not all fail: one ends on the record *)
(* of another, which goes on.  From whatever kills and errors have left of *)
(* the tables, once nobody is half way through a pass, starts are followed *)
(* by a process that is ready, or by another kill or error.  (One half way *)
(* may fail on the record of a process killed since.)                      *)
(***************************************************************************)
Undisturbed(k) ==
    /\ mishaps = k
    /\ \E p \in Processes : Running(p)
    /\ \A p \in Processes : at[p] \in {"off", "failed", "install", "status"}

SomeoneReady ==
    \A k \in 0 .. MaxMishaps :
        Undisturbed(k) ~> ((\E p \in Processes : at[p] = "ready") \/ mishaps > k)

=============================================================================
