------------------------------- MODULE Locks --------------------------------
(***************************************************************************)
(* The locks of the daemon and the order in which its threads take them.   *)
(* A routine is the list of its lock calls in program order, each with the *)
(* guards that are alive at the call; what a routine does between its lock *)
(* calls is left to the other modules.  Guards are dropped at the end of   *)
(* their scope, so a routine that goes on to a call drops what the call is *)
(* not made under.  A call may be passed over (a condition) or repeated (a *)
(* loop), and a routine may end after any of them (an early return).       *)
(***************************************************************************)
EXTENDS Naturals, FiniteSets

CONSTANTS
    Watchers,       \* the watcher thread
    EventLoops,     \* the event loop thread
    Broadcasters,   \* the broadcaster thread
    Starters,       \* the main thread, while it registers the broadcaster
    Sessions,       \* session threads
    Connections,    \* the threads of WebSocket connections
    Callers,        \* RPC workers, keyboard and tray callbacks
    None

VARIABLES
    doing,    \* the routine each thread is in, or None
    call,     \* the number of the lock call it has come to
    got       \* that call has returned its guard

vars == <<doing, call, got>>

Threads == Watchers \cup EventLoops \cup Broadcasters \cup Starters \cup Sessions
           \cup Connections \cup Callers

(***************************************************************************)
(* Guards.  PROCESS_MAP and the map of clients are mutexes, the others     *)
(* RwLocks.  The database handle ("client") has an RwLock per component    *)
(* that shares it, the subscriptions one per connection: each is one lock  *)
(* here, which only adds to what a thread may wait for.                    *)
(***************************************************************************)
Locks == {"PROCESS_MAP", "PAUSE", "NOTIFIER", "BROADCASTER", "state", "config",
          "client", "clients", "tracking_status", "subscriptions"}
Guards == [lock : Locks, mode : {"read", "write"}]
Read(l) == [lock |-> l, mode |-> "read"]
Write(l) == [lock |-> l, mode |-> "write"]
Mutex(l) == Write(l)

Under(guards, g) == [holds |-> guards, wants |-> g]
Alone(g) == Under({}, g)
LockCalls == [holds : SUBSET Guards, wants : Guards]

(***************************************************************************)
(* The tracking core.                                                      *)
(***************************************************************************)
\* The keys are copied under the map's lock, the flags written under it again.
check_processes == <<Alone(Mutex("PROCESS_MAP")), Alone(Read("config")),
                     Alone(Mutex("PROCESS_MAP"))>>

\* active! drops its guard before the body runs.
active == Alone(Read("PAUSE"))

\* Asked by the caller, and again by broadcast_logger (the call repeated).
has_active_broadcaster == Alone(Read("BROADCASTER"))
with_state == Under({Read("BROADCASTER")}, Read("state"))
broadcast_tracking_status ==
    Under({Read("BROADCASTER"), Read("state")}, Write("tracking_status"))

\* The farewell of a session, and its announcement, which reads no PAUSE after it.
session_edge == <<active, has_active_broadcaster, with_state,
                  broadcast_tracking_status>>

\* The status of a minute is published under the map's lock.
Map == Mutex("PROCESS_MAP")
session_tick ==
    <<Alone(Read("config")), active, Alone(Map),
      Under({Map}, Read("BROADCASTER")),
      Under({Map, Read("BROADCASTER")}, Read("state")),
      Under({Map, Read("BROADCASTER"), Read("state")}, Write("tracking_status"))>>

clone_client == Alone(Read("client"))
\* add_process and delete_process: the database, the map, the broadcast of the apps.
change_process == <<clone_client, Alone(Map), has_active_broadcaster, clone_client, with_state>>
pause == <<Alone(Read("PAUSE")), Alone(Write("PAUSE"))>>

\* The event loop, after each event: it asks, and broadcast_logger asks again.
broadcast_apps_update == <<has_active_broadcaster, with_state>>

(***************************************************************************)
(* The WebSocket server.                                                   *)
(***************************************************************************)
register_websocket_notifier == <<Alone(Write("NOTIFIER")), Alone(Write("BROADCASTER"))>>

state_read == Alone(Read("state"))
lock_clients == Under({Read("state")}, Mutex("clients"))

\* Mutant: a client that cannot be greeted is removed as at the end of its loop.
connection_reentrant ==
    <<state_read, lock_clients, Under({Read("state")}, Read("tracking_status")),
      Under({Read("state")}, Read("state")), lock_clients>>

\* The greeting is sent under the guard, and a client that cannot be greeted removed.
\* The swap of the sender and remove_client end after the second call.
connection == <<state_read, lock_clients, Under({Read("state")}, Read("tracking_status")),
                lock_clients>>

subscription == <<state_read, lock_clients, Under({Read("state")}, Write("subscriptions"))>>
broadcast_round == <<state_read, lock_clients, Alone(Read("subscriptions")),
                     state_read, lock_clients>>

\* Requests: the Arc of the handle is cloned under state, the handle under its own lock.
\* A request to add or delete an app goes on with change_process; one to subscribe,
\* which only sends to the broadcaster, ends after the first call.
acquire_client_lock == state_read
db_request == <<acquire_client_lock, clone_client>>
get_statistics == <<state_read, Under({Read("state")}, Read("client"))>>
get_tracking_status == <<state_read, Under({Read("state")}, Read("tracking_status"))>>
update_config == <<Alone(Write("state")), Under({Write("state")}, Write("config"))>>

Calls ==
    [check |-> check_processes, edge |-> session_edge, tick |-> session_tick,
     change |-> change_process, pause |-> pause, apps |-> broadcast_apps_update,
     register |-> register_websocket_notifier, connection |-> connection,
     subscription |-> subscription, round |-> broadcast_round, request |-> db_request,
     statistics |-> get_statistics, status |-> get_tracking_status, config |-> update_config]

Routines == DOMAIN Calls

RunBy ==
    [check |-> Watchers, edge |-> Sessions, tick |-> Sessions,
     change |-> Callers \cup Connections, pause |-> Callers, apps |-> EventLoops,
     register |-> Starters, connection |-> Connections,
     subscription |-> Broadcasters, round |-> Broadcasters, request |-> Connections,
     statistics |-> Connections, status |-> Connections, config |-> Connections]

ASSUME NoneAssumption == None \notin Routines

(***************************************************************************)
(* Who holds what, and who waits for whom.                                 *)
(***************************************************************************)
Busy(t) == doing[t] # None
At(t) == Calls[doing[t]][call[t]]
Waiting(t) == Busy(t) /\ ~got[t]
Held(t) == IF ~Busy(t) THEN {}
           ELSE IF got[t] THEN At(t).holds \cup {At(t).wants} ELSE At(t).holds

Conflict(g, h) == g.lock = h.lock /\ "write" \in {g.mode, h.mode}
Holds(u, g) == \E h \in Held(u) : Conflict(g, h)

\* A reader may have to queue behind a writer that waits for the same RwLock,
\* also when it has a guard of that lock already.
QueuesBehind(t, u) ==
    /\ Waiting(u)
    /\ At(t).wants.lock = At(u).wants.lock
    /\ At(t).wants.mode = "read" /\ At(u).wants.mode = "write"

MayWaitFor(t) == IF Waiting(t) THEN {u \in Threads : Holds(u, At(t).wants) \/ QueuesBehind(t, u)}
                 ELSE {}

TypeOK ==
    /\ doing \in [Threads -> Routines \cup {None}]
    /\ call \in [Threads -> Nat]
    /\ got \in [Threads -> BOOLEAN]
    /\ \A t \in Threads : Busy(t) => call[t] \in DOMAIN Calls[doing[t]]

Init ==
    /\ doing = [t \in Threads |-> None]
    /\ call = [t \in Threads |-> 1]
    /\ got = [t \in Threads |-> FALSE]

Begin(t, r) ==
    /\ ~Busy(t)
    /\ t \in RunBy[r]
    /\ doing' = [doing EXCEPT ![t] = r]
    /\ call' = [call EXCEPT ![t] = 1]
    /\ UNCHANGED got

\* Whether a reader passes a writer that waits is up to the platform.
Take(t) ==
    /\ Waiting(t)
    /\ \A u \in Threads : ~Holds(u, At(t).wants)
    /\ got' = [got EXCEPT ![t] = TRUE]
    /\ UNCHANGED <<doing, call>>

\* The scopes that end before the next call drop their guards.
Proceed(t, i) ==
    /\ Busy(t) /\ got[t]
    /\ i >= call[t]
    /\ Calls[doing[t]][i].holds \subseteq Held(t)
    /\ call' = [call EXCEPT ![t] = i]
    /\ got' = [got EXCEPT ![t] = FALSE]
    /\ UNCHANGED doing

Return(t) ==
    /\ Busy(t) /\ got[t]
    /\ doing' = [doing EXCEPT ![t] = None]
    /\ call' = [call EXCEPT ![t] = 1]
    /\ got' = [got EXCEPT ![t] = FALSE]

Next ==
    \E t \in Threads :
        \/ \E r \in Routines : Begin(t, r)
        \/ Take(t)
        \/ Busy(t) /\ \E i \in DOMAIN Calls[doing[t]] : Proceed(t, i)
        \/ Return(t)

Spec == Init /\ [][Next]_vars

-----------------------------------------------------------------------------
(***************************************************************************)
(* The daemon does not lock itself up: however many threads of each kind   *)
(* there are, no set of them is ever such that each may have to wait for   *)
(* another of the set, or for itself, be it for a guard or behind a writer *)
(* in the queue of an RwLock.                                              *)
(***************************************************************************)
NoCircularWait ==
    \A S \in SUBSET {t \in Threads : MayWaitFor(t) # {}} :
        S # {} => \E t \in S : MayWaitFor(t) \cap S = {}
=============================================================================
