---------------------------- MODULE LocksProofs -----------------------------
(***************************************************************************)
(* Proofs about Locks: the lock calls of every routine climb one ladder,   *)
(* and threads that climb one ladder cannot wait for each other in a       *)
(* circle, however many there are.                                         *)
(***************************************************************************)
EXTENDS Locks, TLAPS

\* The ladder: a lock is asked for only under guards of lower locks.
Rung == [PROCESS_MAP |-> 1, NOTIFIER |-> 1, BROADCASTER |-> 2, state |-> 3, config |-> 4,
         client |-> 4, clients |-> 4, tracking_status |-> 4, subscriptions |-> 4,
         PAUSE |-> 4]

Climbs(c) ==
    /\ c \in LockCalls
    /\ \A h \in c.holds : Rung[h.lock] < Rung[c.wants.lock]

\* A lock has one of four rungs.
LEMMA RungRange == \A l \in Locks : Rung[l] \in 1 .. 4
  BY DEF Rung, Locks

\* A call made without a guard climbs.
LEMMA AloneClimbs == ASSUME NEW l \in Locks, NEW m \in {"read", "write"}
                     PROVE  Climbs(Alone([lock |-> l, mode |-> m]))
  BY DEF Climbs, LockCalls, Guards, Alone, Under

\* The calls that are made under guards, one by one.
LEMMA UnderClimbs ==
    /\ Climbs(with_state) /\ Climbs(broadcast_tracking_status) /\ Climbs(lock_clients)
    /\ Climbs(Under({Map}, Read("BROADCASTER")))
    /\ Climbs(Under({Map, Read("BROADCASTER")}, Read("state")))
    /\ Climbs(Under({Map, Read("BROADCASTER"), Read("state")}, Write("tracking_status")))
    /\ \A l \in {"tracking_status", "client"} : Climbs(Under({Read("state")}, Read(l)))
    /\ Climbs(Under({Read("state")}, Write("subscriptions")))
    /\ Climbs(Under({Write("state")}, Write("config")))
  BY DEF Climbs, LockCalls, Guards, Locks, Under, Rung, Map, Mutex, Read, Write, with_state,
         broadcast_tracking_status, lock_clients

\* Every lock call of every routine climbs.
LEMMA CallsClimb == \A r \in Routines : \A i \in DOMAIN Calls[r] : Climbs(Calls[r][i])
  <1>1. \A l \in Locks : Climbs(Alone(Read(l))) /\ Climbs(Alone(Write(l)))
    BY AloneClimbs DEF Read, Write
  <1>2. /\ Climbs(active) /\ Climbs(has_active_broadcaster) /\ Climbs(clone_client)
        /\ Climbs(state_read) /\ Climbs(acquire_client_lock) /\ Climbs(Alone(Map))
    BY <1>1 DEF active, has_active_broadcaster, clone_client, state_read, Locks,
         acquire_client_lock, Map, Mutex
  <1>3. TAKE r \in Routines
  <1>4. r \in {"check", "edge", "tick", "change", "pause", "apps", "register", "connection",
               "subscription", "round", "request", "statistics", "status", "config"}
    BY DEF Routines, Calls
  <1>5. CASE r \in {"check", "pause", "register"}
    BY <1>1, <1>2, <1>5 DEF Calls, check_processes, pause, register_websocket_notifier,
         Locks, Mutex
  <1>6. CASE r \in {"edge", "change", "apps"}
    BY <1>2, <1>6, UnderClimbs DEF Calls, session_edge, change_process,
         broadcast_apps_update
  <1>7. CASE r = "tick"
    BY <1>1, <1>2, <1>7, UnderClimbs DEF Calls, session_tick, Locks
  <1>8. CASE r \in {"connection", "subscription", "round"}
    BY <1>1, <1>2, <1>8, UnderClimbs DEF Calls, connection, subscription, broadcast_round, Locks
  <1>9. CASE r \in {"request", "statistics", "status", "config"}
    BY <1>1, <1>2, <1>9, UnderClimbs DEF Calls, db_request, get_statistics,
         get_tracking_status, update_config, Locks
  <1>10. QED
    BY <1>4, <1>5, <1>6, <1>7, <1>8, <1>9

-----------------------------------------------------------------------------
\* A routine has a first lock call, and its calls are numbered.
LEMMA CallsNumbered == \A r \in Routines : 1 \in DOMAIN Calls[r] /\ DOMAIN Calls[r] \subseteq Nat
  BY DEF Routines, Calls, check_processes, session_edge, session_tick, change_process, pause,
     broadcast_apps_update, register_websocket_notifier, connection, subscription,
     broadcast_round, db_request, get_statistics, get_tracking_status, update_config

\* A thread starts a routine at its first call and leaves it from any.
LEMMA EdgesTyped ==
    ASSUME TypeOK, NEW t \in Threads, Return(t) \/ \E r \in Routines : Begin(t, r)
    PROVE  TypeOK'
  <1>1. CASE Return(t)
    BY <1>1, NoneAssumption DEF Return, TypeOK, Busy
  <1>2. CASE \E r \in Routines : Begin(t, r)
    BY <1>2, CallsNumbered, NoneAssumption DEF Begin, TypeOK, Busy
  <1>3. QED
    BY <1>1, <1>2

\* A thread in a routine goes on to one of the routine's own calls.
LEMMA CallsTyped ==
    ASSUME TypeOK, NEW t \in Threads,
           Take(t) \/ (Busy(t) /\ \E i \in DOMAIN Calls[doing[t]] : Proceed(t, i))
    PROVE  TypeOK'
  <1>1. CASE Take(t)
    BY <1>1 DEF Take, TypeOK, Busy
  <1>2. ASSUME Busy(t), NEW i \in DOMAIN Calls[doing[t]], Proceed(t, i) PROVE TypeOK'
    <2>1. doing[t] \in Routines /\ i \in Nat
      BY <1>2, CallsNumbered DEF TypeOK, Busy
    <2>2. QED
      BY <1>2, <2>1 DEF Proceed, TypeOK, Busy
  <1>3. QED
    BY <1>1, <1>2

\* Every thread is between two routines or at a lock call of one (begin, take,
\* go on, return).
LEMMA TypeCorrect == Spec => []TypeOK
  <1>1. Init => TypeOK
    BY NoneAssumption DEF Init, TypeOK, Busy
  <1>2. TypeOK /\ Next => TypeOK'
    BY EdgesTyped, CallsTyped DEF Next
  <1>3. TypeOK /\ UNCHANGED vars => TypeOK'
    BY DEF TypeOK, Busy, vars
  <1>4. QED
    BY <1>1, <1>2, <1>3, PTL DEF Spec

-----------------------------------------------------------------------------
Height(t) == Rung[At(t).wants.lock]

\* A thread that waits stands higher than all it holds, on one of four rungs.
LEMMA WaitingClimbs ==
    ASSUME TypeOK, NEW t \in Threads, Waiting(t)
    PROVE  /\ Height(t) \in 1 .. 4
           /\ \A h \in Held(t) : Rung[h.lock] < Height(t)
  <1>1. doing[t] \in Routines /\ call[t] \in DOMAIN Calls[doing[t]]
    BY NoneAssumption DEF TypeOK, Waiting, Busy
  <1>2. Climbs(At(t))
    BY <1>1, CallsClimb DEF At
  <1>3. At(t).wants.lock \in Locks
    BY <1>2 DEF Climbs, LockCalls, Guards
  <1>4. Held(t) = At(t).holds
    BY DEF Held, Waiting
  <1>5. QED
    BY <1>2, <1>3, <1>4, RungRange DEF Height, Climbs

\* Of threads on four rungs one stands highest.
LEMMA Highest ==
    ASSUME NEW S, S # {}, \A t \in S : Height(t) \in 1 .. 4
    PROVE  \E t \in S : \A u \in S : Height(u) <= Height(t)
  <1>1. CASE \E t \in S : Height(t) = 4
    BY <1>1
  <1>2. CASE (\A t \in S : Height(t) # 4) /\ \E t \in S : Height(t) = 3
    BY <1>2
  <1>3. CASE (\A t \in S : Height(t) \notin {3, 4}) /\ \E t \in S : Height(t) = 2
    BY <1>3
  <1>4. CASE \A t \in S : Height(t) \notin {2, 3, 4}
    BY <1>4
  <1>5. QED
    BY <1>1, <1>2, <1>3, <1>4

\* Whoever holds up a waiting thread and waits as well stands higher, or is a
\* writer ahead of a reader on the same rung.
LEMMA HeldUpFromAbove ==
    ASSUME TypeOK, NEW t \in Threads, NEW u \in MayWaitFor(t), Waiting(u)
    PROVE  \/ Height(t) < Height(u)
           \/ /\ Height(t) = Height(u)
              /\ At(t).wants.mode = "read" /\ At(u).wants.mode = "write"
  <1>1. u \in Threads /\ Waiting(t)
    BY DEF MayWaitFor
  <1>2. CASE Holds(u, At(t).wants)
    <2>1. PICK h \in Held(u) : h.lock = At(t).wants.lock
      BY <1>2 DEF Holds, Conflict
    <2>2. Rung[h.lock] < Height(u)
      BY <1>1, <2>1, WaitingClimbs
    <2>3. QED
      BY <2>1, <2>2 DEF Height
  <1>3. CASE QueuesBehind(t, u)
    BY <1>3 DEF QueuesBehind, Height
  <1>4. QED
    BY <1>1, <1>2, <1>3 DEF MayWaitFor

\* No set of threads locks itself up: a highest one of them waits at most for
\* a writer beside it, and that writer for nobody of the set.
THEOREM LocksCorrect == Spec => []NoCircularWait
  <1>1. TypeOK => NoCircularWait
    <2> SUFFICES ASSUME TypeOK,
                        NEW S \in SUBSET {t \in Threads : MayWaitFor(t) # {}}, S # {},
                        \A t \in S : \E u \in S : u \in MayWaitFor(t)
                 PROVE  FALSE
      BY DEF NoCircularWait
    <2>1. \A t \in S : t \in Threads /\ Waiting(t)
      BY DEF MayWaitFor
    <2>2. \A t \in S : Height(t) \in 1 .. 4
      BY <2>1, WaitingClimbs
    <2>3. PICK t \in S : \A u \in S : Height(u) <= Height(t)
      BY <2>2, Highest
    <2>4. PICK u \in S : u \in MayWaitFor(t)
      OBVIOUS
    <2>5. Height(u) = Height(t) /\ At(u).wants.mode = "write"
      BY <2>1, <2>2, <2>3, <2>4, HeldUpFromAbove
    <2>6. PICK w \in S : w \in MayWaitFor(u)
      OBVIOUS
    <2>7. Height(u) < Height(w)
      BY <2>1, <2>5, <2>6, HeldUpFromAbove
    <2>8. QED
      BY <2>2, <2>3, <2>5, <2>7
  <1>2. QED
    BY <1>1, TypeCorrect, PTL
=============================================================================
