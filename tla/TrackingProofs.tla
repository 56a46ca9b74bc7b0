--------------------------- MODULE TrackingProofs ---------------------------
(***************************************************************************)
(* Theorems about Tracking, for every set of apps, slots and callers and   *)
(* every bound.                                                            *)
(***************************************************************************)
EXTENDS Tracking, FiniteSetTheorems, TLAPS

LEMMA BumpType == \A n \in 0 .. MaxMinutes : Bump(n) \in 0 .. MaxMinutes /\ Bump(n) >= n
  BY BoundsAssumption DEF Bump

\* The values init starts from.
LEMMA ResetTypes ==
    /\ Off \in [Apps -> BOOLEAN]
    /\ Zero \in [Apps -> 0 .. MaxMinutes]
    /\ Zero \in [Apps -> Nat]
    /\ Zeroes \in [Apps -> [Slots -> 0 .. MaxMinutes]]
    /\ Zeroes \in [Apps -> [Slots -> Nat]]
    /\ NoThread \in [Apps -> [Slots -> SessionStates]]
    /\ LoadedOnce \in [Apps -> Nat]
    /\ Stored \subseteq Apps
    /\ AtRest \in CallerStates
  BY BoundsAssumption
     DEF Off, Zero, Zeroes, NoThread, LoadedOnce, Stored, SessionStates,
         CallerStates

\* Every variable keeps its type, no scan answers for a name it was not asked for,
\* and no step of watcher, session or caller leaves a flag standing for a name that
\* is not in PROCESS_MAP.
THEOREM TypeCorrect == Spec => []TypeOK
<1>1. Init => TypeOK
  <2> SUFFICES ASSUME Init PROVE TypeOK
    OBVIOUS
  <2>1. stored \in [Apps -> Nat] /\ byCli \subseteq Apps /\ restarts \in Nat
    BY DEF Init
  <2>2. up \in [Apps -> Ways]
    BY EnvironmentAssumption DEF Init
  <2>3. cpc \in [Callers -> CallerStates]
    BY ResetTypes DEF Init
  <2>4. keys \subseteq Apps /\ fst \in [Apps -> BOOLEAN] /\ snd \in [Apps -> BOOLEAN]
        /\ \A p \in Apps : ~fst[p] /\ ~snd[p]
    BY ResetTypes DEF Init, Off
  <2>5. pc \in [Apps -> [Slots -> SessionStates]]
        /\ count \in [Apps -> [Slots -> 0 .. MaxMinutes]]
        /\ late \in [Apps -> [Slots -> Nat]]
    BY ResetTypes DEF Init
  <2>6. spawn \in [Apps -> Nat] /\ inserts \in [Apps -> Nat]
        /\ minutes \in [Apps -> 0 .. MaxMinutes] /\ longest \in [Apps -> 0 .. MaxMinutes]
    BY ResetTypes DEF Init
  <2> QED
    BY <2>1, <2>2, <2>3, <2>4, <2>5, <2>6 DEF Init, TypeOK
<1>2. TypeOK /\ [Next]_vars => TypeOK'
  <2> SUFFICES ASSUME TypeOK, [Next]_vars PROVE TypeOK'
    OBVIOUS
  <2> USE DEF TypeOK
  <2>1. CASE Snapshot
    BY <2>1 DEF Snapshot, entries, sessions, tally
  <2>2. CASE Scan
    BY <2>2 DEF Scan, Running, UnderAlias, entries, sessions, tally
  <2>3. CASE ScanFails
    BY <2>3 DEF ScanFails, Forget, entries, sessions, tally
  <2>4. CASE Update
    BY <2>4 DEF Update, Forget, ScanFlags, Rising, sessions, tally
  <2>5. CASE UpdatePanics
    BY <2>5 DEF UpdatePanics, Forget, entries, sessions, tally
  <2>6. ASSUME NEW p \in Apps, NEW k \in Slots, Spawn(p, k) PROVE TypeOK'
    <3>1. spawn' \in [Apps -> Nat]
      BY <2>6 DEF Spawn
    <3>2. pc' \in [Apps -> [Slots -> SessionStates]]
      BY <2>6 DEF Spawn, SessionStates
    <3> QED
      BY <2>6, <3>1, <3>2 DEF Spawn, entries, watcher, tally
  <2>7. ASSUME NEW p \in Apps, NEW k \in Slots, Session(p, k) PROVE TypeOK'
    <3>1. \A s \in SessionStates :
             [pc EXCEPT ![p][k] = s] \in [Apps -> [Slots -> SessionStates]]
      OBVIOUS
    <3>2. AfterBreak \in SessionStates
      BY DEF AfterBreak, SessionStates
    <3>3. [count EXCEPT ![p][k] = 0] \in [Apps -> [Slots -> 0 .. MaxMinutes]]
      BY BoundsAssumption
    <3>4. [late EXCEPT ![p][k] = 0] \in [Apps -> [Slots -> Nat]]
      OBVIOUS
    <3>5. [count EXCEPT ![p][k] = Bump(@)] \in [Apps -> [Slots -> 0 .. MaxMinutes]]
      BY BumpType
    <3>6. [minutes EXCEPT ![p] = Bump(@)] \in [Apps -> 0 .. MaxMinutes]
      BY BumpType
    <3>7. MarkLate(p, k) => late' \in [Apps -> [Slots -> Nat]]
      <4>1. late[p][k] \in Nat
        OBVIOUS
      <4>2. Bump(late[p][k]) \in Nat
        BY <4>1 DEF Bump
      <4> QED BY <4>2 DEF MarkLate
    <3> USE <3>1, <3>2, <3>3, <3>4 DEF Goto
    <3>a. CASE CheckLaunch(p, k)
      BY <3>a DEF CheckLaunch, SessionStates, entries, watcher, tally
    <3>b. CASE SendLaunch(p, k)
      BY <3>b, <3>7 DEF SendLaunch, SessionStates, entries, watcher, tally
    <3>c. CASE Announce(p, k)
      BY <3>c DEF Announce, SessionStates, entries, watcher, tally
    <3>d. CASE Wake(p, k)
      BY <3>d DEF Wake, SessionStates, entries, watcher, tally
    <3>e. CASE TickMinute(p, k)
      BY <3>e, <3>5, <3>6, <3>7 DEF TickMinute, SessionStates, entries, watcher
    <3>f. CASE TickBreak(p, k)
      BY <3>f DEF TickBreak, SessionStates, watcher, tally
    <3>g. CASE TickNoEntry(p, k)
      BY <3>g DEF TickNoEntry, SessionStates, entries, watcher, tally
    <3>h. CASE TickPanics(p, k)
      BY <3>h DEF TickPanics, SessionStates, entries, watcher, tally
    <3>i. CASE CheckLongest(p, k)
      BY <3>i DEF CheckLongest, entries, watcher, tally
    <3>j. CASE SendLongest(p, k)
      <4>1. longest' \in [Apps -> 0 .. MaxMinutes]
        BY <3>j DEF SendLongest
      <4> QED BY <3>j, <3>7, <4>1 DEF SendLongest, SessionStates, entries, watcher
    <3>k. CASE Retire(p, k)
      BY <3>k DEF Retire, SessionStates, entries, watcher, tally
    <3> QED
      BY <2>7, <3>a, <3>b, <3>c, <3>d, <3>e, <3>f, <3>g, <3>h, <3>i, <3>j, <3>k
         DEF Session
  <2>8. CASE MainExit
    BY <2>8, ResetTypes DEF MainExit, entries, watcher, tally
  <2>9. CASE TogglePause
    BY <2>9, ResetTypes DEF TogglePause, entries, watcher, tally
  <2>10. ASSUME NEW p \in Apps, NEW how \in Ways, Environment(p, how) PROVE TypeOK'
    BY <2>10 DEF Environment, entries, watcher, sessions, tally
  <2>11. ASSUME NEW c \in Callers, Caller(c) PROVE TypeOK'
    <3>1. \A s \in {"put", "insert", "remove"}, p \in Apps :
             [cpc EXCEPT ![c] = [at |-> s, app |-> p]] \in [Callers -> CallerStates]
      BY DEF CallerStates
    <3>2. [cpc EXCEPT ![c] = AtRest] \in [Callers -> CallerStates]
      BY ResetTypes
    <3>3. cpc[c].at # "idle" => cpc[c].app \in Apps
      BY DEF CallerStates, AtRest
    <3> USE <3>1, <3>2, <3>3 DEF Call, Return
    <3>a. ASSUME NEW p \in Apps, AddCheck(c, p) PROVE TypeOK'
      BY <3>a DEF AddCheck, entries, watcher, sessions, tally
    <3>b. ASSUME NEW p \in Apps, DeleteData(c, p) PROVE TypeOK'
      BY <3>b DEF DeleteData, entries, watcher, sessions, tally
    <3>c. CASE PutData(c)
      <4>1. stored' \in [Apps -> Nat]
        BY <3>c DEF PutData
      <4>2. cpc[c].app \in Apps
        BY <3>3, <3>c DEF PutData
      <4>3. [cpc EXCEPT ![c] = [at |-> "insert", app |-> cpc[c].app]]
               \in [Callers -> CallerStates]
        BY <3>1, <4>2, Zenon
      <4>4. cpc' \in [Callers -> CallerStates]
        BY <3>2, <3>c, <4>3, Zenon DEF PutData
      <4> QED
        BY <3>c, <4>1, <4>4 DEF PutData, entries, watcher, sessions, tally
    <3>d. CASE PutFails(c)
      BY <3>d DEF PutFails, entries, watcher, sessions, tally
    <3>e. CASE InsertEntry(c)
      BY <3>e DEF InsertEntry, watcher, sessions, tally
    <3>f. CASE RemoveEntry(c)
      BY <3>f DEF RemoveEntry, watcher, sessions, tally
    <3>g. CASE CallerPanics(c)
      BY <3>g DEF CallerPanics, entries, watcher, sessions, tally
    <3> QED
      BY <2>11, <3>a, <3>b, <3>c, <3>d, <3>e, <3>f, <3>g DEF Caller
  <2>12. CASE Restart
    <3>1. cpc' \in [Callers -> CallerStates]
      BY <2>12, ResetTypes DEF Restart
    <3>2. keys' \subseteq Apps /\ fst' \in [Apps -> BOOLEAN] /\ snd' \in [Apps -> BOOLEAN]
          /\ \A p \in Apps : ~fst'[p] /\ ~snd'[p]
      BY <2>12, ResetTypes DEF Restart, Off
    <3>3. pc' \in [Apps -> [Slots -> SessionStates]]
          /\ count' \in [Apps -> [Slots -> 0 .. MaxMinutes]]
          /\ late' \in [Apps -> [Slots -> Nat]]
      BY <2>12, ResetTypes DEF Restart
    <3>4. spawn' \in [Apps -> Nat] /\ inserts' \in [Apps -> Nat]
          /\ minutes' \in [Apps -> 0 .. MaxMinutes] /\ longest' \in [Apps -> 0 .. MaxMinutes]
      BY <2>12, ResetTypes DEF Restart
    <3>5. stored' \in [Apps -> Nat] /\ byCli' \subseteq Apps /\ up' \in [Apps -> Ways] /\ restarts' \in Nat
      BY <2>12 DEF Restart
    <3>6. poisoned' \in BOOLEAN /\ paused' \in BOOLEAN /\ wpc' \in {"snap", "scan", "update", "dead"}
          /\ snap' = {} /\ seen' = {} /\ status' \in Apps \cup {None}
          /\ daemon' \in {"running", "exited"}
      BY <2>12 DEF Restart, Forget
    <3> QED
      BY <3>1, <3>2, <3>3, <3>4, <3>5, <3>6
  <2>13. CASE UNCHANGED vars
    BY <2>13 DEF vars, entries, watcher, sessions, tally
  <2> QED
    BY <2>1, <2>2, <2>3, <2>4, <2>5, <2>6, <2>7, <2>8, <2>9, <2>10, <2>11, <2>12, <2>13
       DEF Next, Watcher
<1> QED
  BY <1>1, <1>2, PTL DEF Spec

-----------------------------------------------------------------------------
\* What a session thread's step does to the program counters of all threads.
LEMMA GotoElsewhere ==
    ASSUME TypeOK, NEW p \in Apps, NEW k \in Slots, NEW s \in SessionStates, Goto(p, k, s)
    PROVE  \A q \in Apps, j \in Slots :
              pc'[q][j] = IF q = p /\ j = k THEN s ELSE pc[q][j]
  BY DEF TypeOK, Goto

\* The steps that touch neither the threads nor what they publish.
Aside == UNCHANGED <<pc, status, poisoned, paused, late>>

LEMMA OthersAside ==
    ASSUME TypeOK
    PROVE  /\ Snapshot \/ Scan \/ ScanFails \/ Update => Aside
           /\ \A p \in Apps, how \in Ways : Environment(p, how) => Aside
           /\ \A c \in Callers : Caller(c) => Aside
           /\ UNCHANGED vars => Aside
<1>1. Snapshot \/ Scan \/ ScanFails \/ Update => Aside
  BY DEF Snapshot, Scan, ScanFails, Update, Aside, sessions
<1>2. \A p \in Apps, how \in Ways : Environment(p, how) => Aside
  BY DEF Environment, Aside, sessions
<1>3. \A c \in Callers : Caller(c) => Aside
  BY DEF Caller, AddCheck, DeleteData, PutData, PutFails, InsertEntry, RemoveEntry,
     CallerPanics, Aside, sessions
<1>4. UNCHANGED vars => Aside
  BY DEF vars, Aside, sessions
<1> QED
  BY <1>1, <1>2, <1>3, <1>4

\* A thread that moves on among its announced steps, or has not announced
\* itself, does not take the status of any app away.
LEMMA MoveKeepsStatus ==
    ASSUME TypeOK, StatusHasSession,
           NEW p \in Apps, NEW k \in Slots, NEW s \in SessionStates, Goto(p, k, s),
           pc[p][k] \in Announced => s \in Announced,
           UNCHANGED <<status, poisoned>>
    PROVE  StatusHasSession'
<1> SUFFICES ASSUME status # None, ~poisoned
             PROVE \E j \in Slots : pc'[status][j] \in Announced
  BY DEF StatusHasSession
<1>1. status \in Apps
  BY DEF TypeOK
<1>2. PICK j \in Slots : pc[status][j] \in Announced
  BY DEF StatusHasSession
<1>3. pc'[status][j] = IF status = p /\ j = k THEN s ELSE pc[status][j]
  BY <1>1, GotoElsewhere
<1> QED
  BY <1>2, <1>3

\* A thread that publishes itself and is then between announcement and farewell.
LEMMA AnnounceSetsStatus ==
    ASSUME TypeOK,
           NEW p \in Apps, NEW k \in Slots, NEW s \in Announced, Goto(p, k, s),
           status' = p
    PROVE  StatusHasSession'
<1>1. pc'[p][k] = s
  BY GotoElsewhere DEF Announced, SessionStates
<1> QED
  BY <1>1 DEF StatusHasSession

\* The published status never names an app that no session thread is tracking
\* or winding up.
THEOREM StatusCorrect == Spec => []StatusHasSession
<1>1. Init => StatusHasSession
  BY DEF Init, StatusHasSession
<1>2. TypeOK /\ StatusHasSession /\ [Next]_vars => StatusHasSession'
  <2> SUFFICES ASSUME TypeOK, StatusHasSession, [Next]_vars PROVE StatusHasSession'
    OBVIOUS
  <2>1. CASE Aside
    BY <2>1 DEF Aside, StatusHasSession
  <2>2. CASE UpdatePanics
    BY <2>2 DEF UpdatePanics, StatusHasSession
  <2>3. ASSUME NEW p \in Apps, NEW k \in Slots, Spawn(p, k) PROVE StatusHasSession'
    <3>1. Goto(p, k, "start") /\ pc[p][k] \notin Announced
          /\ UNCHANGED <<status, poisoned>>
      BY <2>3 DEF Spawn, Goto, Announced
    <3> QED
      BY <3>1, MoveKeepsStatus DEF SessionStates
  <2>4. ASSUME NEW p \in Apps, NEW k \in Slots, Session(p, k) PROVE StatusHasSession'
    <3> USE MoveKeepsStatus DEF At, Announced, SessionStates
    <3>a. CASE CheckLaunch(p, k)
      BY <3>a DEF CheckLaunch
    <3>b. CASE SendLaunch(p, k)
      BY <3>b DEF SendLaunch
    <3>c. CASE Announce(p, k)
      BY <3>c, AnnounceSetsStatus DEF Announce
    <3>d. CASE Wake(p, k)
      BY <3>d DEF Wake
    <3>e. CASE TickMinute(p, k)
      BY <3>e, AnnounceSetsStatus DEF TickMinute
    <3>f. CASE TickBreak(p, k)
      BY <3>f DEF TickBreak
    <3>g. CASE TickNoEntry(p, k)
      BY <3>g DEF TickNoEntry
    <3>h. CASE TickPanics(p, k)
      BY <3>h DEF TickPanics, StatusHasSession
    <3>i. CASE CheckLongest(p, k)
      BY <3>i DEF CheckLongest, AfterBreak
    <3>j. CASE SendLongest(p, k)
      BY <3>j DEF SendLongest
    <3>k. CASE Retire(p, k)
      BY <3>k DEF Retire, StatusHasSession
    <3> QED
      BY <2>4, <3>a, <3>b, <3>c, <3>d, <3>e, <3>f, <3>g, <3>h, <3>i, <3>j, <3>k
         DEF Session
  <2>5. CASE MainExit \/ Restart
    BY <2>5 DEF MainExit, Restart, StatusHasSession
  <2>6. CASE TogglePause
    BY <2>6 DEF TogglePause, StatusHasSession
  <2> QED
    BY <2>1, <2>2, <2>3, <2>4, <2>5, <2>6, OthersAside DEF Next, Watcher
<1> QED
  BY <1>1, <1>2, TypeCorrect, PTL DEF Spec

-----------------------------------------------------------------------------
\* The steps whose `active!` check has passed and whose event is still to be sent.
Sending == {"launch", "tick", "longest"}

\* PauseLag made inductive: a thread that has used up its late round is past its
\* checked step, and only a pause makes a round late.
PauseInv ==
    \A p \in Apps, k \in Slots :
        /\ late[p][k] <= 1
        /\ late[p][k] = 1 => paused /\ pc[p][k] \notin Sending

LEMMA LateType == TypeOK => \A p \in Apps, k \in Slots : late[p][k] \in Nat
  BY DEF TypeOK

LEMMA MoveKeepsPause ==
    ASSUME TypeOK, PauseInv,
           NEW p \in Apps, NEW k \in Slots, NEW s \in SessionStates, Goto(p, k, s),
           s \in Sending => ~paused,
           UNCHANGED <<paused, late>>
    PROVE  PauseInv'
  BY GotoElsewhere DEF PauseInv

LEMMA SendKeepsPause ==
    ASSUME TypeOK, PauseInv,
           NEW p \in Apps, NEW k \in Slots, NEW s \in SessionStates, Goto(p, k, s),
           pc[p][k] \in Sending, s \notin Sending, MarkLate(p, k),
           UNCHANGED paused
    PROVE  PauseInv'
<1>1. late[p][k] = 0
  BY LateType DEF PauseInv
<1>2. \A q \in Apps, j \in Slots :
         late'[q][j] = IF paused /\ q = p /\ j = k THEN Bump(late[p][k]) ELSE late[q][j]
  BY DEF MarkLate, TypeOK
<1>3. \A q \in Apps, j \in Slots :
         pc'[q][j] = IF q = p /\ j = k THEN s ELSE pc[q][j]
  BY GotoElsewhere
<1>4. Bump(0) \in {0, 1}
  BY DEF Bump
<1> QED
  BY <1>1, <1>2, <1>3, <1>4 DEF PauseInv

LEMMA EndKeepsPause ==
    ASSUME TypeOK, PauseInv,
           NEW p \in Apps, NEW k \in Slots, Goto(p, k, "idle"),
           late' = [late EXCEPT ![p][k] = 0],
           UNCHANGED paused
    PROVE  PauseInv'
<1>1. \A q \in Apps, j \in Slots :
         late'[q][j] = IF q = p /\ j = k THEN 0 ELSE late[q][j]
  BY DEF TypeOK
<1>2. \A q \in Apps, j \in Slots :
         pc'[q][j] = IF q = p /\ j = k THEN "idle" ELSE pc[q][j]
  BY GotoElsewhere DEF SessionStates
<1> QED
  BY <1>1, <1>2 DEF PauseInv

\* A pause takes effect: no session thread sends more than the one round of events
\* whose check had passed before.
THEOREM PauseCorrect == Spec => []PauseLag
<1>1. Init => PauseInv
  BY DEF Init, Zeroes, PauseInv
<1>2. TypeOK /\ PauseInv /\ [Next]_vars => PauseInv'
  <2> SUFFICES ASSUME TypeOK, PauseInv, [Next]_vars PROVE PauseInv'
    OBVIOUS
  <2>1. CASE Aside
    BY <2>1 DEF Aside, PauseInv
  <2>2. CASE UpdatePanics
    BY <2>2 DEF UpdatePanics, PauseInv, sessions
  <2>3. ASSUME NEW p \in Apps, NEW k \in Slots, Spawn(p, k) PROVE PauseInv'
    BY <2>3, MoveKeepsPause DEF Spawn, Goto, Sending, SessionStates
  <2>4. ASSUME NEW p \in Apps, NEW k \in Slots, Session(p, k) PROVE PauseInv'
    <3> USE DEF At, Sending, SessionStates
    <3>a. CASE CheckLaunch(p, k)
      BY <3>a, MoveKeepsPause DEF CheckLaunch
    <3>b. CASE SendLaunch(p, k)
      BY <3>b, SendKeepsPause DEF SendLaunch
    <3>c. CASE Announce(p, k)
      BY <3>c, MoveKeepsPause DEF Announce
    <3>d. CASE Wake(p, k)
      BY <3>d, MoveKeepsPause DEF Wake
    <3>e. CASE TickMinute(p, k)
      BY <3>e, SendKeepsPause DEF TickMinute
    <3>f. CASE TickBreak(p, k)
      BY <3>f, MoveKeepsPause DEF TickBreak
    <3>g. CASE TickNoEntry(p, k)
      BY <3>g, MoveKeepsPause DEF TickNoEntry
    <3>h. CASE TickPanics(p, k)
      BY <3>h, EndKeepsPause DEF TickPanics
    <3>i. CASE CheckLongest(p, k)
      BY <3>i, MoveKeepsPause DEF CheckLongest, AfterBreak
    <3>j. CASE SendLongest(p, k)
      BY <3>j, SendKeepsPause DEF SendLongest
    <3>k. CASE Retire(p, k)
      BY <3>k, EndKeepsPause DEF Retire
    <3> QED
      BY <2>4, <3>a, <3>b, <3>c, <3>d, <3>e, <3>f, <3>g, <3>h, <3>i, <3>j, <3>k
         DEF Session
  <2>5. CASE MainExit \/ Restart \/ TogglePause
    BY <2>5 DEF MainExit, Restart, TogglePause, Zeroes, PauseInv
  <2> QED
    BY <2>1, <2>2, <2>3, <2>4, <2>5, OthersAside DEF Next, Watcher
<1>3. PauseInv => PauseLag
  BY DEF PauseInv, PauseLag
<1> QED
  BY <1>1, <1>2, <1>3, TypeCorrect, PTL DEF Spec

-----------------------------------------------------------------------------
\* The budget of one app, with the numbers it compares named.
Fits(p) == Cardinality(Live(p)) + spawn[p] + Vacant(p) <= inserts[p]

LEMMA LiveFinite ==
    ASSUME NEW p \in Apps
    PROVE  IsFiniteSet(Live(p)) /\ Cardinality(Live(p)) \in Nat
<1>1. Live(p) \subseteq Slots
  BY DEF Live
<1>2. IsFiniteSet(Live(p))
  BY <1>1, SlotsAssumption, FS_Subset
<1> QED
  BY <1>2, FS_CardinalityType

LEMMA BudgetTypes ==
    ASSUME TypeOK, NEW p \in Apps
    PROVE  /\ spawn[p] \in Nat /\ inserts[p] \in Nat
           /\ Vacant(p) \in {0, 1}
  BY DEF TypeOK, Vacant

\* A step of one thread that stays on its side of the loop changes no live set.
LEMMA MoveKeepsLive ==
    ASSUME TypeOK,
           NEW p \in Apps, NEW k \in Slots, NEW s \in SessionStates, Goto(p, k, s),
           (s \in Tracking) = (pc[p][k] \in Tracking)
    PROVE  \A q \in Apps : Live(q)' = Live(q)
  BY GotoElsewhere DEF Live

\* A thread that leaves the loop frees one place.
LEMMA LeaveShrinksLive ==
    ASSUME TypeOK,
           NEW p \in Apps, NEW k \in Slots, NEW s \in SessionStates, Goto(p, k, s),
           pc[p][k] \in Tracking, s \notin Tracking
    PROVE  /\ \A q \in Apps \ {p} : Live(q)' = Live(q)
           /\ Cardinality(Live(p)') = Cardinality(Live(p)) - 1
<1>1. Live(p)' = Live(p) \ {k} /\ k \in Live(p)
  BY GotoElsewhere DEF Live
<1>2. \A q \in Apps \ {p} : Live(q)' = Live(q)
  BY GotoElsewhere DEF Live
<1>3. Cardinality(Live(p) \ {k}) = Cardinality(Live(p)) - 1
  BY <1>1, LiveFinite, FS_RemoveElement
<1> QED
  BY <1>1, <1>2, <1>3

\* A spawned thread takes one place.
LEMMA EnterGrowsLive ==
    ASSUME TypeOK,
           NEW p \in Apps, NEW k \in Slots, Goto(p, k, "start"), pc[p][k] = "idle"
    PROVE  /\ \A q \in Apps \ {p} : Live(q)' = Live(q)
           /\ Cardinality(Live(p)') = Cardinality(Live(p)) + 1
<1> USE DEF Tracking, SessionStates
<1>1. Live(p)' = Live(p) \cup {k} /\ k \notin Live(p)
  BY GotoElsewhere DEF Live
<1>2. \A q \in Apps \ {p} : Live(q)' = Live(q)
  BY GotoElsewhere DEF Live
<1>3. Cardinality(Live(p) \cup {k}) = Cardinality(Live(p)) + 1
  BY <1>1, LiveFinite, FS_AddElement
<1> QED
  BY <1>1, <1>2, <1>3

LEMMA NoThreadNoLive ==
    ASSUME pc' = NoThread, NEW p \in Apps
    PROVE  Cardinality(Live(p)') = 0
<1>1. Live(p)' = {}
  BY DEF Live, NoThread, Tracking
<1> QED
  BY <1>1, FS_EmptySet

\* The steps that change no number of the budget.
Still == UNCHANGED <<pc, spawn, keys, snd, inserts>>

LEMMA StillKeepsBudget ==
    ASSUME SessionBudget, Still
    PROVE  SessionBudget'
  BY DEF SessionBudget, Still, Live, Vacant

LEMMA LiveKeepsBudget ==
    ASSUME SessionBudget, \A q \in Apps : Live(q)' = Live(q),
           UNCHANGED <<spawn, keys, snd, inserts>>
    PROVE  SessionBudget'
  BY DEF SessionBudget, Vacant

\* The two flags of a PROCESS_MAP entry work as a permit: spawning a session uses
\* it, breaking its loop gives it back, and only an insertion makes a new one.
THEOREM BudgetCorrect == Spec => []SessionBudget
<1>1. Init => SessionBudget
  <2> SUFFICES ASSUME Init, NEW p \in Apps
               PROVE Cardinality(Live(p)) + spawn[p] + Vacant(p) <= inserts[p]
    BY DEF SessionBudget
  <2>1. Live(p) = {}
    BY DEF Init, Live, NoThread, Tracking
  <2>2. spawn[p] = 0 /\ (p \in keys => inserts[p] = 1) /\ (p \notin keys => inserts[p] = 0)
    BY DEF Init, Zero, LoadedOnce
  <2> QED
    BY <2>1, <2>2, FS_EmptySet DEF Vacant
<1>2. TypeOK /\ SessionBudget /\ [Next]_vars => SessionBudget'
  <2> SUFFICES ASSUME TypeOK, SessionBudget, [Next]_vars PROVE SessionBudget'
    OBVIOUS
  <2>1. CASE Still
    BY <2>1, StillKeepsBudget
  <2>2. CASE Update
    <3> SUFFICES ASSUME NEW p \in Apps PROVE Fits(p)'
      BY DEF SessionBudget, Fits
    <3>1. Live(p)' = Live(p) /\ inserts' = inserts /\ keys' = keys
      BY <2>2 DEF Update, Live, sessions
    <3>2. Fits(p)
      BY DEF SessionBudget, Fits
    <3>3. CASE p \in Rising
      <4>1. Vacant(p) = 1 /\ Vacant(p)' = 0
        BY <2>2, <3>3 DEF Update, Rising, Vacant
      <4>2. spawn'[p] = spawn[p] + 1
        BY <2>2, <3>3 DEF Update
      <4> QED
        BY <3>1, <3>2, <4>1, <4>2, LiveFinite, BudgetTypes DEF Fits
    <3>4. CASE p \notin Rising
      <4>1. Vacant(p)' = Vacant(p) /\ spawn'[p] = spawn[p]
        BY <2>2, <3>4 DEF Update, Vacant, TypeOK
      <4> QED
        BY <3>1, <3>2, <4>1 DEF Fits
    <3> QED
      BY <3>3, <3>4
  <2>3. ASSUME NEW p \in Apps, NEW k \in Slots, Spawn(p, k) PROVE SessionBudget'
    <3>1. /\ \A q \in Apps \ {p} : Live(q)' = Live(q)
          /\ Cardinality(Live(p)') = Cardinality(Live(p)) + 1
      BY <2>3, EnterGrowsLive DEF Spawn, Goto
    <3>2. /\ \A q \in Apps \ {p} : spawn'[q] = spawn[q]
          /\ spawn'[p] = spawn[p] - 1
          /\ UNCHANGED <<keys, snd, inserts>>
      BY <2>3 DEF Spawn, entries, TypeOK
    <3>3. \A q \in Apps \ {p} : Fits(q)'
      BY <3>1, <3>2 DEF SessionBudget, Fits, Vacant
    <3>4. Fits(p)'
      <4>1. Vacant(p)' = Vacant(p) /\ inserts'[p] = inserts[p]
        BY <3>2 DEF Vacant
      <4>2. Fits(p)
        BY DEF SessionBudget, Fits
      <4> QED
        BY <3>1, <3>2, <4>1, <4>2, LiveFinite, BudgetTypes DEF Fits
    <3> QED
      BY <3>3, <3>4 DEF SessionBudget, Fits
  <2>4. ASSUME NEW p \in Apps, NEW k \in Slots, Session(p, k) PROVE SessionBudget'
    <3>1. CASE TickBreak(p, k)
      <4>1. /\ \A q \in Apps \ {p} : Live(q)' = Live(q)
            /\ Cardinality(Live(p)') = Cardinality(Live(p)) - 1
        BY <3>1, LeaveShrinksLive DEF TickBreak, At, Tracking, SessionStates
      <4>2. UNCHANGED <<keys, spawn, inserts>> /\ \A q \in Apps \ {p} : snd'[q] = snd[q]
        BY <3>1 DEF TickBreak, TypeOK
      <4>3. \A q \in Apps \ {p} : Fits(q)'
        BY <4>1, <4>2 DEF SessionBudget, Fits, Vacant
      <4>4. Fits(p)'
        <5>1. Fits(p) /\ Vacant(p)' \in {0, 1}
          BY DEF SessionBudget, Fits, Vacant
        <5> QED
          BY <4>1, <4>2, <5>1, LiveFinite, BudgetTypes DEF Fits
      <4> QED
        BY <4>3, <4>4 DEF SessionBudget, Fits
    <3>2. CASE TickPanics(p, k)
      <4>1. /\ \A q \in Apps \ {p} : Live(q)' = Live(q)
            /\ Cardinality(Live(p)') = Cardinality(Live(p)) - 1
        BY <3>2, LeaveShrinksLive DEF TickPanics, At, Tracking, SessionStates
      <4>2. UNCHANGED <<keys, spawn, inserts, snd>>
        BY <3>2 DEF TickPanics, entries
      <4>3. \A q \in Apps : Fits(q) /\ Vacant(q)' = Vacant(q)
        BY <4>2 DEF SessionBudget, Fits, Vacant
      <4> QED
        BY <4>1, <4>2, <4>3, LiveFinite, BudgetTypes DEF SessionBudget, Fits
    <3>3. CASE ~TickBreak(p, k) /\ ~TickPanics(p, k)
      <4> USE MoveKeepsLive, LiveKeepsBudget DEF At, Tracking, SessionStates, entries
      <4>a. CASE CheckLaunch(p, k)
        BY <4>a DEF CheckLaunch
      <4>b. CASE SendLaunch(p, k)
        BY <4>b DEF SendLaunch
      <4>c. CASE Announce(p, k)
        BY <4>c DEF Announce
      <4>d. CASE Wake(p, k)
        BY <4>d DEF Wake
      <4>e. CASE TickMinute(p, k)
        BY <4>e DEF TickMinute
      <4>f. CASE TickNoEntry(p, k)
        BY <4>f DEF TickNoEntry
      <4>g. CASE CheckLongest(p, k)
        BY <4>g DEF CheckLongest, AfterBreak
      <4>h. CASE SendLongest(p, k)
        BY <4>h DEF SendLongest
      <4>i. CASE Retire(p, k)
        BY <4>i DEF Retire
      <4> QED
        BY <2>4, <3>3, <4>a, <4>b, <4>c, <4>d, <4>e, <4>f, <4>g, <4>h, <4>i DEF Session
    <3> QED
      BY <3>1, <3>2, <3>3
  <2>5. CASE MainExit
    <3> SUFFICES ASSUME NEW p \in Apps PROVE Fits(p)'
      BY DEF SessionBudget, Fits
    <3>1. Cardinality(Live(p)') = 0
      BY <2>5, NoThreadNoLive DEF MainExit
    <3>2. Fits(p) /\ spawn'[p] = spawn[p] /\ Vacant(p)' = Vacant(p) /\ inserts'[p] = inserts[p]
      BY <2>5 DEF MainExit, entries, SessionBudget, Fits, Vacant
    <3> QED
      BY <3>1, <3>2, LiveFinite, BudgetTypes DEF Fits
  <2>6. CASE Restart
    <3> SUFFICES ASSUME NEW p \in Apps PROVE Fits(p)'
      BY DEF SessionBudget, Fits
    <3>1. Cardinality(Live(p)') = 0
      BY <2>6, NoThreadNoLive DEF Restart
    <3>2. /\ spawn'[p] = 0
          /\ p \in keys' => inserts'[p] = 1
          /\ p \notin keys' => inserts'[p] = 0
      BY <2>6 DEF Restart, Zero, LoadedOnce
    <3> QED
      BY <3>1, <3>2 DEF Fits, Vacant
  <2>7. ASSUME NEW c \in Callers, Caller(c) PROVE SessionBudget'
    <3>1. CASE InsertEntry(c)
      <4>1. PICK p \in Apps : p = cpc[c].app
        BY <3>1 DEF InsertEntry, TypeOK, CallerStates, AtRest
      <4>2. /\ UNCHANGED <<pc, spawn>> /\ keys' = keys \cup {p}
            /\ \A q \in Apps \ {p} : snd'[q] = snd[q] /\ inserts'[q] = inserts[q]
            /\ inserts'[p] = inserts[p] + 1
        BY <3>1, <4>1 DEF InsertEntry, sessions, TypeOK
      <4>3. \A q \in Apps : Live(q)' = Live(q) /\ Fits(q)
        BY <4>2 DEF Live, SessionBudget, Fits
      <4>4. \A q \in Apps \ {p} : Fits(q)'
        BY <4>2, <4>3 DEF Fits, Vacant
      <4>5. Vacant(p)' \in {0, 1}
        BY DEF Vacant
      <4>6. Fits(p)'
        BY <4>1, <4>2, <4>3, <4>5, LiveFinite, BudgetTypes DEF Fits
      <4> QED
        BY <4>4, <4>6 DEF SessionBudget, Fits
    <3>2. CASE RemoveEntry(c)
      <4> DEFINE p == cpc[c].app
      <4>1. UNCHANGED <<pc, spawn, inserts>> /\ keys' = keys \ {p}
            /\ \A q \in Apps \ {p} : snd'[q] = snd[q]
        BY <3>2 DEF RemoveEntry, sessions, TypeOK
      <4>2. \A q \in Apps : Live(q)' = Live(q) /\ Fits(q)
        BY <4>1 DEF Live, SessionBudget, Fits
      <4>3. \A q \in Apps : Vacant(q)' = Vacant(q) \/ Vacant(q)' = 0
        <5> SUFFICES ASSUME NEW q \in Apps PROVE Vacant(q)' = Vacant(q) \/ Vacant(q)' = 0
          OBVIOUS
        <5>1. CASE q = p
          BY <4>1, <5>1 DEF Vacant
        <5>2. CASE q # p
          BY <4>1, <5>2 DEF Vacant
        <5> QED
          BY <5>1, <5>2
      <4>4. \A q \in Apps : Fits(q)'
        BY <4>1, <4>2, <4>3, LiveFinite, BudgetTypes DEF Fits
      <4> QED
        BY <4>4 DEF SessionBudget, Fits
    <3>3. CASE ~InsertEntry(c) /\ ~RemoveEntry(c)
      <4>1. Still
        BY <2>7, <3>3 DEF Caller, AddCheck, DeleteData, PutData, PutFails, CallerPanics,
           Still, sessions, entries
      <4> QED
        BY <4>1, StillKeepsBudget
    <3> QED
      BY <3>1, <3>2, <3>3
  <2>8. Snapshot \/ Scan \/ ScanFails \/ UpdatePanics \/ TogglePause \/ UNCHANGED vars => Still
    BY DEF Snapshot, Scan, ScanFails, UpdatePanics, TogglePause, vars, Still,
       sessions, entries
  <2>9. \A p \in Apps, how \in Ways : Environment(p, how) => Still
    BY DEF Environment, Still, sessions, entries
  <2> QED
    BY <2>1, <2>2, <2>3, <2>4, <2>5, <2>6, <2>7, <2>8, <2>9 DEF Next, Watcher
<1> QED
  BY <1>1, <1>2, TypeCorrect, PTL DEF Spec

-----------------------------------------------------------------------------
\* LongestWithinMinutes made inductive: a running counter is bounded as well.
TallyInv ==
    \A p \in Apps :
        /\ longest[p] <= minutes[p]
        /\ \A k \in Slots : count[p][k] <= minutes[p]

Untallied == UNCHANGED <<minutes, longest, count>>

\* A session thread never reports a longer session than the minutes it and its
\* siblings recorded.
THEOREM LongestCorrect == Spec => []LongestWithinMinutes
<1>1. Init => TallyInv
  BY DEF Init, TallyInv, Zero, Zeroes
<1>2. TypeOK /\ TallyInv /\ [Next]_vars => TallyInv'
  <2> SUFFICES ASSUME TypeOK, TallyInv, [Next]_vars PROVE TallyInv'
    OBVIOUS
  <2>1. CASE Untallied
    BY <2>1 DEF Untallied, TallyInv
  <2>2. ASSUME NEW p \in Apps, NEW k \in Slots, TickMinute(p, k) PROVE TallyInv'
    <3>1. \A q \in Apps : minutes'[q] = IF q = p THEN Bump(minutes[p]) ELSE minutes[q]
      BY <2>2 DEF TickMinute, TypeOK
    <3>2. \A q \in Apps, j \in Slots :
             count'[q][j] = IF q = p /\ j = k THEN Bump(count[p][k]) ELSE count[q][j]
      BY <2>2 DEF TickMinute, TypeOK
    <3>3. minutes[p] \in 0 .. MaxMinutes /\ longest[p] \in 0 .. MaxMinutes
          /\ \A j \in Slots : count[p][j] \in 0 .. MaxMinutes
      BY DEF TypeOK
    <3>4. Bump(minutes[p]) >= minutes[p] /\ Bump(count[p][k]) <= Bump(minutes[p])
      BY <3>3, BoundsAssumption DEF Bump, TallyInv
    <3>5. longest' = longest
      BY <2>2 DEF TickMinute
    <3>6. Bump(minutes[p]) \in 0 .. MaxMinutes
      BY <3>3, BumpType
    <3>7. \A q \in Apps : longest'[q] <= minutes'[q]
      <4> SUFFICES ASSUME NEW q \in Apps PROVE longest'[q] <= minutes'[q]
        OBVIOUS
      <4>1. longest[q] <= minutes[q]
        BY DEF TallyInv
      <4>2. CASE q = p
        BY <3>1, <3>3, <3>4, <3>5, <3>6, <4>1, <4>2
      <4>3. CASE q # p
        BY <3>1, <3>5, <4>1, <4>3
      <4> QED
        BY <4>2, <4>3
    <3>8. \A q \in Apps, j \in Slots : count'[q][j] <= minutes'[q]
      <4> SUFFICES ASSUME NEW q \in Apps, NEW j \in Slots PROVE count'[q][j] <= minutes'[q]
        OBVIOUS
      <4>1. count[q][j] <= minutes[q]
        BY DEF TallyInv
      <4>2. CASE q = p /\ j = k
        BY <3>1, <3>2, <3>4, <4>2
      <4>3. CASE q = p /\ j # k
        BY <3>1, <3>2, <3>3, <3>4, <3>6, <4>1, <4>3
      <4>4. CASE q # p
        BY <3>1, <3>2, <4>1, <4>4
      <4> QED
        BY <4>2, <4>3, <4>4
    <3> QED
      BY <3>7, <3>8 DEF TallyInv
  <2>3. ASSUME NEW p \in Apps, NEW k \in Slots, SendLongest(p, k) PROVE TallyInv'
    BY <2>3 DEF SendLongest, TallyInv, TypeOK
  <2>4. ASSUME NEW p \in Apps, NEW k \in Slots, TickPanics(p, k) \/ Retire(p, k)
        PROVE  TallyInv'
    <3>a. UNCHANGED <<minutes, longest>> /\ count' = [count EXCEPT ![p][k] = 0]
      BY <2>4 DEF TickPanics, Retire, tally
    <3>1. \A q \in Apps, j \in Slots : count'[q][j] = 0 \/ count'[q][j] = count[q][j]
      BY <3>a DEF TypeOK
    <3>2. \A q \in Apps : minutes[q] >= 0
      BY DEF TypeOK
    <3> QED
      BY <3>a, <3>1, <3>2 DEF TallyInv
  <2>5. ASSUME NEW p \in Apps, NEW k \in Slots, Spawn(p, k) \/ Session(p, k)
        PROVE  TickMinute(p, k) \/ SendLongest(p, k) \/ TickPanics(p, k) \/ Retire(p, k)
               \/ Untallied
    BY <2>5 DEF Spawn, Session, CheckLaunch, SendLaunch, Announce, Wake, TickBreak,
       TickNoEntry, CheckLongest, tally, Untallied
  <2>6. CASE MainExit
    <3>1. UNCHANGED <<minutes, longest>> /\ count' = Zeroes
      BY <2>6 DEF MainExit, tally
    <3>2. \A q \in Apps : minutes[q] >= 0
      BY DEF TypeOK
    <3> QED
      BY <3>1, <3>2 DEF TallyInv, Zeroes
  <2>7. CASE Restart
    BY <2>7 DEF Restart, TallyInv, Zero, Zeroes
  <2>8. Snapshot \/ Scan \/ ScanFails \/ Update \/ UpdatePanics \/ TogglePause \/ UNCHANGED vars
        => Untallied
    BY DEF Snapshot, Scan, ScanFails, Update, UpdatePanics, TogglePause, vars,
       Untallied, sessions, tally
  <2>9. \A p \in Apps, how \in Ways : Environment(p, how) => Untallied
    BY DEF Environment, Untallied, sessions, tally
  <2>10. \A c \in Callers : Caller(c) => Untallied
    BY DEF Caller, AddCheck, DeleteData, PutData, PutFails, InsertEntry, RemoveEntry,
       CallerPanics, Untallied, sessions, tally
  <2> QED
    BY <2>1, <2>2, <2>3, <2>4, <2>5, <2>6, <2>7, <2>8, <2>9, <2>10 DEF Next, Watcher
<1>3. TallyInv => LongestWithinMinutes
  BY DEF TallyInv, LongestWithinMinutes
<1> QED
  BY <1>1, <1>2, <1>3, TypeCorrect, PTL DEF Spec

-----------------------------------------------------------------------------
\* WatchedIsStored made inductive: between its two writes a caller accounts for the
\* name the database and PROCESS_MAP disagree about.
Own == Callers \ Cli
Between(step, p) == \E c \in Own : cpc[c] = [at |-> step, app |-> p]

WatchInv ==
    /\ wpc = "dead" => poisoned
    /\ \A c \in Cli : cpc[c].at \notin {"insert", "remove"}
    /\ \A p \in Apps : Between("insert", p) => stored[p] > 0
    /\ \A p \in Apps : Between("remove", p) =>
          Deleters # {} /\ (stored[p] > 0 => p \in byCli)
    /\ ~poisoned => \A p \in keys : stored[p] > 0 \/ Between("remove", p)
    /\ ~poisoned =>
          \A p \in Apps : stored[p] > 0 => p \in keys \cup byCli \/ Between("insert", p)

\* One call at a time, or no deletes: what the theorem below asks of the callers.
Serial == Deleters = {} \/ \A c, d \in Own : c = d

Unwatched == UNCHANGED <<stored, byCli, keys, poisoned, cpc>> /\ (wpc' = "dead" => wpc = "dead")

LEMMA UnwatchedKeeps == ASSUME WatchInv, Unwatched PROVE WatchInv'
  BY DEF WatchInv, Unwatched, Between

\* init reads every row before it starts a thread.
LEMMA LoadKeeps ==
    ASSUME TypeOK', keys' = Stored', wpc' = "snap", \A c \in Own : cpc'[c] = AtRest,
           \A c \in Cli : cpc'[c].at \notin {"insert", "remove"}
    PROVE  WatchInv'
<1>1. \A step \in {"insert", "remove"}, p \in Apps : ~Between(step, p)'
  BY DEF Between, AtRest
<1>2. \A p \in Apps : p \in keys' <=> stored'[p] > 0
  BY DEF Stored
<1> QED
  BY <1>1, <1>2 DEF WatchInv, TypeOK

\* A caller of the daemon moves on: the other calls stay where they are.
LEMMA OthersStay ==
    ASSUME TypeOK, NEW c \in Callers, NEW s, cpc' = [cpc EXCEPT ![c] = s]
    PROVE  /\ cpc'[c] = s
           /\ \A d \in Callers \ {c} : cpc'[d] = cpc[d]
  BY DEF TypeOK

\* A name is watched exactly while it is stored, once the calls that change it have
\* returned: without deletes whatever the callers' order, with deletes when the
\* daemon answers one call at a time; the only rows nobody watches are those the CLI
\* wrote since the daemon started.
THEOREM WatchedCorrect == ASSUME Serial PROVE Spec => []WatchedIsStored
<1>1. Init => WatchInv
  <2> SUFFICES ASSUME Init PROVE WatchInv
    OBVIOUS
  <2>1. \A step \in {"insert", "remove"}, p \in Apps : ~Between(step, p)
    BY DEF Init, Between, AtRest, Own
  <2> QED
    BY <2>1, CliAssumption DEF Init, WatchInv, Stored, AtRest, Callers
<1>2. TypeOK /\ TypeOK' /\ WatchInv /\ [Next]_vars => WatchInv'
  <2> SUFFICES ASSUME TypeOK, TypeOK', WatchInv, [Next]_vars PROVE WatchInv'
    OBVIOUS
  <2>1. CASE Unwatched
    BY <2>1, UnwatchedKeeps
  <2>2. CASE UpdatePanics
    BY <2>2 DEF UpdatePanics, entries, WatchInv, Between
  <2>3. CASE MainExit
    <3>1. poisoned /\ UNCHANGED <<poisoned, stored, byCli, keys, wpc>>
      BY <2>3 DEF MainExit, WatchInv, entries, watcher
    <3>2. \A step \in {"insert", "remove"}, p \in Apps : ~Between(step, p)'
      BY <2>3 DEF MainExit, Between, AtRest, Own
    <3> QED
      BY <2>3, <3>1, <3>2, CliAssumption DEF MainExit, WatchInv, Callers
  <2>4. CASE Restart
    <3>1. keys' = Stored' /\ wpc' = "snap" /\ \A c \in Own : cpc'[c] = AtRest
      BY <2>4 DEF Restart, Stored, Own
    <3>2. \A c \in Cli : cpc'[c].at \notin {"insert", "remove"}
      BY <2>4, CliAssumption DEF Restart, WatchInv, Callers
    <3> QED
      BY <3>1, <3>2, LoadKeeps
  <2>5. ASSUME NEW c \in Callers, Caller(c) PROVE WatchInv'
    <3>0. UNCHANGED <<poisoned, wpc>>
      BY <2>5 DEF Caller, AddCheck, DeleteData, PutData, PutFails, InsertEntry, RemoveEntry,
                  CallerPanics, watcher
    <3>1. \A d \in Cli : cpc'[d].at \notin {"insert", "remove"}
      <4>1. \A d \in Callers \ {c} : cpc'[d] = cpc[d]
        BY <2>5, OthersStay DEF Caller, AddCheck, DeleteData, PutData, PutFails, InsertEntry,
                                RemoveEntry, CallerPanics, Call, Return
      <4>2. c \in Cli => cpc'[c].at \notin {"insert", "remove"}
        BY <2>5, CliAssumption, OthersStay
           DEF Caller, AddCheck, DeleteData, PutData, PutFails, InsertEntry,
               RemoveEntry, CallerPanics, Call, Return, AtRest
      <4> QED
        BY <4>1, <4>2, CliAssumption DEF WatchInv, Callers
    <3>a. ASSUME NEW p \in Apps, AddCheck(c, p) PROVE WatchInv'
      <4>1. cpc[c] = AtRest /\ cpc'[c] = [at |-> "put", app |-> p]
            /\ \A d \in Callers \ {c} : cpc'[d] = cpc[d]
        BY <3>a, OthersStay DEF AddCheck, CanCall, Call, TypeOK, CallerStates
      <4>2. \A step \in {"insert", "remove"}, q \in Apps : Between(step, q)' <=> Between(step, q)
        BY <4>1 DEF Between, AtRest, Own
      <4> QED
        BY <3>0, <3>1, <3>a, <4>2 DEF AddCheck, entries, WatchInv, TypeOK
    <3>b. CASE PutData(c)
      <4>1. PICK p \in Apps : cpc[c] = [at |-> "put", app |-> p]
        BY <3>b DEF PutData, TypeOK, CallerStates, AtRest
      <4>2. /\ stored' = [stored EXCEPT ![p] = @ + 1] /\ keys' = keys
            /\ stored[p] \in Nat /\ stored'[p] > 0
            /\ \A q \in Apps \ {p} : stored'[q] = stored[q]
            /\ byCli \subseteq byCli' /\ (c \in Cli => p \in byCli')
        BY <3>b, <4>1 DEF PutData, entries, TypeOK
      <4>3. /\ cpc'[c] = IF c \in Cli THEN AtRest ELSE [at |-> "insert", app |-> p]
            /\ \A d \in Callers \ {c} : cpc'[d] = cpc[d]
        BY <3>b, <4>1, OthersStay DEF PutData, Call, Return
      <4>4. \A q \in Apps : /\ Between("insert", q)' => Between("insert", q) \/ q = p
                            /\ Between("insert", q) => Between("insert", q)'
                            /\ Between("remove", q)' <=> Between("remove", q)
        BY <4>1, <4>3 DEF Between, AtRest, Own
      <4>5. c \notin Cli => Between("insert", p)'
        BY <4>3 DEF Between, Own
      <4>6. Between("remove", p) => c \in Cli
        BY <4>1, CliAssumption DEF Between, WatchInv, Serial, Own
      <4> QED
        BY <3>0, <3>1, <4>2, <4>4, <4>5, <4>6, CliAssumption DEF WatchInv, TypeOK
    <3>c. CASE PutFails(c)
      <4>1. cpc[c].at = "put" /\ cpc'[c] = AtRest /\ \A d \in Callers \ {c} : cpc'[d] = cpc[d]
        BY <3>c, OthersStay DEF PutFails, Return
      <4>2. \A step \in {"insert", "remove"}, q \in Apps : Between(step, q)' <=> Between(step, q)
        BY <4>1 DEF Between, AtRest, Own
      <4> QED
        BY <3>0, <3>1, <3>c, <4>2 DEF PutFails, entries, WatchInv, TypeOK
    <3>d. CASE InsertEntry(c)
      <4>1. PICK p \in Apps : cpc[c] = [at |-> "insert", app |-> p]
        BY <3>d DEF InsertEntry, TypeOK, CallerStates, AtRest
      <4>2. UNCHANGED <<stored, byCli>> /\ keys' = keys \cup {p}
        BY <3>d, <4>1 DEF InsertEntry
      <4>3. cpc'[c] = AtRest /\ \A d \in Callers \ {c} : cpc'[d] = cpc[d]
        BY <3>d, OthersStay DEF InsertEntry, Return
      <4>4. \A q \in Apps : /\ Between("insert", q)' => Between("insert", q)
                            /\ q # p /\ Between("insert", q) => Between("insert", q)'
                            /\ Between("remove", q)' <=> Between("remove", q)
        BY <4>1, <4>3 DEF Between, AtRest, Own
      <4>5. Between("insert", p)
        BY <4>1 DEF Between, Own, WatchInv
      <4> QED
        BY <3>0, <3>1, <4>2, <4>4, <4>5 DEF WatchInv, TypeOK
    <3>e. ASSUME NEW p \in Apps, DeleteData(c, p) PROVE WatchInv'
      <4>1. /\ c \in Deleters /\ c \in Own /\ cpc[c].at = "idle"
            /\ stored' = [stored EXCEPT ![p] = 0] /\ keys' = keys
            /\ stored'[p] = 0 /\ \A q \in Apps \ {p} : stored'[q] = stored[q]
            /\ byCli' = byCli \ {p}
        BY <3>e, CliAssumption DEF DeleteData, CanCall, entries, TypeOK, Own
      <4>2. Own = {c}
        BY <4>1 DEF Serial
      <4>3. cpc'[c] = [at |-> "remove", app |-> p]
        BY <3>e, OthersStay DEF DeleteData, Call
      <4>4. \A q \in Apps : /\ ~Between("insert", q)' /\ ~Between("insert", q)
                            /\ ~Between("remove", q)
                            /\ Between("remove", q)' <=> q = p
        BY <4>1, <4>2, <4>3 DEF Between
      <4> QED
        BY <3>0, <3>1, <4>1, <4>4 DEF WatchInv, TypeOK
    <3>f. CASE RemoveEntry(c)
      <4>1. PICK p \in Apps : cpc[c] = [at |-> "remove", app |-> p]
        BY <3>f DEF RemoveEntry, TypeOK, CallerStates, AtRest
      <4>2. UNCHANGED <<stored, byCli>> /\ keys' = keys \ {p}
        BY <3>f, <4>1 DEF RemoveEntry
      <4>3. cpc'[c] = AtRest /\ \A d \in Callers \ {c} : cpc'[d] = cpc[d]
        BY <3>f, OthersStay DEF RemoveEntry, Return
      <4>4. \A q \in Apps : /\ Between("insert", q)' <=> Between("insert", q)
                            /\ Between("remove", q)' => Between("remove", q)
                            /\ q # p /\ Between("remove", q) => Between("remove", q)'
        BY <4>1, <4>3 DEF Between, AtRest, Own
      <4>5. stored[p] > 0 => p \in byCli
        BY <4>1 DEF Between, WatchInv, Own
      <4> QED
        BY <3>0, <3>1, <4>2, <4>4, <4>5 DEF WatchInv, TypeOK
    <3>g. CASE CallerPanics(c)
      <4>1. poisoned /\ UNCHANGED <<stored, byCli>>
        BY <3>g DEF CallerPanics
      <4>2. cpc'[c] = AtRest /\ \A d \in Callers \ {c} : cpc'[d] = cpc[d]
        BY <3>g, OthersStay DEF CallerPanics, Return
      <4>3. \A step \in {"insert", "remove"}, q \in Apps : Between(step, q)' => Between(step, q)
        BY <4>2 DEF Between, AtRest, Own
      <4> QED
        BY <3>0, <3>1, <4>1, <4>3 DEF WatchInv
    <3> QED
      BY <2>5, <3>a, <3>b, <3>c, <3>d, <3>e, <3>f, <3>g DEF Caller
  <2>6. Snapshot \/ Scan \/ ScanFails \/ Update \/ TogglePause \/ UNCHANGED vars => Unwatched
    BY DEF Snapshot, Scan, ScanFails, Update, TogglePause, vars, Unwatched, entries, watcher
  <2>7. \A p \in Apps, k \in Slots : Spawn(p, k) \/ Session(p, k) => Unwatched
    BY DEF Spawn, Session, CheckLaunch, SendLaunch, Announce, Wake, TickMinute, TickBreak,
       TickNoEntry, TickPanics, CheckLongest, SendLongest, Retire, Unwatched, entries, watcher
  <2>8. \A p \in Apps, how \in Ways : Environment(p, how) => Unwatched
    BY DEF Environment, Unwatched, entries, watcher
  <2> QED
    BY <2>1, <2>2, <2>3, <2>4, <2>5, <2>6, <2>7, <2>8 DEF Next, Watcher
<1>3. TypeOK /\ WatchInv => WatchedIsStored
  <2> SUFFICES ASSUME TypeOK, WatchInv, ~poisoned, \A c \in Own : cpc[c] = AtRest
               PROVE  keys \subseteq Stored /\ Stored \subseteq keys \cup byCli
    BY DEF WatchedIsStored, Own
  <2>1. \A step \in {"insert", "remove"}, p \in Apps : ~Between(step, p)
    BY DEF Between, AtRest
  <2> QED
    BY <2>1 DEF WatchInv, Stored, TypeOK
<1> QED
  BY <1>1, <1>2, <1>3, TypeCorrect, PTL DEF Spec
=============================================================================
