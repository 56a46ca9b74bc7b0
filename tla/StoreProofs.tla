---------------------------- MODULE StoreProofs -----------------------------
(***************************************************************************)
(* Theorems about Store, for every set of names and users and every bound, *)
(* with or without failing statements and crashes.                         *)
(***************************************************************************)
EXTENDS Store, FiniteSetTheorems, WellFoundedInduction, TLAPS

\* A set of ids has a largest one, and the next id is not among them.
LEMMA NatOrder == IsWellFoundedOn({ss \in Nat \X Nat : ss[1] < ss[2]}, Nat)
  BY NatLessThanWellFounded DEF OpToRel

LEMMA MaxIsLargest ==
    ASSUME NEW N \in Nat, NEW D \in SUBSET (1 .. N), D # {}
    PROVE  Max(D) \in D /\ \A y \in D : Max(D) >= y
<1> DEFINE T == {N - x : x \in D}
<1> DEFINE R == {ss \in Nat \X Nat : ss[1] < ss[2]}
<1>1. T \subseteq Nat
  <2>1. \A x \in D : N - x \in Nat
    OBVIOUS
  <2> QED BY <2>1
<1>2. T # {}
  OBVIOUS
<1>3. \E x \in T : \A y \in T : ~ (<<y, x>> \in R)
  <2>1. IsWellFoundedOn(R, Nat)
    BY NatOrder
  <2> HIDE DEF T, R
  <2> QED BY <1>1, <1>2, <2>1, WFMin
<1>4. PICK x \in T : \A y \in T : ~ (<<y, x>> \in R)
  BY <1>3
<1>5. PICK d \in D : x = N - d
  BY <1>4
<1>6. ASSUME NEW y \in D PROVE d >= y
  <2>1. N - y \in T /\ N - y \in Nat /\ N - d \in Nat /\ y \in Nat /\ d \in Nat
    OBVIOUS
  <2>2. ~ (<<N - y, N - d>> \in R)
    BY <1>4, <1>5, <2>1
  <2>3. ~ (N - y < N - d)
    BY <2>1, <2>2
  <2> QED BY <2>1, <2>3
<1> QED BY <1>6 DEF Max

LEMMA NextIdIsFree ==
    ASSUME NEW table, DOMAIN table \subseteq Ids PROVE NextId(table) \notin DOMAIN table
<1>1. CASE DOMAIN table = {}
  BY <1>1
<1>2. CASE DOMAIN table # {}
  <2>1. /\ Max(DOMAIN table) \in DOMAIN table
        /\ \A y \in DOMAIN table : Max(DOMAIN table) >= y
    BY <1>2, MaxIsLargest, LimitsAssumption DEF Ids
  <2>2. Max(DOMAIN table) \in Nat
    BY <2>1, LimitsAssumption DEF Ids
  <2> QED BY <1>2, <2>1, <2>2 DEF NextId
<1> QED BY <1>1, <1>2

\* The rows and the loop's locals are records of their fields.
RowShape ==
    \A t \in DOMAIN timeline :
        timeline[t] \in [app : {timeline[t].app}, day : {timeline[t].day},
                         minutes : {timeline[t].minutes},
                         checkpoint : {timeline[t].checkpoint}]
LoopShape ==
    loop \in [at : {loop.at}, kind : {loop.kind}, name : {loop.name}, n : {loop.n},
              id : {loop.id}, val : {loop.val}, day : {loop.day}, todo : {loop.todo}]

\* Between the lookup of today's row and the insert of a new one there is none:
\* the event loop alone inserts, and whatever users delete takes rows away.
NoRowYet ==
    loop.at \in {"cover", "start"} =>
        \A t \in DOMAIN timeline : timeline[t].app = loop.id => timeline[t].day # loop.day

RowsInv == RowShape /\ LoopShape /\ NoRowYet /\ OneRowPerDay

\* A step that only takes rows away, or changes neither their app nor their day.
Narrower ==
    /\ DOMAIN timeline' \subseteq DOMAIN timeline
    /\ \A t \in DOMAIN timeline' :
          /\ timeline'[t].app = timeline[t].app /\ timeline'[t].day = timeline[t].day
          /\ timeline'[t] \in [app : {timeline'[t].app}, day : {timeline'[t].day},
                               minutes : {timeline'[t].minutes},
                               checkpoint : {timeline'[t].checkpoint}]

LEMMA NarrowerKeepsRows ==
    ASSUME RowsInv, Narrower, loop' = loop
    PROVE  RowsInv'
<1>1. RowShape' /\ LoopShape'
  BY DEF RowsInv, RowShape, LoopShape, Narrower
<1>2. NoRowYet'
  BY DEF RowsInv, NoRowYet, Narrower
<1>3. OneRowPerDay'
  BY DEF RowsInv, OneRowPerDay, Narrower
<1> QED BY <1>1, <1>2, <1>3 DEF RowsInv

LEMMA DeleteNarrows ==
    ASSUME RowShape, NEW gone, timeline' = Delete(timeline, gone) PROVE Narrower
  BY DEF RowShape, Delete, Restrict, Narrower

\* SET NULL on the checkpoint column touches neither app nor day.
LEMMA UncoveredNarrows ==
    ASSUME RowShape, NEW gone, NEW left,
           timeline' = Uncovered(Delete(timeline, left), gone)
    PROVE  Narrower
<1> DEFINE rows == Delete(timeline, left)
<1>1. DOMAIN rows = DOMAIN timeline \cap (DOMAIN timeline \ left)
      /\ \A t \in DOMAIN rows : rows[t] = timeline[t]
  BY DEF Delete, Restrict
<1>2. DOMAIN timeline' = DOMAIN rows
      /\ \A t \in DOMAIN rows :
            timeline'[t] = IF rows[t].checkpoint \in gone
                           THEN [rows[t] EXCEPT !.checkpoint = 0] ELSE rows[t]
  BY DEF Uncovered
<1> HIDE DEF rows
<1> QED BY <1>1, <1>2 DEF RowShape, Narrower

\* A step of the loop that leaves the timeline alone, unless it reaches the insert.
LEMMA LoopKeepsRows ==
    ASSUME RowsInv, timeline' = timeline, LoopShape',
           loop'.at \in {"cover", "start"} =>
               \/ /\ loop.at \in {"cover", "start"}
                  /\ loop'.id = loop.id /\ loop'.day = loop.day
               \/ DayRows(loop'.id, loop'.day) = {}
    PROVE  RowsInv'
<1>1. NoRowYet'
  BY DEF RowsInv, NoRowYet, DayRows
<1> QED BY <1>1 DEF RowsInv, RowShape, OneRowPerDay

LEMMA FinishShape ==
    ASSUME LoopShape, Finish PROVE LoopShape' /\ loop'.at = "idle"
  BY DEF LoopShape, Finish

LEMMA ProceedShape ==
    ASSUME LoopShape, NEW at, NEW id, NEW val, Proceed(at, id, val)
    PROVE  LoopShape' /\ loop'.at = at /\ loop'.id = id /\ loop'.day = loop.day
  BY DEF LoopShape, Proceed

\* A day is one timeline row per app: lookup and insert are separate statements,
\* yet no interleaving with deletes, midnight and failing statements makes two.
THEOREM OneRowCorrect == Spec => []OneRowPerDay
<1>1. Init => RowsInv
  BY DEF Init, Booted, RowsInv, RowShape, LoopShape, NoRowYet, OneRowPerDay
<1>2. RowsInv /\ [Next]_vars => RowsInv'
  <2> SUFFICES ASSUME RowsInv, [Next]_vars PROVE RowsInv'
    OBVIOUS
  <2>0. LoopShape /\ RowShape
    BY DEF RowsInv
  <2>1. CASE UNCHANGED <<timeline, loop>>
    BY <2>0, <2>1, NarrowerKeepsRows DEF Narrower, RowShape
  <2>2. CASE Sender \/ Midnight
    BY <2>1, <2>2 DEF Sender, Midnight, SendFree, SendDuration, SendTimeline, tables
  <2>3. CASE Receive
    <3>1. LoopShape' /\ loop'.at = "find"
      BY <2>0, <2>3 DEF Receive, LoopShape
    <3> QED BY <2>3, <3>1, LoopKeepsRows DEF Receive, tables
  <2>4. CASE LoopFails
    <3>1. CASE loop.at = "each" /\ Cardinality(loop.todo) > 1
      <4>1. LoopShape' /\ loop'.at = "each"
        BY <2>0, <2>4, <3>1 DEF LoopFails, LoopShape
      <4> QED BY <2>4, <4>1, LoopKeepsRows DEF LoopFails, tables
    <3>2. CASE loop.at = "cover"
      BY <2>0, <2>4, <3>2, ProceedShape, LoopKeepsRows DEF LoopFails, tables
    <3>3. CASE ~(loop.at = "each" /\ Cardinality(loop.todo) > 1) /\ loop.at # "cover"
      BY <2>0, <2>4, <3>3, FinishShape, LoopKeepsRows DEF LoopFails, tables
    <3> QED BY <3>1, <3>2, <3>3
  <2>5. CASE Handle
    <3>a. CASE FindNone
      BY <2>0, <3>a, FinishShape, LoopKeepsRows DEF FindNone, tables
    <3>b. CASE FindOne
      <4>1. PICK i \in Named(loop.name) :
               \/ Finish
               \/ loop' = [loop EXCEPT !.at = IF loop.kind = "Timeline" THEN "entry" ELSE "write",
                                       !.id = i, !.val = ReadColumn(apps[i]),
                                       !.day = IF loop.kind = "Timeline" THEN day ELSE 0]
        BY <3>b DEF FindOne
      <4>2. LoopShape' /\ loop'.at \notin {"cover", "start"}
        BY <2>0, <4>1, FinishShape DEF LoopShape
      <4> QED BY <3>b, <4>2, LoopKeepsRows DEF FindOne, tables
    <3>c. CASE WriteApp
      <4>1. Finish \/ Proceed("list", loop.id, 0)
        BY <3>c DEF WriteApp
      <4> QED BY <2>0, <3>c, <4>1, FinishShape, ProceedShape, LoopKeepsRows DEF WriteApp
    <3>d. CASE ListActive
      <4>1. LoopShape' /\ loop'.at \notin {"cover", "start"}
        BY <2>0, <3>d, FinishShape DEF ListActive, LoopShape
      <4> QED BY <3>d, <4>1, LoopKeepsRows DEF ListActive, tables
    <3>e. CASE WriteCheckpoint
      <4>1. Finish \/ \E e : loop' = [loop EXCEPT !.todo = @ \ {e}]
        BY <3>e DEF WriteCheckpoint
      <4>2. LoopShape' /\ loop'.at \notin {"cover", "start"}
        BY <2>0, <3>e, <4>1, FinishShape DEF WriteCheckpoint, LoopShape
      <4> QED BY <3>e, <4>2, LoopKeepsRows DEF WriteCheckpoint
    <3>f. CASE FindEntry
      <4>1. CASE DayRows(loop.id, loop.day) = {}
        <5>1. Proceed("cover", loop.id, 0)
          BY <3>f, <4>1 DEF FindEntry
        <5> QED BY <2>0, <3>f, <4>1, <5>1, ProceedShape, LoopKeepsRows DEF FindEntry, tables
      <4>2. CASE DayRows(loop.id, loop.day) # {}
        <5>1. PICK t \in DayRows(loop.id, loop.day) : Proceed("grow", t, timeline[t].minutes)
          BY <3>f, <4>2 DEF FindEntry
        <5> QED BY <2>0, <3>f, <5>1, ProceedShape, LoopKeepsRows DEF FindEntry, tables
      <4> QED BY <4>1, <4>2
    <3>g. CASE GrowEntry
      <4>1. Narrower
        BY <2>0, <3>g DEF GrowEntry, RowShape, Narrower
      <4>2. LoopShape' /\ loop'.at = "idle"
        BY <2>0, <3>g, FinishShape DEF GrowEntry
      <4>3. RowShape' /\ OneRowPerDay'
        BY <4>1 DEF RowsInv, Narrower, RowShape, OneRowPerDay
      <4> QED BY <4>2, <4>3 DEF RowsInv, NoRowYet
    <3>h. CASE FindCover
      <4>1. PICK c : Proceed("start", loop.id, c)
        BY <3>h DEF FindCover
      <4> QED BY <2>0, <3>h, <4>1, ProceedShape, LoopKeepsRows DEF FindCover, tables
    <3>i. CASE StartEntry
      <4>1. LoopShape' /\ loop'.at = "idle"
        BY <2>0, <3>i, FinishShape DEF StartEntry
      <4>2. CASE timeline' = timeline
        BY <4>1, <4>2, LoopKeepsRows
      <4>3. CASE timeline' # timeline
        <5> DEFINE row == [app |-> loop.id, day |-> loop.day, minutes |-> 1,
                           checkpoint |-> loop.val]
                   new == NextId(timeline)
        <5>1. timeline' = [j \in DOMAIN timeline \cup {new} |-> IF j = new THEN row ELSE timeline[j]]
          BY <3>i, <4>3 DEF StartEntry, Insert
        <5> HIDE DEF new
        <5>2. RowShape'
          BY <2>0, <5>1 DEF RowShape
        <5>3. OneRowPerDay'
          BY <3>i, <5>1 DEF StartEntry, RowsInv, NoRowYet, OneRowPerDay
        <5> QED BY <4>1, <5>2, <5>3 DEF RowsInv, NoRowYet
      <4> QED BY <4>2, <4>3
    <3> QED BY <2>5, <3>a, <3>b, <3>c, <3>d, <3>e, <3>f, <3>g, <3>h, <3>i DEF Handle
  <2>6. ASSUME NEW u \in Users, User(u) PROVE RowsInv'
    <3>a. ASSUME NEW n \in Names, DeleteApp(u, n) PROVE RowsInv'
      <4>1. Narrower
        BY <2>0, <3>a, UncoveredNarrows DEF DeleteApp
      <4> QED BY <3>a, <4>1, NarrowerKeepsRows DEF DeleteApp
    <3>b. ASSUME NEW c \in Ids, DeleteCheckpoint(u, c) PROVE RowsInv'
      <4>1. Narrower
        BY <2>0, <3>b DEF DeleteCheckpoint, Uncovered, RowShape, Narrower
      <4> QED BY <3>b, <4>1, NarrowerKeepsRows DEF DeleteCheckpoint
    <3>c. CASE UNCHANGED <<timeline, loop>>
      BY <3>c, <2>1
    <3>1. CASE AddProcess(u)
      BY <3>1, <3>c DEF AddProcess, AddCheck, ReadMaxId, InsertApp, tables
    <3>2. CASE DeleteProcess(u)
      BY <3>2, <3>a DEF DeleteProcess
    <3>3. CASE CreateOne(u)
      BY <3>3, <3>c DEF CreateOne, CreateCheckpoint
    <3>4. CASE DeleteOne(u)
      BY <3>4, <3>b DEF DeleteOne
    <3>5. CASE Switch(u)
      BY <3>5, <3>c DEF Switch, SetActive, ListOthers, DeactivateOther, SetSelf, tables
    <3>6. CASE RequestFails(u)
      BY <3>6, <3>c DEF RequestFails, tables
    <3> QED BY <2>6, <3>1, <3>2, <3>3, <3>4, <3>5, <3>6 DEF User
  <2>7. CASE Crash
    <3>1. LoopShape' /\ loop'.at = "idle"
      BY <2>7 DEF Crash, Booted, LoopShape
    <3> QED BY <2>7, <3>1, LoopKeepsRows DEF Crash, tables
  <2>8. CASE UNCHANGED vars
    BY <2>1, <2>8 DEF vars
  <2> QED BY <2>2, <2>3, <2>4, <2>5, <2>6, <2>7, <2>8 DEF Next, Work
<1>3. RowsInv => OneRowPerDay
  BY DEF RowsInv
<1> QED BY <1>1, <1>2, <1>3, PTL DEF Spec

-----------------------------------------------------------------------------
(***************************************************************************)
(* Types and references.  What the loop and a request carry from one       *)
(* statement to the next is typed as well; the loop's day is a day and its *)
(* event names an app it once found.                                       *)
(***************************************************************************)
LoopType ==
    /\ loop \in [at : LoopStates, kind : Kinds, name : Names \cup {None}, n : Nat, id : Nat,
                 val : Nat, day : Nat, todo : SUBSET (Ids \X Nat)]
    /\ loop.at \in {"entry", "grow", "cover", "start"} => loop.day \in 1 .. MaxDay
    /\ loop.at = "each" => loop.todo # {}
    /\ loop.at = "write" => loop.kind # "Timeline"
QueueType ==
    /\ queue \in Seq([kind : Kinds, name : Names, n : Nat])
    /\ half # None => sent + 1 <= MaxEvents
RequestType ==
    /\ upc \in [Users -> [at : UserStates, name : Names \cup {None}, id : Nat, val : Nat,
                          day : Nat, todo : SUBSET Ids]]
    /\ \A u \in Users : /\ upc[u].at \in {"maxid", "insert"} => upc[u].name \in Names
                        /\ upc[u].at = "insert" => upc[u].id \in Ids

AppRow == [name : Names, duration : Nat, launches : Nat, longest : Nat]
CheckpointRow == [app : DOMAIN apps, active : BOOLEAN, duration : Nat, sessions : Nat]
TimelineRow == [app : DOMAIN apps, day : 1 .. MaxDay, minutes : Nat,
                checkpoint : DOMAIN checkpoints \cup {0}]
AppsType == DOMAIN apps \subseteq Ids /\ \A i \in DOMAIN apps : apps[i] \in AppRow
CheckpointsType ==
    /\ DOMAIN checkpoints \subseteq Ids
    /\ \A c \in DOMAIN checkpoints : checkpoints[c] \in CheckpointRow
TimelineType ==
    DOMAIN timeline \subseteq Ids /\ \A t \in DOMAIN timeline : timeline[t] \in TimelineRow
TablesType == AppsType /\ CheckpointsType /\ TimelineType
ScalarsType ==
    /\ day \in 1 .. MaxDay /\ half \in Names \cup {None} /\ sent \in 0 .. MaxEvents
    /\ crashes \in 0 .. MaxCrashes
StoreInv == TablesType /\ ScalarsType /\ LoopType /\ QueueType /\ RequestType

LEMMA FinishType ==
    ASSUME LoopType, Finish PROVE LoopType'
BY DEF LoopType, Finish, LoopStates

LEMMA ProceedType ==
    ASSUME LoopType, NEW at \in LoopStates \ {"each", "write"}, NEW id \in Nat, NEW val \in Nat,
           Proceed(at, id, val),
           at \in {"entry", "grow", "cover", "start"} => loop.day \in 1 .. MaxDay
    PROVE  LoopType'
BY DEF LoopType, Proceed

\* Of what is listed there is a newest, while anything is listed.
LEMMA NewestIsListed ==
    ASSUME NEW todo \in SUBSET (Ids \X Nat), todo # {} PROVE Newest(todo) \in todo
<1> DEFINE D == {e[1] : e \in todo}
<1>1. D \in SUBSET (1 .. MaxId) /\ D # {}
  BY DEF Ids
<1>2. Max(D) \in D /\ \A y \in D : Max(D) >= y
  BY <1>1, MaxIsLargest, LimitsAssumption
<1>3. PICK e \in todo : e[1] = Max(D)
  BY <1>2
<1>4. \A f \in todo : f[1] <= e[1]
  BY <1>1, <1>2, <1>3
<1> QED BY <1>3, <1>4 DEF Newest

LEMMA LargestActive ==
    ASSUME StoreInv, NEW i PROVE ActiveOf(i) # {} => Max(ActiveOf(i)) \in ActiveOf(i)
<1>1. ActiveOf(i) \in SUBSET (1 .. MaxId)
  BY DEF StoreInv, TablesType, CheckpointsType, ActiveOf, Ids
<1> QED BY <1>1, MaxIsLargest, LimitsAssumption

\* Events are sent.
LEMMA SenderTypes ==
    ASSUME StoreInv, Sender PROVE StoreInv'
<1> USE DEF StoreInv
<1>1. LoopType' /\ RequestType' /\ TablesType'
  BY DEF Sender, SendFree, SendDuration, SendTimeline, tables, LoopType, RequestType, TablesType,
         AppsType, CheckpointsType, TimelineType, AppRow, CheckpointRow, TimelineRow
<1>2. ASSUME NEW kind \in Kinds, NEW name \in Names, NEW n \in Nat, Send(kind, name, n),
             sent + 1 <= MaxEvents, half' # None => sent + 2 <= MaxEvents
      PROVE  QueueType' /\ sent' \in 0 .. MaxEvents
  BY <1>2, LimitsAssumption DEF Send, QueueType, ScalarsType
<1>3. QueueType' /\ sent' \in 0 .. MaxEvents
  <2>1. ASSUME NEW name \in Names, SendFree(name) PROVE QueueType' /\ sent' \in 0 .. MaxEvents
    <3>1. sent + 1 <= MaxEvents /\ (half' # None => sent + 2 <= MaxEvents)
      BY <2>1, LimitsAssumption DEF SendFree, ScalarsType
    <3>2. \/ Send("Launches", name, 0)
          \/ \E n \in Lengths : Send("LongestSession", name, n)
      BY <2>1 DEF SendFree
    <3> QED BY <1>2, <3>1, <3>2, LimitsAssumption DEF Kinds, Lengths
  <2>2. ASSUME NEW name \in Names, SendDuration(name) PROVE QueueType' /\ sent' \in 0 .. MaxEvents
    BY <1>2, <2>2, LimitsAssumption DEF SendDuration, Kinds, ScalarsType
  <2>3. ASSUME SendTimeline PROVE QueueType' /\ sent' \in 0 .. MaxEvents
    BY <1>2, <2>3 DEF SendTimeline, Kinds, ScalarsType, QueueType
  <2> QED BY <2>1, <2>2, <2>3 DEF Sender
<1>4. ScalarsType'
  BY <1>3 DEF Sender, SendFree, SendDuration, SendTimeline, ScalarsType
<1> QED BY <1>1, <1>3, <1>4

\* A step that leaves the tables, the channel and the requests alone.
LEMMA OnlyTheLoop ==
    ASSUME StoreInv, LoopType', UNCHANGED <<tables, day, channel, upc, crashes>>
    PROVE  StoreInv'
BY DEF StoreInv, tables, channel, TablesType, AppsType, CheckpointsType, TimelineType, AppRow,
       CheckpointRow, TimelineRow, ScalarsType, QueueType, RequestType

LEMMA ReceiveTypes ==
    ASSUME StoreInv, Receive PROVE StoreInv'
<1> USE DEF StoreInv
<1>1. TablesType' /\ ScalarsType' /\ RequestType'
  BY DEF Receive, tables, TablesType, AppsType, CheckpointsType, TimelineType, AppRow,
         CheckpointRow, TimelineRow, ScalarsType, RequestType
<1>2. Head(queue) \in [kind : Kinds, name : Names, n : Nat]
      /\ Tail(queue) \in Seq([kind : Kinds, name : Names, n : Nat])
  <2> DEFINE Events == [kind : Kinds, name : Names, n : Nat]
  <2>1. queue \in Seq(Events) /\ queue # << >>
    BY DEF Receive, QueueType
  <2> HIDE DEF Events
  <2>2. Head(queue) \in Events /\ Tail(queue) \in Seq(Events)
    BY <2>1
  <2> QED BY <2>2 DEF Events
<1>3. QueueType'
  BY <1>2 DEF Receive, QueueType
<1>4. LoopType'
  BY <1>2 DEF Receive, LoopType, LoopStates
<1> QED BY <1>1, <1>3, <1>4

LEMMA WriteAppTypes ==
    ASSUME StoreInv, WriteApp PROVE StoreInv'
<1> USE DEF StoreInv
<1>1. LoopType'
  <2>1. Finish \/ Proceed("list", loop.id, 0)
    BY DEF WriteApp
  <2>2. loop.id \in Nat
    BY DEF LoopType
  <2> QED BY <2>1, <2>2, FinishType, ProceedType DEF LoopStates
<1>2. AppsType' /\ DOMAIN apps' = DOMAIN apps
  <2>1. CASE loop.id \notin DOMAIN apps
    BY <2>1 DEF WriteApp, TablesType, AppsType, AppRow
  <2>2. CASE loop.id \in DOMAIN apps
    <3>1. Written(apps[loop.id]) \in AppRow
      <4>1. loop.kind \in {"Duration", "Launches", "LongestSession"}
        BY DEF WriteApp, LoopType, Kinds
      <4>2. apps[loop.id] \in AppRow /\ loop.val + 1 \in Nat /\ loop.n \in Nat
        BY <2>2 DEF TablesType, AppsType, LoopType
      <4> QED BY <4>1, <4>2 DEF Written, AppRow
    <3>2. apps' = [apps EXCEPT ![loop.id] = Written(apps[loop.id])]
      BY <2>2 DEF WriteApp
    <3> HIDE DEF AppRow
    <3>3. \A i \in DOMAIN apps : apps'[i] \in AppRow
      BY <3>1, <3>2 DEF TablesType, AppsType
    <3>4. DOMAIN apps' = DOMAIN apps
      BY <3>2
    <3> QED BY <3>3, <3>4 DEF TablesType, AppsType, AppRow
  <2> QED BY <2>1, <2>2
<1>3. CheckpointsType' /\ TimelineType'
  BY <1>2 DEF WriteApp, TablesType, CheckpointsType, TimelineType, CheckpointRow, TimelineRow
<1>4. ScalarsType' /\ QueueType' /\ RequestType'
  BY DEF WriteApp, channel, ScalarsType, QueueType, RequestType
<1> QED BY <1>1, <1>2, <1>3, <1>4 DEF TablesType

LEMMA ListActiveTypes ==
    ASSUME StoreInv, ListActive PROVE StoreInv'
<1> USE DEF StoreInv
<1> DEFINE listed == {<<c, CheckpointColumn(checkpoints[c])>> : c \in ActiveOf(loop.id)}
<1>1. listed \subseteq Ids \X Nat
  BY DEF ActiveOf, TablesType, CheckpointsType, CheckpointRow, CheckpointColumn
<1>2. CASE ActiveOf(loop.id) = {}
  BY <1>2, FinishType, OnlyTheLoop DEF ListActive, tables
<1>3. CASE ActiveOf(loop.id) # {}
  <2>3. PICK c \in ActiveOf(loop.id) : TRUE
    BY <1>3
  <2>4. <<c, CheckpointColumn(checkpoints[c])>> \in listed
    BY <2>3
  <2>5. loop' = [loop EXCEPT !.at = "each", !.todo = listed]
    BY <1>3, Zenon DEF ListActive
  <2>1. listed # {} /\ loop' = [loop EXCEPT !.at = "each", !.todo = listed]
    BY <2>4, <2>5
  <2> HIDE DEF listed
  <2>2. LoopType'
    BY <1>1, <2>1 DEF LoopType, LoopStates
  <2> QED BY <2>2, OnlyTheLoop DEF ListActive, tables
<1> QED BY <1>2, <1>3

LEMMA WriteCheckpointTypes ==
    ASSUME StoreInv, WriteCheckpoint PROVE StoreInv'
<1> USE DEF StoreInv
<1> DEFINE e == Newest(loop.todo)
           c == e[1]
<1>1. e \in loop.todo /\ c \in Ids /\ e[2] + 1 \in Nat
  BY NewestIsListed DEF WriteCheckpoint, LoopType
<1>2. LoopType'
  <2>1. CASE loop.todo = {e}
    BY <2>1, FinishType DEF WriteCheckpoint
  <2>2. CASE loop.todo # {e}
    <3>1. loop' = [loop EXCEPT !.todo = loop.todo \ {e}]
      BY <2>2 DEF WriteCheckpoint
    <3>2. loop.todo \ {e} # {}
      BY <1>1, <2>2
    <3> HIDE DEF e
    <3> QED BY <3>1, <3>2 DEF LoopType
  <2> QED BY <2>1, <2>2
<1>3. CheckpointsType' /\ DOMAIN checkpoints' = DOMAIN checkpoints
  <2>1. CASE c \notin DOMAIN checkpoints
    BY <2>1 DEF WriteCheckpoint, TablesType, CheckpointsType, CheckpointRow
  <2>2. CASE c \in DOMAIN checkpoints
    <3>1. \/ checkpoints' = [checkpoints EXCEPT ![c].duration = e[2] + 1]
          \/ checkpoints' = [checkpoints EXCEPT ![c].sessions = e[2] + 1]
      BY <2>2 DEF WriteCheckpoint
    <3>2. checkpoints[c] \in CheckpointRow
      BY <2>2 DEF TablesType, CheckpointsType
    <3> HIDE DEF e
    <3>3. /\ [checkpoints[c] EXCEPT !.duration = e[2] + 1] \in CheckpointRow
          /\ [checkpoints[c] EXCEPT !.sessions = e[2] + 1] \in CheckpointRow
      BY <1>1, <3>2 DEF CheckpointRow
    <3>4. \A d \in DOMAIN checkpoints : checkpoints'[d] \in CheckpointRow
      BY <3>1, <3>3 DEF TablesType, CheckpointsType
    <3>5. DOMAIN checkpoints' = DOMAIN checkpoints /\ CheckpointRow' = CheckpointRow
      BY <3>1 DEF WriteCheckpoint, CheckpointRow
    <3> QED BY <3>4, <3>5 DEF TablesType, CheckpointsType
  <2> QED BY <2>1, <2>2
<1>4. AppsType' /\ TimelineType'
  BY <1>3 DEF WriteCheckpoint, TablesType, AppsType, AppRow, TimelineType, TimelineRow
<1>5. ScalarsType' /\ QueueType' /\ RequestType'
  BY DEF WriteCheckpoint, channel, ScalarsType, QueueType, RequestType
<1> QED BY <1>2, <1>3, <1>4, <1>5 DEF TablesType

\* The statements that only find a row and the ones that give up.
LEMMA LookupTypes ==
    ASSUME StoreInv, FindNone \/ FindOne \/ FindEntry \/ FindCover \/ LoopFails
    PROVE  StoreInv'
<1> USE DEF StoreInv
<1>0. loop.id \in Nat /\ DOMAIN apps \subseteq Nat /\ DOMAIN timeline \subseteq Nat
      /\ DOMAIN checkpoints \subseteq Nat
  BY DEF LoopType, TablesType, AppsType, CheckpointsType, TimelineType, Ids
<1>1. CASE FindNone
  BY <1>1, FinishType, OnlyTheLoop DEF FindNone, tables
<1>2. CASE FindOne
  <2>1. PICK i \in Named(loop.name) :
           \/ Finish
           \/ loop' = [loop EXCEPT !.at = IF loop.kind = "Timeline" THEN "entry" ELSE "write",
                                   !.id = i, !.val = ReadColumn(apps[i]),
                                   !.day = IF loop.kind = "Timeline" THEN day ELSE 0]
    BY <1>2 DEF FindOne
  <2>2. i \in Nat /\ ReadColumn(apps[i]) \in Nat
    <3>1. i \in Nat /\ apps[i] \in AppRow /\ loop.kind \in Kinds
      BY <1>0 DEF Named, LoopType, TablesType, AppsType
    <3>2. CASE loop.kind = "Duration"
      BY <3>1, <3>2 DEF ReadColumn, AppRow
    <3>3. CASE loop.kind = "Launches"
      BY <3>1, <3>3 DEF ReadColumn, AppRow
    <3>4. CASE loop.kind = "LongestSession"
      BY <3>1, <3>4 DEF ReadColumn, AppRow
    <3>5. CASE loop.kind = "Timeline"
      BY <3>1, <3>5 DEF ReadColumn
    <3> QED BY <3>1, <3>2, <3>3, <3>4, <3>5 DEF Kinds
  <2>3. CASE Finish
    BY <1>2, <2>3, FinishType, OnlyTheLoop DEF FindOne, tables
  <2>4. CASE loop' = [loop EXCEPT !.at = IF loop.kind = "Timeline" THEN "entry" ELSE "write",
                                  !.id = i, !.val = ReadColumn(apps[i]),
                                  !.day = IF loop.kind = "Timeline" THEN day ELSE 0]
    <3>1. LoopType'
      <4>1. day \in 1 .. MaxDay /\ day \in Nat
        BY LimitsAssumption DEF ScalarsType
      <4>2. CASE loop.kind = "Timeline"
        <5>1. loop' = [loop EXCEPT !.at = "entry", !.id = i, !.val = ReadColumn(apps[i]),
                                   !.day = day]
          BY <2>4, <4>2
        <5> QED BY <2>2, <4>1, <5>1 DEF LoopType, LoopStates
      <4>3. CASE loop.kind # "Timeline"
        <5>1. loop' = [loop EXCEPT !.at = "write", !.id = i, !.val = ReadColumn(apps[i]),
                                   !.day = 0]
          BY <2>4, <4>3
        <5> QED BY <2>2, <4>3, <5>1 DEF LoopType, LoopStates
      <4> QED BY <4>2, <4>3
    <3> QED BY <1>2, <3>1, OnlyTheLoop DEF FindOne, tables
  <2> QED BY <2>1, <2>3, <2>4
<1>3. CASE FindEntry
  <2>1. \/ Proceed("cover", loop.id, 0)
        \/ \E t \in DOMAIN timeline : Proceed("grow", t, timeline[t].minutes)
    BY <1>3 DEF FindEntry, DayRows
  <2>2. \A t \in DOMAIN timeline : timeline[t].minutes \in Nat
    BY DEF TablesType, TimelineType, TimelineRow
  <2>3. loop.day \in 1 .. MaxDay
    BY <1>3 DEF FindEntry, LoopType
  <2>4. LoopType'
    BY <1>0, <2>1, <2>2, <2>3, ProceedType DEF LoopStates
  <2> QED BY <1>3, <2>4, OnlyTheLoop DEF FindEntry, tables
<1>4. CASE FindCover
  <2>1. PICK c : c \in ActiveOf(loop.id) \cup {0} /\ Proceed("start", loop.id, c)
    BY <1>4, LargestActive DEF FindCover
  <2>2. c \in Nat /\ loop.day \in 1 .. MaxDay
    BY <1>0, <1>4, <2>1 DEF FindCover, ActiveOf, LoopType
  <2>3. LoopType'
    BY <1>0, <2>1, <2>2, ProceedType DEF LoopStates
  <2> QED BY <1>4, <2>3, OnlyTheLoop DEF FindCover, tables
<1>5. CASE LoopFails
  <2>1. CASE loop.at = "each" /\ Cardinality(loop.todo) > 1
    <3> DEFINE e == Newest(loop.todo)
    <3>1. loop' = [loop EXCEPT !.todo = loop.todo \ {e}]
      BY <1>5, <2>1 DEF LoopFails
    <3> HIDE DEF e
    <3>2. loop.todo \ {e} # {}
      <4>1. SUFFICES ASSUME loop.todo \subseteq {e} PROVE FALSE
        OBVIOUS
      <4>2. Cardinality({e}) = 1 /\ IsFiniteSet({e})
        BY FS_Singleton
      <4>3. Cardinality(loop.todo) <= Cardinality({e}) /\ Cardinality(loop.todo) \in Nat
        BY <4>1, <4>2, FS_Subset, FS_CardinalityType
      <4> QED BY <2>1, <4>2, <4>3
    <3>3. LoopType'
      BY <3>1, <3>2 DEF LoopType
    <3> QED BY <1>5, <3>3, OnlyTheLoop DEF LoopFails, tables
  <2>2. CASE loop.at = "cover"
    <3>1. Proceed("start", loop.id, 0) /\ loop.day \in 1 .. MaxDay
      BY <1>5, <2>2 DEF LoopFails, LoopType
    <3>2. LoopType'
      BY <1>0, <3>1, ProceedType DEF LoopStates
    <3> QED BY <1>5, <3>2, OnlyTheLoop DEF LoopFails, tables
  <2>3. CASE ~(loop.at = "each" /\ Cardinality(loop.todo) > 1) /\ loop.at # "cover"
    BY <1>5, <2>3, FinishType, OnlyTheLoop DEF LoopFails, tables
  <2> QED BY <2>1, <2>2, <2>3
<1> QED BY <1>1, <1>2, <1>3, <1>4, <1>5

LEMMA TimelineWriteTypes ==
    ASSUME StoreInv, GrowEntry \/ StartEntry PROVE StoreInv'
<1> USE DEF StoreInv
<1>1. LoopType'
  BY FinishType DEF GrowEntry, StartEntry
<1>2. TimelineType'
  <2>1. CASE GrowEntry
    <3>1. loop.val + 1 \in Nat
      BY DEF LoopType
    <3> QED BY <2>1, <3>1 DEF GrowEntry, TablesType, TimelineType, TimelineRow
  <2>2. CASE StartEntry
    <3> DEFINE row == [app |-> loop.id, day |-> loop.day, minutes |-> 1, checkpoint |-> loop.val]
               new == NextId(timeline)
    <3>1. CASE timeline' = timeline
      BY <2>2, <3>1 DEF StartEntry, TablesType, TimelineType, TimelineRow
    <3>2. CASE timeline' # timeline
      <4>1. timeline' = [j \in DOMAIN timeline \cup {new} |-> IF j = new THEN row ELSE timeline[j]]
        BY <2>2, <3>2 DEF StartEntry, Insert
      <4>2. new \in Ids /\ row \in TimelineRow
        BY <2>2, <3>2 DEF StartEntry, LoopType, TimelineRow
      <4>3. TimelineRow' = TimelineRow
        BY <2>2 DEF StartEntry, TimelineRow
      <4> HIDE DEF new, row
      <4> QED BY <4>1, <4>2, <4>3 DEF TablesType, TimelineType
    <3> QED BY <3>1, <3>2
  <2> QED BY <2>1, <2>2
<1>3. AppsType' /\ CheckpointsType'
  BY DEF GrowEntry, StartEntry, TablesType, AppsType, AppRow, CheckpointsType, CheckpointRow
<1>4. ScalarsType' /\ QueueType' /\ RequestType'
  BY DEF GrowEntry, StartEntry, channel, ScalarsType, QueueType, RequestType
<1> QED BY <1>1, <1>2, <1>3, <1>4 DEF TablesType

\* A request that only reads, or ends.
LEMMA OnlyTheRequest ==
    ASSUME StoreInv, RequestType', UNCHANGED <<tables, day, channel, loop, crashes>>
    PROVE  StoreInv'
BY DEF StoreInv, tables, channel, TablesType, AppsType, CheckpointsType, TimelineType, AppRow,
       CheckpointRow, TimelineRow, ScalarsType, QueueType, LoopType

\* A request that changes the tables.
LEMMA OnlyTheTables ==
    ASSUME StoreInv, RequestType', TablesType', UNCHANGED <<day, channel, loop, crashes>>
    PROVE  StoreInv'
BY DEF StoreInv, channel, ScalarsType, QueueType, LoopType

LEMMA ReplyType ==
    ASSUME RequestType, NEW u \in Users, Reply(u) PROVE RequestType'
BY DEF RequestType, Reply, Idle, UserStates

LEMMA ContinueType ==
    ASSUME RequestType, NEW u \in Users,
           NEW locals \in [at : UserStates, name : Names \cup {None}, id : Nat, val : Nat,
                           day : Nat, todo : SUBSET Ids],
           locals.at \in {"maxid", "insert"} => locals.name \in Names,
           locals.at = "insert" => locals.id \in Ids,
           Continue(u, locals)
    PROVE  RequestType'
BY DEF RequestType, Continue

LEMMA IdleType ==
    Idle \in [at : UserStates, name : Names \cup {None}, id : Nat, val : Nat, day : Nat,
              todo : SUBSET Ids]
BY DEF Idle, UserStates

\* Rows of the timeline that refer to apps in D and checkpoints in C.
Refers(rows, D, C) ==
    \A t \in DOMAIN rows : rows[t] \in [app : D, day : 1 .. MaxDay, minutes : Nat,
                                       checkpoint : C \cup {0}]

\* Clearing the covers that go keeps the references.
LEMMA UncoveredTypes ==
    ASSUME NEW rows, NEW gone, NEW D, NEW C, Refers(rows, D, C)
    PROVE  /\ DOMAIN Uncovered(rows, gone) = DOMAIN rows
           /\ Refers(Uncovered(rows, gone), D, C \ gone)
<1>1. DOMAIN Uncovered(rows, gone) = DOMAIN rows
  BY DEF Uncovered
<1>2. ASSUME NEW t \in DOMAIN rows
      PROVE  Uncovered(rows, gone)[t] \in [app : D, day : 1 .. MaxDay, minutes : Nat,
                                           checkpoint : (C \ gone) \cup {0}]
  <2>1. Uncovered(rows, gone)[t] = IF rows[t].checkpoint \in gone
                                   THEN [rows[t] EXCEPT !.checkpoint = 0] ELSE rows[t]
    BY DEF Uncovered
  <2> QED BY <2>1 DEF Refers
<1> QED BY <1>1, <1>2 DEF Refers

LEMMA DeleteAppTypes ==
    ASSUME StoreInv, NEW u \in Users, NEW n \in Names, DeleteApp(u, n) PROVE StoreInv'
<1> USE DEF StoreInv
<1> DEFINE goneC == {c \in DOMAIN checkpoints : checkpoints[c].app \in Named(n)}
           goneT == {t \in DOMAIN timeline : timeline[t].app \in Named(n)}
           kept == Delete(timeline, goneT)
<1>1. /\ DOMAIN apps' = DOMAIN apps \ Named(n)
      /\ \A i \in DOMAIN apps' : apps'[i] = apps[i]
  BY DEF DeleteApp, Delete, Restrict
<1>2. /\ DOMAIN checkpoints' = DOMAIN checkpoints \ goneC
      /\ \A c \in DOMAIN checkpoints' : checkpoints'[c] = checkpoints[c]
  BY DEF DeleteApp, Delete, Restrict
<1>3. timeline' = Uncovered(kept, goneC)
  BY DEF DeleteApp
<1>4. AppsType'
  BY <1>1 DEF TablesType, AppsType, AppRow
<1>5. CheckpointsType'
  <2>1. DOMAIN checkpoints' \subseteq Ids
    BY <1>2 DEF TablesType, CheckpointsType
  <2>2. ASSUME NEW c \in DOMAIN checkpoints' PROVE checkpoints'[c] \in CheckpointRow'
    <3>1. c \in DOMAIN checkpoints /\ checkpoints[c].app \notin Named(n)
          /\ checkpoints'[c] = checkpoints[c]
      BY <1>2, <2>2
    <3>2. checkpoints[c] \in CheckpointRow
      BY <3>1 DEF TablesType, CheckpointsType
    <3>3. checkpoints[c].app \in DOMAIN apps'
      BY <1>1, <3>1, <3>2 DEF CheckpointRow
    <3> QED BY <3>1, <3>2, <3>3 DEF CheckpointRow
  <2> QED BY <2>1, <2>2 DEF CheckpointsType
<1>6. TimelineType'
  <2>1. DOMAIN kept \subseteq Ids /\ Refers(kept, DOMAIN apps', DOMAIN checkpoints)
    <3>1. /\ DOMAIN kept = DOMAIN timeline \ goneT
          /\ \A t \in DOMAIN kept : kept[t] = timeline[t]
      BY DEF Delete, Restrict
    <3>2. \A t \in DOMAIN timeline : timeline[t] \in TimelineRow
      BY DEF TablesType, TimelineType
    <3> HIDE DEF kept
    <3> QED BY <1>1, <3>1, <3>2 DEF TablesType, TimelineType, TimelineRow, Refers
  <2> HIDE DEF kept, goneC
  <2>2. /\ DOMAIN timeline' = DOMAIN kept
        /\ Refers(timeline', DOMAIN apps', DOMAIN checkpoints \ goneC)
    BY <1>3, <2>1, UncoveredTypes
  <2>3. DOMAIN checkpoints \ goneC = DOMAIN checkpoints'
    BY <1>2
  <2> QED BY <2>1, <2>2, <2>3 DEF TimelineType, TimelineRow, Refers
<1>7. RequestType'
  BY DEF DeleteApp, RequestType
<1> QED BY <1>4, <1>5, <1>6, <1>7, OnlyTheTables DEF DeleteApp, TablesType

LEMMA DeleteCheckpointTypes ==
    ASSUME StoreInv, NEW u \in Users, NEW c \in Ids, DeleteCheckpoint(u, c) PROVE StoreInv'
<1> USE DEF StoreInv
<1>1. /\ DOMAIN checkpoints' = DOMAIN checkpoints \ {c}
      /\ \A d \in DOMAIN checkpoints' : checkpoints'[d] = checkpoints[d]
  BY DEF DeleteCheckpoint, Delete, Restrict
<1>2. AppsType' /\ DOMAIN apps' = DOMAIN apps
  BY DEF DeleteCheckpoint, TablesType, AppsType, AppRow
<1>3. CheckpointsType'
  BY <1>1, <1>2 DEF TablesType, CheckpointsType, CheckpointRow
<1>4. TimelineType'
  <2>1. Refers(timeline, DOMAIN apps, DOMAIN checkpoints)
    BY DEF TablesType, TimelineType, TimelineRow, Refers
  <2>2. timeline' = Uncovered(timeline, {c})
    BY DEF DeleteCheckpoint
  <2>3. /\ DOMAIN timeline' = DOMAIN timeline
        /\ Refers(timeline', DOMAIN apps, DOMAIN checkpoints \ {c})
    BY <2>1, <2>2, UncoveredTypes
  <2> QED BY <1>1, <1>2, <2>3 DEF TablesType, TimelineType, TimelineRow, Refers
<1>5. RequestType'
  BY DEF DeleteCheckpoint, RequestType
<1> QED BY <1>2, <1>3, <1>4, <1>5, OnlyTheTables DEF DeleteCheckpoint, TablesType

LEMMA AddTypes ==
    ASSUME StoreInv, NEW u \in Users, AddProcess(u) PROVE StoreInv'
<1> USE DEF StoreInv
<1>1. ASSUME NEW n \in Names, AddCheck(u, n) PROVE StoreInv'
  <2>1. RequestType'
    BY <1>1, IdleType, ContinueType DEF AddCheck, UserStates
  <2> QED BY <1>1, <2>1, OnlyTheRequest DEF AddCheck
<1>2. CASE ReadMaxId(u)
  <2>1. RequestType'
    <3> DEFINE next == NextId(apps)
    <3>1. next \in Ids /\ next \in Nat /\ upc[u].name \in Names
          /\ Continue(u, [upc[u] EXCEPT !.at = "insert", !.id = next])
      BY <1>2 DEF ReadMaxId, Ids, At, RequestType
    <3> HIDE DEF next
    <3> QED BY <3>1, ContinueType DEF RequestType, UserStates
  <2> QED BY <1>2, <2>1, OnlyTheRequest DEF ReadMaxId
<1>3. CASE InsertApp(u)
  <2>1. RequestType'
    BY <1>3, ReplyType DEF InsertApp
  <2> DEFINE row == [name |-> upc[u].name, duration |-> 0, launches |-> 0, longest |-> 0]
             new == upc[u].id
  <2>2. new \in Ids /\ row \in AppRow
    BY <1>3 DEF InsertApp, At, RequestType, AppRow
  <2>3. AppsType' /\ DOMAIN apps \subseteq DOMAIN apps'
    <3>1. CASE apps' = apps
      BY <3>1 DEF TablesType, AppsType, AppRow
    <3>2. CASE apps' # apps
      <4>1. apps' = Insert(apps, new, row)
        BY <1>3, <3>2 DEF InsertApp
      <4> HIDE DEF row, new
      <4>2. /\ DOMAIN apps' = DOMAIN apps \cup {new}
            /\ \A j \in DOMAIN apps \cup {new} : apps'[j] = IF j = new THEN row ELSE apps[j]
        BY <2>2, <4>1 DEF Insert
      <4> QED BY <2>2, <4>2 DEF TablesType, AppsType, AppRow
    <3> QED BY <3>1, <3>2
  <2>4. CheckpointsType'
    BY <1>3, <2>3 DEF InsertApp, TablesType, CheckpointsType, CheckpointRow
  <2>5. TimelineType'
    BY <1>3, <2>3 DEF InsertApp, TablesType, TimelineType, TimelineRow
  <2> QED BY <1>3, <2>1, <2>3, <2>4, <2>5, OnlyTheTables DEF InsertApp, TablesType
<1> QED BY <1>1, <1>2, <1>3 DEF AddProcess

LEMMA CreateTypes ==
    ASSUME StoreInv, NEW u \in Users, NEW i \in Ids, CreateCheckpoint(u, i) PROVE StoreInv'
<1> USE DEF StoreInv
<1> DEFINE row == [app |-> i, active |-> FALSE, duration |-> 0, sessions |-> 0]
           new == NextId(checkpoints)
<1>1. new \in Ids /\ row \in CheckpointRow /\ checkpoints' = Insert(checkpoints, new, row)
  BY DEF CreateCheckpoint, CheckpointRow
<1>2. AppsType' /\ CheckpointRow' = CheckpointRow
  BY DEF CreateCheckpoint, TablesType, AppsType, AppRow, CheckpointRow
<1> HIDE DEF row, new
<1>3. /\ DOMAIN checkpoints' = DOMAIN checkpoints \cup {new}
      /\ \A j \in DOMAIN checkpoints \cup {new} :
            checkpoints'[j] = IF j = new THEN row ELSE checkpoints[j]
  BY <1>1 DEF Insert
<1>4. CheckpointsType'
  BY <1>1, <1>2, <1>3 DEF TablesType, CheckpointsType
<1>5. TimelineType'
  BY <1>3 DEF CreateCheckpoint, TablesType, TimelineType, TimelineRow
<1>6. RequestType'
  BY DEF CreateCheckpoint, RequestType
<1> QED BY <1>2, <1>4, <1>5, <1>6, OnlyTheTables DEF CreateCheckpoint, TablesType

\* A row whose flag is set is still a row.
LEMMA FlagTypes ==
    ASSUME CheckpointsType, NEW c \in DOMAIN checkpoints, NEW b \in BOOLEAN,
           checkpoints' = [checkpoints EXCEPT ![c].active = b], apps' = apps
    PROVE  CheckpointsType' /\ DOMAIN checkpoints' = DOMAIN checkpoints
<1>1. checkpoints[c] \in CheckpointRow
  BY DEF CheckpointsType
<1>2. [checkpoints[c] EXCEPT !.active = b] \in CheckpointRow
  BY <1>1 DEF CheckpointRow
<1>3. CheckpointRow' = CheckpointRow
  BY DEF CheckpointRow
<1> QED BY <1>2, <1>3 DEF CheckpointsType

LEMMA SwitchTypes ==
    ASSUME StoreInv, NEW u \in Users, Switch(u) PROVE StoreInv'
<1> USE DEF StoreInv
<1>0. DOMAIN apps \subseteq Nat /\ DOMAIN checkpoints \subseteq Nat
  BY DEF TablesType, AppsType, CheckpointsType, Ids
<1>1. ASSUME NEW c \in Ids, NEW on \in BOOLEAN, SetActive(u, c, on) PROVE StoreInv'
  <2> DEFINE val == IF on THEN 1 ELSE 0
             at == IF on THEN "others" ELSE "self"
             app == checkpoints[c].app
  <2>1. /\ val \in Nat /\ at \in {"others", "self"} /\ c \in Nat
        /\ Continue(u, [Idle EXCEPT !.at = at, !.id = c, !.val = val, !.day = app])
    BY <1>0, <1>1 DEF SetActive
  <2>2. app \in Nat
    BY <1>0, <1>1 DEF SetActive, TablesType, CheckpointsType, CheckpointRow
  <2> HIDE DEF val, at, app
  <2>3. RequestType'
    BY <2>1, <2>2, IdleType, ContinueType DEF UserStates
  <2> QED BY <1>1, <2>3, OnlyTheRequest DEF SetActive
<1>2. CASE ListOthers(u)
  <2> DEFINE others == ActiveOf(upc[u].day) \ {upc[u].id}
             at == IF others = {} THEN "self" ELSE "each"
  <2>1. /\ others \subseteq Ids /\ at \in {"self", "each"}
        /\ Continue(u, [upc[u] EXCEPT !.at = at, !.todo = others])
    BY <1>2 DEF ListOthers, ActiveOf, TablesType, CheckpointsType
  <2> HIDE DEF others, at
  <2>2. RequestType'
    BY <2>1, ContinueType DEF RequestType, UserStates
  <2> QED BY <1>2, <2>2, OnlyTheRequest DEF ListOthers
<1>3. CASE DeactivateOther(u)
  <2>1. PICK c \in upc[u].todo :
           IF c \in DOMAIN checkpoints
           THEN /\ checkpoints' = [checkpoints EXCEPT ![c].active = FALSE]
                /\ Continue(u, [upc[u] EXCEPT !.at = IF upc[u].todo = {c} THEN "self" ELSE @,
                                              !.todo = @ \ {c}])
           ELSE Reply(u) /\ UNCHANGED checkpoints
    BY <1>3 DEF DeactivateOther
  <2>2. AppsType' /\ apps' = apps
    BY <1>3 DEF DeactivateOther, TablesType, AppsType, AppRow
  <2>3. CASE c \in DOMAIN checkpoints
    <3>1. CheckpointsType' /\ DOMAIN checkpoints' = DOMAIN checkpoints
      BY <2>1, <2>2, <2>3, FlagTypes DEF TablesType
    <3>2. TimelineType'
      BY <1>3, <3>1 DEF DeactivateOther, TablesType, TimelineType, TimelineRow
    <3> DEFINE at == IF upc[u].todo = {c} THEN "self" ELSE "each"
               rest == upc[u].todo \ {c}
    <3>3. /\ Continue(u, [upc[u] EXCEPT !.at = at, !.todo = rest])
          /\ rest \subseteq Ids /\ at \in {"self", "each"}
      BY <1>3, <2>1, <2>3 DEF DeactivateOther, At, RequestType
    <3> HIDE DEF at, rest
    <3>4. RequestType'
      BY <3>3, ContinueType DEF RequestType, UserStates
    <3> QED BY <1>3, <2>2, <3>1, <3>2, <3>4, OnlyTheTables DEF DeactivateOther, TablesType
  <2>4. CASE c \notin DOMAIN checkpoints
    <3>1. RequestType'
      BY <2>1, <2>4, ReplyType
    <3> QED BY <1>3, <2>1, <2>4, <3>1, OnlyTheRequest DEF DeactivateOther, tables
  <2> QED BY <2>3, <2>4
<1>4. CASE SetSelf(u)
  <2>1. RequestType'
    BY <1>4, ReplyType DEF SetSelf
  <2>2. AppsType' /\ apps' = apps
    BY <1>4 DEF SetSelf, TablesType, AppsType, AppRow
  <2>3. CASE upc[u].id \notin DOMAIN checkpoints
    BY <1>4, <2>1, <2>3, OnlyTheRequest DEF SetSelf, tables
  <2>4. CASE upc[u].id \in DOMAIN checkpoints
    <3>1. CheckpointsType' /\ DOMAIN checkpoints' = DOMAIN checkpoints
      BY <1>4, <2>2, <2>4, FlagTypes DEF SetSelf, TablesType
    <3>2. TimelineType'
      BY <1>4, <3>1 DEF SetSelf, TablesType, TimelineType, TimelineRow
    <3> QED BY <1>4, <2>1, <2>2, <3>1, <3>2, OnlyTheTables DEF SetSelf, TablesType
  <2> QED BY <2>3, <2>4
<1> QED BY <1>1, <1>2, <1>3, <1>4 DEF Switch

LEMMA InitTypes == Init => StoreInv
<1> SUFFICES ASSUME Init PROVE StoreInv
  OBVIOUS
<1>1. TablesType
  BY DEF Init, TablesType, AppsType, CheckpointsType, TimelineType
<1>2. ScalarsType /\ QueueType
  BY LimitsAssumption DEF Init, ScalarsType, QueueType
<1>3. LoopType
  BY DEF Init, Booted, LoopType, LoopStates, Kinds
<1>4. RequestType
  BY IdleType DEF Init, RequestType, Idle
<1> QED BY <1>1, <1>2, <1>3, <1>4 DEF StoreInv

LEMMA NextTypes == StoreInv /\ [Next]_vars => StoreInv'
<1> SUFFICES ASSUME StoreInv, [Next]_vars PROVE StoreInv'
  OBVIOUS
<1>1. CASE Sender
  BY <1>1, SenderTypes
<1>2. CASE Midnight
  BY <1>2, LimitsAssumption
  DEF Midnight, tables, channel, StoreInv, TablesType, AppsType, CheckpointsType, TimelineType,
      AppRow, CheckpointRow, TimelineRow, ScalarsType, QueueType, RequestType, LoopType
<1>3. CASE Receive \/ Handle \/ LoopFails
  BY <1>3, ReceiveTypes, WriteAppTypes, ListActiveTypes, WriteCheckpointTypes, LookupTypes,
     TimelineWriteTypes DEF Handle
<1>4. ASSUME NEW u \in Users, User(u) PROVE StoreInv'
  <2>1. CASE RequestFails(u)
    <3>1. RequestType'
      BY <2>1, ReplyType DEF RequestFails, StoreInv
    <3> QED BY <2>1, <3>1, OnlyTheRequest DEF RequestFails
  <2> QED BY <1>4, <2>1, AddTypes, DeleteAppTypes, CreateTypes, DeleteCheckpointTypes,
             SwitchTypes DEF User, DeleteProcess, CreateOne, DeleteOne
<1>5. CASE Crash
  <2>1. TablesType'
    BY <1>5 DEF Crash, tables, StoreInv, TablesType, AppsType, CheckpointsType, TimelineType,
                AppRow, CheckpointRow, TimelineRow
  <2>2. ScalarsType' /\ QueueType'
    BY <1>5, LimitsAssumption DEF Crash, StoreInv, ScalarsType, QueueType
  <2>3. LoopType'
    BY <1>5 DEF Crash, Booted, LoopType, LoopStates, Kinds
  <2>4. RequestType'
    BY <1>5, IdleType DEF Crash, RequestType, Idle
  <2> QED BY <2>1, <2>2, <2>3, <2>4 DEF StoreInv
<1>6. CASE UNCHANGED vars
  BY <1>6 DEF vars, tables, channel, StoreInv, TablesType, AppsType, CheckpointsType,
              TimelineType, AppRow, CheckpointRow, TimelineRow, ScalarsType, QueueType,
              RequestType, LoopType
<1> QED BY <1>1, <1>2, <1>3, <1>4, <1>5, <1>6 DEF Next, Work

\* Whatever is added, deleted, switched and cut short by a crash, a row refers
\* to rows that exist and the columns hold what their types say.
THEOREM StoreTypes == Spec => []TypeOK
<1>1. StoreInv => TypeOK
  BY DEF StoreInv, TypeOK, TablesType, AppsType, CheckpointsType, TimelineType, AppRow,
         CheckpointRow, TimelineRow, ScalarsType, RequestType, LoopType
<1> QED BY <1>1, InitTypes, NextTypes, PTL DEF Spec

-----------------------------------------------------------------------------
(***************************************************************************)
(* One active checkpoint per app.  From the read of the checkpoint to the  *)
(* last update, the one user who activates knows every other active        *)
(* checkpoint of the app: they are still listed, and none is left when its *)
(* own is set.                                                             *)
(***************************************************************************)
ActiveIn(table, i) == {c \in DOMAIN table : table[c].app = i /\ table[c].active}
Switching(u) == upc[u].at \in {"others", "each", "self"}
Switched(u) ==
    /\ Switching(u) => u \in Activators
    /\ upc[u].at \in {"others", "each"} => upc[u].val = 1
    /\ Switching(u) /\ upc[u].val = 1 =>
          upc[u].id \in DOMAIN checkpoints /\ checkpoints[upc[u].id].app = upc[u].day
    /\ upc[u].at = "each" => ActiveIn(checkpoints, upc[u].day) \ {upc[u].id} \subseteq upc[u].todo
    /\ upc[u].at = "self" /\ upc[u].val = 1 => ActiveIn(checkpoints, upc[u].day) \subseteq {upc[u].id}
SwitchInv == StoreInv /\ OneActivePerApp /\ \A u \in Users : Switched(u)

\* A step that sets no flag: checkpoints stay as they are, new ones are inactive.
SameFlags ==
    /\ DOMAIN checkpoints \subseteq DOMAIN checkpoints'
    /\ \A c \in DOMAIN checkpoints : /\ checkpoints'[c].app = checkpoints[c].app
                                     /\ checkpoints'[c].active <=> checkpoints[c].active
    /\ \A c \in DOMAIN checkpoints' \ DOMAIN checkpoints : ~checkpoints'[c].active

LEMMA FlagsKept ==
    ASSUME SwitchInv, StoreInv', SameFlags,
           \A u \in Users : upc'[u] = upc[u] \/ upc'[u].at \in {"idle", "maxid", "insert"}
    PROVE  SwitchInv'
<1>1. OneActivePerApp'
  BY DEF SwitchInv, OneActivePerApp, SameFlags
<1>2. \A i : ActiveIn(checkpoints', i) = ActiveIn(checkpoints, i)
  BY DEF ActiveIn, SameFlags
<1>3. ASSUME NEW u \in Users PROVE Switched(u)'
  <2>1. CASE upc'[u] = upc[u]
    <3>1. ActiveIn(checkpoints', upc'[u].day) = ActiveIn(checkpoints, upc[u].day)
      BY <1>2, <2>1
    <3> QED BY <2>1, <3>1 DEF SwitchInv, Switched, Switching, SameFlags
  <2>2. CASE upc'[u].at \in {"idle", "maxid", "insert"}
    BY <2>2 DEF Switched, Switching
  <2> QED BY <2>1, <2>2
<1> QED BY <1>1, <1>3 DEF SwitchInv

\* The tables are left alone, and the request of one user moves on.
LEMMA SwitchReads ==
    ASSUME SwitchInv, StoreInv', NEW u \in Users, checkpoints' = checkpoints, Switched(u)',
           \A v \in Users \ {u} : upc'[v] = upc[v]
    PROVE  SwitchInv'
<1>1. OneActivePerApp'
  BY DEF SwitchInv, OneActivePerApp
<1>2. ASSUME NEW v \in Users, v # u PROVE Switched(v)'
  BY <1>2 DEF SwitchInv, Switched, Switching
<1> QED BY <1>1, <1>2 DEF SwitchInv

LEMMA SwitchKeeps ==
    ASSUME SwitchInv, StoreInv', NEW u \in Users, Switch(u),
           \A a, b \in Activators : a = b
    PROVE  SwitchInv'
<1>0. /\ DOMAIN upc = Users
      /\ \A c \in DOMAIN checkpoints : checkpoints[c] \in CheckpointRow
  BY DEF SwitchInv, StoreInv, RequestType, TablesType, CheckpointsType
<1>1. ASSUME NEW c \in Ids, NEW on \in BOOLEAN, SetActive(u, c, on) PROVE SwitchInv'
  <2>1. /\ upc'[u].at = (IF on THEN "others" ELSE "self") /\ upc'[u].id = c
        /\ upc'[u].val = (IF on THEN 1 ELSE 0) /\ upc'[u].day = checkpoints[c].app
        /\ \A v \in Users \ {u} : upc'[v] = upc[v]
    BY <1>0, <1>1 DEF SetActive, Continue, Idle
  <2>2. Switched(u)'
    BY <1>1, <2>1 DEF SetActive, tables, Switched, Switching
  <2> QED BY <1>1, <2>1, <2>2, SwitchReads DEF SetActive, tables
<1>2. CASE ListOthers(u)
  <2> DEFINE others == ActiveOf(upc[u].day) \ {upc[u].id}
  <2>1. /\ upc'[u] = [upc[u] EXCEPT !.at = IF others = {} THEN "self" ELSE "each",
                                    !.todo = others]
        /\ \A v \in Users \ {u} : upc'[v] = upc[v]
    BY <1>0, <1>2 DEF ListOthers, Continue
  <2>2. upc[u].at = "others" /\ checkpoints' = checkpoints
    BY <1>2 DEF ListOthers, At, tables
  <2>3. /\ upc'[u].at = (IF others = {} THEN "self" ELSE "each") /\ upc'[u].todo = others
        /\ upc'[u].id = upc[u].id /\ upc'[u].val = upc[u].val /\ upc'[u].day = upc[u].day
    BY <2>1 DEF SwitchInv, StoreInv, RequestType
  <2>4. others = ActiveIn(checkpoints', upc'[u].day) \ {upc'[u].id}
    BY <2>2, <2>3 DEF ActiveOf, ActiveIn
  <2>5. Switched(u)'
    BY <2>2, <2>3, <2>4 DEF SwitchInv, Switched, Switching
  <2> QED BY <2>1, <2>2, <2>5, SwitchReads
<1>3. CASE DeactivateOther(u)
  <2>1. PICK c \in upc[u].todo :
           IF c \in DOMAIN checkpoints
           THEN /\ checkpoints' = [checkpoints EXCEPT ![c].active = FALSE]
                /\ Continue(u, [upc[u] EXCEPT !.at = IF upc[u].todo = {c} THEN "self" ELSE @,
                                              !.todo = @ \ {c}])
           ELSE Reply(u) /\ UNCHANGED checkpoints
    BY <1>3 DEF DeactivateOther
  <2>2. CASE c \notin DOMAIN checkpoints
    BY <1>0, <2>1, <2>2, FlagsKept DEF Reply, Idle, SameFlags
  <2>3. CASE c \in DOMAIN checkpoints
    <3>1. /\ DOMAIN checkpoints' = DOMAIN checkpoints
          /\ \A d \in DOMAIN checkpoints :
                /\ checkpoints'[d].app = checkpoints[d].app
                /\ checkpoints'[d].active => d # c /\ checkpoints[d].active
      BY <1>0, <2>1, <2>3 DEF CheckpointRow
    <3>a. /\ upc' = [upc EXCEPT ![u] = [upc[u] EXCEPT
                         !.at = IF upc[u].todo = {c} THEN "self" ELSE @, !.todo = @ \ {c}]]
          /\ upc[u].at = "each" /\ u \in Users
      BY <1>3, <2>1, <2>3 DEF Continue, DeactivateOther, At
    <3>b. upc[u] \in [at : UserStates, name : Names \cup {None}, id : Nat, val : Nat,
                      day : Nat, todo : SUBSET Ids]
      BY DEF SwitchInv, StoreInv, RequestType
    <3>2. /\ upc'[u].at = (IF upc[u].todo = {c} THEN "self" ELSE "each")
          /\ upc'[u].todo = upc[u].todo \ {c} /\ upc'[u].id = upc[u].id
          /\ upc'[u].val = upc[u].val /\ upc'[u].day = upc[u].day
          /\ \A v \in Users \ {u} : upc'[v] = upc[v]
      BY <1>0, <3>a, <3>b
    <3>3. OneActivePerApp'
      BY <3>1 DEF SwitchInv, OneActivePerApp
    <3>4. \A i : ActiveIn(checkpoints', i) \subseteq ActiveIn(checkpoints, i) \ {c}
      BY <3>1 DEF ActiveIn
    <3>5. Switched(u)'
      <4>1. ActiveIn(checkpoints', upc'[u].day) \subseteq ActiveIn(checkpoints, upc[u].day) \ {c}
        BY <3>2, <3>4
      <4>2. ActiveIn(checkpoints, upc[u].day) \ {upc[u].id} \subseteq upc[u].todo
        BY <3>a DEF SwitchInv, Switched
      <4> QED BY <3>a, <3>1, <3>2, <4>1, <4>2 DEF SwitchInv, Switched, Switching
    <3>6. ASSUME NEW v \in Users, v # u PROVE Switched(v)'
      <4>1. ~Switching(v) /\ upc'[v] = upc[v]
        BY <3>a, <3>2, <3>6 DEF SwitchInv, Switched, Switching
      <4> QED BY <4>1 DEF Switched, Switching
    <3> QED BY <3>3, <3>5, <3>6 DEF SwitchInv
  <2> QED BY <2>2, <2>3
<1>4. CASE SetSelf(u)
  <2>1. /\ upc[u].at = "self" /\ upc'[u].at = "idle"
        /\ \A v \in Users \ {u} : upc'[v] = upc[v]
    BY <1>0, <1>4 DEF SetSelf, Reply, Idle, At
  <2>2. CASE upc[u].id \notin DOMAIN checkpoints
    BY <1>4, <2>1, <2>2, FlagsKept DEF SetSelf, SameFlags
  <2>3. CASE upc[u].id \in DOMAIN checkpoints
    <3> DEFINE c == upc[u].id
               b == upc[u].val = 1
    <3>1. checkpoints' = [checkpoints EXCEPT ![c].active = b]
      BY <1>4, <2>3 DEF SetSelf
    <3>2. /\ DOMAIN checkpoints' = DOMAIN checkpoints
          /\ \A d \in DOMAIN checkpoints :
                /\ checkpoints'[d].app = checkpoints[d].app
                /\ d # c => (checkpoints'[d].active <=> checkpoints[d].active)
          /\ checkpoints'[c].active => upc[u].val = 1
      <4>1. ASSUME NEW d \in DOMAIN checkpoints, d # c PROVE checkpoints'[d] = checkpoints[d]
        BY <3>1, <4>1
      <4>2. checkpoints'[c] = [checkpoints[c] EXCEPT !.active = b] /\ checkpoints[c] \in CheckpointRow
        BY <1>0, <2>3, <3>1
      <4>3. checkpoints'[c].app = checkpoints[c].app /\ (checkpoints'[c].active => b)
        BY <4>2 DEF CheckpointRow
      <4> QED BY <3>1, <4>1, <4>3
    <3>3. OneActivePerApp'
      <4>1. CASE b
        <5>1. ActiveIn(checkpoints, checkpoints[c].app) \subseteq {c}
          BY <2>1, <4>1 DEF SwitchInv, Switched, Switching
        <5> QED BY <3>2, <5>1 DEF SwitchInv, OneActivePerApp, ActiveIn
      <4>2. CASE ~b
        BY <3>2, <4>2 DEF SwitchInv, OneActivePerApp
      <4> QED BY <4>1, <4>2
    <3>4. ASSUME NEW v \in Users PROVE Switched(v)'
      <4>1. ~Switching(v)'
        BY <2>1, <3>4 DEF SwitchInv, Switched, Switching
      <4> QED BY <4>1 DEF Switched, Switching
    <3> QED BY <3>3, <3>4 DEF SwitchInv
  <2> QED BY <2>2, <2>3
<1> QED BY <1>1, <1>2, <1>3, <1>4 DEF Switch

\* With one user who activates and checkpoints that are not deleted meanwhile, an
\* app has one active checkpoint at most, whatever fails or crashes in between.
THEOREM OneActiveCorrect ==
    ASSUME Deleters = {}, Droppers = {}, \A a, b \in Activators : a = b
    PROVE  Spec => []OneActivePerApp
<1>1. Spec => []StoreInv
  <2>1. Init => StoreInv
    BY InitTypes
  <2>2. StoreInv /\ [Next]_vars => StoreInv'
    BY NextTypes
  <2> QED BY <2>1, <2>2, PTL DEF Spec
<1>2. Init /\ StoreInv => SwitchInv
  BY DEF Init, SwitchInv, Switched, Switching, Idle, OneActivePerApp
<1>3. SwitchInv /\ StoreInv' /\ [Next]_vars => SwitchInv'
  <2> SUFFICES ASSUME SwitchInv, StoreInv', [Next]_vars PROVE SwitchInv'
    OBVIOUS
  <2>0. /\ DOMAIN upc = Users
        /\ \A c \in DOMAIN checkpoints : checkpoints[c] \in CheckpointRow
    BY DEF SwitchInv, StoreInv, RequestType, TablesType, CheckpointsType
  <2>1. CASE checkpoints' = checkpoints /\ upc' = upc
    BY <2>1, FlagsKept DEF SameFlags
  <2>2. CASE Sender \/ Midnight \/ Receive \/ LoopFails \/ UNCHANGED vars
    BY <2>1, <2>2 DEF Sender, SendFree, SendDuration, SendTimeline, Midnight, Receive, LoopFails,
                      vars, tables
  <2>3. CASE Handle
    <3>1. CASE WriteCheckpoint
      <4>1. SameFlags /\ upc' = upc
        BY <2>0, <3>1 DEF WriteCheckpoint, SameFlags, CheckpointRow
      <4> QED BY <4>1, FlagsKept
    <3> QED BY <2>1, <2>3, <3>1 DEF Handle, FindNone, FindOne, WriteApp, ListActive, FindEntry,
                                    GrowEntry, FindCover, StartEntry, tables
  <2>4. ASSUME NEW u \in Users, User(u) PROVE SwitchInv'
    <3>1. CASE AddProcess(u) \/ RequestFails(u)
      <4>1. /\ checkpoints' = checkpoints
            /\ \A v \in Users : upc'[v] = upc[v] \/ upc'[v].at \in {"idle", "maxid", "insert"}
        <5>1. ASSUME NEW n \in Names, AddCheck(u, n) PROVE upc'[u].at = "maxid"
          BY <2>0, <5>1 DEF AddCheck, Continue, Idle
        <5>2. ASSUME ReadMaxId(u) PROVE upc'[u].at = "insert"
          <6> DEFINE next == NextId(apps)
          <6>1. upc'[u] = [upc[u] EXCEPT !.at = "insert", !.id = next]
            BY <2>0, <5>2 DEF ReadMaxId, Continue
          <6>2. upc[u] \in [at : UserStates, name : Names \cup {None}, id : Nat, val : Nat,
                            day : Nat, todo : SUBSET Ids]
            BY DEF SwitchInv, StoreInv, RequestType
          <6> HIDE DEF next
          <6> QED BY <6>1, <6>2
        <5>3. ASSUME InsertApp(u) \/ RequestFails(u) PROVE upc'[u].at = "idle"
          BY <2>0, <5>3 DEF InsertApp, RequestFails, Reply, Idle
        <5>4. /\ checkpoints' = checkpoints
              /\ \A v \in Users \ {u} : upc'[v] = upc[v]
          BY <2>0, <3>1 DEF AddProcess, AddCheck, ReadMaxId, InsertApp, RequestFails, tables,
                            Continue, Reply
        <5> QED BY <3>1, <5>1, <5>2, <5>3, <5>4 DEF AddProcess
      <4> QED BY <4>1, FlagsKept DEF SameFlags
    <3>2. CASE CreateOne(u)
      <4>1. PICK i \in Ids : CreateCheckpoint(u, i)
        BY <3>2 DEF CreateOne
      <4>2. SameFlags /\ upc' = upc
        BY <4>1, NextIdIsFree DEF CreateCheckpoint, SameFlags, Insert, SwitchInv, StoreInv,
                                  TablesType, CheckpointsType
      <4> QED BY <4>2, FlagsKept
    <3>3. CASE Switch(u)
      BY <3>3, SwitchKeeps
    <3> QED BY <2>4, <3>1, <3>2, <3>3 DEF User, DeleteProcess, DeleteApp, DeleteOne,
                                          DeleteCheckpoint
  <2>5. CASE Crash
    <3>1. checkpoints' = checkpoints /\ \A v \in Users : upc'[v].at = "idle"
      BY <2>5 DEF Crash, tables, Idle
    <3> QED BY <3>1, FlagsKept DEF SameFlags
  <2> QED BY <2>2, <2>3, <2>4, <2>5 DEF Next, Work
<1>4. SwitchInv => OneActivePerApp
  BY DEF SwitchInv
<1> QED BY <1>1, <1>2, <1>3, <1>4, PTL DEF Spec

-----------------------------------------------------------------------------
(***************************************************************************)
(* Checkpoints within their app.  Only the loop writes these columns; once *)
(* it has written the app's, every checkpoint of the app lags behind by    *)
(* one at least, and what it listed of each still fits.                    *)
(***************************************************************************)
AppColumn(row) == IF loop.kind = "Duration" THEN row.duration ELSE row.launches
Lagging ==
    /\ loop.at \in {"write", "list", "each"} => loop.id \in DOMAIN apps
    /\ loop.at = "write" /\ loop.kind # "LongestSession" => loop.val >= AppColumn(apps[loop.id])
    /\ loop.at \in {"list", "each"} => /\ loop.kind \in {"Duration", "Launches"}
                                      /\ AppColumn(apps[loop.id]) >= 1
    /\ loop.at = "list" =>
          \A c \in DOMAIN checkpoints : checkpoints[c].app = loop.id =>
              CheckpointColumn(checkpoints[c]) + 1 <= AppColumn(apps[loop.id])
    /\ loop.at = "each" =>
          \A e \in loop.todo : /\ e[1] \in DOMAIN checkpoints /\ checkpoints[e[1]].app = loop.id
                              /\ e[2] + 1 <= AppColumn(apps[loop.id])
WithinInv == StoreInv /\ CheckpointWithinApp /\ Lagging

\* A step that leaves every app where it is and no checkpoint with more minutes.
NoneGrows ==
    /\ DOMAIN apps \subseteq DOMAIN apps' /\ \A i \in DOMAIN apps : apps'[i] = apps[i]
    /\ DOMAIN checkpoints \subseteq DOMAIN checkpoints'
    /\ \A c \in DOMAIN checkpoints : /\ checkpoints'[c].app = checkpoints[c].app
                                     /\ checkpoints'[c].duration = checkpoints[c].duration
                                     /\ checkpoints'[c].sessions = checkpoints[c].sessions
    /\ \A c \in DOMAIN checkpoints' \ DOMAIN checkpoints :
          /\ checkpoints'[c].app \in DOMAIN apps
          /\ checkpoints'[c].duration = 0 /\ checkpoints'[c].sessions = 0

LEMMA WithinShape ==
    ASSUME StoreInv
    PROVE  /\ \A i \in DOMAIN apps : apps[i].duration \in Nat /\ apps[i].launches \in Nat
           /\ \A c \in DOMAIN checkpoints : /\ checkpoints[c].app \in DOMAIN apps
                                            /\ checkpoints[c].duration \in Nat
                                            /\ checkpoints[c].sessions \in Nat
           /\ loop.kind \in Kinds /\ loop.val \in Nat /\ loop.id \in Nat
           /\ loop.todo \subseteq Ids \X Nat
BY DEF StoreInv, TablesType, AppsType, CheckpointsType, AppRow, CheckpointRow, LoopType

LEMMA WithinKept ==
    ASSUME WithinInv, StoreInv', NoneGrows PROVE CheckpointWithinApp'
BY WithinShape DEF WithinInv, NoneGrows, CheckpointWithinApp, DurationWithinApp

\* A step of others.
LEMMA OthersLag ==
    ASSUME WithinInv, StoreInv', NoneGrows,
           loop' = loop \/ loop'.at \notin {"write", "list", "each"}
    PROVE  WithinInv'
<1>1. CheckpointWithinApp'
  BY WithinKept
<1>2. CASE loop' = loop
  <2>1. loop.at = "list" => \A c \in DOMAIN checkpoints' : checkpoints'[c].app = loop.id =>
              CheckpointColumn(checkpoints'[c]) + 1 <= AppColumn(apps[loop.id])
    BY WithinShape DEF WithinInv, Lagging, NoneGrows, CheckpointColumn, AppColumn
  <2> QED BY <1>1, <1>2, <2>1 DEF WithinInv, Lagging, NoneGrows, CheckpointColumn, AppColumn
<1>3. CASE loop'.at \notin {"write", "list", "each"}
  BY <1>1, <1>3 DEF WithinInv, Lagging
<1> QED BY <1>2, <1>3

\* The loop goes on while the tables stay.
LEMMA LoopLags ==
    ASSUME WithinInv, StoreInv', apps' = apps, checkpoints' = checkpoints, Lagging'
    PROVE  WithinInv'
BY DEF WithinInv, CheckpointWithinApp, DurationWithinApp

LEMMA HandleLags ==
    ASSUME WithinInv, StoreInv', Handle PROVE WithinInv'
<1>0. NoneGrows \/ apps' # apps \/ checkpoints' # checkpoints
  BY DEF NoneGrows
<1>1. CASE FindNone \/ FindEntry \/ GrowEntry \/ FindCover \/ StartEntry
  <2>1. loop'.at \notin {"write", "list", "each"}
    BY <1>1 DEF FindNone, FindEntry, GrowEntry, FindCover, StartEntry, Finish, Proceed, WithinInv,
                StoreInv, LoopType
  <2> QED BY <1>0, <1>1, <2>1, OthersLag
          DEF FindNone, FindEntry, GrowEntry, FindCover, StartEntry, tables
<1>2. CASE FindOne
  <2>1. PICK i \in Named(loop.name) :
           \/ Finish
           \/ loop' = [loop EXCEPT !.at = IF loop.kind = "Timeline" THEN "entry" ELSE "write",
                                   !.id = i, !.val = ReadColumn(apps[i]),
                                   !.day = IF loop.kind = "Timeline" THEN day ELSE 0]
    BY <1>2 DEF FindOne
  <2>2. CASE Finish
    BY <1>0, <1>2, <2>2, OthersLag DEF FindOne, tables, Finish, WithinInv, StoreInv, LoopType
  <2>3. CASE loop' = [loop EXCEPT !.at = IF loop.kind = "Timeline" THEN "entry" ELSE "write",
                                  !.id = i, !.val = ReadColumn(apps[i]),
                                  !.day = IF loop.kind = "Timeline" THEN day ELSE 0]
    <3>1. /\ loop'.at \in {"entry", "write"} /\ loop'.id = i /\ loop'.val = ReadColumn(apps[i])
          /\ loop'.kind = loop.kind /\ i \in DOMAIN apps
          /\ loop'.at = "write" => loop.kind # "Timeline"
      BY <2>3 DEF Named, WithinInv, StoreInv, LoopType
    <3>2. loop.kind \notin {"LongestSession", "Timeline"} => ReadColumn(apps[i]) = AppColumn(apps[i])
      BY WithinShape DEF ReadColumn, AppColumn, Kinds, WithinInv
    <3>3. AppColumn(apps[i]) \in Nat
      BY <3>1, WithinShape DEF AppColumn, WithinInv
    <3>4. Lagging'
      BY <1>2, <3>1, <3>2, <3>3 DEF FindOne, tables, Lagging, AppColumn
    <3> QED BY <1>2, <3>4, LoopLags DEF FindOne, tables
  <2> QED BY <2>1, <2>2, <2>3
<1>3. CASE WriteApp
  <2>1. loop.id \in DOMAIN apps
    BY <1>3 DEF WriteApp, WithinInv, Lagging
  <2>2. /\ apps' = [apps EXCEPT ![loop.id] = Written(apps[loop.id])]
        /\ checkpoints' = checkpoints /\ loop.at = "write"
        /\ IF loop.kind = "LongestSession" THEN Finish ELSE Proceed("list", loop.id, 0)
    BY <1>3, <2>1 DEF WriteApp
  <2>3. apps[loop.id] \in AppRow /\ loop.kind \in {"Duration", "Launches", "LongestSession"}
    BY <2>1, <2>2 DEF WithinInv, StoreInv, TablesType, AppsType, LoopType, Kinds
  <2>4. /\ apps'[loop.id].duration = IF loop.kind = "Duration" THEN loop.val + 1
                                     ELSE apps[loop.id].duration
        /\ apps'[loop.id].launches = IF loop.kind = "Launches" THEN loop.val + 1
                                     ELSE apps[loop.id].launches
        /\ \A i \in DOMAIN apps \ {loop.id} : apps'[i] = apps[i]
        /\ DOMAIN apps' = DOMAIN apps
    <3>1. apps'[loop.id] = Written(apps[loop.id])
      BY <2>1, <2>2
    <3>2. /\ Written(apps[loop.id]).duration = IF loop.kind = "Duration" THEN loop.val + 1
                                               ELSE apps[loop.id].duration
          /\ Written(apps[loop.id]).launches = IF loop.kind = "Launches" THEN loop.val + 1
                                               ELSE apps[loop.id].launches
      BY <2>3 DEF Written, AppRow
    <3> QED BY <2>1, <2>2, <3>1, <3>2
  <2>5. /\ apps'[loop.id].duration >= apps[loop.id].duration
        /\ apps'[loop.id].launches >= apps[loop.id].launches
        /\ loop.kind = "Duration" => apps'[loop.id].duration >= apps[loop.id].duration + 1
        /\ loop.kind = "Launches" => apps'[loop.id].launches >= apps[loop.id].launches + 1
    BY <2>1, <2>2, <2>3, <2>4, WithinShape DEF WithinInv, Lagging, AppColumn
  <2>6. /\ apps'[loop.id].duration \in Nat /\ apps'[loop.id].launches \in Nat
        /\ apps[loop.id].duration \in Nat /\ apps[loop.id].launches \in Nat
    BY <2>1, <2>4, WithinShape DEF WithinInv
  <2>7. CheckpointWithinApp'
    <3>1. ASSUME NEW c \in DOMAIN checkpoints
          PROVE  /\ checkpoints[c].duration <= apps'[checkpoints[c].app].duration
                 /\ checkpoints[c].sessions <= apps'[checkpoints[c].app].launches
      <4>1. /\ checkpoints[c].duration <= apps[checkpoints[c].app].duration
            /\ checkpoints[c].sessions <= apps[checkpoints[c].app].launches
            /\ checkpoints[c].app \in DOMAIN apps
            /\ checkpoints[c].duration \in Nat /\ checkpoints[c].sessions \in Nat
        BY WithinShape DEF WithinInv, CheckpointWithinApp, DurationWithinApp
      <4> QED BY <2>4, <2>5, <2>6, <4>1
    <3> QED BY <2>2, <3>1 DEF CheckpointWithinApp, DurationWithinApp
  <2>8. Lagging'
    <3>1. CASE loop.kind = "LongestSession"
      BY <2>2, <3>1 DEF Finish, Lagging, WithinInv, StoreInv, LoopType
    <3>2. CASE loop.kind # "LongestSession"
      <4>1. loop'.at = "list" /\ loop'.id = loop.id /\ loop'.kind = loop.kind
        BY <2>2, <3>2 DEF Proceed, WithinInv, StoreInv, LoopType
      <4>2. \A c \in DOMAIN checkpoints : checkpoints[c].app = loop.id =>
               /\ loop.kind = "Duration" => checkpoints[c].duration + 1 <= apps'[loop.id].duration
               /\ loop.kind = "Launches" => checkpoints[c].sessions + 1 <= apps'[loop.id].launches
        BY <2>5, <2>6, WithinShape DEF WithinInv, CheckpointWithinApp, DurationWithinApp
      <4> QED BY <2>1, <2>2, <2>3, <2>4, <2>5, <2>6, <3>2, <4>1, <4>2
              DEF Lagging, AppColumn, CheckpointColumn
    <3> QED BY <3>1, <3>2
  <2> QED BY <2>7, <2>8 DEF WithinInv
<1>4. CASE ListActive
  <2>1. CASE Finish
    BY <1>0, <1>4, <2>1, OthersLag DEF ListActive, tables, Finish, WithinInv, StoreInv, LoopType
  <2>2. CASE loop' = [loop EXCEPT !.at = "each",
                                  !.todo = {<<c, CheckpointColumn(checkpoints[c])>> :
                                               c \in ActiveOf(loop.id)}]
    <3>1. /\ loop'.at = "each" /\ loop'.id = loop.id /\ loop'.kind = loop.kind
          /\ loop'.todo = {<<c, CheckpointColumn(checkpoints[c])>> : c \in ActiveOf(loop.id)}
          /\ loop.at = "list"
      BY <1>4, <2>2 DEF ListActive, WithinInv, StoreInv, LoopType
    <3>2. Lagging'
      BY <1>4, <3>1 DEF ListActive, tables, WithinInv, Lagging, ActiveOf, AppColumn
    <3> QED BY <1>4, <3>2, LoopLags DEF ListActive, tables
  <2> QED BY <1>4, <2>1, <2>2 DEF ListActive
<1>5. CASE WriteCheckpoint
  <2> DEFINE e == Newest(loop.todo)
             c == e[1]
  <2>1. /\ e \in loop.todo /\ c \in DOMAIN checkpoints /\ checkpoints[c].app = loop.id
        /\ e[2] + 1 <= AppColumn(apps[loop.id]) /\ e[2] \in Nat /\ loop.at = "each"
        /\ loop.kind \in {"Duration", "Launches"} /\ loop.id \in DOMAIN apps
    BY <1>5, NewestIsListed DEF WriteCheckpoint, WithinInv, StoreInv, LoopType, Lagging
  <2>2. /\ apps' = apps
        /\ checkpoints' = IF loop.kind = "Duration"
                          THEN [checkpoints EXCEPT ![c].duration = e[2] + 1]
                          ELSE [checkpoints EXCEPT ![c].sessions = e[2] + 1]
        /\ Finish \/ loop' = [loop EXCEPT !.todo = loop.todo \ {e}]
    BY <1>5, <2>1 DEF WriteCheckpoint
  <2> HIDE DEF e
  <2>3. /\ DOMAIN checkpoints' = DOMAIN checkpoints
        /\ \A d \in DOMAIN checkpoints \ {c} : checkpoints'[d] = checkpoints[d]
        /\ checkpoints'[c].app = checkpoints[c].app
        /\ checkpoints'[c].duration = IF loop.kind = "Duration" THEN e[2] + 1
                                      ELSE checkpoints[c].duration
        /\ checkpoints'[c].sessions = IF loop.kind = "Duration" THEN checkpoints[c].sessions
                                      ELSE e[2] + 1
    <3>1. checkpoints[c] \in CheckpointRow
      BY <2>1 DEF WithinInv, StoreInv, TablesType, CheckpointsType
    <3> QED BY <2>1, <2>2, <3>1 DEF CheckpointRow
  <2>4. CheckpointWithinApp'
    BY <2>1, <2>2, <2>3 DEF WithinInv, CheckpointWithinApp, DurationWithinApp, AppColumn
  <2>5. Lagging'
    <3>1. CASE Finish
      BY <3>1 DEF Finish, Lagging, WithinInv, StoreInv, LoopType
    <3>2. CASE loop' = [loop EXCEPT !.todo = loop.todo \ {e}]
      <4>1. /\ loop'.at = "each" /\ loop'.id = loop.id /\ loop'.kind = loop.kind
            /\ loop'.todo \subseteq loop.todo
        BY <2>1, <3>2 DEF WithinInv, StoreInv, LoopType
      <4>2. \A d \in DOMAIN checkpoints : checkpoints'[d].app = checkpoints[d].app
        BY <2>3
      <4> QED BY <2>1, <2>2, <2>3, <4>1, <4>2 DEF WithinInv, Lagging, AppColumn
    <3> QED BY <2>2, <3>1, <3>2
  <2> QED BY <2>4, <2>5 DEF WithinInv
<1> QED BY <1>1, <1>2, <1>3, <1>4, <1>5 DEF Handle

\* Where apps and checkpoints are not deleted meanwhile, a checkpoint never counts a
\* minute or a session its app does not, whatever fails or crashes in between.
THEOREM WithinCorrect ==
    ASSUME Deleters = {}, Droppers = {}
    PROVE  Spec => []CheckpointWithinApp
<1>1. Spec => []StoreInv
  BY InitTypes, NextTypes, PTL DEF Spec
<1>2. Init /\ StoreInv => WithinInv
  BY DEF Init, Booted, WithinInv, Lagging, CheckpointWithinApp, DurationWithinApp
<1>3. WithinInv /\ StoreInv' /\ [Next]_vars => WithinInv'
  <2> SUFFICES ASSUME WithinInv, StoreInv', [Next]_vars PROVE WithinInv'
    OBVIOUS
  <2>1. CASE apps' = apps /\ checkpoints' = checkpoints /\ loop' = loop
    BY <2>1, OthersLag DEF NoneGrows
  <2>2. CASE Sender \/ Midnight \/ UNCHANGED vars
    BY <2>1, <2>2 DEF Sender, SendFree, SendDuration, SendTimeline, Midnight, vars, tables
  <2>3. CASE Receive
    <3>1. loop'.at = "find" /\ apps' = apps /\ checkpoints' = checkpoints
      BY <2>3 DEF Receive, tables, WithinInv, StoreInv, LoopType
    <3> QED BY <3>1, OthersLag DEF NoneGrows
  <2>4. CASE Handle
    BY <2>4, HandleLags
  <2>5. CASE LoopFails
    <3>1. apps' = apps /\ checkpoints' = checkpoints
      BY <2>5 DEF LoopFails, tables
    <3>2. CASE loop.at = "each" /\ Cardinality(loop.todo) > 1
      <4>1. /\ loop'.at = "each" /\ loop'.id = loop.id /\ loop'.kind = loop.kind
            /\ loop'.todo \subseteq loop.todo
        BY <2>5, <3>2 DEF LoopFails, WithinInv, StoreInv, LoopType
      <4>2. Lagging'
        BY <3>1, <3>2, <4>1 DEF WithinInv, Lagging, AppColumn
      <4> QED BY <3>1, <4>2, LoopLags
    <3>3. CASE ~(loop.at = "each" /\ Cardinality(loop.todo) > 1)
      <4>1. loop'.at \in {"start", "idle"}
        BY <2>5, <3>3 DEF LoopFails, Finish, Proceed, WithinInv, StoreInv, LoopType
      <4> QED BY <3>1, <4>1, OthersLag DEF NoneGrows
    <3> QED BY <3>2, <3>3
  <2>6. ASSUME NEW u \in Users, User(u) PROVE WithinInv'
    <3>1. NoneGrows /\ loop' = loop
      <4>0. \A c \in DOMAIN checkpoints : checkpoints[c] \in CheckpointRow
        BY DEF WithinInv, StoreInv, TablesType, CheckpointsType
      <4>1. CASE AddProcess(u)
        BY <4>1 DEF AddProcess, AddCheck, ReadMaxId, InsertApp, Insert, NoneGrows, tables
      <4>2. CASE CreateOne(u)
        BY <4>2, NextIdIsFree DEF CreateOne, CreateCheckpoint, Insert, NoneGrows, WithinInv,
                                  StoreInv, TablesType, CheckpointsType
      <4>3. ASSUME NEW c \in DOMAIN checkpoints, NEW b \in BOOLEAN, apps' = apps,
                   checkpoints' = [checkpoints EXCEPT ![c].active = b]
            PROVE  NoneGrows
        BY <4>0, <4>3 DEF NoneGrows, CheckpointRow
      <4>4. CASE Switch(u)
        BY <4>3, <4>4 DEF Switch, SetActive, ListOthers, DeactivateOther, SetSelf, NoneGrows, tables
      <4>5. CASE RequestFails(u)
        BY <4>5 DEF RequestFails, NoneGrows, tables
      <4> QED BY <2>6, <4>1, <4>2, <4>4, <4>5 DEF User, DeleteProcess, DeleteApp, DeleteOne,
                                                  DeleteCheckpoint
    <3> QED BY <3>1, OthersLag
  <2>7. CASE Crash
    <3>1. loop'.at = "idle" /\ apps' = apps /\ checkpoints' = checkpoints
      BY <2>7 DEF Crash, Booted, tables
    <3> QED BY <3>1, OthersLag DEF NoneGrows
  <2> QED BY <2>2, <2>3, <2>4, <2>5, <2>6, <2>7 DEF Next, Work
<1>4. WithinInv => CheckpointWithinApp
  BY DEF WithinInv
<1> QED BY <1>1, <1>2, <1>3, <1>4, PTL DEF Spec
=============================================================================
