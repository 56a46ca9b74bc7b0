--------------------------- MODULE ReportsProofs ----------------------------
(***************************************************************************)
(* Theorems about Reports: requests that read leave the tables to Store,   *)
(* and session counts and statistics lie between then and now, for every   *)
(* set of names, users and readers and every bound.                        *)
(***************************************************************************)
EXTENDS Reports, LedgerProofs

\* The requests that read are no step of Store.
LEMMA RequestsOnlyRead ==
    ASSUME NEW r \in Readers, Request(r) PROVE UNCHANGED vars
<1>1. CASE \E kind \in {"statistics", "counts"} : Ask(r, kind)
  BY <1>1 DEF Ask
<1>2. CASE ~ \E kind \in {"statistics", "counts"} : Ask(r, kind)
  BY <1>2 DEF Request, ReadApps, ReadRows, Calculate, SkipApp, CountRows, ReadFails, Respond
<1> QED BY <1>1, <1>2

(***************************************************************************)
(* With any number of readers the tables behave as Store says, so whatever *)
(* is proved of Store holds of Reports as well.                            *)
(***************************************************************************)
THEOREM ReportsRefineStore == ReportSpec => Spec
<1>1. ReportInit => Init
  BY DEF ReportInit
<1>2. [ReportNext]_allVars => [Next]_vars
  BY RequestsOnlyRead DEF ReportNext, Next, allVars
<1> QED BY <1>1, <1>2, PTL DEF ReportSpec, Spec

\* One row per app and day, with readers: by the refinement.
THEOREM ReportsOneRow == ReportSpec => []OneRowPerDay
  BY ReportsRefineStore, OneRowCorrect, PTL

\* Where nobody deletes apps, rows of apps and of the timeline stay, and a
\* timeline row stays with its app.
Rows == RowShape /\ DOMAIN timeline \subseteq Ids
Grown ==
    /\ DOMAIN apps \subseteq DOMAIN apps'
    /\ DOMAIN timeline \subseteq DOMAIN timeline'
    /\ \A t \in DOMAIN timeline : timeline'[t].app = timeline[t].app

LEMMA SameTimeline ==
    ASSUME Rows, timeline' = timeline, DOMAIN apps \subseteq DOMAIN apps' PROVE Rows' /\ Grown
BY DEF Rows, RowShape, Grown

LEMMA UncoveredGrows ==
    ASSUME Rows, NEW gone, timeline' = Uncovered(timeline, gone), apps' = apps
    PROVE  Rows' /\ Grown
<1>1. DOMAIN timeline' = DOMAIN timeline
      /\ \A t \in DOMAIN timeline :
            timeline'[t] = IF timeline[t].checkpoint \in gone
                           THEN [timeline[t] EXCEPT !.checkpoint = 0] ELSE timeline[t]
  BY DEF Uncovered
<1> QED BY <1>1 DEF Rows, RowShape, Grown

LEMMA StoreGrows ==
    ASSUME Deleters = {}, Rows, [Next]_vars PROVE Rows' /\ Grown
<1>1. CASE Sender \/ Midnight
  BY <1>1, SameTimeline DEF Sender, Midnight, SendFree, SendDuration, SendTimeline, tables
<1>2. CASE Receive \/ LoopFails
  BY <1>2, SameTimeline DEF Receive, LoopFails, tables
<1>3. CASE Handle
  <2>1. CASE FindNone \/ FindOne \/ ListActive \/ WriteCheckpoint \/ FindEntry \/ FindCover
    BY <2>1, SameTimeline
       DEF FindNone, FindOne, ListActive, WriteCheckpoint, FindEntry, FindCover, tables
  <2>2. CASE WriteApp
    <3>1. timeline' = timeline /\ DOMAIN apps' = DOMAIN apps
      BY <2>2 DEF WriteApp
    <3> QED BY <3>1, SameTimeline
  <2>3. CASE GrowEntry
    <3>1. CASE loop.id \in DOMAIN timeline
      <4>1. /\ timeline' = [timeline EXCEPT ![loop.id].minutes = loop.val + 1]
            /\ apps' = apps
        BY <2>3, <3>1 DEF GrowEntry
      <4> QED BY <4>1, <3>1 DEF Rows, RowShape, Grown
    <3>2. CASE loop.id \notin DOMAIN timeline
      BY <2>3, <3>2, SameTimeline DEF GrowEntry
    <3> QED BY <3>1, <3>2
  <2>4. CASE StartEntry
    <3>1. CASE timeline' = timeline
      BY <2>4, <3>1, SameTimeline DEF StartEntry
    <3>2. CASE timeline' # timeline
      <4> DEFINE row == [app |-> loop.id, day |-> loop.day, minutes |-> 1,
                         checkpoint |-> loop.val]
      <4>1. /\ timeline' = Insert(timeline, NextId(timeline), row)
            /\ NextId(timeline) \in Ids /\ apps' = apps
        BY <2>4, <3>2 DEF StartEntry
      <4>2. NextId(timeline) \notin DOMAIN timeline
        BY NextIdIsFree DEF Rows
      <4>3. /\ DOMAIN timeline' = DOMAIN timeline \cup {NextId(timeline)}
            /\ timeline'[NextId(timeline)] = row
            /\ \A t \in DOMAIN timeline : timeline'[t] = timeline[t]
        BY <4>1, <4>2 DEF Insert
      <4> QED BY <4>1, <4>3 DEF Rows, RowShape, Grown
    <3> QED BY <3>1, <3>2
  <2> QED BY <1>3, <2>1, <2>2, <2>3, <2>4 DEF Handle
<1>4. ASSUME NEW u \in Users, User(u) PROVE Rows' /\ Grown
  <2>1. CASE AddProcess(u)
    <3>1. timeline' = timeline /\ DOMAIN apps \subseteq DOMAIN apps'
      BY <2>1 DEF AddProcess, AddCheck, ReadMaxId, InsertApp, Insert, tables
    <3> QED BY <3>1, SameTimeline
  <2>2. CASE CreateOne(u) \/ Switch(u) \/ RequestFails(u)
    BY <2>2, SameTimeline
       DEF CreateOne, Switch, RequestFails, CreateCheckpoint, SetActive, ListOthers, DeactivateOther, SetSelf,
           tables
  <2>3. CASE DeleteOne(u)
    BY <2>3, UncoveredGrows DEF DeleteOne, DeleteCheckpoint
  <2>4. ~ DeleteProcess(u)
    BY DEF DeleteProcess, DeleteApp
  <2> QED BY <1>4, <2>1, <2>2, <2>3, <2>4 DEF User
<1>5. CASE Crash \/ UNCHANGED vars
  BY <1>5, SameTimeline DEF Crash, vars, tables
<1> QED BY <1>1, <1>2, <1>3, <1>4, <1>5 DEF Next, Work

LEMMA OursIsDomain ==
    ASSUME NEW rows, NEW i PROVE DOMAIN OfApp(rows, i) = Ours(rows, i)
BY DEF OfApp, Ours, Restrict

\* A request is a record of its fields.
Shaped(q) ==
    q \in [at : {q.at}, kind : {q.kind}, todo : {q.todo}, rows : {q.rows}, out : {q.out},
           was : {q.was}]
ReqShape == req = [r \in Readers |-> req[r]] /\ \A r \in Readers : Shaped(req[r])

\* What a session count request has seen has only grown since.
Remembered(q) ==
    /\ DOMAIN q.was.apps \subseteq DOMAIN apps
    /\ DOMAIN q.was.timeline \subseteq DOMAIN timeline
    /\ \A t \in DOMAIN q.was.timeline : timeline[t].app = q.was.timeline[t].app

\* Every app is still to be counted or has a count between then and now.
Counted(q) ==
    /\ q.at \in {"apps", "counts", "reply"}
    /\ q.at # "apps" =>
          DOMAIN q.was.apps \subseteq {e.id : e \in q.todo} \cup {s.id : s \in q.out}
    /\ q.at = "reply" => q.todo = {}
    /\ q.at = "apps" => q.out = {}
    /\ \A s \in q.out :
          /\ s.count \in Nat
          /\ Cardinality(Ours(q.was.timeline, s.id)) <= s.count
          /\ s.count <= Cardinality(Ours(timeline, s.id))

CountsInv ==
    /\ Rows /\ ReqShape
    /\ \A r \in Readers : req[r].kind = "counts" => Remembered(req[r]) /\ Counted(req[r])

LEMMA OursFinite ==
    ASSUME Rows, NEW i
    PROVE  IsFiniteSet(Ours(timeline, i)) /\ Cardinality(Ours(timeline, i)) \in Nat
<1>1. IsFiniteSet(Ids)
  BY FS_Interval, LimitsAssumption DEF Ids
<1>2. Ours(timeline, i) \in SUBSET Ids
  BY DEF Rows, Ours
<1> QED BY <1>1, <1>2, FS_Subset, FS_CardinalityType

\* Rows remembered are among those of now, so there are no more of them.
LEMMA RememberedFewer ==
    ASSUME Rows, NEW q, Remembered(q), NEW i
    PROVE  /\ Cardinality(Ours(q.was.timeline, i)) \in Nat
           /\ Cardinality(Ours(q.was.timeline, i)) <= Cardinality(Ours(timeline, i))
<1>1. Ours(q.was.timeline, i) \in SUBSET Ours(timeline, i)
  BY DEF Ours, Remembered
<1> QED BY <1>1, OursFinite, FS_Subset, FS_CardinalityType

\* A step of Store leaves the requests as they are, and right.
LEMMA StoreKeepsCounts ==
    ASSUME CountsInv, Rows', Grown, req' = req PROVE CountsInv'
<1>1. ReqShape'
  BY DEF CountsInv, ReqShape
<1>2. ASSUME NEW r \in Readers, req[r].kind = "counts"
      PROVE  (Remembered(req[r]))' /\ (Counted(req[r]))'
  <2>1. Remembered(req[r]) /\ Counted(req[r])
    BY <1>2 DEF CountsInv
  <2>2. (Remembered(req[r]))'
    BY <2>1 DEF Remembered, Grown
  <2>3. ASSUME NEW i
        PROVE  Cardinality(Ours(timeline, i)) <= Cardinality(Ours(timeline', i))
    <3>1. Ours(timeline, i) \in SUBSET Ours(timeline', i)
      BY DEF Ours, Grown
    <3>2. IsFiniteSet(Ours(timeline', i))
      <4>1. IsFiniteSet(Ids)
        BY FS_Interval, LimitsAssumption DEF Ids
      <4>2. Ours(timeline', i) \in SUBSET Ids
        BY DEF Rows, Ours
      <4> QED BY <4>1, <4>2, FS_Subset
    <3> QED BY <3>1, <3>2, FS_Subset
  <2>4. ASSUME NEW s \in req[r].out
        PROVE  s.count <= Cardinality(Ours(timeline', s.id))
    <3>1. /\ Cardinality(Ours(timeline, s.id)) \in Nat
          /\ Cardinality(Ours(timeline', s.id)) \in Nat
      <4>1. IsFiniteSet(Ids)
        BY FS_Interval, LimitsAssumption DEF Ids
      <4>2. Ours(timeline', s.id) \in SUBSET Ids /\ Ours(timeline, s.id) \in SUBSET Ids
        BY DEF CountsInv, Rows, Ours
      <4> QED BY <4>1, <4>2, FS_Subset, FS_CardinalityType
    <3>2. s.count \in Nat /\ s.count <= Cardinality(Ours(timeline, s.id))
      BY <2>1 DEF Counted
    <3> QED BY <2>3, <3>1, <3>2
  <2>5. (Counted(req[r]))'
    BY <2>1, <2>4 DEF Counted
  <2> QED BY <2>2, <2>5
<1> QED BY <1>1, <1>2 DEF CountsInv

\* A step of a request concerns its own record only.
LEMMA SetKeepsCounts ==
    ASSUME CountsInv, UNCHANGED vars, NEW r \in Readers, NEW q, Set(r, q), Shaped(q),
           q.kind = "counts" => Remembered(q) /\ Counted(q)
    PROVE  CountsInv'
<1>1. /\ req' = [p \in Readers |-> IF p = r THEN q ELSE req[p]]
  BY DEF CountsInv, ReqShape, Set
<1>2. ReqShape'
  BY <1>1 DEF CountsInv, ReqShape
<1>3. Rows'
  BY DEF CountsInv, Rows, RowShape, vars
<1>4. timeline' = timeline /\ apps' = apps
  BY DEF vars
<1>5. ASSUME NEW p \in Readers, req'[p].kind = "counts"
      PROVE  (Remembered(req[p]))' /\ (Counted(req[p]))'
  <2>1. Remembered(req'[p]) /\ Counted(req'[p])
    BY <1>1, <1>5 DEF CountsInv
  <2> QED BY <1>4, <2>1 DEF Remembered, Counted, Ours
<1> QED BY <1>2, <1>3, <1>5 DEF CountsInv

LEMMA RestingKeepsCounts ==
    ASSUME CountsInv, UNCHANGED vars, NEW r \in Readers, Answer(r) PROVE CountsInv'
BY SetKeepsCounts DEF Answer, Resting, Shaped

\* A session count is taken from the rows there are, then and now or between.
LEMMA CountStep ==
    ASSUME CountsInv, NEW r \in Readers, req[r].kind = "counts", CountRows(r)
    PROVE  CountsInv'
<1> DEFINE was == req[r].was
<1>1. Remembered(req[r]) /\ Counted(req[r]) /\ Rows /\ Is(r, "counts") /\ UNCHANGED vars
  BY DEF CountsInv, CountRows
<1>2. PICK e \in req[r].todo :
          Set(r, [req[r] EXCEPT !.todo = req[r].todo \ {e},
                                !.out = req[r].out \cup
                                    {[id |-> e.id,
                                      count |-> Cardinality({t \in DOMAIN timeline :
                                                                timeline[t].app = e.id})]},
                                !.at = After(r, req[r].todo \ {e}, "counts")])
  BY DEF CountRows
<1> DEFINE n == Cardinality(Ours(timeline, e.id))
           left == req[r].todo \ {e}
           out == req[r].out \cup {[id |-> e.id, count |-> n]}
           next == After(r, left, "counts")
           q == [req[r] EXCEPT !.todo = left, !.out = out, !.at = next]
<1>3. /\ Set(r, q) /\ Shaped(q)
      /\ q.todo = left /\ q.out = out /\ q.at = next /\ q.was = was /\ q.kind = "counts"
  <2>1. n = Cardinality({t \in DOMAIN timeline : timeline[t].app = e.id})
    BY DEF Ours
  <2>2. Set(r, q)
    BY <1>2, <2>1
  <2> HIDE DEF n, left, out, next
  <2> QED BY <2>2 DEF CountsInv, ReqShape, Shaped
<1> HIDE DEF q
<1>4. Remembered(q)
  BY <1>1, <1>3 DEF Remembered
<1>5. Counted(q)
  <2>1. next = IF left = {} THEN "reply" ELSE "counts"
    BY DEF After
  <2>2. DOMAIN was.apps \subseteq {f.id : f \in left} \cup {s.id : s \in out}
    <3>1. DOMAIN was.apps \subseteq {f.id : f \in req[r].todo} \cup {s.id : s \in req[r].out}
      BY <1>1 DEF Counted, Is
    <3>2. \A i \in {f.id : f \in req[r].todo} : i = e.id \/ i \in {f.id : f \in left}
      OBVIOUS
    <3>3. e.id \in {s.id : s \in out}
      OBVIOUS
    <3>4. {s.id : s \in req[r].out} \subseteq {s.id : s \in out}
      OBVIOUS
    <3> QED BY <3>1, <3>2, <3>3, <3>4
  <2>3. ASSUME NEW s \in out
        PROVE  /\ s.count \in Nat
               /\ Cardinality(Ours(was.timeline, s.id)) <= s.count
               /\ s.count <= Cardinality(Ours(timeline, s.id))
    <3>1. CASE s \in req[r].out
      BY <1>1, <3>1 DEF Counted
    <3>2. CASE s = [id |-> e.id, count |-> n]
      <4>1. s.id = e.id /\ s.count = n /\ n \in Nat
        BY <1>1, <3>2, OursFinite
      <4>2. Cardinality(Ours(was.timeline, e.id)) <= n
        BY <1>1, RememberedFewer
      <4> QED BY <4>1, <4>2
    <3> QED BY <3>1, <3>2
  <2> HIDE DEF left, out, next
  <2> QED BY <1>3, <2>1, <2>2, <2>3 DEF Counted
<1> QED BY <1>1, <1>3, <1>4, <1>5, SetKeepsCounts

(***************************************************************************)
(* Where nobody deletes apps, a session count reply has every app of the   *)
(* moment the request came in, each with a count between the one of then   *)
(* and the one of now.                                                     *)
(***************************************************************************)
THEOREM CountsCorrect == ASSUME Deleters = {} PROVE ReportSpec => []CountsBetween
<1>1. ReportInit => CountsInv
  BY DEF ReportInit, Init, CountsInv, Rows, RowShape, ReqShape, Shaped, Resting
<1>2. CountsInv /\ [ReportNext]_allVars => CountsInv'
  <2> SUFFICES ASSUME CountsInv, [ReportNext]_allVars PROVE CountsInv'
    OBVIOUS
  <2>1. CASE [Next]_vars /\ UNCHANGED req
    BY <2>1, StoreGrows, StoreKeepsCounts DEF CountsInv
  <2>3. CASE Crash /\ req' = [r \in Readers |-> Resting]
    <3>1. Rows'
      BY <2>3, StoreGrows DEF CountsInv, Next
    <3> QED BY <2>3, <3>1 DEF CountsInv, ReqShape, Shaped, Resting
  <2>2. ASSUME NEW r \in Readers, Request(r) PROVE CountsInv'
    <3>1. UNCHANGED vars
      BY <2>2, RequestsOnlyRead
    <3>2. Shaped(req[r])
      BY DEF CountsInv, ReqShape
    <3>3. Rows /\ (req[r].kind = "counts" => Remembered(req[r]) /\ Counted(req[r]))
      BY DEF CountsInv
    <3>a. ASSUME NEW kind \in {"statistics", "counts"}, Ask(r, kind) PROVE CountsInv'
      <4> DEFINE now == [apps |-> apps, timeline |-> timeline]
                 q == [Resting EXCEPT !.at = "apps", !.kind = kind, !.was = now]
      <4>1. Set(r, q)
        BY <3>a DEF Ask
      <4> HIDE DEF now
      <4>2. Shaped(q)
        BY DEF Shaped, Resting
      <4>3. q.at = "apps" /\ q.kind = kind /\ q.out = {} /\ q.todo = {} /\ q.was = now
        BY DEF Resting
      <4> HIDE DEF q
      <4>4. now.apps = apps /\ now.timeline = timeline
        BY DEF now
      <4>5. Remembered(q)
        BY <4>3, <4>4 DEF Remembered
      <4>6. Counted(q)
        BY <4>3, <4>4 DEF Counted
      <4> QED BY <3>1, <4>1, <4>2, <4>5, <4>6, SetKeepsCounts
    <3>b. CASE ReadApps(r)
      <4> DEFINE next == After(r, Listed, IF req[r].kind = "counts" THEN "counts" ELSE "rows")
                 q == [req[r] EXCEPT !.todo = Listed, !.at = next]
      <4>1. Set(r, q) /\ req[r].at = "apps"
        BY <3>b DEF ReadApps, Is
      <4>2. /\ Shaped(q) /\ q.todo = Listed /\ q.at = next
            /\ q.kind = req[r].kind /\ q.out = req[r].out /\ q.was = req[r].was
        <5> HIDE DEF next
        <5> QED BY <3>2 DEF Shaped
      <4> HIDE DEF q
      <4>3. ASSUME req[r].kind = "counts" PROVE Remembered(q) /\ Counted(q)
        <5>1. next = IF Listed = {} THEN "reply" ELSE "counts"
          BY <4>3 DEF After
        <5>2. DOMAIN apps \subseteq {e.id : e \in Listed}
          <6> SUFFICES ASSUME NEW i \in DOMAIN apps PROVE i \in {e.id : e \in Listed}
            OBVIOUS
          <6> DEFINE row == [id |-> i, name |-> apps[i].name, total |-> apps[i].duration]
          <6>1. row \in Listed
            BY DEF Listed
          <6>2. row.id = i
            OBVIOUS
          <6> HIDE DEF row
          <6> QED BY <6>1, <6>2
        <5> HIDE DEF next
        <5> QED BY <3>3, <4>1, <4>2, <4>3, <5>1, <5>2 DEF Remembered, Counted
      <4> QED BY <3>1, <4>1, <4>2, <4>3, SetKeepsCounts
    <3>c. CASE ReadRows(r) \/ Calculate(r) \/ SkipApp(r)
      <4>1. req[r].kind # "counts"
        BY <3>c, <3>3 DEF ReadRows, Calculate, SkipApp, Is, Counted
      <4>2. CASE ReadRows(r)
        <5> DEFINE rows == RowsOf(First(r).name)
                   q == [req[r] EXCEPT !.at = "windows", !.rows = rows]
        <5>1. Set(r, q)
          BY <4>2 DEF ReadRows
        <5> HIDE DEF rows
        <5>2. Shaped(q) /\ q.kind = req[r].kind
          BY <3>2 DEF Shaped
        <5> HIDE DEF q
        <5> QED BY <3>1, <4>1, <5>1, <5>2, SetKeepsCounts
      <4>3. ASSUME NEW new, NextApp(r, new) PROVE CountsInv'
        <5> DEFINE left == req[r].todo \ {First(r)}
                   at == After(r, left, "rows")
                   out == req[r].out \cup new
                   q == [req[r] EXCEPT !.todo = left, !.rows = << >>, !.out = out, !.at = at]
        <5>1. Set(r, q)
          BY <4>3 DEF NextApp
        <5> HIDE DEF left, at, out
        <5>2. Shaped(q) /\ q.kind = req[r].kind
          BY <3>2 DEF Shaped
        <5> HIDE DEF q
        <5> QED BY <3>1, <4>1, <5>1, <5>2, SetKeepsCounts
      <4> QED BY <3>c, <4>2, <4>3 DEF Calculate, SkipApp
    <3>d. CASE CountRows(r)
      <4>1. CASE req[r].kind = "counts"
        BY <3>d, <4>1, CountStep
      <4>2. CASE req[r].kind # "counts"
        <5>1. PICK todo, out, at :
                  Set(r, [req[r] EXCEPT !.todo = todo, !.out = out, !.at = at])
          BY <3>d DEF CountRows
        <5> DEFINE q == [req[r] EXCEPT !.todo = todo, !.out = out, !.at = at]
        <5>2. Shaped(q) /\ q.kind = req[r].kind
          BY <3>2 DEF Shaped
        <5>3. Set(r, q)
          BY <5>1
        <5> HIDE DEF q
        <5> QED BY <3>1, <4>2, <5>2, <5>3, SetKeepsCounts
      <4> QED BY <4>1, <4>2
    <3>e. CASE ReadFails(r) \/ Respond(r)
      BY <3>1, <3>e, RestingKeepsCounts DEF ReadFails, Respond
    <3> QED BY <2>2, <3>a, <3>b, <3>c, <3>d, <3>e DEF Request
  <2> QED BY <2>1, <2>2, <2>3 DEF ReportNext, Next, allVars
<1>3. CountsInv => CountsBetween
  <2> SUFFICES ASSUME CountsInv, NEW r \in Readers, Replied(r, "counts")
               PROVE  /\ DOMAIN req[r].was.apps \subseteq {s.id : s \in req[r].out}
                      /\ \A s \in req[r].out :
                            /\ Cardinality(DOMAIN OfApp(req[r].was.timeline, s.id)) <= s.count
                            /\ s.count <= Cardinality(DOMAIN OfApp(timeline, s.id))
    BY DEF CountsBetween
  <2>1. Counted(req[r]) /\ req[r].at = "reply"
    BY DEF CountsInv, Replied, Is
  <2> QED BY <2>1, OursIsDomain DEF Counted
<1> QED BY <1>1, <1>2, <1>3, PTL DEF ReportSpec

-----------------------------------------------------------------------------
(***************************************************************************)
(* Statistics.  Where nobody deletes apps and one caller adds them, what   *)
(* the tables hold only grows: the loop writes back what it read plus one, *)
(* and no row is of a day to come.                                         *)
(***************************************************************************)
OnlyAdding == Deleters = {} /\ \A u, v \in Adders : u = v

ReadsRight ==
    /\ loop.at = "write" =>
          loop.id \in DOMAIN apps /\ (loop.kind = "Duration" => loop.val = apps[loop.id].duration)
    /\ loop.at = "grow" => loop.id \in DOMAIN timeline /\ loop.val = timeline[loop.id].minutes
NoneAhead ==
    /\ \A t \in DOMAIN timeline : timeline[t].day <= day
    /\ loop.at \in {"entry", "cover", "start"} => loop.day <= day
OnwardInv == StoreInv /\ UniqueNames /\ Registering /\ ReadsRight /\ NoneAhead

\* Rows of an earlier moment, among those of a later one.
Older(rows, later) ==
    /\ DOMAIN rows \subseteq DOMAIN later
    /\ \A t \in DOMAIN rows :
          /\ rows[t].app = later[t].app /\ rows[t].day = later[t].day
          /\ rows[t].minutes \in Nat /\ later[t].minutes \in Nat
          /\ rows[t].minutes <= later[t].minutes
Fewer(rows, later) ==
    /\ DOMAIN rows \subseteq DOMAIN later
    /\ \A i \in DOMAIN rows :
          /\ rows[i].name = later[i].name
          /\ rows[i].duration \in Nat /\ later[i].duration \in Nat
          /\ rows[i].duration <= later[i].duration

Onward == Fewer(apps, apps') /\ Older(timeline, timeline') /\ day <= day'

\* What the columns that only grow are made of.
LEMMA Columns ==
    ASSUME StoreInv
    PROVE  /\ \A i \in DOMAIN apps : apps[i] \in AppRow /\ apps[i].duration \in Nat
           /\ \A t \in DOMAIN timeline : /\ timeline[t] \in TimelineRow
                                         /\ timeline[t].minutes \in Nat
                                         /\ timeline[t].day \in Nat /\ timeline[t].day > 0
           /\ day \in Nat /\ DOMAIN timeline \subseteq Ids /\ DOMAIN apps \subseteq Nat
<1>1. \A i \in DOMAIN apps : apps[i] \in AppRow
  BY DEF StoreInv, TablesType, AppsType
<1>2. \A t \in DOMAIN timeline : timeline[t] \in TimelineRow
  BY DEF StoreInv, TablesType, TimelineType
<1>3. MaxDay \in Nat /\ day \in Nat
  BY LimitsAssumption DEF StoreInv, ScalarsType
<1>4. DOMAIN timeline \subseteq Ids /\ DOMAIN apps \subseteq Nat
  BY DEF StoreInv, TablesType, AppsType, TimelineType, Ids
<1> QED BY <1>1, <1>2, <1>3, <1>4 DEF AppRow, TimelineRow

\* A step that leaves both tables alone.
LEMMA StillOnward ==
    ASSUME OnwardInv, UNCHANGED <<apps, timeline>>, day' \in {day, day + 1} PROVE Onward /\ SameNames
  BY Columns DEF OnwardInv, Onward, Fewer, Older, SameNames

\* The statements of the loop that read, or write a checkpoint.
LEMMA ReadsOnward ==
    ASSUME OnwardInv, StoreInv',
           \/ Receive \/ LoopFails \/ FindNone \/ FindOne
           \/ ListActive \/ WriteCheckpoint \/ FindEntry \/ FindCover
    PROVE  OnwardInv' /\ Onward
<1> USE DEF OnwardInv
<1>1. UNCHANGED <<apps, timeline, upc, day>>
  BY DEF Receive, LoopFails, FindNone, FindOne, ListActive, WriteCheckpoint, FindEntry, FindCover,
         tables
<1>2. Onward /\ SameNames
  BY <1>1, StillOnward
<1>3. UniqueNames' /\ Registering'
  BY <1>1, <1>2, NamesKept
<1>4. \/ Finish
      \/ loop'.at \in {"find", "list", "each"}
      \/ /\ loop'.at \in {"cover", "start"} /\ loop'.day = loop.day
         /\ loop.at \in {"entry", "cover"}
      \/ loop'.at = "entry" /\ loop'.day = day
      \/ /\ loop'.at = "write" /\ loop'.id \in DOMAIN apps
         /\ loop'.kind = "Duration" => loop'.val = apps[loop'.id].duration
      \/ /\ loop'.at = "grow" /\ loop'.id \in DOMAIN timeline
         /\ loop'.val = timeline[loop'.id].minutes
  <2>1. CASE Receive \/ ListActive \/ FindNone
    BY <2>1 DEF Receive, ListActive, FindNone, StoreInv, LoopType
  <2>2. CASE WriteCheckpoint
    <3>1. loop.at = "each" /\ (Finish \/ \E todo : loop' = [loop EXCEPT !.todo = todo])
      BY <2>2 DEF WriteCheckpoint
    <3> QED BY <3>1 DEF StoreInv, LoopType
  <2>3. CASE LoopFails
    <3>1. CASE loop.at = "each" /\ Cardinality(loop.todo) > 1
      BY <2>3, <3>1 DEF LoopFails, StoreInv, LoopType
    <3>2. CASE loop.at = "cover"
      BY <2>3, <3>2 DEF LoopFails, Proceed, StoreInv, LoopType
    <3>3. CASE ~(loop.at = "each" /\ Cardinality(loop.todo) > 1) /\ loop.at # "cover"
      BY <2>3, <3>3 DEF LoopFails
    <3> QED BY <3>1, <3>2, <3>3
  <2>4. CASE FindOne
    <3>1. PICK i \in Named(loop.name) :
             \/ Finish
             \/ loop' = [loop EXCEPT !.at = IF loop.kind = "Timeline" THEN "entry" ELSE "write",
                                     !.id = i, !.val = ReadColumn(apps[i]),
                                     !.day = IF loop.kind = "Timeline" THEN day ELSE 0]
      BY <2>4 DEF FindOne
    <3>2. i \in DOMAIN apps
      BY DEF Named
    <3>3. loop.kind = "Duration" => ReadColumn(apps[i]) = apps[i].duration
      BY DEF ReadColumn
    <3> QED BY <3>1, <3>2, <3>3 DEF StoreInv, LoopType
  <2>5. CASE FindEntry
    <3>1. /\ loop.at = "entry"
          /\ \/ Proceed("cover", loop.id, 0)
             \/ \E t \in DOMAIN timeline : Proceed("grow", t, timeline[t].minutes)
      BY <2>5 DEF FindEntry, DayRows
    <3> QED BY <3>1 DEF Proceed, StoreInv, LoopType
  <2>6. CASE FindCover
    BY <2>6 DEF FindCover, Proceed, StoreInv, LoopType
  <2> QED BY <2>1, <2>2, <2>3, <2>4, <2>5, <2>6
<1>5. Finish => loop'.at = "idle"
  BY DEF Finish, StoreInv, LoopType
<1>6. day \in Nat
  BY Columns
<1>7. ReadsRight' /\ NoneAhead'
  BY <1>1, <1>4, <1>5, <1>6 DEF ReadsRight, NoneAhead
<1> QED BY <1>2, <1>3, <1>7

\* The statements of the loop that write an app or a timeline row.
LEMMA WritesOnward ==
    ASSUME OnwardInv, StoreInv', WriteApp \/ GrowEntry \/ StartEntry PROVE OnwardInv' /\ Onward
<1> USE DEF OnwardInv
<1>1. upc' = upc /\ day' = day
  BY DEF WriteApp, GrowEntry, StartEntry
<1>2. loop'.at \in {"idle", "list"}
  BY DEF WriteApp, GrowEntry, StartEntry, Finish, Proceed, StoreInv, LoopType
<1>3. ReadsRight'
  BY <1>2 DEF ReadsRight
<1>4. /\ \A i \in DOMAIN apps : apps[i] \in AppRow /\ apps[i].duration \in Nat
      /\ \A t \in DOMAIN timeline : /\ timeline[t] \in TimelineRow
                                    /\ timeline[t].minutes \in Nat
                                    /\ timeline[t].day \in Nat
      /\ day \in Nat /\ DOMAIN timeline \subseteq Ids
  BY Columns
<1>5. ASSUME timeline' = timeline PROVE Older(timeline, timeline') /\ NoneAhead'
  BY <1>1, <1>2, <1>4, <1>5 DEF Older, NoneAhead
<1>6. CASE WriteApp
  <2>1. PICK i \in DOMAIN apps : i = loop.id
    BY <1>6 DEF WriteApp, ReadsRight
  <2>2. apps' = [apps EXCEPT ![i] = Written(apps[i])] /\ timeline' = timeline
    BY <1>6, <2>1 DEF WriteApp
  <2>3. /\ Written(apps[i]).name = apps[i].name
        /\ Written(apps[i]).duration \in {apps[i].duration, apps[i].duration + 1}
    <3>1. loop.kind \in {"Duration", "Launches", "LongestSession"}
          /\ (loop.kind = "Duration" => loop.val = apps[i].duration)
      BY <1>6, <2>1 DEF WriteApp, ReadsRight, StoreInv, LoopType, Kinds
    <3>2. CASE loop.kind = "Duration"
      BY <1>4, <3>1, <3>2 DEF Written, AppRow
    <3>3. CASE loop.kind = "Launches"
      BY <1>4, <3>3 DEF Written, AppRow
    <3>4. CASE loop.kind = "LongestSession"
      BY <1>4, <3>4 DEF Written, AppRow
    <3> QED BY <3>1, <3>2, <3>3, <3>4
  <2>4. SameNames /\ Fewer(apps, apps')
    BY <1>4, <2>2, <2>3 DEF SameNames, Fewer
  <2> QED BY <1>1, <1>3, <1>4, <1>5, <2>2, <2>4, NamesKept DEF Onward
<1>7. CASE apps' = apps /\ Older(timeline, timeline') /\ NoneAhead'
  <2>1. SameNames
    BY <1>7 DEF SameNames
  <2> QED BY <1>1, <1>3, <1>4, <1>7, <2>1, NamesKept DEF Onward, Fewer
<1>8. CASE GrowEntry
  <2>1. PICK t \in DOMAIN timeline : t = loop.id /\ loop.val = timeline[t].minutes
    BY <1>8 DEF GrowEntry, ReadsRight
  <2>2. timeline' = [timeline EXCEPT ![t].minutes = timeline[t].minutes + 1] /\ apps' = apps
    BY <1>8, <2>1 DEF GrowEntry
  <2>3. /\ DOMAIN timeline' = DOMAIN timeline
        /\ \A s \in DOMAIN timeline :
              /\ timeline'[s].app = timeline[s].app /\ timeline'[s].day = timeline[s].day
              /\ timeline'[s].minutes = IF s = t THEN timeline[s].minutes + 1
                                        ELSE timeline[s].minutes
    BY <1>4, <2>2 DEF TimelineRow
  <2>4. Older(timeline, timeline')
    BY <1>4, <2>3 DEF Older
  <2>5. NoneAhead'
    BY <1>1, <1>2, <2>3 DEF NoneAhead
  <2> QED BY <1>7, <2>2, <2>4, <2>5
<1>9. CASE StartEntry
  <2>1. PICK t : t = NextId(timeline)
    OBVIOUS
  <2>2. t \notin DOMAIN timeline
    BY <1>4, <2>1, NextIdIsFree
  <2>3. CASE timeline' = timeline
    BY <1>5, <1>7, <1>9, <2>3 DEF StartEntry
  <2>4. CASE timeline' # timeline
    <3>1. timeline' = Insert(timeline, t, [app |-> loop.id, day |-> loop.day, minutes |-> 1,
                                           checkpoint |-> loop.val])
          /\ apps' = apps /\ loop.at = "start"
      BY <1>9, <2>1, <2>4 DEF StartEntry
    <3>2. /\ DOMAIN timeline' = DOMAIN timeline \cup {t}
          /\ timeline'[t].day = loop.day
          /\ \A s \in DOMAIN timeline : timeline'[s] = timeline[s]
      BY <2>2, <3>1 DEF Insert
    <3>3. Older(timeline, timeline')
      BY <1>4, <3>2 DEF Older
    <3>4. NoneAhead'
      BY <1>1, <1>2, <3>1, <3>2 DEF NoneAhead
    <3> QED BY <1>7, <3>1, <3>3, <3>4
  <2> QED BY <2>3, <2>4
<1> QED BY <1>6, <1>8, <1>9

\* The requests that change the tables.
LEMMA UsersOnward ==
    ASSUME OnlyAdding, OnwardInv, StoreInv', NEW u \in Users, User(u) PROVE OnwardInv' /\ Onward
<1> USE DEF OnwardInv
<1>1. UniqueNames' /\ Registering' /\ (apps' = apps \/ \E i, n : Inserts(i, n))
  BY NamesRegistered DEF OnlyAdding
<1>2. loop' = loop /\ day' = day
  BY DEF OnlyAdding, User, AddProcess, AddCheck, ReadMaxId, InsertApp, DeleteProcess, DeleteApp,
         CreateOne, CreateCheckpoint, DeleteOne, DeleteCheckpoint, Switch, SetActive, ListOthers,
         DeactivateOther, SetSelf, RequestFails
<1>3. /\ \A i \in DOMAIN apps : apps[i] \in AppRow /\ apps[i].duration \in Nat
      /\ \A t \in DOMAIN timeline : /\ timeline[t] \in TimelineRow
                                    /\ timeline[t].minutes \in Nat
                                    /\ timeline[t].day \in Nat
      /\ day \in Nat
  BY Columns
<1>4. timeline' = timeline \/ \E gone : timeline' = Uncovered(timeline, gone)
  BY DEF OnlyAdding, User, AddProcess, AddCheck, ReadMaxId, InsertApp, DeleteProcess, DeleteApp,
         CreateOne, CreateCheckpoint, DeleteOne, DeleteCheckpoint, Switch, SetActive, ListOthers,
         DeactivateOther, SetSelf, RequestFails, tables
<1>5. /\ DOMAIN timeline' = DOMAIN timeline
      /\ \A t \in DOMAIN timeline : /\ timeline'[t].app = timeline[t].app
                                    /\ timeline'[t].day = timeline[t].day
                                    /\ timeline'[t].minutes = timeline[t].minutes
  BY <1>3, <1>4 DEF Uncovered, TimelineRow
<1>6. Older(timeline, timeline')
  BY <1>3, <1>5 DEF Older
<1>7. /\ DOMAIN apps \subseteq DOMAIN apps'
      /\ \A i \in DOMAIN apps : apps'[i] = apps[i]
  BY <1>1 DEF Inserts
<1>8. ReadsRight' /\ NoneAhead'
  BY <1>2, <1>5, <1>7 DEF ReadsRight, NoneAhead
<1>9. Onward
  BY <1>2, <1>3, <1>6, <1>7 DEF Onward, Fewer
<1> QED BY <1>1, <1>8, <1>9

LEMMA StoreOnward ==
    ASSUME OnlyAdding, OnwardInv, [Next]_vars PROVE OnwardInv' /\ Onward
<1> USE DEF OnwardInv
<1>1. StoreInv'
  BY NextTypes
<1>2. CASE Sender \/ Midnight \/ Crash \/ UNCHANGED vars
  <2>1. /\ UNCHANGED <<apps, timeline>> /\ day' \in {day, day + 1}
        /\ UNCHANGED <<loop, upc>> \/ (loop' = Booted /\ \A u \in Users : upc'[u] = Idle)
    BY <1>2 DEF Sender, SendFree, SendDuration, SendTimeline, Midnight, Crash, vars, tables
  <2>2. Onward /\ SameNames
    BY <2>1, StillOnward
  <2>3. UniqueNames' /\ Registering'
    BY <2>1, <2>2, NamesKept DEF UniqueNames, Registering, Idle
  <2>4. ReadsRight' /\ NoneAhead'
    <3>1. day \in Nat /\ \A t \in DOMAIN timeline : timeline[t].day \in Nat
      BY Columns
    <3>2. loop.at \in {"entry", "cover", "start"} => loop.day \in Nat
      BY DEF StoreInv, LoopType
    <3> QED BY <2>1, <3>1, <3>2 DEF ReadsRight, NoneAhead, Booted
  <2> QED BY <1>1, <2>2, <2>3, <2>4
<1> QED BY <1>1, <1>2, ReadsOnward, WritesOnward, UsersOnward DEF Next, Work, Handle

(***************************************************************************)
(* What a statistics request holds, by the tables A and T and the date d:  *)
(* each of these stays right while the tables grow.                        *)
(***************************************************************************)
\* An app listed, with a duration between the one of then and the one of now.
Known(q, e, A) ==
    /\ e.id \in DOMAIN A /\ e.id \in Nat
    /\ e.total \in Nat /\ A[e.id].duration \in Nat /\ e.total <= A[e.id].duration
    /\ e.id \in DOMAIN q.was.apps => q.was.apps[e.id].duration <= e.total

\* The rows read of an app: all it had then, as far as today's windows reach back,
\* and none it does not have now.
RowsRead(q, i, T, d) ==
    /\ Older(q.rows, T)
    /\ \A t \in DOMAIN q.rows : T[t].app = i
    /\ \A t \in Ours(q.was.timeline, i) : q.was.timeline[t].day >= Back(d, Month) =>
          t \in DOMAIN q.rows /\ q.was.timeline[t].minutes <= q.rows[t].minutes

\* The minutes of an app in a window, and a number between those of then and now.
Total(rows, i, from) == Minutes(OfApp(rows, i), Since(OfApp(rows, i), from))
Amid(q, i, n, from, T) ==
    n \in Nat /\ Total(q.was.timeline, i, from) <= n /\ n <= Total(T, i, from)
Reported(q, s, A, T) ==
    /\ Known(q, s, A)
    /\ Amid(q, s.id, s.today, s.day, T)
    /\ Amid(q, s.id, s.week, Back(s.day, Week), T)
    /\ Amid(q, s.id, s.month, Back(s.day, Month), T)

FirstOf(todo) == CHOOSE e \in todo : \A f \in todo : e.id <= f.id
Listing(q, A) == \A e \in q.todo : Known(q, e, A) /\ A[e.id].name = e.name
Asked(q, A, T, d) ==
    /\ q.at \in {"apps", "rows", "windows", "reply"}
    /\ Fewer(q.was.apps, A) /\ Older(q.was.timeline, T)
    /\ q.at = "apps" => q.out = {}
    /\ q.at \in {"rows", "windows"} => q.todo # {} /\ Listing(q, A)
    /\ q.at = "windows" => RowsRead(q, FirstOf(q.todo).id, T, d)
    /\ \A s \in q.out : Reported(q, s, A, T)

StatInv ==
    /\ OnwardInv /\ ReqShape
    /\ \A r \in Readers : req[r].kind = "statistics" => Asked(req[r], apps, timeline, day)

\* Windows: more rows, each with as many minutes or more, are more minutes.
LEMMA WindowGrows ==
    ASSUME NEW a, NEW b, NEW S \in SUBSET DOMAIN a, NEW T \in SUBSET DOMAIN b,
           IsFiniteSet(T), S \subseteq T, \A t \in T : b[t].minutes \in Nat,
           \A t \in S : a[t].minutes \in Nat /\ a[t].minutes <= b[t].minutes
    PROVE  Minutes(a, S) \in Nat /\ Minutes(b, T) \in Nat /\ Minutes(a, S) <= Minutes(b, T)
<1> DEFINE f == MinutesColumn(a)
           g == MinutesColumn(b)
<1>1. /\ \A t \in S : f[t] = a[t].minutes
      /\ \A t \in T : g[t] = b[t].minutes
  BY DEF MinutesColumn
<1> HIDE DEF f, g
<1>2. IsFiniteSet(S)
  BY FS_Subset
<1>3. (\A t \in S : f[t] \in Nat /\ f[t] <= g[t]) /\ \A t \in T : g[t] \in Nat
  BY <1>1
<1>4. /\ SumFunctionOnSet(f, S) \in Nat /\ SumFunctionOnSet(g, T) \in Nat
      /\ SumFunctionOnSet(f, S) <= SumFunctionOnSet(g, T)
  BY <1>2, <1>3, SumType, SumGrows
<1> QED BY <1>4 DEF Minutes, f, g

LEMMA OfAppIs ==
    ASSUME NEW rows, NEW i, NEW from
    PROVE  /\ Since(OfApp(rows, i), from) \subseteq DOMAIN OfApp(rows, i)
           /\ \A t : t \in Since(OfApp(rows, i), from) <=>
                       t \in DOMAIN rows /\ rows[t].app = i /\ rows[t].day >= from
           /\ \A t \in Since(OfApp(rows, i), from) : OfApp(rows, i)[t] = rows[t]
  BY DEF OfApp, Since, Restrict

LEMMA TotalGrows ==
    ASSUME NEW a, NEW b, Older(a, b), IsFiniteSet(DOMAIN b),
           \A t \in DOMAIN b : b[t].minutes \in Nat, NEW i, NEW from
    PROVE  Total(a, i, from) \in Nat /\ Total(b, i, from) \in Nat
           /\ Total(a, i, from) <= Total(b, i, from)
<1> DEFINE f == OfApp(a, i)
           g == OfApp(b, i)
           S == Since(f, from)
           T == Since(g, from)
<1>1. /\ S \subseteq DOMAIN f /\ T \subseteq DOMAIN g
      /\ \A t : t \in S <=> t \in DOMAIN a /\ a[t].app = i /\ a[t].day >= from
      /\ \A t : t \in T <=> t \in DOMAIN b /\ b[t].app = i /\ b[t].day >= from
      /\ \A t \in S : f[t] = a[t]
      /\ \A t \in T : g[t] = b[t]
  BY OfAppIs
<1> HIDE DEF f, g, S, T
<1>2. S \subseteq T /\ T \subseteq DOMAIN b
  BY <1>1 DEF Older
<1>3. IsFiniteSet(T)
  BY <1>2, FS_Subset
<1>4. /\ \A t \in T : g[t].minutes \in Nat
      /\ \A t \in S : f[t].minutes \in Nat /\ f[t].minutes <= g[t].minutes
  BY <1>1, <1>2 DEF Older
<1>5. Minutes(f, S) \in Nat /\ Minutes(g, T) \in Nat /\ Minutes(f, S) <= Minutes(g, T)
  BY <1>1, <1>2, <1>3, <1>4, WindowGrows
<1> QED BY <1>5 DEF Total, f, g, S, T

\* A window of the rows read lies between the same window of then and of now.
LEMMA AmidWindows ==
    ASSUME NEW q, NEW T, NEW d, NEW i, RowsRead(q, i, T, d), Older(q.was.timeline, T),
           IsFiniteSet(DOMAIN T), \A t \in DOMAIN T : T[t].minutes \in Nat /\ T[t].day \in Nat,
           Back(d, Month) \in Nat, NEW from \in Nat, Back(d, Month) <= from
    PROVE  Amid(q, i, Minutes(q.rows, Since(q.rows, from)), from, T)
<1> DEFINE a == q.was.timeline
           f == OfApp(a, i)
           g == OfApp(T, i)
           R == Since(f, from)
           S == Since(q.rows, from)
           V == Since(g, from)
<1>1. /\ R \subseteq DOMAIN f /\ V \subseteq DOMAIN g
      /\ \A t : t \in R <=> t \in DOMAIN a /\ a[t].app = i /\ a[t].day >= from
      /\ \A t : t \in V <=> t \in DOMAIN T /\ T[t].app = i /\ T[t].day >= from
      /\ \A t \in R : f[t] = a[t]
      /\ \A t \in V : g[t] = T[t]
  BY OfAppIs
<1>2. \A t : t \in S <=> t \in DOMAIN q.rows /\ q.rows[t].day >= from
  BY DEF Since
<1>3. /\ Older(q.rows, T) /\ \A t \in DOMAIN q.rows : T[t].app = i
      /\ \A t \in Ours(a, i) : a[t].day >= Back(d, Month) =>
            t \in DOMAIN q.rows /\ a[t].minutes <= q.rows[t].minutes
  BY DEF RowsRead
<1>4. Older(a, T)
  OBVIOUS
<1> HIDE DEF a, f, g, R, S, V
<1>5. ASSUME NEW t \in R
      PROVE  /\ t \in S /\ f[t].minutes \in Nat /\ f[t].minutes <= q.rows[t].minutes
  <2>1. t \in DOMAIN a /\ a[t].app = i /\ a[t].day >= from /\ f[t] = a[t]
    BY <1>1
  <2>2. t \in DOMAIN T /\ a[t].day = T[t].day /\ a[t].minutes \in Nat
    BY <1>4, <2>1 DEF Older
  <2>3. a[t].day >= Back(d, Month)
    BY <2>1, <2>2
  <2>4. t \in DOMAIN q.rows /\ a[t].minutes <= q.rows[t].minutes
    BY <1>3, <2>1, <2>3 DEF Ours
  <2>5. q.rows[t].day = T[t].day
    BY <1>3, <2>4 DEF Older
  <2> QED BY <1>2, <2>1, <2>2, <2>4, <2>5
<1>6. ASSUME NEW t \in S
      PROVE  /\ t \in V /\ q.rows[t].minutes \in Nat /\ q.rows[t].minutes <= g[t].minutes
  BY <1>1, <1>2, <1>3 DEF Older
<1>7. V \subseteq DOMAIN T /\ IsFiniteSet(V) /\ IsFiniteSet(S) /\ S \subseteq DOMAIN q.rows
  BY <1>1, <1>2, <1>6, FS_Subset
<1>8. \A t \in V : g[t].minutes \in Nat
  BY <1>1
<1>9. Minutes(f, R) <= Minutes(q.rows, S)
  BY <1>1, <1>5, <1>6, <1>7, WindowGrows
<1>10. Minutes(q.rows, S) \in Nat /\ Minutes(q.rows, S) <= Minutes(g, V)
  BY <1>1, <1>6, <1>7, <1>8, WindowGrows
<1> QED BY <1>9, <1>10 DEF Amid, Total, a, f, g, R, S, V

LEMMA Backs ==
    ASSUME NEW d \in Nat
    PROVE  /\ Back(d, Month) \in Nat /\ Back(d, Week) \in Nat
           /\ Back(d, Month) <= Back(d, Week) /\ Back(d, Week) <= d /\ Back(d, Month) <= d
           /\ \A e \in Nat : d <= e => Back(d, Month) <= Back(e, Month) /\ Back(e, Month) \in Nat
  BY WindowsAssumption DEF Back

\* What a request holds stays right while the tables grow.
LEMMA AskedOnward ==
    ASSUME NEW q, NEW A, NEW B, NEW T, NEW U, NEW d \in Nat, NEW e \in Nat, Asked(q, A, T, d),
           Fewer(A, B), Older(T, U), d <= e, IsFiniteSet(DOMAIN U),
           \A t \in DOMAIN U : U[t].minutes \in Nat,
           \A t \in DOMAIN T : T[t].minutes \in Nat /\ T[t].day \in Nat
    PROVE  Asked(q, B, U, e)
<1>1. ASSUME NEW rows, Older(rows, T) PROVE Older(rows, U)
  BY <1>1 DEF Older
<1>2. Fewer(q.was.apps, B)
  BY DEF Asked, Fewer
<1>3. ASSUME NEW s, Known(q, s, A)
      PROVE  Known(q, s, B) /\ B[s.id].name = A[s.id].name
  BY <1>3 DEF Known, Fewer
<1>4. ASSUME NEW i, RowsRead(q, i, T, d) PROVE RowsRead(q, i, U, e)
  <2>1. Older(q.rows, U) /\ \A t \in DOMAIN q.rows : U[t].app = i
    BY <1>1, <1>4 DEF RowsRead, Older
  <2>2. Back(d, Month) <= Back(e, Month) /\ Back(d, Month) \in Nat /\ Back(e, Month) \in Nat
    BY Backs
  <2>3. \A t \in Ours(q.was.timeline, i) : q.was.timeline[t].day \in Nat
    BY DEF Ours, Asked, Older
  <2> QED BY <1>4, <2>1, <2>2, <2>3 DEF RowsRead
<1>5. ASSUME NEW i, NEW n, NEW from, Amid(q, i, n, from, T) PROVE Amid(q, i, n, from, U)
  <2>1. Total(T, i, from) <= Total(U, i, from) /\ Total(T, i, from) \in Nat
        /\ Total(U, i, from) \in Nat
    BY TotalGrows
  <2> QED BY <1>5, <2>1 DEF Amid
<1>6. ASSUME NEW s, Reported(q, s, A, T) PROVE Reported(q, s, B, U)
  BY <1>3, <1>5, <1>6 DEF Reported
<1> QED BY <1>1, <1>2, <1>3, <1>4, <1>6 DEF Asked, Listing

\* What the tables are, for these lemmas.
LEMMA Tables ==
    ASSUME StoreInv
    PROVE  /\ day \in Nat /\ IsFiniteSet(DOMAIN timeline)
           /\ \A t \in DOMAIN timeline : timeline[t].minutes \in Nat /\ timeline[t].day \in Nat
           /\ Older(timeline, timeline) /\ Fewer(apps, apps)
  BY Columns, IdsFinite DEF Older, Fewer

\* A step of Store leaves the requests as they are, and right.
LEMMA StoreKeepsStats ==
    ASSUME StatInv, OnwardInv', Onward, req' = req PROVE StatInv'
<1>1. ReqShape'
  BY DEF StatInv, ReqShape
<1>2. day \in Nat /\ \A t \in DOMAIN timeline : timeline[t].minutes \in Nat /\ timeline[t].day \in Nat
  BY Tables DEF StatInv, OnwardInv
<1>3. /\ day' \in Nat /\ DOMAIN timeline' \subseteq Ids
      /\ \A t \in DOMAIN timeline' : timeline'[t].minutes \in Nat
  <2>1. /\ day' \in Nat /\ DOMAIN timeline' \subseteq Ids
        /\ \A t \in DOMAIN timeline' : timeline'[t] \in TimelineRow'
    BY LimitsAssumption DEF OnwardInv, StoreInv, ScalarsType, TablesType, TimelineType
  <2> QED BY <2>1 DEF TimelineRow
<1>4. IsFiniteSet(DOMAIN timeline')
  BY <1>3, IdsFinite
<1>5. ASSUME NEW r \in Readers, req'[r].kind = "statistics"
      PROVE  Asked(req'[r], apps', timeline', day')
  <2>1. Asked(req[r], apps, timeline, day)
    BY <1>5 DEF StatInv
  <2> QED BY <1>2, <1>3, <1>4, <2>1, AskedOnward DEF Onward
<1> QED BY <1>1, <1>5 DEF StatInv

\* A step of a request concerns its own record only.
LEMMA SetKeepsStats ==
    ASSUME StatInv, UNCHANGED vars, NEW r \in Readers, NEW q, Set(r, q), Shaped(q),
           q.kind = "statistics" => Asked(q, apps, timeline, day)
    PROVE  StatInv'
<1>1. req' = [p \in Readers |-> IF p = r THEN q ELSE req[p]]
  BY DEF StatInv, ReqShape, Set
<1>2. ReqShape'
  BY <1>1 DEF StatInv, ReqShape
<1>3. apps' = apps /\ timeline' = timeline /\ day' = day
  BY DEF vars
<1>4. OnwardInv'
  <2>1. StoreInv'
    BY NextTypes DEF StatInv, OnwardInv
  <2> QED BY <2>1 DEF StatInv, OnwardInv, UniqueNames, Registering, Named, ReadsRight, NoneAhead,
                      vars
<1>5. ASSUME NEW p \in Readers, req'[p].kind = "statistics"
      PROVE  Asked(req'[p], apps', timeline', day')
  BY <1>1, <1>3, <1>5 DEF StatInv
<1> QED BY <1>2, <1>4, <1>5 DEF StatInv

LEMMA FirstIsListed ==
    ASSUME NEW todo, todo # {}, \A e \in todo : e.id \in Nat PROVE FirstOf(todo) \in todo
<1>1. PICK n \in {e.id : e \in todo} : \A m \in {e.id : e \in todo} : n <= m
  <2>1. {e.id : e \in todo} \in SUBSET Nat /\ {e.id : e \in todo} # {}
    OBVIOUS
  <2> QED BY <2>1, LeastNumber
<1>2. PICK e \in todo : e.id = n
  OBVIOUS
<1>3. \A f \in todo : e.id <= f.id
  BY <1>1, <1>2
<1> QED BY <1>3 DEF FirstOf

\* A request comes in: the tables are what it remembers.
LEMMA AskStats ==
    ASSUME StatInv, NEW r \in Readers, NEW kind \in {"statistics", "counts"}, Ask(r, kind)
    PROVE  StatInv'
<1> DEFINE now == [apps |-> apps, timeline |-> timeline]
           q == [Resting EXCEPT !.at = "apps", !.kind = kind, !.was = now]
<1>1. Set(r, q) /\ UNCHANGED vars
  BY DEF Ask
<1>2. now.apps = apps /\ now.timeline = timeline
  OBVIOUS
<1> HIDE DEF now
<1>3. Shaped(q) /\ q.at = "apps" /\ q.out = {} /\ q.was = now
  BY DEF Shaped, Resting
<1> HIDE DEF q
<1>4. Asked(q, apps, timeline, day)
  BY <1>2, <1>3, Tables DEF Asked, StatInv, OnwardInv
<1> QED BY <1>1, <1>3, <1>4, SetKeepsStats

\* The apps are listed, with the durations they have.
LEMMA ListStats ==
    ASSUME StatInv, NEW r \in Readers, ReadApps(r) PROVE StatInv'
<1> DEFINE next == After(r, Listed, IF req[r].kind = "counts" THEN "counts" ELSE "rows")
           q == [req[r] EXCEPT !.todo = Listed, !.at = next]
<1>1. Set(r, q) /\ req[r].at = "apps" /\ UNCHANGED vars /\ Shaped(req[r])
  BY DEF ReadApps, Is, StatInv, ReqShape
<1>2. /\ Shaped(q) /\ q.todo = Listed /\ q.at = next
      /\ q.kind = req[r].kind /\ q.out = req[r].out /\ q.was = req[r].was
  <2> HIDE DEF next
  <2> QED BY <1>1 DEF Shaped
<1> HIDE DEF q
<1>3. ASSUME req[r].kind = "statistics" PROVE Asked(q, apps, timeline, day)
  <2>1. next = IF Listed = {} THEN "reply" ELSE "rows"
    BY <1>3 DEF After
  <2>2. /\ Fewer(q.was.apps, apps) /\ Older(q.was.timeline, timeline) /\ q.out = {}
    BY <1>1, <1>2, <1>3 DEF StatInv, Asked
  <2>3. ASSUME NEW e \in Listed PROVE Known(q, e, apps) /\ apps[e.id].name = e.name
    <3>1. PICK i \in DOMAIN apps :
             e = [id |-> i, name |-> apps[i].name, total |-> apps[i].duration]
      BY DEF Listed
    <3>2. i \in Nat /\ apps[i].duration \in Nat
      BY Columns DEF StatInv, OnwardInv
    <3>3. i \in DOMAIN q.was.apps => q.was.apps[i].duration <= apps[i].duration
      BY <2>2 DEF Fewer
    <3> QED BY <3>1, <3>2, <3>3 DEF Known
  <2> HIDE DEF next
  <2> QED BY <1>2, <2>1, <2>2, <2>3 DEF Asked, Listing
<1> QED BY <1>1, <1>2, <1>3, SetKeepsStats

\* The rows are found by name: they are those of the app, for names are unique.
LEMMA RowsStats ==
    ASSUME StatInv, NEW r \in Readers, ReadRows(r) PROVE StatInv'
<1> DEFINE rows == RowsOf(First(r).name)
           q == [req[r] EXCEPT !.at = "windows", !.rows = rows]
<1>1. Set(r, q) /\ req[r].at = "rows" /\ UNCHANGED vars /\ Shaped(req[r])
  BY DEF ReadRows, Is, StatInv, ReqShape
<1> HIDE DEF rows
<1>2. /\ Shaped(q) /\ q.at = "windows" /\ q.rows = rows /\ q.todo = req[r].todo
      /\ q.kind = req[r].kind /\ q.out = req[r].out /\ q.was = req[r].was
  BY <1>1 DEF Shaped
<1> HIDE DEF q
<1>3. ASSUME req[r].kind = "statistics" PROVE Asked(q, apps, timeline, day)
  <2> DEFINE e == First(r)
             i == First(r).id
  <2>1. Asked(req[r], apps, timeline, day)
    BY <1>3 DEF StatInv
  <2>2. /\ req[r].todo # {} /\ Listing(req[r], apps)
    BY <1>1, <2>1 DEF Asked
  <2>3. e = FirstOf(req[r].todo) /\ e \in req[r].todo
    <3>1. First(r) = FirstOf(req[r].todo)
      BY DEF First, FirstOf
    <3> QED BY <2>2, <3>1, FirstIsListed DEF Listing, Known
  <2>4. i \in DOMAIN apps /\ apps[i].name = e.name
    BY <2>2, <2>3 DEF Listing, Known
  <2>5. /\ DOMAIN rows = {t \in DOMAIN timeline :
                             timeline[t].day >= Back(day, Month)
                             /\ apps[timeline[t].app].name = e.name}
        /\ \A t \in DOMAIN rows : rows[t] = timeline[t]
    BY DEF rows, RowsOf, Restrict, Since
  <2>6. \A t \in DOMAIN timeline : timeline[t].app \in DOMAIN apps
    BY Columns DEF StatInv, OnwardInv, TimelineRow
  <2>7. \A t \in DOMAIN timeline : apps[timeline[t].app].name = e.name <=> timeline[t].app = i
    BY <2>4, <2>6 DEF StatInv, OnwardInv, UniqueNames
  <2>8. Older(rows, timeline) /\ \A t \in DOMAIN rows : timeline[t].app = i
    BY <2>5, <2>7, Tables DEF StatInv, OnwardInv, Older
  <2>9. ASSUME NEW t \in Ours(req[r].was.timeline, i),
               req[r].was.timeline[t].day >= Back(day, Month)
        PROVE  t \in DOMAIN rows /\ req[r].was.timeline[t].minutes <= rows[t].minutes
    <3>1. Older(req[r].was.timeline, timeline)
      BY <2>1 DEF Asked
    <3>2. /\ t \in DOMAIN timeline /\ timeline[t].app = i
          /\ timeline[t].day = req[r].was.timeline[t].day
          /\ req[r].was.timeline[t].minutes <= timeline[t].minutes
      BY <3>1 DEF Older, Ours
    <3> QED BY <2>5, <2>7, <2>9, <3>2
  <2>10. RowsRead(q, i, timeline, day)
    BY <1>2, <2>8, <2>9 DEF RowsRead
  <2>11. \A s, A, T : Reported(req[r], s, A, T) => Reported(q, s, A, T)
    BY <1>2 DEF Reported, Known, Amid
  <2>12. Listing(q, apps)
    BY <1>2, <2>2 DEF Listing, Known
  <2> QED BY <1>2, <2>1, <2>2, <2>3, <2>10, <2>11, <2>12 DEF Asked
<1> QED BY <1>1, <1>2, <1>3, SetKeepsStats

\* An app is done with, with a report of its statistics or none.
LEMMA NextAppStats ==
    ASSUME StatInv, NEW r \in Readers, NEW new, NextApp(r, new), UNCHANGED vars,
           req[r].at \in {"rows", "windows"},
           req[r].kind = "statistics" => \A s \in new : Reported(req[r], s, apps, timeline)
    PROVE  StatInv'
<1> DEFINE left == req[r].todo \ {First(r)}
           at == After(r, left, "rows")
           out == req[r].out \cup new
           q == [req[r] EXCEPT !.todo = left, !.rows = << >>, !.out = out, !.at = at]
<1>1. Set(r, q) /\ Shaped(req[r])
  BY DEF NextApp, StatInv, ReqShape
<1>2. at = IF left = {} THEN "reply" ELSE "rows"
  BY DEF After
<1>3. left \subseteq req[r].todo /\ out = req[r].out \cup new
  OBVIOUS
<1> HIDE DEF left, at, out
<1>4. /\ Shaped(q) /\ q.at = at /\ q.todo = left /\ q.out = out
      /\ q.kind = req[r].kind /\ q.was = req[r].was
  BY <1>1 DEF Shaped
<1> HIDE DEF q
<1>5. ASSUME req[r].kind = "statistics" PROVE Asked(q, apps, timeline, day)
  <2>1. Asked(req[r], apps, timeline, day)
    BY <1>5 DEF StatInv
  <2>2. \A s : Reported(req[r], s, apps, timeline) => Reported(q, s, apps, timeline)
    BY <1>4 DEF Reported, Known, Amid
  <2>3. Listing(q, apps)
    BY <1>3, <1>4, <2>1 DEF Asked, Listing, Known
  <2> QED BY <1>2, <1>3, <1>4, <1>5, <2>1, <2>2, <2>3 DEF Asked
<1> QED BY <1>1, <1>4, <1>5, SetKeepsStats

\* The three windows are summed up as of the date read now.
LEMMA CalculateStats ==
    ASSUME StatInv, NEW r \in Readers, Calculate(r) PROVE StatInv'
<1>1. NextApp(r, {Statistics(First(r), req[r].rows)}) /\ req[r].at = "windows" /\ UNCHANGED vars
  BY DEF Calculate, Is
<1>2. ASSUME req[r].kind = "statistics"
      PROVE  Reported(req[r], Statistics(First(r), req[r].rows), apps, timeline)
  <2>1. PICK q, e, rows, d, T : q = req[r] /\ e = First(r) /\ rows = q.rows /\ d = day /\ T = timeline
    OBVIOUS
  <2>2. Asked(q, apps, T, d)
    BY <1>2, <2>1 DEF StatInv
  <2>3. q.todo # {} /\ Listing(q, apps) /\ RowsRead(q, FirstOf(q.todo).id, T, d)
        /\ Older(q.was.timeline, T)
    BY <1>1, <2>1, <2>2 DEF Asked
  <2>4. e = FirstOf(q.todo) /\ e \in q.todo
    <3>1. e = FirstOf(q.todo)
      BY <2>1 DEF First, FirstOf
    <3> QED BY <2>3, <3>1, FirstIsListed DEF Listing, Known
  <2>5. Known(q, e, apps)
    BY <2>3, <2>4 DEF Listing
  <2>6. /\ d \in Nat /\ IsFiniteSet(DOMAIN T)
        /\ \A t \in DOMAIN T : T[t].minutes \in Nat /\ T[t].day \in Nat
    BY <2>1, Tables DEF StatInv, OnwardInv
  <2>7. /\ Back(d, Month) \in Nat /\ Back(d, Week) \in Nat
        /\ Back(d, Month) <= Back(d, Week) /\ Back(d, Month) <= d
    BY <2>6, Backs
  <2>8. \A from \in Nat : Back(d, Month) <= from =>
           Amid(q, e.id, Minutes(rows, Since(rows, from)), from, T)
    BY <2>1, <2>3, <2>4, <2>6, <2>7, AmidWindows
  <2>9. {t \in DOMAIN rows : rows[t].day = d} = Since(rows, d)
    <3>1. \A t \in DOMAIN T : T[t].day <= d
      BY <2>1 DEF StatInv, OnwardInv, NoneAhead
    <3>2. \A t \in DOMAIN rows : rows[t].day \in Nat /\ rows[t].day <= d
      BY <2>1, <2>3, <2>6, <3>1 DEF RowsRead, Older
    <3> QED BY <2>6, <3>2 DEF Since
  <2> DEFINE today == Minutes(rows, {t \in DOMAIN rows : rows[t].day = d})
             week == Minutes(rows, Since(rows, Back(d, Week)))
             month == Minutes(rows, Since(rows, Back(d, Month)))
             s == [id |-> e.id, total |-> e.total, day |-> d,
                   today |-> today, week |-> week, month |-> month]
  <2>10. s = Statistics(First(r), req[r].rows)
    BY <2>1 DEF Statistics
  <2>11. /\ Amid(q, e.id, today, d, T) /\ Amid(q, e.id, week, Back(d, Week), T)
         /\ Amid(q, e.id, month, Back(d, Month), T)
    BY <2>6, <2>7, <2>8, <2>9
  <2> HIDE DEF today, week, month
  <2>12. /\ s.id = e.id /\ s.total = e.total /\ s.day = d
         /\ s.today = today /\ s.week = week /\ s.month = month
    OBVIOUS
  <2> HIDE DEF s
  <2>13. Known(q, s, apps)
    BY <2>5, <2>12 DEF Known
  <2>14. Reported(q, s, apps, T)
    BY <2>11, <2>12, <2>13 DEF Reported
  <2> QED BY <2>1, <2>10, <2>14
<1> QED BY <1>1, <1>2, NextAppStats

(***************************************************************************)
(* Where nobody deletes apps and one caller adds them, a statistics reply  *)
(* lies between what the tables held when the request came in and what     *)
(* they hold now, though it reads the date twice and the rows app by app.  *)
(***************************************************************************)
THEOREM StatisticsCorrect == ASSUME OnlyAdding PROVE ReportSpec => []StatisticsBetween
<1>1. ReportInit => StatInv
  <2> SUFFICES ASSUME ReportInit PROVE StatInv
    OBVIOUS
  <2>1. StoreInv
    BY InitTypes DEF ReportInit
  <2> QED BY <2>1 DEF ReportInit, Init, Booted, Idle, StatInv, OnwardInv, UniqueNames, Registering,
                      ReadsRight, NoneAhead, ReqShape, Shaped, Resting
<1>2. StatInv /\ [ReportNext]_allVars => StatInv'
  <2> SUFFICES ASSUME StatInv, [ReportNext]_allVars PROVE StatInv'
    OBVIOUS
  <2>1. CASE [Next]_vars /\ UNCHANGED req
    BY <2>1, StoreOnward, StoreKeepsStats DEF StatInv
  <2>2. CASE Crash /\ req' = [r \in Readers |-> Resting]
    <3>1. OnwardInv'
      BY <2>2, StoreOnward DEF StatInv, Next
    <3> QED BY <2>2, <3>1 DEF StatInv, ReqShape, Shaped, Resting
  <2>3. ASSUME NEW r \in Readers, Request(r) PROVE StatInv'
    <3>1. UNCHANGED vars
      BY <2>3, RequestsOnlyRead
    <3>2. Shaped(req[r])
      BY DEF StatInv, ReqShape
    <3>3. CASE SkipApp(r)
      BY <3>1, <3>3, NextAppStats DEF SkipApp, Is
    <3>4. CASE CountRows(r)
      <4>1. req[r].kind # "statistics"
        BY <3>4 DEF CountRows, Is, StatInv, Asked
      <4>2. PICK todo, out, at :
                Set(r, [req[r] EXCEPT !.todo = todo, !.out = out, !.at = at])
        BY <3>4 DEF CountRows
      <4> DEFINE q == [req[r] EXCEPT !.todo = todo, !.out = out, !.at = at]
      <4>3. Shaped(q) /\ q.kind = req[r].kind
        BY <3>2 DEF Shaped
      <4>4. Set(r, q)
        BY <4>2
      <4> HIDE DEF q
      <4> QED BY <3>1, <4>1, <4>3, <4>4, SetKeepsStats
    <3>5. CASE Answer(r)
      BY <3>1, <3>5, SetKeepsStats DEF Answer, Resting, Shaped
    <3> QED BY <2>3, <3>3, <3>4, <3>5, AskStats, ListStats, RowsStats, CalculateStats
            DEF Request, ReadFails, Respond
  <2> QED BY <2>1, <2>2, <2>3 DEF ReportNext, Next, allVars
<1>3. StatInv => StatisticsBetween
  <2> SUFFICES ASSUME StatInv, NEW r \in Readers, Replied(r, "statistics"), NEW s \in req[r].out
               PROVE  LET then == OfApp(req[r].was.timeline, s.id)
                          now  == OfApp(timeline, s.id)
                          Between(n, from) == /\ Minutes(then, Since(then, from)) <= n
                                              /\ n <= Minutes(now, Since(now, from))
                      IN  /\ s.id \in DOMAIN req[r].was.apps =>
                                req[r].was.apps[s.id].duration <= s.total
                          /\ s.total <= apps[s.id].duration
                          /\ Between(s.week, Back(s.day, Week))
                          /\ Between(s.month, Back(s.day, Month))
                          /\ Between(s.today, s.day)
    BY DEF StatisticsBetween
  <2>1. Reported(req[r], s, apps, timeline)
    BY DEF StatInv, Asked, Replied
  <2> QED BY <2>1 DEF Reported, Known, Amid, Total
<1> QED BY <1>1, <1>2, <1>3, PTL DEF ReportSpec
=============================================================================
