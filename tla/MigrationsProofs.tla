-------------------------- MODULE MigrationsProofs --------------------------
(***************************************************************************)
(* A process that got past the migrations finds the whole schema, for any  *)
(* number of processes, kills and failing statements.                      *)
(***************************************************************************)
EXTENDS Migrations, TLAPS

Made(m) == Migrations[m].tables \subseteq tables

\* Each process is at a step, with migrations left from the list.
Types ==
    /\ at \in [Processes -> Steps]
    /\ todo \in [Processes -> SUBSET DOMAIN Migrations]

\* A migration with a record has its table.
RecordsMade == \A m \in recorded : Made(m)

\* So has one that a pass found recorded or has run since.
PassesMade ==
    \A p \in Processes :
        /\ at[p] \in {"up", "record"} => \A m \in DOMAIN Migrations \ todo[p] : Made(m)
        /\ at[p] = "record" => Made(Due(p))
        /\ at[p] = "ready" => \A m \in DOMAIN Migrations : Made(m)

SchemaInv == Types /\ RecordsMade /\ PassesMade

\* Every table a foreign key refers to is created by some migration.
LEMMA RefsNeeded == \A m \in DOMAIN Migrations : Migrations[m].refs \subseteq Needed
<1> DEFINE M == Migrations
<1>1. DOMAIN M = 1 .. 7
  BY DEF Migrations
<1>2. /\ M[1].tables = {"apps"} /\ M[3].tables = {"checkpoints"}
      /\ M[1].refs = {} /\ M[2].refs = {"apps", "checkpoints"} /\ M[3].refs = {"apps"}
      /\ M[4].refs = {} /\ M[5].refs = {} /\ M[6].refs = {} /\ M[7].refs = {"apps"}
  BY DEF Migrations, CreateApps, CreateTimeline, CreateCheckpoints, CreateAliases, Creates,
         TimelineCheckpoints, CheckpointDurations, ActiveCheckpoints, NoLongerCreates
<1>3. "apps" \in Needed /\ "checkpoints" \in Needed
  BY <1>1, <1>2 DEF Needed
<1>4. ASSUME NEW m \in 1 .. 7 PROVE M[m].refs \subseteq {"apps", "checkpoints"}
  BY <1>2
<1> QED BY <1>1, <1>3, <1>4

\* Tables only come to be, and what is made stays made.
LEMMA MadeStays ==
    ASSUME tables \subseteq tables', NEW m, Made(m) PROVE Made(m)'
BY DEF Made, Migrations, CreateApps, CreateTimeline, CreateCheckpoints, CreateAliases, Creates,
       TimelineCheckpoints, CheckpointDurations, ActiveCheckpoints, NoLongerCreates

\* A process that goes somewhere else disturbs no other.
LEMMA OthersKept ==
    ASSUME SchemaInv, tables \subseteq tables', NEW p \in Processes, NEW step \in Steps,
           Goto(p, step), todo' \in [Processes -> SUBSET DOMAIN Migrations],
           \A q \in Processes \ {p} : todo'[q] = todo[q]
    PROVE  /\ Types'
           /\ \A q \in Processes \ {p} :
                 /\ at'[q] \in {"up", "record"} =>
                       \A m \in DOMAIN Migrations \ todo'[q] : Made(m)'
                 /\ at'[q] = "record" => Made(Due(q))'
                 /\ at'[q] = "ready" => \A m \in DOMAIN Migrations : Made(m)'
<1>1. Types'
  BY DEF SchemaInv, Types, Goto
<1>2. ASSUME NEW q \in Processes \ {p}
      PROVE  /\ at'[q] \in {"up", "record"} =>
                   \A m \in DOMAIN Migrations \ todo'[q] : Made(m)'
             /\ at'[q] = "record" => Made(Due(q))'
             /\ at'[q] = "ready" => \A m \in DOMAIN Migrations : Made(m)'
  <2>1. at'[q] = at[q] /\ todo'[q] = todo[q]
    BY <1>2 DEF SchemaInv, Types, Goto
  <2>2. (Due(q))' = Due(q)
    BY <2>1 DEF Due
  <2>3. \A m : Made(m) => Made(m)'
    BY MadeStays
  <2>4. at[q] = "record" => Made(Due(q))
    BY <1>2 DEF SchemaInv, PassesMade
  <2>5. Made(Due(q)) => (Made(Due(q)))'
    BY <2>2 DEF Made
  <2> QED BY <1>2, <2>1, <2>3, <2>4, <2>5 DEF SchemaInv, PassesMade
<1> QED BY <1>1, <1>2

\* What is left to show of a step: its own process, and the records.
LEMMA StepKeeps ==
    ASSUME SchemaInv, tables \subseteq tables', NEW p \in Processes, NEW step \in Steps,
           Goto(p, step), todo' \in [Processes -> SUBSET DOMAIN Migrations],
           \A q \in Processes \ {p} : todo'[q] = todo[q],
           \A m \in recorded' \ recorded : Made(m)',
           step \in {"up", "record"} => \A m \in DOMAIN Migrations \ todo'[p] : Made(m)',
           step = "record" => Made(Due(p))',
           step = "ready" => \A m \in DOMAIN Migrations : Made(m)'
    PROVE  SchemaInv'
<1>1. Types' /\ \A q \in Processes \ {p} :
                 /\ at'[q] \in {"up", "record"} =>
                       \A m \in DOMAIN Migrations \ todo'[q] : Made(m)'
                 /\ at'[q] = "record" => Made(Due(q))'
                 /\ at'[q] = "ready" => \A m \in DOMAIN Migrations : Made(m)'
  BY OthersKept
<1>2. at'[p] = step
  BY DEF SchemaInv, Types, Goto
<1>3. PassesMade'
  BY <1>1, <1>2 DEF PassesMade
<1>4. RecordsMade'
  <2>1. \A m \in recorded : Made(m)'
    BY MadeStays DEF SchemaInv, RecordsMade
  <2> QED BY <2>1 DEF RecordsMade
<1> QED BY <1>1, <1>3, <1>4 DEF SchemaInv

\* The step after a pass: again, or on with the program.
LEMMA AfterPass ==
    ASSUME SchemaInv, tables \subseteq tables', NEW p \in Processes, PassOver(p),
           todo' \in [Processes -> SUBSET DOMAIN Migrations],
           \A q \in Processes \ {p} : todo'[q] = todo[q],
           \A m \in recorded' \ recorded : Made(m)',
           \A m \in DOMAIN Migrations : Made(m)'
    PROVE  SchemaInv'
<1>1. CASE passes[p] = 0
  BY <1>1, StepKeeps DEF PassOver, Steps
<1>2. CASE passes[p] # 0
  BY <1>2, StepKeeps DEF PassOver, Steps
<1> QED BY <1>1, <1>2

(***************************************************************************)
(* Whoever gets past the migrations finds every table, and every table     *)
(* that one's foreign keys refer to.                                       *)
(***************************************************************************)
THEOREM SchemaCorrect == Spec => []ReadySchema
<1>1. Init => SchemaInv
  BY DEF Init, SchemaInv, Types, RecordsMade, PassesMade, Steps
<1>2. SchemaInv /\ [Next]_vars => SchemaInv'
  <2> SUFFICES ASSUME SchemaInv, [Next]_vars PROVE SchemaInv'
    OBVIOUS
  <2>0. todo \in [Processes -> SUBSET DOMAIN Migrations]
    BY DEF SchemaInv, Types
  <2>1. ASSUME NEW p \in Processes, Start(p) PROVE SchemaInv'
    BY <2>0, <2>1, StepKeeps DEF Start, database, Steps
  <2>2. ASSUME NEW p \in Processes, Install(p) PROVE SchemaInv'
    BY <2>0, <2>2, StepKeeps DEF Install, Steps
  <2>3. ASSUME NEW p \in Processes, Status(p) PROVE SchemaInv'
    <3> DEFINE pending == DOMAIN Migrations \ recorded
    <3>1. /\ todo' \in [Processes -> SUBSET DOMAIN Migrations]
          /\ todo'[p] = pending
          /\ \A q \in Processes \ {p} : todo'[q] = todo[q]
      BY <2>0, <2>3 DEF Status
    <3>2. tables' = tables /\ recorded' = recorded
      BY <2>3 DEF Status, database
    <3>3. \A m \in DOMAIN Migrations \ pending : Made(m)'
      BY <3>2, MadeStays DEF SchemaInv, RecordsMade
    <3>4. CASE pending = {}
      BY <2>3, <3>1, <3>2, <3>3, <3>4, AfterPass DEF Status
    <3>5. CASE pending # {}
      <4>1. Goto(p, "up")
        BY <2>3, <3>5 DEF Status
      <4> QED BY <3>1, <3>2, <3>3, <4>1, StepKeeps DEF Steps
    <3> QED BY <3>4, <3>5
  <2>4. ASSUME NEW p \in Processes, Up(p) PROVE SchemaInv'
    <3>1. /\ tables \subseteq tables' /\ recorded' = recorded /\ todo' = todo
          /\ Goto(p, "record")
      BY <2>4 DEF Up
    <3>2. \A m \in DOMAIN Migrations \ todo[p] : Made(m)
      BY <2>4 DEF SchemaInv, PassesMade, Up
    <3>3. \A m \in DOMAIN Migrations \ todo'[p] : Made(m)'
      BY <3>1, <3>2, MadeStays
    <3>4. (Made(Due(p)))'
      <4>1. (Due(p))' = Due(p)
        BY <3>1 DEF Due
      <4> QED BY <2>4, <4>1 DEF Up, Made
    <3> QED BY <2>0, <3>1, <3>3, <3>4, StepKeeps DEF Steps
  <2>5. ASSUME NEW p \in Processes, Record(p) PROVE SchemaInv'
    <3>1. tables' = tables
      BY <2>5 DEF Record
    <3>2. Made(Due(p)) /\ \A m \in DOMAIN Migrations \ todo[p] : Made(m)
      BY <2>5 DEF SchemaInv, PassesMade, Record
    <3>3. CASE Due(p) \in recorded
      <4>1. /\ Goto(p, "failed") /\ recorded' = recorded
            /\ todo' = [todo EXCEPT ![p] = {}]
        BY <2>5, <3>3 DEF Record
      <4> QED BY <2>0, <3>1, <4>1, StepKeeps DEF Steps
    <3>4. CASE Due(p) \notin recorded
      <4>1. /\ recorded' = recorded \cup {Due(p)}
            /\ todo' = [todo EXCEPT ![p] = todo[p] \ {Due(p)}]
            /\ IF todo'[p] = {} THEN PassOver(p) ELSE Goto(p, "up")
        BY <2>5, <3>4 DEF Record
      <4>2. /\ todo' \in [Processes -> SUBSET DOMAIN Migrations]
            /\ todo'[p] = todo[p] \ {Due(p)}
            /\ \A q \in Processes \ {p} : todo'[q] = todo[q]
        BY <2>0, <4>1
      <4>3. \A m \in DOMAIN Migrations \ todo'[p] : Made(m)'
        BY <3>1, <3>2, <4>2, MadeStays
      <4>4. \A m \in recorded' \ recorded : Made(m)'
        BY <3>1, <3>2, <4>1, MadeStays
      <4>5. CASE todo'[p] = {}
        BY <3>1, <4>1, <4>2, <4>3, <4>4, <4>5, AfterPass
      <4>6. CASE todo'[p] # {}
        <5>1. Goto(p, "up")
          BY <4>1, <4>6
        <5> QED BY <3>1, <4>2, <4>3, <4>4, <5>1, StepKeeps DEF Steps
      <4> QED BY <4>5, <4>6
    <3> QED BY <3>3, <3>4
  <2>6. ASSUME NEW p \in Processes, Exit(p) PROVE SchemaInv'
    BY <2>0, <2>6, StepKeeps DEF Exit, database, Steps
  <2>7. ASSUME NEW p \in Processes, Killed(p) PROVE SchemaInv'
    BY <2>0, <2>7, StepKeeps DEF Killed, Ends, database, Steps
  <2>8. ASSUME NEW p \in Processes, StatementFails(p) PROVE SchemaInv'
    BY <2>0, <2>8, StepKeeps DEF StatementFails, Ends, database, Steps
  <2>9. CASE UNCHANGED vars
    BY <2>9, MadeStays DEF vars, SchemaInv, Types, RecordsMade, PassesMade, Made, Due
  <2> QED BY <2>1, <2>2, <2>3, <2>4, <2>5, <2>6, <2>7, <2>8, <2>9 DEF Next, Pass
<1>3. SchemaInv => ReadySchema
  <2>1. ASSUME SchemaInv, NEW p \in Processes, at[p] = "ready" PROVE Needed \subseteq tables
    BY <2>1 DEF SchemaInv, PassesMade, Made, Needed
  <2> QED BY <2>1, RefsNeeded DEF ReadySchema
<1> QED BY <1>1, <1>2, <1>3, PTL DEF Spec
=============================================================================
