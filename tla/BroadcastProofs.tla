--------------------------- MODULE BroadcastProofs --------------------------
(***************************************************************************)
(* Theorems about Broadcast, for every set of connections, publishers and  *)
(* topics and every bound.                                                 *)
(***************************************************************************)
EXTENDS Broadcast, TLAPS

\* The next message is an update or a subscription change.
LEMMA MessageType ==
    ASSUME TypeOK, channel # << >>
    PROVE  /\ IsUpdate(Message) => Message \in Update
           /\ ~IsUpdate(Message) => Message \in Change
           /\ Tail(channel) \in Seq(Update \cup Change)
  BY DEF TypeOK, IsUpdate, Message

\* A queue of updates stays one when an update is added at its end.
LEMMA QueueGrows ==
    ASSUME NEW f \in [Clients -> Seq(Update)], NEW c \in Clients, NEW u \in Update
    PROVE  [f EXCEPT ![c] = Append(@, u)] \in [Clients -> Seq(Update)]
<1>1. Append(f[c], u) \in Seq(Update)
  OBVIOUS
<1> QED BY <1>1

\* Serving one client of a round keeps the type of the broadcaster's state.
LEMMA ServedType ==
    ASSUME TypeOK, NEW e \in cast.todo, NEW failed \in SUBSET Clients, Served(e, failed),
           cast.at = "each"
    PROVE  /\ cast' \in [at : {"idle", "each", "purge"}, update : Update \cup {None},
                         todo : SUBSET (Clients \X BOOLEAN), failed : SUBSET Clients]
           /\ cast'.at = "each" => cast'.update \in Update
  BY DEF TypeOK, Served, Quiet

\* Every variable keeps its type, whatever connections do to each other.
THEOREM BroadcastTypes == Spec => []TypeOK
<1>1. Init => TypeOK
  BY BoundsAssumption DEF Init, TypeOK, Quiet, Phases
<1>2. TypeOK /\ [Next]_vars => TypeOK'
  <2> SUFFICES ASSUME TypeOK, [Next]_vars PROVE TypeOK'
    OBVIOUS
  <2>1. ASSUME NEW p \in Publishers, WriteStatus(p) PROVE TypeOK'
    <3>1. made + 1 \in 1 .. MaxUpdates
      BY <2>1, BoundsAssumption DEF WriteStatus, TypeOK
    <3>2. [topic |-> TrackingStatus, n |-> made + 1] \in Update
      BY <3>1, TopicsAssumption DEF Update
    <3>3. made' \in 0 .. MaxUpdates /\ status' \in 0 .. MaxUpdates
      BY <2>1, <3>1, BoundsAssumption DEF WriteStatus
    <3> QED
      BY <2>1, <3>2, <3>3 DEF WriteStatus, TypeOK, registry, connection
  <2>2. ASSUME NEW p \in Publishers, SendStatus(p) PROVE TypeOK'
    <3>1. pub[p] \in Update
      BY <2>2 DEF SendStatus, TypeOK
    <3>2. channel' \in Seq(Update \cup Change)
      BY <2>2, <3>1 DEF SendStatus, TypeOK
    <3>3. pub' \in [Publishers -> Update \cup {None}]
      BY <2>2 DEF SendStatus, TypeOK
    <3> QED
      BY <2>2, <3>2, <3>3 DEF SendStatus, TypeOK, registry, connection
  <2>3. ASSUME NEW t \in Topics, SendData(t) PROVE TypeOK'
    <3>1. made + 1 \in 1 .. MaxUpdates
      BY <2>3, BoundsAssumption DEF SendData, TypeOK
    <3>2. [topic |-> t, n |-> made + 1] \in Update
      BY <3>1 DEF Update
    <3>3. channel' \in Seq(Update \cup Change)
      BY <2>3, <3>2 DEF SendData, TypeOK
    <3>4. made' \in 0 .. MaxUpdates
      BY <2>3, <3>1, BoundsAssumption DEF SendData
    <3> QED
      BY <2>3, <3>3, <3>4 DEF SendData, TypeOK, registry, connection
  <2>4. CASE ChangeSubscription
    <3>1. Message \in Change /\ channel' \in Seq(Update \cup Change)
      BY <2>4, MessageType DEF ChangeSubscription
    <3>2. subs' \in [Clients -> SUBSET Topics]
      BY <2>4, <3>1 DEF ChangeSubscription, Change, TypeOK
    <3> QED
      BY <2>4, <3>1, <3>2 DEF ChangeSubscription, TypeOK, publishing, registry, connection
  <2>5. CASE Snapshot
    <3>1. Message \in Update /\ channel' \in Seq(Update \cup Change)
      BY <2>5, MessageType DEF Snapshot
    <3>2. {<<c, c \in wired>> : c \in clients} \subseteq Clients \X BOOLEAN
      <4> SUFFICES ASSUME NEW c \in clients PROVE <<c, c \in wired>> \in Clients \X BOOLEAN
        OBVIOUS
      <4>1. (c \in wired) \in BOOLEAN
        OBVIOUS
      <4>2. c \in Clients
        BY DEF TypeOK
      <4> QED BY <4>1, <4>2
    <3>3. /\ cast' \in [at : {"idle", "each", "purge"}, update : Update \cup {None},
                        todo : SUBSET (Clients \X BOOLEAN), failed : SUBSET Clients]
          /\ cast'.at = "each" => cast'.update \in Update
      <4>1. CASE clients = {}
        BY <2>5, <4>1 DEF Snapshot, Quiet
      <4>2. CASE clients # {}
        <5>1. cast' = [at |-> "each", update |-> Message,
                       todo |-> {<<c, c \in wired>> : c \in clients}, failed |-> {}]
          BY <2>5, <4>2 DEF Snapshot, Quiet
        <5> QED BY <5>1, <3>1, <3>2
      <4> QED BY <4>1, <4>2
    <3> QED
      BY <2>5, <3>1, <3>3 DEF Snapshot, TypeOK, publishing, registry, connection
  <2>6. CASE Purge
    BY <2>6 DEF Purge, TypeOK, Quiet, publishing, connection
  <2>7. ASSUME NEW e \in Clients \X BOOLEAN, Serve(e) PROVE TypeOK'
    <3>1. e[1] \in Clients /\ cast.failed \in SUBSET Clients
          /\ cast.failed \cup {e[1]} \in SUBSET Clients
      BY DEF TypeOK
    <3>2. /\ cast' \in [at : {"idle", "each", "purge"}, update : Update \cup {None},
                        todo : SUBSET (Clients \X BOOLEAN), failed : SUBSET Clients]
          /\ cast'.at = "each" => cast'.update \in Update
      BY <2>7, <3>1, ServedType DEF Serve
    <3>3. cast.update \in Update
      BY <2>7 DEF Serve, TypeOK
    <3>4. outgoing' \in [Clients -> Seq(Update)]
      <4>1. [outgoing EXCEPT ![e[1]] = Append(@, cast.update)] \in [Clients -> Seq(Update)]
        BY <3>1, <3>3, QueueGrows DEF TypeOK
      <4> QED BY <2>7, <4>1 DEF Serve, TypeOK
    <3> QED
      BY <2>7, <3>2, <3>4 DEF Serve, TypeOK, publishing, registry
  <2>8. ASSUME NEW c \in Clients, Connection(c) PROVE TypeOK'
    <3>1. \A s \in Phases : [pc EXCEPT ![c] = s] \in [Clients -> Phases]
      BY DEF TypeOK
    <3> USE <3>1 DEF Goto, Phases
    <3>a. CASE Connect(c)
      BY <3>a DEF Connect, TypeOK, publishing, connection
    <3>b. CASE Greet(c)
      BY <3>b DEF Greet, TypeOK, publishing, registry
    <3>c. CASE GreetFails(c)
      BY <3>c DEF GreetFails, TypeOK, publishing, connection
    <3>d. CASE Wire(c)
      BY <3>d DEF Wire, TypeOK, publishing, connection
    <3>e. CASE Push(c)
      <4>1. outgoing[c] # << >> => Head(outgoing[c]) \in Update /\ Tail(outgoing[c]) \in Seq(Update)
        BY DEF TypeOK
      <4>2. CASE outgoing[c] = << >>
        BY <3>e, <4>2 DEF Push, TypeOK, publishing, registry
      <4>3. ASSUME outgoing[c] # << >>
            PROVE  /\ outgoing' \in [Clients -> Seq(Update)]
                   /\ received' \in [Clients -> Seq(Update)]
        <5>1. [received EXCEPT ![c] = Append(@, Head(outgoing[c]))] \in [Clients -> Seq(Update)]
          BY <4>1, <4>3, QueueGrows DEF TypeOK
        <5>2. [outgoing EXCEPT ![c] = Tail(@)] \in [Clients -> Seq(Update)]
          BY <4>1, <4>3 DEF TypeOK
        <5>3. /\ outgoing' = [outgoing EXCEPT ![c] = Tail(@)]
              /\ received' = [received EXCEPT ![c] = Append(@, Head(outgoing[c]))]
          BY <3>e, <4>3, Zenon DEF Push
        <5> QED BY <5>1, <5>2, <5>3
      <4> QED
        BY <3>e, <4>2, <4>3 DEF Push, TypeOK, publishing, registry
    <3>f. CASE PushFails(c)
      <4>1. outgoing' \in [Clients -> Seq(Update)]
        BY <3>f DEF PushFails, TypeOK
      <4> QED
        BY <3>f, <4>1 DEF PushFails, TypeOK, publishing, registry
    <3>g. CASE ReadNothing(c)
      BY <3>g DEF ReadNothing, TypeOK, publishing, registry, connection
    <3>h. CASE ReadFails(c)
      BY <3>h DEF ReadFails, TypeOK, publishing, registry, connection
    <3>i. ASSUME NEW op \in {"subscribe", "unsubscribe"}, NEW ts \in SUBSET Topics \ {{}},
                 Request(c, op, ts)
          PROVE  TypeOK'
      <4>1. [op |-> op, client |-> c, topics |-> ts] \in Change
        BY DEF Change
      <4>2. channel' \in Seq(Update \cup Change)
        BY <3>i, <4>1 DEF Request, TypeOK
      <4>3. asked' \in [Clients -> 0 .. MaxRequests]
        BY <3>i, BoundsAssumption DEF Request, TypeOK
      <4>4. pc' \in [Clients -> Phases]
        BY <3>i DEF Request
      <4> QED
        BY <3>i, <4>2, <4>3, <4>4 DEF Request, TypeOK, publishing, registry
    <3>j. CASE RemoveClient(c)
      BY <3>j DEF RemoveClient, TypeOK, publishing, connection
    <3>k. CASE DropReceiver(c)
      BY <3>k DEF DropReceiver, TypeOK, publishing, registry
    <3> QED
      BY <2>8, <3>a, <3>b, <3>c, <3>d, <3>e, <3>f, <3>g, <3>h, <3>i, <3>j, <3>k
         DEF Connection, Loop, Closing
  <2>9. CASE UNCHANGED vars
    BY <2>9 DEF vars, TypeOK
  <2> QED
    BY <2>1, <2>2, <2>3, <2>4, <2>5, <2>6, <2>7, <2>8, <2>9 DEF Next, Publish, Broadcaster
<1> QED
  BY <1>1, <1>2, PTL DEF Spec

-----------------------------------------------------------------------------
(***************************************************************************)
(* LiveStaysRegistered.  A round removes the clients whose send failed, so *)
(* the failed ones must be gone.  A send also fails on a sender that was   *)
(* cloned before its connection was wired, so such a client must not be    *)
(* subscribed: it has made no request when it is cloned, and no request of *)
(* its is applied before the round ends.                                   *)
(***************************************************************************)
Fresh == {"off", "greet", "wire"}
Member == {"push", "read", "leave"}

\* Where a connection stands is where the map has it.
Placed ==
    \A c \in Clients :
        /\ pc[c] \in {"off", "drop", "gone"} => c \notin clients
        /\ pc[c] \in {"greet", "wire"} => c \in clients
        /\ pc[c] \in Member => c \in clients /\ c \in wired

\* A connection that is not wired has no subscription, applied or on its way.
FreshSilent == \A c \in Clients : pc[c] \in Fresh => subs[c] = {}
FreshUnheard ==
    \A i \in 1 .. Len(channel) :
        ~IsUpdate(channel[i]) => pc[channel[i].client] \notin Fresh

\* Nor has a client that was cloned unwired, until the round ends.
CloneSilent ==
    /\ cast.at = "idle" => cast.todo = {}
    /\ \A e \in cast.todo : ~e[2] => subs[e[1]] = {}

FailedGone == \A c \in cast.failed : pc[c] = "gone"

RegistryInv == TypeOK /\ Placed /\ FreshSilent /\ FreshUnheard /\ CloneSilent /\ FailedGone

\* The channel under a message more, and under a message less.
LEMMA AppendKeepsUnheard ==
    ASSUME TypeOK, FreshUnheard, NEW m \in Update \cup Change,
           channel' = Append(channel, m),
           ~IsUpdate(m) => pc'[m.client] \notin Fresh,
           \A c \in Clients : pc[c] \notin Fresh => pc'[c] \notin Fresh
    PROVE  FreshUnheard'
<1> SUFFICES ASSUME NEW i \in 1 .. Len(channel'), ~IsUpdate(channel'[i])
             PROVE  pc'[channel'[i].client] \notin Fresh
  BY DEF FreshUnheard, IsUpdate
<1>1. channel \in Seq(Update \cup Change)
  BY DEF TypeOK
<1>2. CASE i \in 1 .. Len(channel)
  <2>1. channel'[i] = channel[i] /\ channel[i] \in Update \cup Change
    BY <1>1, <1>2
  <2>2. channel[i].client \in Clients
    BY <2>1 DEF IsUpdate, Change
  <2>3. pc[channel[i].client] \notin Fresh
    BY <1>2, <2>1 DEF FreshUnheard
  <2> QED BY <2>1, <2>2, <2>3
<1>3. CASE i = Len(channel) + 1
  BY <1>1, <1>3
<1> QED BY <1>1, <1>2, <1>3

LEMMA TailKeepsUnheard ==
    ASSUME TypeOK, FreshUnheard, channel # << >>, channel' = Tail(channel), pc' = pc
    PROVE  FreshUnheard'
<1> SUFFICES ASSUME NEW i \in 1 .. Len(channel'), ~IsUpdate(channel'[i])
             PROVE  pc[channel'[i].client] \notin Fresh
  BY DEF FreshUnheard, IsUpdate
<1>1. channel \in Seq(Update \cup Change)
  BY DEF TypeOK
<1>2. i + 1 \in 1 .. Len(channel) /\ channel'[i] = channel[i + 1]
  BY <1>1
<1> QED BY <1>2 DEF FreshUnheard

\* A thread's step that leaves the channel alone and makes nobody fresh.
LEMMA StepKeepsUnheard ==
    ASSUME TypeOK, FreshUnheard, channel' = channel,
           \A c \in Clients : pc[c] \notin Fresh => pc'[c] \notin Fresh
    PROVE  FreshUnheard'
<1> SUFFICES ASSUME NEW i \in 1 .. Len(channel), ~IsUpdate(channel[i])
             PROVE  pc'[channel[i].client] \notin Fresh
  BY DEF FreshUnheard, IsUpdate
<1>1. channel[i] \in Change
  BY DEF TypeOK, IsUpdate
<1> QED BY <1>1 DEF FreshUnheard, Change

\* A step of one connection moves no other connection.
LEMMA GotoOne ==
    ASSUME TypeOK, NEW c \in Clients, NEW s, Goto(c, s)
    PROVE  \A d \in Clients : pc'[d] = IF d = c THEN s ELSE pc[d]
  BY DEF Goto, TypeOK

\* Map, subscriptions and connection threads agree, between any two steps.
LEMMA RegistryHolds == Spec => []RegistryInv
<1>1. Init => RegistryInv
  <2> SUFFICES ASSUME Init PROVE RegistryInv
    OBVIOUS
  <2>1. TypeOK
    BY BoundsAssumption DEF Init, TypeOK, Quiet, Phases
  <2>2. Placed /\ FreshSilent /\ FreshUnheard
    BY DEF Init, Placed, FreshSilent, FreshUnheard, Fresh, Member
  <2>3. CloneSilent /\ FailedGone
    BY DEF Init, CloneSilent, FailedGone, Quiet
  <2> QED BY <2>1, <2>2, <2>3 DEF RegistryInv
<1>2. RegistryInv /\ TypeOK' /\ [Next]_vars => RegistryInv'
  <2> SUFFICES ASSUME RegistryInv, TypeOK', [Next]_vars PROVE RegistryInv'
    OBVIOUS
  <2> USE DEF RegistryInv
  <2>1. ASSUME NEW p \in Publishers, WriteStatus(p) PROVE RegistryInv'
    BY <2>1 DEF WriteStatus, Placed, FreshSilent, FreshUnheard, IsUpdate, CloneSilent, FailedGone,
                registry
  <2>2. ASSUME NEW m \in Update, channel' = Append(channel, m),
               UNCHANGED <<cast, registry, subs, pc>>
        PROVE  RegistryInv'
    <3>1. FreshUnheard'
      BY <2>2, AppendKeepsUnheard DEF IsUpdate
    <3> QED
      BY <2>2, <3>1 DEF Placed, FreshSilent, CloneSilent, FailedGone, registry
  <2>3. ASSUME NEW p \in Publishers, SendStatus(p) PROVE RegistryInv'
    <3>1. pub[p] \in Update
      BY <2>3 DEF SendStatus, TypeOK
    <3> QED BY <2>2, <2>3, <3>1 DEF SendStatus
  <2>4. ASSUME NEW t \in Topics, SendData(t) PROVE RegistryInv'
    <3>1. [topic |-> t, n |-> made + 1] \in Update
      BY <2>4, BoundsAssumption DEF SendData, TypeOK, Update
    <3> QED BY <2>2, <2>4, <3>1 DEF SendData
  <2>5. CASE ChangeSubscription
    <3>1. Message \in Change
      BY <2>5, MessageType DEF ChangeSubscription
    <3>2. pc[Message.client] \notin Fresh
      <4>1. 1 \in 1 .. Len(channel) /\ Message = channel[1]
        BY <2>5 DEF ChangeSubscription, TypeOK, Message
      <4> QED BY <2>5, <4>1 DEF ChangeSubscription, FreshUnheard
    <3>3. FreshUnheard'
      BY <2>5, TailKeepsUnheard DEF ChangeSubscription
    <3>4. \A c \in Clients : c # Message.client => subs'[c] = subs[c]
      BY <2>5, <3>1 DEF ChangeSubscription, Change, TypeOK
    <3>5. FreshSilent'
      BY <2>5, <3>2, <3>4 DEF ChangeSubscription, FreshSilent
    <3>6. CloneSilent'
      BY <2>5 DEF ChangeSubscription, CloneSilent
    <3> QED
      BY <2>5, <3>3, <3>5, <3>6 DEF ChangeSubscription, Placed, FailedGone, registry
  <2>6. CASE Snapshot
    <3>1. FreshUnheard'
      BY <2>6, TailKeepsUnheard DEF Snapshot
    <3>2. cast'.failed = {} /\ (cast'.at = "idle" => cast'.todo = {})
      BY <2>6 DEF Snapshot, Quiet
    <3>3. cast'.todo = {<<c, c \in wired>> : c \in clients}
      BY <2>6 DEF Snapshot, Quiet
    <3>4. ASSUME NEW c \in clients, c \notin wired PROVE subs[c] = {}
      BY <3>4 DEF Placed, FreshSilent, TypeOK, Phases, Member, Fresh
    <3>5. CloneSilent'
      <4> SUFFICES ASSUME NEW e \in cast'.todo, ~e[2] PROVE subs'[e[1]] = {}
        BY <3>2 DEF CloneSilent
      <4>1. PICK c \in clients : e = <<c, c \in wired>>
        BY <3>3
      <4> QED BY <2>6, <4>1, <3>4 DEF Snapshot
    <3> QED
      BY <2>6, <3>1, <3>2, <3>5 DEF Snapshot, Placed, FreshSilent, FailedGone, registry
  <2>7. CASE Purge
    <3>1. \A c \in cast.failed : pc[c] = "gone"
      BY DEF FailedGone
    <3>2. Placed'
      BY <2>7, <3>1 DEF Purge, Placed, Member
    <3>3. CloneSilent' /\ FailedGone'
      BY <2>7 DEF Purge, CloneSilent, FailedGone, Quiet
    <3>4. FreshUnheard'
      BY <2>7, StepKeepsUnheard DEF Purge
    <3> QED
      BY <2>7, <3>2, <3>3, <3>4 DEF Purge, FreshSilent
  <2>8. ASSUME NEW e \in Clients \X BOOLEAN, Serve(e) PROVE RegistryInv'
    <3>1. Subscribed(e[1]) /\ ~Reachable(e[1], e[2]) => pc[e[1]] = "gone"
      BY <2>8 DEF Serve, Subscribed, Reachable, CloneSilent
    <3>2. \E failed \in {cast.failed, cast.failed \cup {e[1]}} :
             Served(e, failed) /\ \A c \in failed : pc[c] = "gone"
      BY <2>8, <3>1 DEF Serve, FailedGone
    <3>3. cast'.todo \subseteq cast.todo /\ (cast'.at = "idle" => cast'.todo = {})
          /\ \A c \in cast'.failed : pc[c] = "gone"
      <4>1. PICK failed \in {cast.failed, cast.failed \cup {e[1]}} :
               Served(e, failed) /\ \A c \in failed : pc[c] = "gone"
        BY <3>2
      <4>2. cast.at = "each" /\ failed \in SUBSET Clients
        BY <2>8, <4>1 DEF Serve, TypeOK
      <4>3. CASE cast.todo \ {e} # {}
        <5>1. cast'.todo = cast.todo \ {e} /\ cast'.failed = failed /\ cast'.at = cast.at
          BY <4>1, <4>3 DEF Served, TypeOK
        <5> QED BY <4>1, <4>2, <5>1
      <4>4. CASE cast.todo \ {e} = {} /\ failed = {}
        BY <4>1, <4>4 DEF Served, Quiet
      <4>5. CASE cast.todo \ {e} = {} /\ failed # {}
        BY <4>1, <4>5 DEF Served, Quiet
      <4> QED BY <4>3, <4>4, <4>5
    <3>4. CloneSilent' /\ FailedGone'
      BY <2>8, <3>3 DEF Serve, CloneSilent, FailedGone
    <3>5. FreshUnheard'
      BY <2>8, StepKeepsUnheard DEF Serve
    <3> QED
      BY <2>8, <3>4, <3>5 DEF Serve, Placed, FreshSilent, registry
  <2>9. ASSUME NEW c \in Clients, Connection(c) PROVE RegistryInv'
    <3>1. ASSUME NEW s \in Phases, Goto(c, s), UNCHANGED <<channel, cast, subs>>,
                 s \in Fresh => pc[c] \in Fresh,
                 pc[c] # "gone", Placed'
          PROVE  RegistryInv'
      <4>1. \A d \in Clients : pc'[d] = IF d = c THEN s ELSE pc[d]
        BY <3>1, GotoOne
      <4>2. FreshUnheard'
        BY <3>1, <4>1, StepKeepsUnheard
      <4>3. FreshSilent'
        BY <3>1, <4>1 DEF FreshSilent
      <4>4. CloneSilent'
        BY <3>1 DEF CloneSilent
      <4>5. FailedGone'
        BY <3>1, <4>1 DEF FailedGone, TypeOK
      <4> QED BY <3>1, <4>2, <4>3, <4>4, <4>5
    <3>2. \A s : Goto(c, s) => \A d \in Clients : pc'[d] = IF d = c THEN s ELSE pc[d]
      BY GotoOne
    <3> USE DEF Phases, Fresh, Member, Placed
    <3>a. CASE Connect(c)
      BY <3>a, <3>1, <3>2 DEF Connect, TypeOK
    <3>b. CASE Greet(c)
      BY <3>b, <3>1, <3>2 DEF Greet, registry
    <3>c. CASE GreetFails(c)
      BY <3>c, <3>1, <3>2 DEF GreetFails
    <3>d. CASE Wire(c)
      BY <3>d, <3>1, <3>2 DEF Wire
    <3>e. CASE Push(c)
      BY <3>e, <3>1, <3>2 DEF Push, registry
    <3>f. CASE PushFails(c)
      BY <3>f, <3>1, <3>2 DEF PushFails, registry
    <3>g. CASE ReadNothing(c)
      BY <3>g, <3>1, <3>2 DEF ReadNothing, registry
    <3>h. CASE ReadFails(c)
      BY <3>h, <3>1, <3>2 DEF ReadFails, registry
    <3>i. ASSUME NEW op \in {"subscribe", "unsubscribe"}, NEW ts \in SUBSET Topics \ {{}},
                 Request(c, op, ts)
          PROVE  RegistryInv'
      <4> DEFINE m == [op |-> op, client |-> c, topics |-> ts]
      <4>1. m \in Change
        BY DEF Change
      <4>2. PICK s \in {"push", "leave"} : Goto(c, s)
        BY <3>i DEF Request
      <4>3. \A d \in Clients : pc'[d] = IF d = c THEN s ELSE pc[d]
        BY <4>2, <3>2
      <4>4. channel' = Append(channel, m) /\ pc[c] = "read"
            /\ UNCHANGED <<cast, registry, subs>>
        BY <3>i DEF Request
      <4>5. FreshUnheard'
        <5>1. pc'[m.client] \notin Fresh
          BY <4>2, <4>3
        <5>2. \A d \in Clients : pc[d] \notin Fresh => pc'[d] \notin Fresh
          BY <4>2, <4>3
        <5> QED BY <4>1, <4>4, <5>1, <5>2, AppendKeepsUnheard
      <4>6. FreshSilent' /\ CloneSilent'
        BY <4>2, <4>3, <4>4 DEF FreshSilent, CloneSilent
      <4>7. FailedGone'
        BY <4>2, <4>3, <4>4 DEF FailedGone, TypeOK
      <4>8. Placed'
        BY <4>2, <4>3, <4>4 DEF registry
      <4> QED BY <4>5, <4>6, <4>7, <4>8
    <3>j. CASE RemoveClient(c)
      BY <3>j, <3>1, <3>2 DEF RemoveClient
    <3>k. CASE DropReceiver(c)
      BY <3>k, <3>1, <3>2 DEF DropReceiver, registry
    <3> QED
      BY <2>9, <3>a, <3>b, <3>c, <3>d, <3>e, <3>f, <3>g, <3>h, <3>i, <3>j, <3>k
         DEF Connection, Loop, Closing
  <2>10. CASE UNCHANGED vars
    BY <2>10 DEF vars, Placed, FreshSilent, FreshUnheard, IsUpdate, CloneSilent, FailedGone,
                 registry
  <2> QED
    BY <2>1, <2>3, <2>4, <2>5, <2>6, <2>7, <2>8, <2>9, <2>10 DEF Next, Publish, Broadcaster
<1> QED
  BY <1>1, <1>2, BroadcastTypes, PTL DEF Spec

\* The broadcaster removes dead clients only: every connection in its message loop
\* is in the client map with its real sender.
THEOREM LiveCorrect == Spec => []LiveStaysRegistered
<1>1. RegistryInv => LiveStaysRegistered
  BY DEF RegistryInv, Placed, LiveStaysRegistered, Connected, Member
<1> QED BY <1>1, RegistryHolds, PTL

-----------------------------------------------------------------------------
(***************************************************************************)
(* Broadcast implements Feed.  What a client has got and is still due      *)
(* changes only where Feed lets it, step by step.                          *)
(***************************************************************************)
FreshEmpty == \A c \in Clients : pc[c] \in Fresh => outgoing[c] = << >> /\ received[c] = << >>
\* A round holds one copy of a client.
OneCopy == \A e, f \in cast.todo : e[1] = f[1] => e = f

FeedInv == RegistryInv /\ FreshEmpty /\ OneCopy

\* The state of Feed, client by client.
Theirs(c) == IF Connected(c) THEN subs[c] ELSE {}
Got(c) == IF Connected(c) THEN Inbox(c) ELSE << >>

LEMMA FeedStutters ==
    ASSUME \A c \in Clients : Theirs(c)' = Theirs(c) /\ Got(c)' = Got(c)
    PROVE  UNCHANGED Subscriptions!feed
  BY DEF Subscriptions!feed, Theirs, Got

LEMMA FeedPublishes ==
    ASSUME NEW u \in Update,
           \A c \in Clients :
               /\ Theirs(c)' = Theirs(c)
               /\ Got(c)' = IF u.topic \in Theirs(c) THEN Append(Got(c), u) ELSE Got(c)
    PROVE  Subscriptions!Next
<1>1. Subscriptions!Publish(u)
  BY DEF Subscriptions!Publish, Theirs, Got
<1> QED BY <1>1 DEF Subscriptions!Next

LEMMA FeedLeaves ==
    ASSUME NEW c \in Clients, Theirs(c)' = {}, Got(c)' = << >>,
           \A d \in Clients \ {c} : Theirs(d)' = Theirs(d) /\ Got(d)' = Got(d)
    PROVE  Subscriptions!Next
<1>1. Subscriptions!Leave(c)
  BY DEF Subscriptions!Leave, Theirs, Got
<1> QED BY <1>1 DEF Subscriptions!Next

LEMMA FeedSubscribes ==
    ASSUME NEW c \in Clients, NEW ts \in SUBSET Topics,
           Theirs(c)' \in {Theirs(c) \cup ts, Theirs(c) \ ts},
           \A d \in Clients \ {c} : Theirs(d)' = Theirs(d),
           \A d \in Clients : Got(d)' = Got(d)
    PROVE  Subscriptions!Next
<1>1. Subscriptions!Subscribe(c, ts) \/ Subscriptions!Unsubscribe(c, ts)
  BY DEF Subscriptions!Subscribe, Subscriptions!Unsubscribe, Theirs, Got
<1> QED BY <1>1 DEF Subscriptions!Next

\* A step of one connection: the round and the other connections do not notice.
LEMMA OthersGot ==
    ASSUME TypeOK, NEW c \in Clients, NEW s, Goto(c, s), UNCHANGED <<cast, subs>>,
           \A d \in Clients \ {c} : outgoing'[d] = outgoing[d] /\ received'[d] = received[d]
    PROVE  /\ \A d \in Clients \ {c} : Theirs(d)' = Theirs(d) /\ Got(d)' = Got(d)
           /\ Due(c)' = Due(c) /\ pc'[c] = s
<1>1. \A d \in Clients : pc'[d] = IF d = c THEN s ELSE pc[d]
  BY GotoOne
<1>2. \A d \in Clients : Due(d)' = Due(d)
  BY DEF Due, Subscribed
<1> QED BY <1>1, <1>2 DEF Theirs, Got, Connected, Inbox

\* What is pushed leaves the queue for the socket.
LEMMA PushMoves ==
    ASSUME NEW r \in Seq(Update), NEW o \in Seq(Update), o # << >>, NEW d \in Seq(Update)
    PROVE  Append(r, Head(o)) \o Tail(o) \o d = r \o o \o d
  OBVIOUS

\* An update is due, then queued.
LEMMA QueueMoves ==
    ASSUME NEW r \in Seq(Update), NEW o \in Seq(Update), NEW u \in Update
    PROVE  /\ r \o Append(o, u) \o << >> = r \o o \o <<u>>
           /\ r \o o \o <<u>> = Append(r \o o \o << >>, u)
<1>1. Append(o, u) \in Seq(Update) /\ r \o o \in Seq(Update)
  OBVIOUS
<1>2. r \o Append(o, u) \in Seq(Update)
  BY <1>1
<1>3. r \o Append(o, u) \o << >> = r \o Append(o, u) /\ r \o o \o << >> = r \o o
  BY <1>1, <1>2
<1>4. r \o Append(o, u) = Append(r \o o, u)
  OBVIOUS
<1>5. r \o o \o <<u>> = Append(r \o o, u)
  BY <1>1
<1> QED BY <1>3, <1>4, <1>5

\* Between rounds nothing is due.
LEMMA NothingDue == ASSUME NEW c, cast.at # "each" PROVE Due(c) = << >>
  BY DEF Due

LEMMA DueType == ASSUME TypeOK, NEW c \in Clients PROVE Due(c) \in Seq(Update)
  BY DEF TypeOK, Due

\* Serving one client moves its share of the round into its queue.
LEMMA ServeMoves ==
    ASSUME FeedInv, NEW e \in Clients \X BOOLEAN, Serve(e)
    PROVE  /\ UNCHANGED Subscriptions!feed
           /\ OneCopy'
<1> DEFINE c == e[1]
<1> USE DEF FeedInv, RegistryInv
<1>1. cast.at = "each" /\ e \in cast.todo /\ c \in Clients /\ UNCHANGED <<subs, pc, received>>
  BY DEF Serve
<1>2. PICK failed \in SUBSET Clients : Served(e, failed)
  BY <1>1 DEF Serve, TypeOK
<1>3. \A d \in Clients \ {c} : Due(d)' = Due(d)
  <2>1. CASE cast.todo \ {e} # {}
    <3>1. cast' = [cast EXCEPT !.todo = cast.todo \ {e}, !.failed = failed]
      BY <1>2, <2>1 DEF Served
    <3>2. cast'.at = cast.at /\ cast'.update = cast.update /\ cast'.todo = cast.todo \ {e}
      BY <3>1 DEF TypeOK
    <3>3. \A d \in Clients \ {c} : d \in {f[1] : f \in cast'.todo} <=> d \in {f[1] : f \in cast.todo}
      BY <3>2
    <3> QED BY <1>1, <3>2, <3>3 DEF Due, Subscribed
  <2>2. CASE cast.todo \ {e} = {}
    <3>1. cast'.at # "each"
      BY <1>2, <2>2 DEF Served, Quiet
    <3>2. \A d \in Clients \ {c} : d \notin {f[1] : f \in cast.todo}
      BY <2>2
    <3> QED BY <3>1, <3>2 DEF Due
  <2> QED BY <2>1, <2>2
<1>4. Due(c)' = << >>
  <2>1. CASE cast.todo \ {e} # {}
    <3>1. cast' = [cast EXCEPT !.todo = cast.todo \ {e}, !.failed = failed]
      BY <1>2, <2>1 DEF Served
    <3>2. cast'.todo = cast.todo \ {e}
      BY <3>1 DEF TypeOK
    <3>3. c \notin {f[1] : f \in cast'.todo}
      BY <1>1, <3>2 DEF OneCopy
    <3> QED BY <3>3 DEF Due
  <2>2. CASE cast.todo \ {e} = {}
    BY <1>2, <2>2 DEF Served, Quiet, Due
  <2> QED BY <2>1, <2>2
<1>5. OneCopy'
  <2>1. cast'.todo \subseteq cast.todo
    BY <1>2 DEF Served, Quiet, TypeOK
  <2> QED BY <2>1 DEF OneCopy
<1>6. ASSUME NEW d \in Clients \ {c} PROVE Theirs(d)' = Theirs(d) /\ Got(d)' = Got(d)
  <2>1. outgoing'[d] = outgoing[d]
    BY <1>1 DEF Serve, TypeOK
  <2> QED BY <1>1, <1>3, <2>1 DEF Theirs, Got, Connected, Inbox
<1>7. Theirs(c)' = Theirs(c)
  BY <1>1 DEF Theirs, Connected
<1>8. Got(c)' = Got(c)
  <2>1. CASE ~Connected(c)
    BY <1>1, <2>1 DEF Got, Connected
  <2>2. CASE Connected(c) /\ ~Subscribed(c)
    <3>1. outgoing' = outgoing /\ Due(c) = << >>
      BY <2>2 DEF Serve, Due
    <3> QED BY <1>1, <1>4, <2>2, <3>1 DEF Got, Connected, Inbox
  <2>3. CASE Connected(c) /\ Subscribed(c)
    <3>1. Reachable(c, e[2])
      BY <1>1, <2>3 DEF Reachable, Connected, CloneSilent, Subscribed
    <3>2. outgoing'[c] = Append(outgoing[c], cast.update)
      BY <1>1, <2>3, <3>1 DEF Serve, TypeOK
    <3>3. Due(c) = <<cast.update>>
      BY <1>1, <2>3 DEF Due
    <3>4. received[c] \in Seq(Update) /\ outgoing[c] \in Seq(Update) /\ cast.update \in Update
      BY <1>1 DEF TypeOK
    <3>5. received[c] \o Append(outgoing[c], cast.update) \o << >>
             = received[c] \o outgoing[c] \o <<cast.update>>
      BY <3>4, QueueMoves
    <3> QED BY <1>1, <1>4, <2>3, <3>2, <3>3, <3>5 DEF Got, Connected, Inbox
  <2> QED BY <2>1, <2>2, <2>3
<1> QED BY <1>5, <1>6, <1>7, <1>8, FeedStutters

\* The copy the broadcaster takes of the map fixes who gets the update.
LEMMA SnapshotPublishes ==
    ASSUME FeedInv, Snapshot
    PROVE  [Subscriptions!Next]_(Subscriptions!feed) /\ OneCopy'
<1> USE DEF FeedInv, RegistryInv
<1> DEFINE u == Message
<1>1. u \in Update
  BY MessageType DEF Snapshot
<1>2. cast.at = "idle" /\ UNCHANGED <<subs, pc, received, outgoing, clients>>
  BY DEF Snapshot, connection, registry
<1>3. \A c \in Clients : Theirs(c)' = Theirs(c)
  BY <1>2 DEF Theirs, Connected
<1>4. cast'.todo = {<<c, c \in wired>> : c \in clients}
  BY DEF Snapshot, Quiet
<1>5. OneCopy'
  BY <1>4 DEF OneCopy
<1>6. ASSUME NEW c \in Clients
      PROVE  Got(c)' = IF u.topic \in Theirs(c) THEN Append(Got(c), u) ELSE Got(c)
  <2>1. CASE ~Connected(c)
    BY <1>2, <2>1 DEF Got, Theirs, Connected
  <2>2. CASE Connected(c)
    <3>1. c \in clients
      BY <2>2 DEF Placed, Connected, Member
    <3>2. cast'.at = "each" /\ cast'.update = u
      BY <3>1 DEF Snapshot, Quiet
    <3>3. c \in {e[1] : e \in cast'.todo}
      <4>1. <<c, c \in wired>> \in cast'.todo
        BY <3>1, <1>4
      <4> QED BY <4>1
    <3>4. Due(c)' = IF u.topic \in subs[c] THEN <<u>> ELSE << >>
      BY <1>2, <3>2, <3>3 DEF Due, Subscribed
    <3>5. Due(c) = << >>
      BY <1>2, NothingDue
    <3>6. received[c] \in Seq(Update) /\ outgoing[c] \in Seq(Update)
      BY DEF TypeOK
    <3>7. received[c] \o outgoing[c] \o <<u>> = Append(received[c] \o outgoing[c] \o << >>, u)
      BY <1>1, <3>6, QueueMoves
    <3> QED BY <1>2, <2>2, <3>4, <3>5, <3>7 DEF Got, Theirs, Connected, Inbox
  <2> QED BY <2>1, <2>2
<1> QED BY <1>1, <1>3, <1>5, <1>6, FeedPublishes

\* A change of subscriptions is applied between rounds.
LEMMA ChangeSubscribes ==
    ASSUME FeedInv, ChangeSubscription
    PROVE  [Subscriptions!Next]_(Subscriptions!feed) /\ OneCopy'
<1> USE DEF FeedInv, RegistryInv
<1>0. Message.client \in Clients /\ Message.topics \in SUBSET Topics
  BY MessageType DEF ChangeSubscription, Change
<1>1. PICK c \in Clients, ts \in SUBSET Topics : c = Message.client /\ ts = Message.topics
  BY <1>0
<1>2. cast.at = "idle" /\ UNCHANGED <<cast, pc, received, outgoing>>
  BY DEF ChangeSubscription, connection
<1>3. \A d \in Clients : Due(d)' = Due(d)
  BY <1>2 DEF Due
<1>4. \A d \in Clients : Got(d)' = Got(d)
  BY <1>2, <1>3 DEF Got, Connected, Inbox
<1>5. \A d \in Clients \ {c} : subs'[d] = subs[d]
  BY <1>1 DEF ChangeSubscription, TypeOK
<1>6. \A d \in Clients \ {c} : Theirs(d)' = Theirs(d)
  BY <1>2, <1>5 DEF Theirs, Connected
<1>7. CASE Connected(c)
  <2>1. c \in clients
    BY <1>1, <1>7 DEF Placed, Connected, Member
  <2>2. subs'[c] \in {subs[c] \cup ts, subs[c] \ ts}
    BY <1>1, <2>1 DEF ChangeSubscription, TypeOK
  <2>3. Theirs(c)' \in {Theirs(c) \cup ts, Theirs(c) \ ts}
    BY <1>2, <1>7, <2>2 DEF Theirs, Connected
  <2> QED BY <1>1, <1>2, <1>4, <1>6, <2>3, FeedSubscribes DEF OneCopy
<1>8. CASE ~Connected(c)
  <2>1. Theirs(c)' = Theirs(c)
    BY <1>2, <1>8 DEF Theirs, Connected
  <2> QED BY <1>2, <1>4, <1>6, <2>1, FeedStutters DEF OneCopy
<1> QED BY <1>7, <1>8

\* A step of a connection: it leaves the Feed, or the Feed does not notice.
LEMMA ConnectionFeeds ==
    ASSUME FeedInv, NEW c \in Clients, Connection(c)
    PROVE  [Subscriptions!Next]_(Subscriptions!feed) /\ FreshEmpty' /\ OneCopy'
<1> USE DEF FeedInv, RegistryInv, Fresh
<1>1. UNCHANGED <<cast, subs>>
  BY DEF Connection, Loop, Closing, Connect, Greet, GreetFails, Wire, Push, PushFails,
         ReadNothing, ReadFails, Request, RemoveClient, DropReceiver
<1>2. OneCopy'
  BY <1>1 DEF OneCopy
<1>3. \A d \in Clients \ {c} : outgoing'[d] = outgoing[d] /\ received'[d] = received[d]
  BY DEF Connection, Loop, Closing, Connect, Greet, GreetFails, Wire, Push, PushFails,
         ReadNothing, ReadFails, Request, RemoveClient, DropReceiver, connection, TypeOK
<1>4. \A s : Goto(c, s) => pc'[c] = s /\ \A d \in Clients \ {c} : pc'[d] = pc[d]
  BY GotoOne
<1>5. ASSUME NEW s, Goto(c, s), s \notin Fresh \/ (outgoing'[c] = << >> /\ received'[c] = << >>)
      PROVE  FreshEmpty'
  BY <1>3, <1>4, <1>5 DEF FreshEmpty
<1>6. ASSUME NEW s, Goto(c, s), Theirs(c)' = Theirs(c), Got(c)' = Got(c)
      PROVE  UNCHANGED Subscriptions!feed
  BY <1>1, <1>3, <1>6, OthersGot, FeedStutters
<1>7. ASSUME NEW s, Goto(c, s), s \notin {"push", "read"} PROVE Theirs(c)' = {} /\ Got(c)' = << >>
  BY <1>4, <1>7 DEF Theirs, Got, Connected
<1>8. ~Connected(c) => Theirs(c) = {} /\ Got(c) = << >>
  BY DEF Theirs, Got
<1>9. ASSUME NEW s, Goto(c, s), s \notin {"push", "read"} PROVE Subscriptions!Next
  BY <1>1, <1>3, <1>7, <1>9, OthersGot, FeedLeaves
<1>10. ASSUME NEW s \in {"push", "read"}, Goto(c, s), Connected(c),
              received'[c] \o outgoing'[c] \o Due(c) = received[c] \o outgoing[c] \o Due(c)
       PROVE  UNCHANGED Subscriptions!feed
  <2>1. Due(c)' = Due(c) /\ pc'[c] = s
    BY <1>1, <1>3, <1>10, OthersGot
  <2>2. Theirs(c)' = Theirs(c) /\ Got(c)' = Got(c)
    BY <1>1, <1>10, <2>1 DEF Theirs, Got, Connected, Inbox
  <2> QED BY <1>6, <1>10, <2>2
<1>a. CASE Connect(c)
  <2>1. Goto(c, "greet") /\ pc[c] = "off" /\ UNCHANGED <<outgoing, received>>
    BY <1>a DEF Connect, connection
  <2> QED BY <1>2, <1>5, <1>6, <1>7, <1>8, <2>1 DEF Connected, FreshEmpty
<1>b. CASE Greet(c)
  <2>1. Goto(c, "wire") /\ pc[c] = "greet" /\ UNCHANGED <<outgoing, received>>
    BY <1>b DEF Greet
  <2> QED BY <1>2, <1>5, <1>6, <1>7, <1>8, <2>1 DEF Connected, FreshEmpty
<1>c. CASE GreetFails(c)
  <2>1. Goto(c, "gone") /\ pc[c] = "greet"
    BY <1>c DEF GreetFails
  <2> QED BY <1>2, <1>5, <1>6, <1>7, <1>8, <2>1 DEF Connected
<1>d. CASE Wire(c)
  <2>1. Goto(c, "push") /\ pc[c] = "wire" /\ UNCHANGED <<outgoing, received>>
    BY <1>d DEF Wire, connection
  <2>2. subs[c] = {} /\ outgoing[c] = << >> /\ received[c] = << >>
    BY <2>1 DEF FreshSilent, FreshEmpty
  <2>3. Due(c)' = << >> /\ pc'[c] = "push"
    BY <1>1, <1>3, <2>1, <2>2, OthersGot DEF Due, Subscribed
  <2>4. << >> \o << >> \o << >> = << >>
    OBVIOUS
  <2>5. Theirs(c)' = {} /\ Got(c)' = << >>
    BY <1>1, <2>1, <2>2, <2>3, <2>4 DEF Theirs, Got, Connected, Inbox
  <2> QED BY <1>2, <1>5, <1>6, <1>8, <2>1, <2>5 DEF Connected
<1>e. CASE Push(c)
  <2>1. Goto(c, "read") /\ Connected(c)
    BY <1>e DEF Push, Connected
  <2>2. CASE outgoing[c] = << >>
    <3>1. UNCHANGED <<outgoing, received>>
      BY <1>e, <2>2 DEF Push
    <3> QED BY <1>2, <1>5, <1>10, <2>1, <3>1
  <2>3. CASE outgoing[c] # << >>
    <3>1. /\ outgoing'[c] = Tail(outgoing[c])
          /\ received'[c] = Append(received[c], Head(outgoing[c]))
      BY <1>e, <2>3 DEF Push, TypeOK
    <3>2. received[c] \in Seq(Update) /\ outgoing[c] \in Seq(Update) /\ Due(c) \in Seq(Update)
      BY DueType DEF TypeOK
    <3>3. received'[c] \o outgoing'[c] \o Due(c) = received[c] \o outgoing[c] \o Due(c)
      <4> DEFINE r == received[c]
                 o == outgoing[c]
                 d == Due(c)
      <4>1. Append(r, Head(o)) \o Tail(o) \o d = r \o o \o d
        <5> HIDE DEF r, o, d
        <5>1. r \in Seq(Update) /\ o \in Seq(Update) /\ d \in Seq(Update) /\ o # << >>
          BY <2>3, <3>2 DEF r, o, d
        <5> QED BY <5>1, PushMoves
      <4> QED BY <3>1, <4>1
    <3> QED BY <1>2, <1>5, <1>10, <2>1, <3>3
  <2> QED BY <2>2, <2>3
<1>f. CASE PushFails(c) \/ ReadFails(c)
  <2>1. Goto(c, "leave")
    BY <1>f DEF PushFails, ReadFails
  <2> QED BY <1>2, <1>5, <1>9, <2>1
<1>g. CASE ReadNothing(c)
  <2>1. Goto(c, "push") /\ Connected(c) /\ UNCHANGED <<outgoing, received>>
    BY <1>g DEF ReadNothing, Connected, connection
  <2> QED BY <1>2, <1>5, <1>10, <2>1
<1>h. ASSUME NEW op \in {"subscribe", "unsubscribe"}, NEW ts \in SUBSET Topics \ {{}},
             Request(c, op, ts)
      PROVE  [Subscriptions!Next]_(Subscriptions!feed) /\ FreshEmpty' /\ OneCopy'
  <2>1. PICK s \in {"push", "leave"} : Goto(c, s)
    BY <1>h DEF Request
  <2>2. Connected(c) /\ UNCHANGED <<outgoing, received>>
    BY <1>h DEF Request, Connected
  <2>3. CASE s = "push"
    BY <1>2, <1>5, <1>10, <2>1, <2>2, <2>3
  <2>4. CASE s = "leave"
    BY <1>2, <1>5, <1>9, <2>1, <2>4
  <2> QED BY <2>3, <2>4
<1>i. CASE RemoveClient(c)
  <2>1. Goto(c, "drop") /\ pc[c] = "leave"
    BY <1>i DEF RemoveClient
  <2> QED BY <1>2, <1>5, <1>6, <1>7, <1>8, <2>1 DEF Connected
<1>j. CASE DropReceiver(c)
  <2>1. Goto(c, "gone") /\ pc[c] = "drop"
    BY <1>j DEF DropReceiver
  <2> QED BY <1>2, <1>5, <1>6, <1>7, <1>8, <2>1 DEF Connected
<1> QED
  BY <1>a, <1>b, <1>c, <1>d, <1>e, <1>f, <1>g, <1>h, <1>i, <1>j DEF Connection, Loop, Closing

\* The broadcaster's rounds amount to the Feed: every update goes once, in order, to
\* each connected subscriber of its topic and to nobody else.
THEOREM FeedCorrect == Spec => FeedKept
<1>1. Init => Subscriptions!Init /\ FreshEmpty /\ OneCopy
  BY DEF Init, Subscriptions!Init, Connected, FreshEmpty, OneCopy, Quiet
<1>2. RegistryInv /\ FreshEmpty /\ OneCopy /\ [Next]_vars
      => [Subscriptions!Next]_(Subscriptions!feed) /\ FreshEmpty' /\ OneCopy'
  <2> SUFFICES ASSUME FeedInv, [Next]_vars
               PROVE  [Subscriptions!Next]_(Subscriptions!feed) /\ FreshEmpty' /\ OneCopy'
    BY DEF FeedInv
  <2>1. CASE UNCHANGED <<pc, cast, subs, outgoing, received>>
    <3>1. \A c \in Clients : Theirs(c)' = Theirs(c) /\ Got(c)' = Got(c)
      BY <2>1 DEF Theirs, Got, Connected, Inbox, Due, Subscribed
    <3> QED BY <2>1, <3>1, FeedStutters DEF FeedInv, FreshEmpty, OneCopy
  <2>2. Publish \/ UNCHANGED vars => UNCHANGED <<pc, cast, subs, outgoing, received>>
    BY DEF Publish, WriteStatus, SendStatus, SendData, vars, connection
  <2>3. CASE ChangeSubscription
    <3>1. FreshEmpty'
      BY <2>3 DEF ChangeSubscription, connection, FeedInv, FreshEmpty
    <3> QED BY <2>3, <3>1, ChangeSubscribes
  <2>4. CASE Snapshot
    <3>1. FreshEmpty'
      BY <2>4 DEF Snapshot, connection, FeedInv, FreshEmpty
    <3> QED BY <2>4, <3>1, SnapshotPublishes
  <2>5. CASE Purge
    <3>1. UNCHANGED <<pc, subs, outgoing, received>> /\ cast' = Quiet
      BY <2>5 DEF Purge, connection
    <3>2. \A c \in Clients : Due(c) = << >> /\ Due(c)' = << >>
      BY <2>5, <3>1 DEF Purge, Due, Quiet
    <3>3. \A c \in Clients : Theirs(c)' = Theirs(c) /\ Got(c)' = Got(c)
      BY <3>1, <3>2 DEF Theirs, Got, Connected, Inbox
    <3> QED BY <3>1, <3>3, FeedStutters DEF FeedInv, FreshEmpty, OneCopy, Quiet
  <2>6. ASSUME NEW e \in Clients \X BOOLEAN, Serve(e)
        PROVE  [Subscriptions!Next]_(Subscriptions!feed) /\ FreshEmpty' /\ OneCopy'
    <3>1. FreshEmpty'
      BY <2>6 DEF Serve, FeedInv, FreshEmpty, RegistryInv, FreshSilent, Subscribed, TypeOK
    <3> QED BY <2>6, <3>1, ServeMoves
  <2>7. ASSUME NEW c \in Clients, Connection(c)
        PROVE  [Subscriptions!Next]_(Subscriptions!feed) /\ FreshEmpty' /\ OneCopy'
    BY <2>7, ConnectionFeeds
  <2> QED BY <2>1, <2>2, <2>3, <2>4, <2>5, <2>6, <2>7 DEF Next, Broadcaster
<1> QED
  BY <1>1, <1>2, RegistryHolds, PTL DEF Spec, FeedKept, Subscriptions!Spec
=============================================================================
