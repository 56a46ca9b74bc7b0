----------------------------- MODULE Broadcast ------------------------------
(***************************************************************************)
(* The WebSocket server of the daemon: the thread of each connection, the  *)
(* threads that publish updates, and the broadcaster thread, which takes   *)
(* updates and subscription changes from one channel.  They share the map  *)
(* of clients and the current tracking status; every lock is held for a    *)
(* single step here, and what a thread cloned under a lock may be stale    *)
(* when it is used.                                                        *)
(***************************************************************************)
EXTENDS Naturals, Sequences, FiniteSets

CONSTANTS
    Clients,       \* connections; an id is never used twice
    Publishers,    \* session threads, which publish the tracking status
    Topics,        \* topics a client may subscribe to
    TrackingStatus,\* the topic of the tracking status
    None,
    MaxUpdates,    \* bound on the updates published
    MaxRequests    \* bound on the requests of each client

ASSUME TopicsAssumption == TrackingStatus \in Topics
ASSUME BoundsAssumption == MaxUpdates \in Nat /\ MaxRequests \in Nat

VARIABLES
    status,     \* the current tracking status, by the number of its update
    made,       \* updates made so far
    pub,        \* publishers: the update written and not yet sent, or None
    channel,    \* the broadcast channel
    cast,       \* the broadcaster: update, clients to serve, clients that failed
    clients,    \* ids in the map of clients
    wired,      \* ids whose map entry holds the sender of a live receiver
    subs,       \* subscriptions of each client
    pc,         \* the connection threads
    asked,      \* requests each client has made
    greeted,    \* the status each client was greeted with
    outgoing,   \* the outgoing queue of each client
    received    \* what was sent on each WebSocket

vars == <<status, made, pub, channel, cast, clients, wired, subs, pc, asked, greeted,
          outgoing, received>>
publishing == <<status, made, pub>>
registry == <<clients, wired>>
connection == <<asked, greeted, outgoing, received>>

Update == [topic : Topics, n : 1 .. MaxUpdates]
Change == [op : {"subscribe", "unsubscribe"}, client : Clients, topics : SUBSET Topics]

\* "push" and "read" are the two halves of the loop of handle_client_messages.
Phases == {"off", "greet", "wire", "push", "read", "leave", "drop", "gone"}
Connected(c) == pc[c] \in {"push", "read"}

Quiet == [at |-> "idle", update |-> None, todo |-> {}, failed |-> {}]

TypeOK ==
    /\ status \in 0 .. MaxUpdates /\ made \in 0 .. MaxUpdates
    /\ pub \in [Publishers -> Update \cup {None}]
    /\ channel \in Seq(Update \cup Change)
    /\ cast \in [at : {"idle", "each", "purge"}, update : Update \cup {None},
                 todo : SUBSET (Clients \X BOOLEAN), failed : SUBSET Clients]
    /\ cast.at = "each" => cast.update \in Update
    /\ clients \subseteq Clients /\ wired \subseteq Clients
    /\ subs \in [Clients -> SUBSET Topics]
    /\ pc \in [Clients -> Phases]
    /\ asked \in [Clients -> 0 .. MaxRequests]
    /\ greeted \in [Clients -> 0 .. MaxUpdates]
    /\ outgoing \in [Clients -> Seq(Update)]
    /\ received \in [Clients -> Seq(Update)]

Init ==
    /\ status = 0 /\ made = 0
    /\ pub = [p \in Publishers |-> None]
    /\ channel = << >>
    /\ cast = Quiet
    /\ clients = {} /\ wired = {}
    /\ subs = [c \in Clients |-> {}]
    /\ pc = [c \in Clients |-> "off"]
    /\ asked = [c \in Clients |-> 0]
    /\ greeted = [c \in Clients |-> 0]
    /\ outgoing = [c \in Clients |-> << >>]
    /\ received = [c \in Clients |-> << >>]

(***************************************************************************)
(* Publishing: broadcast_tracking_status writes the status and then sends  *)
(* the update; the event loop sends the other topics in one step.          *)
(***************************************************************************)
WriteStatus(p) ==
    /\ pub[p] = None
    /\ made < MaxUpdates
    /\ made' = made + 1
    /\ status' = made + 1
    /\ pub' = [pub EXCEPT ![p] = [topic |-> TrackingStatus, n |-> made + 1]]
    /\ UNCHANGED <<channel, cast, registry, subs, pc, connection>>

\* Mutant: sends whether or not a status was written.
SendStatusUnguarded(p) ==
    /\ channel' = Append(channel, pub[p])
    /\ pub' = [pub EXCEPT ![p] = None]
    /\ UNCHANGED <<status, made, cast, registry, subs, pc, connection>>

SendStatus(p) ==
    /\ pub[p] # None
    /\ channel' = Append(channel, pub[p])
    /\ pub' = [pub EXCEPT ![p] = None]
    /\ UNCHANGED <<status, made, cast, registry, subs, pc, connection>>

SendData(t) ==
    /\ t # TrackingStatus
    /\ made < MaxUpdates
    /\ made' = made + 1
    /\ channel' = Append(channel, [topic |-> t, n |-> made + 1])
    /\ UNCHANGED <<status, pub, cast, registry, subs, pc, connection>>

(***************************************************************************)
(* The broadcaster: handle_broadcasts.                                     *)
(***************************************************************************)
IsUpdate(m) == m \in Update
Message == Head(channel)

\* handle_subscription; a client that is not in the map is an error logged.
ChangeSubscription ==
    /\ cast.at = "idle" /\ channel # << >> /\ ~IsUpdate(Message)
    /\ channel' = Tail(channel)
    /\ LET c == Message.client IN
          subs' = IF c \notin clients THEN subs
                  ELSE [subs EXCEPT ![c] = IF Message.op = "subscribe" THEN @ \cup Message.topics
                                           ELSE @ \ Message.topics]
    /\ UNCHANGED <<publishing, cast, registry, pc, connection>>

\* broadcast_to_subscribers clones the map: each clone keeps the sender it had.
Snapshot ==
    /\ cast.at = "idle" /\ channel # << >> /\ IsUpdate(Message)
    /\ channel' = Tail(channel)
    /\ cast' = [Quiet EXCEPT !.at = IF clients = {} THEN "idle" ELSE "each",
                             !.update = IF clients = {} THEN None ELSE Message,
                             !.todo = {<<c, c \in wired>> : c \in clients}]
    /\ UNCHANGED <<publishing, registry, subs, pc, connection>>

\* A send fails when the receiver is gone, or never was.
Reachable(c, real) == real /\ pc[c] # "gone"
Subscribed(c) == cast.update.topic \in subs[c]

\* After the last client the failed ones are removed, if there are any.
Served(e, failed) ==
    LET rest == cast.todo \ {e} IN
        cast' = IF rest # {} THEN [cast EXCEPT !.todo = rest, !.failed = failed]
                ELSE IF failed = {} THEN Quiet
                ELSE [Quiet EXCEPT !.at = "purge", !.failed = failed]

\* Mutant: the first client that cannot be reached ends the round.
ServeStops(e) ==
    /\ cast.at = "each" /\ e \in cast.todo
    /\ LET c == e[1] IN
          IF ~Subscribed(c) THEN Served(e, cast.failed) /\ UNCHANGED outgoing
          ELSE IF Reachable(c, e[2])
          THEN /\ outgoing' = [outgoing EXCEPT ![c] = Append(@, cast.update)]
               /\ Served(e, cast.failed)
          ELSE /\ cast' = [Quiet EXCEPT !.at = "purge", !.failed = {c}]
               /\ UNCHANGED outgoing
    /\ UNCHANGED <<publishing, channel, registry, subs, pc, asked, greeted, received>>

Serve(e) ==
    /\ cast.at = "each" /\ e \in cast.todo
    /\ LET c == e[1] IN
          IF ~Subscribed(c) THEN Served(e, cast.failed) /\ UNCHANGED outgoing
          ELSE IF Reachable(c, e[2])
          THEN /\ outgoing' = [outgoing EXCEPT ![c] = Append(@, cast.update)]
               /\ Served(e, cast.failed)
          ELSE Served(e, cast.failed \cup {c}) /\ UNCHANGED outgoing
    /\ UNCHANGED <<publishing, channel, registry, subs, pc, asked, greeted, received>>

Purge ==
    /\ cast.at = "purge"
    /\ clients' = clients \ cast.failed
    /\ wired' = wired \ cast.failed
    /\ cast' = Quiet
    /\ UNCHANGED <<publishing, channel, subs, pc, connection>>

(***************************************************************************)
(* A connection thread: handle_connection and handle_client_messages.      *)
(***************************************************************************)
Goto(c, phase) == pc' = [pc EXCEPT ![c] = phase]

\* Mutant: a client starts out subscribed to every topic.
ConnectSubscribed(c) ==
    /\ pc[c] = "off"
    /\ clients' = clients \cup {c}
    /\ subs' = [subs EXCEPT ![c] = Topics]
    /\ Goto(c, "greet")
    /\ UNCHANGED <<publishing, channel, cast, wired, connection>>

\* The client enters the map with the sender of a channel nobody receives from.
Connect(c) ==
    /\ pc[c] = "off"
    /\ clients' = clients \cup {c}
    /\ Goto(c, "greet")
    /\ UNCHANGED <<publishing, channel, cast, wired, subs, connection>>

Greet(c) ==
    /\ pc[c] = "greet"
    /\ greeted' = [greeted EXCEPT ![c] = status]
    /\ Goto(c, "wire")
    /\ UNCHANGED <<publishing, channel, cast, registry, subs, asked, outgoing, received>>

\* The peer is gone already: there is no receiver to drop.
GreetFails(c) ==
    /\ pc[c] = "greet"
    /\ clients' = clients \ {c}
    /\ Goto(c, "gone")
    /\ UNCHANGED <<publishing, channel, cast, wired, subs, connection>>

Wire(c) ==
    /\ pc[c] = "wire"
    /\ wired' = IF c \in clients THEN wired \cup {c} ELSE wired
    /\ Goto(c, "push")
    /\ UNCHANGED <<publishing, channel, cast, clients, subs, connection>>

Push(c) ==
    /\ pc[c] = "push"
    /\ IF outgoing[c] = << >> THEN UNCHANGED <<outgoing, received>>
       ELSE /\ outgoing' = [outgoing EXCEPT ![c] = Tail(@)]
            /\ received' = [received EXCEPT ![c] = Append(@, Head(outgoing[c]))]
    /\ Goto(c, "read")
    /\ UNCHANGED <<publishing, channel, cast, registry, subs, asked, greeted>>

\* A frame that cannot be sent at once is an error on the non-blocking socket.
PushFails(c) ==
    /\ pc[c] = "push" /\ outgoing[c] # << >>
    /\ outgoing' = [outgoing EXCEPT ![c] = Tail(@)]
    /\ Goto(c, "leave")
    /\ UNCHANGED <<publishing, channel, cast, registry, subs, asked, greeted, received>>

ReadNothing(c) ==
    /\ pc[c] = "read"
    /\ Goto(c, "push")
    /\ UNCHANGED <<publishing, channel, cast, registry, subs, connection>>

\* Mutant: the request changes the subscriptions itself.
RequestDirect(c, op, ts) ==
    /\ pc[c] = "read"
    /\ asked[c] < MaxRequests
    /\ asked' = [asked EXCEPT ![c] = @ + 1]
    /\ subs' = [subs EXCEPT ![c] = IF op = "subscribe" THEN @ \cup ts ELSE @ \ ts]
    /\ Goto(c, "push")
    /\ UNCHANGED <<publishing, channel, cast, registry, greeted, outgoing, received>>

\* handle_subscribe and handle_unsubscribe, and the reply, which may fail.
Request(c, op, ts) ==
    /\ pc[c] = "read"
    /\ asked[c] < MaxRequests
    /\ asked' = [asked EXCEPT ![c] = @ + 1]
    /\ channel' = Append(channel, [op |-> op, client |-> c, topics |-> ts])
    /\ \E phase \in {"push", "leave"} : Goto(c, phase)
    /\ UNCHANGED <<publishing, cast, registry, subs, greeted, outgoing, received>>

\* The peer closes, the socket breaks, or another reply cannot be sent.
ReadFails(c) ==
    /\ pc[c] = "read"
    /\ Goto(c, "leave")
    /\ UNCHANGED <<publishing, channel, cast, registry, subs, connection>>

RemoveClient(c) ==
    /\ pc[c] = "leave"
    /\ clients' = clients \ {c}
    /\ wired' = wired \ {c}
    /\ Goto(c, "drop")
    /\ UNCHANGED <<publishing, channel, cast, subs, connection>>

\* The receiver goes with the thread, and what is still queued with it.
DropReceiver(c) ==
    /\ pc[c] = "drop"
    /\ outgoing' = [outgoing EXCEPT ![c] = << >>]
    /\ Goto(c, "gone")
    /\ UNCHANGED <<publishing, channel, cast, registry, subs, asked, greeted, received>>

-----------------------------------------------------------------------------
Publish ==
    \/ \E p \in Publishers : WriteStatus(p) \/ SendStatus(p)
    \/ \E t \in Topics : SendData(t)

Broadcaster ==
    \/ ChangeSubscription \/ Snapshot \/ Purge
    \/ \E e \in Clients \X BOOLEAN : Serve(e)

\* What the thread does by itself, and what its peer makes it do.
Loop(c) == Push(c) \/ ReadNothing(c)
Closing(c) == RemoveClient(c) \/ DropReceiver(c)
Connection(c) ==
    \/ Connect(c) \/ Greet(c) \/ GreetFails(c) \/ Wire(c)
    \/ Loop(c) \/ PushFails(c) \/ ReadFails(c)
    \/ \E op \in {"subscribe", "unsubscribe"}, ts \in SUBSET Topics \ {{}} : Request(c, op, ts)
    \/ Closing(c)

Next == Publish \/ Broadcaster \/ \E c \in Clients : Connection(c)

Spec == Init /\ [][Next]_vars

-----------------------------------------------------------------------------
(***************************************************************************)
(* The broadcaster removes dead clients only: a connection in its message  *)
(* loop is in the map with its real sender, though it entered the map with *)
(* one that fails every send (add_client before the swap in                *)
(* handle_connection, the removal in broadcast_to_subscribers).            *)
(***************************************************************************)
LiveStaysRegistered == \A c \in Clients : Connected(c) => c \in clients \cap wired

\* What a client was sent: what the round in progress still has for it included.
Due(c) == IF cast.at = "each" /\ c \in {e[1] : e \in cast.todo} /\ Subscribed(c)
          THEN <<cast.update>> ELSE << >>
Inbox(c) == received[c] \o outgoing[c] \o Due(c)

Subscriptions == INSTANCE Feed WITH
    Members <- Clients, Updates <- Update,
    topics <- [c \in Clients |-> IF Connected(c) THEN subs[c] ELSE {}],
    inbox <- [c \in Clients |-> IF Connected(c) THEN Inbox(c) ELSE << >>]

(***************************************************************************)
(* The rounds of the broadcaster, client by client over a stale copy of    *)
(* the map while connections come and go, amount to the Feed: each update  *)
(* goes exactly once, in order, to every connected subscriber of its topic *)
(* (broadcast_to_subscribers, handle_subscription).                        *)
(***************************************************************************)
FeedKept == Subscriptions!Spec
=============================================================================
