-------------------------------- MODULE Feed --------------------------------
(***************************************************************************)
(* What the WebSocket server promises its subscribers: an update is        *)
(* published in one step to all members subscribed to its topic then, and  *)
(* to nobody else; a member that leaves takes its inbox along.             *)
(***************************************************************************)
EXTENDS Sequences

CONSTANTS Members, Topics, Updates

VARIABLES
    topics,   \* the topics of each member
    inbox     \* the updates each member was sent, in order

feed == <<topics, inbox>>

Init ==
    /\ topics = [m \in Members |-> {}]
    /\ inbox = [m \in Members |-> << >>]

Publish(u) ==
    /\ inbox' = [m \in Members |-> IF u.topic \in topics[m]
                                   THEN Append(inbox[m], u) ELSE inbox[m]]
    /\ UNCHANGED topics

Subscribe(m, ts) ==
    /\ topics' = [topics EXCEPT ![m] = @ \cup ts]
    /\ UNCHANGED inbox

Unsubscribe(m, ts) ==
    /\ topics' = [topics EXCEPT ![m] = @ \ ts]
    /\ UNCHANGED inbox

Leave(m) ==
    /\ topics' = [topics EXCEPT ![m] = {}]
    /\ inbox' = [inbox EXCEPT ![m] = << >>]

Next ==
    \/ \E u \in Updates : Publish(u)
    \/ \E m \in Members, ts \in SUBSET Topics : Subscribe(m, ts) \/ Unsubscribe(m, ts)
    \/ \E m \in Members : Leave(m)

Spec == Init /\ [][Next]_feed
=============================================================================
