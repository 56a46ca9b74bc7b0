------------------------------ MODULE Presence ------------------------------
(***************************************************************************)
(* The sessions of the tracking core as the publishers of the WebSocket    *)
(* server: what the clients learn of who is tracking.  A session thread    *)
(* publishes a status when it starts, one with every minute, under the     *)
(* lock of the process map, and a last one that says nothing is tracked.   *)
(* Several of them publish at once, and Broadcast carries what they say.   *)
(***************************************************************************)
EXTENDS Broadcast

VARIABLES
    life,       \* how far each session thread has come
    says        \* of each update made: its session, and whether that tracks

presenceVars == <<vars, life, says>>

\* "start", "minute" and "farewell": a status is written and not yet sent.
Lives == {"off", "start", "on", "minute", "farewell"}

PresenceInit ==
    /\ Init
    /\ life = [p \in Publishers |-> "off"]
    /\ says = << >>

Sessions(ls) == {p \in Publishers : life[p] \in ls}

\* The bound: every session that is up can still say that it ended.
Owed == Cardinality(Sessions({"start", "on", "minute"}))
Spare(n) == made + Owed + n <= MaxUpdates

-----------------------------------------------------------------------------
Live(p, from, to) ==
    /\ life[p] = from
    /\ life' = [life EXCEPT ![p] = to]

Say(p, tracking) ==
    /\ WriteStatus(p)
    /\ says' = Append(says, [by |-> p, tracking |-> tracking])

Start(p) ==
    /\ Spare(2)
    /\ Live(p, "off", "start")
    /\ Say(p, TRUE)

\* A minute is told under the lock of PROCESS_MAP: one session at a time.
Minute(p) ==
    /\ Sessions({"minute"}) = {}
    /\ Spare(1)
    /\ Live(p, "on", "minute")
    /\ Say(p, TRUE)

\* Mutant: a session that ends while another is up leaves the status tracking.
EndOfLast(p) ==
    /\ Live(p, "on", "farewell")
    /\ Say(p, Sessions({"on", "start", "minute"}) # {p})

\* The loop was left before, with the map locked; the farewell needs no lock.
End(p) == Live(p, "on", "farewell") /\ Say(p, FALSE)

Tell(p) ==
    /\ SendStatus(p)
    /\ \/ Live(p, "start", "on")
       \/ Live(p, "minute", "on")
       \/ Live(p, "farewell", "off")
    /\ UNCHANGED says

-----------------------------------------------------------------------------
Unsaid == UNCHANGED <<life, says>>

PresenceNext ==
    \/ \E p \in Publishers : Start(p) \/ Minute(p) \/ End(p) \/ Tell(p)
    \/ Broadcaster /\ Unsaid
    \/ \E c \in Clients : Connection(c) /\ Unsaid

\* The threads are scheduled: the broadcaster serves, a connection pushes and
\* reads, a session sends what it wrote.  Whether an application starts or ends
\* and whether a peer asks or leaves is up to others.
PresenceFairness ==
    /\ WF_presenceVars(Broadcaster /\ Unsaid)
    /\ \A p \in Publishers : WF_presenceVars(Tell(p))
    /\ \A c \in Clients : WF_presenceVars((Loop(c) \/ Closing(c)) /\ Unsaid)

PresenceSpec == PresenceInit /\ [][PresenceNext]_presenceVars
FairPresenceSpec == PresenceSpec /\ PresenceFairness

-----------------------------------------------------------------------------
\* The updates of session p made up to the n-th.
SaidBy(p, n) == {m \in 1 .. n : says[m].by = p}

(***************************************************************************)
(* A client follows each session forwards: what it is sent of a session    *)
(* comes in the order the session made it, and nothing comes that the      *)
(* session had left behind when the client was greeted, though sessions    *)
(* overtake each other between writing the status and sending it and the   *)
(* greeting does not go through the channel (broadcast_tracking_status,    *)
(* handle_connection, subscribe_client).                                   *)
(***************************************************************************)
InSessionOrder ==
    \A c \in Clients, p \in Publishers :
        LET heard == Inbox(c)
            Of == {i \in DOMAIN heard : says[heard[i].n].by = p}
        IN  Connected(c) => \A i \in Of :
                /\ \A m \in SaidBy(p, greeted[c]) : heard[i].n >= m
                /\ \A j \in Of : i < j => heard[i].n < heard[j].n

AllEnded == Sessions({"off"}) = Publishers
Watching(c) == Connected(c) /\ TrackingStatus \in subs[c]

\* The last status a client knows of, the greeting included; 0 is the first one.
LastSeen(c) == IF received[c] = << >> THEN greeted[c]
               ELSE received[c][Len(received[c])].n
SaysTracking(n) == n # 0 /\ says[n].tracking

(***************************************************************************)
(* When the last session has ended for good, every client that watched it  *)
(* end comes to know that nothing is tracked any more, whatever order the  *)
(* sessions ended and published in (start_tracking_thread,                 *)
(* broadcast_to_subscribers, handle_client_messages).                      *)
(***************************************************************************)
EndedIsTold ==
    \A c \in Clients :
        [](Watching(c) /\ ~AllEnded =>
            \/ []<>~AllEnded
            \/ <>~Watching(c)
            \/ <>[]~SaysTracking(LastSeen(c)))
=============================================================================
