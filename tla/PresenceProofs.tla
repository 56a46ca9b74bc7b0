--------------------------- MODULE PresenceProofs ---------------------------
(***************************************************************************)
(* Theorems about Presence, for any number of sessions and clients: it     *)
(* behaves as Broadcast, and a client follows each session forwards.       *)
(***************************************************************************)
EXTENDS Presence, BroadcastProofs

(***************************************************************************)
(* Sessions that publish as the tracking core has them publish are one     *)
(* case of what Broadcast allows: what is proved of it holds here.         *)
(***************************************************************************)
THEOREM PresenceRefinesBroadcast == PresenceSpec => Spec
<1>1. PresenceInit => Init
  BY DEF PresenceInit
<1>2. [PresenceNext]_presenceVars => [Next]_vars
  BY DEF PresenceNext, presenceVars, Next, Publish, Start, Minute, End, Tell, Say
<1> QED BY <1>1, <1>2, PTL DEF PresenceSpec, Spec

-----------------------------------------------------------------------------
(***************************************************************************)
(* Order.  An update goes from its session into the channel, from there    *)
(* into the round of the broadcaster, a queue and a WebSocket.  What is    *)
(* further on is before what is further back, session by session, and      *)
(* before what the session has yet to send.  (ss is what was said.)        *)
(***************************************************************************)
Before(ss, u, v) == IsUpdate(u) /\ IsUpdate(v) /\ ss[u.n].by = ss[v.n].by => u.n < v.n
Ordered(ss, s) == \A i, j \in DOMAIN s : i < j => Before(ss, s[i], s[j])
Ahead(ss, s, t) == \A i \in DOMAIN s, j \in DOMAIN t : Before(ss, s[i], t[j])
AheadOf(ss, s, v) == \A i \in DOMAIN s : Before(ss, s[i], v)
Behind(ss, u, t) == \A j \in DOMAIN t : Before(ss, u, t[j])

\* Nothing its session had left behind when a client was greeted with g.
Current(ss, g, u) == IsUpdate(u) => \A m \in 1 .. g : ss[m].by = ss[u.n].by => u.n >= m
AllCurrent(ss, g, s) == \A i \in DOMAIN s : Current(ss, g, s[i])

Made(k, u) == IsUpdate(u) => u.n \in 1 .. k
AllMade(k, s) == \A i \in DOMAIN s : Made(k, s[i])
ChangeOf(m, c) == ~IsUpdate(m) /\ m.client = c

\* What holds of sequences under one element more, and under one less.
LEMMA AppendElements ==
    ASSUME NEW S, NEW s \in Seq(S), NEW u
    PROVE  \A i \in DOMAIN Append(s, u) :
              \/ i \in DOMAIN s /\ i < Len(s) + 1 /\ Append(s, u)[i] = s[i]
              \/ i = Len(s) + 1 /\ Append(s, u)[i] = u
OBVIOUS

LEMMA TailElements ==
    ASSUME NEW S, NEW s \in Seq(S), s # << >>
    PROVE  /\ 1 \in DOMAIN s /\ Head(s) = s[1]
           /\ \A i \in DOMAIN Tail(s) :
                 i \in Nat /\ 1 < i + 1 /\ i + 1 \in DOMAIN s /\ Tail(s)[i] = s[i + 1]
OBVIOUS

LEMMA OneMore ==
    ASSUME NEW S, NEW s \in Seq(S), NEW u, NEW ss, NEW g, NEW k
    PROVE  /\ Ordered(ss, s) /\ AheadOf(ss, s, u) => Ordered(ss, Append(s, u))
           /\ \A t : Ahead(ss, t, s) /\ AheadOf(ss, t, u) => Ahead(ss, t, Append(s, u))
           /\ \A t : Ahead(ss, s, t) /\ Behind(ss, u, t) => Ahead(ss, Append(s, u), t)
           /\ \A v : AheadOf(ss, s, v) /\ Before(ss, u, v) => AheadOf(ss, Append(s, u), v)
           /\ \A v : Behind(ss, v, s) /\ Before(ss, v, u) => Behind(ss, v, Append(s, u))
           /\ AllCurrent(ss, g, s) /\ Current(ss, g, u) => AllCurrent(ss, g, Append(s, u))
           /\ AllMade(k, s) /\ Made(k, u) => AllMade(k, Append(s, u))
<1>1. \A i \in DOMAIN Append(s, u) :
         \/ i \in DOMAIN s /\ i < Len(s) + 1 /\ Append(s, u)[i] = s[i]
         \/ i = Len(s) + 1 /\ Append(s, u)[i] = u
  BY AppendElements
<1>2. Ordered(ss, s) /\ AheadOf(ss, s, u) => Ordered(ss, Append(s, u))
  <2> SUFFICES ASSUME Ordered(ss, s), AheadOf(ss, s, u),
                      NEW i \in DOMAIN Append(s, u), NEW j \in DOMAIN Append(s, u), i < j
               PROVE  Before(ss, Append(s, u)[i], Append(s, u)[j])
    BY DEF Ordered
  <2>1. i \in DOMAIN s /\ Append(s, u)[i] = s[i]
    OBVIOUS
  <2> QED BY <1>1, <2>1 DEF Ordered, AheadOf
<1> QED BY <1>1, <1>2 DEF Ahead, AheadOf, Behind, AllCurrent, AllMade

LEMMA OneLess ==
    ASSUME NEW S, NEW s \in Seq(S), s # << >>, NEW ss, NEW g, NEW k
    PROVE  /\ Ordered(ss, s) => Ordered(ss, Tail(s)) /\ Behind(ss, Head(s), Tail(s))
           /\ \A t : Ahead(ss, t, s) => Ahead(ss, t, Tail(s)) /\ AheadOf(ss, t, Head(s))
           /\ \A t : Ahead(ss, s, t) => Ahead(ss, Tail(s), t) /\ Behind(ss, Head(s), t)
           /\ \A v : AheadOf(ss, s, v) => AheadOf(ss, Tail(s), v) /\ Before(ss, Head(s), v)
           /\ \A v : Behind(ss, v, s) => Behind(ss, v, Tail(s))
           /\ AllCurrent(ss, g, s) => AllCurrent(ss, g, Tail(s)) /\ Current(ss, g, Head(s))
           /\ AllMade(k, s) => AllMade(k, Tail(s)) /\ Made(k, Head(s))
<1>1. /\ 1 \in DOMAIN s /\ Head(s) = s[1]
      /\ \A i \in DOMAIN Tail(s) :
            i \in Nat /\ 1 < i + 1 /\ i + 1 \in DOMAIN s /\ Tail(s)[i] = s[i + 1]
  BY TailElements
<1> QED BY <1>1 DEF Ordered, Ahead, AheadOf, Behind, AllCurrent, AllMade

\* What is said later changes nothing about what was said.
LEMMA SayingMore ==
    ASSUME NEW S, NEW ss \in Seq(S), NEW x, NEW g \in Nat, g <= Len(ss)
    PROVE  /\ \A u, v : Made(Len(ss), u) /\ Made(Len(ss), v) /\ Before(ss, u, v)
                            => Before(Append(ss, x), u, v)
           /\ \A u : Made(Len(ss), u) /\ Current(ss, g, u) => Current(Append(ss, x), g, u)
<1>1. \A i \in 1 .. Len(ss) : Append(ss, x)[i] = ss[i]
  OBVIOUS
<1> QED BY <1>1 DEF Before, Current, Made

-----------------------------------------------------------------------------
Serving(c) == cast.at = "each" /\ \E e \in cast.todo : e[1] = c
Unsent(s) == \A p \in Publishers : pub[p] # None => AheadOf(says, s, pub[p])

Counted ==
    /\ says \in Seq([by : Publishers, tracking : BOOLEAN])
    /\ Len(says) = made /\ status <= made
    /\ \A c \in Clients : greeted[c] <= made
    /\ AllMade(made, channel)
    /\ cast.at = "each" => Made(made, cast.update)
    /\ \A c \in Clients : AllMade(made, outgoing[c]) /\ AllMade(made, received[c])

\* What a session has written and not sent is the last it said.
LastSaid ==
    \A p \in Publishers : pub[p] # None =>
        /\ Made(made, pub[p]) /\ says[pub[p].n].by = p
        /\ \A m \in 1 .. made : says[m].by = p => m <= pub[p].n

ChannelLine == Ordered(says, channel) /\ Unsent(channel)
RoundLine ==
    cast.at = "each" =>
        /\ Behind(says, cast.update, channel)
        /\ \A p \in Publishers : pub[p] # None => Before(says, cast.update, pub[p])
QueueLine(c) ==
    /\ Ordered(says, outgoing[c]) /\ Ahead(says, outgoing[c], channel) /\ Unsent(outgoing[c])
    /\ Serving(c) => AheadOf(says, outgoing[c], cast.update)
SocketLine(c) ==
    /\ Ordered(says, received[c]) /\ Ahead(says, received[c], outgoing[c])
    /\ Ahead(says, received[c], channel) /\ Unsent(received[c])
    /\ Serving(c) => AheadOf(says, received[c], cast.update)

\* A round has one entry for a client.
OneEntry == \A e, f \in cast.todo : e[1] = f[1] => e = f

\* Before the greeting a client is sent nothing; after it, whatever reaches it
\* was current then: its subscription is behind the greeting in the channel.
CurrentLine(c) ==
    /\ pc[c] \in {"off", "greet"} => outgoing[c] = << >> /\ received[c] = << >>
    /\ AllCurrent(says, greeted[c], outgoing[c]) /\ AllCurrent(says, greeted[c], received[c])
    /\ subs[c] # {} => AllCurrent(says, greeted[c], channel)
    /\ subs[c] # {} /\ cast.at = "each" => Current(says, greeted[c], cast.update)
    /\ \A k, j \in DOMAIN channel :
          k < j /\ ChangeOf(channel[k], c) => Current(says, greeted[c], channel[j])

Lines == ChannelLine /\ RoundLine /\ OneEntry /\ \A c \in Clients : QueueLine(c) /\ SocketLine(c)
Currents == \A c \in Clients : CurrentLine(c)
OrderInv == Counted /\ LastSaid /\ Lines /\ Currents

LEMMA OrderInit == PresenceInit => OrderInv
<1> SUFFICES ASSUME PresenceInit PROVE OrderInv
  OBVIOUS
<1>1. Counted /\ LastSaid
  BY DEF PresenceInit, Init, Counted, LastSaid, AllMade, Quiet
<1>2. Lines
  BY DEF PresenceInit, Init, Quiet, Lines, ChannelLine, RoundLine, OneEntry, QueueLine, SocketLine,
         Serving, Unsent, Ordered, Ahead, AheadOf
<1>3. Currents
  BY DEF PresenceInit, Init, Quiet, Currents, CurrentLine, AllCurrent
<1> QED BY <1>1, <1>2, <1>3 DEF OrderInv

\* A step of a connection thread that moves it past no greeting.
LEMMA ThreadStep ==
    ASSUME OrderInv, UNCHANGED <<says, publishing, channel, cast, subs, greeted, outgoing, received>>,
           \A c \in Clients : pc'[c] \in {"off", "greet"} => pc[c] \in {"off", "greet"}
    PROVE  OrderInv'
<1>1. Counted' /\ LastSaid'
  BY DEF OrderInv, Counted, LastSaid, publishing
<1>2. Lines'
  BY DEF OrderInv, Lines, ChannelLine, RoundLine, OneEntry, QueueLine, SocketLine, Serving, Unsent,
         publishing
<1>3. Currents'
  BY DEF OrderInv, Currents, CurrentLine
<1> QED BY <1>1, <1>2, <1>3 DEF OrderInv

\* A session says something: the newest of all.
LEMMA SayStep ==
    ASSUME TypeOK, OrderInv, NEW p \in Publishers, NEW tracking \in BOOLEAN, Say(p, tracking)
    PROVE  OrderInv'
<1> DEFINE x == [by |-> p, tracking |-> tracking]
           u == [topic |-> TrackingStatus, n |-> made + 1]
<1>1. /\ says' = Append(says, x) /\ made' = made + 1 /\ status' = made + 1
      /\ pub' = [pub EXCEPT ![p] = u]
      /\ UNCHANGED <<channel, cast, subs, pc, greeted, outgoing, received>>
  BY DEF Say, WriteStatus, connection
<1>2. /\ says \in Seq([by : Publishers, tracking : BOOLEAN]) /\ Len(says) = made
      /\ made \in Nat /\ x \in [by : Publishers, tracking : BOOLEAN]
      /\ \A c \in Clients : greeted[c] \in Nat /\ greeted[c] <= made
  BY DEF OrderInv, Counted, TypeOK
<1>3. /\ Len(says') = made + 1 /\ says'[made + 1] = x
      /\ \A i \in 1 .. made : says'[i] = says[i]
      /\ says' \in Seq([by : Publishers, tracking : BOOLEAN])
  BY <1>1, <1>2
<1> HIDE DEF x
<1>4. \A v : Made(made, v) => Made(made', v)
  BY <1>1, <1>2 DEF Made
<1>5. Counted'
  BY <1>1, <1>2, <1>3, <1>4 DEF OrderInv, Counted, AllMade
<1>6. /\ pub'[p] = u /\ \A q \in Publishers \ {p} : pub'[q] = pub[q]
      /\ x.by = p
  BY <1>1 DEF TypeOK, x
<1>7. LastSaid'
  <2> SUFFICES ASSUME NEW q \in Publishers, pub'[q] # None
               PROVE  /\ Made(made', pub'[q]) /\ says'[pub'[q].n].by = q
                      /\ \A m \in 1 .. made' : says'[m].by = q => m <= pub'[q].n
    BY DEF LastSaid
  <2>1. CASE q = p
    BY <1>1, <1>2, <1>3, <1>6, <2>1 DEF Made
  <2>2. CASE q # p
    <3>1. /\ pub'[q] = pub[q] /\ Made(made, pub[q]) /\ says[pub[q].n].by = q
          /\ \A m \in 1 .. made : says[m].by = q => m <= pub[q].n
      BY <1>6, <2>2 DEF OrderInv, LastSaid
    <3>2. pub[q] \in Update
      BY <1>6, <2>2 DEF TypeOK
    <3>3. pub[q].n \in 1 .. made
      BY <3>1, <3>2 DEF Made, IsUpdate
    <3> QED BY <1>1, <1>2, <1>3, <1>4, <1>6, <2>2, <3>1, <3>3
  <2> QED BY <2>1, <2>2
<1>8. \A v, w : Made(made, v) /\ Made(made, w) /\ Before(says, v, w) => Before(says', v, w)
  BY <1>1, <1>2, SayingMore
<1>9. \A v : Made(made, v) => Before(says', v, u)
  BY <1>1, <1>2, <1>3 DEF Before, Made
<1>10. \A q \in Publishers : pub[q] # None => Made(made, pub[q])
  BY DEF OrderInv, LastSaid
<1> HIDE DEF u
<1>11. \A s : AllMade(made, s) /\ Unsent(s) => (Unsent(s))'
  <2> SUFFICES ASSUME NEW s, AllMade(made, s), Unsent(s), NEW q \in Publishers, pub'[q] # None
               PROVE  AheadOf(says', s, pub'[q])
    BY DEF Unsent
  <2> QED BY <1>6, <1>8, <1>9, <1>10 DEF Unsent, AheadOf, AllMade
<1>12. /\ AllMade(made, channel) /\ (cast.at = "each" => Made(made, cast.update))
       /\ \A c \in Clients : AllMade(made, outgoing[c]) /\ AllMade(made, received[c])
  BY DEF OrderInv, Counted
<1>13. Lines'
  <2>1. ChannelLine'
    BY <1>1, <1>8, <1>11, <1>12 DEF OrderInv, Lines, ChannelLine, Ordered, AllMade, Unsent
  <2>2. RoundLine'
    BY <1>1, <1>6, <1>8, <1>9, <1>10, <1>12
       DEF OrderInv, Lines, RoundLine, Behind, AllMade
  <2>3. ASSUME NEW c \in Clients PROVE (QueueLine(c) /\ SocketLine(c))'
    <3>1. QueueLine(c) /\ SocketLine(c)
      BY DEF OrderInv, Lines
    <3>2. (QueueLine(c))'
      BY <1>1, <1>8, <1>11, <1>12, <3>1
         DEF QueueLine, Serving, Ordered, Ahead, AheadOf, AllMade, Unsent
    <3>3. (SocketLine(c))'
      BY <1>1, <1>8, <1>11, <1>12, <3>1
         DEF SocketLine, Serving, Ordered, Ahead, AheadOf, AllMade, Unsent
    <3> QED BY <3>2, <3>3
  <2>4. OneEntry'
    BY <1>1 DEF OrderInv, Lines, OneEntry
  <2> QED BY <2>1, <2>2, <2>3, <2>4 DEF Lines
<1>14. Currents'
  <2> SUFFICES ASSUME NEW c \in Clients PROVE (CurrentLine(c))'
    BY DEF Currents
  <2>1. CurrentLine(c)
    BY DEF OrderInv, Currents
  <2>2. \A v : Made(made, v) /\ Current(says, greeted[c], v) => Current(says', greeted[c], v)
    BY <1>1, <1>2, SayingMore
  <2> QED BY <1>1, <1>12, <2>1, <2>2 DEF CurrentLine, AllCurrent, AllMade
<1> QED BY <1>5, <1>7, <1>13, <1>14 DEF OrderInv

\* A session sends what it said, behind everything else in the channel.
LEMMA TellStep ==
    ASSUME TypeOK, OrderInv, NEW p \in Publishers, Tell(p)
    PROVE  OrderInv'
<1> DEFINE u == pub[p]
<1>1. /\ channel' = Append(channel, u) /\ pub' = [pub EXCEPT ![p] = None] /\ u # None
      /\ UNCHANGED <<says, status, made, cast, subs, pc, greeted, outgoing, received>>
  BY DEF Tell, SendStatus, connection
<1>2. u \in Update /\ IsUpdate(u) /\ channel \in Seq(Update \cup Change)
  BY <1>1 DEF TypeOK, IsUpdate
<1>3. /\ pub'[p] = None /\ \A q \in Publishers \ {p} : pub'[q] = pub[q]
  BY <1>1 DEF TypeOK
<1>4. Made(made, u) /\ says[u.n].by = p /\ \A m \in 1 .. made : says[m].by = p => m <= u.n
  BY <1>1 DEF OrderInv, LastSaid
<1>5. \A s : Unsent(s) => AheadOf(says, s, u) /\ (Unsent(s))'
  BY <1>1, <1>3 DEF Unsent
<1>6. \A q \in Publishers : pub'[q] # None => Before(says, u, pub'[q])
  <2> SUFFICES ASSUME NEW q \in Publishers, pub'[q] # None PROVE Before(says, u, pub'[q])
    OBVIOUS
  <2>1. q # p /\ pub'[q] = pub[q] /\ says[pub[q].n].by = q
    BY <1>3 DEF OrderInv, LastSaid
  <2> QED BY <1>4, <2>1 DEF Before
<1> HIDE DEF u
<1>7. Counted' /\ LastSaid'
  <2>1. AllMade(made, channel')
    BY <1>1, <1>2, <1>4, OneMore DEF OrderInv, Counted
  <2>2. Counted'
    BY <1>1, <2>1 DEF OrderInv, Counted
  <2>3. LastSaid'
    BY <1>1, <1>3 DEF OrderInv, LastSaid
  <2> QED BY <2>2, <2>3
<1>8. Lines'
  <2>1. ChannelLine'
    <3>1. Ordered(says, channel')
      BY <1>1, <1>2, <1>5, OneMore DEF OrderInv, Lines, ChannelLine
    <3>2. (Unsent(channel))'
      <4> SUFFICES ASSUME NEW q \in Publishers, pub'[q] # None
                   PROVE  AheadOf(says, channel', pub'[q])
        BY <1>1 DEF Unsent
      <4>1. AheadOf(says, channel, pub'[q])
        BY <1>3 DEF OrderInv, Lines, ChannelLine, Unsent
      <4> QED BY <1>1, <1>2, <1>6, <4>1, OneMore
    <3> QED BY <1>1, <3>1, <3>2 DEF ChannelLine
  <2>2. RoundLine'
    <3> SUFFICES ASSUME cast.at = "each"
                 PROVE  /\ Behind(says, cast.update, channel')
                        /\ \A q \in Publishers :
                              pub'[q] # None => Before(says, cast.update, pub'[q])
      BY <1>1 DEF RoundLine
    <3>1. /\ Behind(says, cast.update, channel)
          /\ \A q \in Publishers : pub[q] # None => Before(says, cast.update, pub[q])
      BY DEF OrderInv, Lines, RoundLine
    <3> QED BY <1>1, <1>2, <1>3, <3>1, OneMore DEF u
  <2>3. ASSUME NEW c \in Clients PROVE (QueueLine(c) /\ SocketLine(c))'
    <3>1. QueueLine(c) /\ SocketLine(c)
      BY DEF OrderInv, Lines
    <3>2. \A s : Ahead(says, s, channel) /\ Unsent(s) => Ahead(says, s, channel')
      BY <1>1, <1>2, <1>5, OneMore
    <3>3. (Unsent(outgoing[c]))' /\ (Unsent(received[c]))'
      BY <1>1, <1>5, <3>1 DEF QueueLine, SocketLine, Unsent
    <3> QED BY <1>1, <3>1, <3>2, <3>3 DEF QueueLine, SocketLine, Serving
  <2>4. OneEntry'
    BY <1>1 DEF OrderInv, Lines, OneEntry
  <2> QED BY <2>1, <2>2, <2>3, <2>4 DEF Lines
<1>9. Currents'
  <2> SUFFICES ASSUME NEW c \in Clients PROVE (CurrentLine(c))'
    BY DEF Currents
  <2>1. CurrentLine(c)
    BY DEF OrderInv, Currents
  <2>2. Current(says, greeted[c], u)
    <3>1. greeted[c] \in Nat /\ greeted[c] <= made /\ made \in Nat
      BY DEF OrderInv, Counted, TypeOK
    <3>2. u.n \in 1 .. made
      BY <1>2, <1>4 DEF Made
    <3> QED BY <1>4, <3>1, <3>2 DEF Current
  <2>3. ASSUME subs[c] # {} PROVE AllCurrent(says, greeted[c], channel')
    BY <1>1, <1>2, <2>1, <2>2, <2>3, OneMore DEF CurrentLine
  <2>4. ASSUME NEW k \in DOMAIN channel', NEW j \in DOMAIN channel', k < j,
               ChangeOf(channel'[k], c)
        PROVE  Current(says, greeted[c], channel'[j])
    <3>1. \A i \in DOMAIN channel' :
             \/ i \in DOMAIN channel /\ i < Len(channel) + 1 /\ channel'[i] = channel[i]
             \/ i = Len(channel) + 1 /\ channel'[i] = u
      BY <1>1, <1>2, AppendElements
    <3>2. k \in DOMAIN channel /\ channel'[k] = channel[k]
      BY <1>2, <2>4, <3>1 DEF ChangeOf
    <3> QED BY <2>1, <2>2, <2>4, <3>1, <3>2 DEF CurrentLine
  <2> QED BY <1>1, <2>1, <2>3, <2>4 DEF CurrentLine
<1> QED BY <1>7, <1>8, <1>9 DEF OrderInv

\* The broadcaster takes a message: the rest of the channel keeps its order.
LEMMA TakeKeepsLines ==
    ASSUME TypeOK, OrderInv, channel # << >>, channel' = Tail(channel),
           UNCHANGED <<says, publishing, outgoing, received>>
    PROVE  /\ channel \in Seq(Update \cup Change)
           /\ AllMade(made, channel') /\ Made(made, Head(channel))
           /\ ChannelLine' /\ Behind(says, Head(channel), channel')
           /\ \A p \in Publishers : pub[p] # None => Before(says, Head(channel), pub[p])
           /\ \A c \in Clients :
                 /\ Ahead(says, outgoing[c], channel') /\ AheadOf(says, outgoing[c], Head(channel))
                 /\ Ahead(says, received[c], channel') /\ AheadOf(says, received[c], Head(channel))
<1>1. channel \in Seq(Update \cup Change)
  BY DEF TypeOK
<1>2. AllMade(made, channel') /\ Made(made, Head(channel))
  BY <1>1, OneLess DEF OrderInv, Counted
<1>3. Ordered(says, channel') /\ Behind(says, Head(channel), channel')
  BY <1>1, OneLess DEF OrderInv, Lines, ChannelLine
<1>4. /\ Unsent(channel')
      /\ \A p \in Publishers : pub[p] # None => Before(says, Head(channel), pub[p])
  BY <1>1, OneLess DEF OrderInv, Lines, ChannelLine, Unsent
<1>5. ChannelLine'
  BY <1>3, <1>4 DEF ChannelLine, Unsent, publishing
<1>6. ASSUME NEW c \in Clients
      PROVE  /\ Ahead(says, outgoing[c], channel') /\ AheadOf(says, outgoing[c], Head(channel))
             /\ Ahead(says, received[c], channel') /\ AheadOf(says, received[c], Head(channel))
  BY <1>1, OneLess DEF OrderInv, Lines, QueueLine, SocketLine
<1> QED BY <1>1, <1>2, <1>3, <1>4, <1>5, <1>6

\* A subscription takes effect: what is behind it in the channel is current.
LEMMA ChangeStep ==
    ASSUME TypeOK, OrderInv, ChangeSubscription, UNCHANGED says PROVE OrderInv'
<1>1. /\ channel # << >> /\ channel' = Tail(channel) /\ ~IsUpdate(Head(channel))
      /\ cast.at = "idle" /\ cast' = cast
      /\ UNCHANGED <<says, publishing, pc, greeted, outgoing, received>>
  BY DEF ChangeSubscription, Message, connection
<1>2. /\ channel \in Seq(Update \cup Change) /\ AllMade(made, channel') /\ ChannelLine'
      /\ \A c \in Clients : /\ Ahead(says, outgoing[c], channel')
                            /\ Ahead(says, received[c], channel')
  BY <1>1, TakeKeepsLines
<1>3. Counted' /\ LastSaid'
  BY <1>1, <1>2 DEF OrderInv, Counted, LastSaid, publishing
<1>4. Lines'
  BY <1>1, <1>2 DEF OrderInv, Lines, RoundLine, OneEntry, QueueLine, SocketLine, Serving, Unsent,
                    publishing
<1>5. \A c \in Clients : subs'[c] # {} => subs[c] # {} \/ ChangeOf(Head(channel), c)
  <2>1. Message \in Change
    BY <1>1, MessageType DEF ChangeSubscription
  <2> QED BY <1>1, <2>1 DEF ChangeSubscription, ChangeOf, Message, Change, TypeOK
<1>6. ASSUME NEW c \in Clients PROVE (CurrentLine(c))'
  <2>1. CurrentLine(c)
    BY DEF OrderInv, Currents
  <2>2. /\ 1 \in DOMAIN channel /\ Head(channel) = channel[1]
        /\ \A i \in DOMAIN channel' :
              i \in Nat /\ 1 < i + 1 /\ i + 1 \in DOMAIN channel /\ channel'[i] = channel[i + 1]
    BY <1>1, <1>2, TailElements
  <2>3. ASSUME subs'[c] # {} PROVE AllCurrent(says, greeted[c], channel')
    <3>1. CASE subs[c] # {}
      BY <1>1, <1>2, <2>1, <3>1, OneLess DEF CurrentLine
    <3>2. CASE ChangeOf(Head(channel), c)
      BY <2>1, <2>2, <3>2 DEF CurrentLine, AllCurrent
    <3> QED BY <1>5, <2>3, <3>1, <3>2
  <2>4. \A k, j \in DOMAIN channel' :
           k < j /\ ChangeOf(channel'[k], c) => Current(says, greeted[c], channel'[j])
    BY <2>1, <2>2 DEF CurrentLine
  <2> QED BY <1>1, <2>1, <2>3, <2>4 DEF CurrentLine
<1> QED BY <1>3, <1>4, <1>6 DEF OrderInv, Currents

\* A round begins with the update at the head of the channel.
LEMMA SnapshotStep ==
    ASSUME TypeOK, OrderInv, Snapshot, UNCHANGED says PROVE OrderInv'
<1>1. /\ channel # << >> /\ channel' = Tail(channel)
      /\ UNCHANGED <<says, publishing, subs, pc, greeted, outgoing, received>>
      /\ cast'.at = "each" => cast'.update = Head(channel)
      /\ cast'.todo = {<<c, c \in wired>> : c \in clients}
  BY DEF Snapshot, Message, connection, Quiet
<1>2. /\ channel \in Seq(Update \cup Change) /\ AllMade(made, channel') /\ ChannelLine'
      /\ Made(made, Head(channel)) /\ Behind(says, Head(channel), channel')
      /\ \A p \in Publishers : pub[p] # None => Before(says, Head(channel), pub[p])
      /\ \A c \in Clients :
            /\ Ahead(says, outgoing[c], channel') /\ AheadOf(says, outgoing[c], Head(channel))
            /\ Ahead(says, received[c], channel') /\ AheadOf(says, received[c], Head(channel))
  BY <1>1, TakeKeepsLines
<1>3. Counted' /\ LastSaid'
  BY <1>1, <1>2 DEF OrderInv, Counted, LastSaid, publishing
<1>4. Lines'
  <2>1. RoundLine' /\ OneEntry'
    BY <1>1, <1>2 DEF RoundLine, OneEntry, publishing
  <2>2. ASSUME NEW c \in Clients PROVE (QueueLine(c) /\ SocketLine(c))'
    BY <1>1, <1>2 DEF OrderInv, Lines, QueueLine, SocketLine, Serving, Unsent, publishing
  <2> QED BY <1>2, <2>1, <2>2 DEF Lines
<1>5. ASSUME NEW c \in Clients PROVE (CurrentLine(c))'
  <2>1. CurrentLine(c)
    BY DEF OrderInv, Currents
  <2>2. \A i \in DOMAIN channel' :
           i \in Nat /\ i + 1 \in DOMAIN channel /\ channel'[i] = channel[i + 1]
    BY <1>1, <1>2, TailElements
  <2>3. subs[c] # {} => /\ AllCurrent(says, greeted[c], channel')
                        /\ Current(says, greeted[c], Head(channel))
    BY <1>1, <1>2, <2>1, OneLess DEF CurrentLine
  <2>4. \A k, j \in DOMAIN channel' :
           k < j /\ ChangeOf(channel'[k], c) => Current(says, greeted[c], channel'[j])
    BY <2>1, <2>2 DEF CurrentLine
  <2> QED BY <1>1, <2>1, <2>3, <2>4 DEF CurrentLine
<1> QED BY <1>3, <1>4, <1>5 DEF OrderInv, Currents

\* The round ends, or goes on with the same update for fewer clients.
LEMMA RoundShrinks ==
    ASSUME TypeOK, NEW e \in cast.todo, NEW failed, Served(e, failed), cast.at = "each"
    PROVE  /\ cast'.todo \subseteq cast.todo \ {e}
           /\ cast'.at = "each" => cast'.update = cast.update
<1>1. CASE cast.todo \ {e} # {}
  BY <1>1 DEF Served, TypeOK
<1>2. CASE cast.todo \ {e} = {}
  BY <1>2 DEF Served, Quiet
<1> QED BY <1>1, <1>2

\* A client of the round gets the update, or does not.
LEMMA ServeStep ==
    ASSUME RegistryInv, OrderInv, NEW e \in Clients \X BOOLEAN, Serve(e), UNCHANGED says
    PROVE  OrderInv'
<1> DEFINE b == e[1]
           u == cast.update
<1>0. TypeOK /\ FreshSilent
  BY DEF RegistryInv
<1>1. /\ UNCHANGED <<says, publishing, channel, subs, pc, greeted, received>>
      /\ cast.at = "each" /\ e \in cast.todo /\ b \in Clients
  BY DEF Serve
<1>2. /\ cast'.todo \subseteq cast.todo \ {e}
      /\ cast'.at = "each" => cast'.update = u
  BY <1>0, <1>1, RoundShrinks DEF Serve
<1>3. /\ \/ outgoing' = outgoing
         \/ Subscribed(b) /\ outgoing' = [outgoing EXCEPT ![b] = Append(@, u)]
      /\ subs[b] = {} => ~Subscribed(b)
  BY DEF Serve, Subscribed
<1>4. \A c \in Clients :
         \/ outgoing'[c] = outgoing[c]
         \/ c = b /\ subs[b] # {} /\ outgoing'[b] = Append(outgoing[b], u)
  BY <1>0, <1>1, <1>3 DEF TypeOK
<1>5. \A c \in Clients : (Serving(c))' => Serving(c) /\ c # b
  BY <1>1, <1>2 DEF Serving, OrderInv, Lines, OneEntry
<1>6. Serving(b) /\ outgoing[b] \in Seq(Update)
  BY <1>0, <1>1 DEF Serving, TypeOK
<1>7. /\ Made(made, u) /\ Behind(says, u, channel)
      /\ \A p \in Publishers : pub[p] # None => Before(says, u, pub[p])
  BY <1>1 DEF OrderInv, Counted, Lines, RoundLine
<1> HIDE DEF b, u
<1>8. Counted' /\ LastSaid'
  <2>1. ASSUME NEW c \in Clients PROVE AllMade(made, outgoing'[c])
    BY <1>4, <1>6, <1>7, OneMore DEF OrderInv, Counted
  <2> QED BY <1>1, <1>2, <1>7, <2>1 DEF OrderInv, Counted, LastSaid, publishing
<1>9. Lines'
  <2>1. ChannelLine'
    BY <1>1 DEF OrderInv, Lines, ChannelLine, Unsent, publishing
  <2>2. RoundLine'
    BY <1>1, <1>2, <1>7 DEF RoundLine, publishing
  <2>3. OneEntry'
    BY <1>2 DEF OrderInv, Lines, OneEntry
  <2>4. ASSUME NEW c \in Clients PROVE (QueueLine(c))'
    <3>1. QueueLine(c)
      BY DEF OrderInv, Lines
    <3>2. CASE outgoing'[c] = outgoing[c]
      BY <1>1, <1>2, <1>5, <3>1, <3>2 DEF QueueLine, Serving, Unsent, publishing, u
    <3>3. CASE c = b /\ outgoing'[b] = Append(outgoing[b], u)
      <4>1. AheadOf(says, outgoing[b], u)
        BY <1>6, <3>1, <3>3 DEF QueueLine, u
      <4>2. Ordered(says, outgoing'[b]) /\ Ahead(says, outgoing'[b], channel)
        BY <1>6, <1>7, <3>1, <3>3, <4>1, OneMore DEF QueueLine
      <4>3. ASSUME NEW p \in Publishers, pub[p] # None PROVE AheadOf(says, outgoing'[b], pub[p])
        BY <1>6, <1>7, <3>1, <3>3, <4>3, OneMore DEF QueueLine, Unsent
      <4> QED BY <1>1, <1>5, <3>3, <4>2, <4>3 DEF QueueLine, Unsent, publishing
    <3> QED BY <1>4, <3>2, <3>3
  <2>5. ASSUME NEW c \in Clients PROVE (SocketLine(c))'
    <3>1. SocketLine(c)
      BY DEF OrderInv, Lines
    <3>2. Ahead(says, received[c], outgoing'[c])
      <4>1. CASE outgoing'[c] = outgoing[c]
        BY <3>1, <4>1 DEF SocketLine
      <4>2. CASE c = b /\ outgoing'[b] = Append(outgoing[b], u)
        <5>1. AheadOf(says, received[b], u) /\ Ahead(says, received[b], outgoing[b])
          BY <1>6, <3>1, <4>2 DEF SocketLine, u
        <5> QED BY <1>6, <4>2, <5>1, OneMore
      <4> QED BY <1>4, <4>1, <4>2
    <3> QED BY <1>1, <1>2, <1>5, <3>1, <3>2 DEF SocketLine, Serving, Unsent, publishing, u
  <2> QED BY <2>1, <2>2, <2>3, <2>4, <2>5 DEF Lines
<1>10. ASSUME NEW c \in Clients PROVE (CurrentLine(c))'
  <2>1. CurrentLine(c)
    BY DEF OrderInv, Currents
  <2>2. AllCurrent(says, greeted[c], outgoing'[c])
    BY <1>1, <1>4, <1>6, <2>1, OneMore DEF CurrentLine, u
  <2>3. pc[c] \in {"off", "greet"} => outgoing'[c] = << >>
    BY <1>0, <1>4, <2>1 DEF CurrentLine, FreshSilent, Fresh
  <2> QED BY <1>1, <1>2, <2>1, <2>2, <2>3 DEF CurrentLine, u
<1> QED BY <1>8, <1>9, <1>10 DEF OrderInv, Currents

\* The clients whose send failed are removed.
LEMMA PurgeStep ==
    ASSUME OrderInv, Purge, UNCHANGED says PROVE OrderInv'
<1>1. /\ UNCHANGED <<says, publishing, channel, subs, pc, greeted, outgoing, received>>
      /\ cast'.at = "idle" /\ cast'.todo = {}
  BY DEF Purge, Quiet, connection
<1>2. Counted' /\ LastSaid'
  BY <1>1 DEF OrderInv, Counted, LastSaid, publishing
<1>3. Lines'
  BY <1>1 DEF OrderInv, Lines, ChannelLine, RoundLine, OneEntry, QueueLine, SocketLine, Serving,
              Unsent, publishing
<1>4. Currents'
  BY <1>1 DEF OrderInv, Currents, CurrentLine
<1> QED BY <1>2, <1>3, <1>4 DEF OrderInv

\* The greeting: nothing of the client is under way yet.
LEMMA GreetStep ==
    ASSUME RegistryInv, OrderInv, NEW c \in Clients, Greet(c), UNCHANGED says PROVE OrderInv'
<1>1. /\ UNCHANGED <<says, publishing, channel, cast, subs, outgoing, received>>
      /\ pc[c] = "greet" /\ greeted' = [greeted EXCEPT ![c] = status]
      /\ pc' = [pc EXCEPT ![c] = "wire"]
  BY DEF Greet, Goto
<1>2. TypeOK /\ FreshSilent /\ FreshUnheard
  BY DEF RegistryInv
<1>3. \A d \in Clients : d # c => greeted'[d] = greeted[d] /\ pc'[d] = pc[d]
  BY <1>1, <1>2 DEF TypeOK
<1>4. greeted'[c] = status /\ pc'[c] = "wire"
  BY <1>1, <1>2 DEF TypeOK
<1>5. Counted' /\ LastSaid'
  BY <1>1, <1>3, <1>4 DEF OrderInv, Counted, LastSaid, publishing
<1>6. Lines'
  BY <1>1 DEF OrderInv, Lines, ChannelLine, RoundLine, OneEntry, QueueLine, SocketLine, Serving,
              Unsent, publishing
<1>7. ASSUME NEW d \in Clients PROVE (CurrentLine(d))'
  <2>1. CurrentLine(d)
    BY DEF OrderInv, Currents
  <2>2. CASE d # c
    BY <1>1, <1>3, <2>1, <2>2 DEF CurrentLine
  <2>3. CASE d = c
    <3>1. outgoing[c] = << >> /\ received[c] = << >> /\ subs[c] = {}
      BY <1>1, <1>2, <2>1, <2>3 DEF CurrentLine, FreshSilent, Fresh
    <3>2. \A k \in DOMAIN channel : ~ChangeOf(channel[k], c)
      <4>1. channel \in Seq(Update \cup Change)
        BY <1>2 DEF TypeOK
      <4>2. \A k \in DOMAIN channel : ~IsUpdate(channel[k]) => pc[channel[k].client] \notin Fresh
        BY <1>2, <4>1 DEF FreshUnheard
      <4> QED BY <1>1, <4>2 DEF ChangeOf, Fresh
    <3>3. \A g : AllCurrent(says, g, << >>)
      BY DEF AllCurrent
    <3> QED BY <1>1, <1>4, <2>3, <3>1, <3>2, <3>3 DEF CurrentLine
  <2> QED BY <2>2, <2>3
<1> QED BY <1>5, <1>6, <1>7 DEF OrderInv, Currents

\* A request goes into the channel behind everything else.
LEMMA RequestStep ==
    ASSUME TypeOK, OrderInv, NEW c \in Clients, NEW op, NEW ts, Request(c, op, ts),
           ~IsUpdate([op |-> op, client |-> c, topics |-> ts]), UNCHANGED says
    PROVE  OrderInv'
<1> DEFINE m == [op |-> op, client |-> c, topics |-> ts]
<1>1. /\ UNCHANGED <<says, publishing, cast, subs, greeted, outgoing, received>>
      /\ channel' = Append(channel, m) /\ pc[c] = "read"
      /\ \E s \in {"push", "leave"} : pc' = [pc EXCEPT ![c] = s]
  BY DEF Request, Goto
<1>2. ~IsUpdate(m) /\ channel \in Seq(Update \cup Change)
  BY DEF TypeOK
<1> HIDE DEF m
<1>3. /\ Made(made, m) /\ \A g : Current(says, g, m)
      /\ \A u : Before(says, u, m) /\ Before(says, m, u)
  BY <1>2 DEF Made, Current, Before
<1>4. \A s : AheadOf(says, s, m)
  BY <1>3 DEF AheadOf
<1>5. \A d \in Clients : pc'[d] \in {"off", "greet"} => pc[d] \in {"off", "greet"}
  BY <1>1 DEF TypeOK
<1>6. /\ AllMade(made, channel') /\ Ordered(says, channel') /\ (Unsent(channel))'
  <2>1. AllMade(made, channel') /\ Ordered(says, channel')
    BY <1>1, <1>2, <1>3, <1>4, OneMore DEF OrderInv, Counted, Lines, ChannelLine
  <2>2. Unsent(channel')
    BY <1>1, <1>2, <1>3, OneMore DEF OrderInv, Lines, ChannelLine, Unsent
  <2> QED BY <1>1, <2>1, <2>2 DEF Unsent, publishing
<1>7. Counted' /\ LastSaid'
  BY <1>1, <1>6 DEF OrderInv, Counted, LastSaid, publishing
<1>8. Lines'
  <2>1. RoundLine'
    BY <1>1, <1>2, <1>3, OneMore DEF OrderInv, Lines, RoundLine, publishing
  <2>2. ASSUME NEW d \in Clients PROVE (QueueLine(d) /\ SocketLine(d))'
    <3>1. \A s : Ahead(says, s, channel) => Ahead(says, s, channel')
      BY <1>1, <1>2, <1>4, OneMore
    <3> QED BY <1>1, <3>1 DEF OrderInv, Lines, QueueLine, SocketLine, Serving, Unsent, publishing
  <2> QED BY <1>1, <1>6, <2>1, <2>2 DEF OrderInv, Lines, ChannelLine, OneEntry
<1>9. ASSUME NEW d \in Clients PROVE (CurrentLine(d))'
  <2>1. CurrentLine(d)
    BY DEF OrderInv, Currents
  <2>2. subs[d] # {} => AllCurrent(says, greeted[d], channel')
    BY <1>1, <1>2, <1>3, <2>1, OneMore DEF CurrentLine
  <2>3. ASSUME NEW k \in DOMAIN channel', NEW j \in DOMAIN channel', k < j,
               ChangeOf(channel'[k], d)
        PROVE  Current(says, greeted[d], channel'[j])
    <3>1. \A i \in DOMAIN channel' :
             \/ i \in DOMAIN channel /\ i < Len(channel) + 1 /\ channel'[i] = channel[i]
             \/ i = Len(channel) + 1 /\ channel'[i] = m
      BY <1>1, <1>2, AppendElements
    <3>2. CASE channel'[j] = m
      BY <1>3, <3>2
    <3>3. CASE j \in DOMAIN channel /\ j < Len(channel) + 1 /\ channel'[j] = channel[j]
      <4>1. k \in DOMAIN channel /\ channel'[k] = channel[k]
        BY <1>2, <2>3, <3>1, <3>3
      <4> QED BY <2>1, <2>3, <3>3, <4>1 DEF CurrentLine
    <3> QED BY <3>1, <3>2, <3>3
  <2> QED BY <1>1, <1>5, <2>1, <2>2, <2>3 DEF CurrentLine
<1> QED BY <1>7, <1>8, <1>9 DEF OrderInv, Currents

\* The thread of a connection sends, fails to send, or drops what is queued.
LEMMA QueueStep ==
    ASSUME TypeOK, OrderInv, NEW c \in Clients,
           UNCHANGED <<says, publishing, channel, cast, subs, greeted>>,
           \A d \in Clients : pc'[d] \in {"off", "greet"} => pc[d] \in {"off", "greet"},
           \A d \in Clients : d # c => outgoing'[d] = outgoing[d] /\ received'[d] = received[d],
           \/ outgoing'[c] = << >> /\ received'[c] = received[c]
           \/ /\ outgoing[c] # << >> /\ outgoing'[c] = Tail(outgoing[c])
              /\ \/ received'[c] = received[c]
                 \/ received'[c] = Append(received[c], Head(outgoing[c]))
    PROVE  OrderInv'
<1>1. outgoing[c] \in Seq(Update) /\ received[c] \in Seq(Update)
  BY DEF TypeOK
<1>2. /\ AllMade(made, outgoing[c]) /\ AllMade(made, received[c])
      /\ QueueLine(c) /\ SocketLine(c) /\ CurrentLine(c)
  BY DEF OrderInv, Counted, Lines, Currents
<1> DEFINE u == Head(outgoing[c])
<1>3. ASSUME outgoing[c] # << >>
      PROVE  /\ AllMade(made, Tail(outgoing[c])) /\ Made(made, u)
             /\ Ordered(says, Tail(outgoing[c])) /\ Behind(says, u, Tail(outgoing[c]))
             /\ Ahead(says, Tail(outgoing[c]), channel) /\ Behind(says, u, channel)
             /\ \A v : AheadOf(says, outgoing[c], v) =>
                          AheadOf(says, Tail(outgoing[c]), v) /\ Before(says, u, v)
             /\ AllCurrent(says, greeted[c], Tail(outgoing[c])) /\ Current(says, greeted[c], u)
             /\ Ahead(says, received[c], Tail(outgoing[c])) /\ AheadOf(says, received[c], u)
  BY <1>1, <1>2, <1>3, OneLess DEF QueueLine, SocketLine, CurrentLine
<1>4. Unsent(outgoing[c]) => outgoing[c] = << >> \/ Unsent(Tail(outgoing[c]))
  BY <1>3 DEF Unsent
<1>5. /\ AllMade(made, outgoing'[c]) /\ Ordered(says, outgoing'[c])
      /\ Ahead(says, outgoing'[c], channel) /\ Unsent(outgoing'[c])
      /\ Serving(c) => AheadOf(says, outgoing'[c], cast.update)
      /\ AllCurrent(says, greeted[c], outgoing'[c])
  <2>1. CASE outgoing'[c] = << >>
    BY <2>1 DEF AllMade, Ordered, Ahead, Unsent, AheadOf, AllCurrent
  <2>2. CASE outgoing[c] # << >> /\ outgoing'[c] = Tail(outgoing[c])
    BY <1>2, <1>3, <1>4, <2>2 DEF QueueLine
  <2> QED BY <2>1, <2>2
<1>6. /\ AllMade(made, received'[c]) /\ Ordered(says, received'[c])
      /\ Ahead(says, received'[c], channel) /\ Unsent(received'[c])
      /\ Serving(c) => AheadOf(says, received'[c], cast.update)
      /\ AllCurrent(says, greeted[c], received'[c])
      /\ Ahead(says, received'[c], outgoing'[c])
  <2>1. CASE received'[c] = received[c]
    <3>1. Ahead(says, received[c], << >>)
      BY DEF Ahead
    <3> QED BY <1>2, <1>3, <2>1, <3>1 DEF SocketLine, CurrentLine
  <2>2. CASE /\ outgoing[c] # << >> /\ outgoing'[c] = Tail(outgoing[c])
             /\ received'[c] = Append(received[c], u)
    <3> HIDE DEF u
    <3>1. /\ AllMade(made, received'[c]) /\ Ordered(says, received'[c])
          /\ Ahead(says, received'[c], channel) /\ Ahead(says, received'[c], outgoing'[c])
          /\ AllCurrent(says, greeted[c], received'[c])
      BY <1>1, <1>2, <1>3, <2>2, OneMore DEF SocketLine, CurrentLine
    <3>2. \A v : AheadOf(says, received[c], v) /\ AheadOf(says, outgoing[c], v)
                     => AheadOf(says, received'[c], v)
      BY <1>1, <1>3, <2>2, OneMore
    <3>3. Unsent(received'[c])
      BY <1>2, <3>2 DEF QueueLine, SocketLine, Unsent
    <3> QED BY <1>2, <3>1, <3>2, <3>3 DEF QueueLine, SocketLine
  <2> QED BY <2>1, <2>2
<1>7. Counted' /\ LastSaid'
  <2>1. ASSUME NEW d \in Clients
        PROVE  AllMade(made, outgoing'[d]) /\ AllMade(made, received'[d])
    BY <1>5, <1>6 DEF OrderInv, Counted
  <2> QED BY <2>1 DEF OrderInv, Counted, LastSaid, publishing
<1>8. Lines'
  <2>1. ASSUME NEW d \in Clients PROVE (QueueLine(d) /\ SocketLine(d))'
    <3>1. CASE d = c
      BY <1>5, <1>6, <3>1 DEF QueueLine, SocketLine, Serving, Unsent, publishing
    <3>2. CASE d # c
      BY <3>2 DEF OrderInv, Lines, QueueLine, SocketLine, Serving, Unsent, publishing
    <3> QED BY <3>1, <3>2
  <2> QED BY <2>1 DEF OrderInv, Lines, ChannelLine, RoundLine, OneEntry, Unsent, publishing
<1>9. ASSUME NEW d \in Clients PROVE (CurrentLine(d))'
  <2>1. CurrentLine(d)
    BY DEF OrderInv, Currents
  <2>2. CASE d # c
    BY <2>1, <2>2 DEF CurrentLine
  <2>3. CASE d = c
    <3>1. pc[c] \in {"off", "greet"} => outgoing'[c] = << >> /\ received'[c] = << >>
      BY <1>2 DEF CurrentLine
    <3> QED BY <1>5, <1>6, <2>1, <2>3, <3>1 DEF CurrentLine
  <2> QED BY <2>2, <2>3
<1> QED BY <1>7, <1>8, <1>9 DEF OrderInv, Currents

\* A subscription change is no update.
LEMMA ChangesAreNoUpdates ==
    ASSUME NEW op, NEW c, NEW ts PROVE ~IsUpdate([op |-> op, client |-> c, topics |-> ts])
<1> DEFINE m == [op |-> op, client |-> c, topics |-> ts]
<1>1. "op" \in DOMAIN m
  OBVIOUS
<1>2. \A u \in Update : DOMAIN u = {"topic", "n"}
  BY DEF Update
<1> HIDE DEF m
<1>3. m \notin Update
  BY <1>1, <1>2
<1> QED BY <1>3 DEF IsUpdate, m

LEMMA OrderStep ==
    ASSUME RegistryInv, OrderInv, [PresenceNext]_presenceVars PROVE OrderInv'
<1>1. TypeOK
  BY DEF RegistryInv
<1>2. ASSUME NEW p \in Publishers, Start(p) \/ Minute(p) \/ End(p) PROVE OrderInv'
  BY <1>1, <1>2, SayStep DEF Start, Minute, End
<1>3. ASSUME NEW p \in Publishers, Tell(p) PROVE OrderInv'
  BY <1>1, <1>3, TellStep
<1>4. CASE Broadcaster /\ Unsaid
  BY <1>1, <1>4, ChangeStep, SnapshotStep, PurgeStep, ServeStep DEF Broadcaster, Unsaid
<1>5. ASSUME NEW c \in Clients, Connection(c), Unsaid PROVE OrderInv'
  <2> USE DEF Unsaid
  <2>1. \A s : Goto(c, s) => /\ pc'[c] = s
                             /\ \A d \in Clients : d # c => pc'[d] = pc[d]
    BY <1>1 DEF Goto, TypeOK
  <2>2. CASE Connect(c)
    BY <1>5, <2>1, <2>2, ThreadStep DEF Connect, connection
  <2>3. CASE Greet(c)
    BY <1>5, <2>3, GreetStep
  <2>4. CASE GreetFails(c)
    BY <1>5, <2>1, <2>4, ThreadStep DEF GreetFails, connection
  <2>5. CASE Wire(c)
    BY <1>5, <2>1, <2>5, ThreadStep DEF Wire, connection
  <2>6. CASE ReadNothing(c)
    BY <1>5, <2>1, <2>6, ThreadStep DEF ReadNothing, connection
  <2>7. CASE ReadFails(c)
    BY <1>5, <2>1, <2>7, ThreadStep DEF ReadFails, connection
  <2>8. CASE RemoveClient(c)
    BY <1>5, <2>1, <2>8, ThreadStep DEF RemoveClient, connection
  <2>9. ASSUME NEW op \in {"subscribe", "unsubscribe"}, NEW ts \in SUBSET Topics \ {{}},
               Request(c, op, ts)
        PROVE  OrderInv'
    BY <1>1, <1>5, <2>9, ChangesAreNoUpdates, RequestStep
  <2>10. CASE Push(c)
    <3>1. /\ UNCHANGED <<says, publishing, channel, cast, subs, greeted>>
          /\ \A d \in Clients : pc'[d] \in {"off", "greet"} => pc[d] \in {"off", "greet"}
      BY <1>5, <2>1, <2>10 DEF Push
    <3>2. CASE outgoing[c] = << >>
      BY <1>5, <2>1, <2>10, <3>1, <3>2, ThreadStep DEF Push
    <3>3. CASE outgoing[c] # << >>
      <4>1. /\ outgoing' = [outgoing EXCEPT ![c] = Tail(@)]
            /\ received' = [received EXCEPT ![c] = Append(@, Head(outgoing[c]))]
        BY <2>10, <3>3, Zenon DEF Push
      <4>2. /\ \A d \in Clients : d # c => outgoing'[d] = outgoing[d] /\ received'[d] = received[d]
            /\ outgoing'[c] = Tail(outgoing[c])
            /\ received'[c] = Append(received[c], Head(outgoing[c]))
        BY <1>1, <4>1 DEF TypeOK
      <4> QED BY <1>1, <3>1, <3>3, <4>2, QueueStep
    <3> QED BY <3>2, <3>3
  <2>11. CASE PushFails(c)
    <3>1. /\ UNCHANGED <<says, publishing, channel, cast, subs, greeted, received>>
          /\ \A d \in Clients : pc'[d] \in {"off", "greet"} => pc[d] \in {"off", "greet"}
          /\ outgoing[c] # << >> /\ outgoing' = [outgoing EXCEPT ![c] = Tail(@)]
      BY <1>5, <2>1, <2>11 DEF PushFails
    <3>2. /\ \A d \in Clients : d # c => outgoing'[d] = outgoing[d]
          /\ outgoing'[c] = Tail(outgoing[c])
      BY <1>1, <3>1 DEF TypeOK
    <3> QED BY <1>1, <3>1, <3>2, QueueStep
  <2>12. CASE DropReceiver(c)
    <3>1. /\ UNCHANGED <<says, publishing, channel, cast, subs, greeted, received>>
          /\ \A d \in Clients : pc'[d] \in {"off", "greet"} => pc[d] \in {"off", "greet"}
          /\ outgoing' = [outgoing EXCEPT ![c] = << >>]
      BY <1>5, <2>1, <2>12 DEF DropReceiver
    <3>2. /\ \A d \in Clients : d # c => outgoing'[d] = outgoing[d]
          /\ outgoing'[c] = << >>
      BY <1>1, <3>1 DEF TypeOK
    <3> QED BY <1>1, <3>1, <3>2, QueueStep
  <2> QED
    BY <1>5, <2>2, <2>3, <2>4, <2>5, <2>6, <2>7, <2>8, <2>9, <2>10, <2>11, <2>12
       DEF Connection, Loop, Closing
<1>6. CASE UNCHANGED presenceVars
  BY <1>6, ThreadStep DEF presenceVars, vars, publishing
<1> QED BY <1>2, <1>3, <1>4, <1>5, <1>6 DEF PresenceNext

\* The order of the segments is the order of what a client is sent.
LEMMA OrderIsInSession ==
    ASSUME RegistryInv, OrderInv, NEW c \in Clients, NEW p \in Publishers, Connected(c)
    PROVE  LET heard == Inbox(c)
               Of == {i \in DOMAIN heard : says[heard[i].n].by = p}
           IN  \A i \in Of :
                  /\ \A m \in SaidBy(p, greeted[c]) : heard[i].n >= m
                  /\ \A j \in Of : i < j => heard[i].n < heard[j].n
<1> DEFINE r == received[c]
           o == outgoing[c]
           d == Due(c)
           heard == Inbox(c)
<1>1. TypeOK
  BY DEF RegistryInv
<1>2. r \in Seq(Update) /\ o \in Seq(Update)
  BY <1>1 DEF TypeOK
<1>3. QueueLine(c) /\ SocketLine(c) /\ CurrentLine(c)
  BY DEF OrderInv, Lines, Currents
<1>4. /\ d = << >> \/ /\ d = <<cast.update>> /\ cast.update \in Update
                      /\ AheadOf(says, r, cast.update) /\ AheadOf(says, o, cast.update)
                      /\ Current(says, greeted[c], cast.update)
  <2>1. CASE cast.at = "each" /\ c \in {e[1] : e \in cast.todo} /\ Subscribed(c)
    <3>1. Serving(c) /\ subs[c] # {} /\ cast.update \in Update /\ d = <<cast.update>>
      BY <1>1, <2>1 DEF Serving, Subscribed, TypeOK, Due
    <3> QED BY <1>3, <2>1, <3>1 DEF QueueLine, SocketLine, CurrentLine
  <2>2. CASE ~(cast.at = "each" /\ c \in {e[1] : e \in cast.todo} /\ Subscribed(c))
    BY <2>2 DEF Due
  <2> QED BY <2>1, <2>2
<1> HIDE DEF r, o, d, heard
<1>5. d \in Seq(Update)
  <2>1. CASE d = << >>
    BY <2>1
  <2>2. ASSUME cast.update \in Update, d = <<cast.update>> PROVE d \in Seq(Update)
    BY <2>2
  <2> QED BY <1>4, <2>1, <2>2
<1>6. heard = r \o o \o d
  BY DEF Inbox, heard, r, o, d
<1>7. /\ heard \in Seq(Update)
      /\ \A i \in DOMAIN heard :
            \/ i \in DOMAIN r /\ heard[i] = r[i]
            \/ /\ i > Len(r) /\ i - Len(r) \in DOMAIN o /\ heard[i] = o[i - Len(r)]
            \/ /\ i = Len(r) + Len(o) + 1 /\ d = <<cast.update>> /\ heard[i] = cast.update
  <2>1. heard \in Seq(Update) /\ Len(heard) = Len(r) + Len(o) + Len(d)
    BY <1>2, <1>5, <1>6
  <2>2. CASE d = << >>
    BY <1>2, <1>6, <2>2, <2>1
  <2>3. CASE d = <<cast.update>>
    <3>1. heard = Append(r \o o, cast.update)
      BY <1>2, <1>5, <1>6, <2>1, <2>3
    <3> QED BY <1>2, <2>1, <2>3, <3>1
  <2> QED BY <1>4, <2>1, <2>2, <2>3
<1>8. /\ Ordered(says, r) /\ Ordered(says, o) /\ Ahead(says, r, o)
      /\ AllCurrent(says, greeted[c], r) /\ AllCurrent(says, greeted[c], o)
  BY <1>3 DEF QueueLine, SocketLine, CurrentLine, r, o
<1>9. d = <<cast.update>> =>
         /\ AheadOf(says, r, cast.update) /\ AheadOf(says, o, cast.update)
         /\ Current(says, greeted[c], cast.update)
  BY <1>4
<1>10. ASSUME NEW i \in DOMAIN heard, NEW j \in DOMAIN heard, i < j
       PROVE  Before(says, heard[i], heard[j])
  <2>0. i \in Nat /\ j \in Nat /\ Len(r) \in Nat /\ Len(o) \in Nat
        /\ DOMAIN r = 1 .. Len(r) /\ DOMAIN o = 1 .. Len(o)
    BY <1>2, <1>7
  <2>1. CASE j \in DOMAIN r /\ heard[j] = r[j]
    <3>1. i \in DOMAIN r /\ heard[i] = r[i]
      BY <1>7, <1>10, <2>0, <2>1
    <3> QED BY <1>8, <1>10, <2>1, <3>1 DEF Ordered
  <2>2. CASE j > Len(r) /\ j - Len(r) \in DOMAIN o /\ heard[j] = o[j - Len(r)]
    <3>1. \/ i \in DOMAIN r /\ heard[i] = r[i]
          \/ i - Len(r) \in DOMAIN o /\ i - Len(r) < j - Len(r) /\ heard[i] = o[i - Len(r)]
      BY <1>7, <1>10, <2>0, <2>2
    <3> QED BY <1>8, <2>2, <3>1 DEF Ordered, Ahead
  <2>3. CASE j = Len(r) + Len(o) + 1 /\ d = <<cast.update>> /\ heard[j] = cast.update
    <3>1. \/ i \in DOMAIN r /\ heard[i] = r[i]
          \/ i - Len(r) \in DOMAIN o /\ heard[i] = o[i - Len(r)]
      BY <1>7, <1>10, <2>0, <2>3
    <3> QED BY <1>9, <2>3, <3>1 DEF AheadOf
  <2> QED BY <1>7, <2>1, <2>2, <2>3
<1>11. ASSUME NEW i \in DOMAIN heard PROVE Current(says, greeted[c], heard[i])
  BY <1>7, <1>8, <1>9 DEF AllCurrent
<1>12. \A i \in DOMAIN heard : IsUpdate(heard[i])
  BY <1>7 DEF IsUpdate
<1> QED
  BY <1>10, <1>11, <1>12 DEF Before, Current, SaidBy, heard

(***************************************************************************)
(* With any number of sessions publishing at once, every client that is    *)
(* connected is sent the statuses of each session in the order the session *)
(* made them, and none the session had left behind at the greeting.        *)
(***************************************************************************)
THEOREM InSessionCorrect == PresenceSpec => []InSessionOrder
<1>1. PresenceSpec => []RegistryInv
  BY PresenceRefinesBroadcast, RegistryHolds, PTL
<1>2. RegistryInv /\ OrderInv /\ [PresenceNext]_presenceVars => OrderInv'
  BY OrderStep
<1>3. RegistryInv /\ OrderInv => InSessionOrder
  BY OrderIsInSession DEF InSessionOrder
<1> QED BY <1>1, <1>2, <1>3, OrderInit, PTL DEF PresenceSpec
=============================================================================
