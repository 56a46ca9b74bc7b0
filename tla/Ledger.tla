------------------------------- MODULE Ledger -------------------------------
(***************************************************************************)
(* What the event loop promises: the events are applied to the books one   *)
(* at a time, whole and in the order they were sent, each to the app that  *)
(* carries its name then, and an event for a name nobody registered is     *)
(* dropped.  A crash loses the events not applied and no other.            *)
(***************************************************************************)
EXTENDS Naturals, Sequences

CONSTANTS Names, Lengths

VARIABLES
    pending,   \* events sent and not yet applied
    book,      \* the account of each registered name
    crashes    \* times the daemon has died

ledger == <<pending, book, crashes>>

Kinds == {"Launches", "Duration", "Timeline", "LongestSession"}
Event == [kind : Kinds \ {"LongestSession"}, name : Names, n : {0}]
            \cup [kind : {"LongestSession"}, name : Names, n : Lengths]
Opened == [duration |-> 0, launches |-> 0, longest |-> 0, minutes |-> 0]

Init == pending = << >> /\ book = << >> /\ crashes = 0

Emit ==
    /\ \E e \in Event : pending' = Append(pending, e)
    /\ UNCHANGED <<book, crashes>>

Register ==
    /\ \E n \in Names \ DOMAIN book :
          book' = [m \in DOMAIN book \cup {n} |-> IF m = n THEN Opened ELSE book[m]]
    /\ UNCHANGED <<pending, crashes>>

Account(page, e) ==
    [page EXCEPT !.duration = IF e.kind = "Duration" THEN @ + 1 ELSE @,
                 !.launches = IF e.kind = "Launches" THEN @ + 1 ELSE @,
                 !.minutes  = IF e.kind = "Timeline" THEN @ + 1 ELSE @,
                 !.longest  = IF e.n > @ THEN e.n ELSE @]

Settle ==
    /\ pending # << >>
    /\ pending' = Tail(pending)
    /\ LET e == Head(pending) IN
          book' = IF e.name \in DOMAIN book
                  THEN [book EXCEPT ![e.name] = Account(@, e)]
                  ELSE book
    /\ UNCHANGED crashes

Crash ==
    /\ crashes' = crashes + 1
    /\ pending' = << >>
    /\ UNCHANGED book

Next == Emit \/ Register \/ Settle \/ Crash

Safety == Init /\ [][Next]_ledger
Progress == WF_ledger(Settle)
=============================================================================
