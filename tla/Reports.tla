------------------------------ MODULE Reports -------------------------------
(***************************************************************************)
(* The WebSocket requests that read the tables in more than one statement: *)
(* get_statistics and get_session_counts.  They run on the threads of the  *)
(* connections, next to the event loop and the requests of Store, and like *)
(* those open no transaction.  A request remembers what the tables held    *)
(* when it came in (was), which no handler does: the promises are about    *)
(* what happened since.                                                    *)
(***************************************************************************)
EXTENDS Store

CONSTANTS
    Readers,     \* connections that make these requests
    ReadErrors,  \* TRUE where any statement of a request may fail
    Week,        \* days of the week window (7 in the code)
    Month        \* days of the month window (30 in the code)

ASSUME WindowsAssumption ==
    ReadErrors \in BOOLEAN /\ Week \in Nat /\ Month \in Nat /\ Week <= Month

VARIABLE req     \* requests: kind, next step, locals, and the ghost was

allVars == <<vars, req>>

Nothing == [apps |-> << >>, timeline |-> << >>]
Resting == [at |-> "idle", kind |-> "none", todo |-> {}, rows |-> << >>,
            out |-> {}, was |-> Nothing]

ReportInit == Init /\ req = [r \in Readers |-> Resting]

Is(r, at) == req[r].at = at
Set(r, locals) == req' = [req EXCEPT ![r] = locals]
Answer(r) == Set(r, Resting)

\* Once the todo list is empty the reply is complete.
After(r, todo, at) == IF todo = {} THEN "reply" ELSE at

\* The dispatch of a command by its type.
Ask(r, kind) ==
    /\ Is(r, "idle")
    /\ Set(r, [Resting EXCEPT !.at = "apps", !.kind = kind,
                              !.was = [apps |-> apps, timeline |-> timeline]])
    /\ UNCHANGED vars

\* The rows of apps that a request goes through one by one.
Listed == {[id |-> i, name |-> apps[i].name, total |-> apps[i].duration] : i \in DOMAIN apps}

ReadApps(r) ==
    /\ Is(r, "apps")
    /\ Set(r, [req[r] EXCEPT !.todo = Listed,
                             !.at = After(r, Listed, IF req[r].kind = "counts"
                                                     THEN "counts" ELSE "rows")])
    /\ UNCHANGED vars

\* get_statistics takes the apps by ascending id.
First(r) == CHOOSE e \in req[r].todo : \A f \in req[r].todo : e.id <= f.id

Since(rows, from) == {t \in DOMAIN rows : rows[t].day >= from}
Back(d, span) == IF d > span THEN d - span ELSE 0

\* Mutant: the rows of the last week only.
RowsOfWeek(name) ==
    Restrict(timeline, {t \in Since(timeline, Back(day, Week)) :
                           apps[timeline[t].app].name = name})

\* get_timeline_data: joined to the apps by name, cut off at today's date.
RowsOf(name) ==
    Restrict(timeline, {t \in Since(timeline, Back(day, Month)) :
                           apps[timeline[t].app].name = name})

ReadRows(r) ==
    /\ Is(r, "rows")
    /\ Set(r, [req[r] EXCEPT !.at = "windows", !.rows = RowsOf(First(r).name)])
    /\ UNCHANGED vars

Minutes(rows, ts) == SumFunctionOnSet(MinutesColumn(rows), ts)

\* calculate_duration_statistics reads the date again.
Statistics(e, rows) ==
    [id |-> e.id, total |-> e.total, day |-> day,
     today |-> Minutes(rows, {t \in DOMAIN rows : rows[t].day = day}),
     week  |-> Minutes(rows, Since(rows, Back(day, Week))),
     month |-> Minutes(rows, Since(rows, Back(day, Month)))]

NextApp(r, out) ==
    LET left == req[r].todo \ {First(r)} IN
        Set(r, [req[r] EXCEPT !.todo = left, !.rows = << >>, !.out = @ \cup out,
                              !.at = After(r, left, "rows")])

Calculate(r) ==
    /\ Is(r, "windows")
    /\ NextApp(r, {Statistics(First(r), req[r].rows)})
    /\ UNCHANGED vars

\* An app whose rows cannot be read is left out of the statistics.
SkipApp(r) ==
    /\ ReadErrors
    /\ Is(r, "rows")
    /\ NextApp(r, {})
    /\ UNCHANGED vars

\* get_session_counts counts for all apps at once, in any order.
CountRows(r) ==
    /\ Is(r, "counts")
    /\ \E e \in req[r].todo :
          LET left == req[r].todo \ {e}
              n == Cardinality({t \in DOMAIN timeline : timeline[t].app = e.id})
          IN  Set(r, [req[r] EXCEPT !.todo = left, !.out = @ \cup {[id |-> e.id, count |-> n]},
                                    !.at = After(r, left, "counts")])
    /\ UNCHANGED vars

\* Mutant: an app that cannot be counted is left out, as in the statistics.
ReadFailsOnward(r) ==
    /\ ReadErrors
    /\ Is(r, "counts")
    /\ \E e \in req[r].todo :
          Set(r, [req[r] EXCEPT !.todo = @ \ {e}, !.at = After(r, req[r].todo \ {e}, "counts")])
    /\ UNCHANGED vars

\* One count that fails is the error of the whole request; so is the app list.
ReadFails(r) ==
    /\ ReadErrors
    /\ req[r].at \in {"apps", "counts"}
    /\ Answer(r)
    /\ UNCHANGED vars

Respond(r) ==
    /\ Is(r, "reply")
    /\ Answer(r)
    /\ UNCHANGED vars

Request(r) ==
    \/ \E kind \in {"statistics", "counts"} : Ask(r, kind)
    \/ ReadApps(r) \/ ReadRows(r) \/ Calculate(r) \/ SkipApp(r)
    \/ CountRows(r) \/ ReadFails(r)
    \/ Respond(r)

\* The requests die with the daemon.
ReportNext ==
    \/ Work /\ UNCHANGED req
    \/ Crash /\ req' = [r \in Readers |-> Resting]
    \/ \E r \in Readers : Request(r)

ReportSpec == ReportInit /\ [][ReportNext]_allVars

-----------------------------------------------------------------------------
Replied(r, kind) == Is(r, "reply") /\ req[r].kind = kind
OfApp(rows, i) == Restrict(rows, {t \in DOMAIN rows : rows[t].app = i})

(***************************************************************************)
(* What get_statistics says of an app lies between what the tables held    *)
(* when the request came in and what they hold when it is answered: the    *)
(* duration, and the minutes of each window as of the date the reply is    *)
(* calculated for.  It reads the date twice, the rows app by app, and the  *)
(* event loop writes in between (calculate_app_statistics).  Nobody        *)
(* deletes here, and names are registered once.                            *)
(***************************************************************************)
StatisticsBetween ==
    \A r \in Readers : Replied(r, "statistics") => \A s \in req[r].out :
        LET then == OfApp(req[r].was.timeline, s.id)
            now  == OfApp(timeline, s.id)
            Between(n, from) == /\ Minutes(then, Since(then, from)) <= n
                                /\ n <= Minutes(now, Since(now, from))
        IN  /\ s.id \in DOMAIN req[r].was.apps =>
                  req[r].was.apps[s.id].duration <= s.total
            /\ s.total <= apps[s.id].duration
            /\ Between(s.week, Back(s.day, Week)) /\ Between(s.month, Back(s.day, Month))
            /\ Between(s.today, s.day)

(***************************************************************************)
(* A session count reply has every app that was registered when the        *)
(* request came in, with a count between the one of then and the one of    *)
(* now, in whatever order the counts ran and failed (try_join_all of       *)
(* handle_get_session_counts).                                             *)
(***************************************************************************)
CountsBetween ==
    \A r \in Readers : Replied(r, "counts") =>
        /\ DOMAIN req[r].was.apps \subseteq {s.id : s \in req[r].out}
        /\ \A s \in req[r].out :
              /\ Cardinality(DOMAIN OfApp(req[r].was.timeline, s.id)) <= s.count
              /\ s.count <= Cardinality(DOMAIN OfApp(timeline, s.id))

=============================================================================
