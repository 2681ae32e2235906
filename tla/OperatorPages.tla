----------------------------- MODULE OperatorPages -----------------------------
(***************************************************************************)
(* The dashboard's Overview, Health, Mismatches and Verification pages,    *)
(* open in several browser tabs, and the replay of exhausted deliveries.   *)
(*                                                                         *)
(* A page loads once, when it is mounted: its reads are sent together and  *)
(* answered at different instants, and it shows them when the last one is  *)
(* there (Promise.all) or, as soon as one fails, nothing.  Only the reads  *)
(* that a headline or a button depends on are listed; the others delay a   *)
(* load or fail it, which it may do at any time here anyway.  A replay is  *)
(* a POST whose effect remains when its answer is lost or its page gone.   *)
(*                                                                         *)
(* The outbox is moved by the delivery worker (module Delivery); the other *)
(* counters move freely.                                                   *)
(***************************************************************************)
EXTENDS Integers, FiniteSets

CONSTANTS
    Rows,       \* outbox rows
    Tabs,       \* browser tabs
    Landing,    \* the page each tab is opened on
    MaxVisits,  \* bound: pages mounted
    MaxClicks,  \* bound: replays clicked
    MaxMoves,   \* bound: outcomes of the worker, changes of the counters
    MaxFaults,  \* bound: counting queries that fail and read as zero
    NoTab

ASSUME ConstantsOK ==
    /\ IsFiniteSet(Rows) /\ IsFiniteSet(Tabs) /\ NoTab \notin Tabs
    /\ Landing \in [Tabs -> {"overview", "health", "mismatches", "verification"}]
    /\ {MaxVisits, MaxClicks, MaxMoves, MaxFaults} \subseteq Nat

VARIABLES
    outbox,     \* outbox.status
    busy,       \* twenty holds or more are PENDING or VERIFYING
    rejecting,  \* more than five webhooks were rejected in the last hour
    moves,      \* outcomes of the worker and changes of the counters so far
    faults,     \* counting queries failed so far
    view,       \* per tab: the page mounted and its state
    posts,      \* replays in flight, NoTab once their page is gone
    clicks,     \* replays clicked so far; numbers the posts
    visits,     \* pages mounted so far
    exhaustions,\* history: how often a row was exhausted
    requeued    \* history: how often a row was replayed

counters == <<busy, rejecting>>
tabs     == <<view, posts, clicks, visits>>
vars     == <<outbox, counters, moves, faults, tabs, exhaustions, requeued>>

Pages == {"overview", "health", "mismatches", "verification"}

(* What a page reads when it is mounted. *)
Reads(page) ==
    CASE page = "overview" -> {"stats"}
      [] page = "health"   -> {"stats", "deliveryStats", "deliveries"}
      [] OTHER             -> {}

Stats   == [exhausted : BOOLEAN, busy : BOOLEAN, rejecting : BOOLEAN]
Unread  == [sort |-> "unread"]
Counted(s) == [sort |-> "counted", stats |-> s]
Listed(rs) == [sort |-> "listed", rows |-> rs]
Answers == {Unread} \cup {Counted(s) : s \in Stats} \cup {Listed(rs) : rs \in SUBSET Rows}

Exhausted == {r \in Rows : outbox[r] = "exhausted"}

(* A page just mounted.  "calm" and "still" are history: no row was exhausted at
   some instant since, and the outbox has not moved since. *)
Mounted(page) ==
    [page |-> page, loading |-> page # "verification", failed |-> FALSE, fault |-> FALSE,
     read |-> [n \in Reads(page) |-> Unread], button |-> [r \in Rows |-> "idle"],
     running |-> FALSE, report |-> FALSE, calm |-> Exhausted = {}, still |-> TRUE]

-------------------------------------------------------------------------------
(* The server between the requests.                                        *)

(* Every tab remembers whether it has seen an outbox without exhausted rows. *)
SetOutbox(r, st) ==
    /\ outbox' = [outbox EXCEPT ![r] = st]
    /\ view' = [t \in Tabs |->
         [view[t] EXCEPT !.calm = @ \/ {q \in Rows : outbox'[q] = "exhausted"} = {},
                         !.still = FALSE]]

(* The worker delivers a pending row or gives it up. *)
DeliverOrExhaust(r) ==
    /\ moves < MaxMoves /\ moves' = moves + 1
    /\ outbox[r] = "pending"
    /\ \/ SetOutbox(r, "delivered") /\ UNCHANGED exhaustions
       \/ /\ SetOutbox(r, "exhausted")
          /\ exhaustions' = [exhaustions EXCEPT ![r] = @ + 1]
    /\ UNCHANGED <<counters, faults, posts, clicks, visits, requeued>>

(* Holds are opened and resolved, webhooks rejected and forgotten. *)
Traffic ==
    /\ moves < MaxMoves /\ moves' = moves + 1
    /\ \/ busy' = ~busy /\ UNCHANGED rejecting
       \/ rejecting' = ~rejecting /\ UNCHANGED busy
    /\ UNCHANGED <<outbox, faults, tabs, exhaustions, requeued>>

-------------------------------------------------------------------------------
(* Mounting and loading a page.                                            *)

(* Wrong: the state of the page that is left is kept. *)
VisitKeepsAnswers(t, page) ==
    /\ visits < MaxVisits /\ visits' = visits + 1
    /\ page # view[t].page
    /\ view' = [view EXCEPT ![t].page = page, ![t].loading = TRUE]
    /\ posts' = {IF p.tab = t THEN [p EXCEPT !.tab = NoTab] ELSE p : p \in posts}
    /\ UNCHANGED <<outbox, counters, moves, faults, clicks, exhaustions, requeued>>

(* The answers still to come to the page that is left are dropped; what its
   POSTs do on the server remains to be done. *)
Visit(t, page) ==
    /\ visits < MaxVisits /\ visits' = visits + 1
    /\ page # view[t].page
    /\ view' = [view EXCEPT ![t] = Mounted(page)]
    /\ posts' = {IF p.tab = t THEN [p EXCEPT !.tab = NoTab] ELSE p : p \in posts}
    /\ UNCHANGED <<outbox, counters, moves, faults, clicks, exhaustions, requeued>>

Zeros == [exhausted |-> FALSE, busy |-> FALSE, rejecting |-> FALSE]

(* Wrong: the list takes every row that is not delivered, the count does not. *)
AnswerListsPending(n) ==
    CASE n = "stats" -> Counted([exhausted |-> Exhausted # {}, busy |-> busy,
                                 rejecting |-> rejecting])
      [] n = "deliveryStats" -> Counted([Zeros EXCEPT !.exhausted = (Exhausted # {})])
      [] n = "deliveries" -> Listed({r \in Rows : outbox[r] # "delivered"})

(* GET /overview/stats, /deliveries/stats and /deliveries. *)
Answer(n) ==
    CASE n = "stats" -> Counted([exhausted |-> Exhausted # {}, busy |-> busy,
                                 rejecting |-> rejecting])
      [] n = "deliveryStats" -> Counted([Zeros EXCEPT !.exhausted = (Exhausted # {})])
      [] n = "deliveries" -> Listed(Exhausted)

(* Promise.all is settled once, by the last answer or the first error. *)
Pending(t) == view[t].loading /\ ~view[t].failed

(* An answer is computed at an instant of its own.  The counts are read without
   looking at the error: a query that fails counts zero. *)
AnswerRead(t, n) ==
    /\ Pending(t) /\ view[t].read[n] = Unread
    /\ \/ view' = [view EXCEPT ![t].read[n] = Answer(n)] /\ UNCHANGED faults
       \/ /\ n # "deliveries"
          /\ faults < MaxFaults /\ faults' = faults + 1
          /\ view' = [view EXCEPT ![t].fault = TRUE, ![t].read[n] = Counted(Zeros)]
    /\ UNCHANGED <<outbox, counters, moves, posts, clicks, visits, exhaustions, requeued>>

LoadDone(t) ==
    /\ Pending(t)
    /\ \A n \in Reads(view[t].page) : view[t].read[n] # Unread
    /\ view' = [view EXCEPT ![t].loading = FALSE]
    /\ UNCHANGED <<outbox, counters, moves, faults, posts, clicks, visits,
                   exhaustions, requeued>>

(* Wrong: loading is reset with the answers only. *)
FailureKeepsLoading(t) ==
    /\ Pending(t)
    /\ view' = [view EXCEPT ![t].failed = TRUE]
    /\ UNCHANGED <<outbox, counters, moves, faults, posts, clicks, visits,
                   exhaustions, requeued>>

(* None of the answers is shown.  Only Mismatches catches the error. *)
LoadFailed(t) ==
    /\ Pending(t)
    /\ view' = [view EXCEPT ![t].loading = FALSE, ![t].failed = TRUE,
                            ![t].read = [n \in Reads(view[t].page) |-> Unread]]
    /\ UNCHANGED <<outbox, counters, moves, faults, posts, clicks, visits,
                   exhaustions, requeued>>

-------------------------------------------------------------------------------
(* What the pages say.  A number that was not loaded counts as zero.       *)

Number(t, n, c) == view[t].read[n] # Unread /\ view[t].read[n].stats[c]

exhaustedCount(t) == Number(t, "deliveryStats", "exhausted")

(* Wrong: one good number is enough. *)
AnyGood(t) == ~exhaustedCount(t) \/ ~Number(t, "stats", "busy")

allGood(t) == ~exhaustedCount(t) /\ ~Number(t, "stats", "busy")

(* Health: "Everything looks normal." *)
SaysNormal(t) == view[t].page = "health" /\ ~view[t].loading /\ allGood(t)

isDegraded(t) == Number(t, "stats", "exhausted") \/ Number(t, "stats", "rejecting")

(* Overview: "All systems operational." *)
SaysOperational(t) == view[t].page = "overview" /\ ~view[t].loading /\ ~isDegraded(t)

(* The rows of Health's table, which is there only if the count is not zero. *)
TableRows(t) ==
    IF view[t].page = "health" /\ ~view[t].loading /\ exhaustedCount(t)
    THEN view[t].read["deliveries"].rows ELSE {}

-------------------------------------------------------------------------------
(* Replaying a delivery.                                                   *)

SetButton(t, r, st) == view' = [view EXCEPT ![t].button[r] = st]

(* The button is disabled while it is loading; after a success the row says
   "Replaying" for good. *)
handleClick(t, r) ==
    /\ r \in TableRows(t) /\ view[t].button[r] = "idle"
    /\ clicks < MaxClicks /\ clicks' = clicks + 1
    /\ SetButton(t, r, "loading")
    /\ posts' = posts \cup {[id |-> clicks + 1, tab |-> t, row |-> r, at |-> "sent"]}
    /\ UNCHANGED <<outbox, counters, moves, faults, visits, exhaustions, requeued>>

(* Wrong: the statement does not look at the status. *)
ReplayAnyStatus(p) ==
    /\ p.at = "sent"
    /\ SetOutbox(p.row, "pending")
    /\ requeued' = [requeued EXCEPT ![p.row] = @ + 1]
    /\ posts' = (posts \ {p}) \cup {[p EXCEPT !.at = "ok"]}
    /\ UNCHANGED <<counters, moves, faults, clicks, visits, exhaustions>>

(* UPDATE outbox ... WHERE status = 'exhausted': no row affected is a 404. *)
replayDelivery(p) ==
    /\ p.at = "sent"
    /\ IF outbox[p.row] = "exhausted"
       THEN /\ SetOutbox(p.row, "pending")
            /\ requeued' = [requeued EXCEPT ![p.row] = @ + 1]
            /\ posts' = (posts \ {p}) \cup {[p EXCEPT !.at = "ok"]}
       ELSE /\ posts' = (posts \ {p}) \cup {[p EXCEPT !.at = "refused"]}
            /\ UNCHANGED <<outbox, view, requeued>>
    /\ UNCHANGED <<counters, moves, faults, clicks, visits, exhaustions>>

(* The answer, or its loss, reaches the button that asked, if it is still there.
   A lost answer says nothing of what the server did. *)
Settle(p, st) ==
    /\ posts' = posts \ {p}
    /\ IF p.tab = NoTab THEN UNCHANGED view ELSE SetButton(p.tab, p.row, st)
    /\ UNCHANGED <<outbox, counters, moves, faults, clicks, visits, exhaustions, requeued>>

(* Wrong: post() does not look at res.ok. *)
AnyAnswerIsSuccess(p) == p.at # "sent" /\ Settle(p, "success")

ReplayAnswered(p) ==
    \/ p.at = "ok" /\ Settle(p, "success")
    \/ p.at = "refused" /\ Settle(p, "error")

ReplayLost(p) == Settle(p, "error")

(* "Failed" is shown for three seconds. *)
ButtonTimer(t, r) ==
    /\ view[t].button[r] = "error"
    /\ SetButton(t, r, "idle")
    /\ UNCHANGED <<outbox, counters, moves, faults, posts, clicks, visits,
                   exhaustions, requeued>>

-------------------------------------------------------------------------------
(* Verification: one run of the lab per click.                             *)

runDemo(t) ==
    /\ view[t].page = "verification" /\ ~view[t].running
    /\ view' = [view EXCEPT ![t].running = TRUE, ![t].failed = FALSE]
    /\ UNCHANGED <<outbox, counters, moves, faults, posts, clicks, visits,
                   exhaustions, requeued>>

(* A failed run leaves the report of an earlier one on the page. *)
DemoEnds(t) ==
    /\ view[t].running
    /\ \/ view' = [view EXCEPT ![t].running = FALSE, ![t].report = TRUE]
       \/ view' = [view EXCEPT ![t].running = FALSE, ![t].failed = TRUE]
    /\ UNCHANGED <<outbox, counters, moves, faults, posts, clicks, visits,
                   exhaustions, requeued>>

-------------------------------------------------------------------------------

(* A tab is opened on a page of its URL; without one the index route redirects
   to the Overview. *)
Init ==
    /\ outbox \in [Rows -> {"pending", "exhausted"}]
    /\ busy = FALSE /\ rejecting = FALSE
    /\ moves = 0 /\ faults = 0 /\ posts = {} /\ clicks = 0 /\ visits = 0
    /\ view = [t \in Tabs |-> Mounted(Landing[t])]
    /\ exhaustions = [r \in Rows |-> IF outbox[r] = "exhausted" THEN 1 ELSE 0]
    /\ requeued = [r \in Rows |-> 0]

Load(t) ==
    \/ \E n \in Reads(view[t].page) : AnswerRead(t, n)
    \/ LoadDone(t) \/ LoadFailed(t)

Next ==
    \/ \E r \in Rows : DeliverOrExhaust(r)
    \/ Traffic
    \/ \E p \in posts : replayDelivery(p) \/ ReplayAnswered(p) \/ ReplayLost(p)
    \/ \E t \in Tabs :
         \/ Load(t)
         \/ \E page \in Pages : Visit(t, page)
         \/ \E r \in Rows : handleClick(t, r) \/ ButtonTimer(t, r)
         \/ runDemo(t) \/ DemoEnds(t)

(* The reads and the demonstration of every tab end, with an answer or an error. *)
Fairness == \A t \in Tabs : WF_vars(Load(t)) /\ WF_vars(DemoEnds(t))

Spec == Init /\ [][Next]_vars /\ Fairness

-------------------------------------------------------------------------------
(* Properties.                                                             *)

Post == [id : 1..MaxClicks, tab : Tabs \cup {NoTab}, row : Rows,
         at : {"sent", "ok", "refused"}]

View == [page : Pages, loading : BOOLEAN, failed : BOOLEAN, fault : BOOLEAN,
         read : UNION {[Reads(page) -> Answers] : page \in Pages},
         button : [Rows -> {"idle", "loading", "success", "error"}],
         running : BOOLEAN, report : BOOLEAN, calm : BOOLEAN, still : BOOLEAN]

(* Every variable has its type, and a page holds the answers of its own reads. *)
TypeOK ==
    /\ outbox \in [Rows -> {"pending", "delivered", "exhausted"}]
    /\ busy \in BOOLEAN /\ rejecting \in BOOLEAN
    /\ {moves, faults, clicks, visits} \subseteq Nat
    /\ view \in [Tabs -> View]
    /\ \A t \in Tabs : DOMAIN view[t].read = Reads(view[t].page)
    /\ posts \subseteq Post
    /\ exhaustions \in [Rows -> Nat] /\ requeued \in [Rows -> Nat]

(* A callback is queued again at most once for each time it was given up, however
   many tabs and clicks ask for it. *)
OneReplayPerExhaustion == \A r \in Rows : requeued[r] <= exhaustions[r]

(* Every "Replaying" on a screen stands for a requeue of its own: the tab that
   came second is told that it failed. *)
QueuedMeansRequeued ==
    \A r \in Rows :
      Cardinality({t \in Tabs : view[t].button[r] = "success"}) <= requeued[r]

(* A page that loaded and says that all is well was right at some instant since it
   was mounted: no delivery was exhausted then.  It goes wrong when a counting query
   fails on the server, and after a failed load, when Overview and Health say so
   without any number. *)
AllClearWasTrue ==
    \A t \in Tabs :
      (SaysNormal(t) \/ SaysOperational(t)) /\ ~view[t].failed /\ ~view[t].fault
        => view[t].calm

(* If the outbox stood still since Health was mounted, its headline sends the
   operator to a table that is not empty and hides none that has rows: the count
   and the list, read separately, mean the same deliveries. *)
HeadlineMatchesTable ==
    \A t \in Tabs :
      view[t].page = "health" /\ ~view[t].loading /\ ~view[t].failed
        /\ ~view[t].fault /\ view[t].still
        => (exhaustedCount(t) <=> view[t].read["deliveries"].rows # {})

(* The placeholder of a loading page and the mark of a running demonstration go away,
   whatever fails. *)
PagesSettle ==
    \A t \in Tabs : /\ view[t].loading ~> ~view[t].loading
                    /\ view[t].running ~> ~view[t].running
===============================================================================
