--------------------------- MODULE TransactionsPage ---------------------------
(***************************************************************************)
(* The dashboard's Transactions page over the admin API: search the holds, *)
(* filter and page through them, open one in the timeline drawer.          *)
(*                                                                         *)
(* Every fetch is a record with a stage: the server answers it with        *)
(* several queries outside any transaction, one per step, and the browser  *)
(* applies the answer later, in any order.  A page that is left drops the  *)
(* answers still to come.  The database moves by itself meanwhile: it is   *)
(* written by what the module Stabilizer models, of which only what this   *)
(* page reads is kept.                                                     *)
(***************************************************************************)
EXTENDS Integers, Sequences, FiniteSets

CONSTANTS
    Newest,       \* the holds, ORDER BY created_at DESC
    OldHolds,     \* holds confirmed before the page is opened
    Matching,     \* search text -> the holds whose txn_id or gateway contains it
    NoText,       \* the empty search text
    Outcomes,     \* the terminal statuses that verifications reach meanwhile
    Filters,      \* the status chips used: "all" and some statuses
    PageSize,     \* limit (25)
    MaxRequests,  \* bound: fetches sent
    MaxChanges,   \* bound: steps of the database
    MaxTimers,    \* bound: timers of the block of the raw webhook
    NoTxn

Txns     == {Newest[i] : i \in 1..Len(Newest)}
Queries  == DOMAIN Matching
Terminal == {"CONFIRMED", "FAILED", "INDETERMINATE"}
Statuses == Terminal \cup {"VERIFYING"}
Claims   == {"fail", "success"}

ASSUME ConstantsOK ==
    /\ Newest \in Seq(Txns) /\ NoTxn \notin Txns /\ OldHolds \subseteq Txns
    /\ Matching \in [Queries -> SUBSET Txns]
    /\ NoText \in Queries /\ Matching[NoText] = Txns
    /\ Outcomes \subseteq Terminal
    /\ Filters \subseteq {"all"} \cup Statuses /\ "all" \in Filters
    /\ PageSize \in Nat \ {0} /\ MaxRequests \in Nat /\ MaxChanges \in Nat
    /\ MaxTimers \in Nat

VARIABLES
    db,         \* per hold: status, webhooks in order of arrival, the status its
                \* ledger row names
    changes,    \* steps of the database so far
    sent,       \* fetches sent so far; numbers them
    searches,   \* searches in flight
    details,    \* transaction details in flight
    ui,         \* the controls of the page, NotMounted when another page is shown
    table,      \* transactions and total as last set
    drawerOpen,
    selectedTxn,
    json,       \* the JsonBlock of the raw webhook: copied, running timers, whose payload
                \* is being copied; as history, whose was written by the copy that the
                \* mark stands for, NoTxn if it wrote nothing
    last,       \* history: the latest search; "stray": a page of what was not shown
    clicked,    \* history: the row clicked last
    crossed     \* history: it was clicked while an earlier detail was in flight

server   == <<db, changes>>
results  == <<searches, ui, table, last>>
drawer   == <<details, drawerOpen, selectedTxn, json, clicked, crossed>>
vars     == <<server, sent, results, drawer>>

NoDetail   == [txn |-> NoTxn]
NoSearch   == [id |-> 0, q |-> NoText, sf |-> "all", p |-> 1, stray |-> FALSE]
EmptyTable == [rows |-> <<>>, total |-> 0, from |-> 0]
FreshJson  == [copied |-> FALSE, timers |-> 0, copying |-> NoTxn, holds |-> NoTxn]
FreshPage  == [mounted |-> TRUE, query |-> NoText, statusFilter |-> "all", page |-> 1,
               submitted |-> FALSE, loading |-> FALSE, error |-> FALSE]
NotMounted == [FreshPage EXCEPT !.mounted = FALSE]

-------------------------------------------------------------------------------
(* The database: what other components commit while the page is open.      *)

Change == changes < MaxChanges /\ changes' = changes + 1

(* A terminal transition: hold and ledger row in one transaction. *)
Conclude(t) ==
    /\ Change
    /\ db[t].status = "VERIFYING"
    /\ \E st \in Outcomes :
         db' = [db EXCEPT ![t].status = st, ![t].ledger = st]
    /\ UNCHANGED <<sent, results, drawer>>

(* A webhook is stored.  Its event type names success or failure. *)
ReceiveWebhook(t) ==
    /\ Change
    /\ \E c \in Claims : db' = [db EXCEPT ![t].webhooks = Append(@, c)]
    /\ UNCHANGED <<sent, results, drawer>>

-------------------------------------------------------------------------------
(* GET /transactions.                                                      *)

Selects(q, sf, t) == t \in Matching[q] /\ (sf = "all" \/ db[t].status = sf)

(* The rows WHERE keeps, in the order of Newest. *)
Found(q, sf) ==
    LET kept[i \in 0..Len(Newest)] ==
          IF i = 0 THEN <<>>
          ELSE IF Selects(q, sf, Newest[i]) THEN Append(kept[i - 1], Newest[i])
          ELSE kept[i - 1]
    IN  kept[Len(Newest)]

(* Number p, counted from 1, of the pages of a sequence: LIMIT and OFFSET. *)
PageOf(s, p) == SubSeq(s, (p - 1) * PageSize + 1,
                       IF p * PageSize < Len(s) THEN p * PageSize ELSE Len(s))

(* SELECT count( * ): the total the page numbers are computed from.  A count that
   fails reads as zero, which takes the pager away and is left out. *)
CountHolds(s) ==
    /\ s.at = "sent"
    /\ searches' = (searches \ {s}) \cup
         {[s EXCEPT !.at = "counted", !.total = Len(Found(s.q, s.sf))]}
    /\ UNCHANGED <<server, sent, ui, table, last, drawer>>

(* The rows, by a second query: the total may be out of date already. *)
ReadHolds(s) ==
    /\ s.at = "counted"
    /\ LET page == PageOf(Found(s.q, s.sf), s.p)
           rows == [i \in 1..Len(page) |-> [txn |-> page[i], status |-> db[page[i]].status]]
       IN  searches' = (searches \ {s}) \cup {[s EXCEPT !.at = "read", !.rows = rows]}
    /\ UNCHANGED <<server, sent, ui, table, last, drawer>>

-------------------------------------------------------------------------------
(* Searching.                                                              *)

totalPages == (table.total + PageSize - 1) \div PageSize

TableShown == ui.submitted /\ ~ui.error /\ ~ui.loading /\ table.rows # <<>>

(* search(q, sf, p): the controls are set to what "set" gives them, then the
   fetch is sent.  Earlier searches stay in flight. *)
search(q, sf, p, set) ==
    /\ sent < MaxRequests
    /\ sent' = sent + 1
    /\ ui' = [set EXCEPT !.loading = TRUE, !.error = FALSE, !.submitted = TRUE]
    /\ searches' = searches \cup {[id |-> sent + 1, q |-> q, sf |-> sf, p |-> p,
                                   at |-> "sent", total |-> 0, rows |-> <<>>]}
    /\ last' = [id |-> sent + 1, q |-> q, sf |-> sf, p |-> p,
                stray |-> p > 1 /\ (q # last.q \/ table.from # last.id)]
    /\ UNCHANGED <<server, table, drawer>>

(* Typing only changes the text; nothing is searched before Enter. *)
Type(q) ==
    /\ ui.mounted /\ q # ui.query
    /\ ui' = [ui EXCEPT !.query = q]
    /\ UNCHANGED <<server, sent, searches, table, last, drawer>>

handleKeyDown ==
    /\ ui.mounted
    /\ search(ui.query, ui.statusFilter, 1, [ui EXCEPT !.page = 1])

(* Wrong: the search still takes the filter of the render the click came from. *)
FilterFromState(sf) ==
    /\ ui.mounted /\ ui.submitted
    /\ search(ui.query, ui.statusFilter, 1, [ui EXCEPT !.statusFilter = sf, !.page = 1])

(* Wrong: the page number outlives the filter it counted pages of. *)
FilterKeepsPage(sf) ==
    /\ ui.mounted /\ ui.submitted
    /\ search(ui.query, sf, ui.page, [ui EXCEPT !.statusFilter = sf])

(* The chips are rendered once something was searched.  The typed text is
   used, submitted or not. *)
handleFilterClick(sf) ==
    /\ ui.mounted /\ ui.submitted
    /\ search(ui.query, sf, 1, [ui EXCEPT !.statusFilter = sf, !.page = 1])

(* Wrong: Previous is not disabled on the first page. *)
PageUnbounded(p) ==
    /\ ui.mounted /\ TableShown /\ totalPages > 1
    /\ p = ui.page - 1 \/ ui.page < totalPages
    /\ search(ui.query, ui.statusFilter, p, [ui EXCEPT !.page = p])

(* Previous and Next also take the typed text. *)
handlePage(p) ==
    /\ ui.mounted /\ TableShown /\ totalPages > 1
    /\ \/ p = ui.page - 1 /\ ui.page > 1
       \/ p = ui.page + 1 /\ ui.page < totalPages
    /\ search(ui.query, ui.statusFilter, p, [ui EXCEPT !.page = p])

(* The answer of a search, whichever search was sent last. *)
SearchAnswered(s) ==
    /\ s.at = "read"
    /\ searches' = searches \ {s}
    /\ table' = [rows |-> s.rows, total |-> s.total, from |-> s.id]
    /\ ui' = [ui EXCEPT !.loading = FALSE]
    /\ UNCHANGED <<server, sent, last, drawer>>

(* Wrong: loading is reset after the answer instead of in "finally". *)
FailureKeepsLoading(s) ==
    /\ searches' = searches \ {s}
    /\ ui' = [ui EXCEPT !.error = TRUE]
    /\ UNCHANGED <<server, sent, table, last, drawer>>

(* A network error, or an answer that is not 2xx: the rows stay behind the
   error. *)
SearchFailed(s) ==
    /\ searches' = searches \ {s}
    /\ ui' = [ui EXCEPT !.loading = FALSE, !.error = TRUE]
    /\ UNCHANGED <<server, sent, table, last, drawer>>

-------------------------------------------------------------------------------
(* The drawer.                                                             *)

(* Wrong: the hold is read after its timeline. *)
TimelineFirst == <<"webhooks", "ledger", "payload", "status">>

(* GET /transactions/{id} reads the hold first, then what its timeline is
   built from, each with a query of its own; polls, rejected webhooks and callbacks,
   which explain no status, are left out. *)
ReadOrder == <<"status", "webhooks", "ledger", "payload">>

(* The latest payload is there as soon as a webhook is. *)
Column(t, c) == IF c = "payload" THEN db[t].webhooks # <<>> ELSE db[t][c]

(* What is left of it when its query fails, which the answer does not tell: nothing,
   or the webhooks read before the rows broke off. *)
Cut(t, c) ==
    CASE c = "webhooks" -> {SubSeq(db[t].webhooks, 1, n) : n \in 0..Len(db[t].webhooks)}
      [] c = "ledger"  -> {"none"}
      [] c = "payload" -> {FALSE}
      [] c = "status"  -> {}

(* "lost", as history: the hold had a ledger row, and its query failed. *)
Unread == [status |-> "VERIFYING", webhooks |-> <<>>, ledger |-> "none", payload |-> FALSE,
           lost |-> FALSE]

(* Wrong: the block stays mounted when no transaction is shown. *)
ShowKeepsBlock(d) == selectedTxn' = d /\ UNCHANGED json

(* The JsonBlock of the raw webhook is rendered only for a transaction that
   has one, and keeps its state as long as it is. *)
ShowDetail(d) ==
    /\ selectedTxn' = d
    /\ json' = IF d # NoDetail /\ d.seen.payload
                  /\ selectedTxn # NoDetail /\ selectedTxn.seen.payload
               THEN json ELSE FreshJson

(* Wrong: the drawer is not emptied before the fetch. *)
RowClickKeepsDetail(t) ==
    /\ ui.mounted /\ TableShown /\ ~drawerOpen
    /\ \E i \in 1..Len(table.rows) : table.rows[i].txn = t
    /\ sent < MaxRequests
    /\ sent' = sent + 1
    /\ drawerOpen' = TRUE
    /\ details' = details \cup {[id |-> sent + 1, txn |-> t, at |-> 0, seen |-> Unread]}
    /\ clicked' = t
    /\ crossed' = (details # {})
    /\ UNCHANGED <<server, results, selectedTxn, json>>

(* A row is clicked: the overlay of an open drawer covers the rows. *)
handleRowClick(t) ==
    /\ ui.mounted /\ TableShown /\ ~drawerOpen
    /\ \E i \in 1..Len(table.rows) : table.rows[i].txn = t
    /\ sent < MaxRequests
    /\ sent' = sent + 1
    /\ drawerOpen' = TRUE
    /\ ShowDetail(NoDetail)
    /\ details' = details \cup {[id |-> sent + 1, txn |-> t, at |-> 0, seen |-> Unread]}
    /\ clicked' = t
    /\ crossed' = (details # {})
    /\ UNCHANGED <<server, results>>

Heard(d, c, v) ==
    LET read == [d.seen EXCEPT ![c] = v]
    IN  [read EXCEPT !.lost = d.seen.lost \/ (c = "ledger" /\ v # db[d.txn].ledger)]

(* Only the hold's own query fails the fetch: the others swallow their errors. *)
ReadDetail(d) ==
    /\ d.at < Len(ReadOrder)
    /\ LET c == ReadOrder[d.at + 1]
       IN  \E v \in {Column(d.txn, c)} \cup Cut(d.txn, c) :
             details' = (details \ {d}) \cup
                          {[d EXCEPT !.at = @ + 1, !.seen = Heard(d, c, v)]}
    /\ UNCHANGED <<server, sent, results, drawerOpen, selectedTxn, json, clicked, crossed>>

(* The answer is shown whatever was clicked or closed meanwhile. *)
DetailAnswered(d) ==
    /\ d.at = Len(ReadOrder)
    /\ details' = details \ {d}
    /\ ShowDetail([txn |-> d.txn, seen |-> d.seen])
    /\ UNCHANGED <<server, sent, results, drawerOpen, clicked, crossed>>

(* The error goes to the console: the drawer stays as it is. *)
DetailFailed(d) ==
    /\ details' = details \ {d}
    /\ UNCHANGED <<server, sent, results, drawerOpen, selectedTxn, json, clicked, crossed>>

(* The overlay, the cross, or Escape. *)
onClose ==
    /\ ui.mounted /\ drawerOpen
    /\ drawerOpen' = FALSE
    /\ ShowDetail(NoDetail)
    /\ UNCHANGED <<server, sent, results, details, clicked, crossed>>

JsonShown == drawerOpen /\ selectedTxn # NoDetail /\ selectedTxn.seen.payload

BlockOnly == UNCHANGED <<server, sent, results, details, drawerOpen, selectedTxn, clicked,
                         crossed>>

(* The text of this moment is written to the clipboard, which takes a while.  The
   button is there while the block is unfolded.  One copy at a time and MaxTimers timers
   are modelled. *)
handleCopy ==
    /\ JsonShown /\ json.copying = NoTxn /\ json.timers < MaxTimers
    /\ json' = [json EXCEPT !.copying = selectedTxn.txn]
    /\ BlockOnly

(* It is written, by the clipboard or by the textarea when the clipboard refuses; or
   by neither, for the result of execCommand is not looked at.  The mark and its
   timer are set in all three cases. *)
CopySettled ==
    /\ json.copying # NoTxn
    /\ \E written \in {json.copying, NoTxn} :
         json' = [json EXCEPT !.copied = TRUE, !.timers = @ + 1, !.copying = NoTxn,
                              !.holds = written]
    /\ BlockOnly

(* Two seconds later, also when the text was copied again meanwhile. *)
CopyTimer ==
    /\ json.timers > 0
    /\ json' = [json EXCEPT !.copied = FALSE, !.timers = @ - 1, !.holds = NoTxn]
    /\ BlockOnly

-------------------------------------------------------------------------------
(* The router mounts one page at a time.                                   *)

Leave ==
    /\ ui.mounted
    /\ ui' = NotMounted /\ table' = EmptyTable
    /\ searches' = {} /\ details' = {}
    /\ drawerOpen' = FALSE
    /\ ShowDetail(NoDetail)
    /\ last' = NoSearch /\ clicked' = NoTxn /\ crossed' = FALSE
    /\ UNCHANGED <<server, sent>>

Visit ==
    /\ ~ui.mounted /\ sent < MaxRequests
    /\ ui' = FreshPage
    /\ UNCHANGED <<server, sent, searches, table, last, drawer>>

Opened  == [status |-> "VERIFYING", webhooks |-> <<>>, ledger |-> "none"]
Settled(c) == [status |-> "CONFIRMED", webhooks |-> <<c>>, ledger |-> "CONFIRMED"]

(* The page is opened over holds that are still verified and old ones that were
   confirmed, whatever their webhook claimed. *)
Init ==
    /\ \E c \in Claims : db = [t \in Txns |-> IF t \in OldHolds THEN Settled(c) ELSE Opened]
    /\ changes = 0 /\ sent = 0 /\ searches = {} /\ details = {}
    /\ ui = FreshPage /\ table = EmptyTable
    /\ drawerOpen = FALSE /\ selectedTxn = NoDetail /\ json = FreshJson
    /\ last = NoSearch /\ clicked = NoTxn /\ crossed = FALSE

Database == \E t \in Txns : Conclude(t) \/ ReceiveWebhook(t)

SearchStep ==
    \E s \in searches : CountHolds(s) \/ ReadHolds(s) \/ SearchAnswered(s) \/ SearchFailed(s)

DetailStep == \E d \in details : ReadDetail(d) \/ DetailAnswered(d) \/ DetailFailed(d)

Operator ==
    \/ \E q \in Queries : Type(q)
    \/ handleKeyDown
    \/ \E sf \in Filters : handleFilterClick(sf)
    \/ \E p \in {ui.page - 1, ui.page + 1} : handlePage(p)
    \/ \E t \in Txns : handleRowClick(t)
    \/ onClose \/ handleCopy \/ Leave \/ Visit

Next == Database \/ SearchStep \/ DetailStep \/ Operator \/ CopySettled \/ CopyTimer

(* Every search ends, with an answer or an error. *)
Fairness == WF_vars(SearchStep)

Spec == Init /\ [][Next]_vars /\ Fairness

-------------------------------------------------------------------------------
(* What the drawer and the Mismatches page say of a hold.                  *)

(* Wrong: the latest webhook instead of the first. *)
VerdictByLatest(seen) ==
    IF seen.status = "CONFIRMED" /\ seen.webhooks # <<>>
         /\ seen.webhooks[Len(seen.webhooks)] = "fail"
    THEN "overruled" ELSE "confirmed"

buildVerdict(seen) ==
    LET refuted == seen.webhooks # <<>> /\ Head(seen.webhooks) = "fail"
    IN  CASE seen.status = "CONFIRMED" /\ refuted  -> "overruled"
          [] seen.status = "CONFIRMED" /\ ~refuted -> "confirmed"
          [] seen.status = "FAILED"        -> "failed"
          [] seen.status = "INDETERMINATE" -> "investigate"
          [] OTHER                         -> "verifying"

(* The first webhook claimed what the verification refuted. *)
mismatchQuery ==
    {t \in Txns :
       /\ db[t].webhooks # <<>>
       /\ <<Head(db[t].webhooks), db[t].status>>
            \in {<<"fail", "CONFIRMED">>, <<"success", "FAILED">>}}

-------------------------------------------------------------------------------
(* Properties.                                                             *)

Row    == [txn : Txns, status : Statuses]
Hold   == [status : Statuses, webhooks : Seq(Claims), ledger : Terminal \cup {"none"}]
Seen   == [status : Statuses, webhooks : Seq(Claims), ledger : Terminal \cup {"none"},
           payload : BOOLEAN, lost : BOOLEAN]
Search == [id : Nat, q : Queries, sf : Filters, p : Nat \ {0},
           at : {"sent", "counted", "read"}, total : Nat, rows : Seq(Row)]
Detail == [id : Nat, txn : Txns, at : 0..Len(ReadOrder), seen : Seen]

(* Every variable has its type; the controls name chips and pages that exist. *)
TypeOK ==
    /\ db \in [Txns -> Hold] /\ changes \in Nat /\ sent \in Nat
    /\ searches \subseteq Search /\ details \subseteq Detail
    /\ ui \in [mounted : BOOLEAN, query : Queries, statusFilter : Filters, page : Nat \ {0},
               submitted : BOOLEAN, loading : BOOLEAN, error : BOOLEAN]
    /\ table \in [rows : Seq(Row), total : Nat, from : Nat]
    /\ drawerOpen \in BOOLEAN
    /\ selectedTxn \in [txn : Txns, seen : Seen] \cup {NoDetail}
    /\ json \in [copied : BOOLEAN, timers : Nat,
                 copying : Txns \cup {NoTxn}, holds : Txns \cup {NoTxn}]
    /\ last \in [id : Nat, q : Queries, sf : Filters, p : Nat \ {0}, stray : BOOLEAN]
    /\ clicked \in Txns \cup {NoTxn} /\ crossed \in BOOLEAN

(* The results are those of the latest search: nothing is in flight and no
   older answer, no error, came after its answer. *)
ShowsLatest ==
    /\ ui.submitted /\ ~ui.error /\ searches = {}
    /\ table.from = last.id

(* A settled table holds what the chip and the page number above it say: rows of
   the chosen status only and, while the database stands still, exactly that page
   of the holds that match.  The handlers pass the new filter and page to the
   search themselves, because a state update is not visible before the next
   render. *)
TableMatchesControls ==
    ShowsLatest =>
      /\ \A i \in 1..Len(table.rows) : ui.statusFilter \in {"all", table.rows[i].status}
      /\ changes = 0 =>
           [i \in 1..Len(table.rows) |-> table.rows[i].txn]
             = PageOf(Found(last.q, ui.statusFilter), ui.page)

(* "No transactions found" is true of the text and the status searched, as long
   as holds do not move and the operator did not turn a page for a text typed but
   not searched, or of an overtaken table: a page number never outlives the search
   it belongs to. *)
EmptyMeansNone ==
    ShowsLatest /\ table.rows = <<>> /\ changes = 0 /\ ~last.stray
      => Found(last.q, last.sf) = <<>>

(* The drawer shows the transaction of the row it was opened from, unless that
   row was clicked while the answer for an earlier one was still to come. *)
DrawerShowsClicked ==
    drawerOpen /\ selectedTxn # NoDetail /\ ~crossed => selectedTxn.txn = clicked

(* A final status in the drawer comes with the transition that reached it: the
   hold is read before its timeline, and both were written in one transaction.  The
   exception is a ledger query that failed, of which the answer says nothing. *)
TimelineExplainsStatus ==
    selectedTxn # NoDetail /\ selectedTxn.seen.status \in Terminal /\ ~selectedTxn.seen.lost
      => selectedTxn.seen.ledger = selectedTxn.seen.status

(* For a confirmed payment whose webhooks it has seen, the drawer says that the
   gateway claimed a failure exactly when the Mismatches page lists the hold:
   JavaScript's find and SQL's LIMIT 1 take the same webhook. *)
VerdictAgreesWithMismatches ==
    selectedTxn # NoDetail /\ selectedTxn.seen.status = "CONFIRMED"
      /\ selectedTxn.seen.webhooks # <<>>
      => (buildVerdict(selectedTxn.seen) = "overruled" <=> selectedTxn.txn \in mismatchQuery)

(* "Copied!" under a payload means that this payload was copied: the drawer is empty
   between two transactions, so the block of the next one starts anew, and a copy that
   ends late no longer finds its block.  The exceptions are a row clicked over an
   unanswered one, and a copy that both ways refused, which is marked all the same. *)
CopiedIsShown ==
    json.copied /\ ~crossed /\ json.holds # NoTxn => json.holds = selectedTxn.txn

(* A search that is loading stops loading, whatever overtakes or fails it. *)
LoadingEnds == ui.loading ~> ~ui.loading
===============================================================================
