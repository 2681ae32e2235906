------------------------ MODULE TransactionsPageProofs ------------------------
(***************************************************************************)
(* Proofs about TransactionsPage: the types, and what the drawer and the   *)
(* table say, for any holds, texts, page size and number of fetches.       *)
(*                                                                         *)
(* Two inductive invariants carry them.  DrawerInv says of every detail,   *)
(* in flight or shown, what is still true of the hold it was read from,    *)
(* and who may still write into the drawer.  TableInv relates every search *)
(* in flight, and the table, to the controls and, while the database       *)
(* stands still, to the holds.                                             *)
(***************************************************************************)
EXTENDS TransactionsPage, WellFoundedInduction, TLAPS

-------------------------------------------------------------------------------
(* Induction over numbers, for a set of them: the prover cannot instantiate the
   library's theorems, which take a predicate.                             *)

(* A set of numbers that is not empty has a least one. *)
LEMMA LeastNumber ==
    ASSUME NEW Q, Q \subseteq Nat, Q # {}
    PROVE  \E m \in Q : \A k \in Q : m <= k
<1> DEFINE R == OpToRel(<, Nat)
<1>1. IsWellFoundedOn(R, Nat)
  BY NatLessThanWellFounded
<1>2. \E x \in Q : \A y \in Q : ~ (<<y, x>> \in R)
  <2> HIDE DEF R
  <2> QED BY <1>1, WFMin
<1>3. \A x, y \in Nat : <<y, x>> \in R <=> y < x
  BY DEF OpToRel
<1> HIDE DEF R
<1>4. PICK x \in Q : \A y \in Q : ~ (<<y, x>> \in R)
  BY <1>2
<1>5. ASSUME NEW y \in Q PROVE x <= y
  <2>1. x \in Nat /\ y \in Nat /\ ~ (y < x)
    BY <1>3, <1>4
  <2> QED BY <2>1
<1> QED BY <1>4, <1>5

(* A set that has zero and the successor of each of its numbers has them all. *)
LEMMA Induction ==
    ASSUME NEW Q, 0 \in Q, \A n \in Nat : n \in Q => n + 1 \in Q
    PROVE  Nat \subseteq Q
<1> SUFFICES ASSUME ~ (Nat \subseteq Q) PROVE FALSE
  OBVIOUS
<1>1. PICK m \in Nat \ Q : \A k \in Nat \ Q : m <= k
  BY LeastNumber
<1>2. m # 0 /\ m - 1 \in Nat /\ ~ (m <= m - 1)
  OBVIOUS
<1>3. m - 1 \in Q
  BY <1>1, <1>2
<1> QED BY <1>1, <1>2, <1>3

-------------------------------------------------------------------------------
(* The rows a query finds.                                                 *)

(* g[i] holds the elements of s up to i whose index is in keep, in their order. *)
Scan(g, n, keep, s) ==
    g = [i \in 0..n |-> IF i = 0 THEN <<>>
                        ELSE IF i \in keep THEN Append(g[i - 1], s[i])
                        ELSE g[i - 1]]

(* The recursion that Found uses has a solution. *)
LEMMA ScanExists ==
    ASSUME NEW keep, NEW s
    PROVE  \A n \in Nat : \E g : Scan(g, n, keep, s)
<1> DEFINE Q == {n \in Nat : \E g : Scan(g, n, keep, s)}
<1>1. 0 \in Q
  <2>1. Scan([i \in 0..0 |-> <<>>], 0, keep, s)
    BY DEF Scan
  <2> QED BY <2>1
<1>2. ASSUME NEW n \in Nat, n \in Q PROVE n + 1 \in Q
  <2>1. PICK g : Scan(g, n, keep, s)
    BY <1>2
  <2> DEFINE next == IF n + 1 \in keep THEN Append(g[n], s[n + 1]) ELSE g[n]
             h == [i \in 0..n + 1 |-> IF i = n + 1 THEN next ELSE g[i]]
  <2>2. ASSUME NEW i \in 0..n + 1
        PROVE  h[i] = IF i = 0 THEN <<>> ELSE IF i \in keep THEN Append(h[i - 1], s[i])
                      ELSE h[i - 1]
    <3>1. CASE i = 0
      BY <2>1, <3>1 DEF Scan
    <3>2. CASE i = n + 1
      BY <2>1, <3>2 DEF Scan
    <3>3. CASE i # 0 /\ i # n + 1
      <4>1. i \in 0..n /\ i - 1 \in 0..n /\ i - 1 # n + 1 /\ i - 1 \in 0..n + 1
        BY <3>3
      <4>2. h[i] = g[i] /\ h[i - 1] = g[i - 1]
        BY <3>3, <4>1
      <4>3. g[i] = IF i = 0 THEN <<>> ELSE IF i \in keep THEN Append(g[i - 1], s[i])
                   ELSE g[i - 1]
        BY <2>1, <4>1 DEF Scan
      <4> QED BY <4>2, <4>3, Zenon
    <3> QED BY <3>1, <3>2, <3>3
  <2>3. Scan(h, n + 1, keep, s)
    BY <2>2 DEF Scan
  <2> QED BY <2>3
<1> HIDE DEF Q
<1>3. Nat \subseteq Q
  BY <1>1, <1>2, Induction
<1> QED BY <1>3 DEF Q

(* Where WHERE holds. *)
Kept(q, sf) == {i \in 1..Len(Newest) : Selects(q, sf, Newest[i])}

(* Found is such a scan of the holds. *)
LEMMA FoundIs ==
    ASSUME NEW q, NEW sf
    PROVE  \E g : Scan(g, Len(Newest), Kept(q, sf), Newest) /\ Found(q, sf) = g[Len(Newest)]
<1> DEFINE Rec(g) == [i \in 0..Len(Newest) |->
                       IF i = 0 THEN <<>>
                       ELSE IF Selects(q, sf, Newest[i]) THEN Append(g[i - 1], Newest[i])
                       ELSE g[i - 1]]
           f == CHOOSE g : g = Rec(g)
<1>0. Len(Newest) \in Nat
  BY ConstantsOK
<1>1. PICK g : Scan(g, Len(Newest), Kept(q, sf), Newest)
  BY <1>0, ScanExists
<1>2. ASSUME NEW i \in 0..Len(Newest), NEW h
      PROVE  (IF i = 0 THEN <<>>
              ELSE IF i \in Kept(q, sf) THEN Append(h[i - 1], Newest[i])
              ELSE h[i - 1])
           = (IF i = 0 THEN <<>>
              ELSE IF Selects(q, sf, Newest[i]) THEN Append(h[i - 1], Newest[i])
              ELSE h[i - 1])
  <2>1. i = 0 \/ i \in 1..Len(Newest)
    BY <1>0
  <2> QED BY <2>1 DEF Kept
<1>3. g = Rec(g)
  BY <1>1, <1>2 DEF Scan
<1>4. f = Rec(f)
  BY <1>3
<1>5. Found(q, sf) = f[Len(Newest)]
  BY DEF Found
<1> HIDE DEF f
<1>6. Scan(f, Len(Newest), Kept(q, sf), Newest)
  BY <1>2, <1>4 DEF Scan
<1> QED BY <1>5, <1>6

(* A scan holds nothing but what it keeps. *)
LEMMA ScanType ==
    ASSUME NEW keep, NEW s, NEW S, NEW N \in Nat, NEW g, Scan(g, N, keep, s),
           \A i \in 1..N : i \in keep => s[i] \in S
    PROVE  \A n \in 0..N : g[n] \in Seq(S)
<1> DEFINE Q == {n \in Nat : n <= N => g[n] \in Seq(S)}
<1>1. 0 \in Q
  BY DEF Scan
<1>2. ASSUME NEW n \in Nat, n \in Q PROVE n + 1 \in Q
  <2> SUFFICES ASSUME n + 1 <= N PROVE g[n + 1] \in Seq(S)
    OBVIOUS
  <2>1. g[n + 1] = IF n + 1 \in keep THEN Append(g[n], s[n + 1]) ELSE g[n]
    <3>1. \A j \in 0..N : g[j] = IF j = 0 THEN <<>> ELSE IF j \in keep
                                THEN Append(g[j - 1], s[j]) ELSE g[j - 1]
      BY DEF Scan
    <3>2. n + 1 \in 0..N /\ n + 1 # 0 /\ (n + 1) - 1 = n
      OBVIOUS
    <3> QED BY <3>1, <3>2
  <2>2. g[n] \in Seq(S)
    BY <1>2
  <2> QED BY <2>1, <2>2
<1> HIDE DEF Q
<1>3. Nat \subseteq Q
  BY <1>1, <1>2, Induction
<1> QED BY <1>3 DEF Q

(* Every row found is a hold that WHERE accepts. *)
LEMMA FoundSelects ==
    ASSUME NEW q, NEW sf
    PROVE  Found(q, sf) \in Seq({t \in Txns : Selects(q, sf, t)})
<1> DEFINE S == {t \in Txns : Selects(q, sf, t)}
<1>1. Len(Newest) \in Nat /\ \A i \in 1..Len(Newest) : Newest[i] \in Txns
  BY ConstantsOK
<1>2. PICK g : Scan(g, Len(Newest), Kept(q, sf), Newest) /\ Found(q, sf) = g[Len(Newest)]
  BY FoundIs
<1>3. \A i \in 1..Len(Newest) : i \in Kept(q, sf) => Newest[i] \in S
  BY <1>1 DEF Kept
<1> HIDE DEF S
<1>4. \A n \in 0..Len(Newest) : g[n] \in Seq(S)
  BY <1>1, <1>2, <1>3, ScanType
<1>5. g[Len(Newest)] \in Seq(S)
  BY <1>1, <1>4
<1> QED BY <1>2, <1>5 DEF S

(* A page of a sequence has some of its elements, and none exactly when the pages
   before it hold them all. *)
LEMMA PageRows ==
    ASSUME NEW S, NEW s \in Seq(S), NEW p \in Nat \ {0}
    PROVE  /\ PageOf(s, p) \in Seq(S)
           /\ \A i \in 1..Len(PageOf(s, p)) : PageOf(s, p)[i] \in S
           /\ PageOf(s, p) = <<>> <=> Len(s) <= (p - 1) * PageSize
<1> DEFINE m == (p - 1) * PageSize
           n == IF p * PageSize < Len(s) THEN p * PageSize ELSE Len(s)
<1>1. PageSize \in Nat \ {0} /\ m \in Nat /\ p * PageSize = m + PageSize
  BY ConstantsOK
<1>2. n \in Nat /\ n <= Len(s) /\ (n < m + 1 <=> Len(s) <= m)
  BY <1>1
<1>3. PageOf(s, p) = SubSeq(s, m + 1, n)
  BY DEF PageOf
<1> HIDE DEF m, n
<1>4. SubSeq(s, m + 1, n) \in Seq(S)
  BY <1>1, <1>2
<1>5. SubSeq(s, m + 1, n) = <<>> <=> n < m + 1
  BY <1>1, <1>2
<1>6. Len(s) <= m <=> Len(s) <= (p - 1) * PageSize
  BY DEF m
<1> QED BY <1>2, <1>3, <1>4, <1>5, <1>6

-------------------------------------------------------------------------------
(* What the steps make of the records.                                     *)

Ui    == [mounted : BOOLEAN, query : Queries, statusFilter : Filters, page : Nat \ {0},
          submitted : BOOLEAN, loading : BOOLEAN, error : BOOLEAN]
Last  == [id : Nat, q : Queries, sf : Filters, p : Nat \ {0}, stray : BOOLEAN]
Json  == [copied : BOOLEAN, timers : Nat, copying : Txns \cup {NoTxn},
          holds : Txns \cup {NoTxn}]
Shown == [txn : Txns, seen : Seen]
Table == [rows : Seq(Row), total : Nat, from : Nat]

(* The rows that ReadHolds reads for s. *)
RowsOf(s) ==
    LET page == PageOf(Found(s.q, s.sf), s.p)
    IN  [i \in 1..Len(page) |-> [txn |-> page[i], status |-> db[page[i]].status]]

(* Each is a hold, with the status that the filter asks for; and they are the page. *)
LEMMA RowsRead ==
    ASSUME NEW s \in Search, db \in [Txns -> Hold]
    PROVE  /\ RowsOf(s) \in Seq(Row)
           /\ \A i \in 1..Len(RowsOf(s)) : s.sf \in {"all", RowsOf(s)[i].status}
           /\ [i \in 1..Len(RowsOf(s)) |-> RowsOf(s)[i].txn] = PageOf(Found(s.q, s.sf), s.p)
<1> DEFINE S == {t \in Txns : Selects(s.q, s.sf, t)}
           page == PageOf(Found(s.q, s.sf), s.p)
<1>1. s.p \in Nat \ {0}
  BY DEF Search
<1>2. Found(s.q, s.sf) \in Seq(S)
  BY FoundSelects
<1>3. page \in Seq(S) /\ \A i \in 1..Len(page) : page[i] \in S
  BY <1>1, <1>2, PageRows
<1>4. RowsOf(s) = [i \in 1..Len(page) |-> [txn |-> page[i], status |-> db[page[i]].status]]
  BY DEF RowsOf
<1>5. Len(page) \in Nat /\ page = [i \in 1..Len(page) |-> page[i]]
  BY <1>3
<1> HIDE DEF page
<1>6. ASSUME NEW i \in 1..Len(page)
      PROVE  /\ [txn |-> page[i], status |-> db[page[i]].status] \in Row
             /\ s.sf \in {"all", db[page[i]].status}
  BY <1>3 DEF Row, Selects, Hold
<1> HIDE DEF S
<1>7. RowsOf(s) \in Seq(Row) /\ Len(RowsOf(s)) = Len(page)
  BY <1>4, <1>5, <1>6
<1>8. \A i \in 1..Len(page) : /\ RowsOf(s)[i].txn = page[i]
                              /\ RowsOf(s)[i].status = db[page[i]].status
  BY <1>4
<1>9. [i \in 1..Len(RowsOf(s)) |-> RowsOf(s)[i].txn] = page
  BY <1>5, <1>7, <1>8
<1> QED BY <1>6, <1>7, <1>8, <1>9 DEF page

(* A search that is counted is otherwise the search it was. *)
LEMMA SearchCounted ==
    ASSUME NEW s \in Search, NEW n \in Nat
    PROVE  LET c == [s EXCEPT !.at = "counted", !.total = n]
           IN  /\ c \in Search /\ c.id = s.id /\ c.q = s.q /\ c.sf = s.sf /\ c.p = s.p
               /\ c.at = "counted" /\ c.total = n /\ c.rows = s.rows
BY DEF Search

(* So is one whose rows are read. *)
LEMMA SearchRead ==
    ASSUME NEW s \in Search, NEW rows \in Seq(Row)
    PROVE  LET r == [s EXCEPT !.at = "read", !.rows = rows]
           IN  /\ r \in Search /\ r.id = s.id /\ r.q = s.q /\ r.sf = s.sf /\ r.p = s.p
               /\ r.at = "read" /\ r.total = s.total /\ r.rows = rows
BY DEF Search

(* What one query may answer for a transaction's detail, whole or cut. *)
Replies(t, c) == {Column(t, c)} \cup Cut(t, c)

(* It has the type of its column; webhooks begin with the first that is stored. *)
LEMMA AnswerTyped ==
    ASSUME NEW t \in Txns, db \in [Txns -> Hold], NEW c, NEW v \in Replies(t, c)
    PROVE  /\ c = "status" => v = db[t].status /\ v \in Statuses
           /\ c = "webhooks" =>
                /\ v \in Seq(Claims)
                /\ v # <<>> => db[t].webhooks # <<>> /\ Head(v) = Head(db[t].webhooks)
           /\ c = "ledger" => v \in Terminal \cup {"none"}
           /\ c = "payload" => v \in BOOLEAN
<1>1. db[t] \in Hold /\ db[t].webhooks \in Seq(Claims)
  BY DEF Hold
<1>2. ASSUME c = "status" PROVE v = db[t].status /\ v \in Statuses
  <2>1. Column(t, c) = db[t].status /\ Cut(t, c) = {}
    BY <1>2 DEF Column, Cut
  <2> QED BY <1>1, <2>1 DEF Hold, Replies
<1>3. ASSUME c = "webhooks"
      PROVE  /\ v \in Seq(Claims)
             /\ v # <<>> => db[t].webhooks # <<>> /\ Head(v) = Head(db[t].webhooks)
  <2> DEFINE w == db[t].webhooks
  <2>1. Column(t, c) = w /\ Cut(t, c) = {SubSeq(w, 1, n) : n \in 0..Len(w)}
    BY <1>3 DEF Column, Cut
  <2>2. CASE v = w
    BY <1>1, <2>2
  <2>3. CASE v # w
    <3>1. PICK n \in 0..Len(w) : v = SubSeq(w, 1, n)
      BY <2>1, <2>3 DEF Replies
    <3> HIDE DEF w
    <3>2. w \in Seq(Claims)
      BY <1>1 DEF w
    <3>3. v \in Seq(Claims) /\ Len(v) = n /\ \A i \in 1..n : v[i] = w[i]
      BY <3>1, <3>2
    <3>4. v # <<>> => n >= 1 /\ w # <<>> /\ Head(v) = v[1] /\ Head(w) = w[1]
      BY <3>2, <3>3
    <3> QED BY <3>3, <3>4 DEF w
  <2> QED BY <2>2, <2>3
<1>4. ASSUME c = "ledger" PROVE v \in Terminal \cup {"none"}
  <2>1. Column(t, c) = db[t].ledger /\ Cut(t, c) = {"none"}
    BY <1>4 DEF Column, Cut
  <2> QED BY <1>1, <2>1 DEF Hold, Replies
<1>5. ASSUME c = "payload" PROVE v \in BOOLEAN
  <2>1. Column(t, c) \in BOOLEAN /\ Cut(t, c) = {FALSE}
    BY <1>5 DEF Column, Cut
  <2> QED BY <2>1 DEF Replies
<1> QED BY <1>2, <1>3, <1>4, <1>5

(* What its next query may answer a detail, and the detail after it answered v. *)
Answers(d) == Replies(d.txn, ReadOrder[d.at + 1])

Advanced(d, v) ==
    LET c == ReadOrder[d.at + 1]
    IN  [d EXCEPT !.at = @ + 1, !.seen = Heard(d, c, v)]

(* Which column that is, and that the others stay. *)
LEMMA DetailAdvanced ==
    ASSUME NEW d \in Detail, d.at < Len(ReadOrder), db \in [Txns -> Hold],
           NEW v \in Answers(d)
    PROVE  LET n == Advanced(d, v)
           IN  /\ n \in Detail /\ n.id = d.id /\ n.txn = d.txn /\ n.at = d.at + 1
               /\ n.seen.status = IF d.at = 0 THEN db[d.txn].status ELSE d.seen.status
               /\ \/ n.seen.webhooks = d.seen.webhooks
                  \/ n.seen.webhooks # <<>> =>
                       /\ db[d.txn].webhooks # <<>>
                       /\ Head(n.seen.webhooks) = Head(db[d.txn].webhooks)
               /\ d.at # 2 => n.seen.ledger = d.seen.ledger /\ n.seen.lost = d.seen.lost
               /\ d.at = 2 => n.seen.lost \/ n.seen.ledger = db[d.txn].ledger
<1>0. PICK c : c = ReadOrder[d.at + 1]
  OBVIOUS
<1> DEFINE n == Advanced(d, v)
           lost == d.seen.lost \/ (c = "ledger" /\ v # db[d.txn].ledger)
           read == [d.seen EXCEPT ![c] = v]
           seen == [read EXCEPT !.lost = lost]
<1>1. /\ d.txn \in Txns /\ d.seen \in Seen
      /\ d.at \in {0, 1, 2, 3} /\ lost \in BOOLEAN
  BY DEF Detail, ReadOrder, Seen
<1>2. /\ d.at = 0 => c = "status"
      /\ d.at = 1 => c = "webhooks"
      /\ d.at = 2 => c = "ledger"
      /\ d.at = 3 => c = "payload"
  BY <1>0, <1>1 DEF ReadOrder
<1>3. /\ c = "status" => v = db[d.txn].status /\ v \in Statuses
      /\ c = "webhooks" =>
           /\ v \in Seq(Claims)
           /\ v # <<>> => db[d.txn].webhooks # <<>> /\ Head(v) = Head(db[d.txn].webhooks)
      /\ c = "ledger" => v \in Terminal \cup {"none"}
      /\ c = "payload" => v \in BOOLEAN
  <2>1. v \in Replies(d.txn, c) /\ d.txn \in Txns
    BY <1>0, <1>1 DEF Answers
  <2> HIDE DEF n, lost, read, seen
  <2> QED BY <2>1, AnswerTyped
<1>4. n = [d EXCEPT !.at = d.at + 1, !.seen = seen]
  <2>1. Heard(d, c, v) = seen
    BY Zenon DEF Heard
  <2> QED BY <1>0, <2>1, Zenon DEF Advanced
<1>5. /\ (c = "ledger") <=> (d.at = 2)
      /\ (c = "status") <=> (d.at = 0)
      /\ (c = "webhooks") <=> (d.at = 1)
  BY <1>1, <1>2
<1>6. c = "ledger" => lost \/ v = db[d.txn].ledger
  OBVIOUS
<1>7. c # "ledger" => lost = d.seen.lost
  BY <1>1 DEF Seen
<1>8. c \in {"status", "webhooks", "ledger", "payload"}
  BY <1>1, <1>2
<1> HIDE DEF n, lost
<1>9. /\ read \in Seen
      /\ \A x \in {"status", "webhooks", "ledger"} : read[x] = IF x = c THEN v ELSE d.seen[x]
  <2>1. read \in Seen
    <3>1. CASE c = "status"
      BY <1>1, <1>3, <3>1 DEF Seen
    <3>2. CASE c = "webhooks"
      BY <1>1, <1>3, <3>2 DEF Seen
    <3>3. CASE c = "ledger"
      BY <1>1, <1>3, <3>3 DEF Seen
    <3>4. CASE c = "payload"
      BY <1>1, <1>3, <3>4 DEF Seen
    <3> QED BY <1>8, <3>1, <3>2, <3>3, <3>4
  <2>2. \A x \in {"status", "webhooks", "ledger"} : read[x] = IF x = c THEN v ELSE d.seen[x]
    BY <1>1 DEF Seen
  <2> QED BY <2>1, <2>2
<1> HIDE DEF read
<1>10. /\ seen \in Seen /\ seen.lost = lost /\ seen.status = read.status
       /\ seen.webhooks = read.webhooks /\ seen.ledger = read.ledger
  BY <1>1, <1>9 DEF Seen
<1> HIDE DEF seen
<1>11. /\ n \in Detail /\ n.id = d.id /\ n.txn = d.txn /\ n.at = d.at + 1 /\ n.seen = seen
  <2>1. d.at + 1 \in 0..Len(ReadOrder)
    BY <1>1 DEF ReadOrder
  <2> QED BY <1>4, <1>10, <2>1 DEF Detail
<1>12. /\ seen.status = IF d.at = 0 THEN db[d.txn].status ELSE d.seen.status
       /\ seen.ledger = IF d.at = 2 THEN v ELSE d.seen.ledger
       /\ seen.webhooks = IF d.at = 1 THEN v ELSE d.seen.webhooks
  <2>1. /\ read.status = IF "status" = c THEN v ELSE d.seen.status
        /\ read.webhooks = IF "webhooks" = c THEN v ELSE d.seen.webhooks
        /\ read.ledger = IF "ledger" = c THEN v ELSE d.seen.ledger
    BY <1>9
  <2> QED BY <1>3, <1>5, <1>10, <2>1
<1>13. /\ \/ n.seen.webhooks = d.seen.webhooks
          \/ n.seen.webhooks # <<>> =>
               /\ db[d.txn].webhooks # <<>>
               /\ Head(n.seen.webhooks) = Head(db[d.txn].webhooks)
  BY <1>3, <1>5, <1>11, <1>12
<1>14. d.at # 2 => n.seen.ledger = d.seen.ledger /\ n.seen.lost = d.seen.lost
  BY <1>5, <1>7, <1>10, <1>11, <1>12
<1>15. d.at = 2 => n.seen.lost \/ n.seen.ledger = db[d.txn].ledger
  BY <1>5, <1>6, <1>10, <1>11, <1>12
<1> QED BY <1>11, <1>12, <1>13, <1>14, <1>15 DEF n

-------------------------------------------------------------------------------
(* Types.                                                                  *)

(* The block of the raw webhook keeps its type whatever is shown. *)
LEMMA JsonTyped ==
    ASSUME NEW d, json \in Json, ShowDetail(d)
    PROVE  json' \in Json /\ selectedTxn' = d
<1>1. FreshJson \in Json
  BY DEF FreshJson, Json
<1> QED BY <1>1 DEF ShowDetail

(* So does it when a click, the end of a copy or the end of a timer changes it. *)
LEMMA JsonChanged ==
    ASSUME NEW j \in Json, NEW n \in Nat, NEW t \in Txns \cup {NoTxn}
    PROVE  /\ LET c == [j EXCEPT !.copying = t]
              IN  c \in Json /\ c.copying = t /\ c.copied = j.copied /\ c.holds = j.holds
           /\ LET m == [j EXCEPT !.copied = TRUE, !.timers = n, !.copying = NoTxn, !.holds = t]
              IN  m \in Json /\ m.copying = NoTxn /\ m.copied /\ m.holds = t
           /\ LET u == [j EXCEPT !.copied = FALSE, !.timers = n, !.holds = NoTxn]
              IN  u \in Json /\ u.copying = j.copying /\ ~u.copied
BY DEF Json

(* A step of the database moves its holds within their type, and nothing else. *)
LEMMA DatabaseStep ==
    ASSUME TypeOK, Database
    PROVE  /\ db' \in [Txns -> Hold] /\ changes' = changes + 1
           /\ UNCHANGED <<sent, results, drawer>>
           /\ \A t \in Txns :
                \/ db'[t] = db[t]
                \/ \E st \in Terminal :
                     /\ db[t].status = "VERIFYING" /\ db'[t].webhooks = db[t].webhooks
                     /\ db'[t].status = st /\ db'[t].ledger = st
                \/ /\ db'[t].status = db[t].status /\ db'[t].ledger = db[t].ledger
                   /\ \E c \in Claims : db'[t].webhooks = Append(db[t].webhooks, c)
<1>1. PICK t \in Txns : Conclude(t) \/ ReceiveWebhook(t)
  BY DEF Database
<1>2. db \in [Txns -> Hold] /\ db[t] \in Hold
  BY DEF TypeOK
<1>3. CASE Conclude(t)
  <2>1. PICK st \in Terminal : db' = [db EXCEPT ![t].status = st, ![t].ledger = st]
    BY <1>3, ConstantsOK DEF Conclude
  <2>2. /\ db'[t].status = st /\ db'[t].ledger = st /\ db'[t].webhooks = db[t].webhooks
        /\ db'[t] \in Hold
    BY <1>2, <2>1 DEF Hold, Statuses, Terminal
  <2>3. \A u \in Txns \ {t} : db'[u] = db[u]
    BY <1>2, <2>1
  <2>4. db' \in [Txns -> Hold]
    BY <1>2, <2>1, <2>2, <2>3
  <2> QED BY <1>3, <2>2, <2>3, <2>4 DEF Conclude, Change
<1>4. CASE ReceiveWebhook(t)
  <2>1. PICK c \in Claims : db' = [db EXCEPT ![t].webhooks = Append(@, c)]
    BY <1>4 DEF ReceiveWebhook
  <2>2. /\ db'[t].status = db[t].status /\ db'[t].ledger = db[t].ledger
        /\ db'[t].webhooks = Append(db[t].webhooks, c)
        /\ db'[t] \in Hold
    <3>1. db'[t] = [db[t] EXCEPT !.webhooks = Append(db[t].webhooks, c)]
      BY <1>2, <2>1
    <3>2. Append(db[t].webhooks, c) \in Seq(Claims)
      BY <1>2 DEF Hold
    <3> QED BY <1>2, <3>1, <3>2 DEF Hold
  <2>3. \A u \in Txns \ {t} : db'[u] = db[u]
    BY <1>2, <2>1
  <2>4. db' \in [Txns -> Hold]
    BY <1>2, <2>1, <2>2, <2>3
  <2> QED BY <1>4, <2>2, <2>3, <2>4 DEF ReceiveWebhook, Change
<1> QED BY <1>1, <1>3, <1>4

(* What a search of the operator does, however it was asked for: set is the page's
   controls as the handler leaves them, q the typed text. *)
Asked(sf, p, set) ==
    /\ search(ui.query, sf, p, set)
    /\ set \in Ui /\ set.mounted = ui.mounted /\ set.query = ui.query
    /\ set.statusFilter = sf /\ set.page = p
    /\ sf \in Filters /\ p \in Nat \ {0}

(* The three handlers: Enter and a chip ask for page one; a page is turned only on
   a table that is shown. *)
LEMMA Handlers ==
    ASSUME TypeOK,
           handleKeyDown \/ (\E sf \in Filters : handleFilterClick(sf))
             \/ (\E p \in {ui.page - 1, ui.page + 1} : handlePage(p))
    PROVE  \E sf, p, set :
             /\ Asked(sf, p, set)
             /\ p = 1 \/ ( /\ TableShown /\ sf = ui.statusFilter
                           /\ \/ p = ui.page - 1 /\ ui.page > 1
                              \/ p = ui.page + 1 /\ ui.page < totalPages )
<1>1. ui \in Ui
  BY DEF TypeOK, Ui
<1>2. CASE handleKeyDown
  <2> DEFINE set == [ui EXCEPT !.page = 1]
  <2>1. /\ set \in Ui /\ set.mounted = ui.mounted /\ set.query = ui.query
        /\ set.statusFilter = ui.statusFilter /\ set.page = 1 /\ ui.statusFilter \in Filters
    BY <1>1 DEF Ui
  <2>2. search(ui.query, ui.statusFilter, 1, set)
    BY <1>2 DEF handleKeyDown
  <2> HIDE DEF set
  <2>3. Asked(ui.statusFilter, 1, set)
    BY <2>1, <2>2 DEF Asked
  <2> QED BY <2>3
<1>3. ASSUME NEW sf \in Filters, handleFilterClick(sf)
      PROVE  \E p, set : Asked(sf, p, set) /\ p = 1
  <2> DEFINE set == [ui EXCEPT !.statusFilter = sf, !.page = 1]
  <2>0. /\ set.mounted = ui.mounted /\ set.query = ui.query
        /\ set.statusFilter = sf /\ set.page = 1
    BY <1>1 DEF Ui
  <2>1. set \in Ui
    <3> DEFINE chip == [ui EXCEPT !.statusFilter = sf]
    <3>1. chip \in Ui
      BY <1>1, <1>3 DEF Ui
    <3>2. set = [chip EXCEPT !.page = 1]
      BY <1>1 DEF Ui
    <3> HIDE DEF chip, set
    <3> QED BY <3>1, <3>2 DEF Ui
  <2>2. search(ui.query, sf, 1, set)
    BY <1>3 DEF handleFilterClick
  <2> HIDE DEF set
  <2>3. Asked(sf, 1, set)
    BY <1>3, <2>0, <2>1, <2>2 DEF Asked
  <2> QED BY <2>3
<1>4. ASSUME NEW p \in {ui.page - 1, ui.page + 1}, handlePage(p)
      PROVE  /\ \E set : Asked(ui.statusFilter, p, set)
             /\ TableShown
             /\ \/ p = ui.page - 1 /\ ui.page > 1
                \/ p = ui.page + 1 /\ ui.page < totalPages
  <2> DEFINE set == [ui EXCEPT !.page = p]
  <2>0. /\ \/ p = ui.page - 1 /\ ui.page > 1
           \/ p = ui.page + 1 /\ ui.page < totalPages
        /\ TableShown
        /\ search(ui.query, ui.statusFilter, p, set)
    BY <1>4 DEF handlePage
  <2>1. p \in Nat \ {0}
    <3>1. ui.page \in Nat \ {0}
      BY <1>1 DEF Ui
    <3> QED BY <2>0, <3>1
  <2>2. /\ set \in Ui /\ set.mounted = ui.mounted /\ set.query = ui.query
        /\ set.statusFilter = ui.statusFilter /\ set.page = p /\ ui.statusFilter \in Filters
    BY <1>1, <2>1 DEF Ui
  <2> HIDE DEF set
  <2>3. Asked(ui.statusFilter, p, set)
    BY <2>0, <2>1, <2>2 DEF Asked
  <2> QED BY <2>0, <2>3
<1> QED BY <1>2, <1>3, <1>4

(* A search that is sent is typed, numbered above all earlier ones, and leaves the
   rest of the page alone. *)
LEMMA SearchSent ==
    ASSUME TypeOK, NEW sf, NEW p, NEW set, Asked(sf, p, set)
    PROVE  /\ sent' = sent + 1 /\ ui' \in Ui /\ ui'.submitted /\ ~ui'.error
           /\ ui'.mounted = ui.mounted /\ ui'.statusFilter = sf /\ ui'.page = p
           /\ \E s \in Search :
                /\ searches' = searches \cup {s}
                /\ s.id = sent + 1 /\ s.q = ui.query /\ s.sf = sf /\ s.p = p
                /\ s.at = "sent" /\ s.rows = <<>>
           /\ last' \in Last /\ last'.id = sent + 1 /\ last'.q = ui.query
           /\ last'.sf = sf /\ last'.p = p
           /\ last'.stray <=> p > 1 /\ (ui.query # last.q \/ table.from # last.id)
           /\ UNCHANGED <<server, table, drawer>>
<1> DEFINE s == [id |-> sent + 1, q |-> ui.query, sf |-> sf, p |-> p,
                 at |-> "sent", total |-> 0, rows |-> <<>>]
           stray == p > 1 /\ (ui.query # last.q \/ table.from # last.id)
           loading == [set EXCEPT !.loading = TRUE, !.error = FALSE, !.submitted = TRUE]
<1>1. /\ ui \in Ui /\ ui.query \in Queries /\ sent \in Nat
      /\ set \in Ui /\ sf \in Filters /\ p \in Nat \ {0}
  BY DEF TypeOK, Ui, Asked
<1>2. /\ sent' = sent + 1 /\ ui' = loading /\ searches' = searches \cup {s}
      /\ last' = [id |-> sent + 1, q |-> ui.query, sf |-> sf, p |-> p, stray |-> stray]
      /\ UNCHANGED <<server, table, drawer>>
      /\ set.mounted = ui.mounted /\ set.statusFilter = sf /\ set.page = p
  BY DEF Asked, search
<1>3. /\ loading.submitted /\ ~loading.error /\ loading.mounted = set.mounted
      /\ loading.statusFilter = set.statusFilter /\ loading.page = set.page
  BY <1>1 DEF Ui
<1>4. loading \in Ui
  <2> DEFINE a == [set EXCEPT !.loading = TRUE]
             b == [a EXCEPT !.error = FALSE]
  <2>1. a \in Ui
    BY <1>1 DEF Ui
  <2>2. b \in Ui
    <3> HIDE DEF a
    <3> QED BY <2>1 DEF Ui
  <2>3. loading = [b EXCEPT !.submitted = TRUE]
    BY <1>1 DEF Ui
  <2> HIDE DEF b, loading
  <2> QED BY <2>2, <2>3 DEF Ui
<1>5. s \in Search /\ s.id = sent + 1 /\ s.q = ui.query /\ s.sf = sf /\ s.p = p
      /\ s.at = "sent" /\ s.rows = <<>>
  BY <1>1 DEF Search
<1> HIDE DEF s, loading, stray
<1>6. stray \in BOOLEAN
  BY DEF stray
<1>7. last' \in Last /\ last'.id = sent + 1 /\ last'.q = ui.query
      /\ last'.sf = sf /\ last'.p = p /\ last'.stray = stray
  BY <1>1, <1>2, <1>6 DEF Last
<1>8. last'.stray <=> p > 1 /\ (ui.query # last.q \/ table.from # last.id)
  BY <1>7, Zenon DEF stray
<1>9. \E x \in Search :
        /\ searches' = searches \cup {x}
        /\ x.id = sent + 1 /\ x.q = ui.query /\ x.sf = sf /\ x.p = p
        /\ x.at = "sent" /\ x.rows = <<>>
  BY <1>2, <1>5
<1> QED BY <1>2, <1>3, <1>4, <1>7, <1>8, <1>9

(* TypeOK, with its record types named. *)
Typed ==
    /\ db \in [Txns -> Hold] /\ changes \in Nat /\ sent \in Nat
    /\ searches \subseteq Search /\ details \subseteq Detail
    /\ ui \in Ui /\ table \in Table /\ drawerOpen \in BOOLEAN
    /\ selectedTxn \in Shown \cup {NoDetail}
    /\ json \in Json /\ last \in Last
    /\ clicked \in Txns \cup {NoTxn} /\ crossed \in BOOLEAN

(* The two say the same. *)
LEMMA TypedIsTypeOK == TypeOK <=> Typed
BY DEF TypeOK, Typed, Ui, Last, Json, Shown, Table

(* What a page shows before anything is searched is typed. *)
LEMMA FreshTyped ==
    /\ FreshPage \in Ui /\ NotMounted \in Ui /\ EmptyTable \in Table
    /\ NoSearch \in Last /\ FreshJson \in Json
<1>1. NoText \in Queries /\ "all" \in Filters
  BY ConstantsOK
<1>2. FreshPage \in Ui
  BY <1>1 DEF FreshPage, Ui
<1>3. NotMounted \in Ui
  BY <1>2 DEF NotMounted, Ui
<1>4. EmptyTable \in Table
  <2>1. <<>> \in Seq(Row)
    OBVIOUS
  <2> QED BY <2>1 DEF EmptyTable, Table
<1>5. NoSearch \in Last
  BY <1>1 DEF NoSearch, Last
<1>6. FreshJson \in Json
  BY DEF FreshJson, Json
<1> QED BY <1>2, <1>3, <1>4, <1>5, <1>6

(* The page is typed in its initial state. *)
LEMMA InitTyped == Init => TypeOK
<1> SUFFICES ASSUME Init PROVE Typed
  BY TypedIsTypeOK
<1>1. db \in [Txns -> Hold]
  <2>1. PICK c \in Claims : db = [t \in Txns |-> IF t \in OldHolds THEN Settled(c) ELSE Opened]
    BY DEF Init
  <2>2. Settled(c) \in Hold
    <3>1. <<c>> \in Seq(Claims)
      BY <2>1
    <3> QED BY <3>1 DEF Settled, Hold, Statuses, Terminal
  <2>3. Opened \in Hold
    BY DEF Opened, Hold, Statuses, Terminal
  <2> QED BY <2>1, <2>2, <2>3
<1>2. ui = FreshPage /\ table = EmptyTable /\ last = NoSearch /\ json = FreshJson
  BY DEF Init
<1> QED BY <1>1, <1>2, FreshTyped DEF Typed, Init

(* Every action of the table keeps the types. *)
LEMMA SearchStepTyped == Typed /\ SearchStep => Typed'
<1> SUFFICES ASSUME Typed, NEW s \in searches,
                    CountHolds(s) \/ ReadHolds(s) \/ SearchAnswered(s) \/ SearchFailed(s)
             PROVE  Typed'
  BY DEF SearchStep
<1>1. /\ s \in Search /\ ui \in Ui /\ searches \subseteq Search
      /\ Found(s.q, s.sf) \in Seq({t \in Txns : Selects(s.q, s.sf, t)})
      /\ RowsOf(s) \in Seq(Row)
  BY FoundSelects, RowsRead DEF Typed
<1>2. CASE CountHolds(s)
  <2>1. [s EXCEPT !.at = "counted", !.total = Len(Found(s.q, s.sf))] \in Search
    <3>1. Len(Found(s.q, s.sf)) \in Nat
      BY <1>1
    <3> QED BY <1>1, <3>1, SearchCounted
  <2>2. searches' \subseteq Search
    BY <1>1, <1>2, <2>1 DEF CountHolds
  <2> QED BY <1>2, <2>2 DEF CountHolds, server, drawer, Typed
<1>3. CASE ReadHolds(s)
  <2>1. [s EXCEPT !.at = "read", !.rows = RowsOf(s)] \in Search
    BY <1>1, SearchRead
  <2>2. searches' = (searches \ {s}) \cup {[s EXCEPT !.at = "read", !.rows = RowsOf(s)]}
    BY <1>3 DEF ReadHolds, RowsOf
  <2>3. searches' \subseteq Search
    BY <1>1, <2>1, <2>2
  <2> QED BY <1>3, <2>3 DEF ReadHolds, server, drawer, Typed
<1>4. CASE SearchAnswered(s)
  <2>1. [ui EXCEPT !.loading = FALSE] \in Ui
    BY <1>1 DEF Ui
  <2>2. [rows |-> s.rows, total |-> s.total, from |-> s.id] \in Table
    BY <1>1 DEF Search, Table
  <2>3. searches' \subseteq Search /\ ui' \in Ui /\ table' \in Table
    BY <1>1, <1>4, <2>1, <2>2 DEF SearchAnswered
  <2> QED BY <1>4, <2>3 DEF SearchAnswered, server, drawer, Typed
<1>5. CASE SearchFailed(s)
  <2>1. [ui EXCEPT !.loading = FALSE, !.error = TRUE] \in Ui
    BY <1>1 DEF Ui
  <2>2. searches' \subseteq Search /\ ui' \in Ui
    BY <1>1, <1>5, <2>1 DEF SearchFailed
  <2> QED BY <1>5, <2>2 DEF SearchFailed, server, drawer, Typed
<1> QED BY <1>2, <1>3, <1>4, <1>5

(* So does every step of a detail. *)
LEMMA DetailStepTyped == Typed /\ DetailStep => Typed'
<1> SUFFICES ASSUME Typed, NEW d \in details,
                    ReadDetail(d) \/ DetailAnswered(d) \/ DetailFailed(d)
             PROVE  Typed'
  BY DEF DetailStep
<1>1. d \in Detail /\ details \subseteq Detail /\ db \in [Txns -> Hold] /\ json \in Json
  BY DEF Typed
<1>2. CASE ReadDetail(d)
  <2>0. PICK v \in Answers(d) : details' = (details \ {d}) \cup {Advanced(d, v)}
    BY <1>2 DEF ReadDetail, Advanced, Answers, Replies
  <2>1. Advanced(d, v) \in Detail
    BY <1>1, <1>2, DetailAdvanced DEF ReadDetail
  <2>2. details' = (details \ {d}) \cup {Advanced(d, v)}
    BY <2>0
  <2>3. details' \subseteq Detail
    BY <1>1, <2>1, <2>2
  <2> QED BY <1>2, <2>3 DEF ReadDetail, server, results, Typed
<1>3. CASE DetailAnswered(d)
  <2>1. [txn |-> d.txn, seen |-> d.seen] \in Shown
    BY <1>1 DEF Detail, Shown
  <2>2. selectedTxn' \in Shown \cup {NoDetail} /\ json' \in Json /\ details' \subseteq Detail
    BY <1>1, <1>3, <2>1, JsonTyped DEF DetailAnswered
  <2> QED BY <1>3, <2>2 DEF DetailAnswered, server, results, Typed
<1>4. CASE DetailFailed(d)
  BY <1>1, <1>4 DEF DetailFailed, server, results, Typed
<1> QED BY <1>2, <1>3, <1>4

(* And whatever the operator does. *)
LEMMA OperatorTyped == Typed /\ Operator => Typed'
<1> SUFFICES ASSUME Typed, Operator PROVE Typed'
  OBVIOUS
<1>0. /\ ui \in Ui /\ json \in Json /\ sent \in Nat /\ searches \subseteq Search
      /\ details \subseteq Detail
  BY DEF Typed
<1>1. ASSUME NEW q \in Queries, Type(q) PROVE Typed'
  <2>1. [ui EXCEPT !.query = q] \in Ui
    BY <1>0 DEF Ui
  <2>2. ui' \in Ui
    BY <1>1, <2>1 DEF Type
  <2> QED BY <1>1, <2>2 DEF Type, server, drawer, Typed
<1>2. CASE handleKeyDown \/ (\E sf \in Filters : handleFilterClick(sf))
             \/ (\E p \in {ui.page - 1, ui.page + 1} : handlePage(p))
  <2>1. PICK sf, p, set : Asked(sf, p, set)
    BY <1>2, TypedIsTypeOK, Handlers
  <2>2. /\ sent' \in Nat /\ ui' \in Ui /\ last' \in Last /\ searches' \subseteq Search
        /\ UNCHANGED <<server, table, drawer>>
    BY <1>0, <2>1, TypedIsTypeOK, SearchSent
  <2> QED BY <2>2 DEF server, drawer, Typed
<1>3. ASSUME NEW t \in Txns, handleRowClick(t) PROVE Typed'
  <2>1. [id |-> sent + 1, txn |-> t, at |-> 0, seen |-> Unread] \in Detail
    <3>1. Unread \in Seen
      BY DEF Unread, Seen, Statuses
    <3> QED BY <1>0, <3>1 DEF Detail, ReadOrder
  <2>2. details' \subseteq Detail
    BY <1>0, <1>3, <2>1 DEF handleRowClick
  <2>3. selectedTxn' = NoDetail /\ json' \in Json
    BY <1>0, <1>3, JsonTyped DEF handleRowClick
  <2>4. drawerOpen' = TRUE /\ sent' \in Nat
    BY <1>0, <1>3 DEF handleRowClick
  <2>5. clicked' \in Txns /\ crossed' \in BOOLEAN
    BY <1>3 DEF handleRowClick
  <2> QED BY <1>3, <2>2, <2>3, <2>4, <2>5 DEF handleRowClick, server, results, Typed
<1>4. CASE onClose
  <2>1. selectedTxn' = NoDetail /\ json' \in Json
    BY <1>0, <1>4, JsonTyped DEF onClose
  <2>2. drawerOpen' = FALSE
    BY <1>4 DEF onClose
  <2> QED BY <1>4, <2>1, <2>2 DEF onClose, server, results, Typed
<1>5. CASE handleCopy
  <2>1. selectedTxn.txn \in Txns
    BY <1>5 DEF handleCopy, JsonShown, Typed, Shown
  <2> DEFINE x == selectedTxn.txn
  <2>2. json' = [json EXCEPT !.copying = x]
    BY <1>5 DEF handleCopy
  <2> HIDE DEF x
  <2>3. json' \in Json
    BY <1>0, <2>1, <2>2, JsonChanged DEF x
  <2> QED BY <1>5, <2>3 DEF handleCopy, BlockOnly, server, results, Typed
<1>7. CASE Leave
  <2>1. NotMounted \in Ui /\ EmptyTable \in Table /\ NoSearch \in Last
    BY FreshTyped
  <2>2. selectedTxn' = NoDetail /\ json' \in Json
    BY <1>0, <1>7, JsonTyped DEF Leave
  <2>3. drawerOpen' = FALSE
    BY <1>7 DEF Leave
  <2> QED BY <1>7, <2>1, <2>2, <2>3 DEF Leave, server, Typed
<1>8. CASE Visit
  <2> QED BY <1>8, FreshTyped DEF Visit, server, drawer, Typed
<1> QED BY <1>1, <1>2, <1>3, <1>4, <1>5, <1>7, <1>8 DEF Operator

(* Every step keeps the types. *)
LEMMA StepTyped == TypeOK /\ [Next]_vars => TypeOK'
<1> SUFFICES ASSUME Typed, [Next]_vars PROVE Typed'
  <2>1. TypeOK' <=> Typed'
    BY DEF TypeOK, Typed, Ui, Last, Json, Shown, Table
  <2> QED BY <2>1, TypedIsTypeOK
<1>1. CASE Database
  <2>1. db' \in [Txns -> Hold] /\ changes' = changes + 1 /\ UNCHANGED <<sent, results, drawer>>
    BY <1>1, TypedIsTypeOK, DatabaseStep
  <2>2. changes' \in Nat
    <3>1. changes \in Nat
      BY DEF Typed
    <3>2. changes' = changes + 1
      BY <2>1
    <3> QED BY <3>1, <3>2
  <2>3. UNCHANGED <<sent, searches, details, ui, table, drawerOpen, selectedTxn, json,
                    last, clicked, crossed>>
    BY <2>1 DEF results, drawer
  <2> QED BY <2>1, <2>2, <2>3 DEF Typed
<1>2. CASE CopySettled \/ CopyTimer
  <2>1. json \in Json /\ json.timers \in Nat /\ json.copying \in Txns \cup {NoTxn}
    BY DEF Typed, Json
  <2>2. json' \in Json
    <3>1. CASE CopySettled
      <4> DEFINE n == json.timers + 1
      <4>1. PICK w \in {json.copying, NoTxn} :
              json' = [json EXCEPT !.copied = TRUE, !.timers = n, !.copying = NoTxn, !.holds = w]
        BY <3>1 DEF CopySettled
      <4>2. n \in Nat /\ w \in Txns \cup {NoTxn}
        BY <2>1
      <4> HIDE DEF n
      <4> QED BY <2>1, <4>1, <4>2, JsonChanged
    <3>2. CASE CopyTimer
      <4> DEFINE n == json.timers - 1
      <4>1. json' = [json EXCEPT !.copied = FALSE, !.timers = n, !.holds = NoTxn]
        BY <3>2 DEF CopyTimer
      <4>2. n \in Nat
        BY <2>1, <3>2 DEF CopyTimer
      <4> HIDE DEF n
      <4> QED BY <2>1, <4>1, <4>2, JsonChanged
    <3> QED BY <1>2, <3>1, <3>2
  <2> QED BY <1>2, <2>2 DEF CopySettled, CopyTimer, BlockOnly, server, results, Typed
<1>3. CASE UNCHANGED vars
  BY <1>3 DEF vars, server, results, drawer, Typed
<1> QED BY <1>1, <1>2, <1>3, SearchStepTyped, DetailStepTyped, OperatorTyped DEF Next

(* Type correctness: the page's state has the types TransactionsPage gives it. *)
THEOREM PageTyped == Spec => []TypeOK
<1>1. TypeOK /\ [Next]_vars => TypeOK'
  BY StepTyped
<1> QED BY <1>1, InitTyped, PTL DEF Spec

-------------------------------------------------------------------------------
(* The drawer.                                                             *)

(* What was read of a hold is final: its status once it is terminal, and which of its
   webhooks was the first. *)
StillTrue(t, seen) ==
    /\ seen.status \in Terminal => db[t].status = seen.status
    /\ seen.webhooks # <<>> =>
         db[t].webhooks # <<>> /\ Head(db[t].webhooks) = Head(seen.webhooks)

Explained(seen) == seen.status \in Terminal /\ ~seen.lost => seen.ledger = seen.status

(* Of every hold, every detail in flight and the one that is shown.  The status is the
   first that is read and the ledger the third. *)
Recorded(hold) == hold.status \in Terminal => hold.ledger = hold.status

ReadsAreTrue ==
    /\ \A t \in Txns : Recorded(db[t])
    /\ \A d \in details : StillTrue(d.txn, d.seen) /\ (d.at >= 3 => Explained(d.seen))
    /\ selectedTxn # NoDetail =>
         StillTrue(selectedTxn.txn, selectedTxn.seen) /\ Explained(selectedTxn.seen)

(* Unless a row was clicked over an unanswered one, a single answer is to come, that of
   the row clicked last, and none once it is shown. *)
OneWriter ==
    ~crossed =>
      /\ \A d \in details : d.txn = clicked
      /\ \A d, e \in details : d = e
      /\ selectedTxn # NoDetail => details = {} /\ selectedTxn.txn = clicked

(* A copy under way is of what is shown, and a mark is for such a copy. *)
MarkIsShown ==
    /\ selectedTxn = NoDetail => json.copying = NoTxn /\ ~json.copied
    /\ ~crossed =>
         /\ json.copying \in {selectedTxn.txn, NoTxn}
         /\ json.copied => json.holds \in {selectedTxn.txn, NoTxn}

DrawerInv == ReadsAreTrue /\ OneWriter /\ MarkIsShown

(* Something shown is not the empty drawer. *)
LEMMA ShownIsDetail ==
    ASSUME NEW d \in Shown
    PROVE  d # NoDetail /\ d.txn \in Txns /\ d.seen \in Seen
<1>1. d.txn \in Txns /\ d.seen \in Seen
  BY DEF Shown
<1>2. d.txn # NoTxn
  BY <1>1, ConstantsOK
<1>3. NoDetail.txn = NoTxn
  BY DEF NoDetail
<1> QED BY <1>1, <1>2, <1>3

(* An emptied drawer has a block that copied nothing. *)
LEMMA EmptiedDrawer ==
    ASSUME ShowDetail(NoDetail)
    PROVE  selectedTxn' = NoDetail /\ ~json'.copied /\ json'.copying = NoTxn
BY DEF ShowDetail, FreshJson

(* The page opens with an empty, closed drawer. *)
LEMMA InitDrawer == Init => DrawerInv
<1> SUFFICES ASSUME Init PROVE DrawerInv
  OBVIOUS
<1>1. \A t \in Txns : Recorded(db[t])
  <2>1. PICK c \in Claims : db = [t \in Txns |-> IF t \in OldHolds THEN Settled(c) ELSE Opened]
    BY DEF Init
  <2> QED BY <2>1 DEF Recorded, Settled, Opened, Terminal
<1> QED BY <1>1
        DEF Init, DrawerInv, ReadsAreTrue, OneWriter, MarkIsShown, FreshJson

(* Steps of the table leave the database and the drawer alone, and the page mounted. *)
LEMMA TableSteps ==
    ASSUME TypeOK,
           SearchStep \/ (\E q \in Queries : Type(q)) \/ handleKeyDown
             \/ (\E sf \in Filters : handleFilterClick(sf))
             \/ (\E p \in {ui.page - 1, ui.page + 1} : handlePage(p))
    PROVE  UNCHANGED <<db, changes, drawer>> /\ ui'.mounted = ui.mounted
<1>0. ui \in Ui
  BY DEF TypeOK, Ui
<1>1. CASE SearchStep
  <2>1. PICK s \in searches :
          CountHolds(s) \/ ReadHolds(s) \/ SearchAnswered(s) \/ SearchFailed(s)
    BY <1>1 DEF SearchStep
  <2>2. UNCHANGED <<db, changes, drawer>>
    BY <2>1 DEF CountHolds, ReadHolds, SearchAnswered, SearchFailed, server
  <2>3. ui'.mounted = ui.mounted
    BY <1>0, <2>1 DEF CountHolds, ReadHolds, SearchAnswered, SearchFailed, Ui
  <2> QED BY <2>2, <2>3
<1>2. ASSUME NEW q \in Queries, Type(q)
      PROVE  UNCHANGED <<db, changes, drawer>> /\ ui'.mounted = ui.mounted
  BY <1>0, <1>2 DEF Type, server, Ui
<1>3. CASE handleKeyDown \/ (\E sf \in Filters : handleFilterClick(sf))
             \/ (\E p \in {ui.page - 1, ui.page + 1} : handlePage(p))
  <2>1. PICK sf, p, set : Asked(sf, p, set)
    BY <1>3, Handlers
  <2> QED BY <2>1, SearchSent DEF server
<1> QED BY <1>1, <1>2, <1>3

(* The database only adds to what was read: a terminal status stays, and so does the
   first webhook. *)
LEMMA DatabaseKeepsReads ==
    ASSUME TypeOK, ReadsAreTrue, Database
    PROVE  ReadsAreTrue'
<1>1. UNCHANGED <<details, selectedTxn>>
  BY DatabaseStep DEF drawer
<1>2. db \in [Txns -> Hold]
  BY DEF TypeOK
<1>3. ASSUME NEW t \in Txns
      PROVE  /\ Recorded(db'[t])
             /\ db[t].status \in Terminal => db'[t].status = db[t].status
             /\ db[t].webhooks # <<>> =>
                  db'[t].webhooks # <<>> /\ Head(db'[t].webhooks) = Head(db[t].webhooks)
  <2>1. Recorded(db[t]) /\ db[t].webhooks \in Seq(Claims)
    BY <1>2 DEF ReadsAreTrue, Hold
  <2>2. CASE db'[t] = db[t]
    BY <2>1, <2>2
  <2>3. ASSUME NEW st \in Terminal,
               db[t].status = "VERIFYING", db'[t].webhooks = db[t].webhooks,
               db'[t].status = st, db'[t].ledger = st
        PROVE  /\ Recorded(db'[t]) /\ db[t].status \notin Terminal
               /\ db'[t].webhooks = db[t].webhooks
    BY <2>3 DEF Recorded, Terminal
  <2>4. ASSUME NEW c \in Claims,
               db'[t].status = db[t].status, db'[t].ledger = db[t].ledger,
               db'[t].webhooks = Append(db[t].webhooks, c)
        PROVE  /\ Recorded(db'[t])
               /\ db[t].webhooks # <<>> =>
                    db'[t].webhooks # <<>> /\ Head(db'[t].webhooks) = Head(db[t].webhooks)
    BY <2>1, <2>4 DEF Recorded
  <2> QED BY <2>2, <2>3, <2>4, DatabaseStep
<1>4. ASSUME NEW t \in Txns, NEW seen, StillTrue(t, seen)
      PROVE  StillTrue(t, seen)'
  BY <1>3, <1>4 DEF StillTrue
<1>5. \A d \in details : d.txn \in Txns
  BY DEF TypeOK, Detail
<1>6. selectedTxn # NoDetail => selectedTxn.txn \in Txns
  BY ShownIsDetail DEF TypeOK, Shown
<1> QED BY <1>1, <1>3, <1>4, <1>5, <1>6 DEF ReadsAreTrue

(* A query of a detail, its answer or its failure. *)
LEMMA DetailKeepsDrawer ==
    ASSUME TypeOK, DrawerInv, DetailStep
    PROVE  DrawerInv'
<1>1. PICK d \in details : ReadDetail(d) \/ DetailAnswered(d) \/ DetailFailed(d)
  BY DEF DetailStep
<1>2. /\ d \in Detail /\ d.txn \in Txns /\ d.seen \in Seen
      /\ db \in [Txns -> Hold] /\ UNCHANGED <<db, ui, clicked, crossed>>
  BY <1>1 DEF TypeOK, Detail, ReadDetail, DetailAnswered, DetailFailed, server, results
<1>4. StillTrue(d.txn, d.seen) /\ (d.at >= 3 => Explained(d.seen)) /\ Recorded(db[d.txn])
  BY <1>2 DEF DrawerInv, ReadsAreTrue
<1>5. CASE ReadDetail(d)
  <2>0. PICK v \in Answers(d) : details' = (details \ {d}) \cup {Advanced(d, v)}
    BY <1>5 DEF ReadDetail, Advanced, Answers, Replies
  <2> DEFINE n == Advanced(d, v)
  <2>1. /\ details' = (details \ {d}) \cup {n}
        /\ UNCHANGED <<selectedTxn, json>> /\ d.at < Len(ReadOrder)
    BY <1>5, <2>0 DEF ReadDetail
  <2>2. /\ n.txn = d.txn /\ n.at = d.at + 1
        /\ n.seen.status = IF d.at = 0 THEN db[d.txn].status ELSE d.seen.status
        /\ \/ n.seen.webhooks = d.seen.webhooks
           \/ n.seen.webhooks # <<>> =>
                /\ db[d.txn].webhooks # <<>>
                /\ Head(n.seen.webhooks) = Head(db[d.txn].webhooks)
        /\ d.at # 2 => n.seen.ledger = d.seen.ledger /\ n.seen.lost = d.seen.lost
        /\ d.at = 2 => n.seen.lost \/ n.seen.ledger = db[d.txn].ledger
    BY <1>2, <2>1, DetailAdvanced
  <2> HIDE DEF n
  <2>3. StillTrue(n.txn, n.seen)
    BY <1>4, <2>2 DEF StillTrue
  <2>4. n.at >= 3 => Explained(n.seen)
    <3>1. CASE d.at = 2
      BY <1>4, <2>2, <3>1 DEF StillTrue, Explained, Recorded
    <3>2. CASE d.at # 2
      <4>1. d.at \in Nat
        BY <1>2 DEF Detail
      <4>2. n.at >= 3 => d.at >= 3 /\ d.at # 0
        BY <2>2, <3>2, <4>1
      <4> QED BY <1>4, <2>2, <3>2, <4>2 DEF Explained
    <3> QED BY <3>1, <3>2
  <2>5. ReadsAreTrue'
    BY <1>2, <2>1, <2>3, <2>4 DEF DrawerInv, ReadsAreTrue, StillTrue
  <2>6. OneWriter'
    BY <1>2, <2>1, <2>2 DEF DrawerInv, OneWriter
  <2>7. MarkIsShown'
    BY <1>2, <2>1 DEF DrawerInv, MarkIsShown
  <2> QED BY <2>5, <2>6, <2>7 DEF DrawerInv
<1>6. CASE DetailAnswered(d)
  <2> DEFINE shown == [txn |-> d.txn, seen |-> d.seen]
  <2>1. details' = details \ {d} /\ ShowDetail(shown) /\ d.at = Len(ReadOrder)
    BY <1>6 DEF DetailAnswered
  <2>2. shown \in Shown /\ shown.txn = d.txn /\ shown.seen = d.seen
    BY <1>2 DEF Shown
  <2> HIDE DEF shown
  <2>3. selectedTxn' = shown /\ shown # NoDetail
    BY <2>1, <2>2, ShownIsDetail DEF ShowDetail
  <2>4. d.at >= 3
    BY <2>1 DEF ReadOrder
  <2>5. ReadsAreTrue'
    BY <1>2, <1>4, <2>1, <2>2, <2>3, <2>4 DEF DrawerInv, ReadsAreTrue, StillTrue
  <2>6. OneWriter'
    BY <1>2, <2>1, <2>2, <2>3 DEF DrawerInv, OneWriter
  <2>7. MarkIsShown'
    <3>1. CASE crossed
      BY <1>2, <2>3, <3>1 DEF MarkIsShown
    <3>2. CASE ~crossed
      <4>1. selectedTxn = NoDetail
        BY <3>2 DEF DrawerInv, OneWriter
      <4>2. json' = FreshJson
        BY <2>1, <4>1 DEF ShowDetail
      <4> QED BY <4>2 DEF MarkIsShown, FreshJson
    <3> QED BY <3>1, <3>2
  <2> QED BY <2>5, <2>6, <2>7 DEF DrawerInv
<1>7. CASE DetailFailed(d)
  <2>1. details' = details \ {d} /\ UNCHANGED <<selectedTxn, json>>
    BY <1>7 DEF DetailFailed
  <2>2. ReadsAreTrue'
    BY <1>2, <2>1 DEF DrawerInv, ReadsAreTrue, StillTrue
  <2>3. OneWriter' /\ MarkIsShown'
    BY <1>2, <2>1 DEF DrawerInv, OneWriter, MarkIsShown
  <2> QED BY <2>2, <2>3 DEF DrawerInv
<1> QED BY <1>1, <1>5, <1>6, <1>7

(* Every step keeps the drawer's invariant. *)
LEMMA StepDrawer == TypeOK /\ DrawerInv /\ [Next]_vars => DrawerInv'
<1> SUFFICES ASSUME TypeOK, DrawerInv, [Next]_vars PROVE DrawerInv'
  OBVIOUS
<1>0. ui \in Ui /\ json \in Json
  BY DEF TypeOK, Ui, Json
<1>1. CASE UNCHANGED vars
  BY <1>1 DEF vars, server, results, drawer, DrawerInv, ReadsAreTrue, StillTrue, OneWriter,
              MarkIsShown
<1>2. CASE Database
  <2>1. ReadsAreTrue'
    BY <1>2, DatabaseKeepsReads DEF DrawerInv
  <2>2. UNCHANGED <<results, drawer>>
    BY <1>2, DatabaseStep
  <2> QED BY <2>1, <2>2 DEF results, drawer, DrawerInv, OneWriter, MarkIsShown
<1>3. CASE SearchStep \/ (\E q \in Queries : Type(q)) \/ handleKeyDown
             \/ (\E sf \in Filters : handleFilterClick(sf))
             \/ (\E p \in {ui.page - 1, ui.page + 1} : handlePage(p))
  <2>1. UNCHANGED <<db, drawer>> /\ ui'.mounted = ui.mounted
    BY <1>3, TableSteps
  <2> QED BY <2>1 DEF drawer, DrawerInv, ReadsAreTrue, StillTrue, OneWriter, MarkIsShown
<1>4. CASE DetailStep
  BY <1>4, DetailKeepsDrawer
<1>5. ASSUME NEW t \in Txns, handleRowClick(t) PROVE DrawerInv'
  <2> DEFINE d == [id |-> sent + 1, txn |-> t, at |-> 0, seen |-> Unread]
  <2>1. /\ UNCHANGED <<db, ui>> /\ ui.mounted
        /\ details' = details \cup {d} /\ clicked' = t /\ crossed' = (details # {})
        /\ selectedTxn' = NoDetail /\ ~json'.copied /\ json'.copying = NoTxn
        /\ drawerOpen' = TRUE
    BY <1>5, EmptiedDrawer DEF handleRowClick, server, results
  <2>2. d.txn = t /\ d.at = 0 /\ StillTrue(t, d.seen)
    BY DEF StillTrue, Unread, Terminal
  <2> HIDE DEF d
  <2>3. ReadsAreTrue'
    BY <2>1, <2>2 DEF DrawerInv, ReadsAreTrue, StillTrue
  <2>4. OneWriter' /\ MarkIsShown'
    BY <2>1, <2>2 DEF OneWriter, MarkIsShown
  <2> QED BY <2>3, <2>4 DEF DrawerInv
<1>6. CASE onClose
  <2>1. /\ UNCHANGED <<db, ui, details, clicked, crossed>>
        /\ selectedTxn' = NoDetail /\ ~json'.copied /\ json'.copying = NoTxn
        /\ drawerOpen' = FALSE
    BY <1>6, EmptiedDrawer DEF onClose, server, results
  <2>2. ReadsAreTrue'
    BY <2>1 DEF DrawerInv, ReadsAreTrue, StillTrue
  <2>3. OneWriter' /\ MarkIsShown'
    BY <2>1 DEF DrawerInv, OneWriter, MarkIsShown
  <2> QED BY <2>2, <2>3 DEF DrawerInv
<1>8. CASE handleCopy
  <2> DEFINE x == selectedTxn.txn
  <2>1. /\ UNCHANGED <<db, ui, details, selectedTxn, clicked, crossed, drawerOpen>>
        /\ selectedTxn # NoDetail /\ x \in Txns /\ json' = [json EXCEPT !.copying = x]
    BY <1>8 DEF handleCopy, BlockOnly, JsonShown, server, results, TypeOK
  <2> HIDE DEF x
  <2>2. /\ json'.copying = x /\ json'.copied = json.copied
        /\ json'.holds = json.holds
    BY <1>0, <2>1 DEF Json
  <2>3. ReadsAreTrue'
    BY <2>1 DEF DrawerInv, ReadsAreTrue, StillTrue
  <2>4. OneWriter' /\ MarkIsShown'
    BY <2>1, <2>2 DEF DrawerInv, OneWriter, MarkIsShown, x
  <2> QED BY <2>3, <2>4 DEF DrawerInv
<1>9. CASE CopySettled \/ CopyTimer
  <2>1. UNCHANGED <<db, ui, details, selectedTxn, clicked, crossed, drawerOpen>>
    BY <1>9 DEF CopySettled, CopyTimer, BlockOnly, server, results
  <2>2. json.timers \in Nat /\ json.copying \in Txns \cup {NoTxn}
    BY <1>0 DEF Json
  <2>3. ReadsAreTrue' /\ OneWriter'
    BY <2>1 DEF DrawerInv, ReadsAreTrue, StillTrue, OneWriter
  <2>4. ASSUME CopySettled PROVE MarkIsShown'
    <3> DEFINE n == json.timers + 1
    <3>1. PICK w \in {json.copying, NoTxn} :
            json' = [json EXCEPT !.copied = TRUE, !.timers = n, !.copying = NoTxn, !.holds = w]
      BY <2>4 DEF CopySettled
    <3>2. n \in Nat /\ w \in Txns \cup {NoTxn} /\ json.copying # NoTxn
      BY <2>2, <2>4 DEF CopySettled
    <3> HIDE DEF n
    <3>3. json'.copying = NoTxn /\ json'.holds = w
      BY <1>0, <3>1, <3>2 DEF Json
    <3> QED BY <2>1, <3>2, <3>3 DEF DrawerInv, MarkIsShown
  <2>5. ASSUME CopyTimer PROVE MarkIsShown'
    <3> DEFINE n == json.timers - 1
    <3>1. json' = [json EXCEPT !.copied = FALSE, !.timers = n, !.holds = NoTxn]
      BY <2>5 DEF CopyTimer
    <3> HIDE DEF n
    <3>2. json'.copying = json.copying /\ ~json'.copied
      BY <1>0, <3>1 DEF Json
    <3> QED BY <2>1, <3>2 DEF DrawerInv, MarkIsShown
  <2> QED BY <1>9, <2>3, <2>4, <2>5 DEF DrawerInv
<1>10. CASE Leave
  <2>1. /\ UNCHANGED db /\ details' = {}
        /\ selectedTxn' = NoDetail /\ ~json'.copied /\ json'.copying = NoTxn
        /\ drawerOpen' = FALSE
    BY <1>10, EmptiedDrawer DEF Leave, server
  <2> QED BY <2>1 DEF DrawerInv, ReadsAreTrue, OneWriter, MarkIsShown
<1>11. CASE Visit
  <2>1. UNCHANGED <<db, drawer>> /\ ui' = FreshPage
    BY <1>11 DEF Visit, server
  <2>2. ui'.mounted
    BY <2>1 DEF FreshPage
  <2> QED BY <2>1, <2>2 DEF drawer, DrawerInv, ReadsAreTrue, StillTrue, OneWriter, MarkIsShown
<1> QED BY <1>1, <1>2, <1>3, <1>4, <1>5, <1>6, <1>8, <1>9, <1>10, <1>11
        DEF Next, Operator

(* The drawer's invariant holds of every state of every behaviour. *)
LEMMA DrawerHolds == Spec => [](TypeOK /\ DrawerInv)
<1>1. TypeOK /\ DrawerInv /\ [Next]_vars => (TypeOK /\ DrawerInv)'
  BY StepTyped, StepDrawer
<1>2. Init => TypeOK /\ DrawerInv
  BY InitTyped, InitDrawer
<1> QED BY <1>1, <1>2, PTL DEF Spec

(* A drawer that is open shows the transaction of the row it was opened from, unless
   that row was clicked over an unanswered one. *)
THEOREM DrawerIsOfTheRow == Spec => []DrawerShowsClicked
<1>1. DrawerInv => DrawerShowsClicked
  BY DEF DrawerInv, OneWriter, DrawerShowsClicked
<1> QED BY <1>1, DrawerHolds, PTL

(* A final status in the drawer comes with the transition that reached it, whatever is
   committed between the queries it was read with and whichever of them fail, save the
   ledger's own. *)
THEOREM StatusIsExplained == Spec => []TimelineExplainsStatus
<1>1. DrawerInv => TimelineExplainsStatus
  BY DEF DrawerInv, ReadsAreTrue, Explained, TimelineExplainsStatus
<1> QED BY <1>1, DrawerHolds, PTL

(* The drawer's verdict and the Mismatches page say the same of a confirmed payment. *)
THEOREM VerdictsAgree == Spec => []VerdictAgreesWithMismatches
<1>1. TypeOK /\ DrawerInv => VerdictAgreesWithMismatches
  <2> SUFFICES ASSUME TypeOK, DrawerInv, selectedTxn # NoDetail,
                      selectedTxn.seen.status = "CONFIRMED",
                      selectedTxn.seen.webhooks # <<>>
               PROVE  buildVerdict(selectedTxn.seen) = "overruled"
                        <=> selectedTxn.txn \in mismatchQuery
    BY DEF VerdictAgreesWithMismatches
  <2> DEFINE seen == selectedTxn.seen
             t == selectedTxn.txn
  <2>1. StillTrue(t, seen) /\ t \in Txns
    BY ShownIsDetail DEF TypeOK, Shown, DrawerInv, ReadsAreTrue
  <2>2. /\ db[t].status = "CONFIRMED" /\ db[t].webhooks # <<>>
        /\ Head(db[t].webhooks) = Head(seen.webhooks)
    BY <2>1 DEF StillTrue, Terminal
  <2>3. buildVerdict(seen) = "overruled" <=> Head(seen.webhooks) = "fail"
    <3>1. CASE Head(seen.webhooks) = "fail"
      BY <3>1 DEF buildVerdict
    <3>2. CASE Head(seen.webhooks) # "fail"
      <4>1. buildVerdict(seen) = "confirmed"
        BY <3>2 DEF buildVerdict
      <4> QED BY <3>2, <4>1
    <3> QED BY <3>1, <3>2
  <2>4. t \in mismatchQuery <=> Head(db[t].webhooks) = "fail"
    BY <2>1, <2>2 DEF mismatchQuery
  <2> QED BY <2>2, <2>3, <2>4
<1> QED BY <1>1, DrawerHolds, PTL

(* "Copied!" under a payload means that this payload was copied, with the same
   exception and that of a copy which wrote nothing. *)
THEOREM CopiedMeansThis == Spec => []CopiedIsShown
<1>1. DrawerInv => CopiedIsShown
  BY DEF DrawerInv, MarkIsShown, CopiedIsShown
<1> QED BY <1>1, DrawerHolds, PTL

-------------------------------------------------------------------------------
(* The table.                                                              *)

(* A count and a page of rows that were read for a text, a filter and a page number:
   every row has the status asked for and, as long as holds do not move, they are the
   count and the page of now. *)
CountIs(n, q, sf) == changes = 0 => n = Len(Found(q, sf))

RowsAre(rows, q, sf, p) ==
    /\ \A i \in 1..Len(rows) : sf \in {"all", rows[i].status}
    /\ changes = 0 => [i \in 1..Len(rows) |-> rows[i].txn] = PageOf(Found(q, sf), p)

(* The page exists: holds are found beyond the pages before it. *)
PageExists(q, sf, p) == changes = 0 => p = 1 \/ (p - 1) * PageSize < Len(Found(q, sf))

(* Of a search in flight: what it has read, and that the latest one is last. *)
SearchTrue(s) ==
    /\ s.id \in 1..sent
    /\ s.id = last.id => s.q = last.q /\ s.sf = last.sf /\ s.p = last.p
    /\ s.at # "sent" => CountIs(s.total, s.q, s.sf)
    /\ s.at = "read" => RowsAre(s.rows, s.q, s.sf, s.p)

ControlsAreLast ==
    ui.submitted => last.id >= 1 /\ ui.statusFilter = last.sf /\ ui.page = last.p

(* The table of the latest search is its answer. *)
TableTrue ==
    table.from = last.id /\ last.id >= 1 =>
      CountIs(table.total, last.q, last.sf) /\ RowsAre(table.rows, last.q, last.sf, last.p)

(* A page is turned only to one that exists, unless it is turned for another text. *)
TurnedInside == last.id >= 1 /\ ~last.stray => PageExists(last.q, last.sf, last.p)

TableInv ==
    /\ last.id \in 0..sent /\ table.from \in 0..sent
    /\ \A s \in searches : SearchTrue(s)
    /\ ControlsAreLast /\ TableTrue /\ TurnedInside

(* The pager goes to pages that exist: it rounds the number of pages up. *)
LEMMA PagerBounds ==
    ASSUME NEW n \in Nat, NEW k \in Nat \ {0}, NEW p \in Nat, p < (n + k - 1) \div k
    PROVE  p * k < n
<1> DEFINE d == (n + k - 1) \div k
<1>1. d \in Nat /\ d * k <= n + k - 1
  OBVIOUS
<1> HIDE DEF d
<1>2. (p + 1) * k <= d * k
  BY <1>1 DEF d
<1>3. (p + 1) * k = p * k + k
  OBVIOUS
<1> QED BY <1>1, <1>2, <1>3

(* A step moves no hold or is counted as a change. *)
LEMMA StandsOrChanges ==
    ASSUME TypeOK, [Next]_vars
    PROVE  UNCHANGED <<db, changes>> \/ changes' # 0
<1>1. CASE Database
  <2>1. changes' = changes + 1 /\ changes \in Nat
    BY <1>1, DatabaseStep DEF TypeOK
  <2> QED BY <2>1
<1>2. CASE SearchStep
  BY <1>2, TableSteps
<1>3. CASE DetailStep
  BY <1>3 DEF DetailStep, ReadDetail, DetailAnswered, DetailFailed, server
<1>4. CASE Operator
  <2>1. CASE (\E q \in Queries : Type(q)) \/ handleKeyDown
               \/ (\E sf \in Filters : handleFilterClick(sf))
               \/ (\E p \in {ui.page - 1, ui.page + 1} : handlePage(p))
    BY <2>1, TableSteps
  <2>2. CASE (\E t \in Txns : handleRowClick(t)) \/ onClose \/ handleCopy
               \/ Leave \/ Visit
    BY <2>2 DEF handleRowClick, onClose, handleCopy, BlockOnly, Leave, Visit, server
  <2> QED BY <1>4, <2>1, <2>2 DEF Operator
<1>5. CASE CopySettled \/ CopyTimer
  BY <1>5 DEF CopySettled, CopyTimer, BlockOnly, server
<1>6. CASE UNCHANGED vars
  BY <1>6 DEF vars, server
<1> QED BY <1>1, <1>2, <1>3, <1>4, <1>5, <1>6 DEF Next

(* What was read stays so. *)
LEMMA ReadsKept ==
    ASSUME UNCHANGED <<db, changes>> \/ changes' # 0
    PROVE  /\ \A n, q, sf : CountIs(n, q, sf) => CountIs(n, q, sf)'
           /\ \A rows, q, sf, p : RowsAre(rows, q, sf, p) => RowsAre(rows, q, sf, p)'
           /\ \A q, sf, p : PageExists(q, sf, p) => PageExists(q, sf, p)'
<1>1. CASE UNCHANGED <<db, changes>>
  <2>1. \A q, sf : Found(q, sf)' = Found(q, sf)
    BY <1>1 DEF Found, Selects
  <2> QED BY <1>1, <2>1 DEF CountIs, RowsAre, PageExists, PageOf
<1>2. CASE changes' # 0
  BY <1>2 DEF CountIs, RowsAre, PageExists
<1> QED BY <1>1, <1>2

(* The page opens without a search. *)
LEMMA InitTable == Init => TableInv
<1> SUFFICES ASSUME Init PROVE TableInv
  OBVIOUS
<1>1. /\ last.id = 0 /\ table.from = 0 /\ sent = 0 /\ searches = {} /\ ~ui.submitted
  BY DEF Init, NoSearch, EmptyTable, FreshPage
<1> QED BY <1>1 DEF TableInv, ControlsAreLast, TableTrue, TurnedInside

(* Steps that leave the results alone, and number no search. *)
LEMMA OtherSteps ==
    ASSUME TypeOK, TableInv, UNCHANGED <<db, changes>> \/ changes' # 0,
           UNCHANGED <<searches, table, last>>, sent' \in {sent, sent + 1},
           /\ ui'.submitted = ui.submitted /\ ui'.statusFilter = ui.statusFilter
           /\ ui'.page = ui.page
    PROVE  TableInv'
<1>1. sent \in Nat /\ last.id \in 0..sent /\ table.from \in 0..sent
  BY DEF TypeOK, TableInv
<1>2. last'.id \in 0..sent' /\ table'.from \in 0..sent'
  BY <1>1
<1>3. ASSUME NEW s \in searches PROVE SearchTrue(s)'
  <2>1. SearchTrue(s)
    BY DEF TableInv
  <2>2. s.id \in 1..sent'
    BY <1>1, <2>1 DEF SearchTrue
  <2> QED BY <2>1, <2>2, ReadsKept DEF SearchTrue
<1>4. ControlsAreLast'
  BY DEF TableInv, ControlsAreLast
<1>5. TableTrue' /\ TurnedInside'
  BY ReadsKept DEF TableInv, TableTrue, TurnedInside
<1> QED BY <1>2, <1>3, <1>4, <1>5 DEF TableInv

(* The queries of a search, its answer and its failure. *)
LEMMA SearchKeepsTable ==
    ASSUME TypeOK, TableInv, SearchStep
    PROVE  TableInv'
<1>1. PICK s \in searches :
        CountHolds(s) \/ ReadHolds(s) \/ SearchAnswered(s) \/ SearchFailed(s)
  BY DEF SearchStep
<1>2. /\ s \in Search /\ db \in [Txns -> Hold] /\ ui \in Ui
      /\ \A x \in searches : SearchTrue(x)
  BY DEF TypeOK, TableInv, Ui
<1>3. UNCHANGED <<db, changes, sent, last>>
  BY <1>1 DEF CountHolds, ReadHolds, SearchAnswered, SearchFailed, server
<1>4. /\ ui'.submitted = ui.submitted /\ ui'.statusFilter = ui.statusFilter
      /\ ui'.page = ui.page
  BY <1>1, <1>2 DEF CountHolds, ReadHolds, SearchAnswered, SearchFailed, Ui
<1>5. ControlsAreLast' /\ TurnedInside' /\ last'.id \in 0..sent'
  BY <1>3, <1>4, ReadsKept DEF TableInv, ControlsAreLast, TurnedInside
<1>6. ASSUME NEW x, SearchTrue(x) PROVE SearchTrue(x)'
  BY <1>3, <1>6, ReadsKept DEF SearchTrue
<1>7. CASE CountHolds(s)
  <2> DEFINE c == [s EXCEPT !.at = "counted", !.total = Len(Found(s.q, s.sf))]
  <2>1. Len(Found(s.q, s.sf)) \in Nat
    <3>1. Found(s.q, s.sf) \in Seq({t \in Txns : Selects(s.q, s.sf, t)})
      BY FoundSelects
    <3> QED BY <3>1
  <2>2. /\ c.id = s.id /\ c.q = s.q /\ c.sf = s.sf /\ c.p = s.p /\ c.at = "counted"
        /\ c.total = Len(Found(s.q, s.sf))
    BY <1>2, <2>1, SearchCounted
  <2>3. searches' = (searches \ {s}) \cup {c} /\ UNCHANGED table
    BY <1>7 DEF CountHolds
  <2> HIDE DEF c
  <2>4. SearchTrue(c)
    BY <1>2, <2>2 DEF SearchTrue, CountIs
  <2>5. \A x \in searches' : SearchTrue(x)'
    BY <1>2, <1>6, <2>3, <2>4
  <2>6. TableTrue' /\ table'.from \in 0..sent'
    BY <1>3, <2>3, ReadsKept DEF TableInv, TableTrue
  <2> QED BY <1>5, <2>5, <2>6 DEF TableInv
<1>8. CASE ReadHolds(s)
  <2> DEFINE r == [s EXCEPT !.at = "read", !.rows = RowsOf(s)]
  <2>1. /\ RowsOf(s) \in Seq(Row) /\ RowsAre(RowsOf(s), s.q, s.sf, s.p)
    BY <1>2, RowsRead DEF RowsAre
  <2>2. /\ r.id = s.id /\ r.q = s.q /\ r.sf = s.sf /\ r.p = s.p /\ r.at = "read"
        /\ r.total = s.total /\ r.rows = RowsOf(s)
    BY <1>2, <2>1, SearchRead
  <2>3. searches' = (searches \ {s}) \cup {r} /\ UNCHANGED table /\ s.at = "counted"
    BY <1>8 DEF ReadHolds, RowsOf
  <2> HIDE DEF r
  <2>4. SearchTrue(r)
    BY <1>2, <2>1, <2>2, <2>3 DEF SearchTrue
  <2>5. \A x \in searches' : SearchTrue(x)'
    BY <1>2, <1>6, <2>3, <2>4
  <2>6. TableTrue' /\ table'.from \in 0..sent'
    BY <1>3, <2>3, ReadsKept DEF TableInv, TableTrue
  <2> QED BY <1>5, <2>5, <2>6 DEF TableInv
<1>9. CASE SearchAnswered(s)
  <2>1. /\ searches' = searches \ {s} /\ s.at = "read"
        /\ table'.rows = s.rows /\ table'.total = s.total /\ table'.from = s.id
    BY <1>9 DEF SearchAnswered
  <2>2. \A x \in searches' : SearchTrue(x)'
    BY <1>2, <1>6, <2>1
  <2>3. SearchTrue(s)
    BY <1>2
  <2>4. CountIs(s.total, s.q, s.sf) /\ RowsAre(s.rows, s.q, s.sf, s.p)
    BY <2>1, <2>3 DEF SearchTrue
  <2>5. CountIs(s.total, s.q, s.sf)' /\ RowsAre(s.rows, s.q, s.sf, s.p)'
    BY <1>3, <2>4, ReadsKept
  <2>6. s.id = last.id => s.q = last.q /\ s.sf = last.sf /\ s.p = last.p
    BY <2>3 DEF SearchTrue
  <2>7. TableTrue'
    BY <1>3, <2>1, <2>5, <2>6 DEF TableTrue
  <2>8. table'.from \in 0..sent'
    <3>1. sent \in Nat /\ s.id \in 1..sent
      BY <2>3 DEF SearchTrue, TypeOK
    <3> QED BY <1>3, <2>1, <3>1
  <2> QED BY <1>5, <2>2, <2>7, <2>8 DEF TableInv
<1>10. CASE SearchFailed(s)
  <2>1. searches' = searches \ {s} /\ UNCHANGED table
    BY <1>10 DEF SearchFailed
  <2>2. \A x \in searches' : SearchTrue(x)'
    BY <1>2, <1>6, <2>1
  <2>3. TableTrue' /\ table'.from \in 0..sent'
    BY <1>3, <2>1, ReadsKept DEF TableInv, TableTrue
  <2> QED BY <1>5, <2>2, <2>3 DEF TableInv
<1> QED BY <1>1, <1>7, <1>8, <1>9, <1>10

(* A search that is sent. *)
LEMMA HandlersKeepTable ==
    ASSUME TypeOK, TableInv,
           handleKeyDown \/ (\E sf \in Filters : handleFilterClick(sf))
             \/ (\E p \in {ui.page - 1, ui.page + 1} : handlePage(p))
    PROVE  TableInv'
<1>1. PICK sf, p, set :
        /\ Asked(sf, p, set)
        /\ p = 1 \/ ( /\ TableShown /\ sf = ui.statusFilter
                      /\ \/ p = ui.page - 1 /\ ui.page > 1
                         \/ p = ui.page + 1 /\ ui.page < totalPages )
  BY Handlers
<1>2. PICK s \in Search :
        /\ searches' = searches \cup {s}
        /\ s.id = sent + 1 /\ s.q = ui.query /\ s.sf = sf /\ s.p = p
        /\ s.at = "sent" /\ s.rows = <<>>
  BY <1>1, SearchSent
<1>3. /\ sent' = sent + 1 /\ ui'.submitted /\ ui'.statusFilter = sf /\ ui'.page = p
      /\ last'.id = sent + 1 /\ last'.q = ui.query /\ last'.sf = sf /\ last'.p = p
      /\ last'.stray <=> p > 1 /\ (ui.query # last.q \/ table.from # last.id)
      /\ UNCHANGED <<server, table, drawer>>
  BY <1>1, SearchSent
<1>4. /\ sent \in Nat /\ last.id \in 0..sent /\ table.from \in 0..sent
      /\ UNCHANGED <<db, changes, table>>
      /\ \A x \in searches : SearchTrue(x)
  BY <1>3 DEF TypeOK, TableInv, server
<1>5. last'.id \in 0..sent' /\ table'.from \in 0..sent' /\ last'.id >= 1
  BY <1>3, <1>4
<1>6. SearchTrue(s)'
  <2>1. s.id \in 1..sent'
    BY <1>2, <1>3, <1>4
  <2> QED BY <1>2, <1>3, <2>1 DEF SearchTrue
<1>7. ASSUME NEW x \in searches PROVE SearchTrue(x)'
  <2>1. x.id \in 1..sent /\ x.id \in 1..sent' /\ x.id # last'.id
    BY <1>3, <1>4 DEF SearchTrue
  <2> QED BY <1>4, <2>1, ReadsKept DEF SearchTrue
<1>8. ControlsAreLast'
  BY <1>3, <1>5 DEF ControlsAreLast
<1>9. TableTrue'
  <2>1. table'.from # last'.id
    BY <1>3, <1>4
  <2> QED BY <2>1 DEF TableTrue
<1>10. TurnedInside'
  <2>0. PICK q : q = ui.query
    OBVIOUS
  <2> SUFFICES ASSUME ~last'.stray, changes = 0, p # 1
               PROVE  (p - 1) * PageSize < Len(Found(q, sf))
    <3>1. PageExists(q, sf, p) => PageExists(q, sf, p)'
      BY <1>4, ReadsKept
    <3>2. (~last'.stray => PageExists(q, sf, p)) => TurnedInside'
      BY <1>3, <2>0, <3>1 DEF TurnedInside
    <3> QED BY <3>2 DEF PageExists
  <2>1. /\ TableShown /\ sf = ui.statusFilter /\ p \in Nat \ {0}
        /\ \/ p = ui.page - 1 /\ ui.page > 1
           \/ p = ui.page + 1 /\ ui.page < totalPages
    BY <1>1 DEF Asked
  <2>2. q = last.q /\ table.from = last.id
    BY <1>3, <2>0, <2>1
  <2>3. last.id >= 1 /\ sf = last.sf /\ ui.page = last.p
    BY <2>1 DEF TableShown, TableInv, ControlsAreLast
  <2> DEFINE found == Found(q, sf)
  <2>4. /\ table.total = Len(found) /\ table.rows # <<>>
        /\ [i \in 1..Len(table.rows) |-> table.rows[i].txn] = PageOf(found, ui.page)
    BY <2>1, <2>2, <2>3 DEF TableInv, TableTrue, CountIs, RowsAre, TableShown
  <2>5. found \in Seq({t \in Txns : Selects(q, sf, t)}) /\ Len(found) \in Nat
    <3>1. found \in Seq({t \in Txns : Selects(q, sf, t)})
      BY FoundSelects
    <3> HIDE DEF found
    <3> QED BY <3>1
  <2>6. ui.page \in Nat \ {0} /\ table.rows \in Seq(Row) /\ PageSize \in Nat \ {0}
    BY ConstantsOK DEF TypeOK
  <2> HIDE DEF found
  <2>7. CASE p = ui.page - 1 /\ ui.page > 1
    <3>1. PageOf(found, ui.page) # <<>>
      <4>1. Len(table.rows) \in Nat \ {0}
        BY <2>4, <2>6
      <4>2. 1 \in DOMAIN PageOf(found, ui.page)
        BY <2>4, <4>1
      <4> QED BY <4>2
    <3>2. ~ (Len(found) <= (ui.page - 1) * PageSize)
      BY <2>5, <2>6, <3>1, PageRows
    <3>3. (ui.page - 1) * PageSize = (p - 1) * PageSize + PageSize
      BY <2>1, <2>6, <2>7
    <3>4. (p - 1) * PageSize \in Nat /\ (ui.page - 1) * PageSize \in Nat
      BY <2>1, <2>6
    <3>5. (p - 1) * PageSize < Len(found)
      BY <2>5, <2>6, <3>2, <3>3, <3>4
    <3> QED BY <3>5 DEF found
  <2>8. CASE p = ui.page + 1 /\ ui.page < totalPages
    <3>1. ui.page * PageSize < Len(found)
      BY <2>4, <2>5, <2>6, <2>8, PagerBounds DEF totalPages
    <3>2. p - 1 = ui.page
      BY <2>6, <2>8
    <3> QED BY <3>1, <3>2 DEF found
  <2> QED BY <2>1, <2>7, <2>8
<1> QED BY <1>2, <1>5, <1>6, <1>7, <1>8, <1>9, <1>10 DEF TableInv

(* Every step keeps the table's invariant. *)
LEMMA StepTable == TypeOK /\ TableInv /\ [Next]_vars => TableInv'
<1> SUFFICES ASSUME TypeOK, TableInv, [Next]_vars PROVE TableInv'
  OBVIOUS
<1>0. (UNCHANGED <<db, changes>> \/ changes' # 0) /\ ui \in Ui
  BY StandsOrChanges DEF TypeOK, Ui
<1>1. CASE SearchStep
  BY <1>1, SearchKeepsTable
<1>2. CASE handleKeyDown \/ (\E sf \in Filters : handleFilterClick(sf))
             \/ (\E p \in {ui.page - 1, ui.page + 1} : handlePage(p))
  BY <1>2, HandlersKeepTable
<1>3. CASE Leave
  <2>1. /\ searches' = {} /\ last'.id = 0 /\ table'.from = 0 /\ ~ui'.submitted
        /\ sent' = sent
    BY <1>3 DEF Leave, NoSearch, EmptyTable, NotMounted, FreshPage
  <2>2. sent \in Nat
    BY DEF TypeOK
  <2> QED BY <2>1, <2>2 DEF TableInv, ControlsAreLast, TableTrue, TurnedInside
<1>4. CASE Visit
  <2>1. UNCHANGED <<db, changes, sent, searches, table, last>> /\ ~ui'.submitted
    BY <1>4 DEF Visit, server, FreshPage
  <2>2. ASSUME NEW s \in searches PROVE SearchTrue(s)'
    BY <2>1, ReadsKept DEF TableInv, SearchTrue
  <2>3. ControlsAreLast' /\ TableTrue' /\ TurnedInside'
    BY <2>1, ReadsKept DEF TableInv, ControlsAreLast, TableTrue, TurnedInside
  <2> QED BY <2>1, <2>2, <2>3 DEF TableInv
<1>5. CASE Database \/ DetailStep \/ CopySettled \/ CopyTimer \/ onClose \/ handleCopy
             \/ UNCHANGED vars
  <2>1. UNCHANGED <<sent, searches, table, last, ui>>
    <3>1. CASE Database
      BY <3>1, DatabaseStep DEF results
    <3>2. CASE DetailStep
      BY <3>2 DEF DetailStep, ReadDetail, DetailAnswered, DetailFailed, results
    <3>3. CASE CopySettled \/ CopyTimer \/ onClose \/ handleCopy \/ UNCHANGED vars
      BY <3>3 DEF CopySettled, CopyTimer, BlockOnly, onClose, handleCopy, vars, results
    <3> QED BY <1>5, <3>1, <3>2, <3>3
  <2> QED BY <1>0, <2>1, OtherSteps
<1>6. CASE \E t \in Txns : handleRowClick(t)
  <2>1. UNCHANGED <<searches, table, last, ui>> /\ sent' = sent + 1
    BY <1>6 DEF handleRowClick, results
  <2> QED BY <1>0, <2>1, OtherSteps
<1>7. CASE \E q \in Queries : Type(q)
  <2>1. UNCHANGED <<sent, searches, table, last>>
    BY <1>7 DEF Type
  <2>2. /\ ui'.submitted = ui.submitted /\ ui'.statusFilter = ui.statusFilter
        /\ ui'.page = ui.page
    BY <1>0, <1>7 DEF Type, Ui
  <2> QED BY <1>0, <2>1, <2>2, OtherSteps
<1> QED BY <1>1, <1>2, <1>3, <1>4, <1>5, <1>6, <1>7 DEF Next, Operator

(* The table's invariant holds of every state of every behaviour. *)
LEMMA TableHolds == Spec => [](TypeOK /\ TableInv)
<1>1. TypeOK /\ TableInv /\ [Next]_vars => (TypeOK /\ TableInv)'
  BY StepTyped, StepTable
<1>2. Init => TypeOK /\ TableInv
  BY InitTyped, InitTable
<1> QED BY <1>1, <1>2, PTL DEF Spec

(* A settled table holds what the chip and the page number above it say. *)
THEOREM TableIsOfTheControls == Spec => []TableMatchesControls
<1>1. TableInv => TableMatchesControls
  BY DEF TableInv, ControlsAreLast, TableTrue, RowsAre, ShowsLatest, TableMatchesControls
<1> QED BY <1>1, TableHolds, PTL

(* "No transactions found" is true of what was searched: a page is turned only to one
   that exists. *)
THEOREM NoneFoundIsTrue == Spec => []EmptyMeansNone
<1>1. TypeOK /\ TableInv => EmptyMeansNone
  <2> SUFFICES ASSUME TypeOK, TableInv, ShowsLatest, table.rows = <<>>, changes = 0,
                      ~last.stray
               PROVE  Found(last.q, last.sf) = <<>>
    BY DEF EmptyMeansNone
  <2> DEFINE found == Found(last.q, last.sf)
  <2>1. /\ last.id >= 1 /\ table.from = last.id
        /\ [i \in 1..Len(table.rows) |-> table.rows[i].txn] = PageOf(found, last.p)
        /\ last.p = 1 \/ (last.p - 1) * PageSize < Len(found)
    BY DEF ShowsLatest, TableInv, ControlsAreLast, TableTrue, RowsAre, TurnedInside, PageExists
  <2>2. found \in Seq({t \in Txns : Selects(last.q, last.sf, t)})
    BY FoundSelects
  <2>3. last.p \in Nat \ {0} /\ PageSize \in Nat
    BY ConstantsOK DEF TypeOK
  <2> HIDE DEF found
  <2>4. PageOf(found, last.p) \in Seq({t \in Txns : Selects(last.q, last.sf, t)})
    BY <2>2, <2>3, PageRows
  <2>5. PageOf(found, last.p) = <<>>
    <3>1. DOMAIN PageOf(found, last.p) = {}
      BY <2>1
    <3> QED BY <2>4, <3>1
  <2>6. Len(found) <= (last.p - 1) * PageSize
    BY <2>2, <2>3, <2>5, PageRows
  <2>7. last.p = 1
    <3>1. Len(found) \in Nat /\ (last.p - 1) * PageSize \in Nat
      BY <2>2, <2>3
    <3> QED BY <2>1, <2>6, <3>1
  <2>8. Len(found) = 0
    BY <2>2, <2>3, <2>6, <2>7
  <2> QED BY <2>2, <2>8 DEF found
<1> QED BY <1>1, TableHolds, PTL
===============================================================================
