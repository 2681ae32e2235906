-------------------------- MODULE OperatorPagesProofs --------------------------
(***************************************************************************)
(* Proofs about OperatorPages: a callback is queued again at most once for *)
(* each time it was given up, whoever is told so did it, and headlines     *)
(* were true, for any number of deliveries, tabs, clicks and lost answers. *)
(***************************************************************************)
EXTENDS OperatorPages, FiniteSetTheorems, TLAPS

-------------------------------------------------------------------------------
(* The invariants.                                                         *)

(* A post keeps its number, its row and its tab or none. *)
PostsOK ==
    /\ clicks \in Nat
    /\ \A p \in posts : /\ p = [id |-> p.id, tab |-> p.tab, row |-> p.row, at |-> p.at]
                        /\ p.id \in 1..clicks /\ p.tab \in Tabs \cup {NoTab}
                        /\ p.row \in Rows /\ p.at \in {"sent", "ok", "refused"}
    /\ \A p, q \in posts : p.id = q.id => p = q

(* A row that is exhausted now has been given up once more than it was replayed. *)
OutboxOK ==
    /\ outbox \in [Rows -> {"pending", "delivered", "exhausted"}]
    /\ requeued \in [Rows -> Nat] /\ exhaustions \in [Rows -> Nat]
    /\ \A r \in Rows :
         requeued[r] + (IF outbox[r] = "exhausted" THEN 1 ELSE 0) <= exhaustions[r]

Fields == {"page", "loading", "failed", "fault", "read", "button", "running", "report",
           "calm", "still"}

(* The record of a tab. *)
TabShape(t) ==
    /\ DOMAIN view[t] = Fields /\ view[t].page \in Pages
    /\ DOMAIN view[t].button = Rows
    /\ DOMAIN view[t].read = Reads(view[t].page)

(* The numbers of the replays that were answered with a success on the server. *)
OkIds(r) == {i \in 1..clicks : \E p \in posts : p.id = i /\ p.row = r /\ p.at = "ok"}

Replaying(r) == {t \in Tabs : view[t].button[r] = "success"}

(* Every success shown or on its way is a requeue of its own. *)
SuccessOK == \A r \in Rows : Cardinality(Replaying(r)) + Cardinality(OkIds(r)) <= requeued[r]

Inv == /\ PostsOK /\ OutboxOK /\ SuccessOK
       /\ DOMAIN view = Tabs /\ \A t \in Tabs : TabShape(t)

-------------------------------------------------------------------------------
(* The steps on one tab.                                                   *)

(* Another tab is left alone. *)
OnlyTab(t) == DOMAIN view' = Tabs /\ \A s \in Tabs : s # t => view'[s] = view[s]

(* The page keeps its buttons. *)
KeepsButtons(t) ==
    /\ OnlyTab(t) /\ TabShape(t)' /\ view'[t].button = view[t].button

(* A page that loads keeps its buttons. *)
LEMMA AnswerReadTab ==
    ASSUME Inv, NEW t \in Tabs, NEW n \in Reads(view[t].page), AnswerRead(t, n)
    PROVE  KeepsButtons(t)
BY DEF Inv, TabShape, Fields, AnswerRead, KeepsButtons, OnlyTab

(* A page that has loaded keeps its buttons. *)
LEMMA LoadDoneTab == ASSUME Inv, NEW t \in Tabs, LoadDone(t) PROVE KeepsButtons(t)
BY DEF Inv, TabShape, Fields, LoadDone, KeepsButtons, OnlyTab

(* A page whose load fails keeps its buttons. *)
LEMMA LoadFailedTab == ASSUME Inv, NEW t \in Tabs, LoadFailed(t) PROVE KeepsButtons(t)
BY DEF Inv, TabShape, Fields, LoadFailed, KeepsButtons, OnlyTab

(* The demonstration has no replay buttons to touch. *)
LEMMA DemoTab ==
    ASSUME Inv, NEW t \in Tabs, runDemo(t) \/ DemoEnds(t) PROVE KeepsButtons(t)
BY DEF Inv, TabShape, Fields, runDemo, DemoEnds, KeepsButtons, OnlyTab

(* A button changes and no other does. *)
LEMMA ButtonTab ==
    ASSUME Inv, NEW t \in Tabs, NEW r \in Rows, NEW st, SetButton(t, r, st)
    PROVE  /\ OnlyTab(t) /\ TabShape(t)' /\ view'[t].button[r] = st
           /\ \A q \in Rows : q # r => view'[t].button[q] = view[t].button[q]
BY DEF Inv, TabShape, Fields, SetButton, OnlyTab

(* A page is mounted with its buttons idle. *)
LEMMA MountedTab ==
    ASSUME Inv, NEW t \in Tabs, NEW page \in Pages, view' = [view EXCEPT ![t] = Mounted(page)]
    PROVE  /\ OnlyTab(t) /\ TabShape(t)'
           /\ \A r \in Rows : view'[t].button[r] = "idle"
BY DEF Inv, TabShape, Fields, Mounted, OnlyTab

(* A change of the outbox is only remembered by the tabs. *)
LEMMA OutboxTabs ==
    ASSUME Inv, NEW r \in Rows, NEW st, SetOutbox(r, st)
    PROVE  /\ DOMAIN view' = Tabs
           /\ \A t \in Tabs : TabShape(t)' /\ view'[t].button = view[t].button
BY DEF Inv, TabShape, Fields, SetOutbox

-------------------------------------------------------------------------------
(* Counting.                                                               *)

(* One element more. *)
LEMMA OneMore ==
    ASSUME NEW S, NEW x, IsFiniteSet(S)
    PROVE  /\ IsFiniteSet(S \cup {x}) /\ Cardinality(S \cup {x}) \in Nat
           /\ Cardinality(S \cup {x}) <= Cardinality(S) + 1
<1>1. /\ IsFiniteSet(S \cup {x})
      /\ Cardinality(S \cup {x}) = IF x \in S THEN Cardinality(S) ELSE Cardinality(S) + 1
  BY FS_AddElement
<1>2. Cardinality(S) \in Nat
  BY FS_CardinalityType
<1> QED BY <1>1, <1>2

(* The counted sets are finite. *)
LEMMA Finite ==
    ASSUME PostsOK, NEW r
    PROVE  /\ IsFiniteSet(Replaying(r)) /\ Cardinality(Replaying(r)) \in Nat
           /\ IsFiniteSet(OkIds(r)) /\ Cardinality(OkIds(r)) \in Nat
<1>1. IsFiniteSet(Tabs)
  BY ConstantsOK DEF ConstantsOK
<1>3. IsFiniteSet(1..clicks)
  BY FS_Interval DEF PostsOK
<1>2. Replaying(r) \subseteq Tabs /\ OkIds(r) \subseteq 1..clicks
  BY DEF Replaying, OkIds
<1> QED BY <1>1, <1>2, <1>3, FS_Subset, FS_CardinalityType

(* No success is added: the sum does not grow. *)
LEMMA NoNewSuccess ==
    ASSUME Inv, PostsOK', NEW r \in Rows, Replaying(r)' \subseteq Replaying(r),
           OkIds(r)' \subseteq OkIds(r), requeued'[r] = requeued[r]
    PROVE  Cardinality(Replaying(r)') + Cardinality(OkIds(r)') <= requeued'[r]
<1>1. /\ Cardinality(Replaying(r)') \in Nat /\ Cardinality(OkIds(r)') \in Nat
      /\ Cardinality(Replaying(r)) \in Nat /\ Cardinality(OkIds(r)) \in Nat
      /\ Cardinality(Replaying(r)') <= Cardinality(Replaying(r))
      /\ Cardinality(OkIds(r)') <= Cardinality(OkIds(r))
  BY Finite, FS_Subset, FS_CardinalityType DEF Inv
<1> QED BY <1>1 DEF Inv, SuccessOK, OutboxOK

(* A step on one tab that keeps its buttons, and nothing else. *)
LEMMA TabStep ==
    ASSUME Inv, NEW t \in Tabs, KeepsButtons(t),
           UNCHANGED <<outbox, posts, clicks, requeued, exhaustions>>
    PROVE  Inv'
<1>1. PostsOK' /\ OutboxOK'
  BY DEF Inv, PostsOK, OutboxOK
<1>2. DOMAIN view' = Tabs /\ \A s \in Tabs : TabShape(s)'
  BY DEF Inv, KeepsButtons, OnlyTab, TabShape
<1>3. \A r \in Rows : Replaying(r)' = Replaying(r) /\ OkIds(r)' = OkIds(r)
  BY DEF KeepsButtons, OnlyTab, Replaying, OkIds
<1>4. SuccessOK'
  BY <1>3 DEF Inv, SuccessOK
<1> QED BY <1>1, <1>2, <1>4 DEF Inv

(* An outcome of the worker keeps the invariant. *)
LEMMA OutboxStep ==
    ASSUME Inv, NEW r \in Rows, DeliverOrExhaust(r) PROVE Inv'
<1>1. /\ \/ SetOutbox(r, "delivered") /\ UNCHANGED exhaustions
         \/ SetOutbox(r, "exhausted") /\ exhaustions' = [exhaustions EXCEPT ![r] = @ + 1]
      /\ outbox[r] = "pending" /\ UNCHANGED <<posts, clicks, requeued>>
  BY DEF DeliverOrExhaust
<1>2. PostsOK'
  BY <1>1 DEF Inv, PostsOK
<1>3. OutboxOK'
  <2>1. CASE SetOutbox(r, "delivered") /\ UNCHANGED exhaustions
    BY <1>1, <2>1 DEF Inv, OutboxOK, SetOutbox
  <2>2. CASE SetOutbox(r, "exhausted") /\ exhaustions' = [exhaustions EXCEPT ![r] = @ + 1]
    <3>1. /\ outbox' = [outbox EXCEPT ![r] = "exhausted"] /\ requeued' = requeued
          /\ outbox \in [Rows -> {"pending", "delivered", "exhausted"}]
          /\ exhaustions \in [Rows -> Nat] /\ requeued \in [Rows -> Nat]
      BY <1>1, <2>2 DEF Inv, OutboxOK, SetOutbox
    <3>2. requeued[r] <= exhaustions[r] /\ exhaustions'[r] = exhaustions[r] + 1
      BY <1>1, <2>2, <3>1 DEF Inv, OutboxOK
    <3>3. \A q \in Rows : q # r => outbox'[q] = outbox[q] /\ exhaustions'[q] = exhaustions[q]
      BY <2>2, <3>1
    <3>4. ASSUME NEW q \in Rows
          PROVE  requeued[q] + (IF outbox'[q] = "exhausted" THEN 1 ELSE 0) <= exhaustions'[q]
      <4>1. CASE q = r
        BY <3>1, <3>2, <4>1
      <4>2. CASE q # r
        BY <3>3, <4>2 DEF Inv, OutboxOK
      <4> QED BY <4>1, <4>2
    <3> QED BY <2>2, <3>1, <3>4 DEF OutboxOK
  <2> QED BY <1>1, <2>1, <2>2
<1>4. DOMAIN view' = Tabs /\ \A t \in Tabs : TabShape(t)' /\ view'[t].button = view[t].button
  BY <1>1, OutboxTabs
<1>5. \A q \in Rows : Replaying(q)' = Replaying(q) /\ OkIds(q)' = OkIds(q)
  BY <1>1, <1>4 DEF Replaying, OkIds
<1>6. SuccessOK'
  BY <1>1, <1>5 DEF Inv, SuccessOK
<1> QED BY <1>2, <1>3, <1>4, <1>6 DEF Inv

(* The success a left page was promised is still a requeue. *)
LEMMA VisitStep ==
    ASSUME Inv, NEW t \in Tabs, NEW page \in Pages, Visit(t, page) PROVE Inv'
<1>1. /\ view' = [view EXCEPT ![t] = Mounted(page)]
      /\ posts' = {IF p.tab = t THEN [p EXCEPT !.tab = NoTab] ELSE p : p \in posts}
      /\ UNCHANGED <<outbox, clicks, requeued, exhaustions>>
  BY DEF Visit
<1> DEFINE Left(p) == IF p.tab = t THEN [p EXCEPT !.tab = NoTab] ELSE p
<1>2. \A p \in posts :
        /\ Left(p) = [id |-> p.id, tab |-> Left(p).tab, row |-> p.row, at |-> p.at]
        /\ Left(p).tab \in Tabs \cup {NoTab}
  BY DEF Inv, PostsOK
<1>3. posts' = {Left(p) : p \in posts}
  BY <1>1
<1> HIDE DEF Left
<1>4. PostsOK'
  BY <1>1, <1>2, <1>3 DEF Inv, PostsOK
<1>5. OutboxOK'
  BY <1>1 DEF Inv, OutboxOK
<1>6. /\ DOMAIN view' = Tabs /\ \A s \in Tabs : TabShape(s)'
      /\ \A r \in Rows : Replaying(r)' \subseteq Replaying(r)
  BY <1>1, MountedTab DEF Inv, OnlyTab, TabShape, Replaying
<1>7. \A r \in Rows : OkIds(r)' \subseteq OkIds(r)
  BY <1>1, <1>2, <1>3 DEF OkIds
<1>8. SuccessOK'
  BY <1>1, <1>4, <1>6, <1>7, NoNewSuccess DEF SuccessOK
<1> QED BY <1>4, <1>5, <1>6, <1>8 DEF Inv

(* A click asks for a replay and has no success yet. *)
LEMMA ClickStep ==
    ASSUME Inv, NEW t \in Tabs, NEW r \in Rows, handleClick(t, r) PROVE Inv'
<1> DEFINE d == [id |-> clicks + 1, tab |-> t, row |-> r, at |-> "sent"]
<1>1. /\ SetButton(t, r, "loading") /\ clicks' = clicks + 1 /\ posts' = posts \cup {d}
      /\ UNCHANGED <<outbox, requeued, exhaustions>>
  BY DEF handleClick
<1>2. d.id = clicks + 1 /\ d.tab = t /\ d.row = r /\ d.at = "sent"
  OBVIOUS
<1>3. PostsOK'
  BY <1>1 DEF Inv, PostsOK
<1> HIDE DEF d
<1>4. OutboxOK'
  BY <1>1 DEF Inv, OutboxOK
<1>5. /\ DOMAIN view' = Tabs /\ \A s \in Tabs : TabShape(s)'
      /\ \A q \in Rows : Replaying(q)' \subseteq Replaying(q)
  BY <1>1, ButtonTab DEF Inv, OnlyTab, TabShape, Replaying
<1>6. \A q \in Rows : OkIds(q)' \subseteq OkIds(q)
  BY <1>1, <1>2 DEF OkIds, Inv, PostsOK
<1>7. SuccessOK'
  BY <1>1, <1>3, <1>5, <1>6, NoNewSuccess DEF SuccessOK
<1> QED BY <1>3, <1>4, <1>5, <1>7 DEF Inv

(* The posts after one of them has moved on. *)
LEMMA MovedPost ==
    ASSUME PostsOK, NEW p \in posts, NEW at \in {"ok", "refused"}, UNCHANGED clicks,
           posts' = (posts \ {p}) \cup {[p EXCEPT !.at = at]}
    PROVE  /\ PostsOK'
           /\ at = "ok" => /\ OkIds(p.row)' \subseteq OkIds(p.row) \cup {p.id}
                           /\ \A r \in Rows : r # p.row => OkIds(r)' \subseteq OkIds(r)
           /\ at = "refused" => \A r \in Rows : OkIds(r)' \subseteq OkIds(r)
<1> DEFINE d == [p EXCEPT !.at = at]
<1>1. /\ d = [id |-> d.id, tab |-> d.tab, row |-> d.row, at |-> d.at]
      /\ d.id = p.id /\ d.tab = p.tab /\ d.row = p.row /\ d.at = at
  BY DEF PostsOK
<1>2. posts' = (posts \ {p}) \cup {d}
  OBVIOUS
<1> HIDE DEF d
<1>3. PostsOK'
  BY <1>1, <1>2 DEF PostsOK
<1> QED BY <1>1, <1>2, <1>3 DEF OkIds

(* A success is promised only with a requeue of the row. *)
LEMMA ReplayStep == ASSUME Inv, NEW p \in posts, replayDelivery(p) PROVE Inv'
<1>1. p.row \in Rows /\ UNCHANGED <<clicks, exhaustions>>
  BY DEF Inv, PostsOK, replayDelivery
<1>2. CASE outbox[p.row] = "exhausted"
  <2>1. /\ SetOutbox(p.row, "pending") /\ requeued' = [requeued EXCEPT ![p.row] = @ + 1]
        /\ posts' = (posts \ {p}) \cup {[p EXCEPT !.at = "ok"]}
    BY <1>2 DEF replayDelivery
  <2>2. /\ PostsOK' /\ OkIds(p.row)' \subseteq OkIds(p.row) \cup {p.id}
        /\ \A r \in Rows : r # p.row => OkIds(r)' \subseteq OkIds(r)
    BY <1>1, <2>1, MovedPost DEF Inv
  <2>3. OutboxOK'
    <3>1. /\ outbox' = [outbox EXCEPT ![p.row] = "pending"]
          /\ outbox \in [Rows -> {"pending", "delivered", "exhausted"}]
          /\ exhaustions \in [Rows -> Nat] /\ requeued \in [Rows -> Nat]
      BY <2>1 DEF Inv, OutboxOK, SetOutbox
    <3>2. requeued'[p.row] <= exhaustions[p.row] /\ outbox'[p.row] = "pending"
      BY <1>1, <1>2, <2>1, <3>1 DEF Inv, OutboxOK
    <3>3. \A q \in Rows : q # p.row => outbox'[q] = outbox[q] /\ requeued'[q] = requeued[q]
      BY <2>1, <3>1
    <3>4. ASSUME NEW q \in Rows
          PROVE  requeued'[q] + (IF outbox'[q] = "exhausted" THEN 1 ELSE 0) <= exhaustions[q]
      <4>1. CASE q = p.row
        BY <2>1, <3>1, <3>2, <4>1
      <4>2. CASE q # p.row
        BY <3>3, <4>2 DEF Inv, OutboxOK
      <4> QED BY <4>1, <4>2
    <3> QED BY <1>1, <2>1, <3>1, <3>4 DEF OutboxOK
  <2>4. DOMAIN view' = Tabs /\ \A t \in Tabs : TabShape(t)' /\ view'[t].button = view[t].button
    BY <1>1, <2>1, OutboxTabs
  <2>5. \A r \in Rows : Replaying(r)' = Replaying(r)
    BY <2>4 DEF Replaying
  <2>6. SuccessOK'
    <3> SUFFICES ASSUME NEW r \in Rows
                 PROVE  Cardinality(Replaying(r)') + Cardinality(OkIds(r)') <= requeued'[r]
      BY DEF SuccessOK
    <3>1. CASE r = p.row
      <4>1. /\ IsFiniteSet(OkIds(r)) /\ Cardinality(OkIds(r)) \in Nat
            /\ Cardinality(Replaying(r)) \in Nat
        BY Finite DEF Inv
      <4>2. /\ IsFiniteSet(OkIds(r) \cup {p.id})
            /\ Cardinality(OkIds(r) \cup {p.id}) <= Cardinality(OkIds(r)) + 1
            /\ Cardinality(OkIds(r) \cup {p.id}) \in Nat
        BY <4>1, OneMore
      <4>3. /\ Cardinality(OkIds(r)') <= Cardinality(OkIds(r) \cup {p.id})
            /\ Cardinality(OkIds(r)') \in Nat
        BY <2>2, <3>1, <4>2, FS_Subset, FS_CardinalityType
      <4>4. requeued'[r] = requeued[r] + 1 /\ requeued[r] \in Nat
        BY <2>1, <3>1 DEF Inv, OutboxOK
      <4>5. Cardinality(Replaying(r)) + Cardinality(OkIds(r)) <= requeued[r]
        BY DEF Inv, SuccessOK
      <4>6. Replaying(r)' = Replaying(r)
        BY <2>5
      <4> QED BY <4>1, <4>2, <4>3, <4>4, <4>5, <4>6
    <3>2. CASE r # p.row
      <4>1. requeued'[r] = requeued[r]
        BY <2>1, <3>2 DEF Inv, OutboxOK
      <4> QED BY <2>2, <2>5, <3>2, <4>1, NoNewSuccess
    <3> QED BY <3>1, <3>2
  <2> QED BY <2>2, <2>3, <2>4, <2>6 DEF Inv
<1>3. CASE outbox[p.row] # "exhausted"
  <2>1. /\ posts' = (posts \ {p}) \cup {[p EXCEPT !.at = "refused"]}
        /\ UNCHANGED <<outbox, view, requeued>>
    BY <1>3 DEF replayDelivery
  <2>2. PostsOK' /\ \A r \in Rows : OkIds(r)' \subseteq OkIds(r)
    BY <1>1, <2>1, MovedPost DEF Inv
  <2>3. OutboxOK' /\ \A r \in Rows : Replaying(r)' = Replaying(r)
    BY <1>1, <2>1 DEF Inv, OutboxOK, Replaying
  <2>4. SuccessOK'
    BY <2>1, <2>2, <2>3, NoNewSuccess DEF SuccessOK
  <2> QED BY <2>1, <2>2, <2>3, <2>4 DEF Inv, TabShape
<1> QED BY <1>2, <1>3

(* The answer turns a promised success into a shown one. *)
LEMMA SettleStep ==
    ASSUME Inv, NEW p \in posts, NEW st \in {"success", "error"}, Settle(p, st),
           st = "success" => p.at = "ok"
    PROVE  Inv'
<1>1. /\ posts' = posts \ {p} /\ UNCHANGED <<outbox, clicks, requeued, exhaustions>>
      /\ IF p.tab = NoTab THEN UNCHANGED view ELSE SetButton(p.tab, p.row, st)
      /\ p.row \in Rows /\ p.tab \in Tabs \cup {NoTab} /\ p.id \in 1..clicks
  BY DEF Settle, Inv, PostsOK
<1>2. PostsOK' /\ OutboxOK'
  BY <1>1 DEF Inv, PostsOK, OutboxOK
<1>3. /\ DOMAIN view' = Tabs /\ \A t \in Tabs : TabShape(t)'
      /\ Replaying(p.row)' \subseteq Replaying(p.row) \cup {p.tab}
      /\ st = "error" => Replaying(p.row)' \subseteq Replaying(p.row)
      /\ \A r \in Rows : r # p.row => Replaying(r)' \subseteq Replaying(r)
  <2>1. CASE p.tab = NoTab
    BY <1>1, <2>1 DEF Inv, TabShape, Replaying
  <2>2. CASE p.tab # NoTab
    BY <1>1, <2>2, ButtonTab DEF Inv, OnlyTab, TabShape, Replaying
  <2> QED BY <2>1, <2>2
<1>4. \A r \in Rows : OkIds(r)' \subseteq OkIds(r)
  BY <1>1 DEF OkIds
<1>5. SuccessOK'
  <2> SUFFICES ASSUME NEW r \in Rows
               PROVE  Cardinality(Replaying(r)') + Cardinality(OkIds(r)') <= requeued'[r]
    BY DEF SuccessOK
  <2>1. CASE st = "error" \/ r # p.row
    BY <1>1, <1>2, <1>3, <1>4, <2>1, NoNewSuccess
  <2>2. CASE st = "success" /\ r = p.row
    <3>1. p.id \in OkIds(r) /\ OkIds(r)' \subseteq OkIds(r) \ {p.id}
      BY <1>1, <2>2 DEF OkIds, Inv, PostsOK
    <3>2. /\ IsFiniteSet(OkIds(r)) /\ Cardinality(OkIds(r)) \in Nat
          /\ IsFiniteSet(Replaying(r)) /\ Cardinality(Replaying(r)) \in Nat
      BY Finite DEF Inv
    <3>3. /\ IsFiniteSet(OkIds(r) \ {p.id})
          /\ Cardinality(OkIds(r) \ {p.id}) = Cardinality(OkIds(r)) - 1
      BY <3>1, <3>2, FS_RemoveElement
    <3>4. /\ Cardinality(OkIds(r)') <= Cardinality(OkIds(r)) - 1
          /\ Cardinality(OkIds(r)') \in Nat
      BY <3>1, <3>3, FS_Subset, FS_CardinalityType
    <3>5. /\ IsFiniteSet(Replaying(r) \cup {p.tab})
          /\ Cardinality(Replaying(r) \cup {p.tab}) <= Cardinality(Replaying(r)) + 1
          /\ Cardinality(Replaying(r) \cup {p.tab}) \in Nat
      BY <3>2, OneMore
    <3>6. /\ Cardinality(Replaying(r)') <= Cardinality(Replaying(r) \cup {p.tab})
          /\ Cardinality(Replaying(r)') \in Nat
      BY <1>3, <2>2, <3>5, FS_Subset, FS_CardinalityType
    <3>7. /\ Cardinality(Replaying(r)) + Cardinality(OkIds(r)) <= requeued[r]
          /\ requeued[r] \in Nat /\ requeued'[r] = requeued[r]
      BY <1>1 DEF Inv, SuccessOK, OutboxOK
    <3> QED BY <3>2, <3>4, <3>5, <3>6, <3>7
  <2> QED BY <2>1, <2>2
<1> QED BY <1>2, <1>3, <1>5 DEF Inv

-------------------------------------------------------------------------------
(* All steps.                                                              *)

(* Nothing is replayed initially. *)
LEMMA InitInv == Init => Inv
<1> SUFFICES ASSUME Init PROVE Inv
  OBVIOUS
<1>1. PostsOK
  BY DEF Init, PostsOK
<1>2. OutboxOK
  BY DEF Init, OutboxOK
<1>3. DOMAIN view = Tabs /\ \A t \in Tabs : TabShape(t)
  <2>1. Landing \in [Tabs -> Pages]
    BY ConstantsOK DEF ConstantsOK, Pages
  <2> QED BY <2>1 DEF Init, TabShape, Fields, Mounted
<1>4. \A r \in Rows : Replaying(r) = {} /\ OkIds(r) = {}
  BY DEF Init, Replaying, OkIds, Mounted
<1>5. SuccessOK
  BY <1>4, FS_EmptySet DEF Init, SuccessOK
<1> QED BY <1>1, <1>2, <1>3, <1>5 DEF Inv

(* The other counters have no part in the invariant. *)
LEMMA TrafficStep == Inv /\ (Traffic \/ UNCHANGED vars) => Inv'
<1> SUFFICES ASSUME Inv, Traffic \/ UNCHANGED vars PROVE Inv'
  OBVIOUS
<1>1. UNCHANGED <<outbox, view, posts, clicks, requeued, exhaustions>>
  BY DEF Traffic, vars, tabs
<1> QED BY <1>1 DEF Inv, PostsOK, OutboxOK, SuccessOK, TabShape, Replaying, OkIds

(* A button turns from "Failed" back to "Replay". *)
LEMMA ButtonTimerStep ==
    ASSUME Inv, NEW t \in Tabs, NEW r \in Rows, ButtonTimer(t, r) PROVE Inv'
<1>1. /\ SetButton(t, r, "idle")
      /\ UNCHANGED <<outbox, posts, clicks, requeued, exhaustions>>
  BY DEF ButtonTimer
<1>2. PostsOK' /\ OutboxOK'
  BY <1>1 DEF Inv, PostsOK, OutboxOK
<1>3. /\ DOMAIN view' = Tabs /\ \A s \in Tabs : TabShape(s)'
      /\ \A q \in Rows : Replaying(q)' \subseteq Replaying(q)
  BY <1>1, ButtonTab DEF Inv, OnlyTab, TabShape, Replaying
<1>4. \A q \in Rows : OkIds(q)' = OkIds(q)
  BY <1>1 DEF OkIds
<1>5. SuccessOK'
  BY <1>1, <1>2, <1>3, <1>4, NoNewSuccess DEF SuccessOK
<1> QED BY <1>2, <1>3, <1>5 DEF Inv

(* Every step keeps the invariant. *)
LEMMA NextInv == Inv /\ [Next]_vars => Inv'
<1> SUFFICES ASSUME Inv, [Next]_vars PROVE Inv'
  OBVIOUS
<1>1. ASSUME NEW r \in Rows, DeliverOrExhaust(r) PROVE Inv'
  BY <1>1, OutboxStep
<1>2. CASE Traffic \/ UNCHANGED vars
  BY <1>2, TrafficStep
<1>3. ASSUME NEW p \in posts, replayDelivery(p) \/ ReplayAnswered(p) \/ ReplayLost(p)
      PROVE  Inv'
  <2>1. CASE replayDelivery(p)
    BY <2>1, ReplayStep
  <2>2. CASE ReplayAnswered(p) \/ ReplayLost(p)
    BY <2>2, SettleStep DEF ReplayAnswered, ReplayLost
  <2> QED BY <1>3, <2>1, <2>2
<1>4. ASSUME NEW t \in Tabs, Load(t) PROVE Inv'
  <2>1. ASSUME NEW n \in Reads(view[t].page), AnswerRead(t, n) PROVE Inv'
    <3>1. UNCHANGED <<outbox, posts, clicks, requeued, exhaustions>>
      BY <2>1 DEF AnswerRead
    <3> QED BY <2>1, <3>1, AnswerReadTab, TabStep
  <2>2. CASE LoadDone(t) \/ LoadFailed(t)
    <3>1. UNCHANGED <<outbox, posts, clicks, requeued, exhaustions>>
      BY <2>2 DEF LoadDone, LoadFailed
    <3> QED BY <2>2, <3>1, LoadDoneTab, LoadFailedTab, TabStep
  <2> QED BY <1>4, <2>1, <2>2 DEF Load
<1>5. ASSUME NEW t \in Tabs, NEW page \in Pages, Visit(t, page) PROVE Inv'
  BY <1>5, VisitStep
<1>6. ASSUME NEW t \in Tabs, NEW r \in Rows, handleClick(t, r) \/ ButtonTimer(t, r)
      PROVE  Inv'
  BY <1>6, ClickStep, ButtonTimerStep
<1>7. ASSUME NEW t \in Tabs, runDemo(t) \/ DemoEnds(t) PROVE Inv'
  <2>1. UNCHANGED <<outbox, posts, clicks, requeued, exhaustions>>
    BY <1>7 DEF runDemo, DemoEnds
  <2> QED BY <1>7, <2>1, DemoTab, TabStep
<1> QED BY <1>1, <1>2, <1>3, <1>4, <1>5, <1>6, <1>7 DEF Next

(* The invariant holds in every behaviour. *)
LEMMA Invariance == Spec => []Inv
BY InitInv, NextInv, PTL DEF Spec

-------------------------------------------------------------------------------
(* Replays.                                                                *)

(* A callback is queued again at most once for each time it was given up. *)
THEOREM ReplayedOncePerExhaustion == Spec => []OneReplayPerExhaustion
<1>1. Inv => OneReplayPerExhaustion
  <2> SUFFICES ASSUME Inv, NEW r \in Rows PROVE requeued[r] <= exhaustions[r]
    BY DEF OneReplayPerExhaustion
  <2>1. /\ requeued[r] \in Nat /\ exhaustions[r] \in Nat
        /\ requeued[r] + (IF outbox[r] = "exhausted" THEN 1 ELSE 0) <= exhaustions[r]
    BY DEF Inv, OutboxOK
  <2> QED BY <2>1
<1> QED BY <1>1, Invariance, PTL

(* Every "Replaying" on a screen stands for a requeue of its own. *)
THEOREM ReplayingMeansRequeued == Spec => []QueuedMeansRequeued
<1>1. Inv => QueuedMeansRequeued
  <2> SUFFICES ASSUME Inv, NEW r \in Rows
               PROVE  Cardinality(Replaying(r)) <= requeued[r]
    BY DEF QueuedMeansRequeued, Replaying
  <2>1. Cardinality(Replaying(r)) \in Nat /\ Cardinality(OkIds(r)) \in Nat
    BY Finite DEF Inv
  <2>2. /\ requeued[r] \in Nat
        /\ Cardinality(Replaying(r)) + Cardinality(OkIds(r)) <= requeued[r]
    BY DEF Inv, OutboxOK, SuccessOK
  <2> QED BY <2>1, <2>2
<1> QED BY <1>1, Invariance, PTL

-------------------------------------------------------------------------------
(* Headlines.                                                              *)

(* What a tab has read is explained by the outbox it has seen: a count of none was
   read while none was exhausted, and if the outbox stood still, count and list are
   those of now. *)
TabSaw(t) ==
    /\ Exhausted = {} => view[t].calm
    /\ \A n \in Reads(view[t].page) \ {"deliveries"} :
         view[t].read[n] # Unread /\ ~view[t].fault =>
           /\ ~view[t].read[n].stats.exhausted => view[t].calm
           /\ view[t].still => (view[t].read[n].stats.exhausted <=> Exhausted # {})
    /\ "deliveries" \in Reads(view[t].page) =>
         (view[t].read["deliveries"] # Unread /\ view[t].still
            => view[t].read["deliveries"].rows = Exhausted)
    /\ ~view[t].loading /\ ~view[t].failed =>
         \A n \in Reads(view[t].page) : view[t].read[n] # Unread

Saw == \A t \in Tabs : TabSaw(t)

(* A step that leaves outbox and all but one tab alone. *)
LEMMA SawOnly ==
    ASSUME Saw, NEW t \in Tabs, OnlyTab(t), UNCHANGED outbox, TabSaw(t)' PROVE Saw'
BY DEF Saw, OnlyTab, TabSaw, Exhausted

(* An answer says what the outbox is at this instant, or a query of it failed. *)
LEMMA AnswerReadSaw ==
    ASSUME Inv, Saw, NEW t \in Tabs, NEW n \in Reads(view[t].page), AnswerRead(t, n)
    PROVE  Saw'
<1>1. UNCHANGED outbox /\ OnlyTab(t) /\ view[t].loading
  BY AnswerReadTab DEF AnswerRead, KeepsButtons, Pending
<1>2. /\ view'[t].page = view[t].page /\ view'[t].calm = view[t].calm
      /\ view'[t].still = view[t].still /\ view'[t].loading = view[t].loading
      /\ \A m \in Reads(view[t].page) : m # n => view'[t].read[m] = view[t].read[m]
      /\ \/ view'[t].fault = view[t].fault /\ view'[t].read[n] = Answer(n)
         \/ view'[t].fault /\ n # "deliveries"
  BY DEF Inv, TabShape, Fields, AnswerRead
<1>3. Exhausted' = Exhausted
  BY <1>1 DEF Exhausted
<1>4. /\ n \in {"stats", "deliveryStats", "deliveries"}
      /\ n # "deliveries" => Answer(n).stats.exhausted = (Exhausted # {})
      /\ n = "deliveries" => Answer(n).rows = Exhausted
  BY DEF Reads, Answer, Counted, Listed, Zeros, Inv, TabShape, Pages
<1>5. TabSaw(t)
  BY DEF Saw
<1>6. Exhausted' = {} => view'[t].calm
  BY <1>2, <1>3, <1>5 DEF TabSaw
<1>7. ASSUME NEW m \in Reads(view[t].page) \ {"deliveries"},
             view'[t].read[m] # Unread, ~view'[t].fault
      PROVE  /\ ~view'[t].read[m].stats.exhausted => view'[t].calm
             /\ view'[t].still => (view'[t].read[m].stats.exhausted <=> Exhausted # {})
  <2>1. CASE m = n
    <3>1. view'[t].read[m] = Answer(n) /\ Answer(n).stats.exhausted = (Exhausted # {})
      BY <1>2, <1>4, <1>7, <2>1
    <3> QED BY <1>2, <1>3, <1>6, <3>1
  <2>2. CASE m # n
    <3>1. view'[t].read[m] = view[t].read[m] /\ ~view[t].fault
      BY <1>2, <1>7, <2>2
    <3> QED BY <1>2, <1>5, <1>7, <3>1 DEF TabSaw
  <2> QED BY <2>1, <2>2
<1>8. ASSUME "deliveries" \in Reads(view[t].page), view'[t].read["deliveries"] # Unread,
             view'[t].still
      PROVE  view'[t].read["deliveries"].rows = Exhausted
  <2>1. CASE n = "deliveries"
    BY <1>2, <1>4, <2>1
  <2>2. CASE n # "deliveries"
    <3>1. view'[t].read["deliveries"] = view[t].read["deliveries"]
      BY <1>2, <1>8, <2>2
    <3> QED BY <1>2, <1>5, <1>8, <3>1 DEF TabSaw
  <2> QED BY <2>1, <2>2
<1>9. TabSaw(t)'
  BY <1>1, <1>2, <1>3, <1>6, <1>7, <1>8 DEF TabSaw
<1> QED BY <1>1, <1>9, SawOnly

(* A load ends with every answer there, or none is shown. *)
LEMMA LoadEndsSaw ==
    ASSUME Inv, Saw, NEW t \in Tabs, LoadDone(t) \/ LoadFailed(t) PROVE Saw'
<1>1. UNCHANGED outbox /\ OnlyTab(t)
  BY LoadDoneTab, LoadFailedTab DEF LoadDone, LoadFailed, KeepsButtons
<1>2. Exhausted' = Exhausted
  BY <1>1 DEF Exhausted
<1>3. CASE LoadDone(t)
  <2>1. /\ view'[t].page = view[t].page /\ view'[t].calm = view[t].calm
        /\ view'[t].still = view[t].still /\ view'[t].fault = view[t].fault
        /\ view'[t].read = view[t].read
    BY <1>3 DEF Inv, TabShape, Fields, LoadDone
  <2>2. \A n \in Reads(view[t].page) : view[t].read[n] # Unread
    BY <1>3 DEF LoadDone
  <2>3. TabSaw(t)'
    BY <1>2, <2>1, <2>2 DEF Saw, TabSaw
  <2> QED BY <1>1, <2>3, SawOnly
<1>4. CASE LoadFailed(t)
  <2>1. /\ view'[t].page = view[t].page /\ view'[t].calm = view[t].calm /\ view'[t].failed
        /\ \A n \in Reads(view[t].page) : view'[t].read[n] = Unread
    BY <1>4 DEF Inv, TabShape, Fields, LoadFailed
  <2>2. TabSaw(t)'
    BY <1>2, <2>1 DEF Saw, TabSaw
  <2> QED BY <1>1, <2>2, SawOnly
<1> QED BY <1>3, <1>4

(* A page just mounted has read nothing and has seen the outbox of now. *)
LEMMA VisitSaw ==
    ASSUME Inv, Saw, NEW t \in Tabs, NEW page \in Pages, Visit(t, page) PROVE Saw'
<1>1. UNCHANGED outbox /\ view' = [view EXCEPT ![t] = Mounted(page)]
  BY DEF Visit
<1>2. OnlyTab(t) /\ view'[t] = Mounted(page)
  BY <1>1, MountedTab DEF Inv
<1>3. Exhausted' = Exhausted
  BY <1>1 DEF Exhausted
<1>a. view'[t].page = page
  BY <1>2 DEF Mounted
<1>b. view'[t].calm = (Exhausted = {})
  BY <1>2 DEF Mounted
<1>c. view'[t].read = [n \in Reads(page) |-> Unread]
  BY <1>2 DEF Mounted
<1>d. view'[t].loading = (page # "verification")
  BY <1>2 DEF Mounted
<1>4. /\ view'[t].page = page /\ view'[t].calm = (Exhausted = {})
      /\ \A n \in Reads(page) : view'[t].read[n] = Unread
      /\ page # "verification" => view'[t].loading
  BY <1>a, <1>b, <1>c, <1>d
<1>5. page = "verification" => Reads(page) = {}
  BY DEF Reads
<1>6. (Exhausted = {}) => view'[t].calm
  BY <1>4
<1>7. TabSaw(t)'
  BY <1>3, <1>4, <1>5, <1>6 DEF TabSaw
<1> QED BY <1>1, <1>2, <1>7, SawOnly

(* The demonstration belongs to a page that reads nothing. *)
LEMMA DemoSaw ==
    ASSUME Inv, Saw, NEW t \in Tabs, runDemo(t) \/ DemoEnds(t) PROVE Saw'
<1>1. UNCHANGED outbox /\ OnlyTab(t)
  BY DemoTab DEF runDemo, DemoEnds, KeepsButtons
<1>2. /\ view'[t].page = view[t].page /\ view'[t].calm = view[t].calm
      /\ view'[t].still = view[t].still /\ view'[t].fault = view[t].fault
      /\ view'[t].loading = view[t].loading /\ view'[t].read = view[t].read
      /\ view[t].page = "verification" \/ (~view'[t].failed => ~view[t].failed)
  BY DEF TabShape, Fields, Inv, runDemo, DemoEnds
<1>3. Exhausted' = Exhausted
  BY <1>1 DEF Exhausted
<1>4. TabSaw(t)'
  BY <1>2, <1>3 DEF Saw, TabSaw, Reads
<1> QED BY <1>1, <1>4, SawOnly

(* Buttons show nothing of what was read. *)
LEMMA ButtonSaw ==
    ASSUME Inv, Saw, NEW t \in Tabs, NEW r \in Rows, NEW st, SetButton(t, r, st),
           UNCHANGED outbox
    PROVE  Saw'
<1>1. OnlyTab(t)
  BY ButtonTab
<1>2. \A f \in Fields : f # "button" => view'[t][f] = view[t][f]
  BY DEF Inv, TabShape, SetButton, Fields
<1>3. Exhausted' = Exhausted
  BY DEF Exhausted
<1>4. TabSaw(t)'
  BY <1>2, <1>3 DEF Saw, TabSaw, Fields
<1> QED BY <1>1, <1>4, SawOnly

(* When the outbox changes, no tab has seen it stand still. *)
LEMMA OutboxSaw == ASSUME Inv, Saw, NEW r \in Rows, NEW st, SetOutbox(r, st) PROVE Saw'
<1>1. Exhausted' = {q \in Rows : outbox'[q] = "exhausted"}
  BY DEF Exhausted
<1>2. \A t \in Tabs :
        /\ view'[t].page = view[t].page /\ view'[t].fault = view[t].fault
        /\ view'[t].loading = view[t].loading /\ view'[t].failed = view[t].failed
        /\ view'[t].read = view[t].read /\ ~view'[t].still
        /\ view'[t].calm = (view[t].calm \/ Exhausted' = {})
  BY <1>1 DEF Inv, TabShape, Fields, SetOutbox
<1>3. \A t \in Tabs : /\ view[t].calm => view'[t].calm
                      /\ Exhausted' = {} => view'[t].calm
  BY <1>2
<1>4. ASSUME NEW t \in Tabs PROVE TabSaw(t)'
  BY <1>2, <1>3 DEF Saw, TabSaw
<1> QED BY <1>4 DEF Saw

(* The tabs are opened on pages that have read nothing. *)
LEMMA InitSaw == Init => Saw
<1> SUFFICES ASSUME Init, NEW t \in Tabs PROVE TabSaw(t)
  BY DEF Saw
<1>1. view[t] = Mounted(Landing[t])
  BY DEF Init
<1>a. view[t].page = Landing[t]
  BY <1>1 DEF Mounted
<1>b. view[t].calm = (Exhausted = {})
  BY <1>1 DEF Mounted
<1>c. view[t].read = [n \in Reads(Landing[t]) |-> Unread]
  BY <1>1 DEF Mounted
<1>d. view[t].loading = (Landing[t] # "verification")
  BY <1>1 DEF Mounted
<1>2. Landing[t] = "verification" => Reads(Landing[t]) = {}
  BY DEF Reads
<1>3. \A n \in Reads(Landing[t]) : view[t].read[n] = Unread
  BY <1>c
<1> QED BY <1>a, <1>b, <1>d, <1>2, <1>3 DEF TabSaw

(* A step that changes neither outbox nor view. *)
LEMMA IdleSaw == ASSUME Saw, UNCHANGED <<outbox, view>> PROVE Saw'
BY DEF Saw, TabSaw, Exhausted

(* A replay moves the outbox or a button. *)
LEMMA PostSaw ==
    ASSUME Inv, Saw, NEW p \in posts,
           replayDelivery(p) \/ ReplayAnswered(p) \/ ReplayLost(p)
    PROVE  Saw'
<1>1. p.row \in Rows /\ p.tab \in Tabs \cup {NoTab}
  BY DEF Inv, PostsOK
<1>2. CASE replayDelivery(p)
  <2>1. SetOutbox(p.row, "pending") \/ UNCHANGED <<outbox, view>>
    BY <1>2 DEF replayDelivery
  <2> QED BY <1>1, <2>1, OutboxSaw, IdleSaw
<1>3. ASSUME NEW st, Settle(p, st) PROVE Saw'
  <2>1. UNCHANGED outbox /\ (UNCHANGED view \/ (p.tab \in Tabs /\ SetButton(p.tab, p.row, st)))
    BY <1>1, <1>3 DEF Settle
  <2> QED BY <1>1, <2>1, ButtonSaw, IdleSaw
<1>4. CASE ReplayAnswered(p)
  BY <1>3, <1>4 DEF ReplayAnswered
<1>5. CASE ReplayLost(p)
  BY <1>3, <1>5 DEF ReplayLost
<1> QED BY <1>2, <1>4, <1>5

(* Every step keeps what the tabs have read explained. *)
LEMMA SawNext == Inv /\ Saw /\ [Next]_vars => Saw'
<1> SUFFICES ASSUME Inv, Saw, [Next]_vars PROVE Saw'
  OBVIOUS
<1>1. ASSUME NEW r \in Rows, DeliverOrExhaust(r) PROVE Saw'
  BY <1>1, OutboxSaw DEF DeliverOrExhaust
<1>2. CASE Traffic
  BY <1>2, IdleSaw DEF Traffic, tabs
<1>3. ASSUME NEW p \in posts, replayDelivery(p) \/ ReplayAnswered(p) \/ ReplayLost(p)
      PROVE  Saw'
  BY <1>3, PostSaw
<1>4. ASSUME NEW t \in Tabs, Load(t) PROVE Saw'
  BY <1>4, AnswerReadSaw, LoadEndsSaw DEF Load
<1>5. ASSUME NEW t \in Tabs, NEW page \in Pages, Visit(t, page) PROVE Saw'
  BY <1>5, VisitSaw
<1>6. ASSUME NEW t \in Tabs, NEW r \in Rows, handleClick(t, r) \/ ButtonTimer(t, r)
      PROVE  Saw'
  BY <1>6, ButtonSaw DEF handleClick, ButtonTimer
<1>7. ASSUME NEW t \in Tabs, runDemo(t) \/ DemoEnds(t) PROVE Saw'
  BY <1>7, DemoSaw
<1>8. CASE UNCHANGED vars
  BY <1>8, IdleSaw DEF vars, tabs
<1> QED BY <1>1, <1>2, <1>3, <1>4, <1>5, <1>6, <1>7, <1>8 DEF Next

(* Both invariants hold in every behaviour. *)
LEMMA SawInvariance == Spec => [](Inv /\ Saw)
<1>1. Init => Inv /\ Saw
  BY InitInv, InitSaw
<1>2. Inv /\ Saw /\ [Next]_vars => (Inv /\ Saw)'
  BY NextInv, SawNext
<1> QED BY <1>1, <1>2, PTL DEF Spec

(* A page that loaded without a failed query and says that all is well was right at
   some instant since it was mounted. *)
THEOREM HeadlinesWereTrue == Spec => []AllClearWasTrue
<1>1. Inv /\ Saw => AllClearWasTrue
  <2> SUFFICES ASSUME Inv, Saw, NEW t \in Tabs, SaysNormal(t) \/ SaysOperational(t),
                      ~view[t].failed, ~view[t].fault
               PROVE  view[t].calm
    BY DEF AllClearWasTrue
  <2>1. ~view[t].loading
    BY DEF SaysNormal, SaysOperational
  <2>2. ASSUME NEW n \in Reads(view[t].page) \ {"deliveries"},
               ~Number(t, n, "exhausted")
        PROVE  view[t].calm
    BY <2>1, <2>2 DEF Saw, TabSaw, Number
  <2>3. CASE SaysNormal(t)
    <3>1. "deliveryStats" \in Reads(view[t].page) /\ ~Number(t, "deliveryStats", "exhausted")
      BY <2>3 DEF SaysNormal, allGood, exhaustedCount, Reads
    <3> QED BY <2>2, <3>1
  <2>4. CASE SaysOperational(t)
    <3>1. "stats" \in Reads(view[t].page) /\ ~Number(t, "stats", "exhausted")
      BY <2>4 DEF SaysOperational, isDegraded, Reads
    <3> QED BY <2>2, <3>1
  <2> QED BY <2>3, <2>4
<1> QED BY <1>1, SawInvariance, PTL

(* While the outbox stands still, Health's headline and its table mean the same
   deliveries. *)
THEOREM CountsAgreeWithTable == Spec => []HeadlineMatchesTable
<1>1. Inv /\ Saw => HeadlineMatchesTable
  <2> SUFFICES ASSUME Saw, NEW t \in Tabs, view[t].page = "health", ~view[t].loading,
                      ~view[t].failed, ~view[t].fault, view[t].still
               PROVE  exhaustedCount(t) <=> view[t].read["deliveries"].rows # {}
    BY DEF HeadlineMatchesTable
  <2>1. {"deliveryStats", "deliveries"} \subseteq Reads(view[t].page)
    BY DEF Reads
  <2>2. /\ view[t].read["deliveryStats"] # Unread
        /\ view[t].read["deliveries"] # Unread
    BY <2>1 DEF Saw, TabSaw
  <2>3. view[t].read["deliveryStats"].stats.exhausted <=> Exhausted # {}
    BY <2>1, <2>2 DEF Saw, TabSaw
  <2>4. view[t].read["deliveries"].rows = Exhausted
    BY <2>1, <2>2 DEF Saw, TabSaw
  <2>5. exhaustedCount(t) <=> view[t].read["deliveryStats"].stats["exhausted"]
    BY <2>2 DEF exhaustedCount, Number
  <2> QED BY <2>3, <2>4, <2>5
<1> QED BY <1>1, SawInvariance, PTL

-------------------------------------------------------------------------------
(* Types.                                                                  *)

(* What the invariant does not say: the records of the tabs, the counters and the bound
   of the clicks. *)
Typed ==
    /\ busy \in BOOLEAN /\ rejecting \in BOOLEAN
    /\ {moves, faults, visits} \subseteq Nat /\ clicks <= MaxClicks
    /\ view \in [Tabs -> View]

(* With the invariant it is the type. *)
LEMMA TypedIsTypeOK == Inv /\ Typed => TypeOK
<1> SUFFICES ASSUME Inv, Typed PROVE TypeOK
  OBVIOUS
<1>1. clicks \in Nat /\ 1..clicks \subseteq 1..MaxClicks
  BY ConstantsOK DEF Inv, PostsOK, Typed
<1>2. posts \subseteq Post
  <2> SUFFICES ASSUME NEW p \in posts PROVE p \in Post
    OBVIOUS
  <2>1. /\ p = [id |-> p.id, tab |-> p.tab, row |-> p.row, at |-> p.at]
        /\ p.id \in 1..MaxClicks /\ p.tab \in Tabs \cup {NoTab}
        /\ p.row \in Rows /\ p.at \in {"sent", "ok", "refused"}
    BY <1>1 DEF Inv, PostsOK
  <2> QED BY <2>1 DEF Post
<1>3. \A t \in Tabs : DOMAIN view[t].read = Reads(view[t].page)
  BY DEF Inv, TabShape
<1> QED BY <1>1, <1>2, <1>3 DEF TypeOK, Typed, Inv, OutboxOK

(* What a page has read so far. *)
LEMMA ReadTyped ==
    ASSUME NEW page \in Pages, NEW f \in [Reads(page) -> Answers]
    PROVE  f \in UNION {[Reads(p) -> Answers] : p \in Pages}
OBVIOUS

(* A page just mounted. *)
LEMMA MountedTyped == ASSUME NEW page \in Pages PROVE Mounted(page) \in View
<1> DEFINE read == [n \in Reads(page) |-> Unread]
           button == [r \in Rows |-> "idle"]
<1>1. read \in UNION {[Reads(p) -> Answers] : p \in Pages}
  <2>1. read \in [Reads(page) -> Answers]
    BY DEF Answers
  <2> QED BY <2>1, ReadTyped
<1>2. button \in [Rows -> {"idle", "loading", "success", "error"}]
  OBVIOUS
<1>3. (page # "verification") \in BOOLEAN /\ (Exhausted = {}) \in BOOLEAN
  OBVIOUS
<1>4. Mounted(page) = [page |-> page, loading |-> page # "verification", failed |-> FALSE,
                       fault |-> FALSE, read |-> read, button |-> button, running |-> FALSE,
                       report |-> FALSE, calm |-> Exhausted = {}, still |-> TRUE]
  BY DEF Mounted
<1> HIDE DEF read, button
<1> QED BY <1>1, <1>2, <1>3, <1>4 DEF View

(* Every tab has one at the start. *)
LEMMA InitTyped == Init => Typed
<1> SUFFICES ASSUME Init PROVE Typed
  OBVIOUS
<1>1. \A t \in Tabs : Landing[t] \in Pages
  BY ConstantsOK DEF Pages
<1>2. view \in [Tabs -> View]
  BY <1>1, MountedTyped DEF Init
<1>3. {moves, faults, visits} \subseteq Nat /\ clicks <= MaxClicks
  BY ConstantsOK DEF Init
<1>4. busy \in BOOLEAN /\ rejecting \in BOOLEAN
  BY DEF Init
<1> QED BY <1>2, <1>3, <1>4 DEF Typed

(* An answer of the server. *)
LEMMA AnswerTyped ==
    ASSUME Typed, NEW n \in {"stats", "deliveryStats", "deliveries"}
    PROVE  Answer(n) \in Answers /\ Counted(Zeros) \in Answers
<1>1. Zeros \in Stats /\ [Zeros EXCEPT !.exhausted = (Exhausted # {})] \in Stats
  BY DEF Zeros, Stats
<1>2. [exhausted |-> Exhausted # {}, busy |-> busy, rejecting |-> rejecting] \in Stats
  BY DEF Stats, Typed
<1>3. Exhausted \in SUBSET Rows
  BY DEF Exhausted
<1>4. \A s \in Stats : Counted(s) \in Answers
  BY DEF Answers
<1>5. \A rs \in SUBSET Rows : Listed(rs) \in Answers
  BY DEF Answers
<1>6. CASE n = "stats"
  BY <1>1, <1>2, <1>4, <1>6 DEF Answer
<1>7. CASE n = "deliveryStats"
  BY <1>1, <1>4, <1>7 DEF Answer
<1>8. CASE n = "deliveries"
  BY <1>1, <1>3, <1>4, <1>5, <1>8 DEF Answer
<1> QED BY <1>6, <1>7, <1>8

(* One tab changes within its type. *)
LEMMA TabTyped ==
    ASSUME view \in [Tabs -> View], NEW t \in Tabs, NEW w \in View,
           view' = [view EXCEPT ![t] = w]
    PROVE  view' \in [Tabs -> View]
OBVIOUS

(* A page reads. *)
LEMMA AnswerReadTyped ==
    ASSUME Inv, Typed, NEW t \in Tabs, NEW n \in Reads(view[t].page), AnswerRead(t, n)
    PROVE  view' \in [Tabs -> View]
<1> DEFINE v == view[t]
           Read(a) == [v.read EXCEPT ![n] = a]
<1>1. n \in {"stats", "deliveryStats", "deliveries"} /\ v \in View /\ v.page \in Pages
      /\ DOMAIN v.read = Reads(v.page)
  BY DEF Inv, TabShape, Reads, Typed, Pages
<1>2. v.read \in [Reads(v.page) -> Answers]
  BY <1>1 DEF View
<1>3. ASSUME NEW a \in Answers
      PROVE  Read(a) \in UNION {[Reads(p) -> Answers] : p \in Pages}
  <2>1. Read(a) \in [Reads(v.page) -> Answers]
    BY <1>2
  <2> QED BY <1>1, <2>1, ReadTyped
<1>4. PICK a \in Answers, fault \in BOOLEAN :
        view' = [view EXCEPT ![t] = [v EXCEPT !.read = Read(a), !.fault = fault]]
  <2>1. Answer(n) \in Answers /\ Counted(Zeros) \in Answers
    BY <1>1, AnswerTyped
  <2>2. CASE view' = [view EXCEPT ![t].read[n] = Answer(n)]
    <3>1. [v EXCEPT !.read = Read(Answer(n))]
            = [v EXCEPT !.read = Read(Answer(n)), !.fault = v.fault]
      BY <1>1 DEF View
    <3>2. view' = [view EXCEPT ![t] = [v EXCEPT !.read = Read(Answer(n))]]
      BY <2>2
    <3>3. v.fault \in BOOLEAN
      BY <1>1 DEF View
    <3> QED BY <2>1, <3>1, <3>2, <3>3
  <2>3. CASE view' = [view EXCEPT ![t].fault = TRUE, ![t].read[n] = Counted(Zeros)]
    <3>1. view' = [view EXCEPT ![t] = [v EXCEPT !.read = Read(Counted(Zeros)), !.fault = TRUE]]
      BY <1>1, <2>3 DEF View, Typed
    <3> QED BY <2>1, <3>1
  <2> QED BY <2>2, <2>3 DEF AnswerRead
<1> DEFINE read == Read(a)
           w == [v EXCEPT !.read = read, !.fault = fault]
<1>5. read \in UNION {[Reads(p) -> Answers] : p \in Pages}
  BY <1>3
<1>6. view' = [view EXCEPT ![t] = w]
  BY <1>4
<1> HIDE DEF read, v
<1>7. w \in View
  BY <1>1, <1>5 DEF View
<1> QED BY <1>6, <1>7, TabTyped DEF Typed


(* A page has loaded, or none of its reads is shown. *)
LEMMA LoadEndsTyped ==
    ASSUME Inv, Typed, NEW t \in Tabs, LoadDone(t) \/ LoadFailed(t)
    PROVE  view' \in [Tabs -> View]
<1> DEFINE v == view[t]
<1>1. v \in View /\ v.page \in Pages
  BY DEF Inv, TabShape, Typed
<1>2. CASE LoadDone(t)
  <2> DEFINE w == [v EXCEPT !.loading = FALSE]
  <2>1. view' = [view EXCEPT ![t] = w]
    BY <1>2 DEF LoadDone
  <2> HIDE DEF v
  <2>2. w \in View
    BY <1>1 DEF View
  <2> QED BY <2>1, <2>2, TabTyped DEF Typed
<1>3. CASE LoadFailed(t)
  <2> DEFINE read == [n \in Reads(v.page) |-> Unread]
             w    == [v EXCEPT !.loading = FALSE, !.failed = TRUE, !.read = read]
  <2>1. view' = [view EXCEPT ![t] = w]
    BY <1>3 DEF LoadFailed, Typed
  <2>2. read \in UNION {[Reads(p) -> Answers] : p \in Pages}
    <3>1. read \in [Reads(v.page) -> Answers]
      BY DEF Answers
    <3> QED BY <1>1, <3>1, ReadTyped
  <2> HIDE DEF v, read
  <2>3. w \in View
    BY <1>1, <2>2 DEF View
  <2> QED BY <2>1, <2>3, TabTyped DEF Typed
<1> QED BY <1>2, <1>3

(* A button changes. *)
LEMMA ButtonTyped ==
    ASSUME Inv, Typed, NEW t \in Tabs, NEW r \in Rows,
           NEW st \in {"idle", "loading", "success", "error"}, SetButton(t, r, st)
    PROVE  view' \in [Tabs -> View]
<1> DEFINE v      == view[t]
           button == [v.button EXCEPT ![r] = st]
           w      == [v EXCEPT !.button = button]
<1>1. view' = [view EXCEPT ![t] = w]
  BY DEF SetButton
<1>2. v \in View
  BY DEF Typed
<1> HIDE DEF v
<1>3. button \in [Rows -> {"idle", "loading", "success", "error"}]
  BY <1>2 DEF View
<1> HIDE DEF button
<1>4. w \in View
  BY <1>2, <1>3 DEF View
<1> QED BY <1>1, <1>4, TabTyped DEF Typed

(* The lab runs or ends. *)
LEMMA DemoTyped ==
    ASSUME Inv, Typed, NEW t \in Tabs, runDemo(t) \/ DemoEnds(t)
    PROVE  view' \in [Tabs -> View]
<1> DEFINE v == view[t]
<1>1. v \in View
  BY DEF Typed
<1>2. PICK running \in BOOLEAN, failed \in BOOLEAN, report \in BOOLEAN :
        view' = [view EXCEPT ![t] = [v EXCEPT !.running = running, !.failed = failed,
                                              !.report = report]]
  <2>1. v.failed \in BOOLEAN /\ v.report \in BOOLEAN
    BY <1>1 DEF View
  <2>2. CASE runDemo(t)
    <3>1. [v EXCEPT !.running = TRUE, !.failed = FALSE]
            = [v EXCEPT !.running = TRUE, !.failed = FALSE, !.report = v.report]
      BY <1>1 DEF View
    <3>2. view' = [view EXCEPT ![t] = [v EXCEPT !.running = TRUE, !.failed = FALSE]]
      BY <2>2 DEF runDemo, Typed
    <3> QED BY <2>1, <3>1, <3>2
  <2>3. CASE view' = [view EXCEPT ![t].running = FALSE, ![t].report = TRUE]
    <3>1. [v EXCEPT !.running = FALSE, !.report = TRUE]
            = [v EXCEPT !.running = FALSE, !.failed = v.failed, !.report = TRUE]
      BY <1>1 DEF View
    <3>2. view' = [view EXCEPT ![t] = [v EXCEPT !.running = FALSE, !.report = TRUE]]
      BY <2>3 DEF Typed
    <3> QED BY <2>1, <3>1, <3>2
  <2>4. CASE view' = [view EXCEPT ![t].running = FALSE, ![t].failed = TRUE]
    <3>1. [v EXCEPT !.running = FALSE, !.failed = TRUE]
            = [v EXCEPT !.running = FALSE, !.failed = TRUE, !.report = v.report]
      BY <1>1 DEF View
    <3>2. view' = [view EXCEPT ![t] = [v EXCEPT !.running = FALSE, !.failed = TRUE]]
      BY <2>4 DEF Typed
    <3> QED BY <2>1, <3>1, <3>2
  <2> QED BY <2>2, <2>3, <2>4 DEF DemoEnds
<1> DEFINE w == [v EXCEPT !.running = running, !.failed = failed, !.report = report]
<1>3. view' = [view EXCEPT ![t] = w]
  BY <1>2
<1> HIDE DEF v
<1>4. w \in View
  BY <1>1 DEF View
<1> QED BY <1>3, <1>4, TabTyped DEF Typed

(* The outbox moves: the tabs remember. *)
LEMMA OutboxTyped ==
    ASSUME Inv, Typed, NEW r \in Rows, NEW st, SetOutbox(r, st)
    PROVE  view' \in [Tabs -> View]
<1> DEFINE Calm(t) == view[t].calm \/ {q \in Rows : outbox'[q] = "exhausted"} = {}
           w(t) == [view[t] EXCEPT !.calm = Calm(t), !.still = FALSE]
<1>1. view' = [t \in Tabs |-> w(t)]
  BY DEF SetOutbox
<1>2. ASSUME NEW t \in Tabs PROVE w(t) \in View
  <2>1. view[t] \in View
    BY DEF Typed
  <2>2. Calm(t) \in BOOLEAN
    BY <2>1 DEF View
  <2> HIDE DEF Calm
  <2> QED BY <2>1, <2>2 DEF View
<1> HIDE DEF w
<1> QED BY <1>1, <1>2

(* Every step keeps the types. *)
LEMMA NextTyped == Inv /\ Typed /\ [Next]_vars => Typed'
<1> SUFFICES ASSUME Inv, Typed, [Next]_vars PROVE Typed'
  OBVIOUS
<1> DEFINE Kept == view' \in [Tabs -> View]
           Counts == /\ busy' \in BOOLEAN /\ rejecting' \in BOOLEAN
                     /\ {moves', faults', visits'} \subseteq Nat /\ clicks' <= MaxClicks
<1>0. clicks \in Nat /\ MaxClicks \in Nat
  BY ConstantsOK DEF Inv, PostsOK
<1>1. ASSUME UNCHANGED <<busy, rejecting, visits, clicks>>,
             moves' = moves \/ moves' = moves + 1, faults' = faults \/ faults' = faults + 1
      PROVE  Counts
  BY <1>1 DEF Typed
<1>2. ASSUME NEW r \in Rows, DeliverOrExhaust(r) PROVE Kept /\ Counts
  <2>1. Kept
    BY <1>2, OutboxTyped DEF DeliverOrExhaust
  <2> QED BY <1>1, <1>2, <2>1 DEF DeliverOrExhaust, counters
<1>3. ASSUME Traffic PROVE Kept /\ Counts
  <2>1. busy' \in BOOLEAN /\ rejecting' \in BOOLEAN
    BY <1>3, Zenon DEF Traffic, Typed
  <2>2. moves' = moves + 1 /\ UNCHANGED <<faults, view, clicks, visits>>
    BY <1>3 DEF Traffic, tabs
  <2> QED BY <2>1, <2>2 DEF Typed
<1>4. ASSUME NEW p \in posts, replayDelivery(p) PROVE Kept /\ Counts
  <2>1. p.row \in Rows
    BY DEF Inv, PostsOK
  <2>2. Kept
    BY <1>4, <2>1, OutboxTyped DEF replayDelivery, Typed
  <2> QED BY <1>1, <1>4, <2>2 DEF replayDelivery, counters
<1>5. ASSUME NEW p \in posts, ReplayAnswered(p) \/ ReplayLost(p) PROVE Kept /\ Counts
  <2>1. PICK st \in {"success", "error"} : Settle(p, st)
    BY <1>5 DEF ReplayAnswered, ReplayLost
  <2>2. p.row \in Rows /\ p.tab \in Tabs \cup {NoTab}
    BY DEF Inv, PostsOK
  <2>3. Kept
    BY <2>1, <2>2, ButtonTyped DEF Settle, Typed
  <2> QED BY <1>1, <2>1, <2>3 DEF Settle, counters
<1>6. ASSUME NEW t \in Tabs, Load(t) PROVE Kept /\ Counts
  <2>1. Kept
    BY <1>6, AnswerReadTyped, LoadEndsTyped DEF Load
  <2>2. Counts
    BY <1>1, <1>6 DEF Load, AnswerRead, LoadDone, LoadFailed, counters
  <2> QED BY <2>1, <2>2
<1>7. ASSUME NEW t \in Tabs, NEW page \in Pages, Visit(t, page) PROVE Kept /\ Counts
  <2>1. Kept
    BY <1>7, MountedTyped, TabTyped DEF Visit, Typed
  <2> QED BY <1>7, <2>1 DEF Visit, counters, Typed
<1>8. ASSUME NEW t \in Tabs, NEW r \in Rows, handleClick(t, r) PROVE Kept /\ Counts
  <2>1. Kept
    BY <1>8, ButtonTyped DEF handleClick
  <2> QED BY <1>0, <1>8, <2>1 DEF handleClick, counters, Typed
<1>9. ASSUME NEW t \in Tabs, NEW r \in Rows, ButtonTimer(t, r) PROVE Kept /\ Counts
  <2>1. Kept
    BY <1>9, ButtonTyped DEF ButtonTimer
  <2> QED BY <1>1, <1>9, <2>1 DEF ButtonTimer, counters
<1>10. ASSUME NEW t \in Tabs, runDemo(t) \/ DemoEnds(t) PROVE Kept /\ Counts
  <2>1. Kept
    BY <1>10, DemoTyped
  <2> QED BY <1>1, <1>10, <2>1 DEF runDemo, DemoEnds, counters
<1>11. ASSUME UNCHANGED vars PROVE Kept /\ Counts
  BY <1>11 DEF vars, tabs, counters, Typed
<1> HIDE DEF Kept, Counts
<1>12. Kept /\ Counts
  BY <1>2, <1>3, <1>4, <1>5, <1>6, <1>7, <1>8, <1>9, <1>10, <1>11 DEF Next
<1> QED BY <1>12 DEF Typed, Kept, Counts

(* Every variable has its type, a page holds answers to its own reads only, and of the
   right sort. *)
THEOREM PagesTyped == Spec => []TypeOK
<1>1. Spec => [](Inv /\ Typed)
  BY InitInv, NextInv, InitTyped, NextTyped, PTL DEF Spec
<1> QED BY <1>1, TypedIsTypeOK, PTL
===============================================================================
