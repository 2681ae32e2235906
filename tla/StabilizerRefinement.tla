------------------------- MODULE StabilizerRefinement -------------------------
(***************************************************************************)
(* Stabilizer implements HoldLifecycle, for every value of the constants.  *)
(*                                                                         *)
(* The refinement mapping turns the evidence in the tables into grounds,   *)
(* so the argument is about evidence: it only grows, it grows for one      *)
(* existing hold at a time and never in the step that resolves a hold, and *)
(* whatever verdict is on its way stays supported (Justified).             *)
(***************************************************************************)
EXTENDS StabilizerProofs

-------------------------------------------------------------------------------
(* How a step may change the status of a hold: it is created, it is        *)
(* resolved, or it stays.                                                  *)
HoldMoves(t) ==
    \/ hold'[t] = hold[t]
    \/ hold[t] = "NONE" /\ hold'[t] = "PENDING"
    \/ hold[t] \in Open /\ hold'[t] \in Terminal

LEMMA HoldStep ==
    ASSUME TypeOK, [Next]_vars
    PROVE  \A t \in Txns : HoldMoves(t)
<1>1. ASSUME NEW t \in Txns, NEW o \in Outcomes, Conclude(t, o)
      PROVE  \A u \in Txns : HoldMoves(u)
    BY <1>1 DEF TypeOK, Conclude, HoldMoves, Outcomes
<1>2. ASSUME UNCHANGED hold PROVE \A u \in Txns : HoldMoves(u)
    BY <1>2 DEF HoldMoves
<1>3. ASSUME NEW t \in Txns, CreateHold(t) PROVE \A u \in Txns : HoldMoves(u)
    BY <1>3 DEF TypeOK, CreateHold, HoldMoves
<1>4. ASSUME NEW t \in Txns, NEW k \in PollIds, Settle(t, k)
      PROVE  \A u \in Txns : HoldMoves(u)
    <2>1. job[t][k].outcome \in Outcomes
        BY <1>4, JobFields DEF Settle, Busy
    <2> QED BY <1>4, <2>1, <1>1 DEF Settle
<1>5. ASSUME NEW i \in Instances, TtlSettle(i) PROVE \A u \in Txns : HoldMoves(u)
    <2>1. CASE Conclude(scanner[i].cur, TtlOutcome(scanner[i].ans))
        BY <1>5, <2>1, TtlOutcomeType, <1>1 DEF TtlSettle
    <2>2. CASE UNCHANGED hold
        BY <2>2, <1>2
    <2> QED BY <1>5, <2>1, <2>2 DEF TtlSettle
<1>6. ASSUME NEW t \in Txns, NEW k \in PollIds,
             \/ \E i \in Instances : ClaimPoll(i, t, k)
             \/ Requeue(t, k) \/ NoClientFails(t, k) \/ AskGateway(t, k)
             \/ RecordError(t, k) \/ RecordAnswer(t, k) \/ Judge(t, k)
             \/ ScheduleNextPoll(t, k) \/ JobFails(t, k)
      PROVE  UNCHANGED hold
    BY <1>6 DEF ClaimPoll, Requeue, NoClientFails, AskGateway, RecordError, RecordAnswer,
                Judge, ScheduleNextPoll, JobFails, tables
<1>7. ASSUME NEW i \in Instances,
             \/ Crash(i) \/ TtlClaim(i) \/ \E t \in Txns : TtlCheck(i, t)
             \/ \E e \in Events : WebhookInsert(i, e)
      PROVE  UNCHANGED hold
    BY <1>7 DEF Crash, TtlClaim, TtlCheck, WebhookInsert, tables
<1>8. ASSUME NEW e \in Events, WebhookEnqueue(e) \/ WebhookEnqueueFails(e)
      PROVE  UNCHANGED hold
    BY <1>8 DEF WebhookEnqueue, WebhookEnqueueFails, tables
<1>9. ASSUME NEW t \in Txns, HoldExpires(t) PROVE UNCHANGED hold
    BY <1>9 DEF HoldExpires
<1>10. CASE UNCHANGED vars
    BY <1>10, <1>2 DEF vars
<1> QED
    BY <1>2, <1>3, <1>4, <1>5, <1>6, <1>7, <1>8, <1>9, <1>10 DEF Next, JobStep, TtlStep

-------------------------------------------------------------------------------
(* How a step may change the evidence about a hold. *)
SameEvidence(t) ==
    /\ done'[t] = done[t] /\ finalSeen'[t] = finalSeen[t]
    /\ \A k \in PollIds : poll'[t][k].attempt = poll[t][k].attempt

EvidenceGrows(t) ==
    /\ done'[t] = done[t] \/ \E a \in Answers : done'[t] = Append(done[t], a)
    /\ finalSeen[t] \subseteq finalSeen'[t]
    /\ \A k \in PollIds : poll'[t][k].attempt >= poll[t][k].attempt

(* Evidence is gathered about one hold that exists, and decides nothing yet. *)
Gathers(t) ==
    /\ hold[t] # "NONE" /\ UNCHANGED <<hold, outbox>>
    /\ EvidenceGrows(t) /\ \A u \in Txns \ {t} : SameEvidence(u)

EvidenceMoves ==
    (\A t \in Txns : SameEvidence(t)) \/ (\E t \in Txns : Gathers(t))

LEMMA SameIsGrowth ==
    ASSUME TypeOK, NEW t \in Txns, SameEvidence(t)
    PROVE  EvidenceGrows(t)
<1>1. \A k \in PollIds : poll[t][k].attempt \in Nat
    BY JobFields
<1> QED BY <1>1 DEF SameEvidence, EvidenceGrows

(* A status update leaves the attempt numbers alone. *)
LEMMA StatusKeepsAttempts ==
    ASSUME TypeOK, NEW t \in Txns, NEW k \in PollIds, NEW st, SetPollStatus(t, k, st)
    PROVE  \A u \in Txns, l \in PollIds : poll'[u][l].attempt = poll[u][l].attempt
<1>1. \A u \in Txns, l \in PollIds : poll[u][l] \in Polls
    BY DEF TypeOK
<1>2. [poll[t][k] EXCEPT !.status = st].attempt = poll[t][k].attempt
    BY <1>1 DEF Polls
<1>3. \A u \in Txns, l \in PollIds :
          poll'[u][l] = IF u = t /\ l = k THEN [poll[t][k] EXCEPT !.status = st]
                                          ELSE poll[u][l]
    BY DEF TypeOK, SetPollStatus
<1> QED BY <1>2, <1>3

LEMMA RowNumbers ==
    ASSUME TypeOK
    PROVE  \A t \in Txns, k \in PollIds : used[t] \in Nat /\ k \in Nat /\ k > 0
BY ConstantsOK DEF TypeOK, PollIds

(* Only a row has a goroutine, and only a created hold has rows. *)
LEMMA BusyRow ==
    ASSUME TypeOK, Justified, NEW t \in Txns, NEW k \in PollIds, job[t][k].pc # "idle"
    PROVE  k <= used[t] /\ hold[t] # "NONE"
<1>1. used[t] \in Nat /\ k \in Nat /\ k > 0
    BY RowNumbers
<1>2. k <= used[t]
    BY <1>1 DEF Justified, RowsInOrder, NoJob
<1> QED BY <1>1, <1>2 DEF Justified, NothingBeforeCreate

(* The place an insertion writes to was free. *)
LEMMA InsertKeepsAttempts ==
    ASSUME TypeOK, RowsInOrder, NEW t \in Txns, NEW n \in Nat, InsertPoll(t, n)
    PROVE  /\ \A l \in PollIds : poll'[t][l].attempt >= poll[t][l].attempt
           /\ \A u \in Txns \ {t} : poll'[u] = poll[u]
<1> DEFINE row == used[t] + 1
<1>1. used[t] \in Nat /\ row \in PollIds /\ row > used[t] /\ used' = [used EXCEPT ![t] = row]
    BY ConstantsOK DEF TypeOK, InsertPoll, PollIds
<1>2. poll[t][row] = NoPoll
    BY <1>1 DEF RowsInOrder
<1>3. \A l \in PollIds : poll[t][l].attempt \in Nat
    BY JobFields
<1>4. \A u \in Txns, l \in PollIds :
          poll'[u][l] = IF u = t /\ l = row THEN [status |-> "pending", attempt |-> n]
                                            ELSE poll[u][l]
    BY <1>1 DEF TypeOK, InsertPoll
<1>5. \A u \in Txns \ {t} : poll'[u] = poll[u] /\ used'[u] = used[u]
    BY DEF TypeOK, InsertPoll
<1>6. \A l \in PollIds : poll'[t][l].attempt >= poll[t][l].attempt
    BY <1>2, <1>3, <1>4 DEF NoPoll
<1> QED BY <1>5, <1>6

LEMMA EvidenceStep ==
    ASSUME TypeOK, Justified, [Next]_vars
    PROVE  EvidenceMoves
<1> USE DEF Justified
<1>1. ASSUME UNCHANGED <<done, finalSeen, poll>> PROVE EvidenceMoves
    BY <1>1 DEF EvidenceMoves, SameEvidence
<1>2. ASSUME NEW t \in Txns, NEW k \in PollIds, NEW st, SetPollStatus(t, k, st),
             UNCHANGED <<done, finalSeen>>
      PROVE  EvidenceMoves
    BY <1>2, StatusKeepsAttempts DEF EvidenceMoves, SameEvidence
<1>3. ASSUME NEW t \in Txns, NEW n \in Nat, InsertPoll(t, n), hold[t] # "NONE",
             UNCHANGED <<done, finalSeen, hold, outbox>>
      PROVE  EvidenceMoves
    <2>1. /\ \A l \in PollIds : poll'[t][l].attempt >= poll[t][l].attempt
          /\ \A u \in Txns \ {t} : poll'[u] = poll[u]
        BY <1>3, InsertKeepsAttempts
    <2>2. Gathers(t)
        BY <1>3, <2>1 DEF Gathers, EvidenceGrows, SameEvidence
    <2> QED BY <2>2 DEF EvidenceMoves
<1>4. ASSUME NEW e \in Events, WebhookEnqueue(e) PROVE EvidenceMoves
    <2>1. TxnOf[e] \in Txns
        BY ConstantsOK
    <2>2. CASE hold[TxnOf[e]] # "NONE"
        BY <2>1, <2>2, <1>3, <1>4 DEF WebhookEnqueue
    <2>3. CASE hold[TxnOf[e]] = "NONE"
        BY <2>3, <1>1, <1>4 DEF WebhookEnqueue
    <2> QED BY <2>2, <2>3
<1>5. ASSUME NEW t \in Txns, NEW k \in PollIds,
             \/ \E i \in Instances : ClaimPoll(i, t, k)
             \/ Requeue(t, k) \/ NoClientFails(t, k)
      PROVE  EvidenceMoves
    BY <1>5, <1>2 DEF ClaimPoll, Requeue, NoClientFails
<1>6. ASSUME NEW t \in Txns, NEW k \in PollIds, RecordError(t, k) PROVE EvidenceMoves
    <2>1. CASE SetPollStatus(t, k, "failed")
        BY <1>6, <2>1, <1>2 DEF RecordError
    <2>2. CASE UNCHANGED poll
        BY <1>6, <2>2, <1>1 DEF RecordError
    <2> QED BY <1>6, <2>1, <2>2 DEF RecordError
<1>7. ASSUME NEW t \in Txns, NEW k \in PollIds, RecordAnswer(t, k) PROVE EvidenceMoves
    <2>1. job[t][k].ans \in Answers
        BY <1>7, JobFields DEF RecordAnswer, Busy
    <2>2. hold[t] # "NONE"
        BY <1>7, BusyRow DEF RecordAnswer, Busy
    <2>3. \A u \in Txns, l \in PollIds : poll'[u][l].attempt = poll[u][l].attempt
        BY <1>7, StatusKeepsAttempts DEF RecordAnswer
    <2>4. /\ done'[t] = Append(done[t], job[t][k].ans)
          /\ \A u \in Txns \ {t} : done'[u] = done[u]
        BY <1>7 DEF RecordAnswer, TypeOK
    <2>5. \A l \in PollIds : poll[t][l].attempt \in Nat
        BY JobFields
    <2>6. Gathers(t)
        BY <1>7, <2>1, <2>2, <2>3, <2>4, <2>5
        DEF Gathers, EvidenceGrows, SameEvidence, RecordAnswer
    <2> QED BY <2>6 DEF EvidenceMoves
<1>8. ASSUME NEW t \in Txns, NEW k \in PollIds, ScheduleNextPoll(t, k) PROVE EvidenceMoves
    <2>1. poll[t][k].attempt + 1 \in Nat
        BY JobFields
    <2>2. hold[t] # "NONE"
        BY <1>8, BusyRow DEF ScheduleNextPoll, Busy
    <2> QED BY <1>8, <2>1, <2>2, <1>3 DEF ScheduleNextPoll
<1>9. ASSUME NEW i \in Instances, NEW t \in Txns, TtlCheck(i, t) PROVE EvidenceMoves
    <2>1. hold[t] # "NONE"
        BY <1>9 DEF TtlCheck, NothingBeforeCreate
    <2>2. \/ UNCHANGED finalSeen
          \/ \E a \in Answers : finalSeen' = [finalSeen EXCEPT ![t] = @ \cup {a}]
        BY <1>9, ConstantsOK DEF TtlCheck
    <2>3. /\ finalSeen[t] \subseteq finalSeen'[t]
          /\ \A u \in Txns \ {t} : finalSeen'[u] = finalSeen[u]
        BY <2>2 DEF TypeOK
    <2>4. \A l \in PollIds : poll[t][l].attempt \in Nat
        BY JobFields
    <2>5. Gathers(t)
        BY <1>9, <2>1, <2>3, <2>4 DEF Gathers, EvidenceGrows, SameEvidence, TtlCheck, tables
    <2> QED BY <2>5 DEF EvidenceMoves
<1>10. ASSUME NEW t \in Txns, CreateHold(t) \/ HoldExpires(t)
       PROVE  UNCHANGED <<done, finalSeen, poll>>
    BY <1>10 DEF CreateHold, HoldExpires
<1>11. ASSUME NEW e \in Events,
              WebhookEnqueueFails(e) \/ \E i \in Instances : WebhookInsert(i, e)
       PROVE  UNCHANGED <<done, finalSeen, poll>>
    BY <1>11 DEF WebhookEnqueueFails, WebhookInsert, tables
<1>12. ASSUME NEW t \in Txns, NEW k \in PollIds,
              AskGateway(t, k) \/ Judge(t, k) \/ Settle(t, k) \/ JobFails(t, k)
       PROVE  UNCHANGED <<done, finalSeen, poll>>
    BY <1>12 DEF AskGateway, Judge, Settle, JobFails, tables
<1>13. ASSUME NEW i \in Instances, TtlClaim(i) \/ TtlSettle(i) \/ Crash(i)
       PROVE  UNCHANGED <<done, finalSeen, poll>>
    BY <1>13 DEF TtlClaim, TtlSettle, Crash, tables
<1>14. CASE UNCHANGED vars
    BY <1>14, <1>1 DEF vars
<1> QED
    BY <1>1, <1>4, <1>5, <1>6, <1>7, <1>8, <1>9, <1>10, <1>11, <1>12, <1>13, <1>14
    DEF Next, JobStep, TtlStep

-------------------------------------------------------------------------------
(* How a step may change the rows and goroutines: one at most, and what     *)
(* happens to it.                                                           *)
OnlyRow(t, k) ==
    /\ used' = used
    /\ \A u \in Txns, l \in PollIds : ~(u = t /\ l = k) =>
          poll'[u][l] = poll[u][l] /\ job'[u][l] = job[u][l]

(* The statements of the goroutine of poll k that insert no row. *)
RowStep(t, k) ==
    \/ Requeue(t, k) \/ NoClientFails(t, k) \/ AskGateway(t, k)
    \/ RecordError(t, k) \/ RecordAnswer(t, k) \/ Judge(t, k)
    \/ Settle(t, k) \/ JobFails(t, k)

LEMMA RowStepTouches ==
    ASSUME TypeOK, NEW t \in Txns, NEW k \in PollIds, RowStep(t, k)
    PROVE  OnlyRow(t, k) /\ job[t][k].pc # "idle"
<1>1. /\ UNCHANGED used
      /\ \/ UNCHANGED poll
         \/ \E st : SetPollStatus(t, k, st)
      /\ \E j : SetJob(t, k, j)
    BY DEF RowStep, Requeue, NoClientFails, AskGateway, RecordError, RecordAnswer, Judge,
           Settle, JobFails, tables
<1>2. job[t][k].pc # "idle"
    BY DEF RowStep, Requeue, NoClientFails, AskGateway, RecordError, RecordAnswer, Judge,
           Settle, JobFails, Busy
<1>3. OnlyRow(t, k)
    BY <1>1 DEF OnlyRow, SetPollStatus, SetJob, TypeOK
<1> QED BY <1>2, <1>3

LEMMA ClaimTouches ==
    ASSUME TypeOK, RowsInOrder, NEW i \in Instances, NEW t \in Txns, NEW k \in PollIds,
           ClaimPoll(i, t, k)
    PROVE  OnlyRow(t, k) /\ k <= used[t] /\ job'[t][k].pc = "claimed"
<1>1. OnlyRow(t, k)
    BY DEF OnlyRow, ClaimPoll, SetPollStatus, SetJob, TypeOK
<1>2. k <= used[t]
    <2>1. poll[t][k] # NoPoll
        BY DEF ClaimPoll, NoPoll
    <2> QED BY <2>1, RowNumbers DEF RowsInOrder
<1>3. job'[t][k].pc = "claimed"
    BY DEF ClaimPoll, SetJob, TypeOK, NoJob
<1> QED BY <1>1, <1>2, <1>3

(* A step that touches one existing row, or inserts the next one, keeps order. *)
LEMMA OnlyRowKeepsOrder ==
    ASSUME TypeOK, RowsInOrder, NEW t \in Txns, NEW k \in PollIds, OnlyRow(t, k), k <= used[t]
    PROVE  RowsInOrder'
<1>1. ASSUME NEW u \in Txns, NEW l \in PollIds, l > used'[u]
      PROVE  poll'[u][l] = NoPoll /\ job'[u][l] = NoJob
    <2>1. l > used[u] /\ ~(u = t /\ l = k)
        BY <1>1, RowNumbers DEF OnlyRow
    <2> QED BY <2>1 DEF OnlyRow, RowsInOrder
<1> QED BY <1>1 DEF RowsInOrder

LEMMA InsertKeepsOrder ==
    ASSUME TypeOK, RowsInOrder, NEW t \in Txns, NEW n \in Nat, InsertPoll(t, n),
           \A u \in Txns, l \in PollIds : job'[u][l] = job[u][l] \/ job'[u][l] = NoJob
    PROVE  RowsInOrder'
<1> DEFINE row == used[t] + 1
<1>a. \A u \in Txns : used[u] \in Nat
    BY ConstantsOK DEF TypeOK
<1>b. used[t] < MaxPolls /\ used' = [used EXCEPT ![t] = @ + 1]
    BY DEF InsertPoll
<1>1. used[t] \in Nat /\ row \in PollIds
    BY <1>a, <1>b, ConstantsOK DEF PollIds
<1>2. \A u \in Txns : used[u] \in Nat /\ used'[u] = IF u = t THEN row ELSE used[u]
    BY <1>a, <1>b DEF TypeOK
<1>3. \A u \in Txns, l \in PollIds : ~(u = t /\ l = row) => poll'[u][l] = poll[u][l]
    BY <1>1 DEF TypeOK, InsertPoll
<1>4. ASSUME NEW u \in Txns, NEW l \in PollIds, l > used'[u]
      PROVE  poll'[u][l] = NoPoll /\ job'[u][l] = NoJob
    <2>1. l > used[u] /\ ~(u = t /\ l = row)
        BY <1>1, <1>2, <1>4 DEF PollIds
    <2> QED BY <2>1, <1>3 DEF RowsInOrder
<1> QED BY <1>4 DEF RowsInOrder

(* A crash, and everything that is no step of a goroutine of the worker. *)
LEMMA JobsDropped ==
    ASSUME TypeOK,
           \/ UNCHANGED vars
           \/ \E t \in Txns : CreateHold(t) \/ HoldExpires(t)
           \/ \E e \in Events :
                 WebhookEnqueueFails(e) \/ \E i \in Instances : WebhookInsert(i, e)
           \/ \E i \in Instances : TtlStep(i) \/ Crash(i)
    PROVE  /\ UNCHANGED <<poll, used>>
           /\ \A t \in Txns, k \in PollIds : job'[t][k] = job[t][k] \/ job'[t][k] = NoJob
<1>1. UNCHANGED <<poll, used>>
    BY DEF vars, CreateHold, HoldExpires, WebhookEnqueueFails, WebhookInsert, TtlStep,
           TtlClaim, TtlCheck, TtlSettle, Crash, tables
<1>2. UNCHANGED job \/ \E i \in Instances : Crash(i)
    BY DEF vars, CreateHold, HoldExpires, WebhookEnqueueFails, WebhookInsert, TtlStep,
           TtlClaim, TtlCheck, TtlSettle, tables
<1>3. \A t \in Txns, k \in PollIds : job'[t][k] = job[t][k] \/ job'[t][k] = NoJob
    BY <1>2 DEF Crash
<1> QED BY <1>1, <1>3

LEMMA RowsStep ==
    ASSUME TypeOK, Justified, [Next]_vars
    PROVE  RowsInOrder'
<1> USE DEF Justified
<1>1. ASSUME UNCHANGED <<poll, used>>,
             \A t \in Txns, k \in PollIds : job'[t][k] = job[t][k] \/ job'[t][k] = NoJob
      PROVE  RowsInOrder'
    BY <1>1 DEF RowsInOrder
<1>2. ASSUME NEW e \in Events, WebhookEnqueue(e) PROVE RowsInOrder'
    <2>1. TxnOf[e] \in Txns /\ UNCHANGED job
        BY <1>2, ConstantsOK DEF WebhookEnqueue
    <2>2. CASE InsertPoll(TxnOf[e], 1)
        BY <2>1, <2>2, InsertKeepsOrder
    <2>3. CASE UNCHANGED <<poll, used>>
        BY <2>1, <2>3, <1>1
    <2> QED BY <1>2, <2>2, <2>3 DEF WebhookEnqueue
<1>3. ASSUME NEW t \in Txns, NEW k \in PollIds, NEW i \in Instances, ClaimPoll(i, t, k)
      PROVE  RowsInOrder'
    BY <1>3, ClaimTouches, OnlyRowKeepsOrder
<1>4. ASSUME NEW t \in Txns, NEW k \in PollIds, RowStep(t, k) PROVE RowsInOrder'
    BY <1>4, RowStepTouches, BusyRow, OnlyRowKeepsOrder
<1>5. ASSUME NEW t \in Txns, NEW k \in PollIds, ScheduleNextPoll(t, k) PROVE RowsInOrder'
    <2>1. poll[t][k].attempt + 1 \in Nat
        BY JobFields
    <2>2. \A u \in Txns, l \in PollIds : job'[u][l] = job[u][l] \/ job'[u][l] = NoJob
        BY <1>5 DEF ScheduleNextPoll, SetJob, TypeOK
    <2> QED BY <1>5, <2>1, <2>2, InsertKeepsOrder DEF ScheduleNextPoll
<1> QED
    BY <1>1, <1>2, <1>3, <1>4, <1>5, JobsDropped DEF Next, JobStep, RowStep

-------------------------------------------------------------------------------
(* How a step may change the TTL scanner of an instance. *)
ScanMoves(i) ==
    \/ scanner'[i] = scanner[i]
    \/ scanner'[i].cur = NoTxn /\ scanner'[i].todo \subseteq scanner[i].todo
    \/ scanner'[i].cur = NoTxn /\ scanner'[i].todo \subseteq ExpiredHolds
    \/ /\ UNCHANGED hold
       /\ \E t \in scanner[i].todo \cap Txns :
             /\ scanner'[i].cur = t /\ scanner'[i].todo \subseteq scanner[i].todo
             /\ hold[t] \in Open => scanner'[i].ans \in finalSeen'[t]

LEMMA ScanStep ==
    ASSUME TypeOK, [Next]_vars
    PROVE  \A i \in Instances : ScanMoves(i)
<1>1. ASSUME UNCHANGED scanner PROVE \A j \in Instances : ScanMoves(j)
    BY <1>1 DEF ScanMoves
<1>2. ASSUME NEW i \in Instances, TtlClaim(i) PROVE \A j \in Instances : ScanMoves(j)
    <2>1. PICK S \in SUBSET ExpiredHolds : scanner' = [scanner EXCEPT ![i].todo = S]
        BY <1>2 DEF TtlClaim
    <2>2. scanner[i].cur = NoTxn
        BY <1>2 DEF TtlClaim, NoScan
    <2>3. scanner[i] \in Scans
        BY DEF TypeOK
    <2>4. scanner'[i].cur = NoTxn /\ scanner'[i].todo = S
        BY <2>1, <2>2, <2>3 DEF TypeOK, Scans
    <2>5. \A j \in Instances \ {i} : scanner'[j] = scanner[j]
        BY <2>1 DEF TypeOK
    <2> QED BY <2>4, <2>5 DEF ScanMoves
<1>3. ASSUME NEW i \in Instances, NEW t \in Txns, TtlCheck(i, t)
      PROVE  \A j \in Instances : ScanMoves(j)
    <2>1. PICK a \in IF t \in NoClient THEN {"error"} ELSE Answers :
              /\ scanner' = [scanner EXCEPT ![i] =
                                [todo |-> @.todo \ {t}, cur |-> t, ans |-> a]]
              /\ finalSeen' = IF hold[t] \in Open
                              THEN [finalSeen EXCEPT ![t] = @ \cup {a}] ELSE finalSeen
        BY <1>3 DEF TtlCheck
    <2>2. scanner'[i] = [todo |-> scanner[i].todo \ {t}, cur |-> t, ans |-> a]
        BY <2>1 DEF TypeOK
    <2>3. \A j \in Instances \ {i} : scanner'[j] = scanner[j]
        BY <2>1 DEF TypeOK
    <2>4. hold[t] \in Open => a \in finalSeen'[t]
        BY <2>1 DEF TypeOK
    <2>5. UNCHANGED hold /\ t \in scanner[i].todo
        BY <1>3 DEF TtlCheck, tables
    <2>6. ScanMoves(i)
        BY <2>2, <2>4, <2>5 DEF ScanMoves
    <2> QED BY <2>3, <2>6 DEF ScanMoves
<1>4. ASSUME NEW i \in Instances, TtlSettle(i) PROVE \A j \in Instances : ScanMoves(j)
    <2>1. scanner' = [scanner EXCEPT ![i].cur = NoTxn, ![i].ans = "none"]
        BY <1>4 DEF TtlSettle
    <2>2. scanner[i] \in Scans
        BY DEF TypeOK
    <2>3. scanner'[i].cur = NoTxn /\ scanner'[i].todo = scanner[i].todo
        BY <2>1, <2>2 DEF TypeOK, Scans
    <2>4. \A j \in Instances \ {i} : scanner'[j] = scanner[j]
        BY <2>1 DEF TypeOK
    <2> QED BY <2>3, <2>4 DEF ScanMoves
<1>5. ASSUME NEW i \in Instances, Crash(i) PROVE \A j \in Instances : ScanMoves(j)
    <2>1. scanner'[i] = NoScan /\ \A j \in Instances \ {i} : scanner'[j] = scanner[j]
        BY <1>5 DEF Crash, TypeOK
    <2> QED BY <2>1 DEF ScanMoves, NoScan
<1>6. ASSUME NEW t \in Txns, CreateHold(t) \/ HoldExpires(t) PROVE UNCHANGED scanner
    BY <1>6 DEF CreateHold, HoldExpires
<1>7. ASSUME NEW e \in Events,
             \/ \E i \in Instances : WebhookInsert(i, e)
             \/ WebhookEnqueue(e) \/ WebhookEnqueueFails(e)
      PROVE  UNCHANGED scanner
    BY <1>7 DEF WebhookInsert, WebhookEnqueue, WebhookEnqueueFails
<1>8. ASSUME NEW t \in Txns, NEW k \in PollIds,
             \/ \E i \in Instances : ClaimPoll(i, t, k)
             \/ RowStep(t, k) \/ ScheduleNextPoll(t, k)
      PROVE  UNCHANGED scanner
    BY <1>8 DEF ClaimPoll, RowStep, Requeue, NoClientFails, AskGateway, RecordError,
                RecordAnswer, Judge, Settle, ScheduleNextPoll, JobFails
<1>9. CASE UNCHANGED vars
    BY <1>9, <1>1 DEF vars
<1> QED
    BY <1>1, <1>2, <1>3, <1>4, <1>5, <1>6, <1>7, <1>8, <1>9
    DEF Next, JobStep, TtlStep, RowStep

(* A hold that does not exist gets neither a deadline nor a row. *)
LEMMA UncreatedStays ==
    ASSUME TypeOK, Justified, [Next]_vars, NEW t \in Txns, hold[t] = "NONE"
    PROVE  ~expired'[t] /\ used'[t] = 0
<1>1. ~expired[t] /\ used[t] = 0
    BY DEF Justified, NothingBeforeCreate
<1>2. UNCHANGED <<expired, used>> => ~expired'[t] /\ used'[t] = 0
    BY <1>1
<1>3. ASSUME NEW u \in Txns, CreateHold(u) \/ HoldExpires(u)
      PROVE  ~expired'[t] /\ used'[t] = 0
    BY <1>1, <1>3 DEF CreateHold, HoldExpires, Open, TypeOK
<1>4. ASSUME NEW u \in Txns, NEW n, InsertPoll(u, n), hold[u] # "NONE", UNCHANGED expired
      PROVE  ~expired'[t] /\ used'[t] = 0
    BY <1>1, <1>4 DEF InsertPoll, TypeOK
<1>5. ASSUME NEW e \in Events, WebhookEnqueue(e) PROVE ~expired'[t] /\ used'[t] = 0
    BY <1>1, <1>4, <1>5, ConstantsOK DEF WebhookEnqueue
<1>6. ASSUME NEW u \in Txns, NEW k \in PollIds, ScheduleNextPoll(u, k)
      PROVE  ~expired'[t] /\ used'[t] = 0
    <2>1. hold[u] # "NONE"
        BY <1>6, BusyRow DEF ScheduleNextPoll, Busy
    <2> QED BY <2>1, <1>4, <1>6 DEF ScheduleNextPoll
<1>7. ASSUME NEW u \in Txns, NEW k \in PollIds,
             RowStep(u, k) \/ \E i \in Instances : ClaimPoll(i, u, k)
      PROVE  UNCHANGED <<expired, used>>
    BY <1>7 DEF ClaimPoll, RowStep, Requeue, NoClientFails, AskGateway, RecordError,
                RecordAnswer, Judge, Settle, JobFails, tables
<1>8. ASSUME \/ \E i \in Instances : TtlStep(i) \/ Crash(i)
             \/ \E e \in Events :
                   WebhookEnqueueFails(e) \/ \E i \in Instances : WebhookInsert(i, e)
             \/ UNCHANGED vars
      PROVE  UNCHANGED <<expired, used>>
    BY <1>8 DEF TtlStep, TtlClaim, TtlCheck, TtlSettle, Crash, WebhookEnqueueFails,
                WebhookInsert, tables, vars
<1> QED
    BY <1>2, <1>3, <1>5, <1>6, <1>7, <1>8 DEF Next, JobStep, RowStep

LEMMA NothingBeforeCreateStep ==
    ASSUME TypeOK, Justified, [Next]_vars
    PROVE  NothingBeforeCreate'
<1> SUFFICES ASSUME NEW t \in Txns, hold'[t] = "NONE"
             PROVE  /\ ~expired'[t] /\ used'[t] = 0
                    /\ \A i \in Instances : t \notin scanner'[i].todo /\ scanner'[i].cur # t
    BY DEF NothingBeforeCreate
<1>1. hold[t] = "NONE"
    <2>1. HoldMoves(t)
        BY HoldStep
    <2> QED BY <2>1 DEF HoldMoves, Terminal
<1>2. ~expired'[t] /\ used'[t] = 0
    BY <1>1, UncreatedStays
<1>3. ASSUME NEW i \in Instances PROVE t \notin scanner'[i].todo /\ scanner'[i].cur # t
    <2>1. t \notin scanner[i].todo /\ scanner[i].cur # t /\ t # NoTxn /\ t \notin ExpiredHolds
        BY <1>1, ConstantsOK DEF Justified, NothingBeforeCreate, ExpiredHolds, Open
    <2>2. ScanMoves(i)
        BY ScanStep
    <2> QED BY <2>1, <2>2 DEF ScanMoves
<1> QED BY <1>2, <1>3

-------------------------------------------------------------------------------
(* What was answered stays answered, at the same place. *)
LEMMA AnswersStay ==
    ASSUME TypeOK, NEW t \in Txns, EvidenceGrows(t)
    PROVE  /\ Len(done[t]) \in Nat /\ Len(done'[t]) \in Nat /\ Len(done[t]) <= Len(done'[t])
           /\ DOMAIN done[t] = 1..Len(done[t]) /\ DOMAIN done'[t] = 1..Len(done'[t])
           /\ \A j \in 1..Len(done[t]) : done'[t][j] = done[t][j]
<1>1. done[t] \in Seq(Answers)
    BY DEF TypeOK
<1>2. CASE done'[t] = done[t]
    BY <1>1, <1>2
<1>3. ASSUME NEW a \in Answers, done'[t] = Append(done[t], a)
      PROVE  /\ Len(done'[t]) = Len(done[t]) + 1 /\ DOMAIN done'[t] = 1..Len(done'[t])
             /\ \A j \in 1..Len(done[t]) : done'[t][j] = done[t][j]
    BY <1>1, <1>3
<1> QED BY <1>1, <1>2, <1>3 DEF EvidenceGrows

LEMMA AgreedStays ==
    ASSUME TypeOK, NEW t \in Txns, EvidenceGrows(t), NEW kind, Agreed(t, kind)
    PROVE  Agreed(t, kind)'
<1>1. PICK i \in 0 .. Len(done[t]) - N : \A j \in i + 1 .. i + N : done[t][j] \in kind
    BY DEF Agreed
<1>2. N \in Nat
    BY ConstantsOK
<1>3. i \in 0 .. Len(done'[t]) - N
    BY <1>1, <1>2, AnswersStay
<1>4. ASSUME NEW j \in i + 1 .. i + N PROVE done'[t][j] \in kind
    <2>1. j \in 1..Len(done[t])
        BY <1>1, <1>2, AnswersStay
    <2> QED BY <1>1, <2>1, AnswersStay
<1> QED BY <1>3, <1>4 DEF Agreed

LEMMA GroundsStay ==
    ASSUME TypeOK, TypeOK', NEW t \in Txns, EvidenceGrows(t)
    PROVE  Grounds(t) \subseteq Grounds(t)'
<1>1. ASSUME Grounded(t, "CONFIRMED") PROVE Grounded(t, "CONFIRMED")'
    BY <1>1, AgreedStays DEF Grounded, EvidenceGrows
<1>2. ASSUME Grounded(t, "FAILED") PROVE Grounded(t, "FAILED")'
    BY <1>2, AgreedStays DEF Grounded, EvidenceGrows
<1>3. ASSUME Grounded(t, "MISMATCH") PROVE Grounded(t, "MISMATCH")'
    <2>1. \/ \E j \in DOMAIN done[t] : done[t][j] = "other_amount"
          \/ "other_amount" \in finalSeen[t]
        BY <1>3 DEF Grounded
    <2>2. \/ \E j \in DOMAIN done'[t] : done'[t][j] = "other_amount"
          \/ "other_amount" \in finalSeen'[t]
        BY <2>1, AnswersStay DEF EvidenceGrows
    <2> QED BY <2>2 DEF Grounded
<1>4. ASSUME Grounded(t, "INDETERMINATE") PROVE Grounded(t, "INDETERMINATE")'
    <2>1. ASSUME NEW k \in PollIds, poll[t][k].attempt >= N
          PROVE  poll'[t][k].attempt >= N
        <3>1. /\ poll[t][k].attempt \in Nat /\ poll'[t][k].attempt \in Nat
              /\ poll'[t][k].attempt >= poll[t][k].attempt
            BY DEF TypeOK, Polls, EvidenceGrows
        <3> QED BY <2>1, <3>1, ConstantsOK
    <2>2. \/ \E k \in PollIds : poll[t][k].attempt >= N
          \/ finalSeen[t] \cap {"error", "pending", "FAILED"} # {}
        BY <1>4 DEF Grounded
    <2>3. \/ \E k \in PollIds : poll'[t][k].attempt >= N
          \/ finalSeen'[t] \cap {"error", "pending", "FAILED"} # {}
        BY <2>1, <2>2 DEF EvidenceGrows
    <2> QED BY <2>3 DEF Grounded
<1> QED BY <1>1, <1>2, <1>3, <1>4 DEF Grounds

-------------------------------------------------------------------------------
(* Which steps bring a goroutine to an answer on record or to a verdict. *)
LEMMA JobMoves ==
    ASSUME TypeOK, Justified, [Next]_vars, NEW u \in Txns, NEW l \in PollIds,
           job'[u][l].pc \in {"recorded", "settle"}
    PROVE  \/ job'[u][l] = job[u][l]
           \/ RecordError(u, l) \/ RecordAnswer(u, l) \/ Judge(u, l)
<1>1. NoJob.pc = "idle"
    BY DEF NoJob
<1>2. ASSUME NEW e \in Events, WebhookEnqueue(e) PROVE job'[u][l] = job[u][l]
    BY <1>2 DEF WebhookEnqueue
<1>3. ASSUME NEW t \in Txns, NEW k \in PollIds, NEW i \in Instances, ClaimPoll(i, t, k)
      PROVE  job'[u][l] = job[u][l]
    BY <1>3, ClaimTouches DEF OnlyRow, Justified
<1>4. ASSUME NEW t \in Txns, NEW k \in PollIds, ScheduleNextPoll(t, k)
      PROVE  job'[u][l] = job[u][l]
    BY <1>1, <1>4 DEF ScheduleNextPoll, SetJob, TypeOK
<1>5. ASSUME NEW t \in Txns, NEW k \in PollIds, RowStep(t, k), ~(u = t /\ l = k)
      PROVE  job'[u][l] = job[u][l]
    BY <1>5, RowStepTouches DEF OnlyRow
<1>6. ASSUME RowStep(u, l)
      PROVE  RecordError(u, l) \/ RecordAnswer(u, l) \/ Judge(u, l)
    <2>1. ASSUME SetJob(u, l, NoJob) PROVE FALSE
        BY <1>1, <2>1 DEF SetJob, TypeOK
    <2>2. ASSUME AskGateway(u, l) PROVE FALSE
        <3>1. PICK a \in Answers :
                  SetJob(u, l, [job[u][l] EXCEPT !.pc = "answered", !.ans = a])
            BY <2>2 DEF AskGateway
        <3>2. [job[u][l] EXCEPT !.pc = "answered", !.ans = a].pc = "answered"
            BY JobFields DEF Jobs
        <3>3. job'[u][l].pc = "answered"
            BY <3>1, <3>2 DEF SetJob, TypeOK
        <3> QED BY <3>3
    <2> QED BY <1>6, <2>1, <2>2 DEF RowStep, Requeue, NoClientFails, Settle, JobFails
<1> QED
    BY <1>1, <1>2, <1>3, <1>4, <1>5, <1>6, JobsDropped DEF Next, JobStep, RowStep

(* An attempt is given up only at the N-th. *)
LEMMA AfterAttemptGrounded ==
    ASSUME TypeOK, NEW t \in Txns, NEW k \in PollIds, NEW reason \in Reasons
    PROVE  \/ AfterAttempt(t, k, reason).pc = "next"
           \/ /\ AfterAttempt(t, k, reason).outcome.to = "INDETERMINATE"
              /\ poll[t][k].attempt >= N
<1>1. poll[t][k].attempt \in Nat /\ N \in Nat
    BY JobFields, ConstantsOK
<1>2. CASE poll[t][k].attempt < N
    BY <1>2, WaysOut DEF AfterAttempt
<1>3. CASE ~(poll[t][k].attempt < N)
    <2>1. AfterAttempt(t, k, reason) = Decide(t, k, "INDETERMINATE", reason)
        BY <1>3 DEF AfterAttempt
    <2>2. AfterAttempt(t, k, reason).outcome = Outcome("INDETERMINATE", reason)
        BY <2>1, WaysOut DEF Terminal
    <2> QED BY <1>1, <1>3, <2>2 DEF Outcome
<1> QED BY <1>2, <1>3

(* A streak is agreement. *)
LEMMA StreakAgrees ==
    ASSUME TypeOK, NEW t \in Txns, NEW kind, Streak(t, kind)
    PROVE  Agreed(t, kind)
<1> DEFINE i == Len(done[t]) - N
<1>1. Len(done[t]) \in Nat /\ N \in Nat
    BY ConstantsOK DEF TypeOK
<1>2. i \in 0 .. Len(done[t]) - N /\ i + N = Len(done[t])
    BY <1>1 DEF Streak
<1>3. \A j \in i + 1 .. i + N : done[t][j] \in kind
    BY <1>1, <1>2 DEF Streak
<1> HIDE DEF i
<1> QED BY <1>2, <1>3 DEF Agreed

(* What processPoll decides follows from what the tables hold. *)
LEMMA VerdictGrounded ==
    ASSUME TypeOK, Justified, NEW t \in Txns, NEW k \in PollIds, NEW blind \in BOOLEAN,
           job[t][k].pc = "recorded"
    PROVE  \/ Verdict(t, k, blind).pc = "next"
           \/ Verdict(t, k, blind).outcome.to \in Grounds(t)
<1> DEFINE V == Verdict(t, k, blind)
<1>1. CASE V = Decide(t, k, "CONFIRMED", "success_observed") /\ Streak(t, Matching)
    <2>1. V.outcome.to = "CONFIRMED"
        BY <1>1, WaysOut DEF Terminal, Reasons, Outcome
    <2>2. Grounded(t, "CONFIRMED")
        BY <1>1, StreakAgrees DEF Grounded
    <2> QED BY <2>1, <2>2 DEF Grounds
<1>2. CASE V = GoOn(t, k)
    BY <1>2, WaysOut
<1>3. CASE V = Decide(t, k, "MISMATCH", "amount_mismatch") /\ job[t][k].ans = "other_amount"
    <2>1. V.outcome.to = "MISMATCH"
        BY <1>3, WaysOut DEF Terminal, Reasons, Outcome
    <2>2. \E n \in DOMAIN done[t] : done[t][n] = "other_amount"
        BY <1>3 DEF Justified, VerdictsGrounded, Busy
    <2>3. Grounded(t, "MISMATCH")
        BY <2>2 DEF Grounded
    <2> QED BY <2>1, <2>3 DEF Grounds
<1>4. CASE V = Decide(t, k, "FAILED", "stable_gateway_failure") /\ Streak(t, Failing)
    <2>1. V.outcome.to = "FAILED"
        BY <1>4, WaysOut DEF Terminal, Reasons, Outcome
    <2>2. Grounded(t, "FAILED")
        BY <1>4, StreakAgrees DEF Grounded
    <2> QED BY <2>1, <2>2 DEF Grounds
<1>5. CASE V = AfterAttempt(t, k, "polling_exhausted_no_consensus")
    <2>1. \/ V.pc = "next"
          \/ V.outcome.to = "INDETERMINATE" /\ poll[t][k].attempt >= N
        BY <1>5, AfterAttemptGrounded DEF Reasons
    <2>2. poll[t][k].attempt >= N => Grounded(t, "INDETERMINATE")
        BY DEF Grounded
    <2> QED BY <2>1, <2>2 DEF Grounds
<1> QED BY <1>1, <1>2, <1>3, <1>4, <1>5, VerdictCases

LEMMA JudgeVerdict ==
    ASSUME TypeOK, NEW t \in Txns, NEW k \in PollIds, Judge(t, k)
    PROVE  \E blind \in BOOLEAN : job'[t][k] = Verdict(t, k, blind)
<1>1. SetJob(t, k, Verdict(t, k, FALSE)) \/ SetJob(t, k, Verdict(t, k, TRUE))
    BY DEF Judge
<1>2. CASE SetJob(t, k, Verdict(t, k, FALSE))
    <2>1. job'[t][k] = Verdict(t, k, FALSE)
        BY <1>2 DEF SetJob, TypeOK
    <2> QED BY <2>1
<1>3. CASE SetJob(t, k, Verdict(t, k, TRUE))
    <2>1. job'[t][k] = Verdict(t, k, TRUE)
        BY <1>3 DEF SetJob, TypeOK
    <2> QED BY <2>1
<1> QED BY <1>1, <1>2, <1>3

(***************************************************************************)
(* Verdicts on their way stay supported: old ones because evidence only    *)
(* grows, a new one by the answers it was made from.                       *)
(***************************************************************************)
LEMMA VerdictsStep ==
    ASSUME TypeOK, TypeOK', Justified, [Next]_vars
    PROVE  VerdictsGrounded'
<1>1. \A t \in Txns : EvidenceGrows(t)
    BY EvidenceStep, SameIsGrowth DEF EvidenceMoves, Gathers
<1>2. ASSUME NEW t \in Txns, NEW k \in PollIds, job'[t][k].pc = "settle"
      PROVE  job'[t][k].outcome.to \in Grounds(t)'
    <2>1. CASE job'[t][k] = job[t][k]
        BY <1>1, <1>2, <2>1, GroundsStay DEF Justified, VerdictsGrounded, Busy
    <2>2. CASE RecordError(t, k)
        <3>1. job'[t][k] = AfterAttempt(t, k, "polling_exhausted_gateway_error")
            BY <2>2 DEF RecordError, SetJob, TypeOK
        <3>2. job'[t][k].outcome.to = "INDETERMINATE" /\ poll[t][k].attempt >= N
            BY <1>2, <3>1, AfterAttemptGrounded DEF Reasons
        <3>3. Grounded(t, "INDETERMINATE")
            BY <3>2 DEF Grounded
        <3> QED BY <1>1, <3>2, <3>3, GroundsStay DEF Grounds
    <2>3. CASE RecordAnswer(t, k)
        <3>1. job'[t][k] = [job[t][k] EXCEPT !.pc = "recorded"]
            BY <2>3 DEF RecordAnswer, SetJob, TypeOK
        <3>2. job'[t][k].pc = "recorded"
            BY <3>1, JobFields DEF Jobs
        <3> QED BY <1>2, <3>2
    <2>4. CASE Judge(t, k)
        <3>1. PICK blind \in BOOLEAN : job'[t][k] = Verdict(t, k, blind)
            BY <2>4, JudgeVerdict
        <3>2. job'[t][k].outcome.to \in Grounds(t)
            BY <1>2, <2>4, <3>1, VerdictGrounded DEF Judge, Busy
        <3> QED BY <1>1, <3>2, GroundsStay
    <2> QED BY <1>2, <2>1, <2>2, <2>3, <2>4, JobMoves
<1>3. ASSUME NEW t \in Txns, NEW k \in PollIds, job'[t][k].pc = "recorded"
      PROVE  \E j \in DOMAIN done'[t] : done'[t][j] = job'[t][k].ans
    <2>1. CASE job'[t][k] = job[t][k]
        <3>1. PICK j \in DOMAIN done[t] : done[t][j] = job[t][k].ans
            BY <1>3, <2>1 DEF Justified, VerdictsGrounded, Busy
        <3>2. j \in DOMAIN done'[t] /\ done'[t][j] = done[t][j]
            BY <1>1, AnswersStay
        <3> QED BY <2>1, <3>1, <3>2
    <2>2. CASE RecordAnswer(t, k)
        <3>1. /\ done'[t] = Append(done[t], job[t][k].ans) /\ done[t] \in Seq(Answers)
              /\ job'[t][k] = [job[t][k] EXCEPT !.pc = "recorded"]
            BY <2>2 DEF RecordAnswer, SetJob, TypeOK
        <3>2. job'[t][k].ans = job[t][k].ans
            BY <3>1, JobFields DEF Jobs
        <3>3. LET j == Len(done[t]) + 1 IN j \in DOMAIN done'[t] /\ done'[t][j] = job[t][k].ans
            BY <3>1
        <3> QED BY <3>2, <3>3
    <2>3. CASE RecordError(t, k) \/ Judge(t, k)
        <3>1. job'[t][k].pc # "recorded"
            <4>1. CASE RecordError(t, k)
                <5>1. job'[t][k] = AfterAttempt(t, k, "polling_exhausted_gateway_error")
                    BY <4>1 DEF RecordError, SetJob, TypeOK
                <5> QED BY <5>1, WaysOut DEF AfterAttempt, Reasons, Terminal
            <4>2. CASE Judge(t, k)
                <5>1. PICK blind \in BOOLEAN : job'[t][k] = Verdict(t, k, blind)
                    BY <4>2, JudgeVerdict
                <5> QED BY <5>1, VerdictCases, WaysOut DEF AfterAttempt, Reasons, Terminal
            <4> QED BY <2>3, <4>1, <4>2
        <3> QED BY <1>3, <3>1
    <2> QED BY <1>3, <2>1, <2>2, <2>3, JobMoves
<1>4. ASSUME NEW t \in Txns, NEW i \in Instances, scanner'[i].cur = t, hold'[t] \in Open
      PROVE  scanner'[i].ans \in finalSeen'[t]
    <2>1. t # NoTxn
        BY ConstantsOK
    <2>2. CASE scanner'[i] = scanner[i]
        <3>1. hold[t] # "NONE"
            BY <1>4, <2>2 DEF Justified, NothingBeforeCreate
        <3>2. hold[t] \in Open
            BY <1>4, <3>1, HoldStep DEF HoldMoves, Open, Terminal
        <3> QED BY <1>1, <1>4, <2>2, <3>2 DEF Justified, VerdictsGrounded, EvidenceGrows
    <2>3. CASE UNCHANGED hold /\ (hold[t] \in Open => scanner'[i].ans \in finalSeen'[t])
        BY <1>4, <2>3
    <2> QED BY <1>4, <2>1, <2>2, <2>3, ScanStep DEF ScanMoves
<1> QED BY <1>2, <1>3, <1>4 DEF VerdictsGrounded, Busy

-------------------------------------------------------------------------------
LEMMA JustifiedInit == Init => Justified
<1> SUFFICES ASSUME Init PROVE Justified
    OBVIOUS
<1>1. RowsInOrder
    BY DEF Init, RowsInOrder
<1>2. NothingBeforeCreate
    BY ConstantsOK DEF Init, NothingBeforeCreate, NoScan
<1>3. VerdictsGrounded
    BY ConstantsOK DEF Init, VerdictsGrounded, Busy, NoJob, NoScan
<1> QED BY <1>1, <1>2, <1>3 DEF Justified

LEMMA JustifiedStep == TypeOK /\ TypeOK' /\ Justified /\ [Next]_vars => Justified'
BY RowsStep, NothingBeforeCreateStep, VerdictsStep DEF Justified

(***************************************************************************)
(* Whatever verdict a goroutine or a scanner is about to write, the        *)
(* evidence for it is in the tables or in the scanner's own final checks.  *)
(***************************************************************************)
THEOREM VerdictsJustified == Spec => []Justified
BY TypeInit, TypeStep, JustifiedInit, JustifiedStep, PTL DEF Spec

-------------------------------------------------------------------------------
(* The refinement mapping of notices. *)
Notices(t) == [i \in DOMAIN outbox[t] |-> outbox[t][i].event]

LEMMA SameGrounds ==
    ASSUME NEW t \in Txns, SameEvidence(t)
    PROVE  Grounds(t)' = Grounds(t)
<1>1. Agreed(t, Matching)' <=> Agreed(t, Matching)
    BY DEF Agreed, SameEvidence
<1>2. Agreed(t, Failing)' <=> Agreed(t, Failing)
    BY DEF Agreed, SameEvidence
<1>3. ASSUME NEW o \in {"CONFIRMED", "FAILED", "INDETERMINATE", "MISMATCH"}
      PROVE  Grounded(t, o)' <=> Grounded(t, o)
    BY <1>1, <1>2 DEF Grounded, SameEvidence
<1> QED BY <1>3 DEF Grounds

(* Before any poll and any check nothing supports any outcome. *)
LEMMA RefinesInit == Init => Lifecycle!Init
<1> SUFFICES ASSUME Init PROVE Lifecycle!Init
    OBVIOUS
<1>1. ASSUME NEW t \in Txns PROVE Grounds(t) = {} /\ Notices(t) = <<>>
    <2>1. done[t] = <<>> /\ finalSeen[t] = {} /\ outbox[t] = <<>>
          /\ \A k \in PollIds : poll[t][k].attempt = 0
        BY DEF Init, NoPoll
    <2>2. N \in Nat /\ N > 0 /\ Len(done[t]) = 0 /\ DOMAIN done[t] = {}
        BY <2>1, ConstantsOK
    <2>3. \A kind : ~Agreed(t, kind)
        BY <2>2 DEF Agreed
    <2>4. \A k \in PollIds : ~(poll[t][k].attempt >= N)
        BY <2>1, <2>2
    <2>5. ~Grounded(t, "CONFIRMED") /\ ~Grounded(t, "FAILED")
        BY <2>1, <2>3 DEF Grounded
    <2>6. ~Grounded(t, "MISMATCH") /\ ~Grounded(t, "INDETERMINATE")
        BY <2>1, <2>2, <2>4 DEF Grounded
    <2>7. Grounds(t) = {}
        BY <2>5, <2>6 DEF Grounds
    <2>8. Notices(t) = <<>>
        BY <2>1 DEF Notices
    <2> QED BY <2>7, <2>8
<1>2. hold = [t \in Txns |-> "NONE"]
    BY DEF Init
<1> QED BY <1>1, <1>2 DEF Lifecycle!Init, Notices

(* Gathering evidence is observing, or nothing the promise speaks of. *)
LEMMA GatherRefines ==
    ASSUME TypeOK, TypeOK', UNCHANGED <<hold, outbox>>, EvidenceMoves
    PROVE  Lifecycle!Next \/ UNCHANGED Lifecycle!vars
<1>1. CASE \A t \in Txns : SameEvidence(t)
    <2>1. \A t \in Txns : Grounds(t)' = Grounds(t)
        BY <1>1, SameGrounds
    <2>2. [t \in Txns |-> Grounds(t)]' = [t \in Txns |-> Grounds(t)]
        BY <2>1
    <2> QED BY <2>2 DEF Lifecycle!vars
<1>2. ASSUME NEW t \in Txns, Gathers(t) PROVE Lifecycle!Next
    <2> DEFINE G == [u \in Txns |-> Grounds(u)]
    <2>1. Grounds(t) \subseteq Grounds(t)' /\ Grounds(t)' \subseteq Lifecycle!Outcomes
        BY <1>2, GroundsStay DEF Gathers, Grounds, Lifecycle!Outcomes
    <2>2. \A u \in Txns \ {t} : Grounds(u)' = Grounds(u)
        BY <1>2, SameGrounds DEF Gathers
    <2>3. G' = [G EXCEPT ![t] = @ \cup Grounds(t)']
        BY <2>1, <2>2
    <2>4. hold[t] # "NONE"
        BY <1>2 DEF Gathers
    <2>5. Lifecycle!Observe(t)
        BY <2>1, <2>3, <2>4 DEF Lifecycle!Observe
    <2> QED BY <2>5 DEF Lifecycle!Next
<1> QED BY <1>1, <1>2 DEF EvidenceMoves

(* Creating a hold is creating a hold. *)
LEMMA CreateRefines ==
    ASSUME TypeOK, NEW t \in Txns, CreateHold(t)
    PROVE  Lifecycle!Next
<1>1. \A u \in Txns : Grounds(u)' = Grounds(u)
    BY SameGrounds DEF CreateHold, SameEvidence
<1>2. [u \in Txns |-> Grounds(u)]' = [u \in Txns |-> Grounds(u)]
    BY <1>1
<1>3. Lifecycle!Create(t)
    BY <1>2 DEF CreateHold, Lifecycle!Create
<1> QED BY <1>3 DEF Lifecycle!Next

(***************************************************************************)
(* The transaction every verdict goes through resolves the hold, if it     *)
(* finds it open, and queues the one notice.                               *)
(***************************************************************************)
LEMMA ConcludeRefines ==
    ASSUME TypeOK, OneOutcome, NEW t \in Txns, NEW o \in Outcomes, Conclude(t, o),
           hold[t] \in Open => o.to \in Grounds(t), UNCHANGED <<done, finalSeen, poll>>
    PROVE  Lifecycle!Next \/ UNCHANGED Lifecycle!vars
<1>1. \A u \in Txns : Grounds(u)' = Grounds(u)
    BY SameGrounds DEF SameEvidence
<1>2. [u \in Txns |-> Grounds(u)]' = [u \in Txns |-> Grounds(u)]
    BY <1>1
<1>3. CASE UNCHANGED <<hold, ledger, outbox>>
    BY <1>2, <1>3 DEF Lifecycle!vars
<1>4. CASE /\ hold[t] \in Open
           /\ hold' = [hold EXCEPT ![t] = o.to]
           /\ outbox' = [outbox EXCEPT ![t] = Append(@, CallbackKey(o))]
    <2> DEFINE Q == [u \in Txns |-> [i \in DOMAIN outbox[u] |-> outbox[u][i].event]]
    <2>1. outbox[t] = <<>>
        BY <1>4 DEF OneOutcome, Open, Terminal
    <2>2. Q[t] = <<>>
        BY <2>1
    <2>3. outbox'[t] = <<CallbackKey(o)>> /\ \A u \in Txns \ {t} : outbox'[u] = outbox[u]
        BY <1>4, <2>1 DEF TypeOK
    <2>4. [i \in DOMAIN outbox'[t] |-> outbox'[t][i].event] = <<o.to>>
        BY <2>3 DEF CallbackKey
    <2>5. Append(Q[t], o.to) = <<o.to>>
        <3>1. Append(<<>>, o.to) = <<o.to>>
            OBVIOUS
        <3> HIDE DEF Q
        <3> QED BY <2>2, <3>1
    <2>6. Q' = [Q EXCEPT ![t] = Append(@, o.to)]
        BY <2>3, <2>4, <2>5
    <2>7. o.to \in [u \in Txns |-> Grounds(u)][t]
        BY <1>4
    <2>8. Lifecycle!Resolve(t)
        BY <1>2, <1>4, <2>6, <2>7 DEF Lifecycle!Resolve, Lifecycle!Open, Open
    <2> QED BY <2>8 DEF Lifecycle!Next
<1> QED BY <1>3, <1>4 DEF Conclude

(* A final check supports what the scanner makes of it. *)
LEMMA TtlGrounded ==
    ASSUME NEW t \in Txns, NEW a \in AnswerKinds, a \in finalSeen[t]
    PROVE  TtlOutcome(a).to \in Grounds(t)
<1>1. CASE a = "success"
    BY <1>1 DEF TtlOutcome, Outcome, Grounds, Grounded, Matching
<1>2. CASE a = "other_amount"
    BY <1>2 DEF TtlOutcome, Outcome, Grounds, Grounded, Matching
<1>3. CASE a = "failed"
    BY <1>3 DEF TtlOutcome, Outcome, Grounds, Grounded, Matching
<1>4. CASE a \in {"FAILED", "pending", "error"}
    BY <1>4 DEF TtlOutcome, Outcome, Grounds, Grounded, Matching
<1> QED BY <1>1, <1>2, <1>3, <1>4 DEF AnswerKinds

LEMMA RefinesStep ==
    ASSUME TypeOK, TypeOK', OneOutcome, Justified, [Next]_vars
    PROVE  Lifecycle!Next \/ UNCHANGED Lifecycle!vars
<1>1. ASSUME NEW t \in Txns, NEW k \in PollIds, Settle(t, k)
      PROVE  Lifecycle!Next \/ UNCHANGED Lifecycle!vars
    <2>1. job[t][k].outcome \in Outcomes /\ job[t][k].outcome.to \in Grounds(t)
        BY <1>1, JobFields DEF Settle, Busy, Justified, VerdictsGrounded
    <2> QED BY <1>1, <2>1, ConcludeRefines DEF Settle
<1>2. ASSUME NEW i \in Instances, TtlSettle(i)
      PROVE  Lifecycle!Next \/ UNCHANGED Lifecycle!vars
    <2> DEFINE t == scanner[i].cur
               o == TtlOutcome(scanner[i].ans)
    <2>1. t \in Txns /\ scanner[i].ans \in Answers /\ o \in Outcomes
        BY <1>2, TtlOutcomeType DEF TtlSettle
    <2>2. CASE Conclude(t, o)
        <3>1. ASSUME hold[t] \in Open PROVE o.to \in Grounds(t)
            <4>1. scanner[i].ans \in finalSeen[t]
                BY <2>1, <3>1 DEF Justified, VerdictsGrounded
            <4>2. scanner[i].ans \in AnswerKinds
                BY <2>1, ConstantsOK
            <4> QED BY <4>1, <4>2, TtlGrounded, <2>1
        <3> HIDE DEF o
        <3> QED BY <1>2, <2>1, <2>2, <3>1, ConcludeRefines DEF TtlSettle
    <2>3. CASE UNCHANGED <<hold, ledger, outbox>>
        BY <1>2, <2>3, EvidenceStep, GatherRefines DEF TtlSettle
    <2> QED BY <1>2, <2>2, <2>3 DEF TtlSettle
<1>3. ASSUME UNCHANGED <<hold, outbox>>
      PROVE  Lifecycle!Next \/ UNCHANGED Lifecycle!vars
    BY <1>3, EvidenceStep, GatherRefines
<1>4. ASSUME NEW t \in Txns, NEW k \in PollIds,
             \/ \E i \in Instances : ClaimPoll(i, t, k)
             \/ Requeue(t, k) \/ NoClientFails(t, k) \/ AskGateway(t, k)
             \/ RecordError(t, k) \/ RecordAnswer(t, k) \/ Judge(t, k)
             \/ ScheduleNextPoll(t, k) \/ JobFails(t, k)
      PROVE  UNCHANGED <<hold, outbox>>
    BY <1>4 DEF ClaimPoll, Requeue, NoClientFails, AskGateway, RecordError, RecordAnswer,
                Judge, ScheduleNextPoll, JobFails, tables
<1>5. ASSUME NEW i \in Instances,
             \/ Crash(i) \/ TtlClaim(i) \/ \E t \in Txns : TtlCheck(i, t)
             \/ \E e \in Events : WebhookInsert(i, e)
      PROVE  UNCHANGED <<hold, outbox>>
    BY <1>5 DEF Crash, TtlClaim, TtlCheck, WebhookInsert, tables
<1>6. ASSUME NEW e \in Events, WebhookEnqueue(e) \/ WebhookEnqueueFails(e)
      PROVE  UNCHANGED <<hold, outbox>>
    BY <1>6 DEF WebhookEnqueue, WebhookEnqueueFails, tables
<1>7. ASSUME NEW t \in Txns, HoldExpires(t) PROVE UNCHANGED <<hold, outbox>>
    BY <1>7 DEF HoldExpires
<1>8. CASE UNCHANGED vars
    BY <1>8, <1>3 DEF vars
<1> QED
    BY <1>1, <1>2, <1>3, <1>4, <1>5, <1>6, <1>7, <1>8, CreateRefines
    DEF Next, JobStep, TtlStep

(***************************************************************************)
(* The service keeps the promise of HoldLifecycle to every merchant: a     *)
(* hold is resolved at most once, with one notice, and only to an outcome  *)
(* the gathered evidence supports.                                         *)
(***************************************************************************)
THEOREM ImplementsLifecycle == Spec => RefinesHoldLifecycle
<1>1. Init => OneOutcome
    BY DEF Init, OneOutcome, Terminal
<1>2. TypeOK /\ TypeOK' /\ OneOutcome /\ Justified /\ [Next]_vars
          => [Lifecycle!Next]_(Lifecycle!vars)
    BY RefinesStep
<1> QED
    BY <1>1, <1>2, TypeInit, TypeStep, JustifiedInit, JustifiedStep, OneOutcomeStep,
       RefinesInit, PTL DEF Spec, RefinesHoldLifecycle, Lifecycle!Spec
===============================================================================
