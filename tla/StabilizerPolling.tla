--------------------------- MODULE StabilizerPolling ---------------------------
(***************************************************************************)
(* Proofs about the poll chains of Stabilizer: which rows may be left in   *)
(* flight, how many chains a hold has, and how long one of them is, for    *)
(* every value of the constants.                                           *)
(***************************************************************************)
EXTENDS StabilizerRefinement, FiniteSetTheorems

-------------------------------------------------------------------------------
(* What each statement of a goroutine does to its row and to its state.    *)

(* The status of a row changes, and nothing else of any row. *)
LEMMA StatusAt ==
    ASSUME TypeOK, NEW t \in Txns, NEW k \in PollIds, NEW st, SetPollStatus(t, k, st)
    PROVE  /\ poll'[t][k].status = st /\ poll'[t][k].attempt = poll[t][k].attempt
           /\ \A u \in Txns, l \in PollIds : ~(u = t /\ l = k) => poll'[u][l] = poll[u][l]
<1>1. poll[t][k] \in Polls
    BY JobFields
<1>2. poll'[t][k] = [poll[t][k] EXCEPT !.status = st]
    BY DEF TypeOK, SetPollStatus
<1>3. \A u \in Txns, l \in PollIds : ~(u = t /\ l = k) => poll'[u][l] = poll[u][l]
    BY DEF TypeOK, SetPollStatus
<1> QED BY <1>1, <1>2, <1>3 DEF Polls

(* One goroutine moves. *)
LEMMA JobAt ==
    ASSUME TypeOK, NEW t \in Txns, NEW k \in PollIds, NEW j, SetJob(t, k, j)
    PROVE  \A u \in Txns, l \in PollIds :
               job'[u][l] = IF u = t /\ l = k THEN j ELSE job[u][l]
BY DEF TypeOK, SetJob

(* The rows of other holds do not change. *)
LEMMA StatusOthers ==
    ASSUME TypeOK, NEW t \in Txns, NEW k \in PollIds, NEW u \in Txns, u # t,
           (\E i \in Instances : ClaimPoll(i, t, k)) \/ RowStep(t, k)
    PROVE  poll'[u] = poll[u]
<1>1. (\E st : SetPollStatus(t, k, st)) \/ UNCHANGED poll
    BY DEF ClaimPoll, RowStep, Requeue, NoClientFails, AskGateway, RecordError, RecordAnswer,
           Judge, Settle, JobFails, tables
<1> QED BY <1>1 DEF SetPollStatus, TypeOK

(* A new row is pending, in the first unused place. *)
LEMMA InsertAt ==
    ASSUME TypeOK, NEW t \in Txns, NEW n \in Nat, InsertPoll(t, n)
    PROVE  /\ used[t] \in Nat /\ used[t] + 1 \in PollIds
           /\ poll'[t][used[t] + 1] = [status |-> "pending", attempt |-> n]
           /\ \A l \in PollIds : l # used[t] + 1 => poll'[t][l] = poll[t][l]
           /\ used'[t] = used[t] + 1
           /\ \A u \in Txns \ {t} : poll'[u] = poll[u] /\ used'[u] = used[u]
<1>1. used[t] \in Nat /\ used[t] + 1 \in PollIds
    BY ConstantsOK DEF TypeOK, InsertPoll, PollIds
<1> QED BY <1>1 DEF TypeOK, InsertPoll

(* After an attempt the goroutine schedules another poll or writes an outcome. *)
LEMMA AfterAttemptMoves ==
    ASSUME TypeOK, NEW t \in Txns, NEW k \in PollIds, NEW reason \in Reasons
    PROVE  \/ AfterAttempt(t, k, reason).pc = "next" /\ poll[t][k].attempt < N
           \/ AfterAttempt(t, k, reason).pc = "settle"
BY WaysOut DEF AfterAttempt, Terminal

(* What processPoll decides: it stops, or it goes on after a success without a
   streak, or because there are attempts left. *)
LEMMA VerdictMoves ==
    ASSUME TypeOK, NEW t \in Txns, NEW k \in PollIds, NEW blind \in BOOLEAN
    PROVE  \/ Verdict(t, k, blind).pc = "settle"
           \/ /\ Verdict(t, k, blind).pc = "next"
              /\ \/ poll[t][k].attempt < N
                 \/ job[t][k].ans = "success" /\ (blind \/ ~Streak(t, Matching))
<1> DEFINE V == Verdict(t, k, blind)
           a == job[t][k].ans
<1>1. \/ \E to \in Terminal, reason \in Reasons : V = Decide(t, k, to, reason)
      \/ V = GoOn(t, k) /\ a \in Matching /\ (blind \/ ~Streak(t, Matching))
      \/ V = AfterAttempt(t, k, "polling_exhausted_no_consensus")
    BY DEF Verdict, Matching, Failing, Terminal, Reasons
<1>2. CASE \E to \in Terminal, reason \in Reasons : V = Decide(t, k, to, reason)
    BY <1>2, WaysOut
<1>3. CASE V = GoOn(t, k) /\ a \in Matching /\ (blind \/ ~Streak(t, Matching))
    BY <1>3, WaysOut DEF Matching
<1>4. CASE V = AfterAttempt(t, k, "polling_exhausted_no_consensus")
    BY <1>4, AfterAttemptMoves DEF Reasons
<1> QED BY <1>1, <1>2, <1>3, <1>4

(* A fault is counted: as long as there was none, no step was one. *)
LEMMA NoFault == TypeOK /\ Fault => faults' # 0
BY ConstantsOK DEF TypeOK, Fault

LEMMA FaultsCounted == [Next]_vars => faults' = faults \/ Fault
<1> SUFFICES ASSUME [Next]_vars PROVE faults' = faults \/ Fault
    OBVIOUS
<1>1. ASSUME NEW t \in Txns, CreateHold(t) \/ HoldExpires(t) PROVE faults' = faults
    BY <1>1 DEF CreateHold, HoldExpires
<1>2. ASSUME NEW e \in Events,
             \/ \E i \in Instances : WebhookInsert(i, e)
             \/ WebhookEnqueue(e) \/ WebhookEnqueueFails(e)
      PROVE  faults' = faults \/ Fault
    BY <1>2 DEF WebhookInsert, WebhookEnqueue, WebhookEnqueueFails
<1>3. ASSUME NEW t \in Txns, NEW k \in PollIds,
             \/ \E i \in Instances : ClaimPoll(i, t, k)
             \/ Requeue(t, k) \/ NoClientFails(t, k) \/ AskGateway(t, k)
             \/ JobStep(t, k) \/ JobFails(t, k)
      PROVE  faults' = faults \/ Fault
    BY <1>3 DEF ClaimPoll, Requeue, NoClientFails, AskGateway, JobStep, JobFails, RecordError,
                RecordAnswer, Judge, ScheduleNextPoll, Settle
<1>4. ASSUME NEW i \in Instances, TtlStep(i) \/ Crash(i) PROVE faults' = faults \/ Fault
    BY <1>4 DEF TtlStep, TtlClaim, TtlCheck, TtlSettle, Crash
<1>5. CASE UNCHANGED vars
    BY <1>5 DEF vars
<1> QED BY <1>1, <1>2, <1>3, <1>4, <1>5 DEF Next

(* An answer is put on record. *)
LEMMA RecordAnswerOf ==
    ASSUME TypeOK, NEW t \in Txns, NEW k \in PollIds, RecordAnswer(t, k)
    PROVE  /\ job[t][k].pc = "answered"
           /\ job'[t][k].pc = "recorded" /\ job'[t][k].ans = job[t][k].ans
           /\ poll'[t][k].status = "completed" /\ poll'[t][k].attempt = poll[t][k].attempt
           /\ done'[t] = Append(done[t], job[t][k].ans)
<1>1. job'[t][k] = [job[t][k] EXCEPT !.pc = "recorded"]
    BY JobAt DEF RecordAnswer
<1>2. job'[t][k].pc = "recorded" /\ job'[t][k].ans = job[t][k].ans
    BY <1>1, JobFields DEF Jobs
<1>3. poll'[t][k].status = "completed" /\ poll'[t][k].attempt = poll[t][k].attempt
    BY StatusAt DEF RecordAnswer
<1>4. done'[t] = Append(done[t], job[t][k].ans)
    BY DEF RecordAnswer, TypeOK
<1> QED BY <1>2, <1>3, <1>4 DEF RecordAnswer, Busy

(* The statements of a goroutine that insert no row, one by one. *)
LEMMA RowStepMoves ==
    ASSUME TypeOK, NEW t \in Txns, NEW k \in PollIds, RowStep(t, k)
    PROVE  /\ poll'[t][k].attempt = poll[t][k].attempt
           /\ UNCHANGED <<seen, handler>>
           /\ \/ /\ Requeue(t, k)
                 /\ job[t][k].pc = "claimed" /\ job'[t][k].pc = "idle"
                 /\ poll'[t][k].status = "pending" /\ UNCHANGED done
              \/ /\ NoClientFails(t, k) \/ Settle(t, k) \/ JobFails(t, k)
                 /\ job'[t][k].pc = "idle" /\ UNCHANGED done
                 /\ \/ poll'[t][k].status = "failed"
                    \/ UNCHANGED poll /\ (job[t][k].pc = "settle" \/ faults' # 0)
              \/ /\ AskGateway(t, k)
                 /\ job[t][k].pc = "claimed" /\ job'[t][k].pc = "answered"
                 /\ UNCHANGED <<poll, done>>
              \/ /\ RecordError(t, k) /\ job[t][k].pc = "answered" /\ UNCHANGED done
                 /\ \/ job'[t][k].pc = "next" /\ poll[t][k].attempt < N
                    \/ job'[t][k].pc = "settle"
                 /\ \/ poll'[t][k].status = "failed"
                    \/ faults' # 0 /\ UNCHANGED poll
              \/ /\ RecordAnswer(t, k) /\ job[t][k].pc = "answered"
                 /\ job'[t][k].pc = "recorded" /\ job'[t][k].ans = job[t][k].ans
                 /\ poll'[t][k].status = "completed"
                 /\ done'[t] = Append(done[t], job[t][k].ans)
              \/ /\ Judge(t, k) /\ job[t][k].pc = "recorded" /\ UNCHANGED <<poll, done>>
                 /\ \/ job'[t][k].pc = "settle"
                    \/ /\ job'[t][k].pc = "next"
                       /\ \/ poll[t][k].attempt < N
                          \/ /\ job[t][k].ans = "success"
                             /\ faults' # 0 \/ ~Streak(t, Matching)
<1>a. NoJob.pc = "idle"
    BY DEF NoJob
<1>b. job[t][k] \in Jobs
    BY JobFields
<1>1. CASE Requeue(t, k)
    <2>1. job'[t][k].pc = "idle"
        BY <1>a, <1>1, JobAt DEF Requeue
    <2>2. poll'[t][k].status = "pending" /\ poll'[t][k].attempt = poll[t][k].attempt
        BY <1>1, StatusAt DEF Requeue
    <2> QED BY <1>1, <2>1, <2>2 DEF Requeue, Busy
<1>2. CASE NoClientFails(t, k)
    <2>1. job'[t][k].pc = "idle"
        BY <1>a, <1>2, JobAt DEF NoClientFails
    <2>2. poll'[t][k].status = "failed" /\ poll'[t][k].attempt = poll[t][k].attempt
        BY <1>2, StatusAt DEF NoClientFails
    <2> QED BY <1>2, <2>1, <2>2 DEF NoClientFails
<1>3. CASE Settle(t, k)
    <2>1. job'[t][k].pc = "idle"
        BY <1>a, <1>3, JobAt DEF Settle
    <2> QED BY <1>3, <2>1 DEF Settle, Busy
<1>4. CASE JobFails(t, k)
    <2>1. job'[t][k].pc = "idle"
        BY <1>a, <1>4, JobAt DEF JobFails
    <2> QED BY <1>4, <2>1, NoFault DEF JobFails, tables
<1>5. CASE AskGateway(t, k)
    <2>1. PICK a \in Answers :
              SetJob(t, k, [job[t][k] EXCEPT !.pc = "answered", !.ans = a])
        BY <1>5 DEF AskGateway
    <2>2. job'[t][k] = [job[t][k] EXCEPT !.pc = "answered", !.ans = a]
        BY <2>1, JobAt
    <2>3. job'[t][k].pc = "answered"
        BY <1>b, <2>2 DEF Jobs
    <2> QED BY <1>5, <2>3 DEF AskGateway, Busy, tables
<1>6. CASE RecordError(t, k)
    <2>1. job'[t][k] = AfterAttempt(t, k, "polling_exhausted_gateway_error")
        BY <1>6, JobAt DEF RecordError
    <2>2. \/ job'[t][k].pc = "next" /\ poll[t][k].attempt < N
          \/ job'[t][k].pc = "settle"
        BY <2>1, AfterAttemptMoves DEF Reasons
    <2>3. /\ poll'[t][k].attempt = poll[t][k].attempt
          /\ \/ poll'[t][k].status = "failed"
             \/ faults' # 0 /\ UNCHANGED poll
        <3>1. CASE SetPollStatus(t, k, "failed")
            BY <3>1, StatusAt
        <3>2. CASE Fault /\ UNCHANGED poll
            BY <3>2, NoFault
        <3> QED BY <1>6, <3>1, <3>2 DEF RecordError
    <2> QED BY <1>6, <2>2, <2>3 DEF RecordError, Busy
<1>7. CASE RecordAnswer(t, k)
    BY <1>7, RecordAnswerOf DEF RecordAnswer
<1>8. CASE Judge(t, k)
    <2>1. PICK blind \in BOOLEAN : /\ job'[t][k] = Verdict(t, k, blind)
                                   /\ blind => faults' # 0
        <3>1. CASE SetJob(t, k, Verdict(t, k, FALSE))
            <4>1. job'[t][k] = Verdict(t, k, FALSE)
                BY <3>1 DEF SetJob, TypeOK
            <4> QED BY <4>1
        <3>2. CASE Fault /\ SetJob(t, k, Verdict(t, k, TRUE))
            <4>1. job'[t][k] = Verdict(t, k, TRUE) /\ faults' # 0
                BY <3>2, NoFault DEF SetJob, TypeOK
            <4> QED BY <4>1
        <3> QED BY <1>8, <3>1, <3>2 DEF Judge
    <2>2. UNCHANGED <<poll, done, seen, handler>> /\ job[t][k].pc = "recorded"
        BY <1>8 DEF Judge, tables, Busy
    <2>3. \/ job'[t][k].pc = "settle"
          \/ /\ job'[t][k].pc = "next"
             /\ \/ poll[t][k].attempt < N
                \/ job[t][k].ans = "success" /\ (blind \/ ~Streak(t, Matching))
        BY <2>1, VerdictMoves
    <2> QED BY <1>8, <2>1, <2>2, <2>3
<1> QED BY <1>1, <1>2, <1>3, <1>4, <1>5, <1>6, <1>7, <1>8 DEF RowStep

-------------------------------------------------------------------------------
(***************************************************************************)
(* Stranded rows.  Every statement that ends a goroutine, or takes it past *)
(* the gateway's answer, sets the row's status in the same step, unless it *)
(* is a fault.                                                             *)
(***************************************************************************)
LEMMA StrandStep ==
    ASSUME TypeOK, RowsInOrder, OnlyFaultsStrandPolls, [Next]_vars
    PROVE  OnlyFaultsStrandPolls'
<1> SUFFICES ASSUME faults' = 0, NEW u \in Txns, NEW l \in PollIds,
                    poll'[u][l].status = "in_flight"
             PROVE  job'[u][l].pc \in {"claimed", "answered"}
    BY DEF OnlyFaultsStrandPolls
<1>a. ~Fault
    BY NoFault
<1>b. faults = 0
    BY <1>a, FaultsCounted
<1>c. poll[u][l].status = "in_flight" => job[u][l].pc \in {"claimed", "answered"}
    BY <1>b DEF OnlyFaultsStrandPolls
<1>1. ASSUME poll'[u][l] = poll[u][l], job'[u][l] = job[u][l]
      PROVE  job'[u][l].pc \in {"claimed", "answered"}
    BY <1>1, <1>c
<1>2. CASE \/ UNCHANGED vars
           \/ \E t \in Txns : CreateHold(t) \/ HoldExpires(t)
           \/ \E e \in Events : \E i \in Instances : WebhookInsert(i, e)
           \/ \E i \in Instances : TtlStep(i)
    BY <1>1, <1>2 DEF vars, CreateHold, HoldExpires, WebhookInsert, TtlStep, TtlClaim, TtlCheck,
       TtlSettle, tables
<1>3. ASSUME NEW e \in Events, WebhookEnqueue(e) PROVE job'[u][l].pc \in {"claimed", "answered"}
    <2>1. TxnOf[e] \in Txns /\ UNCHANGED job
        BY <1>3, ConstantsOK DEF WebhookEnqueue
    <2>2. CASE InsertPoll(TxnOf[e], 1)
        <3>1. poll'[u][l] = poll[u][l] \/ poll'[u][l] = [status |-> "pending", attempt |-> 1]
            BY <2>1, <2>2, InsertAt
        <3>2. poll'[u][l] = poll[u][l]
            BY <3>1
        <3> QED BY <1>1, <2>1, <3>2
    <2>3. CASE UNCHANGED poll
        BY <1>1, <2>1, <2>3
    <2> QED BY <1>3, <2>2, <2>3 DEF WebhookEnqueue
<1>4. ASSUME NEW t \in Txns, NEW k \in PollIds, NEW i \in Instances, ClaimPoll(i, t, k)
      PROVE  job'[u][l].pc \in {"claimed", "answered"}
    BY <1>1, <1>4, ClaimTouches DEF OnlyRow
<1>5. ASSUME NEW t \in Txns, NEW k \in PollIds, RowStep(t, k)
      PROVE  job'[u][l].pc \in {"claimed", "answered"}
    <2>1. CASE ~(u = t /\ l = k)
        BY <1>1, <1>5, <2>1, RowStepTouches DEF OnlyRow
    <2>2. CASE u = t /\ l = k
        <3>1. \/ poll'[t][k].status # "in_flight"
              \/ /\ poll'[t][k].status = poll[t][k].status
                 /\ job[t][k].pc \notin {"claimed", "answered"}
              \/ job'[t][k].pc = "answered"
            BY <1>5, RowStepMoves
        <3> QED BY <1>c, <2>2, <3>1
    <2> QED BY <2>1, <2>2
<1>6. ASSUME NEW t \in Txns, NEW k \in PollIds, ScheduleNextPoll(t, k)
      PROVE  job'[u][l].pc \in {"claimed", "answered"}
    <2>1. poll[t][k].attempt + 1 \in Nat /\ job[t][k].pc = "next"
        BY <1>6, JobFields DEF ScheduleNextPoll, Busy
    <2>2. poll'[u][l] = poll[u][l]
        <3> DEFINE n == poll[t][k].attempt + 1
        <3>1. InsertPoll(t, n) /\ n \in Nat
            BY <1>6, <2>1 DEF ScheduleNextPoll
        <3> HIDE DEF n
        <3>2. poll'[u][l] = poll[u][l] \/ poll'[u][l] = [status |-> "pending", attempt |-> n]
            BY <3>1, InsertAt
        <3> QED BY <3>2
    <2>3. job[u][l].pc \in {"claimed", "answered"}
        BY <1>c, <2>2
    <2>4. job'[u][l] = job[u][l]
        BY <1>6, <2>1, <2>3, JobAt DEF ScheduleNextPoll
    <2> QED BY <2>3, <2>4
<1> QED
    BY <1>a, <1>2, <1>3, <1>4, <1>5, <1>6
    DEF Next, JobStep, RowStep, WebhookEnqueueFails, JobFails, Crash

(***************************************************************************)
(* A row is in flight without a goroutine only after a crash or a failed   *)
(* statement: no path through the worker forgets a row.                    *)
(***************************************************************************)
THEOREM NoPollForgotten == Spec => []OnlyFaultsStrandPolls
<1>1. Init => OnlyFaultsStrandPolls
    BY DEF Init, OnlyFaultsStrandPolls, NoPoll
<1>2. Justified => RowsInOrder
    BY DEF Justified
<1> QED
    BY <1>1, <1>2, TypeInit, TypeStep, JustifiedInit, JustifiedStep, StrandStep, PTL DEF Spec

-------------------------------------------------------------------------------
(***************************************************************************)
(* Counting chains.  A chain is a live row; it is born when the handler of *)
(* an event is served, and passes from a row to the next.                  *)
(***************************************************************************)
LivePolls(t) == {k \in PollIds : Live(t, k)}

Served(t) == {e \in seen : TxnOf[e] = t /\ handler[e] = NoInst}

(* A goroutine is never at work on a row that waits to be claimed. *)
ClaimedOnce ==
    \A t \in Txns, k \in PollIds : job[t][k].pc # "idle" => poll[t][k].status # "pending"

(* Finitely many events are stored, among them all that are being handled. *)
HandledSeen == IsFiniteSet(seen) /\ \A e \in Events : handler[e] # NoInst => e \in seen

ChainCount ==
    \A t \in Txns : Cardinality(LivePolls(t)) <= Cardinality(Served(t))

Chains == ClaimedOnce /\ HandledSeen /\ ChainCount

(* How a step may change the chains of a hold: none is born, one is born of an
   event that was not served before, or one moves on to another row. *)
ChainsMove(t) ==
    \/ LivePolls(t)' \subseteq LivePolls(t) /\ Served(t) \subseteq Served(t)'
    \/ \E k \in PollIds, e \in Served(t)' \ Served(t) :
          LivePolls(t)' \subseteq LivePolls(t) \cup {k} /\ Served(t) \subseteq Served(t)'
    \/ \E k \in LivePolls(t), l \in PollIds :
          /\ LivePolls(t)' \subseteq (LivePolls(t) \ {k}) \cup {l}
          /\ Served(t) \subseteq Served(t)'

LEMMA ChainSetsFinite ==
    ASSUME IsFiniteSet(seen), NEW t \in Txns
    PROVE  IsFiniteSet(LivePolls(t)) /\ IsFiniteSet(Served(t))
<1>1. IsFiniteSet(PollIds)
    BY FS_Interval, ConstantsOK DEF PollIds
<1>2. LivePolls(t) \in SUBSET PollIds /\ Served(t) \in SUBSET seen
    BY DEF LivePolls, Served
<1> QED BY <1>1, <1>2, FS_Subset

(* Each of these moves keeps the balance. *)
LEMMA CountStays ==
    ASSUME IsFiniteSet(seen), IsFiniteSet(seen)', NEW t \in Txns, ChainsMove(t),
           Cardinality(LivePolls(t)) <= Cardinality(Served(t))
    PROVE  Cardinality(LivePolls(t))' <= Cardinality(Served(t))'
<1> DEFINE L == LivePolls(t)
           S == Served(t)
           L2 == LivePolls(t)'
           S2 == Served(t)'
<1>1. IsFiniteSet(L) /\ IsFiniteSet(S)
    BY ChainSetsFinite
<1>2. IsFiniteSet(S2)
    <2>1. S2 \in SUBSET seen'
        BY DEF Served
    <2> QED BY <2>1, FS_Subset
<1>3. ChainsMove(t) <=>
          \/ L2 \subseteq L /\ S \subseteq S2
          \/ \E k \in PollIds, e \in S2 \ S : L2 \subseteq L \cup {k} /\ S \subseteq S2
          \/ \E k \in L, l \in PollIds : L2 \subseteq (L \ {k}) \cup {l} /\ S \subseteq S2
    BY DEF ChainsMove
<1>4. Cardinality(L) <= Cardinality(S)
    OBVIOUS
<1> SUFFICES Cardinality(L2) <= Cardinality(S2)
    OBVIOUS
<1> HIDE DEF L, S, L2, S2
<1>5. Cardinality(L) \in Nat /\ Cardinality(S) \in Nat /\ Cardinality(S2) \in Nat
    BY <1>1, <1>2, FS_CardinalityType
<1>6. S \subseteq S2 => Cardinality(S) <= Cardinality(S2)
    BY <1>2, FS_Subset
<1>7. CASE L2 \subseteq L /\ S \subseteq S2
    <2>1. Cardinality(L2) <= Cardinality(L) /\ Cardinality(L2) \in Nat
        BY <1>1, <1>7, FS_Subset, FS_CardinalityType
    <2> QED BY <1>4, <1>5, <1>6, <1>7, <2>1
<1>8. ASSUME NEW k \in PollIds, NEW e \in S2 \ S, L2 \subseteq L \cup {k}, S \subseteq S2
      PROVE  Cardinality(L2) <= Cardinality(S2)
    <2>1. /\ IsFiniteSet(L \cup {k})
          /\ Cardinality(L \cup {k}) = IF k \in L THEN Cardinality(L) ELSE Cardinality(L) + 1
        BY <1>1, FS_AddElement
    <2>2. Cardinality(L2) <= Cardinality(L \cup {k}) /\ Cardinality(L2) \in Nat
        BY <1>8, <2>1, FS_Subset, FS_CardinalityType
    <2>3. IsFiniteSet(S \cup {e}) /\ Cardinality(S \cup {e}) = Cardinality(S) + 1
        BY <1>1, <1>8, FS_AddElement
    <2>4. Cardinality(S \cup {e}) <= Cardinality(S2)
        BY <1>2, <1>8, FS_Subset
    <2> QED BY <1>4, <1>5, <2>1, <2>2, <2>3, <2>4
<1>9. ASSUME NEW k \in L, NEW l \in PollIds, L2 \subseteq (L \ {k}) \cup {l}, S \subseteq S2
      PROVE  Cardinality(L2) <= Cardinality(S2)
    <2> DEFINE R == L \ {k}
    <2>1. IsFiniteSet(R) /\ Cardinality(R) = Cardinality(L) - 1
        BY <1>1, FS_RemoveElement
    <2>2. Cardinality(R) \in Nat
        BY <2>1, FS_CardinalityType
    <2>3. L2 \subseteq R \cup {l}
        BY <1>9
    <2> HIDE DEF R
    <2>4. /\ IsFiniteSet(R \cup {l})
          /\ Cardinality(R \cup {l}) = IF l \in R THEN Cardinality(R) ELSE Cardinality(R) + 1
        BY <2>1, FS_AddElement
    <2>5. Cardinality(L2) <= Cardinality(R \cup {l}) /\ Cardinality(L2) \in Nat
        BY <2>3, <2>4, FS_Subset, FS_CardinalityType
    <2> QED BY <1>4, <1>5, <1>6, <1>9, <2>1, <2>2, <2>4, <2>5
<1> QED BY <1>3, <1>7, <1>8, <1>9

(* Rows and goroutines of other holds do not count. *)
LEMMA SameRowsMove ==
    ASSUME NEW u \in Txns, Served(u) \subseteq Served(u)',
           \A l \in PollIds : Live(u, l)' => Live(u, l)
    PROVE  ChainsMove(u)
BY DEF ChainsMove, LivePolls

(* An event is served for good. *)
LEMMA ServedStays ==
    ASSUME TypeOK, [Next]_vars
    PROVE  /\ \A t \in Txns : Served(t) \subseteq Served(t)'
           /\ HandledSeen => HandledSeen'
<1>1. ASSUME UNCHANGED <<seen, handler>>
      PROVE  /\ \A t \in Txns : Served(t) \subseteq Served(t)'
             /\ HandledSeen => HandledSeen'
    BY <1>1 DEF Served, HandledSeen
<1>2. ASSUME NEW i \in Instances, NEW e \in Events, WebhookInsert(i, e)
      PROVE  /\ \A t \in Txns : Served(t) \subseteq Served(t)'
             /\ HandledSeen => HandledSeen'
    <2>1. e \notin seen /\ seen' = seen \cup {e} /\ handler' = [handler EXCEPT ![e] = i]
        BY <1>2 DEF WebhookInsert
    <2>2. \A f \in seen : f \in Events /\ f # e
        BY <2>1 DEF TypeOK
    <2>3. \A t \in Txns : Served(t) \subseteq Served(t)'
        BY <2>1, <2>2 DEF Served, TypeOK
    <2>4. ASSUME HandledSeen PROVE HandledSeen'
        <3>1. IsFiniteSet(seen')
            BY <2>1, <2>4, FS_AddElement DEF HandledSeen
        <3>2. \A f \in Events : handler'[f] # NoInst => f \in seen'
            BY <2>1, <2>4 DEF HandledSeen, TypeOK
        <3> QED BY <3>1, <3>2 DEF HandledSeen
    <2> QED BY <2>3, <2>4
<1>3. ASSUME seen' = seen, \A e \in Events : handler'[e] = handler[e] \/ handler'[e] = NoInst
      PROVE  /\ \A t \in Txns : Served(t) \subseteq Served(t)'
             /\ HandledSeen => HandledSeen'
    BY <1>3 DEF Served, HandledSeen, TypeOK
<1>4. ASSUME NEW e \in Events, WebhookEnqueue(e) \/ WebhookEnqueueFails(e)
      PROVE  seen' = seen /\ \A f \in Events : handler'[f] = handler[f] \/ handler'[f] = NoInst
    BY <1>4 DEF WebhookEnqueue, WebhookEnqueueFails, tables, TypeOK
<1>5. ASSUME NEW i \in Instances, Crash(i)
      PROVE  seen' = seen /\ \A f \in Events : handler'[f] = handler[f] \/ handler'[f] = NoInst
    BY <1>5 DEF Crash, tables
<1>6. ASSUME NEW t \in Txns, NEW k \in PollIds, RowStep(t, k) PROVE UNCHANGED <<seen, handler>>
    BY <1>6, RowStepMoves
<1>7. CASE \/ UNCHANGED vars
           \/ \E t \in Txns : CreateHold(t) \/ HoldExpires(t)
           \/ \E i \in Instances : TtlStep(i)
           \/ \E t \in Txns, k \in PollIds :
                 ScheduleNextPoll(t, k) \/ \E i \in Instances : ClaimPoll(i, t, k)
    <2>1. UNCHANGED <<seen, handler>>
        BY <1>7 DEF vars, CreateHold, HoldExpires, TtlStep, TtlClaim, TtlCheck, TtlSettle,
           tables, ScheduleNextPoll, ClaimPoll
    <2> QED BY <1>1, <2>1
<1> QED BY <1>1, <1>2, <1>3, <1>4, <1>5, <1>6, <1>7 DEF Next, JobStep, RowStep

(* What a step does to the rows and goroutines of a hold: nothing but dropping
   goroutines; a claim; a statement of a goroutine; a new row, for an event or for
   a goroutine that ends. *)
RowsMove(t) ==
    \/ /\ poll'[t] = poll[t] /\ used'[t] = used[t]
       /\ \A k \in PollIds : job'[t][k] = job[t][k] \/ (job'[t][k] = NoJob /\ faults' # 0)
    \/ \E k \in PollIds :
          /\ OnlyRow(t, k)
          /\ (\E i \in Instances : ClaimPoll(i, t, k)) \/ RowStep(t, k)
    \/ /\ UNCHANGED job
       /\ \E e \in Events : TxnOf[e] = t /\ WebhookEnqueue(e) /\ InsertPoll(t, 1)
    \/ \E k \in PollIds : ScheduleNextPoll(t, k)

LEMMA RowsMoveStep ==
    ASSUME TypeOK, RowsInOrder, [Next]_vars, NEW u \in Txns
    PROVE  RowsMove(u)
<1>1. CASE \/ UNCHANGED vars
           \/ \E t \in Txns : CreateHold(t) \/ HoldExpires(t)
           \/ \E e \in Events :
                 WebhookEnqueueFails(e) \/ \E i \in Instances : WebhookInsert(i, e)
           \/ \E i \in Instances : TtlStep(i)
    <2>1. UNCHANGED <<poll, used, job>>
        BY <1>1 DEF vars, CreateHold, HoldExpires, WebhookInsert, WebhookEnqueueFails, TtlStep,
           TtlClaim, TtlCheck, TtlSettle, tables
    <2> QED BY <2>1 DEF RowsMove
<1>2. ASSUME NEW i \in Instances, Crash(i) PROVE RowsMove(u)
    <2>1. /\ UNCHANGED <<poll, used>> /\ faults' # 0
          /\ \A k \in PollIds : job'[u][k] = job[u][k] \/ job'[u][k] = NoJob
        BY <1>2, NoFault DEF Crash, tables
    <2> QED BY <2>1 DEF RowsMove
<1>3. ASSUME NEW e \in Events, WebhookEnqueue(e) PROVE RowsMove(u)
    <2>1. TxnOf[e] \in Txns /\ UNCHANGED job
        BY <1>3, ConstantsOK DEF WebhookEnqueue
    <2>2. CASE UNCHANGED <<poll, used>>
        BY <2>1, <2>2 DEF RowsMove
    <2>3. CASE InsertPoll(TxnOf[e], 1) /\ TxnOf[e] = u
        BY <1>3, <2>1, <2>3 DEF RowsMove
    <2>4. CASE InsertPoll(TxnOf[e], 1) /\ TxnOf[e] # u
        <3>1. \A v \in Txns \ {TxnOf[e]} : poll'[v] = poll[v] /\ used'[v] = used[v]
            <4>1. 1 \in Nat
                OBVIOUS
            <4> QED BY <2>1, <2>4, <4>1, InsertAt
        <3>2. poll'[u] = poll[u] /\ used'[u] = used[u]
            BY <2>4, <3>1
        <3> QED BY <2>1, <3>2 DEF RowsMove
    <2> QED BY <1>3, <2>2, <2>3, <2>4 DEF WebhookEnqueue
<1>4. ASSUME NEW t \in Txns, NEW k \in PollIds,
             (\E i \in Instances : ClaimPoll(i, t, k)) \/ RowStep(t, k)
      PROVE  RowsMove(u)
    <2>1. OnlyRow(t, k)
        BY <1>4, ClaimTouches, RowStepTouches
    <2>2. CASE u = t
        BY <1>4, <2>1, <2>2 DEF RowsMove
    <2>3. CASE u # t
        <3>1. /\ used' = used
              /\ \A l \in PollIds : poll'[u][l] = poll[u][l] /\ job'[u][l] = job[u][l]
            BY <2>1, <2>3 DEF OnlyRow
        <3>2. poll'[u] = poll[u]
            BY <1>4, <2>3, StatusOthers
        <3> QED BY <3>1, <3>2 DEF RowsMove
    <2> QED BY <2>2, <2>3
<1>5. ASSUME NEW t \in Txns, NEW k \in PollIds, ScheduleNextPoll(t, k) PROVE RowsMove(u)
    <2>1. CASE u = t
        BY <1>5, <2>1 DEF RowsMove
    <2>2. CASE u # t
        <3>1. poll[t][k].attempt + 1 \in Nat
            BY JobFields
        <3>2. poll'[u] = poll[u] /\ used'[u] = used[u]
            BY <1>5, <2>2, <3>1, InsertAt DEF ScheduleNextPoll
        <3>3. \A l \in PollIds : job'[u][l] = job[u][l]
            BY <1>5, <2>2, JobAt DEF ScheduleNextPoll
        <3> QED BY <3>2, <3>3 DEF RowsMove
    <2> QED BY <2>1, <2>2
<1> QED BY <1>1, <1>2, <1>3, <1>4, <1>5 DEF Next, JobStep, RowStep

LEMMA ClaimedOnceStep ==
    ASSUME TypeOK, RowsInOrder, ClaimedOnce, [Next]_vars PROVE ClaimedOnce'
<1> SUFFICES ASSUME NEW u \in Txns, NEW l \in PollIds, job'[u][l].pc # "idle"
             PROVE  poll'[u][l].status # "pending"
    BY DEF ClaimedOnce
<1>a. NoJob.pc = "idle"
    BY DEF NoJob
<1>b. job[u][l].pc # "idle" => poll[u][l].status # "pending"
    BY DEF ClaimedOnce
<1>1. ASSUME poll'[u][l] = poll[u][l], job'[u][l] = job[u][l]
      PROVE  poll'[u][l].status # "pending"
    BY <1>1, <1>b
<1>2. CASE /\ poll'[u] = poll[u]
           /\ \A k \in PollIds : job'[u][k] = job[u][k] \/ job'[u][k] = NoJob
    BY <1>2, <1>a, <1>1
<1>3. ASSUME NEW k \in PollIds, OnlyRow(u, k),
             (\E i \in Instances : ClaimPoll(i, u, k)) \/ RowStep(u, k)
      PROVE  poll'[u][l].status # "pending"
    <2>1. CASE l # k
        BY <1>1, <1>3, <2>1 DEF OnlyRow
    <2>2. CASE l = k /\ RowStep(u, k)
        BY <1>b, <2>2, RowStepMoves
    <2>3. CASE l = k /\ \E i \in Instances : ClaimPoll(i, u, k)
        BY <2>3, StatusAt DEF ClaimPoll
    <2> QED BY <1>3, <2>1, <2>2, <2>3
<1>4. ASSUME NEW n \in Nat, InsertPoll(u, n), job'[u][l] = job[u][l]
      PROVE  poll'[u][l].status # "pending"
    <2>1. /\ used[u] + 1 \in PollIds /\ used[u] + 1 > used[u]
          /\ \A k \in PollIds : k # used[u] + 1 => poll'[u][k] = poll[u][k]
        <3>1. /\ used[u] \in Nat /\ used[u] + 1 \in PollIds
              /\ \A k \in PollIds : k # used[u] + 1 => poll'[u][k] = poll[u][k]
            BY <1>4, InsertAt
        <3> QED BY <3>1
    <2>2. job[u][used[u] + 1] = NoJob
        BY <2>1 DEF RowsInOrder
    <2>3. poll'[u][l] = poll[u][l]
        BY <1>4, <1>a, <2>1, <2>2
    <2> QED BY <1>1, <1>4, <2>3
<1>5. ASSUME NEW k \in PollIds, ScheduleNextPoll(u, k)
      PROVE  poll'[u][l].status # "pending"
    <2>1. poll[u][k].attempt + 1 \in Nat
        BY JobFields
    <2>2. job'[u][l] = job[u][l]
        BY <1>5, <1>a, JobAt DEF ScheduleNextPoll
    <2> QED BY <1>4, <1>5, <2>1, <2>2 DEF ScheduleNextPoll
<1> QED BY <1>2, <1>3, <1>4, <1>5, RowsMoveStep DEF RowsMove

(* No step adds a chain but the one that serves an event. *)
LEMMA ChainsMoveStep ==
    ASSUME TypeOK, RowsInOrder, ClaimedOnce, HandledSeen, [Next]_vars, NEW u \in Txns
    PROVE  ChainsMove(u)
<1>a. NoJob.pc = "idle"
    BY DEF NoJob
<1>b. Served(u) \subseteq Served(u)'
    BY ServedStays
<1>1. CASE /\ poll'[u] = poll[u]
           /\ \A k \in PollIds : job'[u][k] = job[u][k] \/ job'[u][k] = NoJob
    BY <1>1, <1>a, <1>b, SameRowsMove DEF Live
<1>2. ASSUME NEW k \in PollIds, OnlyRow(u, k),
             (\E i \in Instances : ClaimPoll(i, u, k)) \/ RowStep(u, k)
      PROVE  ChainsMove(u)
    <2>1. Live(u, k)
        BY <1>2, RowStepTouches DEF ClaimPoll, Live
    <2>2. \A l \in PollIds : Live(u, l)' => Live(u, l)
        BY <1>2, <2>1 DEF OnlyRow, Live
    <2> QED BY <1>b, <2>2, SameRowsMove
<1>3. ASSUME NEW e \in Events, TxnOf[e] = u, WebhookEnqueue(e), InsertPoll(u, 1), UNCHANGED job
      PROVE  ChainsMove(u)
    <2>1. /\ handler[e] # NoInst /\ e \in seen /\ seen' = seen /\ handler'[e] = NoInst
        BY <1>3 DEF WebhookEnqueue, HandledSeen, TypeOK
    <2>2. e \in Served(u)' \ Served(u)
        BY <1>3, <2>1 DEF Served
    <2>3. /\ used[u] + 1 \in PollIds
          /\ \A l \in PollIds : l # used[u] + 1 => poll'[u][l] = poll[u][l]
        BY <1>3, InsertAt
    <2>4. LivePolls(u)' \subseteq LivePolls(u) \cup {used[u] + 1}
        BY <1>3, <2>3 DEF LivePolls, Live
    <2> QED BY <1>b, <2>2, <2>3, <2>4 DEF ChainsMove
<1>4. ASSUME NEW k \in PollIds, ScheduleNextPoll(u, k) PROVE ChainsMove(u)
    <2>1. poll[u][k].attempt + 1 \in Nat /\ job[u][k].pc = "next"
        BY <1>4, JobFields DEF ScheduleNextPoll, Busy
    <2>2. /\ used[u] \in Nat /\ used[u] + 1 \in PollIds
          /\ \A l \in PollIds : l # used[u] + 1 => poll'[u][l] = poll[u][l]
        BY <1>4, <2>1, InsertAt DEF ScheduleNextPoll
    <2>3. \A l \in PollIds : job'[u][l] = IF l = k THEN NoJob ELSE job[u][l]
        BY <1>4, JobAt DEF ScheduleNextPoll
    <2>4. k # used[u] + 1
        BY <1>a, <2>1, <2>2 DEF RowsInOrder
    <2>5. ~Live(u, k)'
        BY <1>a, <2>1, <2>2, <2>3, <2>4 DEF ClaimedOnce, Live
    <2>6. k \in LivePolls(u)
        BY <2>1 DEF LivePolls, Live
    <2>7. \A l \in PollIds : Live(u, l)' => l # k /\ (Live(u, l) \/ l = used[u] + 1)
        BY <2>2, <2>3, <2>5 DEF Live
    <2>8. LivePolls(u)' \subseteq (LivePolls(u) \ {k}) \cup {used[u] + 1}
        BY <2>7 DEF LivePolls
    <2> QED BY <1>b, <2>2, <2>6, <2>8 DEF ChainsMove
<1> QED BY <1>1, <1>2, <1>3, <1>4, RowsMoveStep DEF RowsMove

LEMMA ChainsStep ==
    ASSUME TypeOK, RowsInOrder, Chains, [Next]_vars PROVE Chains'
<1> USE DEF Chains
<1>1. ClaimedOnce'
    BY ClaimedOnceStep
<1>2. HandledSeen'
    BY ServedStays
<1>3. ASSUME NEW t \in Txns
      PROVE  Cardinality(LivePolls(t))' <= Cardinality(Served(t))'
    <2>1. ChainsMove(t)
        BY ChainsMoveStep
    <2>2. Cardinality(LivePolls(t)) <= Cardinality(Served(t))
        BY DEF ChainCount
    <2> QED BY <1>2, <2>1, <2>2, CountStays DEF HandledSeen
<1> QED BY <1>1, <1>2, <1>3 DEF ChainCount

LEMMA ChainsInit == Init => Chains
<1> SUFFICES ASSUME Init PROVE Chains
    OBVIOUS
<1>1. ClaimedOnce
    BY DEF Init, ClaimedOnce, NoJob
<1>2. HandledSeen
    BY FS_EmptySet DEF Init, HandledSeen
<1>3. ASSUME NEW t \in Txns PROVE Cardinality(LivePolls(t)) <= Cardinality(Served(t))
    <2>1. LivePolls(t) = {} /\ Served(t) = {}
        BY DEF Init, LivePolls, Live, NoPoll, NoJob, Served
    <2> QED BY <2>1, FS_EmptySet
<1> QED BY <1>1, <1>2, <1>3 DEF Chains, ChainCount

LEMMA ChainsBounded == Chains => OneChainPerEvent
<1> SUFFICES ASSUME Chains, NEW t \in Txns
             PROVE  Cardinality({k \in PollIds : Live(t, k)})
                        <= Cardinality({e \in seen : TxnOf[e] = t})
    BY DEF OneChainPerEvent
<1> DEFINE E == {e \in seen : TxnOf[e] = t}
<1>1. Cardinality(LivePolls(t)) <= Cardinality(Served(t))
    BY DEF Chains, ChainCount
<1>2. IsFiniteSet(E)
    <2>1. E \in SUBSET seen /\ IsFiniteSet(seen)
        BY DEF Chains, HandledSeen
    <2> QED BY <2>1, FS_Subset
<1>3. Served(t) \in SUBSET E
    BY DEF Served
<1> HIDE DEF E
<1>4. IsFiniteSet(Served(t)) /\ Cardinality(Served(t)) <= Cardinality(E)
    BY <1>2, <1>3, FS_Subset
<1>5. IsFiniteSet(LivePolls(t))
    BY ChainSetsFinite DEF Chains, HandledSeen
<1>6. /\ Cardinality(LivePolls(t)) \in Nat /\ Cardinality(Served(t)) \in Nat
      /\ Cardinality(E) \in Nat
    BY <1>2, <1>4, <1>5, FS_CardinalityType
<1>7. Cardinality(LivePolls(t)) <= Cardinality(E)
    BY <1>1, <1>4, <1>6
<1> QED BY <1>7 DEF LivePolls, E

(***************************************************************************)
(* A hold never has more live poll chains than distinct events stored for  *)
(* it: redelivery, requeueing, crashes and other instances add none.       *)
(***************************************************************************)
THEOREM EventsBoundChains == Spec => []OneChainPerEvent
<1>1. Justified => RowsInOrder
    BY DEF Justified
<1> QED
    BY <1>1, TypeInit, TypeStep, JustifiedInit, JustifiedStep, ChainsInit, ChainsStep,
       ChainsBounded, PTL DEF Spec

-------------------------------------------------------------------------------
(***************************************************************************)
(* The length of a chain.  Without faults, a hold with one event has one   *)
(* chain, and row n of the table is its n-th attempt.  Past the N-th       *)
(* attempt it went on only after successes, which are the latest answers   *)
(* on record, and N of them would have ended it.                           *)
(***************************************************************************)
Alone(e) == \A f \in Events : TxnOf[f] = TxnOf[e] => f = e

(* The latest n answers on record are successes. *)
Run(t, n) ==
    /\ n <= Len(done[t])
    /\ \A j \in 1 .. Len(done[t]) : j > Len(done[t]) - n => done[t][j] = "success"

(* How far the goroutine of the latest row has got, and what that took. *)
RunOf(t, k) ==
    /\ poll[t][k].status = "pending" \/ job[t][k].pc \in {"claimed", "answered"}
          => Run(t, k - N)
    /\ job[t][k].pc = "recorded" /\ job[t][k].ans = "success" => Run(t, k + 1 - N)
    /\ job[t][k].pc = "next" => Run(t, k + 1 - N) /\ k <= 2 * N - 2

SingleChain(t) ==
    /\ \A k \in PollIds : k <= used[t] => poll[t][k].attempt = k
    /\ \A k \in PollIds : Live(t, k) => k = used[t] /\ RunOf(t, k)
    /\ used[t] <= 2 * N - 1

ChainOf(e) ==
    /\ e \notin seen \/ handler[e] # NoInst => used[TxnOf[e]] = 0
    /\ SingleChain(TxnOf[e])

AttemptsBounded == faults = 0 => \A e \in Events : Alone(e) => ChainOf(e)

(* What is needed of the typing. *)
LEMMA ChainTypes ==
    ASSUME TypeOK, NEW t \in Txns
    PROVE  /\ used[t] \in Nat /\ N \in Nat /\ N > 0
           /\ Len(done[t]) \in Nat /\ DOMAIN done[t] = 1 .. Len(done[t])
           /\ \A k \in PollIds : k \in Nat /\ k > 0
BY ConstantsOK DEF TypeOK, PollIds


(* One more success makes the run one longer. *)
LEMMA RunGrows ==
    ASSUME TypeOK, NEW t \in Txns, NEW n \in Int, Run(t, n),
           done'[t] = Append(done[t], "success")
    PROVE  Run(t, n + 1)'
<1>1. /\ Len(done[t]) \in Nat /\ Len(done'[t]) = Len(done[t]) + 1
      /\ \A j \in 1 .. Len(done[t]) : done'[t][j] = done[t][j]
      /\ done'[t][Len(done[t]) + 1] = "success"
    BY DEF TypeOK
<1>2. ASSUME NEW j \in 1 .. Len(done'[t]), j > Len(done'[t]) - (n + 1)
      PROVE  done'[t][j] = "success"
    BY <1>1, <1>2 DEF Run
<1> QED BY <1>1, <1>2 DEF Run

(* Nothing has to be on record below the N-th attempt. *)
LEMMA ShortRun ==
    ASSUME TypeOK, NEW t \in Txns, NEW n \in Int, n <= 0 PROVE Run(t, n)
BY DEF Run, TypeOK

(* A run of N successes is a streak. *)
LEMMA RunIsStreak ==
    ASSUME TypeOK, N <= Window, NEW t \in Txns, NEW n \in Nat, n >= N, Run(t, n)
    PROVE  Streak(t, Matching)
<1>1. Len(done[t]) \in Nat /\ N \in Nat /\ N > 0
    BY ChainTypes
<1>2. \A j \in Len(done[t]) - N + 1 .. Len(done[t]) : done[t][j] \in Matching
    BY <1>1 DEF Run, Matching
<1> QED BY <1>1, <1>2 DEF Streak, Run

(* Only RecordAnswer puts an answer on record. *)
LEMMA AnswersMove ==
    ASSUME TypeOK, [Next]_vars, NEW u \in Txns
    PROVE  done'[u] = done[u] \/ \E k \in PollIds : RecordAnswer(u, k)
<1>1. ASSUME NEW t \in Txns, NEW k \in PollIds, RecordAnswer(t, k)
      PROVE  done'[u] = done[u] \/ \E l \in PollIds : RecordAnswer(u, l)
    BY <1>1 DEF RecordAnswer, TypeOK
<1>2. ASSUME NEW t \in Txns, NEW k \in PollIds,
             \/ \E i \in Instances : ClaimPoll(i, t, k)
             \/ Requeue(t, k) \/ NoClientFails(t, k) \/ AskGateway(t, k)
             \/ RecordError(t, k) \/ Judge(t, k) \/ ScheduleNextPoll(t, k)
             \/ Settle(t, k) \/ JobFails(t, k)
      PROVE  done' = done
    BY <1>2 DEF ClaimPoll, Requeue, NoClientFails, AskGateway, RecordError, Judge,
                ScheduleNextPoll, Settle, JobFails, tables
<1>3. ASSUME NEW e \in Events,
             \/ \E i \in Instances : WebhookInsert(i, e)
             \/ WebhookEnqueue(e) \/ WebhookEnqueueFails(e)
      PROVE  done' = done
    BY <1>3 DEF WebhookInsert, WebhookEnqueue, WebhookEnqueueFails, tables
<1>4. ASSUME NEW i \in Instances, TtlStep(i) \/ Crash(i) PROVE done' = done
    BY <1>4 DEF TtlStep, TtlClaim, TtlCheck, TtlSettle, Crash, tables
<1>5. CASE UNCHANGED vars \/ \E t \in Txns : CreateHold(t) \/ HoldExpires(t)
    BY <1>5 DEF vars, CreateHold, HoldExpires
<1> QED BY <1>1, <1>2, <1>3, <1>4, <1>5 DEF Next, JobStep

(* What a goroutine does next continues the run, or ends the chain. *)
LEMMA RowStepRun ==
    ASSUME TypeOK, ClaimedOnce, N <= Window, faults' = 0, NEW t \in Txns, NEW k \in PollIds,
           RowStep(t, k), RunOf(t, k), poll[t][k].attempt = k,
           RecordAnswer(t, k) \/ done'[t] = done[t]
    PROVE  RunOf(t, k)'
<1> DEFINE pc2 == job'[t][k].pc
<1>a. k \in Nat /\ N \in Nat /\ N > 0
    BY ChainTypes
<1>b. job[t][k].pc # "idle" /\ poll[t][k].status # "pending"
    BY RowStepTouches DEF ClaimedOnce
<1>c. ASSUME done'[t] = done[t], NEW n \in Int, Run(t, n) PROVE Run(t, n)'
    BY <1>c DEF Run
<1>d. k - N \in Int /\ k + 1 - N \in Int
    BY <1>a
<1>1. CASE pc2 \in {"idle", "settle"} /\ poll'[t][k].status # "pending"
    BY <1>1 DEF RunOf
<1>2. CASE done'[t] = done[t] /\ job[t][k].pc = "claimed"
    <2>1. Run(t, k - N)'
        BY <1>2, <1>c, <1>d DEF RunOf
    <2>2. pc2 \in {"idle", "answered"}
        BY <1>2, RowStepMoves
    <2> QED BY <2>1, <2>2 DEF RunOf
<1>3. CASE /\ done'[t] = done[t] /\ pc2 = "next" /\ poll[t][k].attempt < N
           /\ poll'[t][k].status # "pending"
    <2>1. Run(t, k + 1 - N)'
        BY <1>3, <1>a, <1>c, <1>d, ShortRun
    <2>2. k <= 2 * N - 2
        BY <1>3, <1>a
    <2> QED BY <1>3, <2>1, <2>2 DEF RunOf
<1>4. CASE RecordAnswer(t, k)
    <2>1. /\ job[t][k].pc = "answered" /\ pc2 = "recorded" /\ job'[t][k].ans = job[t][k].ans
          /\ poll'[t][k].status = "completed"
          /\ done'[t] = Append(done[t], job[t][k].ans)
        BY <1>4, RecordAnswerOf
    <2>2. ASSUME job[t][k].ans = "success" PROVE Run(t, k + 1 - N)'
        <3>1. Run(t, k - N)
            BY <2>1 DEF RunOf
        <3>2. Run(t, (k - N) + 1)'
            BY <1>d, <2>1, <2>2, <3>1, RunGrows
        <3>3. (k - N) + 1 = k + 1 - N
            BY <1>a
        <3> QED BY <3>2, <3>3
    <2> QED BY <2>1, <2>2 DEF RunOf
<1>5. CASE /\ done'[t] = done[t] /\ job[t][k].pc = "recorded" /\ pc2 = "next"
           /\ job[t][k].ans = "success" /\ ~Streak(t, Matching)
           /\ poll'[t][k].status # "pending"
    <2>1. Run(t, k + 1 - N)
        BY <1>5 DEF RunOf
    <2>2. ASSUME ~(k <= 2 * N - 2) PROVE FALSE
        <3>1. k + 1 - N \in Nat /\ k + 1 - N >= N
            BY <1>a, <2>2
        <3> QED BY <1>5, <2>1, <3>1, RunIsStreak
    <2>3. Run(t, k + 1 - N)'
        BY <1>5, <1>c, <1>d, <2>1
    <2> QED BY <1>5, <2>2, <2>3 DEF RunOf
<1> QED BY <1>b, <1>1, <1>2, <1>3, <1>4, <1>5, RowStepMoves

(* The chain of a hold's only event goes on as one chain. *)
LEMMA ChainOfStep ==
    ASSUME TypeOK, RowsInOrder, Chains, N <= Window, faults' = 0, [Next]_vars,
           NEW e \in Events, Alone(e), ChainOf(e)
    PROVE  ChainOf(e)'
<1> DEFINE t == TxnOf[e]
           n == used[t]
<1>a. t \in Txns
    BY ConstantsOK
<1>b. /\ n \in Nat /\ N \in Nat /\ N > 0 /\ \A k \in PollIds : k \in Nat /\ k > 0
    BY <1>a, ChainTypes
<1>c. NoJob.pc = "idle" /\ ClaimedOnce /\ HandledSeen
    BY DEF NoJob, Chains
<1>d. /\ \A k \in PollIds : k <= n => poll[t][k].attempt = k
      /\ \A k \in PollIds : Live(t, k) => k = n /\ RunOf(t, k)
      /\ n <= 2 * N - 1
    BY DEF ChainOf, SingleChain
<1>e. e \notin seen' \/ handler'[e] # NoInst => n = 0 /\ (e \notin seen \/ handler[e] # NoInst)
    <2>1. Served(t) \subseteq Served(t)'
        BY <1>a, ServedStays
    <2> QED BY <2>1 DEF Served, ChainOf
<1> HIDE DEF t, n
<1>1. CASE /\ poll'[t] = poll[t] /\ used'[t] = used[t] /\ done'[t] = done[t]
           /\ \A k \in PollIds : job'[t][k] = job[t][k]
    <2>1. SingleChain(t)'
        BY <1>1, <1>d DEF SingleChain, Live, RunOf, Run, n
    <2> QED BY <1>1, <1>e, <2>1 DEF ChainOf, t, n
<1>2. ASSUME NEW k \in PollIds, OnlyRow(t, k), Live(t, k),
             poll'[t][k].attempt = poll[t][k].attempt, Live(t, k)' => RunOf(t, k)'
      PROVE  ChainOf(e)'
    <2>1. used'[t] = n /\ k = n
        BY <1>2, <1>d DEF OnlyRow, n
    <2>2. \A l \in PollIds : l # k => poll'[t][l] = poll[t][l] /\ job'[t][l] = job[t][l]
        BY <1>2, <1>a DEF OnlyRow
    <2>3. \A l \in PollIds : Live(t, l)' => l = k
        BY <1>d, <2>1, <2>2 DEF Live
    <2>4. \A l \in PollIds : poll'[t][l].attempt = poll[t][l].attempt
        BY <1>2, <2>2
    <2>5. SingleChain(t)'
        BY <1>2, <1>d, <2>1, <2>3, <2>4 DEF SingleChain
    <2> QED BY <1>e, <2>1, <2>5 DEF ChainOf, t
<1>3. ASSUME NEW k \in PollIds, OnlyRow(t, k), RowStep(t, k),
             RecordAnswer(t, k) \/ done'[t] = done[t]
      PROVE  ChainOf(e)'
    <2>1. Live(t, k) /\ k = n
        BY <1>a, <1>3, <1>d, RowStepTouches DEF Live
    <2>2. poll[t][k].attempt = k /\ RunOf(t, k)
        BY <1>b, <1>d, <2>1
    <2>3. RunOf(t, k)'
        BY <1>a, <1>c, <1>3, <2>2, RowStepRun
    <2>4. poll'[t][k].attempt = poll[t][k].attempt
        BY <1>a, <1>3, RowStepMoves
    <2> QED BY <1>2, <1>3, <2>1, <2>3, <2>4
<1>4. ASSUME NEW k \in PollIds, NEW i \in Instances, OnlyRow(t, k), ClaimPoll(i, t, k)
      PROVE  ChainOf(e)'
    <2>1. Live(t, k) /\ poll[t][k].status = "pending" /\ done' = done
        BY <1>4 DEF ClaimPoll, Live
    <2>2. Run(t, k - N)
        BY <1>d, <2>1 DEF RunOf
    <2>3. job'[t][k].pc = "claimed"
        BY <1>a, <1>4, ClaimTouches
    <2>4. RunOf(t, k)'
        BY <2>1, <2>2, <2>3 DEF RunOf, Run
    <2>5. poll'[t][k].attempt = poll[t][k].attempt
        BY <1>a, <1>4, StatusAt DEF ClaimPoll
    <2> QED BY <1>2, <1>4, <2>1, <2>4, <2>5
(* A row that is inserted while no other is live becomes the chain. *)
<1>5. ASSUME NEW m, m = n + 1, InsertPoll(t, m), n < 2 * N - 1, Run(t, m - N),
             done'[t] = done[t], job'[t][m] = job[t][m],
             \A l \in PollIds : l # m => ~Live(t, l)',
             ~(e \notin seen' \/ handler'[e] # NoInst)
      PROVE  ChainOf(e)'
    <2>1. m \in Nat
        BY <1>b, <1>5
    <2>2. /\ m \in PollIds
          /\ poll'[t][m] = [status |-> "pending", attempt |-> m]
          /\ \A l \in PollIds : l # m => poll'[t][l] = poll[t][l]
          /\ used'[t] = m
        BY <1>a, <1>5, <2>1, InsertAt DEF n
    <2>3. job'[t][m].pc = "idle"
        BY <1>a, <1>b, <1>c, <1>5, <2>2 DEF RowsInOrder, n
    <2>4. Run(t, m - N)'
        BY <1>5 DEF Run
    <2>5. RunOf(t, m)'
        BY <2>3, <2>4 DEF RunOf
    <2>6. ASSUME NEW l \in PollIds, l <= m PROVE poll'[t][l].attempt = l
        <3>1. CASE l = m
            <4>1. poll'[t][m].attempt = m
                BY <2>2
            <4> QED BY <3>1, <4>1
        <3>2. CASE l # m
            <4>1. l \in Nat /\ l <= n
                BY <1>b, <1>5, <2>6, <3>2
            <4>2. poll[t][l].attempt = l
                BY <1>d, <4>1
            <4>3. poll'[t][l] = poll[t][l]
                BY <2>2, <3>2
            <4> QED BY <4>2, <4>3
        <3> QED BY <3>1, <3>2
    <2>7. m <= 2 * N - 1
        BY <1>b, <1>5
    <2>8. \A l \in PollIds : Live(t, l)' => l = m /\ RunOf(t, l)'
        BY <1>5, <2>5
    <2>9. SingleChain(t)'
        BY <2>2, <2>6, <2>7, <2>8 DEF SingleChain
    <2> QED BY <1>5, <2>9 DEF ChainOf, t
<1>6. ASSUME NEW f \in Events, TxnOf[f] = t, WebhookEnqueue(f), InsertPoll(t, 1), UNCHANGED job
      PROVE  ChainOf(e)'
    <2>1. f = e
        BY <1>6 DEF Alone, t
    <2>2. /\ handler[e] # NoInst /\ e \in seen
          /\ seen' = seen /\ handler'[e] = NoInst /\ done' = done
        BY <1>c, <1>6, <2>1 DEF WebhookEnqueue, HandledSeen, TypeOK
    <2>3. n = 0
        BY <2>2 DEF ChainOf, t, n
    <2>4. Run(t, 1 - N) /\ 1 = n + 1 /\ n < 2 * N - 1
        <3>1. 1 - N \in Int /\ 1 - N <= 0
            BY <1>b
        <3> QED BY <1>a, <1>b, <2>3, <3>1, ShortRun
    <2>5. \A l \in PollIds : l # 1 => poll'[t][l] = poll[t][l]
        <3>1. used[t] + 1 = 1
            BY <2>3 DEF n
        <3>2. \A l \in PollIds : l # used[t] + 1 => poll'[t][l] = poll[t][l]
            BY <1>a, <1>6, InsertAt
        <3> QED BY <3>1, <3>2
    <2>6. \A l \in PollIds : ~Live(t, l)
        BY <1>b, <1>d, <2>3
    <2>7. \A l \in PollIds : l # 1 => ~Live(t, l)'
        BY <1>6, <2>5, <2>6 DEF Live
    <2> QED BY <1>5, <1>6, <2>2, <2>4, <2>7
<1>7. ASSUME NEW k \in PollIds, ScheduleNextPoll(t, k) PROVE ChainOf(e)'
    <2>1. job[t][k].pc = "next" /\ UNCHANGED <<seen, handler, done>>
        BY <1>7 DEF ScheduleNextPoll, Busy
    <2>2. k = n /\ RunOf(t, k) /\ poll[t][k].attempt = k
        BY <1>b, <1>d, <2>1 DEF Live
    <2>3. Run(t, k + 1 - N) /\ k <= 2 * N - 2
        BY <2>1, <2>2 DEF RunOf
    <2>4. InsertPoll(t, k + 1) /\ k + 1 \in Nat /\ k # k + 1 /\ k > 0 /\ used[t] = k
        BY <1>b, <1>7, <2>2 DEF ScheduleNextPoll, n
    <2>5. \A l \in PollIds : job'[t][l] = IF l = k THEN NoJob ELSE job[t][l]
        BY <1>a, <1>7, JobAt DEF ScheduleNextPoll
    <2>6. k + 1 \in PollIds /\ \A l \in PollIds : l # k + 1 => poll'[t][l] = poll[t][l]
        BY <1>a, <2>4, InsertAt
    <2>7. ~Live(t, k)'
        BY <1>a, <1>c, <2>1, <2>4, <2>5, <2>6 DEF Live, ClaimedOnce
    <2>8. \A l \in PollIds : l # k + 1 => ~Live(t, l)'
        <3>1. ASSUME NEW l \in PollIds, l # k + 1, l # k PROVE ~Live(t, l)'
            BY <1>d, <2>2, <2>5, <2>6, <3>1 DEF Live
        <3> QED BY <2>7, <3>1
    <2>9. ~(e \notin seen' \/ handler'[e] # NoInst)
        BY <1>e, <2>2, <2>4
    <2>10. job'[t][k + 1] = job[t][k + 1]
        BY <2>4, <2>5, <2>6
    <2>11. k + 1 = n + 1 /\ n < 2 * N - 1
        BY <1>b, <2>2, <2>3
    <2>12. done'[t] = done[t]
        BY <2>1
    <2>13. PICK m \in PollIds : m = k + 1
        BY <2>6
    <2>14. /\ m = n + 1 /\ InsertPoll(t, m) /\ Run(t, m - N) /\ job'[t][m] = job[t][m]
           /\ \A l \in PollIds : l # m => ~Live(t, l)'
        <3>1. m = n + 1
            BY <2>11, <2>13
        <3>2. InsertPoll(t, m) /\ Run(t, m - N) /\ job'[t][m] = job[t][m]
            <4>1. InsertPoll(t, m)
                BY <2>4, <2>13, Zenon
            <4>2. Run(t, m - N)
                <5>1. m - N = k + 1 - N
                    BY <1>b, <2>13
                <5> QED BY <2>3, <5>1, Zenon
            <4>3. job'[t][m] = job[t][m]
                BY <2>10, <2>13
            <4> QED BY <4>1, <4>2, <4>3
        <3> QED BY <2>8, <2>13, <3>1, <3>2
    <2> QED BY <1>5, <2>9, <2>11, <2>12, <2>14
<1>8. RowsMove(t) /\ (done'[t] = done[t] \/ \E k \in PollIds : RecordAnswer(t, k))
    BY <1>a, RowsMoveStep, AnswersMove
<1>9. ASSUME NEW k \in PollIds, RecordAnswer(t, k) PROVE ChainOf(e)'
    <2>1. RowStep(t, k)
        BY <1>9 DEF RowStep
    <2> QED BY <1>a, <1>3, <1>9, <2>1, RowStepTouches
<1>10. CASE done'[t] = done[t]
    BY <1>1, <1>3, <1>4, <1>6, <1>7, <1>8, <1>10 DEF RowsMove
<1> QED BY <1>8, <1>9, <1>10

LEMMA AttemptsBoundedStep ==
    ASSUME TypeOK, RowsInOrder, Chains, N <= Window, AttemptsBounded, [Next]_vars
    PROVE  AttemptsBounded'
<1> SUFFICES ASSUME faults' = 0, NEW e \in Events, Alone(e) PROVE ChainOf(e)'
    BY DEF AttemptsBounded, Alone
<1>1. faults = 0
    BY NoFault, FaultsCounted
<1> QED BY <1>1, ChainOfStep DEF AttemptsBounded

LEMMA AttemptsBoundedInit == Init => AttemptsBounded
<1> SUFFICES ASSUME Init, NEW e \in Events PROVE ChainOf(e)
    BY DEF AttemptsBounded
<1>1. TxnOf[e] \in Txns /\ N \in Nat /\ N > 0 /\ \A k \in PollIds : k > 0 /\ k \in Nat
    BY ConstantsOK DEF PollIds
<1>2. used[TxnOf[e]] = 0 /\ \A k \in PollIds : ~Live(TxnOf[e], k)
    BY <1>1 DEF Init, Live, NoPoll, NoJob
<1> QED BY <1>1, <1>2 DEF ChainOf, SingleChain

LEMMA AttemptsMeanBound ==
    ASSUME TypeOK, RowsInOrder, AttemptsBounded PROVE PollingBounded
<1> SUFFICES ASSUME faults = 0, NEW e \in Events, Alone(e), NEW k \in PollIds
             PROVE  poll[TxnOf[e]][k].attempt <= 2 * N - 1
    BY DEF PollingBounded, Alone
<1> DEFINE t == TxnOf[e]
<1>1. t \in Txns /\ SingleChain(t)
    BY ConstantsOK DEF AttemptsBounded, ChainOf
<1>2. used[t] \in Nat /\ N \in Nat /\ N > 0 /\ k \in Nat
    BY <1>1, ChainTypes
<1> HIDE DEF t
<1>3. CASE k <= used[t]
    BY <1>1, <1>2, <1>3 DEF SingleChain, t
<1>4. CASE k > used[t]
    BY <1>1, <1>2, <1>4 DEF RowsInOrder, NoPoll, t
<1> QED BY <1>2, <1>3, <1>4

(***************************************************************************)
(* Without crashes and failed statements, and with STABILIZATION_N within  *)
(* the rows a streak query reads, a hold with one event is polled at most  *)
(* 2N - 1 times, whatever the gateway answers.                             *)
(***************************************************************************)
THEOREM AttemptsAreBounded == N <= Window /\ Spec => []PollingBounded
<1> SUFFICES ASSUME N <= Window PROVE Spec => []PollingBounded
    OBVIOUS
<1>1. Justified => RowsInOrder
    BY DEF Justified
<1>2. TypeOK /\ RowsInOrder /\ Chains /\ AttemptsBounded /\ [Next]_vars => AttemptsBounded'
    BY AttemptsBoundedStep
<1> QED
    BY <1>1, <1>2, TypeInit, TypeStep, JustifiedInit, JustifiedStep, ChainsInit, ChainsStep,
       AttemptsBoundedInit, AttemptsMeanBound, PTL DEF Spec
===============================================================================
