--------------------------- MODULE StabilizerProofs ---------------------------
(***************************************************************************)
(* Proofs about Stabilizer for every number of transactions, events and    *)
(* instances, every STABILIZATION_N and every bound.                       *)
(***************************************************************************)
EXTENDS Stabilizer, TLAPS

-------------------------------------------------------------------------------
(* What the helper operators do to the typing of the variables they change. *)

(* A goroutine state that is a Job may be stored for any poll. *)
LEMMA SetJobType ==
    ASSUME TypeOK, NEW t \in Txns, NEW k \in PollIds, NEW j \in Jobs, SetJob(t, k, j)
    PROVE  job' \in [Txns -> [PollIds -> Jobs]]
BY DEF TypeOK, SetJob

(* A status chk_poll_status knows may be stored for any poll. *)
LEMMA SetPollStatusType ==
    ASSUME TypeOK, NEW t \in Txns, NEW k \in PollIds,
           NEW st \in {"none", "pending", "in_flight", "completed", "failed"},
           SetPollStatus(t, k, st)
    PROVE  poll' \in [Txns -> [PollIds -> Polls]]
<1>1. poll[t][k] \in Polls
    BY DEF TypeOK
<1>2. [poll[t][k] EXCEPT !.status = st] \in Polls
    BY <1>1 DEF Polls
<1> QED BY <1>2 DEF TypeOK, SetPollStatus

(* A new row goes to the first unused place of the table. *)
LEMMA InsertPollType ==
    ASSUME TypeOK, NEW t \in Txns, NEW n \in Nat, InsertPoll(t, n)
    PROVE  /\ poll' \in [Txns -> [PollIds -> Polls]]
           /\ used' \in [Txns -> 0..MaxPolls]
<1>1. used[t] + 1 \in PollIds
    BY ConstantsOK DEF TypeOK, InsertPoll, PollIds
<1>2. [status |-> "pending", attempt |-> n] \in Polls
    BY DEF Polls
<1>3. poll' \in [Txns -> [PollIds -> Polls]]
    BY <1>1, <1>2 DEF TypeOK, InsertPoll
<1>4. used' \in [Txns -> 0..MaxPolls]
    BY <1>1 DEF TypeOK, InsertPoll, PollIds
<1> QED BY <1>3, <1>4

(* A verdict is written into the three tables with their types. *)
LEMMA ConcludeType ==
    ASSUME TypeOK, NEW t \in Txns, NEW o \in Outcomes, Conclude(t, o)
    PROVE  /\ hold' \in [Txns -> Statuses]
           /\ ledger' \in [Txns -> Seq(Transitions)]
           /\ outbox' \in [Txns -> Seq(Callbacks)]
<1>1. CASE UNCHANGED <<hold, ledger, outbox>>
    BY <1>1 DEF TypeOK
<1>2. CASE /\ hold' = [hold EXCEPT ![t] = o.to]
           /\ ledger' = [ledger EXCEPT ![t] =
                            Append(@, [from |-> hold[t], to |-> o.to, reason |-> o.reason])]
           /\ outbox' = [outbox EXCEPT ![t] = Append(@, CallbackKey(o))]
    <2>1. o.to \in Terminal /\ o.reason \in Reasons
        BY DEF Outcomes
    <2>2. [from |-> hold[t], to |-> o.to, reason |-> o.reason] \in Transitions
        BY <2>1 DEF TypeOK, Transitions
    <2>3. CallbackKey(o) \in Callbacks
        BY <2>1 DEF CallbackKey, Callbacks
    <2>4. hold' \in [Txns -> Statuses]
        BY <1>2, <2>1 DEF TypeOK, Statuses
    <2>5. ledger' \in [Txns -> Seq(Transitions)]
        BY <1>2, <2>2 DEF TypeOK
    <2>6. outbox' \in [Txns -> Seq(Callbacks)]
        BY <1>2, <2>3 DEF TypeOK
    <2> QED BY <2>4, <2>5, <2>6
<1> QED BY <1>1, <1>2 DEF Conclude

(* What a goroutine carries from one statement to the next. *)
LEMMA JobFields ==
    ASSUME TypeOK, NEW t \in Txns, NEW k \in PollIds
    PROVE  /\ job[t][k] \in Jobs
           /\ job[t][k].at \in Instances \cup {NoInst}
           /\ job[t][k].pc \in {"answered", "recorded"} =>
                 job[t][k].ans \in Answers /\ job[t][k].outcome = NoOutcome
           /\ job[t][k].pc = "settle" => job[t][k].outcome \in Outcomes
           /\ poll[t][k] \in Polls
           /\ poll[t][k].attempt \in Nat
<1>1. job[t][k] \in Jobs /\ poll[t][k] \in Polls
    BY DEF TypeOK
<1> QED BY <1>1 DEF Jobs, Polls

(* Both ways out of an attempt are goroutine states. *)
LEMMA WaysOut ==
    ASSUME TypeOK, NEW t \in Txns, NEW k \in PollIds
    PROVE  /\ GoOn(t, k).pc = "next"
           /\ job[t][k].pc \in {"answered", "recorded"} => GoOn(t, k) \in Jobs
           /\ \A to \in Terminal, reason \in Reasons :
                 /\ Decide(t, k, to, reason).pc = "settle"
                 /\ Decide(t, k, to, reason).outcome = Outcome(to, reason)
                 /\ Decide(t, k, to, reason) \in Jobs
<1>1. job[t][k] \in Jobs
    BY JobFields
<1>2. /\ GoOn(t, k).pc = "next"
      /\ job[t][k].pc \in {"answered", "recorded"} => GoOn(t, k) \in Jobs
    BY <1>1 DEF GoOn, Jobs
<1>3. ASSUME NEW to \in Terminal, NEW reason \in Reasons
      PROVE  /\ Decide(t, k, to, reason).pc = "settle"
             /\ Decide(t, k, to, reason).outcome = Outcome(to, reason)
             /\ Decide(t, k, to, reason) \in Jobs
    <2>1. Outcome(to, reason) \in Outcomes
        BY DEF Outcome, Outcomes
    <2> QED BY <1>1, <2>1 DEF Decide, Jobs
<1> QED BY <1>2, <1>3

(***************************************************************************)
(* What processPoll makes of a recorded answer.                            *)
(***************************************************************************)
LEMMA VerdictCases ==
    ASSUME TypeOK, NEW t \in Txns, NEW k \in PollIds, NEW blind \in BOOLEAN
    PROVE  \/ /\ Verdict(t, k, blind) = Decide(t, k, "CONFIRMED", "success_observed")
              /\ Streak(t, Matching)
           \/ Verdict(t, k, blind) = GoOn(t, k)
           \/ /\ Verdict(t, k, blind) = Decide(t, k, "MISMATCH", "amount_mismatch")
              /\ job[t][k].ans = "other_amount"
           \/ /\ Verdict(t, k, blind) = Decide(t, k, "FAILED", "stable_gateway_failure")
              /\ Streak(t, Failing)
           \/ Verdict(t, k, blind) = AfterAttempt(t, k, "polling_exhausted_no_consensus")
BY DEF Verdict, Matching, Failing

LEMMA AfterAttemptType ==
    ASSUME TypeOK, NEW t \in Txns, NEW k \in PollIds, NEW reason \in Reasons,
           job[t][k].pc \in {"answered", "recorded"}
    PROVE  AfterAttempt(t, k, reason) \in Jobs
BY WaysOut DEF AfterAttempt, Terminal

LEMMA VerdictType ==
    ASSUME TypeOK, NEW t \in Txns, NEW k \in PollIds, NEW blind \in BOOLEAN,
           job[t][k].pc = "recorded"
    PROVE  Verdict(t, k, blind) \in Jobs
BY VerdictCases, WaysOut, AfterAttemptType DEF Terminal, Reasons

(* The sentinels are states of an idle goroutine, an idle scanner, no row. *)
LEMMA Sentinels == NoJob \in Jobs /\ NoScan \in Scans /\ NoPoll \in Polls
BY DEF NoJob, Jobs, NoScan, Scans, NoPoll, Polls

-------------------------------------------------------------------------------
(* Every variable has its type initially... *)
LEMMA TypeInit == Init => TypeOK
<1> SUFFICES ASSUME Init PROVE TypeOK
    OBVIOUS
<1>1. hold \in [Txns -> Statuses] /\ expired \in [Txns -> BOOLEAN] /\ seen \subseteq Events
    BY DEF Init, Statuses
<1>2. /\ poll \in [Txns -> [PollIds -> Polls]]
      /\ job \in [Txns -> [PollIds -> Jobs]]
      /\ scanner \in [Instances -> Scans]
    BY Sentinels DEF Init
<1>3. used \in [Txns -> 0..MaxPolls] /\ faults \in 0..MaxFaults
    BY ConstantsOK DEF Init
<1>4. /\ done \in [Txns -> Seq(Answers)]
      /\ ledger \in [Txns -> Seq(Transitions)]
      /\ outbox \in [Txns -> Seq(Callbacks)]
    BY DEF Init
<1>5. handler \in [Events -> Instances \cup {NoInst}] /\ finalSeen \in [Txns -> SUBSET Answers]
    BY DEF Init
<1> QED BY <1>1, <1>2, <1>3, <1>4, <1>5 DEF TypeOK

(* ... a fault counts up to its bound ... *)
LEMMA FaultType == TypeOK /\ Fault => faults' \in 0..MaxFaults
BY ConstantsOK DEF TypeOK, Fault

(* ... and every step keeps it, shown one action at a time. *)
LEMMA TypeStep == TypeOK /\ [Next]_vars => TypeOK'
<1> SUFFICES ASSUME TypeOK, [Next]_vars PROVE TypeOK'
    OBVIOUS
<1>1. ASSUME NEW t \in Txns, CreateHold(t) \/ HoldExpires(t) PROVE TypeOK'
    <2>1. CASE CreateHold(t)
        BY <2>1 DEF TypeOK, CreateHold, Statuses, Open
    <2>2. CASE HoldExpires(t)
        BY <2>2 DEF TypeOK, HoldExpires
    <2> QED BY <1>1, <2>1, <2>2
<1>2. ASSUME NEW e \in Events, NEW i \in Instances, WebhookInsert(i, e) PROVE TypeOK'
    BY <1>2 DEF TypeOK, WebhookInsert
<1>3. ASSUME NEW e \in Events, WebhookEnqueue(e) PROVE TypeOK'
    <2>1. TxnOf[e] \in Txns
        BY ConstantsOK
    <2>2. /\ poll' \in [Txns -> [PollIds -> Polls]]
          /\ used' \in [Txns -> 0..MaxPolls]
        <3>1. CASE InsertPoll(TxnOf[e], 1)
            BY <3>1, <2>1, InsertPollType
        <3>2. CASE UNCHANGED <<poll, used>>
            BY <3>2 DEF TypeOK
        <3> QED BY <1>3, <3>1, <3>2 DEF WebhookEnqueue
    <2>3. handler' \in [Events -> Instances \cup {NoInst}]
        BY <1>3 DEF TypeOK, WebhookEnqueue
    <2> QED BY <1>3, <2>2, <2>3 DEF TypeOK, WebhookEnqueue
<1>4. ASSUME NEW e \in Events, WebhookEnqueueFails(e) PROVE TypeOK'
    BY <1>4, FaultType DEF TypeOK, WebhookEnqueueFails, tables
<1>5. ASSUME NEW t \in Txns, NEW k \in PollIds, NEW i \in Instances, ClaimPoll(i, t, k)
      PROVE  TypeOK'
    <2>1. [NoJob EXCEPT !.pc = "claimed", !.at = i] \in Jobs
        BY DEF NoJob, Jobs
    <2>2. job' \in [Txns -> [PollIds -> Jobs]]
        BY <1>5, <2>1, SetJobType DEF ClaimPoll
    <2>3. poll' \in [Txns -> [PollIds -> Polls]]
        BY <1>5, SetPollStatusType DEF ClaimPoll
    <2> QED BY <1>5, <2>2, <2>3 DEF TypeOK, ClaimPoll
<1>6. ASSUME NEW t \in Txns, NEW k \in PollIds, Requeue(t, k) PROVE TypeOK'
    <2>1. job' \in [Txns -> [PollIds -> Jobs]]
        BY <1>6, Sentinels, SetJobType DEF Requeue
    <2>2. poll' \in [Txns -> [PollIds -> Polls]]
        BY <1>6, SetPollStatusType DEF Requeue
    <2> QED BY <1>6, <2>1, <2>2 DEF TypeOK, Requeue
<1>7. ASSUME NEW t \in Txns, NEW k \in PollIds, NoClientFails(t, k) PROVE TypeOK'
    <2>1. job' \in [Txns -> [PollIds -> Jobs]]
        BY <1>7, Sentinels, SetJobType DEF NoClientFails
    <2>2. poll' \in [Txns -> [PollIds -> Polls]]
        BY <1>7, SetPollStatusType DEF NoClientFails
    <2> QED BY <1>7, <2>1, <2>2 DEF TypeOK, NoClientFails
<1>8. ASSUME NEW t \in Txns, NEW k \in PollIds, AskGateway(t, k) PROVE TypeOK'
    <2>1. PICK a \in Answers :
              SetJob(t, k, [job[t][k] EXCEPT !.pc = "answered", !.ans = a])
        BY <1>8 DEF AskGateway
    <2>2. [job[t][k] EXCEPT !.pc = "answered", !.ans = a] \in Jobs
        <3>1. job[t][k].pc = "claimed"
            BY <1>8 DEF AskGateway, Busy
        <3>2. job[t][k] \in Jobs
            BY <1>8, JobFields
        <3> QED BY <3>1, <3>2 DEF Jobs
    <2>3. job' \in [Txns -> [PollIds -> Jobs]]
        BY <2>1, <2>2, SetJobType
    <2> QED BY <1>8, <2>3 DEF TypeOK, AskGateway, tables
<1>9. ASSUME NEW t \in Txns, NEW k \in PollIds, RecordError(t, k) PROVE TypeOK'
    <2>1. AfterAttempt(t, k, "polling_exhausted_gateway_error") \in Jobs
        BY <1>9, AfterAttemptType DEF RecordError, Busy, Reasons
    <2>2. job' \in [Txns -> [PollIds -> Jobs]]
        BY <1>9, <2>1, SetJobType DEF RecordError
    <2>3. poll' \in [Txns -> [PollIds -> Polls]] /\ faults' \in 0..MaxFaults
        <3>1. CASE SetPollStatus(t, k, "failed") /\ UNCHANGED faults
            BY <3>1, SetPollStatusType DEF TypeOK
        <3>2. CASE Fault /\ UNCHANGED poll
            BY <3>2, FaultType DEF TypeOK
        <3> QED BY <1>9, <3>1, <3>2 DEF RecordError
    <2> QED BY <1>9, <2>2, <2>3 DEF TypeOK, RecordError
<1>10. ASSUME NEW t \in Txns, NEW k \in PollIds, RecordAnswer(t, k) PROVE TypeOK'
    <2>1. [job[t][k] EXCEPT !.pc = "recorded"] \in Jobs
        BY <1>10, JobFields DEF RecordAnswer, Busy, Jobs
    <2>2. job' \in [Txns -> [PollIds -> Jobs]]
        BY <1>10, <2>1, SetJobType DEF RecordAnswer
    <2>3. poll' \in [Txns -> [PollIds -> Polls]]
        BY <1>10, SetPollStatusType DEF RecordAnswer
    <2>4. done' \in [Txns -> Seq(Answers)]
        BY <1>10, JobFields DEF RecordAnswer, Busy, TypeOK
    <2> QED BY <1>10, <2>2, <2>3, <2>4 DEF TypeOK, RecordAnswer
<1>11. ASSUME NEW t \in Txns, NEW k \in PollIds, Judge(t, k) PROVE TypeOK'
    <2>1. Verdict(t, k, TRUE) \in Jobs /\ Verdict(t, k, FALSE) \in Jobs
        BY <1>11, VerdictType DEF Judge, Busy
    <2>2. job' \in [Txns -> [PollIds -> Jobs]]
        BY <1>11, <2>1, SetJobType DEF Judge
    <2>3. faults' \in 0..MaxFaults
        BY <1>11, FaultType DEF Judge, TypeOK
    <2> QED BY <1>11, <2>2, <2>3 DEF TypeOK, Judge, tables
<1>12. ASSUME NEW t \in Txns, NEW k \in PollIds, ScheduleNextPoll(t, k) PROVE TypeOK'
    <2>1. poll[t][k].attempt + 1 \in Nat
        BY JobFields
    <2>2. /\ poll' \in [Txns -> [PollIds -> Polls]]
          /\ used' \in [Txns -> 0..MaxPolls]
        BY <1>12, <2>1, InsertPollType DEF ScheduleNextPoll
    <2>3. job' \in [Txns -> [PollIds -> Jobs]]
        BY <1>12, Sentinels, SetJobType DEF ScheduleNextPoll
    <2> QED BY <1>12, <2>2, <2>3 DEF TypeOK, ScheduleNextPoll
<1>13. ASSUME NEW t \in Txns, NEW k \in PollIds, Settle(t, k) PROVE TypeOK'
    <2>1. job[t][k].outcome \in Outcomes
        BY <1>13, JobFields DEF Settle, Busy
    <2>2. /\ hold' \in [Txns -> Statuses]
          /\ ledger' \in [Txns -> Seq(Transitions)]
          /\ outbox' \in [Txns -> Seq(Callbacks)]
        BY <1>13, <2>1, ConcludeType DEF Settle
    <2>3. job' \in [Txns -> [PollIds -> Jobs]]
        BY <1>13, Sentinels, SetJobType DEF Settle
    <2> QED BY <1>13, <2>2, <2>3 DEF TypeOK, Settle
<1>14. ASSUME NEW t \in Txns, NEW k \in PollIds, JobFails(t, k) PROVE TypeOK'
    <2>1. job' \in [Txns -> [PollIds -> Jobs]]
        BY <1>14, Sentinels, SetJobType DEF JobFails
    <2> QED BY <1>14, <2>1, FaultType DEF TypeOK, JobFails, tables
<1>15. ASSUME NEW i \in Instances, TtlStep(i) PROVE TypeOK'
    <2>1. CASE TtlClaim(i)
        <3>1. PICK S \in SUBSET ExpiredHolds : scanner' = [scanner EXCEPT ![i].todo = S]
            BY <2>1 DEF TtlClaim
        <3>2. S \subseteq Txns /\ scanner[i] = NoScan
            BY <2>1 DEF TtlClaim, ExpiredHolds
        <3>3. [scanner[i] EXCEPT !.todo = S] \in Scans
            BY <3>2 DEF NoScan, Scans
        <3>4. scanner' \in [Instances -> Scans]
            BY <3>1, <3>3 DEF TypeOK
        <3> QED BY <2>1, <3>4 DEF TypeOK, TtlClaim, tables
    <2>2. ASSUME NEW t \in Txns, TtlCheck(i, t) PROVE TypeOK'
        <3>1. scanner[i] \in Scans
            BY DEF TypeOK
        <3>2. PICK a \in IF t \in NoClient THEN {"error"} ELSE Answers :
                  /\ scanner' = [scanner EXCEPT ![i] =
                                    [todo |-> @.todo \ {t}, cur |-> t, ans |-> a]]
                  /\ finalSeen' = IF hold[t] \in Open
                                  THEN [finalSeen EXCEPT ![t] = @ \cup {a}] ELSE finalSeen
            BY <2>2 DEF TtlCheck
        <3>3. a \in Answers
            BY <3>2, ConstantsOK
        <3>4. [todo |-> scanner[i].todo \ {t}, cur |-> t, ans |-> a] \in Scans
            BY <3>1, <3>3 DEF Scans
        <3>5. scanner' \in [Instances -> Scans]
            BY <3>2, <3>4 DEF TypeOK
        <3>6. finalSeen' \in [Txns -> SUBSET Answers]
            BY <3>2, <3>3 DEF TypeOK
        <3> QED BY <2>2, <3>5, <3>6 DEF TypeOK, TtlCheck, tables
    <2>3. CASE TtlSettle(i)
        <3>1. scanner[i] \in Scans /\ scanner[i].cur # NoTxn
            BY <2>3 DEF TypeOK, TtlSettle
        <3>2. scanner[i].cur \in Txns /\ TtlOutcome(scanner[i].ans) \in Outcomes
            BY <3>1 DEF Scans, TtlOutcome, Outcome, Outcomes, Terminal, Reasons
        <3>3. /\ hold' \in [Txns -> Statuses]
              /\ ledger' \in [Txns -> Seq(Transitions)]
              /\ outbox' \in [Txns -> Seq(Callbacks)]
              /\ faults' \in 0..MaxFaults
            <4>1. CASE Conclude(scanner[i].cur, TtlOutcome(scanner[i].ans)) /\ UNCHANGED faults
                BY <4>1, <3>2, ConcludeType DEF TypeOK
            <4>2. CASE Fault /\ UNCHANGED <<hold, ledger, outbox>>
                BY <4>2, FaultType DEF TypeOK
            <4> QED BY <2>3, <4>1, <4>2 DEF TtlSettle
        <3>4. [scanner[i] EXCEPT !.cur = NoTxn, !.ans = "none"] \in Scans
            BY <3>1 DEF Scans
        <3>5. scanner' \in [Instances -> Scans]
            BY <2>3, <3>4 DEF TypeOK, TtlSettle
        <3> QED BY <2>3, <3>3, <3>5 DEF TypeOK, TtlSettle
    <2> QED BY <1>15, <2>1, <2>2, <2>3 DEF TtlStep
<1>16. ASSUME NEW i \in Instances, Crash(i) PROVE TypeOK'
    <2>1. scanner' \in [Instances -> Scans]
        BY <1>16, Sentinels DEF TypeOK, Crash
    <2>2. handler' \in [Events -> Instances \cup {NoInst}]
        BY <1>16 DEF TypeOK, Crash
    <2>3. job' \in [Txns -> [PollIds -> Jobs]]
        BY <1>16, Sentinels DEF TypeOK, Crash
    <2> QED BY <1>16, <2>1, <2>2, <2>3, FaultType DEF TypeOK, Crash, tables
<1>17. CASE UNCHANGED vars
    BY <1>17 DEF TypeOK, vars
<1> QED
    BY <1>1, <1>2, <1>3, <1>4, <1>5, <1>6, <1>7, <1>8, <1>9, <1>10, <1>11, <1>12,
       <1>13, <1>14, <1>15, <1>16, <1>17 DEF Next, JobStep

(***************************************************************************)
(* Type correctness of the whole service: statuses stay among those the    *)
(* schema knows, and a goroutine or scanner that is about to write a       *)
(* verdict always has one.                                                 *)
(***************************************************************************)
THEOREM TypeCorrect == Spec => []TypeOK
BY TypeInit, TypeStep, PTL DEF Spec

-------------------------------------------------------------------------------
(* Agreement of the three tables about one transaction. *)
OneOutcomeOf(t) ==
    IF hold[t] \in Terminal
    THEN /\ Len(ledger[t]) = 1 /\ Len(outbox[t]) = 1
         /\ ledger[t][1].from \in Open
         /\ ledger[t][1].to = hold[t]
         /\ outbox[t][1].event = hold[t]
    ELSE ledger[t] = <<>> /\ outbox[t] = <<>>

LEMMA OneOutcomeByTxn == OneOutcome <=> \A t \in Txns : OneOutcomeOf(t)
BY DEF OneOutcome, OneOutcomeOf

(* A step that leaves the three tables alone keeps their agreement. *)
LEMMA OneOutcomeFrame == OneOutcome /\ UNCHANGED <<hold, ledger, outbox>> => OneOutcome'
BY DEF OneOutcome

(***************************************************************************)
(* The transaction every verdict goes through keeps holds, ledger and      *)
(* outbox in agreement, whoever runs it and whatever was decided before:   *)
(* it sees the hold open and writes the first transition and the first     *)
(* callback, or it writes nothing.                                         *)
(***************************************************************************)
LEMMA ConcludeOneOutcome ==
    ASSUME TypeOK, OneOutcome, NEW t \in Txns, NEW o \in Outcomes, Conclude(t, o)
    PROVE  OneOutcome'
<1>1. CASE UNCHANGED <<hold, ledger, outbox>>
    BY <1>1, OneOutcomeFrame
<1>2. CASE /\ hold[t] \in Open
           /\ hold' = [hold EXCEPT ![t] = o.to]
           /\ ledger' = [ledger EXCEPT ![t] =
                            Append(@, [from |-> hold[t], to |-> o.to, reason |-> o.reason])]
           /\ outbox' = [outbox EXCEPT ![t] = Append(@, CallbackKey(o))]
    <2>1. o.to \in Terminal
        BY DEF Outcomes
    <2>2. ledger[t] = <<>> /\ outbox[t] = <<>>
        BY <1>2 DEF OneOutcome, Open, Terminal
    <2>3. /\ hold'[t] = o.to
          /\ ledger'[t] = <<[from |-> hold[t], to |-> o.to, reason |-> o.reason]>>
          /\ outbox'[t] = <<CallbackKey(o)>>
        BY <1>2, <2>2 DEF TypeOK
    <2>4. OneOutcomeOf(t)'
        <3>1. Len(ledger'[t]) = 1 /\ Len(outbox'[t]) = 1
            BY <2>3
        <3>2. ledger'[t][1].from \in Open /\ ledger'[t][1].to = o.to
            <4>1. ledger'[t][1] = [from |-> hold[t], to |-> o.to, reason |-> o.reason]
                BY <2>3
            <4>2. hold[t] \in Open
                BY <1>2
            <4> QED BY <4>1, <4>2
        <3>3. outbox'[t][1].event = o.to
            BY <2>3 DEF CallbackKey
        <3> QED BY <2>1, <2>3, <3>1, <3>2, <3>3 DEF OneOutcomeOf
    <2>5. ASSUME NEW u \in Txns, u # t PROVE OneOutcomeOf(u)'
        <3>1. hold'[u] = hold[u] /\ ledger'[u] = ledger[u] /\ outbox'[u] = outbox[u]
            BY <1>2, <2>5 DEF TypeOK
        <3> QED BY <3>1, OneOutcomeByTxn DEF OneOutcomeOf
    <2> QED BY <2>4, <2>5 DEF OneOutcome, OneOutcomeOf
<1> QED BY <1>1, <1>2 DEF Conclude

(* The outcome a TTL scanner is about to write is one. *)
LEMMA TtlOutcomeType ==
    ASSUME TypeOK, NEW i \in Instances, scanner[i].cur # NoTxn
    PROVE  /\ scanner[i].cur \in Txns /\ scanner[i].ans \in Answers
           /\ TtlOutcome(scanner[i].ans) \in Outcomes
<1>1. scanner[i] \in Scans
    BY DEF TypeOK
<1> QED BY <1>1 DEF Scans, TtlOutcome, Outcome, Outcomes, Terminal, Reasons

LEMMA OneOutcomeStep == TypeOK /\ OneOutcome /\ [Next]_vars => OneOutcome'
<1> SUFFICES ASSUME TypeOK, OneOutcome, [Next]_vars PROVE OneOutcome'
    OBVIOUS
<1>1. ASSUME NEW t \in Txns, CreateHold(t) PROVE OneOutcome'
    <2>1. /\ hold' = [hold EXCEPT ![t] = "PENDING"] /\ hold[t] = "NONE"
          /\ UNCHANGED <<ledger, outbox>>
        BY <1>1 DEF CreateHold
    <2>2. hold'[t] = "PENDING" /\ ledger'[t] = <<>> /\ outbox'[t] = <<>>
        BY <2>1 DEF TypeOK, OneOutcome, Terminal
    <2>3. OneOutcomeOf(t)'
        BY <2>2 DEF OneOutcomeOf, Terminal
    <2>4. ASSUME NEW u \in Txns, u # t PROVE OneOutcomeOf(u)'
        <3>1. hold'[u] = hold[u] /\ ledger'[u] = ledger[u] /\ outbox'[u] = outbox[u]
            BY <2>1, <2>4 DEF TypeOK
        <3> QED BY <3>1, OneOutcomeByTxn DEF OneOutcomeOf
    <2> QED BY <2>3, <2>4 DEF OneOutcome, OneOutcomeOf
<1>2. ASSUME NEW t \in Txns, NEW k \in PollIds, Settle(t, k) PROVE OneOutcome'
    <2>1. job[t][k].outcome \in Outcomes
        BY <1>2, JobFields DEF Settle, Busy
    <2> QED BY <1>2, <2>1, ConcludeOneOutcome DEF Settle
<1>3. ASSUME NEW i \in Instances, TtlSettle(i) PROVE OneOutcome'
    <2>1. CASE Conclude(scanner[i].cur, TtlOutcome(scanner[i].ans))
        BY <1>3, <2>1, TtlOutcomeType, ConcludeOneOutcome DEF TtlSettle
    <2>2. CASE UNCHANGED <<hold, ledger, outbox>>
        BY <2>2, OneOutcomeFrame
    <2> QED BY <1>3, <2>1, <2>2 DEF TtlSettle
<1>4. ASSUME NEW t \in Txns, NEW k \in PollIds,
             \/ \E i \in Instances : ClaimPoll(i, t, k)
             \/ Requeue(t, k) \/ NoClientFails(t, k) \/ AskGateway(t, k)
             \/ RecordError(t, k) \/ RecordAnswer(t, k) \/ Judge(t, k)
             \/ ScheduleNextPoll(t, k) \/ JobFails(t, k)
      PROVE  UNCHANGED <<hold, ledger, outbox>>
    BY <1>4 DEF ClaimPoll, Requeue, NoClientFails, AskGateway, RecordError, RecordAnswer,
                Judge, ScheduleNextPoll, JobFails, tables
<1>5. ASSUME NEW i \in Instances,
             \/ Crash(i) \/ TtlClaim(i) \/ \E t \in Txns : TtlCheck(i, t)
             \/ \E e \in Events : WebhookInsert(i, e)
      PROVE  UNCHANGED <<hold, ledger, outbox>>
    BY <1>5 DEF Crash, TtlClaim, TtlCheck, WebhookInsert, tables
<1>6. ASSUME NEW e \in Events, WebhookEnqueue(e) \/ WebhookEnqueueFails(e)
      PROVE  UNCHANGED <<hold, ledger, outbox>>
    BY <1>6 DEF WebhookEnqueue, WebhookEnqueueFails, tables
<1>7. ASSUME NEW t \in Txns, HoldExpires(t) PROVE UNCHANGED <<hold, ledger, outbox>>
    BY <1>7 DEF HoldExpires
<1>8. CASE UNCHANGED vars
    BY <1>8, OneOutcomeFrame DEF vars
<1> QED
    BY <1>1, <1>2, <1>3, <1>4, <1>5, <1>6, <1>7, <1>8, OneOutcomeFrame
    DEF Next, JobStep, TtlStep

(***************************************************************************)
(* holds, ledger and outbox agree: at most one outcome, one transition and *)
(* one callback per hold, for any number of instances, poll chains and TTL *)
(* scanners, with crashes and failed statements.                           *)
(***************************************************************************)
THEOREM AtMostOneOutcome == Spec => []OneOutcome
<1>1. Init => OneOutcome
    BY DEF Init, OneOutcome, Terminal
<1> QED BY <1>1, TypeInit, TypeStep, OneOutcomeStep, PTL DEF Spec
===============================================================================
