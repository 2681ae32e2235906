------------------------------ MODULE Stabilizer ------------------------------
(***************************************************************************)
(* The core of Paystable: webhook ingestion, the polling stabilizer and    *)
(* the TTL scanner, which together decide the outcome of every hold.       *)
(*                                                                         *)
(* Durable state is the Postgres tables (holds, webhooks,                  *)
(* verification_polls, ledger, outbox); one action is one SQL statement or *)
(* one transaction, so everything another goroutine or another instance of *)
(* the binary can do in between is explored.  Volatile state is the        *)
(* goroutines: HTTP handlers, one goroutine per claimed poll, one TTL      *)
(* scanner per instance.  A crash loses all volatile state of an instance. *)
(*                                                                         *)
(* The gateway is external: every status call may answer anything.  The    *)
(* schedule (scheduled_at) is abstracted: a pending poll is due at any     *)
(* time.  completed_at order is the order in which results are recorded.   *)
(***************************************************************************)
EXTENDS Integers, Sequences, FiniteSets

CONSTANTS
    Txns,        \* transaction ids
    Instances,   \* running instances of the binary
    Events,      \* gateway webhook events, by their event id
    TxnOf,       \* the transaction an event is about
    NoClient,    \* transactions whose gateway has no client configured
    Answers,     \* what a gateway status call may return
    N,           \* STABILIZATION_N
    Window,      \* completed polls a streak query reads (LIMIT 20)
    Batch,       \* holds one TTL scan claims (LIMIT 10)
    MaxPolls,    \* bound: poll rows per transaction
    MaxFaults,   \* bound: crashes and failed database statements
    NoInst,      \* no instance
    NoTxn        \* no transaction

(* An answer is what the code can tell apart: a success with the hold's    *)
(* amount or another one, a failure in lower case or in another case, any  *)
(* other status, and a failed or timed out call.                           *)
AnswerKinds == {"success", "other_amount", "failed", "FAILED", "pending", "error"}

ASSUME ConstantsOK ==
    /\ Events # {} /\ TxnOf \in [Events -> Txns]
    /\ NoClient \subseteq Txns
    /\ Answers \subseteq AnswerKinds /\ "error" \in Answers
    /\ N \in Nat \ {0} /\ Window \in Nat \ {0} /\ Batch \in Nat \ {0}
    /\ MaxPolls \in Nat /\ MaxFaults \in Nat
    /\ NoInst \notin Instances /\ NoTxn \notin Txns

VARIABLES
    hold,      \* holds.status, "NONE" before the row exists
    expired,   \* holds.expires_at <= now()
    seen,      \* webhooks: event ids persisted
    poll,      \* verification_polls, by transaction and insertion order
    used,      \* number of poll rows of a transaction
    done,      \* answers of the completed polls, ordered by completed_at
    ledger,    \* state_transition rows
    outbox,    \* callbacks queued for the merchant
    handler,   \* the instance serving a webhook between its two statements
    job,       \* goroutine of a claimed poll
    scanner,   \* TTL scanner of each instance
    finalSeen, \* history: answers of the TTL scanner's checks of the open hold
    faults     \* faults injected so far

tables == <<hold, expired, seen, poll, used, done, ledger, outbox>>
vars == <<hold, expired, seen, poll, used, done, ledger, outbox,
          handler, job, scanner, finalSeen, faults>>

PollIds == 1..MaxPolls

Open     == {"PENDING", "VERIFYING"}
Terminal == {"CONFIRMED", "FAILED", "REFUNDED", "INDETERMINATE", "MISMATCH"}
Statuses == {"NONE"} \cup Open \cup Terminal

Matching == {"success"}            \* isSuccessStatus and the hold's amount
Failing  == {"failed", "FAILED"}   \* isFailureStatus normalises the case

Reasons == {"success_observed", "amount_mismatch", "stable_gateway_failure",
            "ttl_expired_verified_failed", "polling_exhausted_gateway_error",
            "polling_exhausted_no_consensus"}
Outcome(to, reason) == [to |-> to, reason |-> reason]
Outcomes == [to : Terminal, reason : Reasons]

NoPoll    == [status |-> "none", attempt |-> 0]
NoOutcome == [to |-> "NONE", reason |-> "none"]
NoJob     == [pc |-> "idle", at |-> NoInst, ans |-> "none", outcome |-> NoOutcome]
NoScan    == [todo |-> {}, cur |-> NoTxn, ans |-> "none"]

-------------------------------------------------------------------------------
(***************************************************************************)
(* The transaction every verdict goes through: SELECT ... FOR UPDATE, an   *)
(* early return on a terminal status, UPDATE holds (guarded again by the   *)
(* transition trigger), INSERT ledger, INSERT outbox (unique key), COMMIT. *)
(***************************************************************************)

(* enforce_hold_transitions *)
TriggerAllows(from, to) ==
    from \in Terminal => (from = "CONFIRMED" /\ to = "REFUNDED")

(* Only a failure's key carries its reason. *)
CallbackKey(o) ==
    [event |-> o.to, suffix |-> IF o.to = "FAILED" THEN o.reason ELSE "none"]

KeyTaken(t, o) == \E i \in DOMAIN outbox[t] : outbox[t][i] = CallbackKey(o)

(* Wrong variant: UPDATE ... WHERE status is open, and the number of rows it *)
(* touched is not looked at before the two INSERTs.                          *)
ConcludeRowsUnchecked(t, o) ==
    /\ hold' = IF hold[t] \in Open THEN [hold EXCEPT ![t] = o.to] ELSE hold
    /\ ledger' = [ledger EXCEPT ![t] =
                     Append(@, [from |-> hold[t], to |-> o.to, reason |-> o.reason])]
    /\ outbox' = [outbox EXCEPT ![t] = Append(@, CallbackKey(o))]

Conclude(t, o) ==
    IF hold[t] \in Open /\ TriggerAllows(hold[t], o.to) /\ ~KeyTaken(t, o)
    THEN /\ hold' = [hold EXCEPT ![t] = o.to]
         /\ ledger' = [ledger EXCEPT ![t] =
                          Append(@, [from |-> hold[t], to |-> o.to, reason |-> o.reason])]
         /\ outbox' = [outbox EXCEPT ![t] = Append(@, CallbackKey(o))]
    ELSE UNCHANGED <<hold, ledger, outbox>>

(* A new verification_polls row; MaxPolls bounds the table. *)
InsertPoll(t, attempt) ==
    /\ used[t] < MaxPolls
    /\ used' = [used EXCEPT ![t] = @ + 1]
    /\ poll' = [poll EXCEPT ![t][used[t] + 1] =
                   [status |-> "pending", attempt |-> attempt]]

Fault == faults < MaxFaults /\ faults' = faults + 1

-------------------------------------------------------------------------------
(* POST /api/v1/hold.  A repeated create finds the row and changes nothing. *)
CreateHold(t) ==
    /\ hold[t] = "NONE"
    /\ hold' = [hold EXCEPT ![t] = "PENDING"]
    /\ UNCHANGED <<expired, seen, poll, used, done, ledger, outbox,
                   handler, job, scanner, finalSeen, faults>>

(* Time reaches expires_at; on a resolved hold nothing reads it. *)
HoldExpires(t) ==
    /\ hold[t] \in Open /\ ~expired[t]
    /\ expired' = [expired EXCEPT ![t] = TRUE]
    /\ UNCHANGED <<hold, seen, poll, used, done, ledger, outbox,
                   handler, job, scanner, finalSeen, faults>>

-------------------------------------------------------------------------------
(***************************************************************************)
(* Webhook ingestion: a verified event is stored by one statement (a known *)
(* event id inserts nothing and the handler returns at once), and a second *)
(* statement enqueues the first poll if the hold exists.                   *)
(***************************************************************************)
(* Wrong variant: an insert without ON CONFLICT DO NOTHING. *)
WebhookInsertNoDedup(i, e) ==
    /\ handler[e] = NoInst
    /\ seen' = seen \cup {e}
    /\ handler' = [handler EXCEPT ![e] = i]
    /\ UNCHANGED <<hold, expired, poll, used, done, ledger, outbox,
                   job, scanner, finalSeen, faults>>

WebhookInsert(i, e) ==
    /\ e \notin seen
    /\ seen' = seen \cup {e}
    /\ handler' = [handler EXCEPT ![e] = i]
    /\ UNCHANGED <<hold, expired, poll, used, done, ledger, outbox,
                   job, scanner, finalSeen, faults>>

WebhookEnqueue(e) ==
    LET t == TxnOf[e] IN
    /\ handler[e] # NoInst
    /\ handler' = [handler EXCEPT ![e] = NoInst]
    /\ IF hold[t] # "NONE" THEN InsertPoll(t, 1) ELSE UNCHANGED <<poll, used>>
    /\ UNCHANGED <<hold, expired, seen, done, ledger, outbox,
                   job, scanner, finalSeen, faults>>

(* The second statement fails: logged, and the gateway still gets its 200. *)
WebhookEnqueueFails(e) ==
    /\ handler[e] # NoInst
    /\ Fault
    /\ handler' = [handler EXCEPT ![e] = NoInst]
    /\ UNCHANGED <<tables, job, scanner, finalSeen>>

-------------------------------------------------------------------------------
(***************************************************************************)
(* The poll worker.  A claim is a committed transaction of its own (a      *)
(* batch of up to ten rows is ten of these claims in a row); the goroutine *)
(* that processes the row starts after it.                                 *)
(***************************************************************************)
Busy(t, k, pc) == job[t][k].pc = pc

SetJob(t, k, j)         == job' = [job EXCEPT ![t][k] = j]
SetPollStatus(t, k, st) == poll' = [poll EXCEPT ![t][k].status = st]

(* Wrong variant: a status chk_poll_status does not know. *)
ClaimPollMisspelt(i, t, k) ==
    /\ poll[t][k].status = "pending"
    /\ SetPollStatus(t, k, "inflight")
    /\ SetJob(t, k, [NoJob EXCEPT !.pc = "claimed", !.at = i])
    /\ UNCHANGED <<hold, expired, seen, used, done, ledger, outbox,
                   handler, scanner, finalSeen, faults>>

ClaimPoll(i, t, k) ==
    /\ poll[t][k].status = "pending"
    /\ SetPollStatus(t, k, "in_flight")
    /\ SetJob(t, k, [NoJob EXCEPT !.pc = "claimed", !.at = i])
    /\ UNCHANGED <<hold, expired, seen, used, done, ledger, outbox,
                   handler, scanner, finalSeen, faults>>

(* Wrong variant: an early return that leaves the row in_flight. *)
RequeueForgotten(t, k) ==
    /\ Busy(t, k, "claimed")
    /\ SetJob(t, k, NoJob)
    /\ UNCHANGED <<tables, handler, scanner, finalSeen, faults>>

(* No token (rate_limited) or AcquireToken failed: back to pending. *)
Requeue(t, k) ==
    /\ Busy(t, k, "claimed")
    /\ SetPollStatus(t, k, "pending")
    /\ SetJob(t, k, NoJob)
    /\ UNCHANGED <<hold, expired, seen, used, done, ledger, outbox,
                   handler, scanner, finalSeen, faults>>

(* A token was taken, but nothing can ask this gateway: the chain ends. *)
NoClientFails(t, k) ==
    /\ Busy(t, k, "claimed") /\ t \in NoClient
    /\ SetPollStatus(t, k, "failed")
    /\ SetJob(t, k, NoJob)
    /\ UNCHANGED <<hold, expired, seen, used, done, ledger, outbox,
                   handler, scanner, finalSeen, faults>>

AskGateway(t, k) ==
    /\ Busy(t, k, "claimed") /\ t \notin NoClient
    /\ \E a \in Answers :
          SetJob(t, k, [job[t][k] EXCEPT !.pc = "answered", !.ans = a])
    /\ UNCHANGED <<tables, handler, scanner, finalSeen, faults>>

(* The goroutine leaves its answer behind: with another poll to schedule, *)
(* or with an outcome to write.                                           *)
GoOn(t, k) == [job[t][k] EXCEPT !.pc = "next", !.ans = "none"]

Decide(t, k, to, reason) ==
    [job[t][k] EXCEPT !.pc = "settle", !.ans = "none", !.outcome = Outcome(to, reason)]

(* Wrong variant: the chain never gives up. *)
AfterAttemptForever(t, k, reason) == GoOn(t, k)

(* Below N attempts the chain goes on; at N it gives up on the hold. *)
AfterAttempt(t, k, reason) ==
    IF poll[t][k].attempt < N THEN GoOn(t, k) ELSE Decide(t, k, "INDETERMINATE", reason)

(* The call failed.  Marking the row failed may itself fail: that is       *)
(* logged, the row stays in_flight, and the goroutine goes on.             *)
RecordError(t, k) ==
    /\ Busy(t, k, "answered") /\ job[t][k].ans = "error"
    /\ \/ SetPollStatus(t, k, "failed") /\ UNCHANGED faults
       \/ Fault /\ UNCHANGED poll
    /\ SetJob(t, k, AfterAttempt(t, k, "polling_exhausted_gateway_error"))
    /\ UNCHANGED <<hold, expired, seen, used, done, ledger, outbox,
                   handler, scanner, finalSeen>>

RecordAnswer(t, k) ==
    /\ Busy(t, k, "answered") /\ job[t][k].ans # "error"
    /\ SetPollStatus(t, k, "completed")
    /\ done' = [done EXCEPT ![t] = Append(@, job[t][k].ans)]
    /\ SetJob(t, k, [job[t][k] EXCEPT !.pc = "recorded"])
    /\ UNCHANGED <<hold, expired, seen, used, ledger, outbox,
                   handler, scanner, finalSeen, faults>>

(* Wrong variant: N matching polls, consecutive or not. *)
StreakAnywhere(t, kind) ==
    Cardinality({j \in DOMAIN done[t] : done[t][j] \in kind}) >= N

(* Wrong variant: the query reads one row fewer than it has to. *)
StreakShort(t, kind) ==
    /\ N <= Window - 1 /\ N <= Len(done[t])
    /\ \A j \in Len(done[t]) - N + 1 .. Len(done[t]) : done[t][j] \in kind

(* completedStreak(...) >= N: the N latest completed polls of the hold,    *)
(* whichever chain they belong to, all match; the query reads Window rows. *)
Streak(t, kind) ==
    /\ N <= Window /\ N <= Len(done[t])
    /\ \A j \in Len(done[t]) - N + 1 .. Len(done[t]) : done[t][j] \in kind

(* What processPoll does with a recorded answer.  blind: the streak query  *)
(* failed, which counts as a streak of zero.                               *)
Verdict(t, k, blind) ==
    LET a == job[t][k].ans
        stable(kind) == ~blind /\ Streak(t, kind)
    IN CASE a \in Matching /\ stable(Matching) -> Decide(t, k, "CONFIRMED", "success_observed")
         [] a \in Matching /\ ~stable(Matching) -> GoOn(t, k)
         [] a = "other_amount" -> Decide(t, k, "MISMATCH", "amount_mismatch")
         [] a \in Failing /\ stable(Failing) -> Decide(t, k, "FAILED", "stable_gateway_failure")
         [] OTHER -> AfterAttempt(t, k, "polling_exhausted_no_consensus")

Judge(t, k) ==
    /\ Busy(t, k, "recorded")
    /\ \/ SetJob(t, k, Verdict(t, k, FALSE)) /\ UNCHANGED faults
       \/ Fault /\ SetJob(t, k, Verdict(t, k, TRUE))
    /\ UNCHANGED <<tables, handler, scanner, finalSeen>>

ScheduleNextPoll(t, k) ==
    /\ Busy(t, k, "next")
    /\ InsertPoll(t, poll[t][k].attempt + 1)
    /\ SetJob(t, k, NoJob)
    /\ UNCHANGED <<hold, expired, seen, done, ledger, outbox,
                   handler, scanner, finalSeen, faults>>

Settle(t, k) ==
    /\ Busy(t, k, "settle")
    /\ Conclude(t, job[t][k].outcome)
    /\ SetJob(t, k, NoJob)
    /\ UNCHANGED <<expired, seen, poll, used, done,
                   handler, scanner, finalSeen, faults>>

(* A statement fails and the goroutine returns with its effect undone; the *)
(* row keeps whatever status it had.                                       *)
JobFails(t, k) ==
    /\ \/ job[t][k].pc \in {"claimed", "next", "settle"}
       \/ Busy(t, k, "answered") /\ job[t][k].ans # "error"
    /\ Fault
    /\ SetJob(t, k, NoJob)
    /\ UNCHANGED <<tables, handler, scanner, finalSeen>>

-------------------------------------------------------------------------------
(***************************************************************************)
(* The TTL scanner of an instance: read up to Batch expired open holds     *)
(* (the query runs outside a transaction, so its row locks are gone when   *)
(* it returns), then one hold after the other: one final gateway check,    *)
(* one transaction.                                                        *)
(***************************************************************************)
(* Wrong variant: the query looks for holds under verification only. *)
ExpiredVerifying == {t \in Txns : hold[t] = "VERIFYING" /\ expired[t]}

ExpiredHolds == {t \in Txns : hold[t] \in Open /\ expired[t]}

TtlClaim(i) ==
    /\ scanner[i] = NoScan /\ ExpiredHolds # {}
    /\ \E S \in SUBSET ExpiredHolds :
          /\ S # {} /\ Cardinality(S) <= Batch
          /\ Cardinality(S) = Batch \/ S = ExpiredHolds
          /\ scanner' = [scanner EXCEPT ![i].todo = S]
    /\ UNCHANGED <<tables, handler, job, finalSeen, faults>>

(* A gateway without a client takes the same branch as a failed call. *)
TtlCheck(i, t) ==
    /\ t \in scanner[i].todo /\ scanner[i].cur = NoTxn
    /\ \E a \in IF t \in NoClient THEN {"error"} ELSE Answers :
          /\ scanner' = [scanner EXCEPT ![i] =
                            [todo |-> @.todo \ {t}, cur |-> t, ans |-> a]]
          /\ finalSeen' = IF hold[t] \in Open
                          THEN [finalSeen EXCEPT ![t] = @ \cup {a}] ELSE finalSeen
    /\ UNCHANGED <<tables, handler, job, faults>>

(* Wrong variant: an expired hold without a confirmed success is released. *)
TtlOutcomeByTimer(a) ==
    CASE a \in Matching     -> Outcome("CONFIRMED", "success_observed")
      [] a = "other_amount" -> Outcome("MISMATCH", "amount_mismatch")
      [] OTHER              -> Outcome("FAILED", "ttl_expired_verified_failed")

(* The switch compares the raw status with "failed": another case is       *)
(* inconclusive here.  Every inconclusive check carries the reason         *)
(* markHoldIndeterminate fills in.                                         *)
TtlOutcome(a) ==
    CASE a \in Matching     -> Outcome("CONFIRMED", "success_observed")
      [] a = "other_amount" -> Outcome("MISMATCH", "amount_mismatch")
      [] a = "failed"       -> Outcome("FAILED", "ttl_expired_verified_failed")
      [] OTHER              -> Outcome("INDETERMINATE", "amount_mismatch")

(* The transaction commits, or fails and is only logged. *)
TtlSettle(i) ==
    /\ scanner[i].cur # NoTxn
    /\ \/ Conclude(scanner[i].cur, TtlOutcome(scanner[i].ans)) /\ UNCHANGED faults
       \/ Fault /\ UNCHANGED <<hold, ledger, outbox>>
    /\ scanner' = [scanner EXCEPT ![i].cur = NoTxn, ![i].ans = "none"]
    /\ UNCHANGED <<expired, seen, poll, used, done, handler, job, finalSeen>>

-------------------------------------------------------------------------------
(* An instance dies and restarts: its goroutines are gone, the tables stay. *)
HasWork(i) ==
    \/ scanner[i] # NoScan
    \/ \E e \in Events : handler[e] = i
    \/ \E t \in Txns, k \in PollIds : job[t][k].at = i

Crash(i) ==
    /\ HasWork(i)
    /\ Fault
    /\ scanner' = [scanner EXCEPT ![i] = NoScan]
    /\ handler' = [e \in Events |-> IF handler[e] = i THEN NoInst ELSE handler[e]]
    /\ job' = [t \in Txns |-> [k \in PollIds |->
                  IF job[t][k].at = i THEN NoJob ELSE job[t][k]]]
    /\ UNCHANGED <<tables, finalSeen>>

-------------------------------------------------------------------------------
Init ==
    /\ hold = [t \in Txns |-> "NONE"]
    /\ expired = [t \in Txns |-> FALSE]
    /\ seen = {}
    /\ poll = [t \in Txns |-> [k \in PollIds |-> NoPoll]]
    /\ used = [t \in Txns |-> 0]
    /\ done = [t \in Txns |-> <<>>]
    /\ ledger = [t \in Txns |-> <<>>]
    /\ outbox = [t \in Txns |-> <<>>]
    /\ handler = [e \in Events |-> NoInst]
    /\ job = [t \in Txns |-> [k \in PollIds |-> NoJob]]
    /\ scanner = [i \in Instances |-> NoScan]
    /\ finalSeen = [t \in Txns |-> {}]
    /\ faults = 0

(* A statement of the goroutine that owns poll k, other than a retry loop. *)
JobStep(t, k) ==
    \/ RecordError(t, k) \/ RecordAnswer(t, k) \/ Judge(t, k)
    \/ ScheduleNextPoll(t, k) \/ Settle(t, k)

TtlStep(i) == TtlClaim(i) \/ TtlSettle(i) \/ \E t \in Txns : TtlCheck(i, t)

Next ==
    \/ \E t \in Txns : CreateHold(t) \/ HoldExpires(t)
    \/ \E e \in Events :
          \/ \E i \in Instances : WebhookInsert(i, e)
          \/ WebhookEnqueue(e) \/ WebhookEnqueueFails(e)
    \/ \E t \in Txns, k \in PollIds :
          \/ \E i \in Instances : ClaimPoll(i, t, k)
          \/ Requeue(t, k) \/ NoClientFails(t, k) \/ AskGateway(t, k)
          \/ JobStep(t, k) \/ JobFails(t, k)
    \/ \E i \in Instances : TtlStep(i) \/ Crash(i)

Spec == Init /\ [][Next]_vars

(***************************************************************************)
(* Fairness.  The clock runs.  The one-second and ten-second tickers of a  *)
(* running binary keep claiming, and a started goroutine runs on: weak     *)
(* fairness.  The token bucket refills, so a poll that is claimed again    *)
(* and again is not refused a token forever: strong fairness of the call.  *)
(* Nothing makes a merchant create a hold, a gateway send a webhook or the *)
(* environment fail.                                                       *)
(***************************************************************************)
Fairness ==
    /\ \A t \in Txns : WF_vars(HoldExpires(t))
    /\ \A e \in Events : WF_vars(WebhookEnqueue(e))
    /\ \A t \in Txns :
          /\ WF_vars(\E k \in PollIds :
                JobStep(t, k) \/ \E i \in Instances : ClaimPoll(i, t, k))
          /\ SF_vars(\E k \in PollIds : NoClientFails(t, k) \/ AskGateway(t, k))
    /\ \A i \in Instances : WF_vars(TtlStep(i))

FairSpec == Spec /\ Fairness

-------------------------------------------------------------------------------
Polls ==
    [status : {"none", "pending", "in_flight", "completed", "failed"}, attempt : Nat]

(* A goroutine holds an answer between the call and the verdict, and an    *)
(* outcome once it has decided.                                            *)
Jobs ==
    LET jobs(pcs, answers, outcomes) ==
            [pc : pcs, at : Instances \cup {NoInst}, ans : answers, outcome : outcomes]
    IN  jobs({"idle", "claimed", "next"}, {"none"}, {NoOutcome})
          \cup jobs({"answered", "recorded"}, Answers, {NoOutcome})
          \cup jobs({"settle"}, {"none"}, Outcomes)

Scans ==
    [todo : SUBSET Txns, cur : {NoTxn}, ans : {"none"}]
      \cup [todo : SUBSET Txns, cur : Txns, ans : Answers]

Transitions == [from : Statuses, to : Terminal, reason : Reasons]
Callbacks   == [event : Terminal, suffix : Reasons \cup {"none"}]

(* Every variable has its type. *)
TypeOK ==
    /\ hold \in [Txns -> Statuses]
    /\ expired \in [Txns -> BOOLEAN]
    /\ seen \subseteq Events
    /\ poll \in [Txns -> [PollIds -> Polls]]
    /\ used \in [Txns -> 0..MaxPolls]
    /\ done \in [Txns -> Seq(Answers)]
    /\ ledger \in [Txns -> Seq(Transitions)]
    /\ outbox \in [Txns -> Seq(Callbacks)]
    /\ handler \in [Events -> Instances \cup {NoInst}]
    /\ job \in [Txns -> [PollIds -> Jobs]]
    /\ scanner \in [Instances -> Scans]
    /\ finalSeen \in [Txns -> SUBSET Answers]
    /\ faults \in 0..MaxFaults

(***************************************************************************)
(* holds, ledger and outbox agree.  However many poll chains, TTL scanners *)
(* and instances reach a verdict about the same hold, an open hold has no  *)
(* transition and no callback, and a resolved one has exactly one of each, *)
(* both naming the hold's status.                                          *)
(***************************************************************************)
OneOutcome ==
    \A t \in Txns :
        IF hold[t] \in Terminal
        THEN /\ Len(ledger[t]) = 1 /\ Len(outbox[t]) = 1
             /\ ledger[t][1].from \in Open
             /\ ledger[t][1].to = hold[t]
             /\ outbox[t][1].event = hold[t]
        ELSE ledger[t] = <<>> /\ outbox[t] = <<>>

(* N consecutive completed polls of the hold gave an answer of this kind. *)
Agreed(t, kind) ==
    \E i \in 0 .. Len(done[t]) - N : \A j \in i + 1 .. i + N : done[t][j] \in kind

Grounded(t, o) ==
    CASE o = "CONFIRMED" -> Agreed(t, Matching) \/ "success" \in finalSeen[t]
      [] o = "FAILED"    -> Agreed(t, Failing) \/ "failed" \in finalSeen[t]
      [] o = "MISMATCH"  -> \/ \E j \in DOMAIN done[t] : done[t][j] = "other_amount"
                            \/ "other_amount" \in finalSeen[t]
      [] o = "INDETERMINATE" -> \/ \E k \in PollIds : poll[t][k].attempt >= N
                                \/ finalSeen[t] \cap {"error", "pending", "FAILED"} # {}

Grounds(t) ==
    {o \in {"CONFIRMED", "FAILED", "INDETERMINATE", "MISMATCH"} : Grounded(t, o)}

(* Rows are inserted one after the other, and only a row has a goroutine. *)
RowsInOrder ==
    \A t \in Txns, k \in PollIds :
        k > used[t] => poll[t][k] = NoPoll /\ job[t][k] = NoJob

(* Nothing is scheduled or scanned for a hold that does not exist. *)
NothingBeforeCreate ==
    \A t \in Txns : hold[t] = "NONE" =>
        /\ ~expired[t] /\ used[t] = 0
        /\ \A i \in Instances : t \notin scanner[i].todo /\ scanner[i].cur # t

VerdictsGrounded ==
    \A t \in Txns :
        /\ \A k \in PollIds :
              /\ Busy(t, k, "settle") => job[t][k].outcome.to \in Grounds(t)
              /\ Busy(t, k, "recorded") =>
                    \E j \in DOMAIN done[t] : done[t][j] = job[t][k].ans
        /\ \A i \in Instances :
              scanner[i].cur = t /\ hold[t] \in Open => scanner[i].ans \in finalSeen[t]

(***************************************************************************)
(* A verdict is reached in one statement and written in a later one, with  *)
(* other chains, scanners and crashes in between.  Every verdict that is   *)
(* still on its way is supported by evidence the tables hold by now, and   *)
(* no verdict is on its way about a hold nobody created.                   *)
(***************************************************************************)
Justified == RowsInOrder /\ NothingBeforeCreate /\ VerdictsGrounded

(***************************************************************************)
(* The service implements HoldLifecycle: a hold is resolved at most once,  *)
(* together with its one notice, and only to an outcome the recorded       *)
(* evidence supports: a hold is CONFIRMED or FAILED only after N           *)
(* consecutive agreeing polls or a final check that said so, MISMATCH only *)
(* after a success with another amount, INDETERMINATE only after a chain   *)
(* reached its N-th attempt or an inconclusive final check.  In between    *)
(* may lie crashes, lost statements, other chains and other instances.     *)
(***************************************************************************)
Lifecycle == INSTANCE HoldLifecycle WITH
    grounds <- [t \in Txns |-> Grounds(t)],
    notices <- [t \in Txns |-> [i \in DOMAIN outbox[t] |-> outbox[t][i].event]]

RefinesHoldLifecycle == Lifecycle!Spec

(***************************************************************************)
(* A poll row is in_flight only while a goroutine is working on it, unless *)
(* a crash or a failed statement broke the goroutine off (nothing reclaims *)
(* such a row).                                                            *)
(***************************************************************************)
OnlyFaultsStrandPolls ==
    faults = 0 =>
        \A t \in Txns, k \in PollIds :
            poll[t][k].status = "in_flight" => job[t][k].pc \in {"claimed", "answered"}

(* A poll that will still run, or whose goroutine will still schedule another. *)
Live(t, k) == poll[t][k].status = "pending" \/ job[t][k].pc # "idle"

(***************************************************************************)
(* Webhooks do not multiply polling: a hold never has more live poll       *)
(* chains than distinct events stored for it, whatever is redelivered,     *)
(* requeued or retried.                                                    *)
(***************************************************************************)
OneChainPerEvent ==
    \A t \in Txns :
        Cardinality({k \in PollIds : Live(t, k)})
            <= Cardinality({e \in seen : TxnOf[e] = t})

(***************************************************************************)
(* A successful answer schedules another poll with no attempt limit;       *)
(* nevertheless the chain of a hold's only event makes at most 2N - 1      *)
(* attempts, because a run of successes ends in a streak (which the query  *)
(* can see when N <= Window) and anything else at or after the N-th        *)
(* attempt ends the chain.                                                 *)
(***************************************************************************)
PollingBounded ==
    faults = 0 =>
        \A e \in Events :
            (\A f \in Events : TxnOf[f] = TxnOf[e] => f = e) =>
                \A k \in PollIds : poll[TxnOf[e]][k].attempt <= 2 * N - 1

(***************************************************************************)
(* No hold stays open for ever: with or without webhooks, and with polls   *)
(* stranded by crashes, the TTL scanner resolves it in the end.            *)
(***************************************************************************)
EveryHoldResolved ==
    \A t \in Txns : (hold[t] \in Open) ~> (hold[t] \in Terminal)

(***************************************************************************)
(* Polling comes to rest: eventually no poll is pending or being processed *)
(* although chains go on polling holds that were resolved meanwhile.       *)
(***************************************************************************)
PollingEnds == <>[](\A t \in Txns, k \in PollIds : ~Live(t, k))

-------------------------------------------------------------------------------
(***************************************************************************)
(* What the repository says and the code does not do.                      *)
(***************************************************************************)

(* The holds scanner i still has to check or to conclude. *)
Working(i) == scanner[i].todo \cup {scanner[i].cur}

(***************************************************************************)
(* "SKIP LOCKED keeps multiple instances from grabbing the same row": no   *)
(* two TTL scanners work on the same open hold.                            *)
(***************************************************************************)
NoSharedClaim ==
    \A i, j \in Instances : i # j =>
        \A t \in Working(i) \cap Working(j) : t \in Txns => hold[t] \notin Open

(***************************************************************************)
(* "verified failure -> FAILED": the TTL scanner leaves a hold             *)
(* INDETERMINATE only after a final check that did not report a failure.   *)
(***************************************************************************)
VerifiedFailureFails ==
    \A t \in Txns :
        (hold[t] = "INDETERMINATE" /\ ledger[t][1].reason = "amount_mismatch")
            => finalSeen[t] \cap {"error", "pending"} # {}
===============================================================================
