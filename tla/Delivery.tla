------------------------------- MODULE Delivery -------------------------------
(***************************************************************************)
(* The outbox delivery worker: how a queued callback gets to the merchant. *)
(*                                                                         *)
(* Durable state is the outbox table and the ledger rows the worker        *)
(* writes; one action is one statement or transaction.  Volatile state is  *)
(* the claims: outbox rows as they were read when they were claimed, first *)
(* waiting in the batch of an instance's loop, then in the hands of a      *)
(* goroutine.  A crash loses the claims of an instance.                    *)
(*                                                                         *)
(* The merchant is external: it may answer every request with success, a   *)
(* permanent error, or nothing the worker can use.  next_attempt_at is     *)
(* abstracted: the backoff of a pending row may end at any time, so a      *)
(* claim takes any of them.  Two minutes pass (the reaper's threshold) by  *)
(* the action Age.                                                         *)
(***************************************************************************)
EXTENDS Integers, Sequences, FiniteSets

CONSTANTS
    Rows,          \* outbox rows
    Insecure,      \* rows whose callback_url is http:// where that is refused
    Instances,     \* running instances of the binary
    Replies,       \* how merchants may answer
    MaxAttempts,   \* outbox.max_attempts (8)
    Batch,         \* rows one claim takes (LIMIT 10)
    Concurrency,   \* DELIVERY_WORKER_CONCURRENCY
    Timely,        \* every claim is worked off within two minutes
    MaxClaims,     \* bound: claims of a row
    MaxFaults,     \* bound: crashes and failed statements
    MaxReplays,    \* bound: operator replays of a row
    NoInst

ReplyKinds == {"ok", "permanent", "retry"}   \* 2xx; 4xx but 429; anything else

ASSUME ConstantsOK ==
    /\ Insecure \subseteq Rows /\ Replies \subseteq ReplyKinds
    /\ MaxAttempts \in Nat \ {0} /\ Batch \in Nat \ {0} /\ Concurrency \in Nat \ {0}
    /\ Timely \in BOOLEAN
    /\ MaxClaims \in Nat /\ MaxFaults \in Nat /\ MaxReplays \in Nat
    /\ NoInst \notin Instances

VARIABLES
    row,      \* outbox.status and attempts, "absent" before the row exists
    aged,     \* last_attempt_at is more than two minutes ago
    claims,   \* number of claims of a row so far
    work,     \* the claims of a row: where they are and what they hold
    log,      \* ledger rows of source 'delivery'
    heard,    \* history: what merchants answered since the row was queued or replayed
    replays,  \* operator replays of a row
    faults    \* faults injected so far

vars == <<row, aged, claims, work, log, heard, replays, faults>>

ClaimIds == 1..MaxClaims

NoWork  == [pc |-> "idle", at |-> NoInst, attempts |-> 0, reply |-> "none"]
Silence == [ok |-> FALSE, permanent |-> FALSE, failed |-> 0]

Fault == faults < MaxFaults /\ faults' = faults + 1

SetWork(r, g, w) == work' = [work EXCEPT ![r][g] = w]
SetRow(r, st, n) == row' = [row EXCEPT ![r] = [status |-> st, attempts |-> n]]
Record(r, event) == log' = [log EXCEPT ![r] = Append(@, event)]

-------------------------------------------------------------------------------
(* A final transition of the hold inserts the row (Conclude of Stabilizer). *)
Enqueue(r) ==
    /\ row[r].status = "absent"
    /\ SetRow(r, "pending", 0)
    /\ UNCHANGED <<aged, claims, work, log, heard, replays, faults>>

(***************************************************************************)
(* The loop of an instance.  One transaction takes up to Batch due rows    *)
(* and marks them in_flight; the loop does not come back for more before   *)
(* it has handed the last of them to a goroutine.                          *)
(***************************************************************************)
Claimed(i, pcs) ==
    {c \in Rows \X ClaimIds : work[c[1]][c[2]].at = i /\ work[c[1]][c[2]].pc \in pcs}

ClaimBatch(i, S) ==
    /\ Claimed(i, {"queued"}) = {}
    /\ S # {} /\ Cardinality(S) <= Batch
    /\ \A r \in S : row[r].status = "pending" /\ claims[r] < MaxClaims
    /\ row' = [r \in Rows |-> IF r \in S THEN [row[r] EXCEPT !.status = "in_flight"] ELSE row[r]]
    /\ aged' = [r \in Rows |-> r \notin S /\ aged[r]]
    /\ claims' = [r \in Rows |-> IF r \in S THEN claims[r] + 1 ELSE claims[r]]
    /\ work' = [r \in Rows |-> [g \in ClaimIds |->
                   IF r \in S /\ g = claims[r] + 1
                   THEN [NoWork EXCEPT !.pc = "queued", !.at = i, !.attempts = row[r].attempts]
                   ELSE work[r][g]]]
    /\ UNCHANGED <<log, heard, replays, faults>>

(* A goroutine starts when the semaphore has room; a plain http:// callback *)
(* is refused before anything is sent.                                      *)
Start(r, g) ==
    LET w == work[r][g] IN
    /\ w.pc = "queued"
    /\ Cardinality(Claimed(w.at, {"sending", "answered"})) < Concurrency
    /\ SetWork(r, g, IF r \in Insecure
                     THEN [w EXCEPT !.pc = "answered", !.reply = "refused"]
                     ELSE [w EXCEPT !.pc = "sending"])
    /\ UNCHANGED <<row, aged, claims, log, heard, replays, faults>>

(* The request is answered, or times out, or cannot be made at all. *)
Post(r, g) ==
    /\ work[r][g].pc = "sending"
    /\ \E reply \in Replies :
          /\ SetWork(r, g, [work[r][g] EXCEPT !.pc = "answered", !.reply = reply])
          /\ heard' = [heard EXCEPT ![r] =
                 [ok        |-> @.ok \/ reply = "ok",
                  permanent |-> @.permanent \/ reply = "permanent",
                  failed    |-> IF reply = "retry" /\ @.failed < MaxAttempts
                                THEN @.failed + 1 ELSE @.failed]]
    /\ UNCHANGED <<row, aged, claims, log, replays, faults>>

(* The three ways to record the outcome of an attempt.  All of them address *)
(* the row by id alone and count from the attempts read at the claim.       *)
MarkDelivered(r, n) == SetRow(r, "delivered", n + 1) /\ Record(r, "callback_delivered")
ExhaustRow(r, n)    == SetRow(r, "exhausted", n + 1) /\ Record(r, "callback_failed")
Reschedule(r, n)    == SetRow(r, "pending", n + 1)   /\ UNCHANGED log

(* Wrong variant: the limit is compared with the attempts before this one. *)
RecordReplyLate(r, n, reply) ==
    CASE reply = "ok"                               -> MarkDelivered(r, n)
      [] reply \in {"permanent", "refused"}         -> ExhaustRow(r, n)
      [] reply = "retry" /\ n >= MaxAttempts        -> ExhaustRow(r, n)
      [] reply = "retry" /\ n < MaxAttempts         -> Reschedule(r, n)

(* Wrong variant: an answer nobody can use counts as a delivery. *)
RecordReplyTrusting(r, n, reply) ==
    CASE reply = "ok" \/ reply = "retry"            -> MarkDelivered(r, n)
      [] reply \in {"permanent", "refused"}         -> ExhaustRow(r, n)

(* Wrong variant: one attempt too few. *)
RecordReplyEarly(r, n, reply) ==
    CASE reply = "ok"                               -> MarkDelivered(r, n)
      [] reply \in {"permanent", "refused"}         -> ExhaustRow(r, n)
      [] reply = "retry" /\ n + 2 >= MaxAttempts    -> ExhaustRow(r, n)
      [] reply = "retry" /\ n + 2 < MaxAttempts     -> Reschedule(r, n)

RecordReply(r, n, reply) ==
    CASE reply = "ok"                               -> MarkDelivered(r, n)
      [] reply \in {"permanent", "refused"}         -> ExhaustRow(r, n)
      [] reply = "retry" /\ n + 1 >= MaxAttempts    -> ExhaustRow(r, n)
      [] reply = "retry" /\ n + 1 < MaxAttempts     -> Reschedule(r, n)

(* The statement or transaction may fail: that is logged, and the row stays. *)
Finish(r, g) ==
    /\ work[r][g].pc = "answered"
    /\ \/ RecordReply(r, work[r][g].attempts, work[r][g].reply) /\ UNCHANGED faults
       \/ Fault /\ UNCHANGED <<row, log>>
    /\ SetWork(r, g, NoWork)
    /\ UNCHANGED <<aged, claims, heard, replays>>

-------------------------------------------------------------------------------
(* Two minutes pass since the row was claimed.  Under Timely they are       *)
(* enough for whoever claimed it.                                           *)
Age(r) ==
    /\ row[r].status = "in_flight" /\ ~aged[r]
    /\ Timely => \A g \in ClaimIds : work[r][g].pc = "idle"
    /\ aged' = [aged EXCEPT ![r] = TRUE]
    /\ UNCHANGED <<row, claims, work, log, heard, replays, faults>>

(* Wrong variant: a reaper that takes every in_flight row. *)
StuckImpatient == {r \in Rows : row[r].status = "in_flight"}

(* Wrong variant: last_attempt_at is only set by the first retry. *)
StuckIfAttempted ==
    {r \in Rows : row[r].status = "in_flight" /\ aged[r] /\ row[r].attempts > 0}

Stuck == {r \in Rows : row[r].status = "in_flight" /\ aged[r]}

(* The reaper of any instance: one statement over all stuck rows. *)
Reap ==
    /\ Stuck # {}
    /\ row' = [r \in Rows |-> IF r \in Stuck THEN [row[r] EXCEPT !.status = "pending"] ELSE row[r]]
    /\ UNCHANGED <<aged, claims, work, log, heard, replays, faults>>

(* POST /api/.../replay: an operator queues an exhausted row again. *)
ReplayDelivery(r) ==
    /\ row[r].status = "exhausted" /\ replays[r] < MaxReplays
    /\ SetRow(r, "pending", 0)
    /\ replays' = [replays EXCEPT ![r] = @ + 1]
    /\ heard' = [heard EXCEPT ![r] = [Silence EXCEPT !.ok = heard[r].ok]]
    /\ UNCHANGED <<aged, claims, work, log, faults>>

Crash(i) ==
    /\ Claimed(i, {"queued", "sending", "answered"}) # {}
    /\ Fault
    /\ work' = [r \in Rows |-> [g \in ClaimIds |->
                   IF work[r][g].at = i THEN NoWork ELSE work[r][g]]]
    /\ UNCHANGED <<row, aged, claims, log, heard, replays>>

-------------------------------------------------------------------------------
Init ==
    /\ row = [r \in Rows |-> [status |-> "absent", attempts |-> 0]]
    /\ aged = [r \in Rows |-> FALSE]
    /\ claims = [r \in Rows |-> 0]
    /\ work = [r \in Rows |-> [g \in ClaimIds |-> NoWork]]
    /\ log = [r \in Rows |-> <<>>]
    /\ heard = [r \in Rows |-> Silence]
    /\ replays = [r \in Rows |-> 0]
    /\ faults = 0

Deliver(r, g) == Start(r, g) \/ Post(r, g) \/ Finish(r, g)

Next ==
    \/ \E i \in Instances : Crash(i) \/ \E S \in SUBSET Rows : ClaimBatch(i, S)
    \/ \E r \in Rows :
          \/ Enqueue(r) \/ Age(r) \/ ReplayDelivery(r)
          \/ \E g \in ClaimIds : Deliver(r, g)
    \/ Reap

Spec == Init /\ [][Next]_vars

(***************************************************************************)
(* Fairness.  The loop ticks every second and takes the due rows in the    *)
(* order of next_attempt_at, so a row that is due again and again is       *)
(* claimed: strong fairness, row by row.  Goroutines run on, and the HTTP  *)
(* client has a timeout: weak fairness of each step.  Time passes and the  *)
(* reaper ticks.  Nobody has to replay, queue or crash anything.           *)
(***************************************************************************)
Fairness ==
    /\ \A r \in Rows :
          /\ SF_vars(\E i \in Instances, S \in SUBSET Rows : r \in S /\ ClaimBatch(i, S))
          /\ SF_vars(\E g \in ClaimIds : Start(r, g))
          /\ WF_vars(\E g \in ClaimIds : Post(r, g) \/ Finish(r, g))
          /\ WF_vars(Age(r))
    /\ WF_vars(Reap)

FairSpec == Spec /\ Fairness

-------------------------------------------------------------------------------
(* Every variable has its type. *)
TypeOK ==
    /\ row \in [Rows ->
          [status : {"absent", "pending", "in_flight", "delivered", "exhausted"},
           attempts : 0..MaxAttempts]]
    /\ aged \in [Rows -> BOOLEAN]
    /\ claims \in [Rows -> 0..MaxClaims]
    /\ work \in [Rows -> [ClaimIds ->
          [pc : {"idle", "queued", "sending", "answered"}, at : Instances \cup {NoInst},
           attempts : 0..MaxAttempts, reply : Replies \cup {"none", "refused"}]]]
    /\ log \in [Rows -> Seq({"callback_delivered", "callback_failed"})]
    /\ heard \in [Rows -> [ok : BOOLEAN, permanent : BOOLEAN, failed : 0..MaxAttempts]]
    /\ replays \in [Rows -> 0..MaxReplays]
    /\ faults \in 0..MaxFaults

(* The claims of a row somebody still works on. *)
LiveClaims(r) == {g \in ClaimIds : work[r][g].pc # "idle"}

(***************************************************************************)
(* Whatever is reaped, crashed, replayed or overtaken: Paystable calls a   *)
(* callback delivered, in the table or in the ledger, only after the       *)
(* merchant answered a request for it with 2xx, and it never sends one to  *)
(* a refused plain http:// address.                                        *)
(***************************************************************************)
DeliveredMeansAcked ==
    \A r \in Rows :
        /\ row[r].status = "delivered" \/ (\E n \in DOMAIN log[r] : log[r][n] = "callback_delivered")
              => heard[r].ok
        /\ r \in Insecure => heard[r] = Silence

(***************************************************************************)
(* Between loop, semaphore and reaper no row is ever worked on twice at    *)
(* the same time, and a row somebody works on is in_flight with the        *)
(* attempts that were read: as long as work is done within two minutes.    *)
(***************************************************************************)
OneAttemptAtATime ==
    \A r \in Rows :
        /\ Cardinality(LiveClaims(r)) <= 1
        /\ \A g \in LiveClaims(r) :
              row[r].status = "in_flight" /\ work[r][g].attempts = row[r].attempts

(***************************************************************************)
(* The retry budget: a row is claimed at most MaxAttempts times, plus once *)
(* for every crash or failed statement, for every time it was queued or    *)
(* replayed.  (An attempt that broke off is not counted by the code.)      *)
(***************************************************************************)
RetryBudget ==
    \A r \in Rows : claims[r] <= MaxAttempts * (replays[r] + 1) + faults

(***************************************************************************)
(* The worker keeps CallbackPromise: delivered only after a 2xx and then   *)
(* for good; exhausted only for an insecure address, a permanent answer or *)
(* MaxAttempts unanswered requests; every such decision in the ledger with *)
(* the same statement that makes it.                                       *)
(***************************************************************************)
Promise == INSTANCE CallbackPromise WITH
    Refused  <- Insecure,
    state    <- [r \in Rows |-> IF row[r].status \in {"pending", "in_flight"}
                                THEN "open" ELSE row[r].status],
    acked    <- [r \in Rows |-> heard[r].ok],
    hopeless <- [r \in Rows |-> r \in Insecure \/ heard[r].permanent
                                \/ heard[r].failed = MaxAttempts]

KeepsPromise == Promise!Spec

(***************************************************************************)
(* At least once: every queued or replayed callback is delivered or given  *)
(* up in the end, whatever crashed in between.                             *)
(***************************************************************************)
EveryCallbackSettled ==
    \A r \in Rows :
        (row[r].status \in {"pending", "in_flight"})
            ~> (row[r].status \in {"delivered", "exhausted"})

(***************************************************************************)
(* "2xx: marks delivery complete": once a callback is delivered no step    *)
(* changes its row again.                                                  *)
(***************************************************************************)
DeliveredIsFinal ==
    [][\A r \in Rows : row[r].status = "delivered" => row'[r] = row[r]]_vars
===============================================================================
