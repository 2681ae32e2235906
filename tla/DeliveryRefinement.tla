--------------------------- MODULE DeliveryRefinement ---------------------------
(***************************************************************************)
(* Proofs about Delivery when every claim is worked off within two         *)
(* minutes (Timely): attempts never overlap, the retry budget holds, and   *)
(* the worker implements CallbackPromise, for every number of rows,        *)
(* instances, attempts, crashes and replays.                               *)
(***************************************************************************)
EXTENDS DeliveryProofs, FiniteSetTheorems

-------------------------------------------------------------------------------
(* The invariants.                                                         *)

Busy(r, g) == work[r][g].pc # "idle"

(* A row that is worked on is in flight, with the attempts it was claimed with,
   and not yet due for the reaper; no second claim works on it. *)
ExclusiveOf(r) ==
    \A g \in ClaimIds : Busy(r, g) =>
        /\ row[r].status = "in_flight" /\ ~aged[r]
        /\ work[r][g].attempts = row[r].attempts
        /\ \A h \in ClaimIds : Busy(r, h) => h = g

Exclusive == \A r \in Rows : ExclusiveOf(r)

(* Every claim of a row led to an attempt that was counted, or to a fault, or is
   still being worked on. *)
Spent(r) == MaxAttempts * replays[r] + row[r].attempts + faults

BudgetOf(r) ==
    /\ row[r].status = "absent" => claims[r] = 0
    /\ claims[r] <= Spent(r) + 1
    /\ (\A g \in ClaimIds : ~Busy(r, g)) => claims[r] <= Spent(r)

Budget == \A r \in Rows : BudgetOf(r)

(* A merchant has left unanswered every attempt that was counted, and the one a
   goroutine is about to count; a goroutine that gives up was told to. *)
CountedOf(r) ==
    /\ row[r].status \in {"pending", "in_flight"} => row[r].attempts <= heard[r].failed
    /\ \A g \in ClaimIds : work[r][g].pc = "answered" =>
          /\ work[r][g].reply = "retry" => work[r][g].attempts < heard[r].failed
          /\ work[r][g].reply = "permanent" => heard[r].permanent
          /\ work[r][g].reply = "refused" => r \in Insecure

Counted == \A r \in Rows : CountedOf(r)

-------------------------------------------------------------------------------
(* What the steps do to one row.                                           *)

(* The claims of a row change at one place. *)
LEMMA WorkAt ==
    ASSUME TypeOK, NEW r \in Rows, NEW g \in ClaimIds, NEW w, SetWork(r, g, w)
    PROVE  \A s \in Rows, h \in ClaimIds :
               work'[s][h] = IF s = r /\ h = g THEN w ELSE work[s][h]
BY DEF TypeOK, SetWork

(* The table changes in one row. *)
LEMMA RowAt ==
    ASSUME TypeOK, NEW r \in Rows, NEW st, NEW n, SetRow(r, st, n)
    PROVE  \A s \in Rows :
               row'[s] = IF s = r THEN [status |-> st, attempts |-> n] ELSE row[s]
BY DEF TypeOK, SetRow

(* Nothing about the row changes but that claims of it may be dropped by a fault. *)
RowRests(r) ==
    /\ row'[r] = row[r] /\ aged'[r] = aged[r] /\ claims'[r] = claims[r]
    /\ replays'[r] = replays[r] /\ heard'[r] = heard[r]
    /\ faults' \in {faults, faults + 1}
    /\ \A g \in ClaimIds :
          work'[r][g] = work[r][g] \/ (work'[r][g] = NoWork /\ faults' = faults + 1)

(* A row that is not touched keeps its part of the invariants. *)
LEMMA RestingRow ==
    ASSUME TypeOK, NEW r \in Rows, RowRests(r)
    PROVE  /\ ExclusiveOf(r) => ExclusiveOf(r)'
           /\ BudgetOf(r) => BudgetOf(r)'
           /\ CountedOf(r) => CountedOf(r)'
<1>1. ExclusiveOf(r) => ExclusiveOf(r)'
    BY DEF RowRests, ExclusiveOf, Busy, NoWork
<1>2. ASSUME BudgetOf(r) PROVE BudgetOf(r)'
    <2>1. /\ MaxAttempts * replays[r] \in Nat /\ row[r].attempts \in Nat
          /\ faults \in Nat /\ claims[r] \in Nat
        BY ConstantsOK DEF TypeOK
    <2>2. CASE faults' = faults + 1
        <3>1. Spent(r)' = Spent(r) + 1
            BY <2>1, <2>2 DEF Spent, RowRests
        <3>2. Spent(r) \in Nat
            BY <2>1 DEF Spent
        <3> QED BY <1>2, <2>1, <2>2, <3>1, <3>2 DEF BudgetOf, RowRests
    <2>3. CASE faults' # faults + 1
        <3>1. Spent(r)' = Spent(r)
            BY <2>3 DEF Spent, RowRests
        <3> QED BY <1>2, <2>3, <3>1 DEF BudgetOf, RowRests, Busy
    <2> QED BY <2>2, <2>3
<1>3. CountedOf(r) => CountedOf(r)'
    BY DEF RowRests, CountedOf, NoWork
<1> QED BY <1>1, <1>2, <1>3

(* Actions on a row leave the others alone. *)
LEMMA OthersRest ==
    ASSUME Inductive, NEW r \in Rows, NEW s \in Rows, s # r,
           \/ Enqueue(r) \/ Age(r) \/ ReplayDelivery(r)
           \/ \E g \in ClaimIds : Deliver(r, g)
    PROVE  RowRests(s)
<1> USE DEF Inductive
<1>1. CASE Enqueue(r)
    BY <1>1 DEF Enqueue, SetRow, RowRests, TypeOK
<1>2. CASE Age(r)
    BY <1>2 DEF Age, RowRests, TypeOK
<1>3. CASE ReplayDelivery(r)
    BY <1>3 DEF ReplayDelivery, SetRow, RowRests, TypeOK
<1>4. ASSUME NEW g \in ClaimIds, Start(r, g) PROVE RowRests(s)
    BY <1>4, WorkAt DEF Start, RowRests
<1>5. ASSUME NEW g \in ClaimIds, Post(r, g) PROVE RowRests(s)
    <2>1. \A h \in ClaimIds : work'[s][h] = work[s][h]
        BY <1>5, WorkAt DEF Post
    <2>2. heard'[s] = heard[s]
        BY <1>5 DEF Post, TypeOK
    <2> QED BY <1>5, <2>1, <2>2 DEF Post, RowRests
<1>6. ASSUME NEW g \in ClaimIds, Finish(r, g) PROVE RowRests(s)
    <2>1. \A h \in ClaimIds : work'[s][h] = work[s][h]
        BY <1>6, WorkAt DEF Finish
    <2>2. row'[s] = row[s]
        <3>1. CASE RecordReply(r, work[r][g].attempts, work[r][g].reply)
            <4>1. /\ work[r][g].attempts \in 0..MaxAttempts
                  /\ work[r][g].reply \in Replies \cup {"refused"}
                BY <1>6 DEF Finish, TypeOK, Carried
            <4>2. \E st, n : SetRow(r, st, n)
                BY <3>1, <4>1, RecordReplyCases DEF MarkDelivered, ExhaustRow, Reschedule
            <4> QED BY <4>2, RowAt
        <3> QED BY <1>6, <3>1 DEF Finish
    <2>3. faults' \in {faults, faults + 1}
        BY <1>6 DEF Finish, Fault
    <2> QED BY <1>6, <2>1, <2>2, <2>3 DEF Finish, RowRests
<1> QED BY <1>1, <1>2, <1>3, <1>4, <1>5, <1>6 DEF Deliver

(* What becomes of the row, its claim and the faults when an attempt ends. *)
FinishOf(r, g) ==
    /\ work[r][g].pc = "answered"
    /\ \A h \in ClaimIds : work'[r][h] = IF h = g THEN NoWork ELSE work[r][h]
    /\ UNCHANGED <<aged, claims, heard, replays>>
    /\ \/ row'[r] = row[r] /\ faults' = faults + 1 /\ UNCHANGED log
       \/ /\ faults' = faults
          /\ \/ /\ work[r][g].reply = "ok"
                /\ row'[r] = [status |-> "delivered", attempts |-> work[r][g].attempts + 1]
             \/ /\ row'[r] = [status |-> "exhausted", attempts |-> work[r][g].attempts + 1]
                /\ \/ work[r][g].reply \in {"permanent", "refused"}
                   \/ work[r][g].reply = "retry" /\ work[r][g].attempts + 1 >= MaxAttempts
             \/ /\ row'[r] = [status |-> "pending", attempts |-> work[r][g].attempts + 1]
                /\ work[r][g].reply = "retry"

LEMMA FinishCases ==
    ASSUME Inductive, NEW r \in Rows, NEW g \in ClaimIds, Finish(r, g)
    PROVE  FinishOf(r, g)
<1> USE DEF Inductive
<1> DEFINE n == work[r][g].attempts
           reply == work[r][g].reply
<1>1. /\ work[r][g].pc = "answered"
      /\ \A h \in ClaimIds : work'[r][h] = IF h = g THEN NoWork ELSE work[r][h]
      /\ UNCHANGED <<aged, claims, heard, replays>>
    BY WorkAt DEF Finish
<1>2. CASE Fault /\ UNCHANGED <<row, log>>
    BY <1>1, <1>2 DEF Fault, FinishOf
<1>3. CASE RecordReply(r, n, reply) /\ UNCHANGED faults
    <2>1. /\ n \in 0..MaxAttempts /\ reply \in {"ok", "permanent", "retry", "refused"}
        <3>1. work[r][g] \in Works
            BY DEF TypeOK, Works
        <3>2. reply # "none"
            BY <1>1 DEF Carried
        <3> QED BY <3>1, <3>2, ConstantsOK DEF Works, ReplyKinds
    <2> HIDE DEF n, reply
    <2>2. CASE reply = "ok"
        <3>1. MarkDelivered(r, n)
            BY <1>3, <2>2 DEF RecordReply
        <3>2. row'[r] = [status |-> "delivered", attempts |-> n + 1]
            BY <3>1, RowAt DEF MarkDelivered
        <3> QED BY <1>1, <1>3, <2>2, <3>2 DEF FinishOf, n, reply
    <2>3. CASE reply \in {"permanent", "refused"}
        <3>1. ExhaustRow(r, n)
            BY <1>3, <2>3 DEF RecordReply
        <3>2. row'[r] = [status |-> "exhausted", attempts |-> n + 1]
            BY <3>1, RowAt DEF ExhaustRow
        <3> QED BY <1>1, <1>3, <2>3, <3>2 DEF FinishOf, n, reply
    <2>4. CASE reply = "retry" /\ n + 1 >= MaxAttempts
        <3>a. /\ ~(reply = "retry" /\ n + 1 < MaxAttempts)
              /\ reply # "ok" /\ reply \notin {"permanent", "refused"}
            BY <2>1, <2>4, ConstantsOK
        <3>1. ExhaustRow(r, n)
            BY <1>3, <2>4, <3>a DEF RecordReply
        <3>2. row'[r] = [status |-> "exhausted", attempts |-> n + 1]
            BY <3>1, RowAt DEF ExhaustRow
        <3> QED BY <1>1, <1>3, <2>4, <3>2 DEF FinishOf, n, reply
    <2>5. CASE reply = "retry" /\ n + 1 < MaxAttempts
        <3>1. Reschedule(r, n)
            BY <1>3, <2>1, <2>5, ConstantsOK DEF RecordReply
        <3>2. row'[r] = [status |-> "pending", attempts |-> n + 1]
            BY <3>1, RowAt DEF Reschedule
        <3> QED BY <1>1, <1>3, <2>5, <3>2 DEF FinishOf, n, reply
    <2> QED BY <2>1, <2>2, <2>3, <2>4, <2>5, ConstantsOK
<1> QED BY <1>2, <1>3 DEF Finish

-------------------------------------------------------------------------------
(* A batch and a row of it. *)
LEMMA ClaimBatchOf ==
    ASSUME Inductive, NEW i \in Instances, NEW S \in SUBSET Rows, ClaimBatch(i, S),
           NEW s \in S
    PROVE  /\ row[s].status = "pending" /\ row'[s].status = "in_flight"
           /\ row'[s].attempts = row[s].attempts
           /\ ~aged'[s] /\ claims'[s] = claims[s] + 1
           /\ claims[s] + 1 \in ClaimIds
           /\ work'[s][claims[s] + 1].pc = "queued"
           /\ work'[s][claims[s] + 1].attempts = row[s].attempts
           /\ \A g \in ClaimIds : g # claims[s] + 1 => work'[s][g] = work[s][g]
           /\ UNCHANGED <<log, heard, replays, faults>>
<1> USE DEF Inductive
<1>1. claims[s] \in 0..MaxClaims /\ claims[s] < MaxClaims /\ row[s].status = "pending"
    BY DEF ClaimBatch, TypeOK
<1>2. claims[s] + 1 \in ClaimIds
    BY <1>1, ConstantsOK DEF ClaimIds
<1>3. row'[s] = [row[s] EXCEPT !.status = "in_flight"]
    BY DEF ClaimBatch
<1>4. row'[s].status = "in_flight" /\ row'[s].attempts = row[s].attempts
    BY <1>3 DEF TypeOK
<1>5. work'[s][claims[s] + 1] = [NoWork EXCEPT !.pc = "queued", !.at = i, !.attempts = row[s].attempts]
    BY <1>2 DEF ClaimBatch
<1>6. /\ work'[s][claims[s] + 1].pc = "queued"
      /\ work'[s][claims[s] + 1].attempts = row[s].attempts
    BY <1>5 DEF NoWork
<1>7. \A g \in ClaimIds : g # claims[s] + 1 => work'[s][g] = work[s][g]
    BY DEF ClaimBatch
<1> QED BY <1>1, <1>2, <1>4, <1>6, <1>7 DEF ClaimBatch

(* The other rows rest. *)
LEMMA ClaimBatchOthers ==
    ASSUME Inductive, NEW i \in Instances, NEW S \in SUBSET Rows, ClaimBatch(i, S),
           NEW s \in Rows, s \notin S
    PROVE  RowRests(s)
<1>1. aged'[s] = aged[s]
    BY DEF ClaimBatch, Inductive, TypeOK
<1> QED BY <1>1 DEF ClaimBatch, RowRests

(* A crash only drops claims. *)
LEMMA CrashRests ==
    ASSUME NEW i \in Instances, Crash(i), NEW s \in Rows PROVE RowRests(s)
<1>1. faults' = faults + 1
    BY DEF Crash, Fault
<1>2. \A g \in ClaimIds : work'[s][g] = IF work[s][g].at = i THEN NoWork ELSE work[s][g]
    BY DEF Crash
<1> QED BY <1>1, <1>2 DEF Crash, RowRests

(* A stuck row is pending again, and no other changes. *)
LEMMA ReapOf ==
    ASSUME Inductive, Reap, NEW s \in Rows
    PROVE  \/ RowRests(s)
           \/ /\ row[s].status = "in_flight" /\ aged[s]
              /\ row'[s].status = "pending" /\ row'[s].attempts = row[s].attempts
              /\ UNCHANGED <<aged, claims, work, log, heard, replays, faults>>
<1>1. /\ UNCHANGED <<aged, claims, work, log, heard, replays, faults>>
      /\ row'[s] = IF s \in Stuck THEN [row[s] EXCEPT !.status = "pending"] ELSE row[s]
    BY DEF Reap
<1>2. CASE s \in Stuck
    BY <1>1, <1>2 DEF Inductive, TypeOK, Stuck
<1>3. CASE s \notin Stuck
    BY <1>1, <1>3 DEF RowRests
<1> QED BY <1>2, <1>3

(* Starting and posting keep the claim at work, with the attempts it has read. *)
LEMMA Progress ==
    ASSUME TypeOK, NEW s \in Rows, NEW g \in ClaimIds, Start(s, g) \/ Post(s, g)
    PROVE  /\ work'[s][g].pc # "idle" /\ work'[s][g].attempts = work[s][g].attempts
           /\ \A h \in ClaimIds : h # g => work'[s][h] = work[s][h]
<1>1. work[s][g] \in Works
    BY DEF TypeOK, Works
<1>2. CASE Start(s, g)
    <2>1. \/ work'[s][g] = [work[s][g] EXCEPT !.pc = "answered", !.reply = "refused"]
          \/ work'[s][g] = [work[s][g] EXCEPT !.pc = "sending"]
        BY <1>2, WorkAt DEF Start
    <2>2. \A h \in ClaimIds : h # g => work'[s][h] = work[s][h]
        BY <1>2, WorkAt DEF Start
    <2>3. work'[s][g].pc # "idle" /\ work'[s][g].attempts = work[s][g].attempts
        BY <1>1, <2>1 DEF Works
    <2> QED BY <2>2, <2>3
<1>3. CASE Post(s, g)
    <2>1. PICK reply \in Replies :
              SetWork(s, g, [work[s][g] EXCEPT !.pc = "answered", !.reply = reply])
        BY <1>3 DEF Post
    <2>2. \A h \in ClaimIds : work'[s][h] =
              IF h = g THEN [work[s][g] EXCEPT !.pc = "answered", !.reply = reply]
                       ELSE work[s][h]
        BY <2>1, WorkAt
    <2> QED BY <1>1, <2>2 DEF Works
<1> QED BY <1>2, <1>3

-------------------------------------------------------------------------------
(* Nobody claims, reaps or replays a row that is worked on. *)
LEMMA ExclusiveStep ==
    ASSUME Timely, Inductive, Exclusive, [Next]_vars PROVE Exclusive'
<1> SUFFICES ASSUME NEW s \in Rows PROVE ExclusiveOf(s)'
    BY DEF Exclusive
<1>a. ExclusiveOf(s)
    BY DEF Exclusive
<1> USE DEF Inductive
<1>b. RowRests(s) => ExclusiveOf(s)'
    BY <1>a, RestingRow
<1>1. ASSUME NEW r \in Rows, s # r,
             \/ Enqueue(r) \/ Age(r) \/ ReplayDelivery(r)
             \/ \E g \in ClaimIds : Deliver(r, g)
      PROVE  ExclusiveOf(s)'
    BY <1>1, <1>b, OthersRest
<1>2. CASE Enqueue(s)
    BY <1>2, <1>a, RowAt DEF Enqueue, ExclusiveOf, Busy
<1>3. CASE ReplayDelivery(s)
    BY <1>3, <1>a, RowAt DEF ReplayDelivery, ExclusiveOf, Busy
<1>4. CASE Age(s)
    BY <1>4, <1>a DEF Age, ExclusiveOf, Busy
<1>5. ASSUME NEW g \in ClaimIds, Start(s, g) \/ Post(s, g) PROVE ExclusiveOf(s)'
    <2>1. /\ UNCHANGED <<row, aged>> /\ work[s][g].pc # "idle"
        BY <1>5 DEF Start, Post
    <2> QED BY <1>5, <1>a, <2>1, Progress DEF ExclusiveOf, Busy
<1>7. ASSUME NEW g \in ClaimIds, Finish(s, g) PROVE ExclusiveOf(s)'
    <2>1. FinishOf(s, g)
        BY <1>7, FinishCases
    <2>2. \A h \in ClaimIds : ~Busy(s, h)'
        BY <1>a, <2>1 DEF FinishOf, ExclusiveOf, Busy, NoWork
    <2> QED BY <2>2 DEF ExclusiveOf
<1>8. ASSUME NEW i \in Instances, NEW S \in SUBSET Rows, ClaimBatch(i, S)
      PROVE  ExclusiveOf(s)'
    <2>1. CASE s \notin S
        BY <1>8, <1>b, <2>1, ClaimBatchOthers
    <2>2. CASE s \in S
        <3>1. \A h \in ClaimIds : Busy(s, h)' => h = claims[s] + 1
            BY <1>8, <1>a, <2>2, ClaimBatchOf DEF ExclusiveOf, Busy
        <3> QED BY <1>8, <2>2, <3>1, ClaimBatchOf DEF ExclusiveOf
    <2> QED BY <2>1, <2>2
<1>9. ASSUME NEW i \in Instances, Crash(i) PROVE ExclusiveOf(s)'
    BY <1>9, <1>b, CrashRests
<1>10. CASE Reap
    BY <1>10, <1>a, <1>b, ReapOf DEF ExclusiveOf, Busy
<1>11. CASE UNCHANGED vars
    BY <1>11, <1>b DEF vars, RowRests
<1> QED
    BY <1>1, <1>2, <1>3, <1>4, <1>5, <1>7, <1>8, <1>9, <1>10, <1>11 DEF Next, Deliver

-------------------------------------------------------------------------------
(* What a row has spent is a number, and a replay adds MaxAttempts to it. *)
LEMMA SpentType ==
    ASSUME TypeOK, NEW r \in Rows
    PROVE  /\ Spent(r) \in Nat /\ claims[r] \in Nat /\ row[r].attempts \in 0..MaxAttempts
           /\ faults \in Nat /\ MaxAttempts * replays[r] \in Nat
           /\ MaxAttempts * (replays[r] + 1) = MaxAttempts * replays[r] + MaxAttempts
<1>1. /\ MaxAttempts \in Nat /\ replays[r] \in Nat /\ row[r].attempts \in 0..MaxAttempts
      /\ faults \in Nat /\ claims[r] \in Nat
    BY ConstantsOK DEF TypeOK
<1> QED BY <1>1 DEF Spent

(* No claim is forgotten but by a fault. *)
LEMMA BudgetStep ==
    ASSUME Inductive, Exclusive, Budget, [Next]_vars PROVE Budget'
<1> SUFFICES ASSUME NEW s \in Rows PROVE BudgetOf(s)'
    BY DEF Budget
<1>a. ExclusiveOf(s) /\ BudgetOf(s) /\ TypeOK
    BY DEF Exclusive, Budget, Inductive
<1>b. RowRests(s) => BudgetOf(s)'
    BY <1>a, RestingRow
<1>c. /\ Spent(s) \in Nat /\ claims[s] \in Nat /\ row[s].attempts \in 0..MaxAttempts
      /\ faults \in Nat /\ MaxAttempts * replays[s] \in Nat /\ MaxAttempts \in Nat
    BY <1>a, SpentType, ConstantsOK
<1>1. ASSUME NEW r \in Rows, s # r,
             \/ Enqueue(r) \/ Age(r) \/ ReplayDelivery(r)
             \/ \E g \in ClaimIds : Deliver(r, g)
      PROVE  BudgetOf(s)'
    BY <1>1, <1>b, OthersRest
<1>2. CASE Enqueue(s)
    <2>1. row'[s] = [status |-> "pending", attempts |-> 0] /\ claims'[s] = 0
        BY <1>2, <1>a, RowAt DEF Enqueue, BudgetOf
    <2>2. Spent(s)' = MaxAttempts * replays[s] + 0 + faults
        BY <1>2, <2>1 DEF Enqueue, Spent
    <2> QED BY <1>c, <2>1, <2>2 DEF BudgetOf
<1>3. CASE ReplayDelivery(s)
    <2>1. /\ row[s].status = "exhausted" /\ row'[s] = [status |-> "pending", attempts |-> 0]
          /\ claims' = claims /\ faults' = faults
        BY <1>3, <1>a, RowAt DEF ReplayDelivery
    <2>2. replays'[s] = replays[s] + 1
        BY <1>3, <1>a DEF ReplayDelivery, TypeOK
    <2>3. \A g \in ClaimIds : ~Busy(s, g)
        BY <1>a, <2>1 DEF ExclusiveOf
    <2>4. claims[s] <= MaxAttempts * replays[s] + row[s].attempts + faults
        BY <1>a, <2>3 DEF BudgetOf, Spent
    <2>5. Spent(s)' = MaxAttempts * (replays[s] + 1) + 0 + faults
        BY <2>1, <2>2 DEF Spent
    <2>6. Spent(s)' = MaxAttempts * replays[s] + MaxAttempts + faults
        BY <1>a, <1>c, <2>5, SpentType
    <2>7. claims[s] <= Spent(s)' /\ Spent(s)' \in Nat
        BY <1>c, <2>4, <2>6
    <2> QED BY <1>c, <2>1, <2>7 DEF BudgetOf
<1>4. CASE Age(s)
    BY <1>4, <1>a DEF Age, BudgetOf, Spent, Busy
<1>5. ASSUME NEW g \in ClaimIds, Start(s, g) \/ Post(s, g) PROVE BudgetOf(s)'
    <2>1. /\ UNCHANGED <<row, claims, replays, faults>>
          /\ work[s][g].pc # "idle" /\ row[s].status = "in_flight"
        BY <1>5, <1>a DEF Start, Post, ExclusiveOf, Busy
    <2>2. work'[s][g].pc # "idle"
        BY <1>5, <1>a, Progress
    <2> QED BY <1>a, <2>1, <2>2 DEF BudgetOf, Spent, Busy
<1>6. ASSUME NEW g \in ClaimIds, Finish(s, g) PROVE BudgetOf(s)'
    <2>1. FinishOf(s, g)
        BY <1>6, FinishCases
    <2>2. row[s].status = "in_flight" /\ work[s][g].attempts = row[s].attempts
        BY <1>a, <2>1 DEF FinishOf, ExclusiveOf, Busy
    <2>3. Spent(s)' = Spent(s) + 1
        <3>1. CASE row'[s] = row[s] /\ faults' = faults + 1
            BY <1>c, <2>1, <3>1 DEF FinishOf, Spent
        <3>2. CASE row'[s].attempts = row[s].attempts + 1 /\ faults' = faults
            BY <1>c, <2>1, <3>2 DEF FinishOf, Spent
        <3> QED BY <2>1, <2>2, <3>1, <3>2 DEF FinishOf
    <2>4. row'[s].status # "absent" /\ claims' = claims
        BY <2>1, <2>2 DEF FinishOf
    <2> QED BY <1>a, <1>c, <2>3, <2>4 DEF BudgetOf
<1>7. ASSUME NEW i \in Instances, NEW S \in SUBSET Rows, ClaimBatch(i, S)
      PROVE  BudgetOf(s)'
    <2>1. CASE s \notin S
        BY <1>7, <1>b, <2>1, ClaimBatchOthers
    <2>2. CASE s \in S
        <3>1. \A g \in ClaimIds : ~Busy(s, g)
            BY <1>7, <1>a, <2>2, ClaimBatchOf DEF ExclusiveOf
        <3>2. claims[s] <= Spent(s)
            BY <1>a, <3>1 DEF BudgetOf
        <3>3. Spent(s)' = Spent(s) /\ claims'[s] = claims[s] + 1
            BY <1>7, <2>2, ClaimBatchOf DEF Spent
        <3>4. /\ row'[s].status = "in_flight"
              /\ \E g \in ClaimIds : work'[s][g].pc # "idle"
            <4>1. /\ row'[s].status = "in_flight" /\ claims[s] + 1 \in ClaimIds
                  /\ work'[s][claims[s] + 1].pc = "queued"
                BY <1>7, <2>2, ClaimBatchOf
            <4> QED BY <4>1
        <3>5. claims'[s] <= Spent(s)' + 1
            BY <1>c, <3>2, <3>3
        <3> QED BY <3>4, <3>5 DEF BudgetOf, Busy
    <2> QED BY <2>1, <2>2
<1>8. ASSUME NEW i \in Instances, Crash(i) PROVE BudgetOf(s)'
    BY <1>8, <1>b, CrashRests
<1>9. CASE Reap
    <2>1. CASE RowRests(s)
        BY <2>1, <1>b
    <2>2. CASE /\ row'[s].status = "pending" /\ row'[s].attempts = row[s].attempts
               /\ UNCHANGED <<aged, claims, work, log, heard, replays, faults>>
        BY <1>a, <2>2 DEF BudgetOf, Spent, Busy
    <2> QED BY <1>9, <2>1, <2>2, ReapOf
<1>10. CASE UNCHANGED vars
    BY <1>10, <1>a DEF vars, BudgetOf, Spent, Busy
<1> QED
    BY <1>1, <1>2, <1>3, <1>4, <1>5, <1>6, <1>7, <1>8, <1>9, <1>10 DEF Next, Deliver

-------------------------------------------------------------------------------
(* An attempt that is counted was left unanswered. *)
LEMMA CountedStep ==
    ASSUME Inductive, Exclusive, Counted, [Next]_vars PROVE Counted'
<1> SUFFICES ASSUME NEW s \in Rows PROVE CountedOf(s)'
    BY DEF Counted
<1>a. ExclusiveOf(s) /\ CountedOf(s) /\ TypeOK /\ Room
    BY DEF Exclusive, Counted, Inductive
<1>b. RowRests(s) => CountedOf(s)'
    BY <1>a, RestingRow
<1>c. /\ heard[s] \in [ok : BOOLEAN, permanent : BOOLEAN, failed : 0..MaxAttempts]
      /\ row[s].attempts \in 0..MaxAttempts /\ MaxAttempts \in Nat
    BY <1>a, ConstantsOK DEF TypeOK
<1>1. ASSUME NEW r \in Rows, s # r,
             \/ Enqueue(r) \/ Age(r) \/ ReplayDelivery(r)
             \/ \E g \in ClaimIds : Deliver(r, g)
      PROVE  CountedOf(s)'
    BY <1>1, <1>b, OthersRest
<1>2. CASE Enqueue(s)
    <2>1. row'[s] = [status |-> "pending", attempts |-> 0] /\ UNCHANGED <<work, heard>>
        BY <1>2, <1>a, RowAt DEF Enqueue
    <2> QED BY <1>a, <1>c, <2>1 DEF CountedOf
<1>3. CASE ReplayDelivery(s)
    <2>1. /\ row[s].status = "exhausted" /\ row'[s] = [status |-> "pending", attempts |-> 0]
          /\ work' = work
        BY <1>3, <1>a, RowAt DEF ReplayDelivery
    <2>2. \A g \in ClaimIds : work'[s][g].pc # "answered"
        BY <1>a, <2>1 DEF ExclusiveOf, Busy
    <2>3. heard'[s] = [Silence EXCEPT !.ok = heard[s].ok]
        BY <1>3, <1>a DEF ReplayDelivery, TypeOK
    <2>4. heard'[s].failed = 0
        BY <2>3 DEF Silence
    <2> QED BY <2>1, <2>2, <2>4 DEF CountedOf
<1>4. CASE Age(s)
    BY <1>4, <1>a DEF Age, CountedOf
<1>5. ASSUME NEW g \in ClaimIds, Start(s, g) PROVE CountedOf(s)'
    <2>1. \A h \in ClaimIds : h # g => work'[s][h] = work[s][h]
        BY <1>5, <1>a, WorkAt DEF Start
    <2>2. work'[s][g].pc = "answered" => work'[s][g].reply = "refused" /\ s \in Insecure
        <3>1. work[s][g] \in Works
            BY <1>a DEF TypeOK, Works
        <3>2. IF s \in Insecure
              THEN work'[s][g] = [work[s][g] EXCEPT !.pc = "answered", !.reply = "refused"]
              ELSE work'[s][g] = [work[s][g] EXCEPT !.pc = "sending"]
            BY <1>5, <1>a, WorkAt DEF Start
        <3> QED BY <3>1, <3>2 DEF Works
    <2> QED BY <1>5, <1>a, <2>1, <2>2 DEF Start, CountedOf
<1>6. ASSUME NEW g \in ClaimIds, Post(s, g) PROVE CountedOf(s)'
    <2>1. PICK reply \in Replies :
              /\ SetWork(s, g, [work[s][g] EXCEPT !.pc = "answered", !.reply = reply])
              /\ heard' = [heard EXCEPT ![s] =
                     [ok        |-> @.ok \/ reply = "ok",
                      permanent |-> @.permanent \/ reply = "permanent",
                      failed    |-> IF reply = "retry" /\ @.failed < MaxAttempts
                                    THEN @.failed + 1 ELSE @.failed]]
        BY <1>6 DEF Post
    <2>2. /\ work[s][g].pc = "sending" /\ row' = row
          /\ row[s].status = "in_flight" /\ work[s][g].attempts = row[s].attempts
          /\ work[s][g].attempts < MaxAttempts
          /\ \A h \in ClaimIds : Busy(s, h) => h = g
        BY <1>6, <1>a DEF Post, ExclusiveOf, Busy, Room
    <2>3. /\ heard'[s].permanent = (heard[s].permanent \/ reply = "permanent")
          /\ heard'[s].failed = IF reply = "retry" /\ heard[s].failed < MaxAttempts
                                THEN heard[s].failed + 1 ELSE heard[s].failed
        BY <1>a, <2>1 DEF TypeOK
    <2>4. \A h \in ClaimIds : work'[s][h] =
              IF h = g THEN [work[s][g] EXCEPT !.pc = "answered", !.reply = reply]
                       ELSE work[s][h]
        BY <1>a, <2>1, WorkAt
    <2>5. /\ work'[s][g].reply = reply /\ work'[s][g].attempts = row[s].attempts
          /\ reply # "refused"
        <3>1. work[s][g] \in Works
            BY <1>a DEF TypeOK, Works
        <3>2. work'[s][g].reply = reply /\ work'[s][g].attempts = work[s][g].attempts
            BY <2>4, <3>1 DEF Works
        <3>3. reply # "refused"
            BY ConstantsOK DEF ReplyKinds
        <3> QED BY <2>2, <3>2, <3>3
    <2>6. \A h \in ClaimIds : h # g => work'[s][h].pc # "answered"
        BY <2>2, <2>4 DEF Busy
    <2>7. row[s].attempts <= heard[s].failed
        BY <1>a, <2>2 DEF CountedOf
    <2>8. /\ row[s].attempts <= heard'[s].failed
          /\ reply = "retry" => row[s].attempts < heard'[s].failed
        BY <1>c, <2>2, <2>3, <2>7
    <2> QED BY <2>2, <2>3, <2>5, <2>6, <2>8 DEF CountedOf
<1>7. ASSUME NEW g \in ClaimIds, Finish(s, g) PROVE CountedOf(s)'
    <2>1. FinishOf(s, g)
        BY <1>7, FinishCases
    <2>2. /\ work[s][g].attempts = row[s].attempts /\ row[s].status = "in_flight"
          /\ \A h \in ClaimIds : work'[s][h].pc # "answered"
        BY <1>a, <2>1 DEF FinishOf, ExclusiveOf, Busy, NoWork
    <2>3. row[s].attempts <= heard[s].failed /\ heard' = heard
        BY <1>a, <2>1, <2>2 DEF CountedOf, FinishOf
    <2>4. work[s][g].reply = "retry" => row[s].attempts < heard[s].failed
        BY <1>a, <2>1, <2>2 DEF CountedOf, FinishOf
    <2>5. row'[s].status \in {"pending", "in_flight"} => row'[s].attempts <= heard[s].failed
        <3>1. CASE row'[s] = row[s]
            BY <2>3, <3>1
        <3>2. CASE row'[s].status \in {"delivered", "exhausted"}
            BY <3>2
        <3>3. CASE row'[s].attempts = row[s].attempts + 1 /\ work[s][g].reply = "retry"
            BY <1>c, <2>4, <3>3
        <3> QED BY <2>1, <2>2, <3>1, <3>2, <3>3 DEF FinishOf
    <2> QED BY <2>2, <2>3, <2>5 DEF CountedOf
<1>8. ASSUME NEW i \in Instances, NEW S \in SUBSET Rows, ClaimBatch(i, S)
      PROVE  CountedOf(s)'
    <2>1. CASE s \notin S
        BY <1>8, <1>b, <2>1, ClaimBatchOthers
    <2>2. CASE s \in S
        BY <1>8, <1>a, <2>2, ClaimBatchOf DEF CountedOf
    <2> QED BY <2>1, <2>2
<1>9. ASSUME NEW i \in Instances, Crash(i) PROVE CountedOf(s)'
    BY <1>9, <1>b, CrashRests
<1>10. CASE Reap
    BY <1>10, <1>a, <1>b, ReapOf DEF CountedOf
<1>11. CASE UNCHANGED vars
    BY <1>11, <1>a DEF vars, CountedOf
<1> QED
    BY <1>1, <1>2, <1>3, <1>4, <1>5, <1>6, <1>7, <1>8, <1>9, <1>10, <1>11 DEF Next, Deliver

-------------------------------------------------------------------------------
(* Everything the theorems rest on. *)
InTime == Inductive /\ Exclusive /\ Budget /\ Counted

LEMMA InTimeInit == Init => InTime
<1> SUFFICES ASSUME Init PROVE InTime
    OBVIOUS
<1>1. \A r \in Rows, g \in ClaimIds : work[r][g].pc = "idle"
    BY DEF Init, NoWork
<1>2. \A r \in Rows : row[r] = [status |-> "absent", attempts |-> 0]
    BY DEF Init
<1>3. Exclusive
    BY <1>1 DEF Exclusive, ExclusiveOf, Busy
<1>4. Counted
    BY <1>1, <1>2 DEF Counted, CountedOf
<1>5. ASSUME NEW r \in Rows PROVE BudgetOf(r)
    <2>1. claims[r] = 0 /\ replays[r] = 0 /\ faults = 0 /\ row[r].attempts = 0
        BY <1>2 DEF Init
    <2>2. Spent(r) = 0
        BY <2>1, ConstantsOK DEF Spent
    <2> QED BY <2>1, <2>2 DEF BudgetOf
<1> QED BY <1>3, <1>4, <1>5, InductiveInit DEF InTime, Budget

LEMMA InTimeStep == Timely /\ InTime /\ [Next]_vars => InTime'
BY InductiveStep, ExclusiveStep, BudgetStep, CountedStep DEF InTime

(* The invariant says of the set of live claims what the property says. *)
LEMMA ExclusiveMeansOne == Exclusive => OneAttemptAtATime
<1> SUFFICES ASSUME Exclusive, NEW r \in Rows
             PROVE  /\ Cardinality(LiveClaims(r)) <= 1
                    /\ \A g \in LiveClaims(r) :
                          /\ row[r].status = "in_flight"
                          /\ work[r][g].attempts = row[r].attempts
    BY DEF OneAttemptAtATime
<1>1. ExclusiveOf(r)
    BY DEF Exclusive
<1>2. \A g \in LiveClaims(r) :
          row[r].status = "in_flight" /\ work[r][g].attempts = row[r].attempts
    BY <1>1 DEF LiveClaims, ExclusiveOf, Busy
<1>3. CASE LiveClaims(r) = {}
    BY <1>2, <1>3, FS_EmptySet
<1>4. ASSUME NEW g \in LiveClaims(r) PROVE Cardinality(LiveClaims(r)) <= 1
    <2>1. LiveClaims(r) = {g}
        BY <1>1 DEF LiveClaims, ExclusiveOf, Busy
    <2>2. Cardinality({g}) = 1
        BY FS_Singleton
    <2> QED BY <2>1, <2>2
<1> QED BY <1>2, <1>3, <1>4

(* A row that is worked on has an attempt left, so its budget has, too. *)
LEMMA BudgetSuffices == InTime => RetryBudget
<1> SUFFICES ASSUME InTime, NEW r \in Rows
             PROVE  claims[r] <= MaxAttempts * (replays[r] + 1) + faults
    BY DEF RetryBudget
<1> DEFINE spent == MaxAttempts * replays[r]
<1>1. /\ claims[r] \in Nat /\ row[r].attempts \in 0..MaxAttempts /\ faults \in Nat
      /\ spent \in Nat /\ MaxAttempts \in Nat
      /\ MaxAttempts * (replays[r] + 1) = spent + MaxAttempts
      /\ Spent(r) = spent + row[r].attempts + faults
    BY SpentType, ConstantsOK DEF InTime, Inductive, Spent
<1>2. BudgetOf(r) /\ ExclusiveOf(r)
    BY DEF InTime, Budget, Exclusive
<1>3. CASE \A g \in ClaimIds : ~Busy(r, g)
    <2>1. claims[r] <= Spent(r)
        BY <1>2, <1>3 DEF BudgetOf
    <2> HIDE DEF spent
    <2> QED BY <1>1, <2>1
<1>4. ASSUME NEW g \in ClaimIds, Busy(r, g)
      PROVE  claims[r] <= MaxAttempts * (replays[r] + 1) + faults
    <2>1. claims[r] <= Spent(r) + 1
        BY <1>2 DEF BudgetOf
    <2>2. row[r].attempts < MaxAttempts
        BY <1>2, <1>4 DEF InTime, Inductive, Room, ExclusiveOf
    <2> HIDE DEF spent
    <2> QED BY <1>1, <2>1, <2>2
<1> QED BY <1>3, <1>4

-------------------------------------------------------------------------------
(* The refinement: what a row and its merchant look like to CallbackPromise. *)
StateOf(r) == IF row[r].status \in {"pending", "in_flight"} THEN "open" ELSE row[r].status

HopelessOf(r) == r \in Insecure \/ heard[r].permanent \/ heard[r].failed = MaxAttempts

(* A step that shows nothing of itself. *)
LEMMA Hidden ==
    ASSUME UNCHANGED <<log, heard>>, \A r \in Rows : StateOf(r)' = StateOf(r)
    PROVE  UNCHANGED Promise!vars
BY DEF Promise!vars, StateOf

(* A step that changes the state of one callback, and nothing the merchant said. *)
LEMMA StateMoves ==
    ASSUME NEW r \in Rows, UNCHANGED heard, \A s \in Rows \ {r} : row'[s] = row[s]
    PROVE  /\ [s \in Rows |-> StateOf(s)]' =
                  [[s \in Rows |-> StateOf(s)] EXCEPT ![r] = StateOf(r)']
           /\ [s \in Rows |-> heard[s].ok]' = [s \in Rows |-> heard[s].ok]
           /\ [s \in Rows |-> HopelessOf(s)]' = [s \in Rows |-> HopelessOf(s)]
BY DEF StateOf, HopelessOf

(* A new row is a queued callback. *)
LEMMA EnqueueRefines ==
    ASSUME Inductive, NEW r \in Rows, Enqueue(r) PROVE Promise!Queue(r)
<1>1. \A s \in Rows :
          row'[s] = IF s = r THEN [status |-> "pending", attempts |-> 0] ELSE row[s]
    BY RowAt DEF Enqueue, Inductive
<1>2. StateOf(r)' = "open" /\ row[r].status = "absent"
    BY <1>1 DEF StateOf, Enqueue
<1> QED BY <1>1, <1>2, StateMoves DEF Enqueue, Promise!Queue, StateOf, HopelessOf

(* What comes back from the merchant is learnt. *)
LEMMA PostRefines ==
    ASSUME InTime, NEW r \in Rows, NEW g \in ClaimIds, Post(r, g) PROVE Promise!Learn(r)
<1>1. PICK reply \in Replies : heard' = [heard EXCEPT ![r] =
              [ok        |-> @.ok \/ reply = "ok",
               permanent |-> @.permanent \/ reply = "permanent",
               failed    |-> IF reply = "retry" /\ @.failed < MaxAttempts
                             THEN @.failed + 1 ELSE @.failed]]
    BY DEF Post
<1>2. /\ heard'[r].ok = (heard[r].ok \/ reply = "ok")
      /\ heard'[r].permanent = (heard[r].permanent \/ reply = "permanent")
      /\ heard'[r].failed = IF reply = "retry" /\ heard[r].failed < MaxAttempts
                            THEN heard[r].failed + 1 ELSE heard[r].failed
      /\ \A s \in Rows \ {r} : heard'[s] = heard[s]
      /\ heard[r].ok \in BOOLEAN /\ heard[r].failed \in 0..MaxAttempts
    BY <1>1 DEF InTime, Inductive, TypeOK
<1>3. heard'[r].ok \in {heard[r].ok, TRUE}
    BY <1>2
<1>4. HopelessOf(r)' \in {HopelessOf(r), TRUE}
    <2>1. HopelessOf(r) => HopelessOf(r)'
        <3>1. heard[r].permanent => heard'[r].permanent
            BY <1>2
        <3>2. heard[r].failed = MaxAttempts => heard'[r].failed = MaxAttempts
            BY <1>2, ConstantsOK
        <3> QED BY <3>1, <3>2 DEF HopelessOf
    <2>2. HopelessOf(r) \in BOOLEAN /\ HopelessOf(r)' \in BOOLEAN
        BY DEF HopelessOf
    <2> QED BY <2>1, <2>2
<1>5. [s \in Rows |-> heard[s].ok]' = [[s \in Rows |-> heard[s].ok] EXCEPT ![r] = heard'[r].ok]
    BY <1>2
<1>6. [s \in Rows |-> HopelessOf(s)]' =
          [[s \in Rows |-> HopelessOf(s)] EXCEPT ![r] = HopelessOf(r)']
    BY <1>2 DEF HopelessOf
<1>7. UNCHANGED <<row, log>> /\ row[r].status = "in_flight"
    BY DEF Post, InTime, Exclusive, ExclusiveOf, Busy
<1> QED BY <1>3, <1>4, <1>5, <1>6, <1>7 DEF Promise!Learn, HopelessOf

(* A replay opens the callback again and forgets the reasons to give up. *)
LEMMA ReplayRefines ==
    ASSUME Inductive, NEW r \in Rows, ReplayDelivery(r) PROVE Promise!Replay(r)
<1>1. \A s \in Rows :
          row'[s] = IF s = r THEN [status |-> "pending", attempts |-> 0] ELSE row[s]
    BY RowAt DEF ReplayDelivery, Inductive
<1>2. /\ heard'[r] = [Silence EXCEPT !.ok = heard[r].ok]
      /\ \A s \in Rows \ {r} : heard'[s] = heard[s]
    BY DEF ReplayDelivery, Inductive, TypeOK
<1>3. heard'[r].ok = heard[r].ok /\ ~heard'[r].permanent /\ heard'[r].failed = 0
    BY <1>2 DEF Silence
<1>4. HopelessOf(r)' = (r \in Insecure)
    BY <1>3, ConstantsOK DEF HopelessOf
<1>5. [s \in Rows |-> HopelessOf(s)]' =
          [[s \in Rows |-> HopelessOf(s)] EXCEPT ![r] = r \in Insecure]
    BY <1>2, <1>4 DEF HopelessOf
<1>6. [s \in Rows |-> heard[s].ok]' = [s \in Rows |-> heard[s].ok]
    BY <1>2, <1>3
<1>7. [s \in Rows |-> StateOf(s)]' = [[s \in Rows |-> StateOf(s)] EXCEPT ![r] = "open"]
    <2>1. \A s \in Rows : StateOf(s)' = IF s = r THEN "open" ELSE StateOf(s)
        BY <1>1 DEF StateOf
    <2> QED BY <2>1
<1> QED BY <1>5, <1>6, <1>7 DEF ReplayDelivery, Promise!Replay, HopelessOf, StateOf

(* The end of an attempt delivers, gives up with a reason, or shows nothing. *)
LEMMA FinishRefines ==
    ASSUME InTime, NEW r \in Rows, NEW g \in ClaimIds, Finish(r, g)
    PROVE  Promise!Deliver(r) \/ Promise!GiveUp(r) \/ UNCHANGED Promise!vars
<1> DEFINE n == work[r][g].attempts
           reply == work[r][g].reply
<1>a. Inductive /\ TypeOK /\ Carried /\ ExclusiveOf(r) /\ CountedOf(r)
    BY DEF InTime, Inductive, Exclusive, Counted
<1>b. /\ work[r][g].pc = "answered" /\ UNCHANGED heard
      /\ row[r].status = "in_flight" /\ n = row[r].attempts
    BY <1>a DEF Finish, ExclusiveOf, Busy
<1>c. /\ n \in 0..MaxAttempts /\ reply \in {"ok", "permanent", "retry", "refused"}
      /\ reply = "ok" => heard[r].ok
      /\ reply = "permanent" => heard[r].permanent
      /\ reply = "refused" => r \in Insecure
      /\ reply = "retry" => n < heard[r].failed
      /\ heard[r].failed \in 0..MaxAttempts
    <2>1. work[r][g] \in Works /\ reply # "none"
        BY <1>a, <1>b DEF TypeOK, Works, Carried
    <2>2. n \in 0..MaxAttempts /\ reply \in {"ok", "permanent", "retry", "refused"}
        BY <2>1, ConstantsOK DEF Works, ReplyKinds
    <2>3. heard[r].failed \in 0..MaxAttempts
        BY <1>a DEF TypeOK
    <2>4. /\ reply = "ok" => heard[r].ok
          /\ reply = "permanent" => heard[r].permanent
          /\ reply = "refused" => r \in Insecure
          /\ reply = "retry" => n < heard[r].failed
        BY <1>a, <1>b DEF Carried, CountedOf
    <2> QED BY <2>2, <2>3, <2>4
<1>1. CASE UNCHANGED <<row, log>>
    BY <1>b, <1>1, Hidden DEF StateOf
<1>2. ASSUME MarkDelivered(r, n), heard[r].ok PROVE Promise!Deliver(r)
    <2>1. \A s \in Rows :
              row'[s] = IF s = r THEN [status |-> "delivered", attempts |-> n + 1] ELSE row[s]
        BY <1>a, <1>2, RowAt DEF MarkDelivered
    <2>2. StateOf(r)' = "delivered"
        BY <2>1 DEF StateOf
    <2> QED BY <1>b, <1>2, <2>1, <2>2, StateMoves
            DEF MarkDelivered, Record, Promise!Deliver, StateOf, HopelessOf
<1>3. ASSUME ExhaustRow(r, n), HopelessOf(r) PROVE Promise!GiveUp(r)
    <2>1. \A s \in Rows :
              row'[s] = IF s = r THEN [status |-> "exhausted", attempts |-> n + 1] ELSE row[s]
        BY <1>a, <1>3, RowAt DEF ExhaustRow
    <2>2. StateOf(r)' = "exhausted"
        BY <2>1 DEF StateOf
    <2> QED BY <1>b, <1>3, <2>1, <2>2, StateMoves
            DEF ExhaustRow, Record, Promise!GiveUp, StateOf, HopelessOf
<1>4. CASE Reschedule(r, n)
    <2>1. \A s \in Rows :
              row'[s] = IF s = r THEN [status |-> "pending", attempts |-> n + 1] ELSE row[s]
        BY <1>a, <1>4, RowAt DEF Reschedule
    <2> QED BY <1>b, <1>4, <2>1, Hidden DEF StateOf, Reschedule
<1>5. CASE RecordReply(r, n, reply)
    <2> HIDE DEF n, reply
    <2>1. CASE reply = "ok"
        BY <1>2, <1>5, <1>c, <2>1 DEF RecordReply
    <2>2. CASE reply \in {"permanent", "refused"}
        <3>1. ExhaustRow(r, n)
            BY <1>5, <2>2 DEF RecordReply
        <3> QED BY <1>3, <1>c, <2>2, <3>1 DEF HopelessOf
    <2>3. CASE reply = "retry" /\ n + 1 >= MaxAttempts
        <3>1. /\ ~(reply = "retry" /\ n + 1 < MaxAttempts)
              /\ reply # "ok" /\ reply \notin {"permanent", "refused"}
            BY <1>c, <2>3, ConstantsOK
        <3>2. ExhaustRow(r, n)
            BY <1>5, <2>3, <3>1 DEF RecordReply
        <3>3. heard[r].failed = MaxAttempts
            BY <1>c, <2>3, ConstantsOK
        <3> QED BY <1>3, <3>2, <3>3 DEF HopelessOf
    <2>4. CASE reply = "retry" /\ n + 1 < MaxAttempts
        BY <1>4, <1>5, <1>c, <2>4, ConstantsOK DEF RecordReply
    <2> QED BY <1>c, <2>1, <2>2, <2>3, <2>4, ConstantsOK
<1> QED BY <1>1, <1>5 DEF Finish

LEMMA PromiseInit == Init => Promise!Init
<1> SUFFICES ASSUME Init PROVE Promise!Init
    OBVIOUS
<1>1. \A r \in Rows : row[r].status = "absent" /\ heard[r] = Silence
    BY DEF Init
<1>2. ~Silence.ok /\ ~Silence.permanent /\ Silence.failed # MaxAttempts
    BY ConstantsOK DEF Silence
<1>3. \A r \in Rows : StateOf(r) = "absent"
    BY <1>1 DEF StateOf
<1>4. \A r \in Rows : heard[r].ok = FALSE /\ HopelessOf(r) = (r \in Insecure)
    BY <1>1, <1>2 DEF Silence, HopelessOf
<1>5. /\ [r \in Rows |-> StateOf(r)] = [r \in Rows |-> "absent"]
      /\ [r \in Rows |-> heard[r].ok] = [r \in Rows |-> FALSE]
      /\ [r \in Rows |-> HopelessOf(r)] = [r \in Rows |-> r \in Insecure]
    BY <1>3, <1>4
<1> QED BY <1>5 DEF Init, Promise!Init, StateOf, HopelessOf

(* Every step of the worker is a step of the promise, or shows nothing. *)
LEMMA PromiseStep == InTime /\ [Next]_vars => [Promise!Next]_(Promise!vars)
<1> SUFFICES ASSUME InTime, [Next]_vars PROVE Promise!Next \/ UNCHANGED Promise!vars
    OBVIOUS
<1>a. Inductive /\ TypeOK
    BY DEF InTime, Inductive
<1>1. ASSUME NEW r \in Rows, Enqueue(r) PROVE Promise!Next
    BY <1>a, <1>1, EnqueueRefines DEF Promise!Next
<1>2. ASSUME NEW r \in Rows, ReplayDelivery(r) PROVE Promise!Next
    BY <1>a, <1>2, ReplayRefines DEF Promise!Next
<1>3. ASSUME NEW r \in Rows, NEW g \in ClaimIds, Post(r, g) PROVE Promise!Next
    BY <1>3, PostRefines DEF Promise!Next
<1>4. ASSUME NEW r \in Rows, NEW g \in ClaimIds, Finish(r, g)
      PROVE  Promise!Next \/ UNCHANGED Promise!vars
    BY <1>4, FinishRefines DEF Promise!Next
<1>5. ASSUME UNCHANGED <<row, log, heard>> PROVE UNCHANGED Promise!vars
    BY <1>5, Hidden DEF StateOf
<1>6. ASSUME NEW r \in Rows, Age(r) \/ \E g \in ClaimIds : Start(r, g)
      PROVE  UNCHANGED <<row, log, heard>>
    BY <1>6 DEF Age, Start
<1>7. ASSUME NEW i \in Instances, Crash(i) PROVE UNCHANGED <<row, log, heard>>
    BY <1>7 DEF Crash
<1>8. ASSUME NEW i \in Instances, NEW S \in SUBSET Rows, ClaimBatch(i, S)
      PROVE  UNCHANGED Promise!vars
    <2>1. ASSUME NEW r \in Rows PROVE StateOf(r)' = StateOf(r)
        <3>1. CASE r \in S
            BY <1>a, <1>8, <3>1, ClaimBatchOf DEF StateOf
        <3>2. CASE r \notin S
            BY <1>8, <3>2 DEF ClaimBatch, StateOf
        <3> QED BY <3>1, <3>2
    <2> QED BY <1>8, <2>1, Hidden DEF ClaimBatch
<1>9. CASE Reap
    <2>1. ASSUME NEW r \in Rows PROVE StateOf(r)' = StateOf(r)
        BY <1>a, <1>9, ReapOf DEF StateOf, RowRests
    <2> QED BY <1>9, <2>1, Hidden DEF Reap
<1>10. CASE UNCHANGED vars
    BY <1>10, <1>5 DEF vars
<1> QED
    BY <1>1, <1>2, <1>3, <1>4, <1>5, <1>6, <1>7, <1>8, <1>9, <1>10 DEF Next, Deliver

-------------------------------------------------------------------------------
(***************************************************************************)
(* As long as claims are worked off within two minutes, loop, semaphore    *)
(* and reaper never let two goroutines work on one callback: the claim     *)
(* skips what is in flight, the reaper what was claimed a short time ago.  *)
(***************************************************************************)
THEOREM AttemptsNeverOverlap == Timely /\ Spec => []OneAttemptAtATime
<1> SUFFICES ASSUME Timely PROVE Spec => []OneAttemptAtATime
    OBVIOUS
<1>1. InTime /\ [Next]_vars => InTime'
    BY InTimeStep
<1>2. InTime => OneAttemptAtATime
    BY ExclusiveMeansOne DEF InTime
<1> QED BY <1>1, <1>2, InTimeInit, PTL DEF Spec

(***************************************************************************)
(* Under the same assumption the worker claims a callback no more often    *)
(* than its attempts, its replays and the faults account for.              *)
(***************************************************************************)
THEOREM RetriesStayInBudget == Timely /\ Spec => []RetryBudget
<1> SUFFICES ASSUME Timely PROVE Spec => []RetryBudget
    OBVIOUS
<1>1. InTime /\ [Next]_vars => InTime'
    BY InTimeStep
<1> QED BY <1>1, BudgetSuffices, InTimeInit, PTL DEF Spec

(***************************************************************************)
(* Under the same assumption the worker keeps CallbackPromise: delivered   *)
(* once acknowledged and then for good, given up only with a reason, each  *)
(* decision in the ledger in the same step.                                *)
(***************************************************************************)
THEOREM ImplementsPromise == Timely /\ Spec => KeepsPromise
<1> SUFFICES ASSUME Timely PROVE Spec => KeepsPromise
    OBVIOUS
<1>1. InTime /\ [Next]_vars => InTime'
    BY InTimeStep
<1> QED BY <1>1, InTimeInit, PromiseInit, PromiseStep, PTL DEF Spec, KeepsPromise, Promise!Spec
===============================================================================
