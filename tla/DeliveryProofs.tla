---------------------------- MODULE DeliveryProofs ----------------------------
(***************************************************************************)
(* Proofs about Delivery for every number of rows, instances, attempts and *)
(* faults, and whether or not claims are worked off in time.               *)
(***************************************************************************)
EXTENDS Delivery, TLAPS

(* Whoever may still send a callback is below the limit, so the next       *)
(* attempt number is within it, however late it is written.                *)
Room ==
    \A r \in Rows :
        /\ row[r].status \in {"pending", "in_flight"} => row[r].attempts < MaxAttempts
        /\ \A g \in ClaimIds : work[r][g].pc # "idle" => work[r][g].attempts < MaxAttempts

(* What a goroutine holds after the request is what the merchant said. *)
Carried ==
    \A r \in Rows, g \in ClaimIds :
        /\ work[r][g].pc = "answered" => work[r][g].reply # "none"
        /\ work[r][g].pc = "answered" /\ work[r][g].reply = "ok" => heard[r].ok
        /\ r \in Insecure => work[r][g].pc # "sending"

Inductive == TypeOK /\ Room /\ Carried

Works ==
    [pc : {"idle", "queued", "sending", "answered"}, at : Instances \cup {NoInst},
     attempts : 0..MaxAttempts, reply : Replies \cup {"none", "refused"}]

OutboxRows ==
    [status : {"absent", "pending", "in_flight", "delivered", "exhausted"},
     attempts : 0..MaxAttempts]

-------------------------------------------------------------------------------
(* An outcome delivers, gives up, or goes back below the limit. *)
LEMMA RecordReplyCases ==
    ASSUME NEW r \in Rows, NEW n \in 0..MaxAttempts, NEW reply \in Replies \cup {"refused"},
           RecordReply(r, n, reply)
    PROVE  \/ reply = "ok" /\ MarkDelivered(r, n)
           \/ ExhaustRow(r, n)
           \/ n + 1 < MaxAttempts /\ Reschedule(r, n)
<1>1. reply \in {"ok", "permanent", "retry", "refused"}
    BY ConstantsOK DEF ReplyKinds
<1>2. CASE reply = "ok"
    BY <1>2 DEF RecordReply
<1>3. CASE reply \in {"permanent", "refused"}
    BY <1>3 DEF RecordReply
<1>4. CASE reply = "retry"
    <2>1. n + 1 >= MaxAttempts \/ n + 1 < MaxAttempts
        BY ConstantsOK
    <2>2. CASE n + 1 >= MaxAttempts
        BY <1>4, <2>2, ConstantsOK DEF RecordReply
    <2>3. CASE n + 1 < MaxAttempts
        BY <1>4, <2>3, ConstantsOK DEF RecordReply
    <2> QED BY <2>1, <2>2, <2>3
<1> QED BY <1>1, <1>2, <1>3, <1>4

(* An outcome leaves the row and its ledger entries typed, with room. *)
LEMMA RecordReplyType ==
    ASSUME TypeOK, Room, NEW r \in Rows, NEW n \in 0..MaxAttempts, n < MaxAttempts,
           NEW reply \in Replies \cup {"refused"}, RecordReply(r, n, reply)
    PROVE  /\ row' \in [Rows -> OutboxRows]
           /\ log' \in [Rows -> Seq({"callback_delivered", "callback_failed"})]
           /\ \A s \in Rows :
                 row'[s].status \in {"pending", "in_flight"} => row'[s].attempts < MaxAttempts
<1>1. n + 1 \in 0..MaxAttempts
    BY ConstantsOK
<1>2. CASE MarkDelivered(r, n)
    BY <1>1, <1>2 DEF MarkDelivered, SetRow, Record, TypeOK, Room, OutboxRows
<1>3. CASE ExhaustRow(r, n)
    BY <1>1, <1>3 DEF ExhaustRow, SetRow, Record, TypeOK, Room, OutboxRows
<1>4. CASE n + 1 < MaxAttempts /\ Reschedule(r, n)
    BY <1>1, <1>4 DEF Reschedule, SetRow, TypeOK, Room, OutboxRows
<1> QED BY <1>2, <1>3, <1>4, RecordReplyCases

(* A claim that changes hands keeps its type, its room and what it carries. *)
LEMMA SetWorkInductive ==
    ASSUME Inductive, NEW r \in Rows, NEW g \in ClaimIds, NEW w \in Works,
           SetWork(r, g, w), heard' \in [Rows -> [ok : BOOLEAN, permanent : BOOLEAN, failed : 0..MaxAttempts]],
           \A s \in Rows : heard[s].ok => heard'[s].ok,
           w.pc # "idle" => w.attempts < MaxAttempts,
           w.pc = "answered" => w.reply # "none",
           w.pc = "answered" /\ w.reply = "ok" => heard'[r].ok,
           r \in Insecure => w.pc # "sending"
    PROVE  /\ work' \in [Rows -> [ClaimIds -> Works]]
           /\ \A s \in Rows, h \in ClaimIds :
                 work'[s][h].pc # "idle" => work'[s][h].attempts < MaxAttempts
           /\ Carried'
<1>1. work \in [Rows -> [ClaimIds -> Works]]
    BY DEF Inductive, TypeOK, Works
<1>2. \A s \in Rows, h \in ClaimIds :
          work'[s][h] = IF s = r /\ h = g THEN w ELSE work[s][h]
    BY <1>1 DEF SetWork
<1>3. work' \in [Rows -> [ClaimIds -> Works]]
    BY <1>1 DEF SetWork
<1>4. \A s \in Rows, h \in ClaimIds :
          work'[s][h].pc # "idle" => work'[s][h].attempts < MaxAttempts
    BY <1>2 DEF Inductive, Room
<1>5. Carried'
    BY <1>2 DEF Inductive, Carried
<1> QED BY <1>3, <1>4, <1>5

(* An idle claim is typed. *)
LEMMA NoWorkType == NoWork \in Works
BY ConstantsOK DEF NoWork, Works

-------------------------------------------------------------------------------
LEMMA InductiveInit == Init => Inductive
<1> SUFFICES ASSUME Init PROVE Inductive
    OBVIOUS
<1>1. TypeOK
    <2>1. NoWork \in Works
        BY NoWorkType
    <2>2. Silence \in [ok : BOOLEAN, permanent : BOOLEAN, failed : 0..MaxAttempts]
        BY ConstantsOK DEF Silence
    <2>3. [status |-> "absent", attempts |-> 0] \in OutboxRows
        BY ConstantsOK DEF OutboxRows
    <2> QED BY <2>1, <2>2, <2>3, ConstantsOK DEF Init, TypeOK, Works, OutboxRows
<1>2. Room
    BY DEF Init, Room, NoWork
<1>3. Carried
    BY DEF Init, Carried, NoWork
<1> QED BY <1>1, <1>2, <1>3 DEF Inductive

(* The invariant survives every step. *)
LEMMA InductiveStep == Inductive /\ [Next]_vars => Inductive'
<1> SUFFICES ASSUME Inductive, [Next]_vars PROVE Inductive'
    OBVIOUS
<1> USE DEF Inductive
<1>1. ASSUME NEW r \in Rows, Enqueue(r) PROVE Inductive'
    <2>1. 0 \in 0..MaxAttempts /\ 0 < MaxAttempts
        BY ConstantsOK
    <2>2. TypeOK'
        BY <1>1, <2>1 DEF Enqueue, SetRow, TypeOK
    <2>3. Room' /\ Carried'
        BY <1>1, <2>1 DEF Enqueue, SetRow, TypeOK, Room, Carried
    <2> QED BY <2>2, <2>3
<1>2. ASSUME NEW i \in Instances, NEW S \in SUBSET Rows, ClaimBatch(i, S) PROVE Inductive'
    <2>1. \A r \in Rows : /\ row'[r].attempts = row[r].attempts
                          /\ row'[r] \in OutboxRows
                          /\ r \in S => row[r].status = "pending" /\ claims[r] < MaxClaims
                          /\ r \notin S => row'[r] = row[r]
        BY <1>2 DEF ClaimBatch, TypeOK, OutboxRows
    <2>2. \A r \in Rows, g \in ClaimIds :
              \/ work'[r][g] = work[r][g]
              \/ /\ r \in S
                 /\ work'[r][g] = [pc |-> "queued", at |-> i,
                                   attempts |-> row[r].attempts, reply |-> "none"]
        BY <1>2 DEF ClaimBatch, NoWork
    <2>3. \A r \in Rows :
              [pc |-> "queued", at |-> i, attempts |-> row[r].attempts, reply |-> "none"] \in Works
        BY DEF TypeOK, Works
    <2>4. work' \in [Rows -> [ClaimIds -> Works]]
        <3>1. \A r \in Rows, g \in ClaimIds : work[r][g] \in Works
            BY DEF TypeOK, Works
        <3>2. \A r \in Rows, g \in ClaimIds : work'[r][g] \in Works
            BY <2>2, <2>3, <3>1
        <3> QED BY <1>2, <3>2 DEF ClaimBatch
    <2>5. /\ row' \in [Rows -> OutboxRows]
          /\ aged' \in [Rows -> BOOLEAN]
        BY <1>2, <2>1 DEF ClaimBatch, TypeOK
    <2>6. claims' \in [Rows -> 0..MaxClaims]
        <3>1. \A r \in Rows : claims[r] \in 0..MaxClaims
            BY DEF TypeOK
        <3>2. \A r \in Rows : claims[r] < MaxClaims => claims[r] + 1 \in 0..MaxClaims
            BY <3>1, ConstantsOK
        <3>3. claims' = [r \in Rows |-> IF r \in S THEN claims[r] + 1 ELSE claims[r]]
            BY <1>2 DEF ClaimBatch
        <3> QED BY <2>1, <3>1, <3>2, <3>3
    <2>7. TypeOK'
        BY <1>2, <2>4, <2>5, <2>6 DEF ClaimBatch, TypeOK, Works, OutboxRows
    <2>8. Room'
        <3>1. \A r \in Rows : row'[r].status \in {"pending", "in_flight"}
                                  => row'[r].attempts < MaxAttempts
            BY <2>1 DEF Room
        <3>2. \A r \in Rows, g \in ClaimIds :
                  work'[r][g].pc # "idle" => work'[r][g].attempts < MaxAttempts
            <4> SUFFICES ASSUME NEW r \in Rows, NEW g \in ClaimIds, work'[r][g].pc # "idle"
                         PROVE  work'[r][g].attempts < MaxAttempts
                OBVIOUS
            <4>1. CASE work'[r][g] = work[r][g]
                BY <4>1 DEF Room
            <4>2. CASE /\ r \in S
                       /\ work'[r][g] = [pc |-> "queued", at |-> i,
                                         attempts |-> row[r].attempts, reply |-> "none"]
                <5>1. row[r].attempts < MaxAttempts
                    BY <2>1, <4>2 DEF Room
                <5> QED BY <4>2, <5>1
            <4> QED BY <2>2, <4>1, <4>2
        <3> QED BY <3>1, <3>2 DEF Room
    <2>9. Carried'
        <3>1. heard' = heard
            BY <1>2 DEF ClaimBatch
        <3>2. \A r \in Rows, g \in ClaimIds :
                  work'[r][g] = work[r][g] \/ work'[r][g].pc = "queued"
            <4> SUFFICES ASSUME NEW r \in Rows, NEW g \in ClaimIds, work'[r][g] # work[r][g]
                         PROVE  work'[r][g].pc = "queued"
                OBVIOUS
            <4>1. work'[r][g] = [pc |-> "queued", at |-> i,
                                 attempts |-> row[r].attempts, reply |-> "none"]
                BY <2>2
            <4> QED BY <4>1
        <3> QED BY <3>1, <3>2 DEF Carried
    <2> QED BY <2>7, <2>8, <2>9
<1>3. ASSUME NEW r \in Rows, NEW g \in ClaimIds, Start(r, g) PROVE Inductive'
    <2> DEFINE w == IF r \in Insecure
                    THEN [work[r][g] EXCEPT !.pc = "answered", !.reply = "refused"]
                    ELSE [work[r][g] EXCEPT !.pc = "sending"]
    <2>1. work[r][g] \in Works /\ work[r][g].pc = "queued" /\ work[r][g].attempts < MaxAttempts
        BY <1>3 DEF Start, TypeOK, Works, Room
    <2>2. w \in Works /\ w.attempts < MaxAttempts
        BY <2>1 DEF Works
    <2>3. /\ SetWork(r, g, w)
          /\ UNCHANGED <<row, aged, claims, log, heard, replays, faults>>
        BY <1>3 DEF Start
    <2>4. /\ w.pc = "answered" => w.reply = "refused"
          /\ r \in Insecure => w.pc # "sending"
        BY <2>1 DEF Works
    <2>5. heard' \in [Rows -> [ok : BOOLEAN, permanent : BOOLEAN, failed : 0..MaxAttempts]]
        BY <2>3 DEF TypeOK
    <2> HIDE DEF w
    <2>6. /\ work' \in [Rows -> [ClaimIds -> Works]]
          /\ \A s \in Rows, h \in ClaimIds :
                work'[s][h].pc # "idle" => work'[s][h].attempts < MaxAttempts
          /\ Carried'
        BY <2>2, <2>3, <2>4, <2>5, SetWorkInductive
    <2> QED BY <2>3, <2>6 DEF TypeOK, Room, Works
<1>4. ASSUME NEW r \in Rows, NEW g \in ClaimIds, Post(r, g) PROVE Inductive'
    <2>1. PICK reply \in Replies :
              /\ SetWork(r, g, [work[r][g] EXCEPT !.pc = "answered", !.reply = reply])
              /\ heard' = [heard EXCEPT ![r] =
                     [ok        |-> @.ok \/ reply = "ok",
                      permanent |-> @.permanent \/ reply = "permanent",
                      failed    |-> IF reply = "retry" /\ @.failed < MaxAttempts
                                    THEN @.failed + 1 ELSE @.failed]]
        BY <1>4 DEF Post
    <2> DEFINE w == [work[r][g] EXCEPT !.pc = "answered", !.reply = reply]
    <2>2. work[r][g] \in Works /\ work[r][g].pc = "sending" /\ work[r][g].attempts < MaxAttempts
        BY <1>4 DEF Post, TypeOK, Works, Room
    <2>3. w \in Works /\ w.attempts < MaxAttempts /\ w.pc = "answered" /\ w.reply = reply
        BY <2>2 DEF Works
    <2>4. reply # "none"
        BY ConstantsOK DEF ReplyKinds
    <2>5. heard[r] \in [ok : BOOLEAN, permanent : BOOLEAN, failed : 0..MaxAttempts]
        BY DEF TypeOK
    <2>6. [ok        |-> heard[r].ok \/ reply = "ok",
           permanent |-> heard[r].permanent \/ reply = "permanent",
           failed    |-> IF reply = "retry" /\ heard[r].failed < MaxAttempts
                         THEN heard[r].failed + 1 ELSE heard[r].failed]
              \in [ok : BOOLEAN, permanent : BOOLEAN, failed : 0..MaxAttempts]
        <3>1. (IF reply = "retry" /\ heard[r].failed < MaxAttempts
               THEN heard[r].failed + 1 ELSE heard[r].failed) \in 0..MaxAttempts
            BY <2>5, ConstantsOK
        <3> QED BY <3>1, <2>5
    <2>7. heard' \in [Rows -> [ok : BOOLEAN, permanent : BOOLEAN, failed : 0..MaxAttempts]]
        BY <2>1, <2>6 DEF TypeOK
    <2>8. /\ \A s \in Rows : heard[s].ok => heard'[s].ok
          /\ reply = "ok" => heard'[r].ok
        BY <2>1 DEF TypeOK
    <2>9. UNCHANGED <<row, aged, claims, log, replays, faults>>
        BY <1>4 DEF Post
    <2>10. SetWork(r, g, w)
        BY <2>1
    <2> HIDE DEF w
    <2>11. w.pc # "sending"
        BY <2>3
    <2>12. /\ work' \in [Rows -> [ClaimIds -> Works]]
           /\ \A s \in Rows, h \in ClaimIds :
                 work'[s][h].pc # "idle" => work'[s][h].attempts < MaxAttempts
           /\ Carried'
        BY <2>3, <2>4, <2>7, <2>8, <2>10, <2>11, SetWorkInductive
    <2> QED BY <2>7, <2>9, <2>12 DEF TypeOK, Room, Works
<1>5. ASSUME NEW r \in Rows, NEW g \in ClaimIds, Finish(r, g) PROVE Inductive'
    <2>1. /\ work[r][g] \in Works /\ work[r][g].pc = "answered"
          /\ work[r][g].attempts \in 0..MaxAttempts /\ work[r][g].attempts < MaxAttempts
          /\ work[r][g].reply \in Replies \cup {"refused"}
        BY <1>5 DEF Finish, TypeOK, Works, Room, Carried
    <2>2. /\ SetWork(r, g, NoWork)
          /\ UNCHANGED <<aged, claims, heard, replays>>
        BY <1>5 DEF Finish
    <2>3. NoWork \in Works /\ NoWork.pc = "idle"
        BY NoWorkType DEF NoWork
    <2>4. heard' \in [Rows -> [ok : BOOLEAN, permanent : BOOLEAN, failed : 0..MaxAttempts]]
        BY <2>2 DEF TypeOK
    <2>5. /\ work' \in [Rows -> [ClaimIds -> Works]]
          /\ \A s \in Rows, h \in ClaimIds :
                work'[s][h].pc # "idle" => work'[s][h].attempts < MaxAttempts
          /\ Carried'
        BY <2>2, <2>3, <2>4, SetWorkInductive
    <2>6. /\ row' \in [Rows -> OutboxRows]
          /\ log' \in [Rows -> Seq({"callback_delivered", "callback_failed"})]
          /\ \A s \in Rows :
                row'[s].status \in {"pending", "in_flight"} => row'[s].attempts < MaxAttempts
        <3>1. CASE RecordReply(r, work[r][g].attempts, work[r][g].reply)
            BY <2>1, <3>1, RecordReplyType
        <3>2. CASE UNCHANGED <<row, log>>
            BY <3>2 DEF TypeOK, Room, OutboxRows
        <3> QED BY <1>5, <3>1, <3>2 DEF Finish
    <2>7. faults' \in 0..MaxFaults
        BY <1>5, ConstantsOK DEF Finish, Fault, TypeOK
    <2> QED BY <2>2, <2>4, <2>5, <2>6, <2>7 DEF TypeOK, Room, Works, OutboxRows
<1>6. ASSUME NEW r \in Rows, Age(r) PROVE Inductive'
    BY <1>6 DEF Age, TypeOK, Room, Carried
<1>7. ASSUME Reap PROVE Inductive'
    <2>1. \A r \in Rows : /\ row'[r] \in OutboxRows
                          /\ row'[r].attempts = row[r].attempts
                          /\ row'[r].status \in {"pending", "in_flight"}
                                => row[r].status \in {"pending", "in_flight"}
        BY <1>7 DEF Reap, Stuck, TypeOK, OutboxRows
    <2>2. row' \in [Rows -> OutboxRows]
        BY <1>7, <2>1 DEF Reap
    <2>3. UNCHANGED <<aged, claims, work, log, heard, replays, faults>>
        BY <1>7 DEF Reap
    <2> QED BY <2>1, <2>2, <2>3 DEF TypeOK, Room, Carried, OutboxRows
<1>8. ASSUME NEW r \in Rows, ReplayDelivery(r) PROVE Inductive'
    <2>1. 0 \in 0..MaxAttempts /\ 0 < MaxAttempts
        BY ConstantsOK
    <2>2. /\ heard' = [heard EXCEPT ![r] = [Silence EXCEPT !.ok = heard[r].ok]]
          /\ UNCHANGED <<aged, claims, work, log, faults>>
        BY <1>8 DEF ReplayDelivery
    <2>3. /\ heard' \in [Rows -> [ok : BOOLEAN, permanent : BOOLEAN, failed : 0..MaxAttempts]]
          /\ \A s \in Rows : heard'[s].ok = heard[s].ok
        BY <2>1, <2>2 DEF TypeOK, Silence
    <2>4. row' = [row EXCEPT ![r] = [status |-> "pending", attempts |-> 0]]
        BY <1>8 DEF ReplayDelivery, SetRow
    <2>5. replays' \in [Rows -> 0..MaxReplays]
        <3>1. replays' = [replays EXCEPT ![r] = @ + 1] /\ replays[r] < MaxReplays
            BY <1>8 DEF ReplayDelivery
        <3>2. replays \in [Rows -> 0..MaxReplays]
            BY DEF TypeOK
        <3> QED BY <1>8, <3>1, <3>2, ConstantsOK
    <2>6. TypeOK'
        BY <2>1, <2>2, <2>3, <2>4, <2>5 DEF TypeOK
    <2>7. Room'
        BY <2>1, <2>2, <2>4 DEF Room, TypeOK
    <2>8. Carried'
        BY <2>2, <2>3 DEF Carried
    <2> QED BY <2>6, <2>7, <2>8
<1>9. ASSUME NEW i \in Instances, Crash(i) PROVE Inductive'
    <2>1. \A r \in Rows, g \in ClaimIds :
              work'[r][g] = work[r][g] \/ work'[r][g] = NoWork
        BY <1>9 DEF Crash
    <2>2. work' \in [Rows -> [ClaimIds -> Works]]
        <3>1. \A r \in Rows, g \in ClaimIds : work[r][g] \in Works
            BY DEF TypeOK, Works
        <3>2. \A r \in Rows, g \in ClaimIds : work'[r][g] \in Works
            BY <2>1, <3>1, NoWorkType
        <3> QED BY <1>9, <3>2 DEF Crash
    <2>3. UNCHANGED <<row, aged, claims, log, heard, replays>> /\ faults' \in 0..MaxFaults
        BY <1>9, ConstantsOK DEF Crash, Fault, TypeOK
    <2>4. TypeOK'
        BY <2>2, <2>3 DEF TypeOK, Works
    <2>5. Room'
        BY <2>1, <2>3 DEF Room, NoWork
    <2>6. Carried'
        BY <2>1, <2>3 DEF Carried, NoWork
    <2> QED BY <2>4, <2>5, <2>6
<1>10. CASE UNCHANGED vars
    BY <1>10 DEF vars, TypeOK, Room, Carried
<1> QED
    BY <1>1, <1>2, <1>3, <1>4, <1>5, <1>6, <1>7, <1>8, <1>9, <1>10 DEF Next, Deliver

-------------------------------------------------------------------------------
(* Every variable of Delivery keeps its type; in particular attempts never *)
(* exceed max_attempts, although late attempts write over newer ones.      *)
THEOREM DeliveryTypeCorrect == Spec => []TypeOK
<1>1. Inductive => TypeOK
    BY DEF Inductive
<1> QED BY <1>1, InductiveInit, InductiveStep, PTL DEF Spec

(* One row's share of DeliveredMeansAcked. *)
AckedOf(r) ==
    /\ row[r].status = "delivered" \/ (\E n \in DOMAIN log[r] : log[r][n] = "callback_delivered")
          => heard[r].ok
    /\ r \in Insecure => heard[r] = Silence

LEMMA AckedByRow == DeliveredMeansAcked <=> \A r \in Rows : AckedOf(r)
BY DEF DeliveredMeansAcked, AckedOf

(* The ledger of a row contains what it contained, and the new entry. *)
LEMMA RecordAppends ==
    ASSUME TypeOK, NEW r \in Rows, NEW event \in {"callback_delivered", "callback_failed"},
           Record(r, event)
    PROVE  \A s \in Rows : \A n \in DOMAIN log'[s] :
               \/ n \in DOMAIN log[s] /\ log'[s][n] = log[s][n]
               \/ s = r /\ log'[s][n] = event
<1>1. log[r] \in Seq({"callback_delivered", "callback_failed"})
    BY DEF TypeOK
<1>2. \A s \in Rows : log'[s] = IF s = r THEN Append(log[r], event) ELSE log[s]
    BY DEF TypeOK, Record
<1>3. \A n \in DOMAIN Append(log[r], event) :
          \/ n \in DOMAIN log[r] /\ Append(log[r], event)[n] = log[r][n]
          \/ Append(log[r], event)[n] = event
    BY <1>1
<1> QED BY <1>2, <1>3

(* Only a 2xx answer makes a row or a ledger entry say delivered. *)
LEMMA AckedStep ==
    Inductive /\ DeliveredMeansAcked /\ [Next]_vars => DeliveredMeansAcked'
<1> SUFFICES ASSUME Inductive, DeliveredMeansAcked, [Next]_vars,
                    NEW s \in Rows
             PROVE  AckedOf(s)'
    BY DEF DeliveredMeansAcked, AckedOf
<1> USE DEF Inductive
<1>a. AckedOf(s)
    BY AckedByRow
<1>1. ASSUME NEW r \in Rows, Enqueue(r) PROVE AckedOf(s)'
    BY <1>1, <1>a DEF Enqueue, SetRow, AckedOf, TypeOK
<1>2. ASSUME NEW i \in Instances, NEW S \in SUBSET Rows, ClaimBatch(i, S) PROVE AckedOf(s)'
    BY <1>2, <1>a DEF ClaimBatch, AckedOf, TypeOK
<1>3. ASSUME NEW r \in Rows, NEW g \in ClaimIds, Start(r, g) PROVE AckedOf(s)'
    BY <1>3, <1>a DEF Start, AckedOf
<1>4. ASSUME NEW r \in Rows, NEW g \in ClaimIds, Post(r, g) PROVE AckedOf(s)'
    <2>1. UNCHANGED <<row, log>> /\ r \notin Insecure
        BY <1>4 DEF Post, Carried
    <2>2. /\ heard[s].ok => heard'[s].ok
          /\ s # r => heard'[s] = heard[s]
        BY <1>4 DEF Post, TypeOK
    <2> QED BY <1>a, <2>1, <2>2 DEF AckedOf
<1>5. ASSUME NEW r \in Rows, NEW g \in ClaimIds, Finish(r, g) PROVE AckedOf(s)'
    <2> DEFINE n == work[r][g].attempts
               reply == work[r][g].reply
    <2>1. /\ n \in 0..MaxAttempts /\ reply \in Replies \cup {"refused"}
          /\ reply = "ok" => heard[r].ok
          /\ heard' = heard
        BY <1>5 DEF Finish, TypeOK, Carried
    <2>2. CASE UNCHANGED <<row, log>>
        BY <1>a, <2>1, <2>2 DEF AckedOf
    <2>3. CASE RecordReply(r, n, reply)
        <3>1. CASE reply = "ok" /\ MarkDelivered(r, n)
            <4>1. CASE s = r
                BY <1>a, <2>1, <3>1, <4>1 DEF AckedOf
            <4>2. CASE s # r
                BY <1>a, <2>1, <3>1, <4>2 DEF MarkDelivered, SetRow, Record, AckedOf, TypeOK
            <4> QED BY <4>1, <4>2
        <3>2. CASE ExhaustRow(r, n)
            <4>1. row'[s].status = "delivered" => row[s].status = "delivered"
                BY <3>2 DEF ExhaustRow, SetRow, TypeOK
            <4>2. \A m \in DOMAIN log'[s] :
                      \/ m \in DOMAIN log[s] /\ log'[s][m] = log[s][m]
                      \/ log'[s][m] = "callback_failed"
                BY <3>2, RecordAppends DEF ExhaustRow
            <4> QED BY <1>a, <2>1, <4>1, <4>2 DEF AckedOf
        <3>3. CASE Reschedule(r, n)
            BY <1>a, <2>1, <3>3 DEF Reschedule, SetRow, AckedOf, TypeOK
        <3> HIDE DEF n, reply
        <3> QED BY <2>1, <2>3, <3>1, <3>2, <3>3, RecordReplyCases
    <2> QED BY <1>5, <2>2, <2>3 DEF Finish
<1>6. ASSUME NEW r \in Rows, Age(r) PROVE AckedOf(s)'
    BY <1>6, <1>a DEF Age, AckedOf
<1>7. ASSUME Reap PROVE AckedOf(s)'
    BY <1>7, <1>a DEF Reap, Stuck, AckedOf, TypeOK
<1>8. ASSUME NEW r \in Rows, ReplayDelivery(r) PROVE AckedOf(s)'
    <2>1. /\ heard' = [heard EXCEPT ![r] = [Silence EXCEPT !.ok = heard[r].ok]]
          /\ row' = [row EXCEPT ![r] = [status |-> "pending", attempts |-> 0]]
          /\ log' = log
        BY <1>8 DEF ReplayDelivery, SetRow
    <2>2. heard[s] = Silence => heard'[s] = Silence
        BY <2>1 DEF TypeOK, Silence
    <2>3. heard'[s].ok = heard[s].ok
        BY <2>1 DEF TypeOK, Silence
    <2>4. row'[s].status = "delivered" => row[s].status = "delivered"
        BY <2>1 DEF TypeOK
    <2> QED BY <1>a, <2>1, <2>2, <2>3, <2>4 DEF AckedOf
<1>9. ASSUME NEW i \in Instances, Crash(i) PROVE AckedOf(s)'
    BY <1>9, <1>a DEF Crash, AckedOf
<1>10. CASE UNCHANGED vars
    BY <1>10, <1>a DEF vars, AckedOf
<1> QED
    BY <1>1, <1>2, <1>3, <1>4, <1>5, <1>6, <1>7, <1>8, <1>9, <1>10 DEF Next, Deliver

(* Whatever is reaped, crashed, replayed or overtaken, with or without the *)
(* two minutes being enough: the table and the ledger call a callback      *)
(* delivered only after a 2xx, and a refused address never gets a request. *)
THEOREM DeliveredOnlyWhenAcked == Spec => []DeliveredMeansAcked
<1>1. Init => DeliveredMeansAcked
    BY DEF Init, DeliveredMeansAcked
<1> QED BY <1>1, InductiveInit, InductiveStep, AckedStep, PTL DEF Spec
===============================================================================
