--------------------------- MODULE CallbackPromise ---------------------------
(***************************************************************************)
(* What Paystable promises about one queued callback: it is marked         *)
(* delivered only after the merchant acknowledged it, and that is final;   *)
(* given up for good reason otherwise, until an operator replays it; and   *)
(* each of these decisions is written to the ledger when it is made.       *)
(***************************************************************************)
EXTENDS Sequences

CONSTANTS
    Rows,
    Refused    \* rows whose address is never called: hopeless from the start

VARIABLES
    state,     \* "absent", "open", "delivered" or "exhausted"
    acked,     \* the merchant has answered 2xx
    hopeless,  \* there is a reason to give up
    log        \* ledger rows of the delivery worker

vars == <<state, acked, hopeless, log>>

Init ==
    /\ state = [r \in Rows |-> "absent"]
    /\ acked = [r \in Rows |-> FALSE]
    /\ hopeless = [r \in Rows |-> r \in Refused]
    /\ log = [r \in Rows |-> <<>>]

Queue(r) ==
    /\ state[r] = "absent"
    /\ state' = [state EXCEPT ![r] = "open"]
    /\ UNCHANGED <<acked, hopeless, log>>

(* What the attempts find out; nothing is decided by it. *)
Learn(r) ==
    /\ state[r] # "absent"
    /\ \E a \in {acked[r], TRUE} : acked' = [acked EXCEPT ![r] = a]
    /\ \E h \in {hopeless[r], TRUE} : hopeless' = [hopeless EXCEPT ![r] = h]
    /\ UNCHANGED <<state, log>>

Deliver(r) ==
    /\ state[r] = "open" /\ acked[r]
    /\ state' = [state EXCEPT ![r] = "delivered"]
    /\ log' = [log EXCEPT ![r] = Append(@, "callback_delivered")]
    /\ UNCHANGED <<acked, hopeless>>

GiveUp(r) ==
    /\ state[r] = "open" /\ hopeless[r]
    /\ state' = [state EXCEPT ![r] = "exhausted"]
    /\ log' = [log EXCEPT ![r] = Append(@, "callback_failed")]
    /\ UNCHANGED <<acked, hopeless>>

Replay(r) ==
    /\ state[r] = "exhausted"
    /\ state' = [state EXCEPT ![r] = "open"]
    /\ hopeless' = [hopeless EXCEPT ![r] = r \in Refused]
    /\ UNCHANGED <<acked, log>>

Next == \E r \in Rows :
    Queue(r) \/ Learn(r) \/ Deliver(r) \/ GiveUp(r) \/ Replay(r)

Spec == Init /\ [][Next]_vars
==============================================================================
