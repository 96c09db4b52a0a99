--------------------------- MODULE DeliveryPromise ---------------------------
(***************************************************************************)
(* What a delivery promises its owner, with no workers, rows or deadlines:  *)
(* an operation is opened once and closed once; at most one copy of its     *)
(* message reaches LINE; "succeeded" and "failed" are facts, "unknown" is   *)
(* open to a copy that arrives late; a receipt only follows a copy.         *)
(***************************************************************************)
EXTENDS Naturals

CONSTANT Operations

VARIABLES
  stage,     \* none, open, or the outcome recorded for good
  copies,    \* messages LINE accepted for the operation
  confirmed  \* the recipient's receipt is recorded

vars == <<stage, copies, confirmed>>

Init ==
  /\ stage = [op \in Operations |-> "none"]
  /\ copies = [op \in Operations |-> 0]
  /\ confirmed = [op \in Operations |-> FALSE]

Accept(op) ==
  /\ stage[op] = "none"
  /\ stage' = [stage EXCEPT ![op] = "open"]
  /\ UNCHANGED <<copies, confirmed>>

Deliver(op) ==
  /\ stage[op] \in {"open", "unknown"} /\ copies[op] = 0
  /\ copies' = [copies EXCEPT ![op] = 1]
  /\ UNCHANGED <<stage, confirmed>>

Close(op, outcome) ==
  /\ stage[op] = "open"
  /\ outcome = "succeeded" => copies[op] = 1
  /\ outcome = "failed" => copies[op] = 0 /\ ~confirmed[op]
  /\ stage' = [stage EXCEPT ![op] = outcome]
  /\ UNCHANGED <<copies, confirmed>>

Confirm(op) ==
  /\ copies[op] = 1 /\ stage[op] # "failed" /\ ~confirmed[op]
  /\ confirmed' = [confirmed EXCEPT ![op] = TRUE]
  /\ UNCHANGED <<stage, copies>>

Next ==
  \E op \in Operations :
    \/ Accept(op) \/ Deliver(op) \/ Confirm(op)
    \/ \E outcome \in {"succeeded", "failed", "unknown"} : Close(op, outcome)

Spec == Init /\ [][Next]_vars
=============================================================================
