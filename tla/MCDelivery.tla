----------------------------- MODULE MCDelivery -----------------------------
(* Finite instance of Delivery for TLC.  Requests, operations and webhook   *)
(* events are interchangeable in every safety property.                     *)
EXTENDS Delivery, TLC

Symmetry == Permutations(Requests) \cup Permutations(Operations)
              \cup Permutations(Taps)
=============================================================================
