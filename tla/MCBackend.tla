------------------------------ MODULE MCBackend ------------------------------
(***************************************************************************)
(* Two systems of the backend that do not share a variable, checked side by *)
(* side: the initial state chooses one of them, and the other stays as it   *)
(* is.  Nothing is said of how they interact.                               *)
(*                                                                          *)
(* The ingress gets a follow, a message and an event of a type without      *)
(* handler, in batches that repeat, overlap and nest.  The rotation has one *)
(* channel, two processes with requests on it and two commands.             *)
(***************************************************************************)
EXTENDS WebhookIngress, KeyRotation, TLC

CONSTANTS follow, message, other, p1, p2, t1, t2

VARIABLE scene

backendVars == <<scene, vars, rotationVars>>

MCEvents == {follow, message, other}
MCBatches == {<<>>, <<message>>, <<follow, message>>, <<message, other, message>>}

BackendInit == scene \in {"webhook", "keys"} /\ Init /\ RotationInit

BackendNext ==
  /\ UNCHANGED scene
  /\ \/ scene = "webhook" /\ Next /\ UNCHANGED rotationVars
     \/ scene = "keys" /\ RotationNext /\ UNCHANGED vars

BackendSpec == BackendInit /\ [][BackendNext]_backendVars

(* Requests, and in the other system processes with commands, change places *)
(* independently.                                                           *)
Symmetry ==
  Permutations(Requests) \cup Permutations({p1, p2}) \cup Permutations({t1, t2})
=============================================================================
