--------------------------- MODULE MCInteractions ---------------------------
(* Finite instance of Interactions: a message, a postback and a follow in   *)
(* batches that overlap.                                                    *)
EXTENDS Interactions, TLC

CONSTANTS follow, message, postback

MCEvents == {follow, message, postback}
MCBatches == {<<follow, message>>, <<postback>>}
Symmetry == Permutations(Requests)
=============================================================================
