----------------------------- MODULE MCRichMenus -----------------------------
(* Three operations, two requests at a time. *)
EXTENDS ChannelDeactivation, TLC

CONSTANTS o1, o2, o3, w1, w2
MCOps == {o1, o2, o3}
MCWorkers == {w1, w2}
MCSymmetry == {p @@ q : p \in Permutations(MCOps), q \in Permutations(MCWorkers)}

=============================================================================
