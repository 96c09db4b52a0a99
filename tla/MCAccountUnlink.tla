--------------------------- MODULE MCAccountUnlink ---------------------------
(* Two tabs of one device session, two lives of the account, two recipients. *)
EXTENDS AccountUnlink, TLC

CONSTANTS t1, t2, s1
MCTabs == {t1, t2}
MCSessions == {s1}
MCSymmetry == Permutations(MCTabs)

=============================================================================
