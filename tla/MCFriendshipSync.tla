-------------------------- MODULE MCFriendshipSync --------------------------
(* A worker and two requests of the owner, two events of which one may be a  *)
(* stray one and each may come again, two recipient rows and two lives of    *)
(* the account.  Only one worker at a time can hold the lock of the channel, *)
(* and one that does not hold it has not begun.                              *)
EXTENDS FriendshipSync, TLC

CONSTANTS h1, c1, c2

MCHandlers == {h1}
MCClients == {c1, c2}
MCIds == 1 .. 2
MCSymmetry == Permutations(MCClients)
=============================================================================
