--------------------------- MODULE MCStatusPoller ---------------------------
(***************************************************************************)
(* Small instances of StatusPoller: two messages of one sender, which one  *)
(* batch reports together, or of two, so that one may be paused alone.     *)
(***************************************************************************)
EXTENDS StatusPoller, TLC

CONSTANTS m1, m2, s1, s2, h1, h2

MCSender == [m \in Msgs |-> s1]
MCSender2 == m1 :> s1 @@ m2 :> s2

MCSymmetry == Permutations({m1, m2}) \cup Permutations({h1, h2})
=============================================================================
