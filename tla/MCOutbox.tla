------------------------------ MODULE MCOutbox ------------------------------
(***************************************************************************)
(* Small instances of Outbox: three rows for two destinations, so that one *)
(* batch holds a group of two and a group of one.                          *)
(***************************************************************************)
EXTENDS Outbox, TLC

CONSTANTS r1, r2, r3, d1, d2, w1, w2

MCDest == r1 :> d1 @@ r2 :> d1 @@ r3 :> d2
MCDest2 == r1 :> d1 @@ r2 :> d1
MCDest3 == r1 :> d1 @@ r2 :> d2

MCSymmetry == Permutations({r1, r2}) \cup Permutations({w1, w2})
=============================================================================
