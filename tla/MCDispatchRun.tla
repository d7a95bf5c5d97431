---------------------------- MODULE MCDispatchRun ----------------------------
(***************************************************************************)
(* Instances of DispatchRun for TLC: production over a pool with one run   *)
(* of each channel, and development over SQLite, where the check for an    *)
(* earlier delivery concerns email runs only.                              *)
(***************************************************************************)
EXTENDS DispatchRun
CONSTANTS d1, d2, u1, u2
AllEmail == [d \in Runs |-> "email"]
Mixed == [d \in Runs |-> IF d = d1 THEN "email" ELSE "whatsapp"]
Production(channel, pooled) == [channel |-> channel, dev |-> FALSE, pooled |-> pooled]
Development == [channel |-> AllEmail, dev |-> TRUE, pooled |-> FALSE]
MCBoth == {Production(Mixed, TRUE), Development}
MCMixed == {Production(Mixed, FALSE)}
MCEmail == {Production(AllEmail, FALSE)}
=============================================================================
