-------------------------- MODULE MCSenderFailover --------------------------
(***************************************************************************)
(* Small instances of SenderFailover: two or three senders, one of them    *)
(* pin-only, and two overlapping runs.                                     *)
(***************************************************************************)
EXTENDS SenderFailover, TLC

CONSTANTS s1, s2, s3, w1, w2, w3, p1, p2

MCChannel == [w \in Runs |-> IF w = w2 THEN "whatsapp" ELSE "email"]
MCNoPins == [w \in Runs |-> NoPin]
MCPins == [w \in Runs |-> IF w = w1 THEN NoPin ELSE s3]
MCStrict == [w \in Runs |-> w = w3]
=============================================================================
