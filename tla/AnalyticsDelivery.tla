------------------------- MODULE AnalyticsDelivery -------------------------
(***************************************************************************)
(* What the event pipeline promises its callers, with no table, lease or   *)
(* worker in sight.  An event the outbox accepted is owed to the analytics *)
(* receiver until the receiver has it, or until the dispatcher abandons it *)
(* after its last attempt.  A late answer may still deliver an abandoned   *)
(* event, and a late failure may put it back on the list of owed ones; an  *)
(* event the receiver has is never owed again.                             *)
(***************************************************************************)
EXTENDS FiniteSets

CONSTANT Event

VARIABLES
  owed,       \* accepted, neither received nor abandoned
  received,   \* the receiver has it
  abandoned   \* given up on, never received

vars == <<owed, received, abandoned>>

Init ==
  /\ owed = {}
  /\ received = {}
  /\ abandoned = {}

Accept(S) ==
  /\ S \cap (owed \cup received \cup abandoned) = {}
  /\ owed' = owed \cup S
  /\ UNCHANGED <<received, abandoned>>

Deliver(S) ==
  /\ S \subseteq owed \cup abandoned
  /\ received' = received \cup S
  /\ owed' = owed \ S
  /\ abandoned' = abandoned \ S

Abandon(S) ==
  /\ S \subseteq owed
  /\ owed' = owed \ S
  /\ abandoned' = abandoned \cup S
  /\ UNCHANGED received

Revive(S) ==
  /\ S \subseteq abandoned
  /\ owed' = owed \cup S
  /\ abandoned' = abandoned \ S
  /\ UNCHANGED received

Next ==
  \E S \in SUBSET Event : Accept(S) \/ Deliver(S) \/ Abandon(S) \/ Revive(S)

(***************************************************************************)
(* The promise in time: no event stays owed for ever.                      *)
(***************************************************************************)
Settle(e) ==
  /\ e \in owed
  /\ \E S \in SUBSET Event : e \in S /\ (Deliver(S) \/ Abandon(S))

Safety == Init /\ [][Next]_vars

Spec == Safety /\ \A e \in Event : WF_vars(Settle(e))
=============================================================================
