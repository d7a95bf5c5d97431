---------------------------- MODULE OutboxProofs ----------------------------
(***************************************************************************)
(* What TLAPS proves of Outbox, for any rows, destinations, workers, modes *)
(* and bounds: the type invariant, that a delivered row was received, that *)
(* nothing is lost, that every POST is counted, and that the outbox        *)
(* implements AnalyticsDelivery; and, while no two running batches share   *)
(* a row, that only a fault repeats an event and that delivered is final.  *)
(***************************************************************************)
EXTENDS Outbox, FiniteSetTheorems, TLAPS

USE DEF table, locals, history

LEMMA BackoffType == \A n : Backoff(n) \in Nat
BY TimeAssumption DEF Backoff

LEMMA RemainingType ==
  ASSUME TypeOK, NEW w \in Workers, NEW delay \in Nat
  PROVE  Remaining(delay, w) \in Nat
BY DEF Remaining, TypeOK

\* Advance keeps the types of the local variables it assigns.
LEMMA AdvanceType ==
  ASSUME TypeOK, NEW w \in Workers, NEW rest \in SUBSET Rows, Advance(w, rest)
  PROVE  /\ pc' \in [Workers -> {"idle", "mark", "post", "settle"}]
         /\ batch' \in [Workers -> SUBSET Rows] /\ group' \in [Workers -> SUBSET Rows]
         /\ snap' \in [Workers -> [Rows -> Nat]]
         /\ result' \in [Workers -> Answers \cup {"none"}]
         /\ age' \in [Workers -> Nat]
<1>1. pc' \in [Workers -> {"idle", "mark", "post", "settle"}]
  BY DEF TypeOK, Advance
<1>2. batch' \in [Workers -> SUBSET Rows] /\ group' \in [Workers -> SUBSET Rows]
  BY DEF TypeOK, Advance
<1>3. snap' \in [Workers -> [Rows -> Nat]]
  <2>1. [r \in Rows |-> IF r \in rest THEN snap[w][r] ELSE 0] \in [Rows -> Nat]
    BY DEF TypeOK
  <2>2. QED BY <2>1 DEF TypeOK, Advance
<1>4. result' \in [Workers -> Answers \cup {"none"}]
  BY DEF TypeOK, Advance
<1>5. age' \in [Workers -> Nat]
  BY DEF TypeOK, Advance
<1>6. QED BY <1>1, <1>2, <1>3, <1>4, <1>5

\* Every variable keeps its type, in every instance of the outbox.
THEOREM TypeCorrect == Spec => []TypeOK
<1>1. Init => TypeOK
  BY DEF Init, TypeOK, Statuses, Answers
<1>2. TypeOK /\ [Next]_vars => TypeOK'
  <2> SUFFICES ASSUME TypeOK, [Next]_vars PROVE TypeOK'
    OBVIOUS
  <2>1. ASSUME NEW S \in SUBSET Rows, Enqueue(S) PROVE TypeOK'
    BY <2>1 DEF TypeOK, Enqueue, Statuses
  <2>2. ASSUME NEW w \in Workers, Select(w) PROVE TypeOK'
    <3>1. PICK S \in SUBSET Rows :
            /\ batch' = [batch EXCEPT ![w] = S]
            /\ snap' = [snap EXCEPT ![w] = [r \in Rows |-> IF r \in S THEN attempts[r] ELSE 0]]
            /\ pc' = [pc EXCEPT ![w] = IF S = {} THEN "idle" ELSE "mark"]
      BY <2>2 DEF Select, Due
    <3>2. [r \in Rows |-> IF r \in S THEN attempts[r] ELSE 0] \in [Rows -> Nat]
      BY DEF TypeOK
    <3>3. snap' \in [Workers -> [Rows -> Nat]]
      BY <3>1, <3>2 DEF TypeOK
    <3>4. kicks' \in Nat
      BY <2>2 DEF Select, TypeOK
    <3>5. QED
      BY <2>2, <3>1, <3>3, <3>4 DEF Select, TypeOK
  <2>3. ASSUME NEW w \in Workers, Mark(w) PROVE TypeOK'
    <3>1. Remaining(Lease, w) \in Nat
      BY RemainingType, TimeAssumption
    <3>2. QED
      BY <2>3, <3>1 DEF Mark, TypeOK, Statuses
  <2>4. ASSUME NEW w \in Workers, Post(w) PROVE TypeOK'
    <3>1. PICK G \in SUBSET batch[w], answer \in Answers :
            /\ faults' = IF answer = "lost" THEN faults + 1 ELSE faults
            /\ posted' = [r \in Rows |-> IF r \in G THEN posted[r] + 1 ELSE posted[r]]
            /\ IF answer \in {"ok", "lost"}
                 THEN /\ received' = received \cup G
                      /\ repeated' = repeated \cup (G \cap received)
                 ELSE UNCHANGED <<received, repeated>>
            /\ group' = [group EXCEPT ![w] = G]
            /\ result' = [result EXCEPT ![w] = answer]
            /\ pc' = [pc EXCEPT ![w] = "settle"]
            /\ UNCHANGED <<table, batch, snap, age, calls, kicks, terminal>>
      BY <2>4 DEF Post
    <3>2. G \subseteq Rows
      BY DEF TypeOK
    <3>3. posted' \in [Rows -> Nat] /\ faults' \in Nat
      BY <3>1 DEF TypeOK
    <3>4. received' \subseteq Rows /\ repeated' \subseteq Rows
      BY <3>1, <3>2 DEF TypeOK
    <3>5. group' \in [Workers -> SUBSET Rows]
      BY <3>1, <3>2 DEF TypeOK
    <3>6. result' \in [Workers -> Answers \cup {"none"}]
      BY <3>1 DEF TypeOK
    <3>7. pc' \in [Workers -> {"idle", "mark", "post", "settle"}]
      BY <3>1 DEF TypeOK
    <3>8. QED
      BY <3>1, <3>3, <3>4, <3>5, <3>6, <3>7 DEF TypeOK
  <2>5. ASSUME NEW w \in Workers, SettleDelivered(w) PROVE TypeOK'
    <3>1. batch[w] \ group[w] \in SUBSET Rows
      BY DEF TypeOK
    <3>2. Advance(w, batch[w] \ group[w])
      BY <2>5 DEF SettleDelivered
    <3>3. status' \in [Rows -> Statuses]
      BY <2>5 DEF SettleDelivered, TypeOK, Statuses
    <3>4. QED
      BY <2>5, <3>1, <3>2, <3>3, AdvanceType DEF SettleDelivered, TypeOK
  <2>6. ASSUME NEW w \in Workers, SettleFailed(w) PROVE TypeOK'
    <3>1. batch[w] \ group[w] \in SUBSET Rows
      BY DEF TypeOK
    <3>2. Advance(w, batch[w] \ group[w])
      BY <2>6 DEF SettleFailed
    <3>3. status' \in [Rows -> Statuses]
      BY <2>6 DEF SettleFailed, TypeOK, Statuses
    <3>4. Remaining(Backoff(GroupAttempts(w)), w) \in Nat
      BY RemainingType, BackoffType
    <3>5. wait' \in [Rows -> Nat]
      BY <2>6, <3>4 DEF SettleFailed, TypeOK
    <3>6. terminal' \subseteq Rows
      BY <2>6 DEF SettleFailed, TypeOK
    <3>7. QED
      BY <2>6, <3>1, <3>2, <3>3, <3>5, <3>6, AdvanceType DEF SettleFailed, TypeOK
  <2>7. ASSUME NEW w \in Workers, WorkerFails(w) PROVE TypeOK'
    <3>1. Advance(w, {}) /\ {} \in SUBSET Rows
      BY <2>7 DEF WorkerFails
    <3>2. QED
      BY <2>7, <3>1, AdvanceType DEF WorkerFails, TypeOK
  <2>8. CASE CallerFails
    BY <2>8 DEF CallerFails, TypeOK
  <2>9. CASE Crash
    BY <2>9 DEF Crash, TypeOK
  <2>10. ASSUME NEW r \in Rows, Sweep(r) PROVE TypeOK'
    BY <2>10 DEF Sweep, TypeOK, Statuses
  <2>11. CASE Tick
    <3>1. wait' \in [Rows -> Nat]
      BY <2>11 DEF Tick, TypeOK
    <3>2. age' \in [Workers -> Nat]
      BY <2>11 DEF Tick, TypeOK
    <3>3. QED
      BY <2>11, <3>1, <3>2 DEF Tick, TypeOK
  <2>12. CASE UNCHANGED vars
    BY <2>12 DEF vars, TypeOK
  <2>13. QED
    BY <2>1, <2>2, <2>3, <2>4, <2>5, <2>6, <2>7, <2>8, <2>9, <2>10, <2>11, <2>12 DEF Next
<1>3. QED
  BY <1>1, <1>2, PTL DEF Spec

-----------------------------------------------------------------------------
(***************************************************************************)
(* ReceiptInv is inductive relative to TypeOK.                             *)
(***************************************************************************)
LEMMA ReceiptStep == TypeOK /\ ReceiptInv /\ [Next]_vars => ReceiptInv'
<1> SUFFICES ASSUME TypeOK, ReceiptInv, [Next]_vars PROVE ReceiptInv'
  OBVIOUS
<1>1. ASSUME NEW S \in SUBSET Rows, Enqueue(S) PROVE ReceiptInv'
  BY <1>1 DEF TypeOK, ReceiptInv, Enqueue
<1>2. ASSUME NEW w \in Workers, Select(w) PROVE ReceiptInv'
  <2>1. PICK S \in SUBSET Due : batch' = [batch EXCEPT ![w] = S] /\ pc[w] = "idle"
    BY <1>2 DEF Select
  <2>2. UNCHANGED <<status, received, terminal, group, result>>
    BY <1>2 DEF Select
  <2>3. \A r \in S : status[r] # "absent"
    BY <2>1 DEF Due
  <2>4. ASSUME NEW v \in Workers PROVE \A r \in batch'[v] : status'[r] # "absent"
    BY <2>1, <2>2, <2>3 DEF ReceiptInv, TypeOK
  <2>5. ASSUME NEW v \in Workers PROVE group'[v] \subseteq batch'[v]
    <3>1. group[w] = {}
      BY <2>1 DEF ReceiptInv
    <3>2. QED
      BY <2>1, <2>2, <3>1 DEF ReceiptInv, TypeOK
  <2>6. ASSUME NEW v \in Workers
        PROVE  pc'[v] # "settle" => group'[v] = {} /\ result'[v] = "none"
    BY <1>2, <2>1 DEF ReceiptInv, TypeOK, Select
  <2>7. QED
    BY <2>2, <2>4, <2>5, <2>6 DEF ReceiptInv
<1>3. ASSUME NEW w \in Workers, Mark(w) PROVE ReceiptInv'
  <2>1. ASSUME NEW r \in Rows
        PROVE  /\ status'[r] \in {status[r], "delivering"}
               /\ status[r] = "absent" <=> status'[r] = "absent"
    BY <1>3 DEF Mark, Present, TypeOK
  <2>2. ASSUME NEW v \in Workers PROVE pc'[v] # "settle" <=> pc[v] # "settle"
    BY <1>3 DEF Mark, TypeOK
  <2>3. UNCHANGED <<received, terminal, group, result, batch>>
    BY <1>3 DEF Mark
  <2>4. QED
    BY <2>1, <2>2, <2>3 DEF ReceiptInv, TypeOK
<1>4. ASSUME NEW w \in Workers, Post(w) PROVE ReceiptInv'
  <2>1. PICK G \in SUBSET batch[w], answer \in Answers :
          /\ IF answer \in {"ok", "lost"}
               THEN received' = received \cup G
               ELSE received' = received
          /\ group' = [group EXCEPT ![w] = G]
          /\ result' = [result EXCEPT ![w] = answer]
          /\ pc' = [pc EXCEPT ![w] = "settle"]
          /\ UNCHANGED <<status, batch, terminal>>
    BY <1>4 DEF Post
  <2>2. received \subseteq received' /\ \A r \in received' \ received : r \in batch[w]
    BY <2>1
  <2>3. ASSUME NEW v \in Workers PROVE result'[v] = "ok" => group'[v] \subseteq received'
    BY <2>1, <2>2 DEF ReceiptInv, TypeOK
  <2>4. ASSUME NEW v \in Workers
        PROVE  /\ group'[v] \subseteq batch'[v]
               /\ pc'[v] # "settle" => group'[v] = {} /\ result'[v] = "none"
    BY <2>1 DEF ReceiptInv, TypeOK
  <2>5. QED
    BY <2>1, <2>2, <2>3, <2>4 DEF ReceiptInv
<1>5. ASSUME NEW w \in Workers, NEW rest \in SUBSET batch[w], Advance(w, rest)
      PROVE  \A v \in Workers :
               /\ pc'[v] # "settle" => group'[v] = {} /\ result'[v] = "none"
               /\ group'[v] \subseteq batch'[v]
               /\ batch'[v] \subseteq batch[v]
               /\ result'[v] = "ok" => group'[v] = group[v] /\ result[v] = "ok"
  BY <1>5 DEF Advance, ReceiptInv, TypeOK
<1>6. ASSUME NEW w \in Workers, SettleDelivered(w) PROVE ReceiptInv'
  <2>1. Advance(w, batch[w] \ group[w]) /\ UNCHANGED <<received, terminal>>
    BY <1>6 DEF SettleDelivered
  <2>2. ASSUME NEW r \in Rows
        PROVE  /\ status'[r] = status[r] \/ (status'[r] = "delivered" /\ r \in received)
               /\ status[r] = "absent" <=> status'[r] = "absent"
    BY <1>6 DEF SettleDelivered, Present, ReceiptInv, TypeOK
  <2>3. QED
    BY <1>5, <2>1, <2>2 DEF ReceiptInv, TypeOK
<1>7. ASSUME NEW w \in Workers, SettleFailed(w) PROVE ReceiptInv'
  <2>1. Advance(w, batch[w] \ group[w]) /\ UNCHANGED received
    BY <1>7 DEF SettleFailed
  <2>2. ASSUME NEW r \in Rows
        PROVE  /\ status'[r] \in {status[r], "pending"} \/ (status'[r] = "failed" /\ r \in terminal')
               /\ status[r] = "absent" <=> status'[r] = "absent"
               /\ r \in terminal => r \in terminal'
    BY <1>7 DEF SettleFailed, Present, ReceiptInv, TypeOK
  <2>3. QED
    BY <1>5, <2>1, <2>2 DEF ReceiptInv, TypeOK
<1>8. ASSUME NEW w \in Workers, WorkerFails(w) PROVE ReceiptInv'
  <2>1. Advance(w, {}) /\ UNCHANGED <<status, received, terminal>>
    BY <1>8 DEF WorkerFails
  <2>2. QED
    BY <1>5, <2>1 DEF ReceiptInv, TypeOK
<1>9. CASE CallerFails
  BY <1>9 DEF CallerFails, ReceiptInv
<1>10. CASE Crash
  BY <1>10 DEF Crash, ReceiptInv
<1>11. ASSUME NEW r \in Rows, Sweep(r) PROVE ReceiptInv'
  BY <1>11 DEF Sweep, ReceiptInv, TypeOK
<1>12. CASE Tick
  BY <1>12 DEF Tick, ReceiptInv
<1>13. CASE UNCHANGED vars
  BY <1>13 DEF vars, ReceiptInv
<1>14. QED
  BY <1>1, <1>2, <1>3, <1>4, <1>6, <1>7, <1>8, <1>9, <1>10, <1>11, <1>12, <1>13 DEF Next

\* The invariant holds in every reachable state.
LEMMA ReceiptAlways == Spec => []ReceiptInv
<1>1. Init => ReceiptInv
  BY DEF Init, ReceiptInv
<1>2. QED
  BY <1>1, ReceiptStep, TypeCorrect, PTL DEF Spec

\* A delivered row was received, whatever batches overlap and whenever the
\* process crashes.
THEOREM DeliveredCorrect == Spec => []DeliveredWasReceived
<1>1. ReceiptInv => DeliveredWasReceived
  BY DEF ReceiptInv, DeliveredWasReceived
<1>2. QED
  BY <1>1, ReceiptAlways, PTL

\* No accepted event disappears: it is live, received, or given up on.
THEOREM NothingLostCorrect == Spec => []NothingLost
<1>1. TypeOK /\ ReceiptInv => NothingLost
  BY DEF TypeOK, ReceiptInv, NothingLost, Statuses
<1>2. QED
  BY <1>1, ReceiptAlways, TypeCorrect, PTL

-----------------------------------------------------------------------------
(***************************************************************************)
(* Every step of the outbox is a step of the promise, or none.             *)
(***************************************************************************)
LEMMA PromiseStep ==
  TypeOK /\ ReceiptInv /\ [Next]_vars => [Promise!Next]_(<<Owed, received, Abandoned>>)
<1> SUFFICES ASSUME TypeOK, ReceiptInv, [Next]_vars
             PROVE  [Promise!Next]_(<<Owed, received, Abandoned>>)
  OBVIOUS
<1> DEFINE Same == UNCHANGED <<Owed, received, Abandoned>>
<1>1. ASSUME NEW S \in SUBSET Rows, Enqueue(S) PROVE Promise!Accept(S)
  BY <1>1 DEF Enqueue, Promise!Accept, Owed, Abandoned, TypeOK, ReceiptInv
<1>2. ASSUME NEW w \in Workers, Mark(w)
      PROVE  \E S \in SUBSET Rows : Promise!Revive(S)
  <2> DEFINE S == Abandoned \cap {r \in batch[w] : Present(r)}
  <2>1. S \in SUBSET Rows /\ S \subseteq Abandoned
    BY DEF Abandoned
  <2>2. Owed' = Owed \cup S
    BY <1>2 DEF Mark, Owed, Abandoned, Present, TypeOK, ReceiptInv, Statuses
  <2>3. Abandoned' = Abandoned \ S
    BY <1>2 DEF Mark, Owed, Abandoned, Present, TypeOK
  <2>4. UNCHANGED received
    BY <1>2 DEF Mark
  <2>5. QED
    BY <2>1, <2>2, <2>3, <2>4 DEF Promise!Revive
<1>3. ASSUME NEW w \in Workers, Post(w)
      PROVE  Same \/ \E S \in SUBSET Rows : Promise!Deliver(S)
  <2>1. PICK G \in SUBSET batch[w] :
          received' \in {received, received \cup G} /\ UNCHANGED <<status, terminal>>
    BY <1>3 DEF Post
  <2>2. CASE received' = received
    BY <2>1, <2>2 DEF Owed, Abandoned
  <2>3. CASE received' = received \cup G
    <3> DEFINE S == G \ received
    <3>1. S \in SUBSET Rows /\ S \subseteq Owed \cup Abandoned
      BY DEF TypeOK, ReceiptInv, Owed, Abandoned, Statuses
    <3>2. received' = received \cup S /\ Owed' = Owed \ S /\ Abandoned' = Abandoned \ S
      BY <2>1, <2>3 DEF Owed, Abandoned
    <3>3. QED
      BY <3>1, <3>2 DEF Promise!Deliver
  <2>4. QED
    BY <2>1, <2>2, <2>3
<1>4. ASSUME NEW w \in Workers, SettleDelivered(w) PROVE Same
  <2>1. UNCHANGED <<received, terminal>>
    BY <1>4 DEF SettleDelivered
  <2>2. \A r \in Rows : r \notin received => status'[r] = status[r]
    BY <1>4 DEF SettleDelivered, TypeOK, ReceiptInv
  <2>3. QED
    BY <2>1, <2>2 DEF Owed, Abandoned
<1>5. ASSUME NEW w \in Workers, SettleFailed(w)
      PROVE  \E S \in SUBSET Rows : Promise!Abandon(S) \/ Promise!Revive(S)
  <2> DEFINE hit == {r \in group[w] : Present(r)}
             giveUp == GroupAttempts(w) >= MaxAttempts
  <2>1. hit \subseteq Rows /\ received' = received
    BY <1>5 DEF TypeOK, SettleFailed
  <2>2. CASE giveUp
    <3> DEFINE S == hit \cap Owed
    <3>1. status' = [r \in Rows |-> IF r \in hit THEN "failed" ELSE status[r]]
          /\ terminal' = terminal \cup hit
      BY <1>5, <2>2 DEF SettleFailed
    <3> HIDE DEF giveUp
    <3>2. Owed' = Owed \ S
      BY <2>1, <3>1 DEF Owed, TypeOK
    <3>3. Abandoned' = Abandoned \cup S
      BY <2>1, <3>1 DEF Owed, Abandoned, TypeOK, Present, ReceiptInv, Statuses
    <3>4. QED
      BY <2>1, <3>2, <3>3 DEF Promise!Abandon, Owed
  <2>3. CASE ~giveUp
    <3> DEFINE S == hit \cap Abandoned
    <3>1. status' = [r \in Rows |-> IF r \in hit THEN "pending" ELSE status[r]]
          /\ terminal' = terminal
      BY <1>5, <2>3 DEF SettleFailed
    <3> HIDE DEF giveUp
    <3>2. Owed' = Owed \cup S
      BY <2>1, <3>1 DEF Owed, Abandoned, TypeOK, Present, ReceiptInv, Statuses
    <3>3. Abandoned' = Abandoned \ S
      BY <2>1, <3>1 DEF Abandoned, TypeOK, Present
    <3>4. QED
      BY <2>1, <3>2, <3>3 DEF Promise!Revive, Abandoned
  <2>4. QED
    BY <2>2, <2>3
<1>6. ASSUME NEW r \in Rows, Sweep(r) PROVE Same
  <2>1. UNCHANGED <<received, terminal>>
    BY <1>6 DEF Sweep
  <2>2. QED
    BY <1>6, <2>1 DEF Sweep, Owed, Abandoned, TypeOK, ReceiptInv
<1>7. ASSUME UNCHANGED <<status, received, terminal>> PROVE Same
  BY <1>7 DEF Owed, Abandoned
<1>8. ASSUME NEW w \in Workers, Select(w) PROVE Same
  BY <1>7, <1>8 DEF Select
<1>9. ASSUME NEW w \in Workers, WorkerFails(w) PROVE Same
  BY <1>7, <1>9 DEF WorkerFails
<1>10. CASE CallerFails \/ Crash \/ Tick \/ UNCHANGED vars
  BY <1>7, <1>10 DEF CallerFails, Crash, Tick, vars
<1>11. QED
  BY <1>1, <1>2, <1>3, <1>4, <1>5, <1>6, <1>8, <1>9, <1>10 DEF Next, Promise!Next

\* The outbox implements the promise of AnalyticsDelivery: no interleaving of
\* batches, crashes and sweeps takes an accepted event anywhere it may not go.
THEOREM PromiseImplemented == Spec => ImplementsPromise
<1>1. Init => Promise!Init
  BY DEF Init, Promise!Init, Owed, Abandoned
<1>2. QED
  BY <1>1, PromiseStep, ReceiptAlways, TypeCorrect, PTL
     DEF Spec, ImplementsPromise, Promise!Safety, Promise!vars

-----------------------------------------------------------------------------
(***************************************************************************)
(* Every POST was counted.  Batches may overlap on a row: each that has    *)
(* marked it and not posted it yet owes it one POST, which its attempts    *)
(* already count.                                                          *)
(***************************************************************************)
Owing(r) == {w \in Workers : pc[w] \in {"post", "settle"} /\ r \in batch[w] \ group[w]}

CountInv ==
  \A r \in Rows :
    /\ IsFiniteSet(Owing(r))
    /\ status[r] = "absent" => posted[r] = 0
    /\ Present(r) => posted[r] + Cardinality(Owing(r)) <= attempts[r]

\* A step that posts nothing and adds no debt.
LEMMA NoNewDebt ==
  ASSUME TypeOK, CountInv, TypeOK',
         NEW r \in Rows, Owing(r)' \subseteq Owing(r), posted'[r] = posted[r], attempts'[r] = attempts[r],
         status'[r] # status[r] => status'[r] # "absent" /\ Present(r)
  PROVE  /\ IsFiniteSet(Owing(r)')
         /\ status'[r] = "absent" => posted'[r] = 0
         /\ Present(r)' => posted'[r] + Cardinality(Owing(r)') <= attempts'[r]
<1>1. IsFiniteSet(Owing(r)) /\ Cardinality(Owing(r)) \in Nat
  BY FS_CardinalityType DEF CountInv
<1>2. IsFiniteSet(Owing(r)') /\ Cardinality(Owing(r)') <= Cardinality(Owing(r))
  BY <1>1, FS_Subset
<1>3. Cardinality(Owing(r)') \in Nat
  BY <1>2, FS_CardinalityType
<1>4. posted[r] \in Nat /\ attempts[r] \in Nat
  BY DEF TypeOK
<1>5. Present(r)' => Present(r)
  BY DEF Present
<1>6. QED BY <1>1, <1>2, <1>3, <1>4, <1>5 DEF CountInv

LEMMA CountEnqueue ==
  ASSUME TypeOK, ReceiptInv, CountInv, TypeOK', NEW S \in SUBSET Rows, Enqueue(S)
  PROVE  CountInv'
<1>1. UNCHANGED <<attempts, locals, posted>>
  BY DEF Enqueue
<1>2. ASSUME NEW r \in Rows
      PROVE  /\ IsFiniteSet(Owing(r)')
             /\ status'[r] = "absent" => posted'[r] = 0
             /\ Present(r)' => posted'[r] + Cardinality(Owing(r)') <= attempts'[r]
  <2>1. Owing(r)' = Owing(r)
    BY <1>1 DEF Owing
  <2>2. CASE r \in S
    <3>1. status[r] = "absent" /\ status'[r] = "pending"
      BY <2>2 DEF Enqueue
    <3>2. Owing(r) = {}
      BY <3>1 DEF Owing, ReceiptInv
    <3>3. posted[r] = 0 /\ attempts[r] \in Nat
      BY <3>1 DEF CountInv, TypeOK
    <3>4. QED BY <1>1, <2>1, <3>1, <3>2, <3>3, FS_EmptySet
  <2>3. CASE r \notin S
    <3>1. status'[r] = status[r]
      BY <2>3 DEF Enqueue
    <3>2. QED BY <1>1, <2>1, <3>1, NoNewDebt
  <2>4. QED BY <2>2, <2>3
<1>3. QED BY <1>2 DEF CountInv

LEMMA CountMark ==
  ASSUME TypeOK, ReceiptInv, CountInv, TypeOK', NEW w \in Workers, Mark(w)
  PROVE  CountInv'
<1>1. pc[w] = "mark" /\ pc' = [pc EXCEPT ![w] = "post"] /\ UNCHANGED <<batch, group, posted>>
  BY DEF Mark
<1>2. group[w] = {}
  BY <1>1 DEF ReceiptInv
<1>3. ASSUME NEW r \in Rows
      PROVE  /\ IsFiniteSet(Owing(r)')
             /\ status'[r] = "absent" => posted'[r] = 0
             /\ Present(r)' => posted'[r] + Cardinality(Owing(r)') <= attempts'[r]
  <2>1. CASE r \in batch[w]
    <3>1. Owing(r)' = Owing(r) \cup {w} /\ w \notin Owing(r)
      BY <1>1, <1>2, <2>1 DEF Owing, TypeOK
    <3>2. IsFiniteSet(Owing(r)) /\ Cardinality(Owing(r)) \in Nat
      BY FS_CardinalityType DEF CountInv
    <3>3. IsFiniteSet(Owing(r)') /\ Cardinality(Owing(r)') = Cardinality(Owing(r)) + 1
      BY <3>1, <3>2, FS_AddElement
    <3>4. Present(r) => attempts'[r] = attempts[r] + 1
      BY <2>1 DEF Mark, TypeOK
    <3>5. (Present(r)' => Present(r)) /\ (status'[r] = "absent" => status[r] = "absent")
      BY <2>1 DEF Mark, Present
    <3>6. posted[r] \in Nat /\ attempts[r] \in Nat
      BY DEF TypeOK
    <3>7. QED BY <1>1, <3>2, <3>3, <3>4, <3>5, <3>6 DEF CountInv
  <2>2. CASE r \notin batch[w]
    <3>1. Owing(r)' \subseteq Owing(r)
      BY <1>1, <2>2 DEF Owing, TypeOK
    <3>2. status'[r] = status[r] /\ attempts'[r] = attempts[r] /\ posted'[r] = posted[r]
      BY <1>1, <2>2 DEF Mark
    <3>3. QED BY <3>1, <3>2, NoNewDebt
  <2>3. QED BY <2>1, <2>2
<1>4. QED BY <1>3 DEF CountInv

LEMMA CountPost ==
  ASSUME TypeOK, ReceiptInv, CountInv, TypeOK', NEW w \in Workers, Post(w)
  PROVE  CountInv'
<1>1. PICK G \in SUBSET batch[w] :
        /\ posted' = [r \in Rows |-> IF r \in G THEN posted[r] + 1 ELSE posted[r]]
        /\ group' = [group EXCEPT ![w] = G]
        /\ pc' = [pc EXCEPT ![w] = "settle"]
        /\ UNCHANGED <<table, batch>>
  BY DEF Post
<1>2. pc[w] = "post" /\ group[w] = {}
  BY DEF Post, ReceiptInv
<1>3. ASSUME NEW r \in Rows
      PROVE  /\ IsFiniteSet(Owing(r)')
             /\ status'[r] = "absent" => posted'[r] = 0
             /\ Present(r)' => posted'[r] + Cardinality(Owing(r)') <= attempts'[r]
  <2>1. CASE r \in G
    <3>1. Owing(r)' = Owing(r) \ {w} /\ w \in Owing(r)
      BY <1>1, <1>2, <2>1 DEF Owing, TypeOK
    <3>2. IsFiniteSet(Owing(r)) /\ Cardinality(Owing(r)) \in Nat
      BY FS_CardinalityType DEF CountInv
    <3>3. IsFiniteSet(Owing(r)') /\ Cardinality(Owing(r)') = Cardinality(Owing(r)) - 1
      BY <3>1, <3>2, FS_RemoveElement
    <3>4. posted'[r] = posted[r] + 1 /\ status[r] # "absent"
      BY <1>1, <2>1 DEF ReceiptInv
    <3>5. posted[r] \in Nat /\ attempts[r] \in Nat
      BY DEF TypeOK
    <3>6. UNCHANGED <<status, attempts>>
      BY <1>1
    <3>7. QED BY <3>2, <3>3, <3>4, <3>5, <3>6 DEF CountInv, Present
  <2>2. CASE r \notin G
    <3>1. Owing(r)' \subseteq Owing(r)
      BY <1>1, <1>2, <2>2 DEF Owing, TypeOK
    <3>2. status'[r] = status[r] /\ attempts'[r] = attempts[r] /\ posted'[r] = posted[r]
      BY <1>1, <2>2
    <3>3. QED BY <3>1, <3>2, NoNewDebt
  <2>3. QED BY <2>1, <2>2
<1>4. QED BY <1>3 DEF CountInv

\* A batch goes on to its next group: what it owes is what was left of it.
LEMMA AdvanceOwing ==
  ASSUME TypeOK, ReceiptInv, NEW w \in Workers, pc[w] \in {"mark", "settle"},
         NEW rest \in SUBSET (batch[w] \ group[w]), Advance(w, rest),
         pc[w] = "mark" => rest = {}, NEW r \in Rows
  PROVE  Owing(r)' \subseteq Owing(r)
<1>1. /\ batch' = [batch EXCEPT ![w] = rest] /\ group' = [group EXCEPT ![w] = {}]
      /\ pc' = [pc EXCEPT ![w] = IF rest = {} THEN "idle" ELSE "post"]
  BY DEF Advance
<1>2. QED BY <1>1 DEF Owing, TypeOK

LEMMA CountStep == TypeOK /\ TypeOK' /\ ReceiptInv /\ CountInv /\ [Next]_vars => CountInv'
<1> SUFFICES ASSUME TypeOK, TypeOK', ReceiptInv, CountInv, [Next]_vars PROVE CountInv'
  OBVIOUS
<1>1. ASSUME UNCHANGED <<posted, attempts>>,
             \A r \in Rows : /\ Owing(r)' \subseteq Owing(r)
                             /\ status'[r] # status[r] => status'[r] # "absent" /\ Present(r)
      PROVE  CountInv'
  BY <1>1, NoNewDebt DEF CountInv
<1>2. ASSUME NEW w \in Workers, Select(w) PROVE CountInv'
  <2>1. UNCHANGED <<table, group, posted>> /\ pc[w] = "idle"
    BY <1>2 DEF Select
  <2>2. PICK S : /\ batch' = [batch EXCEPT ![w] = S]
                 /\ pc' = [pc EXCEPT ![w] = IF S = {} THEN "idle" ELSE "mark"]
    BY <1>2 DEF Select
  <2>3. ASSUME NEW r \in Rows PROVE Owing(r)' \subseteq Owing(r)
    BY <2>1, <2>2 DEF Owing, TypeOK
  <2>4. QED BY <1>1, <2>1, <2>3
<1>3. ASSUME NEW w \in Workers, SettleDelivered(w) PROVE CountInv'
  <2>1. pc[w] = "settle" /\ Advance(w, batch[w] \ group[w]) /\ UNCHANGED <<attempts, posted>>
    BY <1>3 DEF SettleDelivered
  <2>2. \A r \in Rows : status'[r] # status[r] => status'[r] # "absent" /\ Present(r)
    BY <1>3 DEF SettleDelivered
  <2>3. QED BY <1>1, <2>1, <2>2, AdvanceOwing
<1>4. ASSUME NEW w \in Workers, SettleFailed(w) PROVE CountInv'
  <2>1. pc[w] = "settle" /\ Advance(w, batch[w] \ group[w]) /\ UNCHANGED <<attempts, posted>>
    BY <1>4 DEF SettleFailed
  <2>2. \A r \in Rows : status'[r] # status[r] => status'[r] # "absent" /\ Present(r)
    BY <1>4 DEF SettleFailed
  <2>3. QED BY <1>1, <2>1, <2>2, AdvanceOwing
<1>5. ASSUME NEW w \in Workers, WorkerFails(w) PROVE CountInv'
  <2>1. pc[w] \in {"mark", "settle"} /\ Advance(w, {}) /\ UNCHANGED <<status, attempts, posted>>
    BY <1>5 DEF WorkerFails
  <2>2. \A r \in Rows : Owing(r)' \subseteq Owing(r)
    BY <2>1, AdvanceOwing
  <2>3. QED BY <1>1, <2>1, <2>2
<1>6. CASE Crash
  <2>1. \A r \in Rows : Owing(r)' = {}
    BY <1>6 DEF Crash, Owing
  <2>2. QED BY <1>1, <1>6, <2>1 DEF Crash
<1>7. ASSUME NEW r \in Rows, Sweep(r) PROVE CountInv'
  <2>1. \A q \in Rows : /\ Owing(q)' = Owing(q)
                        /\ status'[q] # status[q] => status'[q] # "absent" /\ Present(q)
    BY <1>7 DEF Sweep, Owing, Present, TypeOK
  <2>2. QED BY <1>1, <1>7, <2>1 DEF Sweep
<1>8. CASE CallerFails \/ Tick \/ UNCHANGED vars
  <2>1. UNCHANGED <<status, attempts, posted, pc, batch, group>>
    BY <1>8 DEF CallerFails, Tick, vars
  <2>2. \A r \in Rows : Owing(r)' = Owing(r)
    BY <2>1 DEF Owing
  <2>3. QED BY <1>1, <2>1, <2>2
<1>9. QED
  BY <1>2, <1>3, <1>4, <1>5, <1>6, <1>7, <1>8, CountEnqueue, CountMark, CountPost DEF Next

\* The retry budget is honest, for any number of overlapping batches: no row in the
\* table was posted more often than its attempts column says.
THEOREM PostsAreCounted == Spec => []EveryPostCounted
<1>1. Init => CountInv
  <2>1. Init => \A r \in Rows : Owing(r) = {}
    BY DEF Init, Owing
  <2>2. QED BY <2>1, FS_EmptySet DEF Init, CountInv, Present
<1>2. TypeOK /\ CountInv => EveryPostCounted
  <2> SUFFICES ASSUME TypeOK, CountInv, NEW r \in Rows, Present(r) PROVE posted[r] <= attempts[r]
    BY DEF EveryPostCounted
  <2>1. Cardinality(Owing(r)) \in Nat
    BY FS_CardinalityType DEF CountInv
  <2>2. QED BY <2>1 DEF CountInv, TypeOK
<1>3. QED BY <1>1, <1>2, CountStep, ReceiptAlways, TypeCorrect, PTL DEF Spec

-----------------------------------------------------------------------------
(***************************************************************************)
(* What holds while no two running batches share a row.  A worker alone    *)
(* never overlaps; several may, once a lease runs out under a slow POST.   *)
(***************************************************************************)
Disjoint == \A w, v \in Workers : w # v => batch[w] \cap batch[v] = {}

LEMMA AloneIsDisjoint ==
  ASSUME \A w, v \in Workers : w = v PROVE Disjoint
BY DEF Disjoint

\* Inductive while batches are disjoint: the rows of a running batch are live,
\* and without a fault a received row is settled or about to be settled "ok".
DisjointInv ==
  /\ \A w \in Workers : \A r \in batch[w] : status[r] \in {"pending", "delivering"}
  /\ faults = 0 =>
       /\ repeated = {}
       /\ \A r \in received :
            \/ status[r] \in {"delivered", "gone"}
            \/ \E w \in Workers : r \in group[w] /\ result[w] = "ok"

\* Only its own batch may change a row that some batch holds.
LEMMA HeldAlone ==
  ASSUME TypeOK, ReceiptInv, Disjoint, NEW w \in Workers, NEW r \in group[w],
         NEW v \in Workers, r \in batch[v]
  PROVE  v = w
BY DEF TypeOK, ReceiptInv, Disjoint

LEMMA DisjointStep ==
  TypeOK /\ ReceiptInv /\ DisjointInv /\ Disjoint /\ Disjoint' /\ [Next]_vars => DisjointInv'
<1> SUFFICES ASSUME TypeOK, ReceiptInv, DisjointInv, Disjoint, Disjoint', [Next]_vars
             PROVE  DisjointInv'
  OBVIOUS
<1>1. ASSUME NEW S \in SUBSET Rows, Enqueue(S) PROVE DisjointInv'
  BY <1>1 DEF TypeOK, ReceiptInv, DisjointInv, Enqueue
<1>2. ASSUME NEW w \in Workers, Select(w) PROVE DisjointInv'
  <2>1. PICK S \in SUBSET Due : batch' = [batch EXCEPT ![w] = S] /\ pc[w] = "idle"
    BY <1>2 DEF Select
  <2>2. UNCHANGED <<status, received, repeated, group, result, faults>>
    BY <1>2 DEF Select
  <2>3. QED
    BY <2>1, <2>2 DEF DisjointInv, TypeOK, Due
<1>3. ASSUME NEW w \in Workers, Mark(w) PROVE DisjointInv'
  <2>1. UNCHANGED <<batch, received, repeated, group, result, faults>>
    BY <1>3 DEF Mark
  <2>2. ASSUME NEW r \in Rows
        PROVE  status'[r] = status[r] \/ (r \in batch[w] /\ status'[r] = "delivering")
    BY <1>3 DEF Mark, TypeOK
  <2>3. ASSUME NEW r \in Rows, status[r] \in {"delivered", "gone"}
        PROVE  status'[r] = status[r]
    BY <2>2, <2>3 DEF DisjointInv
  <2>4. QED
    BY <2>1, <2>2, <2>3 DEF DisjointInv, TypeOK
<1>4. ASSUME NEW w \in Workers, Post(w) PROVE DisjointInv'
  <2>1. PICK G \in SUBSET batch[w], answer \in Answers :
          /\ faults' = IF answer = "lost" THEN faults + 1 ELSE faults
          /\ IF answer \in {"ok", "lost"}
               THEN /\ received' = received \cup G
                    /\ repeated' = repeated \cup (G \cap received)
               ELSE UNCHANGED <<received, repeated>>
          /\ group' = [group EXCEPT ![w] = G]
          /\ result' = [result EXCEPT ![w] = answer]
          /\ pc[w] = "post"
          /\ UNCHANGED <<status, batch>>
    BY <1>4 DEF Post
  <2>2. \A v \in Workers : \A r \in batch'[v] : status'[r] \in {"pending", "delivering"}
    BY <2>1 DEF DisjointInv
  <2>3. ASSUME faults' = 0 PROVE faults = 0 /\ answer # "lost"
    BY <2>1, <2>3 DEF TypeOK
  <2>4. ASSUME faults' = 0 PROVE G \cap received = {}
    <3>1. SUFFICES ASSUME NEW r \in G, r \in received PROVE FALSE
      OBVIOUS
    <3>2. status[r] \in {"pending", "delivering"}
      BY <3>1 DEF DisjointInv
    <3>3. PICK v \in Workers : r \in group[v] /\ result[v] = "ok"
      BY <2>3, <2>4, <3>1, <3>2 DEF DisjointInv
    <3>4. v = w
      BY <3>1, <3>3, HeldAlone
    <3>5. QED
      BY <2>1, <3>3, <3>4 DEF ReceiptInv
  <2>5. ASSUME faults' = 0 PROVE repeated' = {}
    BY <2>1, <2>3, <2>4, <2>5 DEF DisjointInv
  <2>6. ASSUME faults' = 0, NEW r \in received'
        PROVE  \/ status'[r] \in {"delivered", "gone"}
               \/ \E v \in Workers : r \in group'[v] /\ result'[v] = "ok"
    <3>1. CASE r \in received
      <4>1. \/ status[r] \in {"delivered", "gone"}
            \/ \E v \in Workers : r \in group[v] /\ result[v] = "ok"
        BY <2>3, <2>6, <3>1 DEF DisjointInv
      <4>2. \A v \in Workers : group[v] # {} => v # w
        BY <2>1 DEF ReceiptInv
      <4>3. QED
        BY <2>1, <4>1, <4>2 DEF TypeOK
    <3>2. CASE r \notin received
      <4>1. r \in G /\ answer = "ok"
        BY <2>1, <2>3, <2>6, <3>2
      <4>2. group'[w] = G /\ result'[w] = answer
        BY <2>1 DEF TypeOK
      <4>3. QED
        BY <4>1, <4>2
    <3>3. QED
      BY <3>1, <3>2
  <2>7. QED
    BY <2>2, <2>5, <2>6 DEF DisjointInv
<1>5. ASSUME NEW w \in Workers, NEW rest \in SUBSET batch[w], Advance(w, rest)
      PROVE  \A v \in Workers :
               IF v = w THEN batch'[v] = rest /\ group'[v] = {}
               ELSE batch'[v] = batch[v] /\ group'[v] = group[v] /\ result'[v] = result[v]
  BY <1>5 DEF Advance, TypeOK
<1>6. ASSUME NEW w \in Workers, SettleDelivered(w) PROVE DisjointInv'
  <2>1. Advance(w, batch[w] \ group[w]) /\ UNCHANGED <<received, repeated, faults>>
    BY <1>6 DEF SettleDelivered
  <2>2. ASSUME NEW r \in Rows
        PROVE  status'[r] = IF r \in group[w] /\ Present(r) THEN "delivered" ELSE status[r]
    BY <1>6 DEF SettleDelivered
  <2>3. ASSUME NEW v \in Workers, NEW r \in batch'[v]
        PROVE  status'[r] \in {"pending", "delivering"}
    <3>1. r \in batch[v] /\ r \notin group[w]
      BY <1>5, <2>1, <2>3, HeldAlone DEF ReceiptInv
    <3>2. QED
      BY <2>2, <3>1 DEF DisjointInv, TypeOK
  <2>4. ASSUME faults' = 0, NEW r \in received'
        PROVE  \/ status'[r] \in {"delivered", "gone"}
               \/ \E v \in Workers : r \in group'[v] /\ result'[v] = "ok"
    <3>1. r \in Rows /\ r \in received /\ faults = 0
      BY <2>1, <2>4 DEF TypeOK
    <3>2. CASE status[r] \in {"delivered", "gone"}
      BY <2>2, <3>1, <3>2
    <3>3. ASSUME NEW v \in Workers, r \in group[v], result[v] = "ok"
          PROVE  \/ status'[r] \in {"delivered", "gone"}
                 \/ \E u \in Workers : r \in group'[u] /\ result'[u] = "ok"
      <4>1. CASE v = w
        <5>1. status[r] \in {"pending", "delivering"}
          BY <3>3 DEF ReceiptInv, DisjointInv
        <5>2. QED
          BY <2>2, <3>1, <3>3, <4>1, <5>1 DEF Present
      <4>2. CASE v # w
        BY <1>5, <2>1, <3>3, <4>2
      <4>3. QED
        BY <4>1, <4>2
    <3>4. QED
      BY <3>1, <3>2, <3>3 DEF DisjointInv
  <2>5. QED
    BY <2>1, <2>3, <2>4 DEF DisjointInv
<1>7. ASSUME NEW w \in Workers, SettleFailed(w) PROVE DisjointInv'
  <2>1. Advance(w, batch[w] \ group[w]) /\ UNCHANGED <<received, repeated, faults>>
    BY <1>7 DEF SettleFailed
  <2>2. ASSUME NEW r \in Rows, r \notin group[w] PROVE status'[r] = status[r]
    BY <1>7, <2>2 DEF SettleFailed
  <2>3. ASSUME NEW v \in Workers, NEW r \in batch'[v]
        PROVE  status'[r] \in {"pending", "delivering"}
    <3>1. r \in batch[v] /\ r \notin group[w]
      BY <1>5, <2>1, <2>3, HeldAlone DEF ReceiptInv
    <3>2. QED
      BY <2>2, <3>1 DEF DisjointInv, TypeOK
  <2>4. ASSUME faults' = 0, NEW r \in received'
        PROVE  \/ status'[r] \in {"delivered", "gone"}
               \/ \E v \in Workers : r \in group'[v] /\ result'[v] = "ok"
    <3>1. r \in Rows /\ r \in received /\ faults = 0
      BY <2>1, <2>4 DEF TypeOK
    <3>2. CASE status[r] \in {"delivered", "gone"}
      <4>1. r \notin group[w]
        BY <3>2 DEF ReceiptInv, DisjointInv
      <4>2. QED
        BY <2>2, <3>1, <3>2, <4>1
    <3>3. ASSUME NEW v \in Workers, r \in group[v], result[v] = "ok"
          PROVE  \E u \in Workers : r \in group'[u] /\ result'[u] = "ok"
      <4>1. v # w
        BY <1>7, <3>3 DEF SettleFailed
      <4>2. QED
        BY <1>5, <2>1, <3>3, <4>1
    <3>4. QED
      BY <3>1, <3>2, <3>3 DEF DisjointInv
  <2>5. QED
    BY <2>1, <2>3, <2>4 DEF DisjointInv
<1>8. ASSUME NEW w \in Workers, WorkerFails(w) PROVE DisjointInv'
  <2>1. Advance(w, {}) /\ faults' # 0 /\ UNCHANGED status
    BY <1>8 DEF WorkerFails, TypeOK
  <2>2. QED
    BY <1>5, <2>1 DEF DisjointInv
<1>9. CASE CallerFails
  BY <1>9 DEF CallerFails, DisjointInv, TypeOK
<1>10. CASE Crash
  BY <1>10 DEF Crash, DisjointInv, TypeOK
<1>11. ASSUME NEW r \in Rows, Sweep(r) PROVE DisjointInv'
  <2>1. \A v \in Workers : r \notin batch[v]
    BY <1>11 DEF Sweep, DisjointInv
  <2>2. UNCHANGED <<batch, group, result, received, repeated, faults>>
    BY <1>11 DEF Sweep
  <2>3. \A q \in Rows : status'[q] = IF q = r THEN "gone" ELSE status[q]
    BY <1>11 DEF Sweep, TypeOK
  <2>4. QED
    BY <2>1, <2>2, <2>3 DEF DisjointInv, TypeOK
<1>12. CASE Tick
  BY <1>12 DEF Tick, DisjointInv
<1>13. CASE UNCHANGED vars
  BY <1>13 DEF vars, DisjointInv
<1>14. QED
  BY <1>1, <1>2, <1>3, <1>4, <1>6, <1>7, <1>8, <1>9, <1>10, <1>11, <1>12, <1>13 DEF Next

LEMMA DisjointAlways == Spec /\ []Disjoint => []DisjointInv
<1>1. Init => DisjointInv
  BY DEF Init, DisjointInv
<1>2. QED
  BY <1>1, DisjointStep, ReceiptAlways, TypeCorrect, PTL DEF Spec

\* While no two running batches share a row, the receiver is given an event
\* twice only after a crash, a database error or a lost answer.
THEOREM RepeatedCorrect == Spec /\ []Disjoint => []RepeatedOnlyAfterFault
<1>1. TypeOK /\ DisjointInv => RepeatedOnlyAfterFault
  BY DEF TypeOK, DisjointInv, RepeatedOnlyAfterFault
<1>2. QED
  BY <1>1, DisjointAlways, TypeCorrect, PTL

\* While no two running batches share a row, delivered is final: a settled row
\* is swept or left alone, never claimed or failed by a late settlement.
THEOREM DeliveredStaysFinal == Spec /\ []Disjoint => DeliveredIsFinal
<1> DEFINE Final == \A r \in Rows :
                      status[r] = "delivered" => status'[r] \in {"delivered", "gone"}
<1>1. TypeOK /\ ReceiptInv /\ DisjointInv /\ [Next]_vars => [Final]_vars
  <2> SUFFICES ASSUME TypeOK, ReceiptInv, DisjointInv, [Next]_vars,
                      NEW r \in Rows, status[r] = "delivered"
               PROVE  status'[r] \in {"delivered", "gone"}
    OBVIOUS
  <2>1. \A w \in Workers : r \notin batch[w] /\ r \notin group[w]
    BY DEF DisjointInv, ReceiptInv
  <2>2. ASSUME NEW S \in SUBSET Rows, Enqueue(S) PROVE status'[r] = status[r]
    BY <2>2 DEF Enqueue, TypeOK
  <2>3. ASSUME NEW w \in Workers, Mark(w) PROVE status'[r] = status[r]
    BY <2>1, <2>3 DEF Mark
  <2>4. ASSUME NEW w \in Workers, SettleDelivered(w) \/ SettleFailed(w)
        PROVE  status'[r] = status[r]
    BY <2>1, <2>4 DEF SettleDelivered, SettleFailed
  <2>5. ASSUME NEW w \in Workers, Select(w) \/ Post(w) \/ WorkerFails(w)
        PROVE  status'[r] = status[r]
    BY <2>5 DEF Select, Post, WorkerFails
  <2>6. ASSUME NEW q \in Rows, Sweep(q) PROVE status'[r] \in {"delivered", "gone"}
    BY <2>6 DEF Sweep, TypeOK
  <2>7. CASE CallerFails \/ Crash \/ Tick \/ UNCHANGED vars
    BY <2>7 DEF CallerFails, Crash, Tick, vars
  <2>8. QED
    BY <2>2, <2>3, <2>4, <2>5, <2>6, <2>7 DEF Next
<1>2. QED
  BY <1>1, DisjointAlways, ReceiptAlways, TypeCorrect, PTL DEF Spec, DeliveredIsFinal
=============================================================================
