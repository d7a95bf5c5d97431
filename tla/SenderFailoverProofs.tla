------------------------ MODULE SenderFailoverProofs ------------------------
(***************************************************************************)
(* What TLAPS proves of SenderFailover, for any senders, weights, pins,    *)
(* runs, channels, recipients and bounds: the type invariant, that the     *)
(* breakers count failures, that failover keeps to the routing, and that   *)
(* with on_timeout off a duplicate needs a reset connection.               *)
(***************************************************************************)
EXTENDS SenderFailover, FiniteSetTheorems, TLAPS

USE DEF breakers, history

\* Whom a run may ask.
Routed(w, s) ==
  /\ Pin[w] # NoPin /\ Strict[w] => s = Pin[w]
  /\ s \notin Weighted => s = Pin[w]

\* Chains are not empty and hold routed senders only.
ChainsRouted ==
  \A w \in Runs : \A i \in 1..Len(queue[w]) :
    /\ Len(queue[w][i][2]) > 0
    /\ \A j \in 1..Len(queue[w][i][2]) : Routed(w, queue[w][i][2][j])

\* The sender of the next attempt exists, and a call in flight is of the head.
AttemptExists ==
  \A w \in Runs :
    /\ queue[w] # <<>> => tries[w] < Len(queue[w][1][2])
    /\ queue[w] = <<>> => tries[w] = 0 /\ ~flying[w]

\* A recipient is in one place: without a chain, or queued once.
QueuedOnce ==
  \A w \in Runs : \A i \in 1..Len(queue[w]) :
    /\ queue[w][i][1] \notin left[w]
    /\ \A j \in 1..Len(queue[w]) : queue[w][i][1] = queue[w][j][1] => i = j

Waiting(w) == left[w] \cup {queue[w][i][1] : i \in 1..Len(queue[w])}

\* What a provider took of a message that is still to be sent was unclear.
TakenIsUnclear ==
  ~OnTimeout => \A a \in took : a[2] \in Waiting(a[1]) => <<a[1], a[2]>> \in unclear

FailoverInv ==
  /\ TypeOK /\ BreakerTracksFailures /\ RoutingHonoured /\ TimeoutNeverResent
  /\ ChainsRouted /\ AttemptExists /\ QueuedOnce /\ TakenIsUnclear

-----------------------------------------------------------------------------
\* A sequence of orderForRecipient holds weighted senders of those it was given.
LEMMA OrdersType ==
  ASSUME NEW S \in SUBSET Senders, NEW q \in Orders(S)
  PROVE  /\ q \in Seq(Senders)
         /\ \A i \in 1..Len(q) : q[i] \in Weighted
<1> DEFINE T == S \cap Weighted
<1>1. IsFiniteSet(T) /\ Cardinality(T) \in Nat
  BY SenderAssumption, FS_Subset, FS_CardinalityType
<1>2. q \in [1..Cardinality(T) -> T]
  BY DEF Orders, SetToSeqs
<1> HIDE DEF T
<1>3. PICK n \in Nat : q \in [1..n -> T]
  BY <1>1, <1>2
<1>4. q \in Seq(T)
  BY <1>3
<1>5. QED BY <1>4, SenderAssumption DEF T

\* Every chain is a sequence of senders that the run may ask.
LEMMA ChainsType ==
  ASSUME NEW w \in Runs, NEW chain \in Chains(w)
  PROVE  /\ chain \in Seq(Senders)
         /\ \A i \in 1..Len(chain) : Routed(w, chain[i])
<1>1. Pin[w] \in Senders \cup {NoPin} /\ NoPin \notin Senders
  BY RunAssumption, SenderAssumption
<1>2. Available(w) \in SUBSET Senders
  BY DEF Available, Consulted
<1>3. CASE Pin[w] = NoPin
  <2>1. PICK S \in SUBSET Senders : chain \in Orders(S)
    BY <1>2, <1>3 DEF Chains
  <2>2. QED BY <2>1, <1>3, OrdersType DEF Routed
<1>4. CASE Pin[w] # NoPin /\ Strict[w]
  <2>1. chain = <<Pin[w]>>
    BY <1>4 DEF Chains
  <2>2. QED BY <2>1, <1>1, <1>4 DEF Routed
<1>5. CASE Pin[w] # NoPin /\ ~Strict[w]
  <2>1. PICK q \in Orders(Available(w)) : chain = <<Pin[w]>> \o q
    BY <1>5 DEF Chains
  <2>2. q \in Seq(Senders) /\ \A i \in 1..Len(q) : q[i] \in Weighted
    BY <1>2, OrdersType
  <2>3. <<Pin[w]>> \in Seq(Senders)
    BY <1>1, <1>5
  <2>4. chain \in Seq(Senders) /\ Len(chain) = Len(q) + 1
    BY <2>1, <2>2, <2>3
  <2>5. ASSUME NEW i \in 1..Len(chain) PROVE Routed(w, chain[i])
    <3>1. chain[i] = IF i = 1 THEN Pin[w] ELSE q[i - 1]
      BY <2>1, <2>2, <2>3, <2>4
    <3>2. i # 1 => i - 1 \in 1..Len(q)
      BY <2>2, <2>4
    <3>3. QED BY <3>1, <3>2, <2>2, <1>5 DEF Routed
  <2>6. QED BY <2>4, <2>5
<1>6. QED BY <1>3, <1>4, <1>5

\* The head of a queue, and the sender its next or present attempt is for.
LEMMA HeadType ==
  ASSUME FailoverInv, NEW w \in Runs, queue[w] # <<>>
  PROVE  /\ Len(queue[w]) \in Nat /\ Len(queue[w]) > 0
         /\ Head(queue[w]) = queue[w][1]
         /\ Recipient(w) = queue[w][1][1] /\ Recipient(w) \in Recipients
         /\ Chain(w) = queue[w][1][2] /\ Chain(w) \in Seq(Senders)
         /\ Current(w) \in Senders /\ Routed(w, Current(w))
         /\ Recipient(w) \in Waiting(w)
<1>1. queue[w] \in Seq(Recipients \X Seq(Senders)) /\ tries[w] \in Nat
  BY DEF FailoverInv, TypeOK
<1>2. /\ Len(queue[w]) \in Nat /\ Len(queue[w]) > 0
      /\ Head(queue[w]) = queue[w][1] /\ queue[w][1] \in Recipients \X Seq(Senders)
  BY <1>1
<1>3. /\ Recipient(w) = queue[w][1][1] /\ Recipient(w) \in Recipients
      /\ Chain(w) = queue[w][1][2] /\ Chain(w) \in Seq(Senders)
  BY <1>2 DEF Recipient, Chain
<1>4. tries[w] + 1 \in 1..Len(queue[w][1][2]) /\ 1 \in 1..Len(queue[w])
  BY <1>1, <1>2, <1>3 DEF FailoverInv, AttemptExists
<1>5. Current(w) \in Senders /\ Routed(w, Current(w))
  <2>1. Current(w) = queue[w][1][2][tries[w] + 1]
    BY <1>3 DEF Current
  <2>2. \A j \in 1..Len(queue[w][1][2]) : Routed(w, queue[w][1][2][j])
    BY <1>4 DEF FailoverInv, ChainsRouted
  <2>3. queue[w][1][2][tries[w] + 1] \in Senders
    BY <1>3, <1>4
  <2>4. QED BY <1>4, <2>1, <2>2, <2>3
<1>6. Recipient(w) \in Waiting(w)
  BY <1>3, <1>4 DEF Waiting
<1>7. QED BY <1>2, <1>3, <1>5, <1>6

\* A call in flight is that of a queued recipient.
LEMMA FlyingType ==
  ASSUME FailoverInv, NEW w \in Runs, flying[w]
  PROVE  queue[w] # <<>>
BY DEF FailoverInv, AttemptExists

\* What the end of a recipient leaves: it waits no more, and all others do as before.
LEMMA NextRecipientStep ==
  ASSUME FailoverInv, NEW w \in Runs, queue[w] # <<>>, NextRecipient(w), UNCHANGED left,
         flying' = [flying EXCEPT ![w] = FALSE]
  PROVE  /\ queue' \in [Runs -> Seq(Recipients \X Seq(Senders))] /\ tries' \in [Runs -> Nat]
         /\ ChainsRouted' /\ AttemptExists' /\ QueuedOnce'
         /\ Recipient(w) \notin Waiting(w)'
         /\ \A v \in Runs : Waiting(v)' \subseteq Waiting(v)
<1>1. /\ queue \in [Runs -> Seq(Recipients \X Seq(Senders))] /\ tries \in [Runs -> Nat]
      /\ left \in [Runs -> SUBSET Recipients] /\ flying \in [Runs -> BOOLEAN]
  BY DEF FailoverInv, TypeOK
<1>2. Len(queue[w]) \in Nat /\ Len(queue[w]) > 0 /\ Recipient(w) = queue[w][1][1]
  BY HeadType
<1>3. /\ queue' = [queue EXCEPT ![w] = Tail(queue[w])] /\ tries' = [tries EXCEPT ![w] = 0]
  BY DEF NextRecipient
<1>4. /\ Tail(queue[w]) \in Seq(Recipients \X Seq(Senders))
      /\ Len(Tail(queue[w])) = Len(queue[w]) - 1
      /\ \A i \in 1..Len(Tail(queue[w])) :
           /\ Tail(queue[w])[i] = queue[w][i + 1] /\ i + 1 \in 1..Len(queue[w])
  BY <1>1, <1>2
<1>5. queue' \in [Runs -> Seq(Recipients \X Seq(Senders))] /\ tries' \in [Runs -> Nat]
  BY <1>1, <1>3, <1>4
<1>6. /\ queue'[w] = Tail(queue[w]) /\ tries'[w] = 0 /\ flying'[w] = FALSE
      /\ \A v \in Runs \ {w} : queue'[v] = queue[v] /\ tries'[v] = tries[v] /\ flying'[v] = flying[v]
  BY <1>1, <1>3
<1>7. ASSUME NEW v \in Runs, NEW i \in 1..Len(queue'[v])
      PROVE  \E k \in 1..Len(queue[v]) : queue'[v][i] = queue[v][k]
  <2>1. CASE v = w
    <3>1. queue'[v][i] = queue[v][i + 1] /\ i + 1 \in 1..Len(queue[v])
      BY <2>1, <1>4, <1>6
    <3>2. QED BY <3>1
  <2>2. CASE v # w
    BY <2>2, <1>6
  <2>3. QED BY <2>1, <2>2
<1>8. ChainsRouted'
  <2> SUFFICES ASSUME NEW v \in Runs, NEW i \in 1..Len(queue'[v])
               PROVE  /\ Len(queue'[v][i][2]) > 0
                      /\ \A j \in 1..Len(queue'[v][i][2]) : Routed(v, queue'[v][i][2][j])
    BY DEF ChainsRouted, Routed
  <2>1. \E k \in 1..Len(queue[v]) : queue'[v][i] = queue[v][k]
    BY <1>7
  <2>2. QED BY <2>1 DEF FailoverInv, ChainsRouted
<1>9. AttemptExists'
  <2> SUFFICES ASSUME NEW v \in Runs
               PROVE  /\ queue'[v] # <<>> => tries'[v] < Len(queue'[v][1][2])
                      /\ queue'[v] = <<>> => tries'[v] = 0 /\ ~flying'[v]
    BY DEF AttemptExists
  <2>1. CASE v = w
    <3>1. queue'[w] # <<>> => 1 \in 1..Len(queue'[w])
      BY <1>5
    <3>2. queue'[w] # <<>> => Len(queue'[w][1][2]) > 0
      BY <1>8, <3>1 DEF ChainsRouted
    <3>3. QED BY <2>1, <3>2, <1>6
  <2>2. CASE v # w
    BY <2>2, <1>6 DEF FailoverInv, AttemptExists
  <2>3. QED BY <2>1, <2>2
<1>10. QueuedOnce'
  <2> SUFFICES ASSUME NEW v \in Runs, NEW i \in 1..Len(queue'[v])
               PROVE  /\ queue'[v][i][1] \notin left[v]
                      /\ \A j \in 1..Len(queue'[v]) : queue'[v][i][1] = queue'[v][j][1] => i = j
    BY DEF QueuedOnce
  <2>1. CASE v = w
    <3>1. /\ queue'[w][i][1] = queue[w][i + 1][1] /\ i + 1 \in 1..Len(queue[w])
          /\ \A j \in 1..Len(queue'[w]) : queue'[w][j][1] = queue[w][j + 1][1] /\ j + 1 \in 1..Len(queue[w])
      BY <2>1, <1>4, <1>6
    <3>2. queue[w][i + 1][1] \notin left[w]
      BY <3>1 DEF FailoverInv, QueuedOnce
    <3>3. ASSUME NEW j \in 1..Len(queue'[w]), queue'[w][i][1] = queue'[w][j][1] PROVE i + 1 = j + 1
      BY <3>1, <3>3 DEF FailoverInv, QueuedOnce
    <3>4. i \in Int /\ \A j \in 1..Len(queue'[w]) : j \in Int
      OBVIOUS
    <3>5. QED BY <2>1, <3>1, <3>2, <3>3, <3>4
  <2>2. CASE v # w
    BY <2>2, <1>6 DEF FailoverInv, QueuedOnce
  <2>3. QED BY <2>1, <2>2
<1>11. Recipient(w) \notin Waiting(w)'
  <2>1. queue[w][1][1] \notin left[w]
    BY <1>2 DEF FailoverInv, QueuedOnce
  <2>2. ASSUME NEW i \in 1..Len(queue'[w]) PROVE queue'[w][i][1] # queue[w][1][1]
    <3>1. queue'[w][i][1] = queue[w][i + 1][1] /\ i + 1 \in 1..Len(queue[w]) /\ i + 1 # 1 /\ 1 \in 1..Len(queue[w])
      BY <1>2, <1>4, <1>6
    <3>2. QED BY <3>1 DEF FailoverInv, QueuedOnce
  <2>3. QED BY <2>1, <2>2, <1>2 DEF Waiting
<1>12. ASSUME NEW v \in Runs PROVE Waiting(v)' \subseteq Waiting(v)
  <2>1. \A i \in 1..Len(queue'[v]) : \E k \in 1..Len(queue[v]) : queue'[v][i] = queue[v][k]
    BY <1>7
  <2>2. QED BY <2>1 DEF Waiting
<1>13. QED BY <1>5, <1>8, <1>9, <1>10, <1>11, <1>12

\* Where messages wait no longer than before and only unclear ones are added,
\* what was taken is still unclear.
LEMMA TakenStep ==
  ASSUME FailoverInv, UNCHANGED took, unclear \subseteq unclear',
         \A v \in Runs : Waiting(v)' \subseteq Waiting(v)
  PROVE  TakenIsUnclear' /\ TimeoutNeverResent'
<1>1. \A a \in took : a[1] \in Runs
  BY DEF FailoverInv, TypeOK, Attempts
<1>2. TakenIsUnclear'
  BY <1>1 DEF FailoverInv, TakenIsUnclear
<1>3. TimeoutNeverResent'
  BY DEF FailoverInv, TimeoutNeverResent
<1>4. QED BY <1>2, <1>3

\* The breakers' part: consulting them changes open to half-open only.
LEMMA HalfOpenStep ==
  ASSUME FailoverInv, NEW S, breaker' = HalfOpen(S), UNCHANGED failures
  PROVE  breaker' \in [Senders -> {"closed", "open", "half-open"}] /\ BreakerTracksFailures'
<1>1. breaker \in [Senders -> {"closed", "open", "half-open"}]
  BY DEF FailoverInv, TypeOK
<1>2. /\ breaker' \in [Senders -> {"closed", "open", "half-open"}]
      /\ \A s \in Senders : breaker'[s] # "closed" <=> breaker[s] # "closed"
  BY <1>1 DEF HalfOpen
<1>3. QED BY <1>2 DEF FailoverInv, BreakerTracksFailures

LEMMA RecordFailureStep ==
  ASSUME FailoverInv, NEW s \in Senders, RecordFailure(s)
  PROVE  /\ breaker' \in [Senders -> {"closed", "open", "half-open"}]
         /\ failures' \in [Senders -> Nat] /\ cooling' \in [Senders -> Nat]
         /\ BreakerTracksFailures'
<1>1. /\ breaker \in [Senders -> {"closed", "open", "half-open"}]
      /\ failures \in [Senders -> Nat] /\ cooling \in [Senders -> Nat]
      /\ Threshold \in Nat \ {0} /\ Cooldown \in Nat
  BY BoundAssumption DEF FailoverInv, TypeOK
<1>2. /\ failures' = [failures EXCEPT ![s] = failures[s] + 1]
      /\ cooling' = [cooling EXCEPT ![s] = Cooldown]
      /\ breaker' = IF failures[s] + 1 >= Threshold THEN [breaker EXCEPT ![s] = "open"] ELSE breaker
  BY DEF RecordFailure
<1>3. /\ breaker' \in [Senders -> {"closed", "open", "half-open"}]
      /\ failures' \in [Senders -> Nat] /\ cooling' \in [Senders -> Nat]
  BY <1>1, <1>2
<1>4. ASSUME NEW x \in Senders PROVE breaker'[x] # "closed" <=> failures'[x] >= Threshold
  <2>1. breaker[x] # "closed" <=> failures[x] >= Threshold
    BY DEF FailoverInv, BreakerTracksFailures
  <2>2. CASE x = s
    BY <1>1, <1>2, <2>1, <2>2
  <2>3. CASE x # s
    BY <1>1, <1>2, <2>1, <2>3
  <2>4. QED BY <2>2, <2>3
<1>5. QED BY <1>3, <1>4 DEF BreakerTracksFailures

-----------------------------------------------------------------------------
LEMMA ResolveStep ==
  ASSUME FailoverInv, NEW w \in Runs, Resolve(w)
  PROVE  FailoverInv'
<1>1. /\ queue \in [Runs -> Seq(Recipients \X Seq(Senders))] /\ tries \in [Runs -> Nat]
      /\ left \in [Runs -> SUBSET Recipients]
  BY DEF FailoverInv, TypeOK
<1>2. PICK r \in left[w], chain \in Chains(w) :
        /\ left' = [left EXCEPT ![w] = left[w] \ {r}]
        /\ queue' = IF chain = <<>> THEN queue
                    ELSE [queue EXCEPT ![w] = Append(queue[w], <<r, chain>>)]
        /\ unrouted' = IF chain = <<>> THEN unrouted \cup {<<w, r>>} ELSE unrouted
  BY DEF Resolve
<1>3. chain \in Seq(Senders) /\ (\A i \in 1..Len(chain) : Routed(w, chain[i])) /\ r \in Recipients
  BY <1>1, ChainsType
<1>4. /\ breaker' = HalfOpen(Consulted(w))
      /\ UNCHANGED <<failures, cooling, tries, flying, failed, asked, took, unclear, probes, wasted>>
  BY DEF Resolve
<1>5. /\ left' \in [Runs -> SUBSET Recipients] /\ left'[w] = left[w] \ {r}
      /\ \A v \in Runs \ {w} : left'[v] = left[v]
  BY <1>1, <1>2
<1>6. /\ queue' \in [Runs -> Seq(Recipients \X Seq(Senders))]
      /\ \A v \in Runs \ {w} : queue'[v] = queue[v]
      /\ chain = <<>> => queue' = queue
      /\ chain # <<>> =>
           /\ queue'[w] # <<>> /\ Len(queue'[w]) = Len(queue[w]) + 1
           /\ queue'[w][Len(queue[w]) + 1] = <<r, chain>>
           /\ \A i \in 1..Len(queue[w]) : queue'[w][i] = queue[w][i]
  <2> DEFINE entry == <<r, chain>>
  <2>1. entry \in Recipients \X Seq(Senders)
    BY <1>3
  <2>2. queue[w] \in Seq(Recipients \X Seq(Senders))
    BY <1>1
  <2> HIDE DEF entry
  <2>3. /\ Append(queue[w], entry) \in Seq(Recipients \X Seq(Senders))
        /\ Append(queue[w], entry) # <<>>
        /\ Len(Append(queue[w], entry)) = Len(queue[w]) + 1
        /\ Append(queue[w], entry)[Len(queue[w]) + 1] = entry
        /\ \A i \in 1..Len(queue[w]) : Append(queue[w], entry)[i] = queue[w][i]
    BY <2>1, <2>2
  <2>4. queue' = IF chain = <<>> THEN queue ELSE [queue EXCEPT ![w] = Append(queue[w], entry)]
    BY <1>2 DEF entry
  <2>5. chain # <<>> => queue'[w] = Append(queue[w], entry)
    BY <1>1, <2>4
  <2>6. queue' \in [Runs -> Seq(Recipients \X Seq(Senders))] /\ \A v \in Runs \ {w} : queue'[v] = queue[v]
    BY <1>1, <2>3, <2>4
  <2>7. QED BY <2>3, <2>4, <2>5, <2>6 DEF entry
<1>7. unrouted' \subseteq Messages
  BY <1>2, <1>3 DEF FailoverInv, TypeOK, Messages
<1>8. breaker' \in [Senders -> {"closed", "open", "half-open"}] /\ BreakerTracksFailures'
  BY <1>4, HalfOpenStep
<1>9. TypeOK'
  BY <1>4, <1>5, <1>6, <1>7, <1>8 DEF FailoverInv, TypeOK
\* Each entry was there before, or is the new one at the end.
<1>10. ASSUME NEW v \in Runs, NEW i \in 1..Len(queue'[v])
       PROVE  \/ i \in 1..Len(queue[v]) /\ queue'[v][i] = queue[v][i]
              \/ /\ v = w /\ chain # <<>> /\ i = Len(queue[w]) + 1
                 /\ queue'[v][i][1] = r /\ queue'[v][i][2] = chain
  <2>1. CASE v = w /\ chain # <<>>
    <3>1. Len(queue[w]) \in Nat /\ i \in 1..(Len(queue[w]) + 1)
      BY <1>1, <1>6, <2>1
    <3>2. CASE i \in 1..Len(queue[w])
      BY <1>6, <2>1, <3>2
    <3>3. CASE i = Len(queue[w]) + 1
      <4>1. queue'[v][i] = <<r, chain>>
        BY <1>6, <2>1, <3>3
      <4>2. QED BY <2>1, <3>3, <4>1
    <3>4. QED BY <3>1, <3>2, <3>3
  <2>2. CASE ~(v = w /\ chain # <<>>)
    BY <1>6, <2>2
  <2>3. QED BY <2>1, <2>2
<1>11. ChainsRouted'
  <2> SUFFICES ASSUME NEW v \in Runs, NEW i \in 1..Len(queue'[v])
               PROVE  /\ Len(queue'[v][i][2]) > 0
                      /\ \A j \in 1..Len(queue'[v][i][2]) : Routed(v, queue'[v][i][2][j])
    BY DEF ChainsRouted, Routed
  <2>1. chain # <<>> => Len(chain) > 0
    BY <1>3
  <2>2. QED BY <1>3, <1>10, <2>1 DEF FailoverInv, ChainsRouted
<1>12. AttemptExists'
  <2> SUFFICES ASSUME NEW v \in Runs
               PROVE  /\ queue'[v] # <<>> => tries[v] < Len(queue'[v][1][2])
                      /\ queue'[v] = <<>> => tries[v] = 0 /\ ~flying[v]
    BY <1>4 DEF AttemptExists
  <2>1. CASE v # w \/ chain = <<>>
    BY <2>1, <1>6 DEF FailoverInv, AttemptExists
  <2>2. CASE v = w /\ chain # <<>> /\ queue[w] = <<>>
    <3>1. tries[w] = 0 /\ Len(queue[w]) = 0
      BY <2>2 DEF FailoverInv, AttemptExists
    <3>2. queue'[w][1] = <<r, chain>> /\ Len(chain) > 0
      BY <2>2, <3>1, <1>3, <1>6
    <3>3. QED BY <2>2, <3>1, <3>2, <1>6
  <2>3. CASE v = w /\ chain # <<>> /\ queue[w] # <<>>
    <3>1. 1 \in 1..Len(queue[w])
      BY <2>3, <1>1
    <3>2. QED BY <2>3, <3>1, <1>6 DEF FailoverInv, AttemptExists
  <2>4. QED BY <2>1, <2>2, <2>3
<1>13. QueuedOnce'
  <2> SUFFICES ASSUME NEW v \in Runs, NEW i \in 1..Len(queue'[v])
               PROVE  /\ queue'[v][i][1] \notin left'[v]
                      /\ \A j \in 1..Len(queue'[v]) : queue'[v][i][1] = queue'[v][j][1] => i = j
    BY DEF QueuedOnce
  <2>1. \A j \in 1..Len(queue[v]) : queue[v][j][1] \notin left[v]
    BY DEF FailoverInv, QueuedOnce
  <2>2. queue'[v][i][1] \notin left'[v]
    BY <1>5, <1>10, <2>1
  <2>3. ASSUME NEW j \in 1..Len(queue'[v]), queue'[v][i][1] = queue'[v][j][1] PROVE i = j
    <3>1. \/ j \in 1..Len(queue[v]) /\ queue'[v][j] = queue[v][j]
          \/ v = w /\ j = Len(queue[w]) + 1 /\ queue'[v][j][1] = r
      BY <1>10
    <3>2. \/ i \in 1..Len(queue[v]) /\ queue'[v][i] = queue[v][i]
          \/ v = w /\ i = Len(queue[w]) + 1 /\ queue'[v][i][1] = r
      BY <1>10
    <3>3. v = w => r \in left[v]
      OBVIOUS
    <3>4. CASE i \in 1..Len(queue[v]) /\ j \in 1..Len(queue[v])
               /\ queue'[v][i] = queue[v][i] /\ queue'[v][j] = queue[v][j]
      BY <2>3, <3>4 DEF FailoverInv, QueuedOnce
    <3>5. QED BY <2>1, <2>3, <3>1, <3>2, <3>3, <3>4
  <2>4. QED BY <2>2, <2>3
<1>14. ASSUME NEW v \in Runs PROVE Waiting(v)' \subseteq Waiting(v)
  <2>1. left'[v] \subseteq left[v] /\ (v = w => r \in left[v])
    BY <1>5
  <2>2. ASSUME NEW i \in 1..Len(queue'[v]) PROVE queue'[v][i][1] \in Waiting(v)
    BY <1>10, <2>1 DEF Waiting
  <2>3. QED BY <2>1, <2>2 DEF Waiting
<1>15. TakenIsUnclear' /\ TimeoutNeverResent'
  BY <1>4, <1>14, TakenStep
<1>16. RoutingHonoured'
  BY <1>4 DEF FailoverInv, RoutingHonoured
<1>17. QED BY <1>8, <1>9, <1>11, <1>12, <1>13, <1>15, <1>16 DEF FailoverInv

LEMMA SendStep ==
  ASSUME FailoverInv, NEW w \in Runs, Send(w)
  PROVE  FailoverInv'
<1>1. queue[w] # <<>> /\ Recipient(w) \in Recipients /\ Current(w) \in Senders /\ Routed(w, Current(w))
  BY HeadType DEF Send
<1>2. /\ flying' = [flying EXCEPT ![w] = TRUE]
      /\ asked' = asked \cup {<<w, Recipient(w), Current(w)>>}
      /\ probes' = IF breaker[Current(w)] = "half-open"
                     THEN [probes EXCEPT ![Current(w)] = probes[Current(w)] + 1] ELSE probes
      /\ wasted' \subseteq wasted \cup {<<w, Recipient(w), Current(w)>>}
      /\ UNCHANGED <<breaker, failures, cooling, left, queue, tries, failed, took, unclear, unrouted>>
  BY DEF Send
<1>3. probes' \in [Senders -> Nat]
  BY <1>1, <1>2 DEF FailoverInv, TypeOK
<1>4. TypeOK'
  <2>1. asked' \subseteq Attempts /\ wasted' \subseteq Attempts
    BY <1>1, <1>2 DEF FailoverInv, TypeOK, Attempts
  <2>2. flying' \in [Runs -> BOOLEAN]
    BY <1>2 DEF FailoverInv, TypeOK
  <2>3. /\ breaker' \in [Senders -> {"closed", "open", "half-open"}]
        /\ failures' \in [Senders -> Nat] /\ cooling' \in [Senders -> Nat]
        /\ left' \in [Runs -> SUBSET Recipients]
        /\ queue' \in [Runs -> Seq(Recipients \X Seq(Senders))]
        /\ tries' \in [Runs -> Nat] /\ failed' \in Nat
        /\ took' \subseteq Attempts /\ unclear' \subseteq Messages /\ unrouted' \subseteq Messages
    BY <1>2 DEF FailoverInv, TypeOK
  <2>4. QED BY <1>3, <2>1, <2>2, <2>3 DEF TypeOK
<1>5. ASSUME NEW a \in asked'
      PROVE  /\ Pin[a[1]] # NoPin /\ Strict[a[1]] => a[3] = Pin[a[1]]
             /\ a[3] \notin Weighted => a[3] = Pin[a[1]]
  <2>1. CASE a \in asked
    BY <2>1 DEF FailoverInv, RoutingHonoured
  <2>2. CASE a = <<w, Recipient(w), Current(w)>>
    BY <2>2, <1>1 DEF Routed
  <2>3. QED BY <2>1, <2>2, <1>2
<1>6. RoutingHonoured'
  BY <1>5 DEF RoutingHonoured
<1>7. AttemptExists'
  BY <1>1, <1>2 DEF FailoverInv, AttemptExists, TypeOK
<1>8. ChainsRouted' /\ QueuedOnce' /\ BreakerTracksFailures'
  BY <1>2 DEF FailoverInv, ChainsRouted, QueuedOnce, BreakerTracksFailures, Routed
<1>9. \A v \in Runs : Waiting(v)' \subseteq Waiting(v)
  BY <1>2 DEF Waiting
<1>10. TakenIsUnclear' /\ TimeoutNeverResent'
  BY <1>2, <1>9, TakenStep
<1>11. QED BY <1>4, <1>6, <1>7, <1>8, <1>10 DEF FailoverInv

\* What is the same at every end of a provider call.
LEMMA LandedStep ==
  ASSUME FailoverInv, NEW w \in Runs, Landed(w)
  PROVE  /\ queue[w] # <<>> /\ Recipient(w) \in Recipients /\ Current(w) \in Senders
         /\ flying' = [flying EXCEPT ![w] = FALSE] /\ flying' \in [Runs -> BOOLEAN]
         /\ probes' \in [Senders -> Nat]
         /\ UNCHANGED <<left, asked, wasted, unrouted>>
         /\ RoutingHonoured'
<1>1. queue[w] # <<>>
  BY FlyingType DEF Landed
<1>2. Recipient(w) \in Recipients /\ Current(w) \in Senders
  BY <1>1, HeadType
<1>3. /\ flying' = [flying EXCEPT ![w] = FALSE]
      /\ probes' = IF probes[Current(w)] > 0 THEN [probes EXCEPT ![Current(w)] = probes[Current(w)] - 1] ELSE probes
      /\ UNCHANGED <<left, asked, wasted, unrouted>>
  BY DEF Landed
<1>4. probes' \in [Senders -> Nat]
  BY <1>2, <1>3 DEF FailoverInv, TypeOK
<1>5. flying' \in [Runs -> BOOLEAN]
  BY <1>3 DEF FailoverInv, TypeOK
<1>6. RoutingHonoured'
  BY <1>3 DEF FailoverInv, RoutingHonoured
<1>7. QED BY <1>1, <1>2, <1>3, <1>4, <1>5, <1>6

\* A provider took the message at the head, which waits no more: what was taken of
\* it before was unclear, so that it may be taken again.
LEMMA TookStep ==
  ASSUME FailoverInv, NEW w \in Runs, queue[w] # <<>>,
         took' = took \cup {<<w, Recipient(w), Current(w)>>}, unclear \subseteq unclear',
         <<w, Recipient(w)>> \in unclear' \/ Recipient(w) \notin Waiting(w)',
         \A v \in Runs : Waiting(v)' \subseteq Waiting(v)
  PROVE  TakenIsUnclear' /\ TimeoutNeverResent'
<1>1. Recipient(w) \in Waiting(w)
  BY HeadType
<1>2. \A a \in took : a[1] \in Runs
  BY DEF FailoverInv, TypeOK, Attempts
<1>3. ASSUME ~OnTimeout, NEW a \in took', a[2] \in Waiting(a[1])' PROVE <<a[1], a[2]>> \in unclear'
  <2>1. CASE a \in took
    BY <1>2, <1>3, <2>1 DEF FailoverInv, TakenIsUnclear
  <2>2. CASE a = <<w, Recipient(w), Current(w)>>
    BY <1>3, <2>2
  <2>3. QED BY <2>1, <2>2
<1>4. TakenIsUnclear'
  BY <1>3 DEF TakenIsUnclear
<1>5. ASSUME ~OnTimeout, NEW a \in took', NEW b \in took', a[1] = b[1], a[2] = b[2], a[3] # b[3]
      PROVE  <<a[1], a[2]>> \in unclear'
  <2>1. ASSUME NEW x \in took, x[1] = w, x[2] = Recipient(w) PROVE <<w, Recipient(w)>> \in unclear
    BY <1>1, <1>5, <2>1 DEF FailoverInv, TakenIsUnclear
  <2>2. CASE a \in took /\ b \in took
    BY <1>5, <2>2 DEF FailoverInv, TimeoutNeverResent
  <2>3. CASE a \in took /\ b = <<w, Recipient(w), Current(w)>>
    BY <1>5, <2>1, <2>3
  <2>4. CASE a = <<w, Recipient(w), Current(w)>> /\ b \in took
    BY <1>5, <2>1, <2>4
  <2>5. QED BY <1>5, <2>2, <2>3, <2>4
<1>6. TimeoutNeverResent'
  BY <1>5 DEF TimeoutNeverResent
<1>7. QED BY <1>4, <1>6

LEMMA SucceedStep ==
  ASSUME FailoverInv, NEW w \in Runs, Succeed(w)
  PROVE  FailoverInv'
<1>1. Landed(w) /\ NextRecipient(w)
  BY DEF Succeed
<1>2. /\ queue[w] # <<>> /\ Recipient(w) \in Recipients /\ Current(w) \in Senders
      /\ flying' = [flying EXCEPT ![w] = FALSE] /\ flying' \in [Runs -> BOOLEAN]
      /\ probes' \in [Senders -> Nat]
      /\ UNCHANGED <<left, asked, wasted, unrouted>>
      /\ RoutingHonoured'
  BY <1>1, LandedStep
<1>3. /\ queue' \in [Runs -> Seq(Recipients \X Seq(Senders))] /\ tries' \in [Runs -> Nat]
      /\ ChainsRouted' /\ AttemptExists' /\ QueuedOnce'
      /\ Recipient(w) \notin Waiting(w)'
      /\ \A v \in Runs : Waiting(v)' \subseteq Waiting(v)
  BY <1>1, <1>2, NextRecipientStep
<1>4. /\ took' = took \cup {<<w, Recipient(w), Current(w)>>}
      /\ breaker' = [breaker EXCEPT ![Current(w)] = "closed"]
      /\ failures' = [failures EXCEPT ![Current(w)] = 0]
      /\ UNCHANGED <<cooling, failed, unclear>>
  BY DEF Succeed
<1>5. TypeOK'
  <2>1. /\ breaker' \in [Senders -> {"closed", "open", "half-open"}]
        /\ failures' \in [Senders -> Nat] /\ cooling' \in [Senders -> Nat]
    BY <1>2, <1>4 DEF FailoverInv, TypeOK
  <2>2. took' \subseteq Attempts /\ asked' \subseteq Attempts /\ wasted' \subseteq Attempts
    BY <1>2, <1>4 DEF FailoverInv, TypeOK, Attempts
  <2>3. unclear' \subseteq Messages /\ unrouted' \subseteq Messages
    BY <1>2, <1>4 DEF FailoverInv, TypeOK
  <2>4. failed' \in Nat /\ left' \in [Runs -> SUBSET Recipients]
    BY <1>2, <1>4 DEF FailoverInv, TypeOK
  <2>5. QED BY <1>2, <1>3, <2>1, <2>2, <2>3, <2>4 DEF TypeOK
<1>6. BreakerTracksFailures'
  BY <1>2, <1>4, BoundAssumption DEF FailoverInv, TypeOK, BreakerTracksFailures
<1>7. TakenIsUnclear' /\ TimeoutNeverResent'
  BY <1>2, <1>3, <1>4, TookStep
<1>8. QED BY <1>2, <1>3, <1>5, <1>6, <1>7 DEF FailoverInv

LEMMA FailStep ==
  ASSUME FailoverInv, NEW w \in Runs, NEW error \in Errors, Fail(w, error)
  PROVE  FailoverInv'
<1>1. Landed(w)
  BY DEF Fail
<1>2. /\ queue[w] # <<>> /\ Recipient(w) \in Recipients /\ Current(w) \in Senders
      /\ flying' = [flying EXCEPT ![w] = FALSE] /\ flying' \in [Runs -> BOOLEAN]
      /\ probes' \in [Senders -> Nat]
      /\ UNCHANGED <<left, asked, wasted, unrouted>>
      /\ RoutingHonoured'
  BY <1>1, LandedStep
<1>3. /\ failed' = failed + 1
      /\ unclear' = IF error = "reset" THEN unclear \cup {<<w, Recipient(w)>>} ELSE unclear
      /\ IF error = "terminal" THEN UNCHANGED <<breaker, failures, cooling>> ELSE RecordFailure(Current(w))
      /\ IF FailsOver(error) /\ tries[w] + 1 < Limit(w)
           THEN tries' = [tries EXCEPT ![w] = tries[w] + 1] /\ UNCHANGED queue
           ELSE NextRecipient(w)
  BY DEF Fail
<1>4. /\ took' = took \/ took' = took \cup {<<w, Recipient(w), Current(w)>>}
      /\ took' # took => error \in {"timeout", "reset"}
  BY DEF Fail
<1>5. /\ breaker' \in [Senders -> {"closed", "open", "half-open"}]
      /\ failures' \in [Senders -> Nat] /\ cooling' \in [Senders -> Nat]
      /\ BreakerTracksFailures'
  <2>1. CASE error = "terminal"
    BY <2>1, <1>3 DEF FailoverInv, TypeOK, BreakerTracksFailures
  <2>2. CASE error # "terminal"
    BY <2>2, <1>2, <1>3, RecordFailureStep
  <2>3. QED BY <2>1, <2>2
<1>6. /\ queue' \in [Runs -> Seq(Recipients \X Seq(Senders))] /\ tries' \in [Runs -> Nat]
      /\ ChainsRouted' /\ AttemptExists' /\ QueuedOnce'
      /\ \A v \in Runs : Waiting(v)' \subseteq Waiting(v)
      /\ error = "timeout" /\ ~OnTimeout => Recipient(w) \notin Waiting(w)'
  <2>1. CASE FailsOver(error) /\ tries[w] + 1 < Limit(w)
    <3>1. tries' = [tries EXCEPT ![w] = tries[w] + 1] /\ UNCHANGED <<queue, left>>
      BY <1>2, <1>3, <2>1
    <3>2. tries \in [Runs -> Nat] /\ Chain(w) = queue[w][1][2] /\ Chain(w) \in Seq(Senders)
      BY <1>2, HeadType DEF FailoverInv, TypeOK
    <3>3. tries[w] + 1 < Len(queue[w][1][2])
      BY <2>1, <3>2, BoundAssumption DEF Limit
    <3>4. AttemptExists'
      BY <1>2, <3>1, <3>2, <3>3 DEF FailoverInv, AttemptExists, TypeOK
    <3>5. ChainsRouted' /\ QueuedOnce'
      <4>1. queue' = queue /\ left' = left /\ ChainsRouted /\ QueuedOnce
        BY <3>1 DEF FailoverInv
      <4>2. ChainsRouted'
        BY <4>1 DEF ChainsRouted, Routed
      <4>3. QueuedOnce'
        BY <4>1 DEF QueuedOnce
      <4>4. QED BY <4>2, <4>3
    <3>6. \A v \in Runs : Waiting(v)' = Waiting(v)
      BY <3>1 DEF Waiting
    <3>7. queue' \in [Runs -> Seq(Recipients \X Seq(Senders))] /\ tries' \in [Runs -> Nat]
      BY <3>1, <3>2 DEF FailoverInv, TypeOK
    <3>8. error = "timeout" => OnTimeout
      BY <2>1 DEF FailsOver
    <3>9. QED BY <3>4, <3>5, <3>6, <3>7, <3>8
  <2>2. CASE ~(FailsOver(error) /\ tries[w] + 1 < Limit(w))
    <3>1. NextRecipient(w)
      BY <1>3, <2>2
    <3>2. QED BY <1>2, <3>1, NextRecipientStep
  <2>3. QED BY <2>1, <2>2
<1>7. TypeOK'
  <2>1. unclear' \subseteq Messages /\ took' \subseteq Attempts
    BY <1>2, <1>3, <1>4 DEF FailoverInv, TypeOK, Attempts, Messages
  <2>2. failed' \in Nat /\ left' \in [Runs -> SUBSET Recipients]
    BY <1>2, <1>3 DEF FailoverInv, TypeOK
  <2>3. asked' \subseteq Attempts /\ wasted' \subseteq Attempts /\ unrouted' \subseteq Messages
    BY <1>2 DEF FailoverInv, TypeOK
  <2>4. QED BY <1>2, <1>5, <1>6, <2>1, <2>2, <2>3 DEF TypeOK
<1>8. TakenIsUnclear' /\ TimeoutNeverResent'
  <2>1. unclear \subseteq unclear' /\ (error = "reset" => <<w, Recipient(w)>> \in unclear')
    BY <1>3
  <2>2. CASE took' = took
    BY <1>6, <2>1, <2>2, TakenStep
  <2>3. CASE took' # took
    <3>1. took' = took \cup {<<w, Recipient(w), Current(w)>>} /\ error \in {"timeout", "reset"}
      BY <1>4, <2>3
    <3>2. CASE OnTimeout
      BY <3>2 DEF TakenIsUnclear, TimeoutNeverResent
    <3>3. CASE ~OnTimeout
      BY <1>2, <1>6, <2>1, <3>1, <3>3, TookStep
    <3>4. QED BY <3>2, <3>3, FlagAssumption
  <2>4. QED BY <2>2, <2>3
<1>9. QED BY <1>2, <1>5, <1>6, <1>7, <1>8 DEF FailoverInv

LEMMA TickStep ==
  ASSUME FailoverInv, Tick
  PROVE  FailoverInv'
<1>1. /\ cooling' = [s \in Senders |-> IF cooling[s] > 0 THEN cooling[s] - 1 ELSE 0]
      /\ UNCHANGED <<breaker, failures, left, queue, tries, flying, failed, asked, took, unclear, probes, wasted, unrouted>>
  BY DEF Tick
<1>2. TypeOK'
  BY <1>1 DEF FailoverInv, TypeOK
<1>3. QED
  BY <1>1, <1>2 DEF FailoverInv, BreakerTracksFailures, RoutingHonoured, TimeoutNeverResent,
                    ChainsRouted, AttemptExists, QueuedOnce, TakenIsUnclear, Waiting, Routed

-----------------------------------------------------------------------------
LEMMA InitFailover == Init => FailoverInv
<1> SUFFICES ASSUME Init PROVE FailoverInv
  OBVIOUS
<1>1. TypeOK
  BY DEF Init, TypeOK
<1>2. BreakerTracksFailures
  BY BoundAssumption DEF Init, BreakerTracksFailures
<1>3. \A w \in Runs : queue[w] = <<>> /\ tries[w] = 0 /\ ~flying[w]
  BY DEF Init
<1>4. ChainsRouted /\ AttemptExists /\ QueuedOnce
  BY <1>3 DEF ChainsRouted, AttemptExists, QueuedOnce
<1>5. RoutingHonoured /\ TimeoutNeverResent /\ TakenIsUnclear
  BY DEF Init, RoutingHonoured, TimeoutNeverResent, TakenIsUnclear
<1>6. QED BY <1>1, <1>2, <1>4, <1>5 DEF FailoverInv

LEMMA FailoverStep == FailoverInv /\ [Next]_vars => FailoverInv'
<1> SUFFICES ASSUME FailoverInv, [Next]_vars PROVE FailoverInv'
  OBVIOUS
<1>1. ASSUME NEW w \in Runs, Resolve(w) PROVE FailoverInv'
  BY <1>1, ResolveStep
<1>2. ASSUME NEW w \in Runs, Send(w) PROVE FailoverInv'
  BY <1>2, SendStep
<1>3. ASSUME NEW w \in Runs, Succeed(w) PROVE FailoverInv'
  BY <1>3, SucceedStep
<1>4. ASSUME NEW w \in Runs, NEW error \in Errors, Fail(w, error) PROVE FailoverInv'
  BY <1>4, FailStep
<1>5. CASE Tick
  BY <1>5, TickStep
<1>6. CASE UNCHANGED vars
  BY <1>6 DEF vars, FailoverInv, TypeOK, BreakerTracksFailures, RoutingHonoured, TimeoutNeverResent,
              ChainsRouted, AttemptExists, QueuedOnce, TakenIsUnclear, Waiting, Routed
<1>7. QED BY <1>1, <1>2, <1>3, <1>4, <1>5, <1>6 DEF Next

LEMMA FailoverAlways == Spec => []FailoverInv
BY InitFailover, FailoverStep, PTL DEF Spec

\* Breakers hold states and counts, queues hold recipients with chains of senders,
\* and every attempt is of a run, a recipient and a sender.
THEOREM FailoverTypeCorrect == Spec => []TypeOK
<1>1. FailoverInv => TypeOK
  BY DEF FailoverInv
<1>2. QED BY <1>1, FailoverAlways, PTL

\* However runs overlap, a breaker is open or half-open exactly while its count
\* stands at the threshold (recordFailure, recordSuccess, isBreakerAvailable).
THEOREM BreakerCorrect == Spec => []BreakerTracksFailures
<1>1. FailoverInv => BreakerTracksFailures
  BY DEF FailoverInv
<1>2. QED BY <1>1, FailoverAlways, PTL

\* With on_timeout off, two providers took a message only after a reset connection
\* (classifyError, sendWithFailover).
THEOREM TimeoutCorrect == Spec => []TimeoutNeverResent
<1>1. FailoverInv => TimeoutNeverResent
  BY DEF FailoverInv
<1>2. QED BY <1>1, FailoverAlways, PTL

\* A strictly pinned run asks its sender alone, and a pin-only sender is asked only
\* by those who pinned it (resolveSenderChainForRecipient, orderForRecipient).
THEOREM RoutingCorrect == Spec => []RoutingHonoured
<1>1. FailoverInv => RoutingHonoured
  BY DEF FailoverInv
<1>2. QED BY <1>1, FailoverAlways, PTL
=============================================================================
