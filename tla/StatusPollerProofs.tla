-------------------------- MODULE StatusPollerProofs --------------------------
(***************************************************************************)
(* What TLAPS proves of StatusPoller, for any messages, senders, statuses, *)
(* limits, webhook requests and faults: the type invariant, that a         *)
(* recorded event was reported and that no rung of the ladder is skipped;  *)
(* and, without webhooks, that only a fault repeats a report and that a    *)
(* final event ends polling.                                               *)
(***************************************************************************)
EXTENDS StatusPoller, TLAPS

USE DEF table, locals, handlers, history

\* A row stands for a message that was sent, and only rows are looked up.
SentInv ==
  \A m \in Msgs : /\ row[m] # "absent" => truth[m] # "unsent"
                  /\ m \in todo \cup flight => row[m] # "absent"

\* The stages of a tick: nothing is forwarded before every lookup has returned,
\* and what is forwarded is the change itself and every step it passed.
TickInv ==
  /\ tick = "idle" => todo = {} /\ flight = {} /\ Changed = {}
  /\ chunk \subseteq Changed
  /\ chunk # {} => todo = {} /\ flight = {}
  /\ \A m \in chunk : Mine(m) = WithImpliedSteps(m, change[m], seen[m])

\* Whatever is, or may still be, recorded as reported is with the receiver.
RecordedInv ==
  /\ \A m \in Msgs : statusEvent[m] # "none" => <<m, statusEvent[m]>> \in reported
  /\ \A m \in Msgs : seen[m] # "none" => <<m, seen[m]>> \in reported
  /\ \A r \in DOMAIN verdict : verdict[r] \in {"ok", "lost"} => r \in reported
  /\ \A h \in Hooks : hook[h] \in {"read", "write"} => receipts[h] \subseteq reported

\* A message bounced if any part of the dispatcher says so.
BouncedInv ==
  \A m \in Msgs :
    \/ truth[m] = "bounced"
    \/ /\ statusEvent[m] # "bounced" /\ seen[m] # "bounced" /\ change[m] # "bounced"
       /\ <<m, "bounced">> \notin reported \cup DOMAIN verdict
       /\ \A h \in Hooks : <<m, "bounced">> \notin receipts[h]

\* The receiver has every rung below e.
Told(m, e) ==
  e \in Ladder => \A f \in Ladder \ {"dispatched"} : Rank[f] < Rank[e] => <<m, f>> \in reported

Excused(m) == m \in blind \/ (webhooks > 0 /\ faults > 0)

\* What the handler of a request holds of a message is told of from below: the
\* rungs under a receipt are with the receiver, or about to be forwarded with it.
HookTold(m, h) ==
  \A e \in Events : <<m, e>> \in receipts[h] =>
    /\ hook[h] \in {"read", "write"} => Told(m, e)
    /\ hook[h] = "forward" /\ e \in Ladder =>
         \A f \in Ladder \ {"dispatched"} :
           Rank[f] < Rank[e] => <<m, f>> \in reported \cup receipts[h]

ToldInv(m) ==
  Told(m, statusEvent[m]) /\ Told(m, seen[m]) /\ \A h \in Hooks : HookTold(m, h)

\* Verdicts respect the ladder, and so does everything recorded or about to be.
LadderInv ==
  /\ \A h \in Hooks : hook[h] # "idle" => webhooks > 0
  /\ \A m \in Msgs : change[m] # "none" => seen[m] # "bounced" /\ Rank[seen[m]] < Rank[change[m]]
  /\ \A r, q \in DOMAIN verdict :
       r[1] = q[1] /\ verdict[r] \in {"ok", "lost"} /\ verdict[q] = "refused" => Rank[r[2]] < Rank[q[2]]
  /\ \A m \in Msgs : Excused(m) \/ ToldInv(m)

\* Without webhooks no handler runs.
QuietInv == webhooks = 0 /\ \A h \in Hooks : hook[h] = "idle"

\* The poller alone, before any fault: a batch got one kind of answer,
OneAnswer ==
  \/ \A r \in DOMAIN verdict : verdict[r] \in {"ok", "refused"}
  \/ \A r \in DOMAIN verdict : verdict[r] = "failed"

\* a message is at one place of the tick, its snapshot is its row's event, which is
\* not final, and a row with a final event is not polled;
Fresh ==
  /\ todo \cap flight = {} /\ (todo \cup flight) \cap Changed = {}
  /\ \A m \in todo \cup flight \cup Changed : seen[m] = statusEvent[m] /\ statusEvent[m] \notin Final
  /\ \A m \in Msgs : statusEvent[m] \in Final => poll[m] = "off"
  /\ \A m \in Msgs : row[m] = "absent" => statusEvent[m] = "none" /\ m \notin Changed

\* and the receiver has nothing of it beyond that event but what the verdict at
\* hand says.
Known(r) ==
  \/ ~Kept(r[1])
  \/ Rank[r[2]] <= Rank[statusEvent[r[1]]]
  \/ r[1] \in chunk /\ r \in DOMAIN verdict /\ verdict[r] = "ok"

Accounted ==
  \A r \in reported :
    /\ row[r[1]] # "absent" /\ Known(r)
    /\ r[1] \in todo \cup flight \cup (Changed \ chunk) => Rank[r[2]] <= Rank[seen[r[1]]]

Alone == stray = {} /\ repeated = {} /\ OneAnswer /\ Fresh /\ Accounted

AloneInv == faults = 0 => Alone

-----------------------------------------------------------------------------
LEMMA RankFacts ==
  /\ Rank["none"] = 1 /\ Rank["dispatched"] = 1 /\ Rank["delivered"] = 2
  /\ Rank["read"] = 3 /\ Rank["bounced"] = 3 /\ Rank["clicked"] = 4
  /\ \A e \in Events \cup {"none"} : Rank[e] \in 1 .. 4
  /\ \A e \in Events : Rank[e] > 1 <=> e # "dispatched"
BY DEF Rank, Events

\* What is forwarded for a message: the change itself, and rungs between the two.
LEMMA ImpliedFacts ==
  ASSUME NEW m \in Msgs, NEW next \in Events \ {"dispatched"}, NEW last \in Events \cup {"none"},
         Rank[last] < Rank[next]
  PROVE  /\ WithImpliedSteps(m, next, last) \subseteq Receipts
         /\ <<m, next>> \in WithImpliedSteps(m, next, last)
         /\ \A r \in WithImpliedSteps(m, next, last) :
              r[1] = m /\ Rank[last] < Rank[r[2]] /\ Rank[r[2]] <= Rank[next]
BY RankFacts DEF WithImpliedSteps, ImpliedSteps, Receipts, Events, Ladder


LEMMA OutcomeFacts ==
  ASSUME NEW R, NEW D, NEW o \in Outcomes(R, D)
  PROVE  /\ o \in [R -> Verdicts]
         /\ \A r, q \in R :
              r[1] = q[1] /\ o[r] \in {"ok", "lost"} /\ o[q] = "refused" => Rank[r[2]] < Rank[q[2]]
<1>1. CASE \A r \in R : r[1] \notin deleted \cup D
  <2>1. PICK v \in Verdicts \ {"refused"} : o = [r \in R |-> v]
    BY <1>1 DEF Outcomes
  <2>2. QED
    BY <2>1
<1>2. CASE ~(\A r \in R : r[1] \notin deleted \cup D)
  BY <1>2 DEF Outcomes
<1>3. QED
  BY <1>1, <1>2

LEMMA ForwardType ==
  ASSUME TypeOK, NEW R \in SUBSET Receipts, NEW D \in SUBSET Msgs, NEW o, Forward(R, D, o)
  PROVE  /\ o \in [R -> Verdicts]
         /\ deleted' \subseteq Msgs /\ reported' \subseteq Receipts /\ repeated' \subseteq Receipts
         /\ blind' = blind /\ faults' \in Nat
BY OutcomeFacts DEF Forward, TypeOK

LEMMA RescheduleType ==
  ASSUME TypeOK, NEW m \in Msgs, NEW when \in {"off", "later"}, Reschedule(m, when)
  PROVE  poll' \in [Msgs -> {"off", "due", "later"}]
BY DEF Reschedule, TypeOK

LEMMA AnswerWriteType ==
  ASSUME TypeOK, NEW m \in Msgs, NEW last, NEW lookup, AnswerWrite(m, last, lookup)
  PROVE  poll' \in [Msgs -> {"off", "due", "later"}] /\ paused' \subseteq Senders
<1>1. poll' \in [Msgs -> {"off", "due", "later"}]
  BY RescheduleType DEF AnswerWrite
<1>2. paused' \subseteq Senders
  BY SenderAssumption DEF AnswerWrite, TypeOK
<1>3. QED
  BY <1>1, <1>2

LEMMA SettledType ==
  ASSUME TypeOK, NEW m \in Msgs, Settled(m)
  PROVE  /\ chunk' \subseteq Msgs
         /\ change' \in [Msgs -> (Events \ {"dispatched"}) \cup {"none"}]
         /\ DOMAIN verdict' = DOMAIN verdict \ Mine(m)
         /\ \A r \in DOMAIN verdict' : verdict'[r] = verdict[r]
         /\ verdict' \in [DOMAIN verdict' -> Verdicts] /\ DOMAIN verdict' \subseteq Receipts
<1>1. chunk' \subseteq Msgs
  BY DEF Settled, TypeOK
<1>2. change' \in [Msgs -> (Events \ {"dispatched"}) \cup {"none"}]
  BY DEF Settled, TypeOK
<1>3. verdict' = [r \in DOMAIN verdict \ Mine(m) |-> verdict[r]]
  BY DEF Settled
<1>4. QED
  BY <1>1, <1>2, <1>3 DEF TypeOK

LEMMA ReceiptType ==
  ASSUME TypeOK, NEW m \in Msgs, NEW e \in Events, e \in Reached(m)
  PROVE  /\ e # "dispatched" /\ <<m, e>> \in Receipts
         /\ Reconcile(m, e) \subseteq Receipts
         /\ \A r \in Reconcile(m, e) : r[1] = m
<1>1. e # "dispatched"
  BY RankFacts DEF Reached
<1>2. CASE Kept(m) /\ Rank[statusEvent[m]] < Rank[e]
  <2>1. statusEvent[m] \in Events \cup {"none"}
    BY DEF TypeOK
  <2>2. Reconcile(m, e) = WithImpliedSteps(m, e, statusEvent[m])
    BY <1>2, <2>1, RankFacts DEF Reconcile
  <2>3. QED
    BY <1>1, <1>2, <2>1, <2>2, ImpliedFacts DEF Receipts
<1>3. CASE ~(Kept(m) /\ Rank[statusEvent[m]] < Rank[e])
  <2>1. Rank[statusEvent[m]] \in 1 .. 4 /\ Rank[e] \in 1 .. 4
    BY RankFacts DEF TypeOK
  <2>2. Reconcile(m, e) \subseteq {<<m, e>>}
    BY <1>3, <2>1 DEF Reconcile
  <2>3. QED
    BY <1>1, <2>2 DEF Receipts
<1>4. QED
  BY <1>2, <1>3

\* What the handler of a request has in hand after reading the rows.
LEMMA ReceiveStep ==
  ASSUME TypeOK, NEW h \in Hooks, Receive(h)
  PROVE  /\ receipts' = [receipts EXCEPT ![h] = receipts'[h]]
         /\ hook' = [hook EXCEPT ![h] = hook'[h]] /\ hook[h] = "idle" /\ hook'[h] \in {"idle", "forward"}
         /\ receipts'[h] \subseteq Receipts
         /\ webhooks < MaxWebhooks /\ webhooks' = webhooks + 1 /\ faults' \in Nat /\ faults <= faults'
         /\ blind \subseteq blind' /\ blind' \subseteq Msgs
         /\ \A r \in receipts'[h] : \E e \in Events :
              /\ e \in Reached(r[1])
              /\ \/ r = <<r[1], e>> /\ r[1] \in blind'
                 \/ /\ r \in Reconcile(r[1], e) /\ Kept(r[1])
                    /\ Reconcile(r[1], e) \subseteq receipts'[h]
<1>1. PICK S \in SUBSET Msgs, unread \in BOOLEAN : \E f \in [S -> Events] :
        /\ \A m \in S : f[m] \in Reached(m)
        /\ faults' = IF unread THEN faults + 1 ELSE faults
        /\ LET out == IF unread THEN {<<m, f[m]>> : m \in S}
                                ELSE UNION {Reconcile(m, f[m]) : m \in S}
           IN  /\ receipts' = [receipts EXCEPT ![h] = out]
               /\ hook' = [hook EXCEPT ![h] = IF out = {} THEN "idle" ELSE "forward"]
        /\ blind' = blind \cup {m \in S : unread \/ ~Kept(m)}
  BY DEF Receive
<1>2. PICK f \in [S -> Events] :
        /\ \A m \in S : f[m] \in Reached(m)
        /\ faults' = IF unread THEN faults + 1 ELSE faults
        /\ LET out == IF unread THEN {<<m, f[m]>> : m \in S}
                                ELSE UNION {Reconcile(m, f[m]) : m \in S}
           IN  /\ receipts' = [receipts EXCEPT ![h] = out]
               /\ hook' = [hook EXCEPT ![h] = IF out = {} THEN "idle" ELSE "forward"]
        /\ blind' = blind \cup {m \in S : unread \/ ~Kept(m)}
  BY <1>1
<1> DEFINE out == IF unread THEN {<<m, f[m]>> : m \in S}
                            ELSE UNION {Reconcile(m, f[m]) : m \in S}
<1>3. /\ receipts' = [receipts EXCEPT ![h] = out] /\ receipts'[h] = out
      /\ hook' = [hook EXCEPT ![h] = hook'[h]] /\ hook'[h] \in {"idle", "forward"}
  BY <1>2 DEF TypeOK
<1>4. \A m \in S : f[m] \in Events /\ <<m, f[m]>> \in Receipts
        /\ Reconcile(m, f[m]) \subseteq Receipts /\ \A r \in Reconcile(m, f[m]) : r[1] = m
  BY <1>2, ReceiptType
<1>5. out \subseteq Receipts
  BY <1>4
<1>6. ASSUME NEW r \in out
      PROVE  \E e \in Events :
               /\ e \in Reached(r[1])
               /\ \/ r = <<r[1], e>> /\ r[1] \in blind'
                  \/ /\ r \in Reconcile(r[1], e) /\ Kept(r[1])
                     /\ Reconcile(r[1], e) \subseteq out
  <2>1. CASE unread
    BY <1>2, <1>4, <2>1
  <2>2. CASE ~unread
    <3>1. PICK m \in S : r \in Reconcile(m, f[m])
      BY <2>2
    <3>2. r[1] = m /\ f[m] \in Events /\ f[m] \in Reached(m) /\ Reconcile(m, f[m]) \subseteq out
      BY <1>2, <1>4, <2>2, <3>1
    <3>3. CASE Kept(m)
      BY <3>1, <3>2, <3>3
    <3>4. CASE ~Kept(m)
      <4>1. r = <<m, f[m]>> /\ m \in blind'
        BY <1>2, <3>1, <3>4 DEF Reconcile
      <4>2. QED
        BY <3>2, <4>1
    <3>5. QED
      BY <3>3, <3>4
  <2>3. QED
    BY <2>1, <2>2
<1>7. QED
  <2> HIDE DEF out
  <2>1. hook[h] = "idle" /\ webhooks < MaxWebhooks /\ webhooks' = webhooks + 1
    BY DEF Receive
  <2>2. faults' \in Nat /\ faults <= faults' /\ blind \subseteq blind' /\ blind' \subseteq Msgs
    BY <1>2 DEF TypeOK
  <2>3. QED
    BY <1>3, <1>5, <1>6, <2>1, <2>2


\* The receipts of a chunk of changes.
Batch(C) == UNION {WithImpliedSteps(m, change[m], seen[m]) : m \in C}

LEMMA BatchFacts ==
  ASSUME TypeOK, NEW C \in SUBSET Changed
  PROVE  Batch(C) \subseteq Receipts
<1> SUFFICES ASSUME NEW m \in C PROVE WithImpliedSteps(m, change[m], seen[m]) \subseteq Receipts
  BY DEF Batch
<1>1. m \in Msgs /\ change[m] \in Events \ {"dispatched"} /\ seen[m] \in Events \cup {"none"}
  BY DEF TypeOK, Changed
<1>2. QED
  BY <1>1, RankFacts DEF WithImpliedSteps, ImpliedSteps, Receipts, Events, Ladder

LEMMA HighestRank ==
  ASSUME NEW S \in SUBSET Events, NEW e \in S
  PROVE  \E f \in S : Rank[e] <= Rank[f] /\ \A g \in S : Rank[g] <= Rank[f]
<1>1. \A g \in S : Rank[g] \in 1 .. 4
  BY RankFacts
<1>2. CASE \E f \in S : Rank[f] = 4
  BY <1>1, <1>2
<1>3. CASE (\E f \in S : Rank[f] = 3) /\ ~(\E f \in S : Rank[f] = 4)
  BY <1>1, <1>3
<1>4. CASE (\E f \in S : Rank[f] = 2) /\ ~(\E f \in S : Rank[f] \in {3, 4})
  BY <1>1, <1>4
<1>5. CASE \A f \in S : Rank[f] = 1
  BY <1>5
<1>6. QED
  BY <1>1, <1>2, <1>3, <1>4, <1>5

LEMMA EmptyVerdict == DOMAIN <<>> = {} /\ <<>> \in [DOMAIN <<>> -> Verdicts]
OBVIOUS

\* What a refusal records: an accepted step of the message, if one is further
\* along than its row and as far as any of them.
LEMMA TopFacts ==
  ASSUME TypeOK, NEW m \in Msgs, SettleRefused(m)
  PROVE  \/ UNCHANGED statusEvent
            /\ (~Kept(m) \/ \A r \in Mine(m) : verdict[r] = "ok" => ~(Rank[r[2]] > Rank[seen[m]]))
         \/ \E e \in Events :
              /\ statusEvent' = [statusEvent EXCEPT ![m] = e] /\ Kept(m)
              /\ <<m, e>> \in Mine(m) /\ verdict[<<m, e>>] = "ok" /\ Rank[e] > Rank[seen[m]]
              /\ \A r \in Mine(m) : verdict[r] = "ok" => Rank[r[2]] <= Rank[e]
<1> DEFINE reached == {r[2] : r \in {q \in Mine(m) : verdict[q] = "ok"}}
           top == {e \in reached : Rank[e] > Rank[seen[m]] /\ \A f \in reached : Rank[f] <= Rank[e]}
<1>1. statusEvent' = IF Kept(m) /\ top # {}
                       THEN [statusEvent EXCEPT ![m] = CHOOSE e \in top : TRUE] ELSE statusEvent
  BY DEF SettleRefused
<1>2. \A r \in Mine(m) : r = <<m, r[2]>> /\ r[2] \in Events
  BY DEF Mine, TypeOK, Receipts
<1>3. CASE Kept(m) /\ top # {}
  <2>1. PICK e : e \in top /\ e = CHOOSE f \in top : TRUE
    BY <1>3
  <2>2. PICK r \in Mine(m) : verdict[r] = "ok" /\ e = r[2]
    BY <2>1
  <2>3. QED
    BY <1>1, <1>2, <1>3, <2>1, <2>2
<1>4. CASE ~Kept(m)
  BY <1>1, <1>4
<1>5. CASE Kept(m) /\ top = {}
  <2>1. reached \subseteq Events
    BY <1>2
  <2>2. \A e \in reached : Rank[e] \in 1 .. 4
    BY <2>1, RankFacts
  <2>3. ASSUME NEW e \in reached, Rank[e] > Rank[seen[m]] PROVE FALSE
    <3>1. PICK f \in reached : Rank[e] <= Rank[f] /\ \A g \in reached : Rank[g] <= Rank[f]
      BY <2>1, HighestRank
    <3>2. Rank[e] \in Int /\ Rank[f] \in Int /\ Rank[seen[m]] \in Int
      BY <2>2, RankFacts DEF TypeOK
    <3>3. f \in top
      BY <2>3, <3>1, <3>2
    <3>4. QED
      BY <1>5, <3>3
  <2>4. QED
    BY <1>1, <1>5, <2>3
<1>6. QED
  BY <1>3, <1>4, <1>5

LEMMA TypeStep == TypeOK /\ SentInv /\ [Next]_vars => (TypeOK /\ SentInv)'
<1> SUFFICES ASSUME TypeOK, SentInv, [Next]_vars PROVE (TypeOK /\ SentInv)'
  OBVIOUS
<1>1. ASSUME NEW m \in Msgs, Progress(m) PROVE (TypeOK /\ SentInv)'
  <2>1. truth' \in [Msgs -> Events \cup {"unsent"}]
    BY <1>1 DEF Progress, TypeOK, Succ, Events
  <2>2. \A q \in Msgs : truth[q] # "unsent" => truth'[q] # "unsent"
    BY <1>1 DEF Progress, TypeOK, Succ, Events
  <2>3. QED
    BY <1>1, <2>1, <2>2 DEF Progress, TypeOK, SentInv
<1>2. ASSUME NEW m \in Msgs, Record(m) PROVE (TypeOK /\ SentInv)'
  BY <1>2 DEF Record, TypeOK, SentInv
<1>3. ASSUME NEW m \in Msgs, Elapse(m) PROVE (TypeOK /\ SentInv)'
  BY <1>3 DEF Elapse, TypeOK, SentInv
<1>4. ASSUME NEW m \in Msgs, Age(m) PROVE (TypeOK /\ SentInv)'
  BY <1>4 DEF Age, TypeOK, SentInv
<1>5. ASSUME NEW m \in Msgs, Prune(m) PROVE (TypeOK /\ SentInv)'
  BY <1>5 DEF Prune, Kept, TypeOK, SentInv
<1>6. ASSUME NEW s \in Senders, Unpause(s) PROVE (TypeOK /\ SentInv)'
  BY <1>6 DEF Unpause, TypeOK, SentInv
<1>7. CASE StartTick
  BY <1>7 DEF StartTick, Kept, TypeOK, SentInv
<1>8. ASSUME NEW m \in Msgs, StartLookup(m) PROVE (TypeOK /\ SentInv)'
  <2>1. poll' \in [Msgs -> {"off", "due", "later"}]
    BY <1>8, RescheduleType DEF StartLookup, TypeOK
  <2>2. flight' \subseteq Msgs /\ todo' \subseteq todo /\ todo' \cup flight' \subseteq todo \cup flight
    BY <1>8 DEF StartLookup, TypeOK
  <2>3. QED
    BY <1>8, <2>1, <2>2 DEF StartLookup, TypeOK, SentInv
<1>9. ASSUME NEW m \in Msgs, NEW lookup \in Lookups, Answer(m, lookup)
      PROVE  (TypeOK /\ SentInv)'
  <2>1. poll' \in [Msgs -> {"off", "due", "later"}] /\ paused' \subseteq Senders
    BY <1>9, AnswerWriteType DEF Answer, TypeOK
  <2>2. change' \in [Msgs -> (Events \ {"dispatched"}) \cup {"none"}]
    <3>1. CASE lookup = "status" /\ Further(m, seen[m])
      <4>1. truth[m] # "unsent"
        BY <1>9 DEF Answer, SentInv
      <4>2. truth[m] \in Events /\ seen[m] \in Events \cup {"none"}
        BY <4>1 DEF TypeOK
      <4>3. truth[m] # "dispatched"
        BY <3>1, <4>2, RankFacts DEF Further
      <4>4. QED
        BY <1>9, <3>1, <4>2, <4>3 DEF Answer, TypeOK
    <3>2. CASE ~(lookup = "status" /\ Further(m, seen[m]))
      BY <1>9, <3>2 DEF Answer, TypeOK
    <3>3. QED
      BY <3>1, <3>2
  <2>3. QED
    BY <1>9, <2>1, <2>2 DEF Answer, TypeOK, SentInv
<1>10. CASE ForwardChunkStep
  <2>1. PICK C \in SUBSET Changed : \E D \in SUBSET (C \ deleted) :
          C # {} /\ Forward(Batch(C), D, verdict') /\ chunk' = C
    BY <1>10 DEF ForwardChunkStep, Batch
  <2>2. Batch(C) \in SUBSET Receipts /\ C \subseteq Msgs
    BY <2>1, BatchFacts DEF Changed
  <2>3. /\ verdict' \in [Batch(C) -> Verdicts]
        /\ deleted' \subseteq Msgs /\ reported' \subseteq Receipts /\ repeated' \subseteq Receipts
        /\ blind' = blind /\ faults' \in Nat
    BY <2>1, <2>2, ForwardType
  <2>4. QED
    BY <1>10, <2>1, <2>2, <2>3 DEF ForwardChunkStep, TypeOK, SentInv
<1>11. ASSUME NEW m \in Msgs, SettleRefused(m) PROVE (TypeOK /\ SentInv)'
  <2>1. Settled(m) /\ poll' \in [Msgs -> {"off", "due", "later"}]
    BY <1>11, RescheduleType DEF SettleRefused
  <2>2. statusEvent' \in [Msgs -> Events \cup {"none"}]
    <3>1. UNCHANGED statusEvent \/ \E e \in Events : statusEvent' = [statusEvent EXCEPT ![m] = e]
      BY <1>11, TopFacts
    <3>2. QED
      BY <3>1 DEF TypeOK
  <2>3. UNCHANGED <<truth, deleted, row, old, paused, tick, todo, flight, seen, stray, handlers,
                    faults, history>>
    BY <2>1 DEF Settled
  <2>4. QED
    BY <2>1, <2>2, <2>3, SettledType DEF TypeOK, SentInv
<1>12. ASSUME NEW m \in Msgs, SettleAccepted(m) PROVE (TypeOK /\ SentInv)'
  <2>1. Settled(m) /\ poll' \in [Msgs -> {"off", "due", "later"}]
    BY <1>12, RescheduleType DEF SettleAccepted
  <2>2. statusEvent' \in [Msgs -> Events \cup {"none"}]
    BY <1>12 DEF SettleAccepted, TypeOK
  <2>3. UNCHANGED <<truth, deleted, row, old, paused, tick, todo, flight, seen, stray, handlers,
                    faults, history>>
    BY <2>1 DEF Settled
  <2>4. QED
    BY <2>1, <2>2, <2>3, SettledType DEF TypeOK, SentInv
<1>13. ASSUME NEW m \in Msgs, SettleRetry(m) PROVE (TypeOK /\ SentInv)'
  <2>1. Settled(m) /\ poll' \in [Msgs -> {"off", "due", "later"}]
    BY <1>13, RescheduleType DEF SettleRetry
  <2>2. statusEvent' \in [Msgs -> Events \cup {"none"}]
    BY <1>13 DEF SettleRetry, TypeOK
  <2>3. UNCHANGED <<truth, deleted, row, old, paused, tick, todo, flight, seen, stray, handlers,
                    faults, history>>
    BY <2>1 DEF Settled
  <2>4. QED
    BY <2>1, <2>2, <2>3, SettledType DEF TypeOK, SentInv
<1>14. CASE EndTick
  BY <1>14 DEF EndTick, TypeOK, SentInv
<1>15. ASSUME NEW h \in Hooks, Receive(h) PROVE (TypeOK /\ SentInv)'
  <2>1. receipts' \in [Hooks -> SUBSET Receipts]
    BY <1>15, ReceiveStep DEF TypeOK
  <2>2. hook' \in [Hooks -> {"idle", "forward", "read", "write"}]
    BY <1>15, ReceiveStep DEF TypeOK
  <2>3. webhooks' \in Nat /\ faults' \in Nat /\ blind' \subseteq Msgs
    BY <1>15, ReceiveStep DEF TypeOK
  <2>4. QED
    BY <1>15, <2>1, <2>2, <2>3 DEF Receive, TypeOK, SentInv
<1>16. ASSUME NEW h \in Hooks, HookForward(h) PROVE (TypeOK /\ SentInv)'
  <2>1. PICK D \in SUBSET {r[1] : r \in {q \in receipts[h] : q[1] \notin deleted}} :
          \E o \in Outcomes(receipts[h], D) :
            /\ Forward(receipts[h], D, o)
            /\ receipts' = [receipts EXCEPT ![h] = {r \in receipts[h] : o[r] = "ok"}]
            /\ hook' = [hook EXCEPT ![h] =
                 IF {r \in receipts[h] : o[r] = "ok"} = {} THEN "idle" ELSE "read"]
    BY <1>16 DEF HookForward
  <2>2. PICK o \in Outcomes(receipts[h], D) :
          /\ Forward(receipts[h], D, o)
          /\ receipts' = [receipts EXCEPT ![h] = {r \in receipts[h] : o[r] = "ok"}]
          /\ hook' = [hook EXCEPT ![h] =
               IF {r \in receipts[h] : o[r] = "ok"} = {} THEN "idle" ELSE "read"]
    BY <2>1
  <2>3. receipts[h] \in SUBSET Receipts
    BY DEF TypeOK
  <2>4. D \in SUBSET Msgs
    BY <2>3 DEF Receipts
  <2>5. /\ deleted' \subseteq Msgs /\ reported' \subseteq Receipts /\ repeated' \subseteq Receipts
        /\ blind' = blind /\ faults' \in Nat
    BY <2>2, <2>3, <2>4, ForwardType
  <2>6. receipts' \in [Hooks -> SUBSET Receipts]
    BY <2>2, <2>3 DEF TypeOK
  <2>7. hook' \in [Hooks -> {"idle", "forward", "read", "write"}]
    BY <2>2 DEF TypeOK
  <2>8. QED
    BY <1>16, <2>5, <2>6, <2>7 DEF HookForward, TypeOK, SentInv
<1>17. ASSUME NEW h \in Hooks, HookRead(h) PROVE (TypeOK /\ SentInv)'
  BY <1>17 DEF HookRead, TypeOK, SentInv
<1>18. ASSUME NEW h \in Hooks, HookWrite(h) PROVE (TypeOK /\ SentInv)'
  <2>1. PICK r \in receipts[h] :
          /\ statusEvent' = IF Kept(r[1]) THEN [statusEvent EXCEPT ![r[1]] = r[2]] ELSE statusEvent
          /\ IF r[2] \in Final THEN Reschedule(r[1], "off") ELSE UNCHANGED poll
          /\ receipts' = [receipts EXCEPT ![h] = receipts[h] \ {r}]
          /\ hook' = [hook EXCEPT ![h] = IF receipts[h] \ {r} = {} THEN "idle" ELSE "write"]
    BY <1>18 DEF HookWrite
  <2>2. r[1] \in Msgs /\ r[2] \in Events
    BY DEF TypeOK, Receipts
  <2>3. statusEvent' \in [Msgs -> Events \cup {"none"}]
    BY <2>1, <2>2 DEF TypeOK
  <2>4. poll' \in [Msgs -> {"off", "due", "later"}]
    BY <2>1, <2>2, RescheduleType DEF TypeOK
  <2>5. receipts' \in [Hooks -> SUBSET Receipts]
    BY <2>1 DEF TypeOK
  <2>6. hook' \in [Hooks -> {"idle", "forward", "read", "write"}]
    BY <2>1 DEF TypeOK
  <2>7. QED
    BY <1>18, <2>3, <2>4, <2>5, <2>6 DEF HookWrite, TypeOK, SentInv
<1>19. ASSUME NEW h \in Hooks, HookFails(h) PROVE (TypeOK /\ SentInv)'
  BY <1>19 DEF HookFails, TypeOK, SentInv
<1>20. CASE TickFails
  <2>1. stray' \subseteq Msgs \X (Events \cup {"none"})
    BY <1>20 DEF TickFails, TypeOK
  <2>2. DOMAIN verdict' = {} /\ verdict' \in [DOMAIN verdict' -> Verdicts]
    BY <1>20, EmptyVerdict DEF TickFails, ResetTick
  <2>3. QED
    BY <1>20, <2>1, <2>2 DEF TickFails, ResetTick, TypeOK, SentInv
<1>21. ASSUME NEW x \in stray, NEW lookup \in Lookups, StrayAnswer(x, lookup)
       PROVE  (TypeOK /\ SentInv)'
  <2>1. x[1] \in Msgs
    BY DEF TypeOK
  <2>2. poll' \in [Msgs -> {"off", "due", "later"}] /\ paused' \subseteq Senders
    BY <1>21, <2>1, AnswerWriteType DEF StrayAnswer, TypeOK
  <2>3. QED
    BY <1>21, <2>2 DEF StrayAnswer, TypeOK, SentInv
<1>22. CASE Crash
  <2>1. DOMAIN verdict' = {} /\ verdict' \in [DOMAIN verdict' -> Verdicts]
    BY <1>22, EmptyVerdict DEF Crash, ResetTick
  <2>2. QED
    BY <1>22, <2>1 DEF Crash, ResetTick, TypeOK, SentInv
<1>23. CASE UNCHANGED vars
  BY <1>23 DEF vars, TypeOK, SentInv
<1>24. QED
  BY <1>1, <1>2, <1>3, <1>4, <1>5, <1>6, <1>7, <1>8, <1>9, <1>10, <1>11, <1>12, <1>13, <1>14,
     <1>15, <1>16, <1>17, <1>18, <1>19, <1>20, <1>21, <1>22, <1>23
     DEF Next, LookupStep, SettleStep

LEMMA TypeAlways == Spec => [](TypeOK /\ SentInv)
<1>1. ASSUME Init PROVE TypeOK /\ SentInv
  <2>1. DOMAIN verdict = {} /\ verdict \in [DOMAIN verdict -> Verdicts]
    BY <1>1, EmptyVerdict DEF Init
  <2>2. QED
    BY <1>1, <2>1 DEF Init, TypeOK, SentInv
<1>2. QED
  BY <1>1, TypeStep, PTL DEF Spec

\* Every variable keeps its type; in particular no receipt ever says dispatched.
THEOREM TypeCorrect == Spec => []TypeOK
BY TypeAlways, PTL


-----------------------------------------------------------------------------
\* A settled message leaves the chunk, and takes only its own receipts with it.
LEMMA SettledFacts ==
  ASSUME TypeOK, TickInv, NEW m \in Msgs, Settled(m)
  PROVE  /\ m \in chunk /\ tick = "busy" /\ tick' = "busy" /\ todo = {} /\ flight = {}
         /\ todo' = {} /\ flight' = {} /\ seen' = seen
         /\ chunk' = chunk \ {m} /\ Changed' = Changed \ {m}
         /\ change'[m] = "none"
         /\ \A q \in Msgs : q # m => change'[q] = change[q] /\ Mine(q)' = Mine(q)
<1>1. /\ m \in chunk /\ chunk' = chunk \ {m} /\ change' = [change EXCEPT ![m] = "none"]
      /\ UNCHANGED <<tick, todo, flight, seen>>
  BY DEF Settled
<1>2. tick = "busy"
  BY <1>1 DEF TickInv, TypeOK
<1>3. \A q \in Msgs : q # m => Mine(q)' = Mine(q)
  BY SettledType DEF Mine
<1>4. Changed' = Changed \ {m}
  BY <1>1 DEF Changed, TypeOK
<1>5. QED
  BY <1>1, <1>2, <1>3, <1>4 DEF TickInv, TypeOK

LEMMA SettledTick ==
  ASSUME TypeOK, TickInv, NEW m \in Msgs, Settled(m) PROVE TickInv'
<1>1. \A q \in chunk' : q \in Msgs /\ q # m /\ q \in chunk
  BY SettledFacts DEF TypeOK
<1>2. \A q \in chunk' : Mine(q)' = WithImpliedSteps(q, change'[q], seen'[q])
  BY <1>1, SettledFacts DEF TickInv
<1>3. QED
  BY <1>2, SettledFacts DEF TickInv

LEMMA TickStep == TypeOK /\ TickInv /\ [Next]_vars => TickInv'
<1> SUFFICES ASSUME TypeOK, TickInv, [Next]_vars PROVE TickInv'
  OBVIOUS
<1>1. ASSUME NEW m \in Msgs, Progress(m) PROVE TickInv'
  BY <1>1 DEF Progress, TickInv, Changed, Mine
<1>2. ASSUME NEW m \in Msgs, Record(m) PROVE TickInv'
  BY <1>2 DEF Record, TickInv, Changed, Mine
<1>3. ASSUME NEW m \in Msgs, Elapse(m) PROVE TickInv'
  BY <1>3 DEF Elapse, TickInv, Changed, Mine
<1>4. ASSUME NEW m \in Msgs, Age(m) PROVE TickInv'
  BY <1>4 DEF Age, TickInv, Changed, Mine
<1>5. ASSUME NEW m \in Msgs, Prune(m) PROVE TickInv'
  BY <1>5 DEF Prune, TickInv, Changed, Mine
<1>6. ASSUME NEW s \in Senders, Unpause(s) PROVE TickInv'
  BY <1>6 DEF Unpause, TickInv, Changed, Mine
<1>7. CASE StartTick
  BY <1>7 DEF StartTick, TypeOK, TickInv, Changed
<1>8. ASSUME NEW m \in Msgs, StartLookup(m) PROVE TickInv'
  <2>1. chunk = {} /\ chunk' = {} /\ tick' = tick /\ tick = "busy"
    BY <1>8 DEF StartLookup, TickInv, TypeOK
  <2>2. QED
    BY <2>1 DEF TickInv
<1>9. ASSUME NEW m \in Msgs, NEW lookup \in Lookups, Answer(m, lookup) PROVE TickInv'
  <2>1. chunk = {} /\ chunk' = {} /\ tick' = tick /\ tick = "busy"
    BY <1>9 DEF Answer, TickInv, TypeOK
  <2>2. QED
    BY <2>1 DEF TickInv
<1>10. CASE ForwardChunkStep
  <2>1. PICK C \in SUBSET Changed : \E D \in SUBSET (C \ deleted) :
          Forward(Batch(C), D, verdict') /\ chunk' = C
    BY <1>10 DEF ForwardChunkStep, Batch
  <2>2. UNCHANGED <<tick, todo, flight, seen, change>> /\ todo = {} /\ flight = {} /\ tick = "busy"
    BY <1>10 DEF ForwardChunkStep
  <2>3. DOMAIN verdict' = Batch(C)
    BY <2>1, OutcomeFacts DEF Forward
  <2>4. ASSUME NEW m \in C PROVE Mine(m)' = WithImpliedSteps(m, change[m], seen[m])
    BY <2>3 DEF Mine, Batch, WithImpliedSteps
  <2>5. \A m \in chunk' : Mine(m)' = WithImpliedSteps(m, change'[m], seen'[m])
    BY <2>1, <2>2, <2>4
  <2>6. QED
    BY <2>1, <2>2, <2>5 DEF TickInv, Changed
<1>11. ASSUME NEW m \in Msgs, SettleRefused(m) PROVE TickInv'
  <2>1. Settled(m)
    BY <1>11 DEF SettleRefused
  <2>2. QED
    BY <2>1, SettledTick
<1>12. ASSUME NEW m \in Msgs, SettleAccepted(m) PROVE TickInv'
  <2>1. Settled(m)
    BY <1>12 DEF SettleAccepted
  <2>2. QED
    BY <2>1, SettledTick
<1>13. ASSUME NEW m \in Msgs, SettleRetry(m) PROVE TickInv'
  <2>1. Settled(m)
    BY <1>13 DEF SettleRetry
  <2>2. QED
    BY <2>1, SettledTick
<1>14. CASE EndTick
  BY <1>14 DEF EndTick, TickInv, Changed, Mine
<1>15. ASSUME NEW h \in Hooks, Receive(h) PROVE TickInv'
  BY <1>15 DEF Receive, TickInv, Changed, Mine
<1>16. ASSUME NEW h \in Hooks, HookForward(h) PROVE TickInv'
  BY <1>16 DEF HookForward, TickInv, Changed, Mine
<1>17. ASSUME NEW h \in Hooks, HookRead(h) PROVE TickInv'
  BY <1>17 DEF HookRead, TickInv, Changed, Mine
<1>18. ASSUME NEW h \in Hooks, HookWrite(h) PROVE TickInv'
  <2>1. UNCHANGED locals
    BY <1>18 DEF HookWrite
  <2>2. QED
    BY <2>1 DEF TickInv, Changed, Mine
<1>19. ASSUME NEW h \in Hooks, HookFails(h) PROVE TickInv'
  BY <1>19 DEF HookFails, TickInv, Changed, Mine
<1>20. CASE TickFails
  <2>1. tick' = "idle" /\ todo' = {} /\ flight' = {} /\ chunk' = {} /\ Changed' = {}
    BY <1>20 DEF TickFails, ResetTick, Changed
  <2>2. QED
    BY <2>1 DEF TickInv
<1>21. ASSUME NEW x \in stray, NEW lookup \in Lookups, StrayAnswer(x, lookup) PROVE TickInv'
  BY <1>21 DEF StrayAnswer, TickInv, Changed, Mine
<1>22. CASE Crash
  <2>1. tick' = "idle" /\ todo' = {} /\ flight' = {} /\ chunk' = {} /\ Changed' = {}
    BY <1>22 DEF Crash, ResetTick, Changed
  <2>2. QED
    BY <2>1 DEF TickInv
<1>23. CASE UNCHANGED vars
  BY <1>23 DEF vars, TickInv, Changed, Mine
<1>24. QED
  BY <1>1, <1>2, <1>3, <1>4, <1>5, <1>6, <1>7, <1>8, <1>9, <1>10, <1>11, <1>12, <1>13, <1>14,
     <1>15, <1>16, <1>17, <1>18, <1>19, <1>20, <1>21, <1>22, <1>23
     DEF Next, LookupStep, SettleStep

LEMMA TickAlways == Spec => []TickInv
<1>1. Init => TickInv
  BY DEF Init, TickInv, Changed
<1>2. QED
  BY <1>1, TickStep, TypeAlways, PTL DEF Spec


-----------------------------------------------------------------------------
LEMMA RecordedStep == TypeOK /\ TickInv /\ RecordedInv /\ [Next]_vars => RecordedInv'
<1> SUFFICES ASSUME TypeOK, TickInv, RecordedInv, [Next]_vars PROVE RecordedInv'
  OBVIOUS
<1>1. ASSUME NEW m \in Msgs, Progress(m) PROVE RecordedInv'
  BY <1>1 DEF Progress, RecordedInv
<1>2. ASSUME NEW m \in Msgs, Record(m) PROVE RecordedInv'
  BY <1>2 DEF Record, RecordedInv
<1>3. ASSUME NEW m \in Msgs, Elapse(m) PROVE RecordedInv'
  BY <1>3 DEF Elapse, RecordedInv
<1>4. ASSUME NEW m \in Msgs, Age(m) PROVE RecordedInv'
  BY <1>4 DEF Age, RecordedInv
<1>5. ASSUME NEW m \in Msgs, Prune(m) PROVE RecordedInv'
  BY <1>5 DEF Prune, RecordedInv
<1>6. ASSUME NEW s \in Senders, Unpause(s) PROVE RecordedInv'
  BY <1>6 DEF Unpause, RecordedInv
<1>7. CASE StartTick
  <2>1. \A m \in Msgs : seen'[m] \in {statusEvent[m], "none"}
    BY <1>7 DEF StartTick
  <2>2. UNCHANGED <<statusEvent, verdict, hook, receipts, reported>>
    BY <1>7 DEF StartTick
  <2>3. QED
    BY <2>1, <2>2 DEF RecordedInv
<1>8. ASSUME NEW m \in Msgs, StartLookup(m) PROVE RecordedInv'
  BY <1>8 DEF StartLookup, RecordedInv
<1>9. ASSUME NEW m \in Msgs, NEW lookup \in Lookups, Answer(m, lookup) PROVE RecordedInv'
  BY <1>9 DEF Answer, RecordedInv
<1>10. CASE ForwardChunkStep
  <2>1. PICK C \in SUBSET Changed : \E D \in SUBSET (C \ deleted) :
          Forward(Batch(C), D, verdict') /\ chunk' = C
    BY <1>10 DEF ForwardChunkStep, Batch
  <2>2. /\ DOMAIN verdict' = Batch(C) /\ reported \subseteq reported'
        /\ \A r \in Batch(C) : verdict'[r] \in {"ok", "lost"} => r \in reported'
    BY <2>1, OutcomeFacts DEF Forward
  <2>3. UNCHANGED <<statusEvent, seen, hook, receipts>>
    BY <1>10 DEF ForwardChunkStep
  <2>4. QED
    BY <2>2, <2>3 DEF RecordedInv
<1>11. ASSUME NEW m \in Msgs, SettleRefused(m) PROVE RecordedInv'
  <2>1. Settled(m)
    BY <1>11 DEF SettleRefused
  <2>2. \A r \in DOMAIN verdict' : r \in DOMAIN verdict /\ verdict'[r] = verdict[r]
    BY <2>1, SettledType
  <2>3. UNCHANGED <<seen, hook, receipts, reported>>
    BY <2>1 DEF Settled
  <2>4. \A q \in Msgs :
          statusEvent'[q] = statusEvent[q] \/ <<q, statusEvent'[q]>> \in reported
    <3>1. CASE UNCHANGED statusEvent
      BY <3>1
    <3>2. CASE ~UNCHANGED statusEvent
      <4>1. PICK e \in Events :
              /\ statusEvent' = [statusEvent EXCEPT ![m] = e]
              /\ <<m, e>> \in Mine(m) /\ verdict[<<m, e>>] = "ok"
        BY <1>11, <3>2, TopFacts
      <4>2. <<m, e>> \in reported
        BY <4>1 DEF RecordedInv, Mine
      <4>3. QED
        BY <4>1, <4>2 DEF TypeOK
    <3>3. QED
      BY <3>1, <3>2
  <2>5. QED
    BY <2>2, <2>3, <2>4 DEF RecordedInv
<1>12. ASSUME NEW m \in Msgs, SettleAccepted(m) PROVE RecordedInv'
  <2>1. Settled(m)
    BY <1>12 DEF SettleAccepted
  <2>2. \A r \in DOMAIN verdict' : r \in DOMAIN verdict /\ verdict'[r] = verdict[r]
    BY <2>1, SettledType
  <2>3. UNCHANGED <<seen, hook, receipts, reported>>
    BY <2>1 DEF Settled
  <2>4. <<m, change[m]>> \in reported
    <3>1. m \in chunk /\ change[m] # "none"
      BY <2>1, SettledFacts DEF TickInv, Changed
    <3>2. <<m, change[m]>> \in Mine(m)
      BY <3>1 DEF TickInv, WithImpliedSteps
    <3>3. verdict[<<m, change[m]>>] = "ok"
      BY <1>12, <3>2 DEF SettleAccepted, AnyFailed, AnyRefused, Mine, TypeOK, Verdicts
    <3>4. QED
      BY <3>2, <3>3 DEF RecordedInv, Mine
  <2>5. \A q \in Msgs : statusEvent'[q] = statusEvent[q] \/ (q = m /\ statusEvent'[q] = change[m])
    BY <1>12 DEF SettleAccepted, TypeOK
  <2>6. QED
    BY <2>2, <2>3, <2>4, <2>5 DEF RecordedInv
<1>13. ASSUME NEW m \in Msgs, SettleRetry(m) PROVE RecordedInv'
  <2>1. Settled(m)
    BY <1>13 DEF SettleRetry
  <2>2. \A r \in DOMAIN verdict' : r \in DOMAIN verdict /\ verdict'[r] = verdict[r]
    BY <2>1, SettledType
  <2>3. UNCHANGED <<seen, hook, receipts, reported>>
    BY <2>1 DEF Settled
  <2>4. QED
    BY <1>13, <2>2, <2>3 DEF SettleRetry, RecordedInv
<1>14. CASE EndTick
  BY <1>14 DEF EndTick, RecordedInv
<1>15. ASSUME NEW h \in Hooks, Receive(h) PROVE RecordedInv'
  <2>1. \A g \in Hooks : hook'[g] \in {"read", "write"} => g # h
    BY <1>15, ReceiveStep
  <2>2. \A g \in Hooks : g # h => hook'[g] = hook[g] /\ receipts'[g] = receipts[g]
    BY <1>15, ReceiveStep DEF TypeOK
  <2>3. UNCHANGED <<statusEvent, seen, verdict, reported>>
    BY <1>15 DEF Receive
  <2>4. QED
    BY <2>1, <2>2, <2>3 DEF RecordedInv
<1>16. ASSUME NEW h \in Hooks, HookForward(h) PROVE RecordedInv'
  <2>1. PICK D \in SUBSET {r[1] : r \in {q \in receipts[h] : q[1] \notin deleted}} :
          \E o \in Outcomes(receipts[h], D) :
            /\ Forward(receipts[h], D, o)
            /\ receipts' = [receipts EXCEPT ![h] = {r \in receipts[h] : o[r] = "ok"}]
            /\ hook' = [hook EXCEPT ![h] =
                 IF {r \in receipts[h] : o[r] = "ok"} = {} THEN "idle" ELSE "read"]
    BY <1>16 DEF HookForward
  <2>2. PICK o \in Outcomes(receipts[h], D) :
          /\ Forward(receipts[h], D, o)
          /\ receipts' = [receipts EXCEPT ![h] = {r \in receipts[h] : o[r] = "ok"}]
          /\ hook' = [hook EXCEPT ![h] =
               IF {r \in receipts[h] : o[r] = "ok"} = {} THEN "idle" ELSE "read"]
    BY <2>1
  <2>3. reported \subseteq reported' /\ receipts'[h] \subseteq reported'
    BY <2>2 DEF Forward, TypeOK
  <2>4. \A g \in Hooks : g # h => hook'[g] = hook[g] /\ receipts'[g] = receipts[g]
    BY <2>2 DEF TypeOK
  <2>5. UNCHANGED <<statusEvent, seen, verdict>>
    BY <1>16 DEF HookForward
  <2>6. QED
    BY <2>3, <2>4, <2>5 DEF RecordedInv
<1>17. ASSUME NEW h \in Hooks, HookRead(h) PROVE RecordedInv'
  <2>1. receipts'[h] \subseteq receipts[h]
    BY <1>17 DEF HookRead, TypeOK
  <2>2. \A g \in Hooks : g # h => hook'[g] = hook[g] /\ receipts'[g] = receipts[g]
    BY <1>17 DEF HookRead, TypeOK
  <2>3. UNCHANGED <<statusEvent, seen, verdict, reported>> /\ hook[h] = "read"
    BY <1>17 DEF HookRead
  <2>4. QED
    BY <2>1, <2>2, <2>3 DEF RecordedInv
<1>18. ASSUME NEW h \in Hooks, HookWrite(h) PROVE RecordedInv'
  <2>1. PICK r \in receipts[h] :
          /\ statusEvent' = IF Kept(r[1]) THEN [statusEvent EXCEPT ![r[1]] = r[2]] ELSE statusEvent
          /\ receipts' = [receipts EXCEPT ![h] = receipts[h] \ {r}]
          /\ hook' = [hook EXCEPT ![h] = IF receipts[h] \ {r} = {} THEN "idle" ELSE "write"]
    BY <1>18 DEF HookWrite
  <2>2. r = <<r[1], r[2]>> /\ r \in reported
    BY <1>18 DEF HookWrite, RecordedInv, TypeOK, Receipts
  <2>3. \A q \in Msgs : statusEvent'[q] = statusEvent[q] \/ (q = r[1] /\ statusEvent'[q] = r[2])
    BY <2>1 DEF TypeOK
  <2>4. receipts'[h] \subseteq receipts[h] /\ hook[h] = "write"
    BY <1>18, <2>1 DEF HookWrite, TypeOK
  <2>5. \A g \in Hooks : g # h => hook'[g] = hook[g] /\ receipts'[g] = receipts[g]
    BY <2>1 DEF TypeOK
  <2>6. UNCHANGED <<seen, verdict, reported>>
    BY <1>18 DEF HookWrite
  <2>7. QED
    BY <2>2, <2>3, <2>4, <2>5, <2>6 DEF RecordedInv
<1>19. ASSUME NEW h \in Hooks, HookFails(h) PROVE RecordedInv'
  BY <1>19 DEF HookFails, TypeOK, RecordedInv
<1>20. CASE TickFails
  <2>1. DOMAIN verdict' = {} /\ \A m \in Msgs : seen'[m] = "none"
    BY <1>20, EmptyVerdict DEF TickFails, ResetTick
  <2>2. QED
    BY <1>20, <2>1 DEF TickFails, RecordedInv
<1>21. ASSUME NEW x \in stray, NEW lookup \in Lookups, StrayAnswer(x, lookup) PROVE RecordedInv'
  BY <1>21 DEF StrayAnswer, RecordedInv
<1>22. CASE Crash
  <2>1. DOMAIN verdict' = {} /\ \A m \in Msgs : seen'[m] = "none"
    BY <1>22, EmptyVerdict DEF Crash, ResetTick
  <2>2. \A g \in Hooks : hook'[g] = "idle"
    BY <1>22 DEF Crash
  <2>3. QED
    BY <1>22, <2>1, <2>2 DEF Crash, RecordedInv
<1>23. CASE UNCHANGED vars
  BY <1>23 DEF vars, RecordedInv
<1>24. QED
  BY <1>1, <1>2, <1>3, <1>4, <1>5, <1>6, <1>7, <1>8, <1>9, <1>10, <1>11, <1>12, <1>13, <1>14,
     <1>15, <1>16, <1>17, <1>18, <1>19, <1>20, <1>21, <1>22, <1>23
     DEF Next, LookupStep, SettleStep

LEMMA RecordedAlways == Spec => []RecordedInv
<1>1. Init => RecordedInv
  BY EmptyVerdict DEF Init, RecordedInv
<1>2. QED
  BY <1>1, RecordedStep, TickAlways, TypeAlways, PTL DEF Spec

\* At least once: an event is recorded as reported only if the receiver has it,
\* whoever of the ticks, the stray lookups and the webhooks writes the row last.
THEOREM RecordedCorrect == Spec => []RecordedWasReported
<1>1. RecordedInv => RecordedWasReported
  BY DEF RecordedInv, RecordedWasReported
<1>2. QED
  BY <1>1, RecordedAlways, PTL


-----------------------------------------------------------------------------
LEMMA BouncedStep == TypeOK /\ TickInv /\ BouncedInv /\ [Next]_vars => BouncedInv'
<1> SUFFICES ASSUME TypeOK, TickInv, BouncedInv, [Next]_vars PROVE BouncedInv'
  OBVIOUS
<1>1. ASSUME NEW m \in Msgs, Progress(m) PROVE BouncedInv'
  <2>1. \A q \in Msgs : truth[q] = "bounced" => truth'[q] = "bounced"
    BY <1>1 DEF Progress, TypeOK, Succ
  <2>2. UNCHANGED <<statusEvent, seen, change, reported, verdict, receipts>>
    BY <1>1 DEF Progress
  <2>3. QED
    BY <2>1, <2>2 DEF BouncedInv
<1>2. ASSUME NEW m \in Msgs, Record(m) PROVE BouncedInv'
  BY <1>2 DEF Record, BouncedInv
<1>3. ASSUME NEW m \in Msgs, Elapse(m) PROVE BouncedInv'
  BY <1>3 DEF Elapse, BouncedInv
<1>4. ASSUME NEW m \in Msgs, Age(m) PROVE BouncedInv'
  BY <1>4 DEF Age, BouncedInv
<1>5. ASSUME NEW m \in Msgs, Prune(m) PROVE BouncedInv'
  BY <1>5 DEF Prune, BouncedInv
<1>6. ASSUME NEW s \in Senders, Unpause(s) PROVE BouncedInv'
  BY <1>6 DEF Unpause, BouncedInv
<1>7. CASE StartTick
  <2>1. \A m \in Msgs : seen'[m] \in {statusEvent[m], "none"}
    BY <1>7 DEF StartTick
  <2>2. UNCHANGED <<truth, statusEvent, change, reported, verdict, receipts>>
    BY <1>7 DEF StartTick
  <2>3. QED
    BY <2>1, <2>2 DEF BouncedInv
<1>8. ASSUME NEW m \in Msgs, StartLookup(m) PROVE BouncedInv'
  BY <1>8 DEF StartLookup, BouncedInv
<1>9. ASSUME NEW m \in Msgs, NEW lookup \in Lookups, Answer(m, lookup) PROVE BouncedInv'
  <2>1. \A q \in Msgs : change'[q] \in {change[q], truth[q]}
    BY <1>9 DEF Answer, TypeOK
  <2>2. UNCHANGED <<truth, statusEvent, seen, reported, verdict, receipts>>
    BY <1>9 DEF Answer
  <2>3. QED
    BY <2>1, <2>2 DEF BouncedInv
<1>10. CASE ForwardChunkStep
  <2>1. PICK C \in SUBSET Changed : \E D \in SUBSET (C \ deleted) :
          Forward(Batch(C), D, verdict') /\ chunk' = C
    BY <1>10 DEF ForwardChunkStep, Batch
  <2>2. DOMAIN verdict' = Batch(C) /\ reported' \subseteq reported \cup Batch(C)
    BY <2>1, OutcomeFacts DEF Forward
  <2>3. \A m \in Msgs : <<m, "bounced">> \in Batch(C) => change[m] = "bounced"
    BY DEF Batch, WithImpliedSteps, ImpliedSteps, Ladder
  <2>4. UNCHANGED <<truth, statusEvent, seen, change, receipts>>
    BY <1>10 DEF ForwardChunkStep
  <2>5. QED
    BY <2>2, <2>3, <2>4 DEF BouncedInv
<1>11. ASSUME NEW m \in Msgs, SettleRefused(m) PROVE BouncedInv'
  <2>1. Settled(m)
    BY <1>11 DEF SettleRefused
  <2>2. DOMAIN verdict' \subseteq DOMAIN verdict
    BY <2>1, SettledType
  <2>3. \A q \in Msgs : change'[q] \in {change[q], "none"}
    BY <2>1, SettledFacts
  <2>4. UNCHANGED <<truth, seen, reported, receipts>>
    BY <2>1 DEF Settled
  <2>5. \A q \in Msgs : statusEvent'[q] = statusEvent[q] \/ <<q, statusEvent'[q]>> \in DOMAIN verdict
    <3>1. CASE UNCHANGED statusEvent
      BY <3>1
    <3>2. CASE ~UNCHANGED statusEvent
      <4>1. PICK e \in Events : /\ statusEvent' = [statusEvent EXCEPT ![m] = e]
                                /\ <<m, e>> \in Mine(m)
        BY <1>11, <3>2, TopFacts
      <4>2. QED
        BY <4>1 DEF TypeOK, Mine
    <3>3. QED
      BY <3>1, <3>2
  <2>6. QED
    BY <2>2, <2>3, <2>4, <2>5 DEF BouncedInv
<1>12. ASSUME NEW m \in Msgs, SettleAccepted(m) PROVE BouncedInv'
  <2>1. Settled(m)
    BY <1>12 DEF SettleAccepted
  <2>2. DOMAIN verdict' \subseteq DOMAIN verdict
    BY <2>1, SettledType
  <2>3. \A q \in Msgs : change'[q] \in {change[q], "none"}
    BY <2>1, SettledFacts
  <2>4. UNCHANGED <<truth, seen, reported, receipts>>
    BY <2>1 DEF Settled
  <2>5. \A q \in Msgs : statusEvent'[q] \in {statusEvent[q], change[q]}
    BY <1>12 DEF SettleAccepted, TypeOK
  <2>6. QED
    BY <2>2, <2>3, <2>4, <2>5 DEF BouncedInv
<1>13. ASSUME NEW m \in Msgs, SettleRetry(m) PROVE BouncedInv'
  <2>1. Settled(m)
    BY <1>13 DEF SettleRetry
  <2>2. DOMAIN verdict' \subseteq DOMAIN verdict
    BY <2>1, SettledType
  <2>3. \A q \in Msgs : change'[q] \in {change[q], "none"}
    BY <2>1, SettledFacts
  <2>4. UNCHANGED <<truth, seen, reported, receipts>>
    BY <2>1 DEF Settled
  <2>5. \A q \in Msgs : statusEvent'[q] \in {statusEvent[q], change[q]}
    BY <1>13 DEF SettleRetry, TypeOK
  <2>6. QED
    BY <2>2, <2>3, <2>4, <2>5 DEF BouncedInv
<1>14. CASE EndTick
  <2>1. \A m \in Msgs : seen'[m] = "none"
    BY <1>14 DEF EndTick
  <2>2. UNCHANGED <<truth, statusEvent, change, reported, verdict, receipts>>
    BY <1>14 DEF EndTick
  <2>3. QED
    BY <2>1, <2>2 DEF BouncedInv
<1>15. ASSUME NEW h \in Hooks, Receive(h) PROVE BouncedInv'
  <2>1. \A g \in Hooks : g # h => receipts'[g] = receipts[g]
    BY <1>15, ReceiveStep DEF TypeOK
  <2>2. ASSUME NEW m \in Msgs, <<m, "bounced">> \in receipts'[h] PROVE truth[m] = "bounced"
    <3>1. PICK e \in Events : /\ e \in Reached(m)
                              /\ <<m, "bounced">> = <<m, e>> \/ <<m, "bounced">> \in Reconcile(m, e)
      BY <1>15, <2>2, ReceiveStep
    <3>2. e = "bounced"
      BY <3>1 DEF Reconcile, WithImpliedSteps, ImpliedSteps, Ladder
    <3>3. QED
      BY <3>1, <3>2 DEF Reached, Ladder
  <2>3. UNCHANGED <<truth, statusEvent, seen, change, reported, verdict>>
    BY <1>15 DEF Receive
  <2>4. QED
    BY <2>1, <2>2, <2>3 DEF BouncedInv
<1>16. ASSUME NEW h \in Hooks, HookForward(h) PROVE BouncedInv'
  <2>1. PICK D \in SUBSET {r[1] : r \in {q \in receipts[h] : q[1] \notin deleted}} :
          \E o \in Outcomes(receipts[h], D) :
            /\ Forward(receipts[h], D, o)
            /\ receipts' = [receipts EXCEPT ![h] = {r \in receipts[h] : o[r] = "ok"}]
            /\ hook' = [hook EXCEPT ![h] =
                 IF {r \in receipts[h] : o[r] = "ok"} = {} THEN "idle" ELSE "read"]
    BY <1>16 DEF HookForward
  <2>2. PICK o \in Outcomes(receipts[h], D) :
          /\ Forward(receipts[h], D, o)
          /\ receipts' = [receipts EXCEPT ![h] = {r \in receipts[h] : o[r] = "ok"}]
          /\ hook' = [hook EXCEPT ![h] =
               IF {r \in receipts[h] : o[r] = "ok"} = {} THEN "idle" ELSE "read"]
    BY <2>1
  <2>3. reported' \subseteq reported \cup receipts[h] /\ receipts'[h] \subseteq receipts[h]
    BY <2>2 DEF Forward, TypeOK
  <2>4. \A g \in Hooks : g # h => receipts'[g] = receipts[g]
    BY <2>2 DEF TypeOK
  <2>5. UNCHANGED <<truth, statusEvent, seen, change, verdict>>
    BY <1>16 DEF HookForward
  <2>6. QED
    BY <2>3, <2>4, <2>5 DEF BouncedInv
<1>17. ASSUME NEW h \in Hooks, HookRead(h) PROVE BouncedInv'
  <2>1. \A g \in Hooks : receipts'[g] \subseteq receipts[g]
    BY <1>17 DEF HookRead, TypeOK
  <2>2. UNCHANGED <<truth, statusEvent, seen, change, reported, verdict>>
    BY <1>17 DEF HookRead
  <2>3. QED
    BY <2>1, <2>2 DEF BouncedInv
<1>18. ASSUME NEW h \in Hooks, HookWrite(h) PROVE BouncedInv'
  <2>1. PICK r \in receipts[h] :
          /\ statusEvent' = IF Kept(r[1]) THEN [statusEvent EXCEPT ![r[1]] = r[2]] ELSE statusEvent
          /\ receipts' = [receipts EXCEPT ![h] = receipts[h] \ {r}]
    BY <1>18 DEF HookWrite
  <2>2. r = <<r[1], r[2]>>
    BY DEF TypeOK, Receipts
  <2>3. \A q \in Msgs : statusEvent'[q] = statusEvent[q] \/ <<q, statusEvent'[q]>> \in receipts[h]
    BY <2>1, <2>2 DEF TypeOK
  <2>4. \A g \in Hooks : receipts'[g] \subseteq receipts[g]
    BY <2>1 DEF TypeOK
  <2>5. UNCHANGED <<truth, seen, change, reported, verdict>>
    BY <1>18 DEF HookWrite
  <2>6. QED
    BY <2>2, <2>3, <2>4, <2>5 DEF BouncedInv
<1>19. ASSUME NEW h \in Hooks, HookFails(h) PROVE BouncedInv'
  <2>1. \A g \in Hooks : receipts'[g] \subseteq receipts[g]
    BY <1>19 DEF HookFails, TypeOK
  <2>2. UNCHANGED <<truth, statusEvent, seen, change, reported, verdict>>
    BY <1>19 DEF HookFails
  <2>3. QED
    BY <2>1, <2>2 DEF BouncedInv
<1>20. CASE TickFails
  <2>1. DOMAIN verdict' = {} /\ \A m \in Msgs : seen'[m] = "none" /\ change'[m] = "none"
    BY <1>20, EmptyVerdict DEF TickFails, ResetTick
  <2>2. UNCHANGED <<truth, statusEvent, reported, receipts>>
    BY <1>20 DEF TickFails
  <2>3. QED
    BY <2>1, <2>2 DEF BouncedInv
<1>21. ASSUME NEW x \in stray, NEW lookup \in Lookups, StrayAnswer(x, lookup) PROVE BouncedInv'
  BY <1>21 DEF StrayAnswer, BouncedInv
<1>22. CASE Crash
  <2>1. DOMAIN verdict' = {} /\ \A m \in Msgs : seen'[m] = "none" /\ change'[m] = "none"
    BY <1>22, EmptyVerdict DEF Crash, ResetTick
  <2>2. UNCHANGED <<truth, statusEvent, reported>> /\ \A h \in Hooks : receipts'[h] = {}
    BY <1>22 DEF Crash
  <2>3. QED
    BY <2>1, <2>2 DEF BouncedInv
<1>23. CASE UNCHANGED vars
  BY <1>23 DEF vars, BouncedInv
<1>24. QED
  BY <1>1, <1>2, <1>3, <1>4, <1>5, <1>6, <1>7, <1>8, <1>9, <1>10, <1>11, <1>12, <1>13, <1>14,
     <1>15, <1>16, <1>17, <1>18, <1>19, <1>20, <1>21, <1>22, <1>23
     DEF Next, LookupStep, SettleStep

LEMMA BouncedAlways == Spec => []BouncedInv
<1>1. Init => BouncedInv
  BY EmptyVerdict DEF Init, BouncedInv
<1>2. QED
  BY <1>1, BouncedStep, TickAlways, TypeAlways, PTL DEF Spec


-----------------------------------------------------------------------------
\* A rung below the next event is implied by it, or the receiver has it already.
LEMMA RungBelow ==
  ASSUME NEW m \in Msgs, NEW last \in Events \cup {"none"}, last # "bounced",
         NEW next \in Events, Rank[last] < Rank[next],
         last # "none" => <<m, last>> \in reported, Told(m, last),
         NEW e \in Ladder, <<m, e>> \in WithImpliedSteps(m, next, last),
         NEW f \in Ladder \ {"dispatched"}, Rank[f] < Rank[e]
  PROVE  <<m, f>> \in reported \/ <<m, f>> \in WithImpliedSteps(m, next, last)
<1>1. last \in Ladder \cup {"none"}
  BY DEF Ladder, Events
<1>2. /\ Rank[last] \in 1 .. 4 /\ Rank[e] \in 1 .. 4 /\ Rank[f] \in 2 .. 4
      /\ e \in Events /\ f \in Events
  BY RankFacts DEF Ladder, Events
<1>3. e = next \/ (Rank[e] < Rank[next] /\ next \in Ladder)
  BY DEF WithImpliedSteps, ImpliedSteps
<1>4. next \in Ladder /\ Rank[f] < Rank[next]
  BY <1>2, <1>3, RankFacts
<1>5. CASE Rank[last] < Rank[f]
  BY <1>1, <1>4, <1>5 DEF WithImpliedSteps, ImpliedSteps
<1>6. CASE Rank[f] < Rank[last]
  <2>1. last \in Ladder
    BY <1>1, <1>2, <1>6, RankFacts
  <2>2. QED
    BY <1>6, <2>1 DEF Told
<1>7. CASE Rank[f] = Rank[last]
  <2>1. f = last
    BY <1>1, <1>2, <1>7, RankFacts DEF Ladder
  <2>2. QED
    BY <2>1 DEF Ladder
<1>8. QED
  BY <1>2, <1>5, <1>6, <1>7

LEMMA LadderKept ==
  ASSUME LadderInv,
         UNCHANGED <<statusEvent, seen, change, verdict, hook, receipts, webhooks, faults, reported, blind>>
  PROVE  LadderInv'
<1>1. \A m \in Msgs : (Excused(m)' <=> Excused(m)) /\ (ToldInv(m)' <=> ToldInv(m))
  BY DEF Excused, ToldInv, HookTold, Told
<1>2. QED
  BY <1>1 DEF LadderInv

\* A handler that drops receipts, or records one it holds.
LEMMA HookShrinks ==
  ASSUME TypeOK, LadderInv, NEW h \in Hooks,
         receipts'[h] \subseteq receipts[h], hook[h] \in {"read", "write"}, hook'[h] \in {"idle", "write"},
         \A g \in Hooks : g # h => receipts'[g] = receipts[g] /\ hook'[g] = hook[g],
         UNCHANGED <<seen, change, verdict, webhooks, reported, blind>>, faults' \in {faults, faults + 1},
         \A m \in Msgs : statusEvent'[m] = statusEvent[m] \/ (ToldInv(m) => Told(m, statusEvent'[m]))
  PROVE  LadderInv'
<1>1. \A m \in Msgs : Excused(m) => Excused(m)'
  BY DEF Excused, TypeOK
<1>2. ASSUME NEW m \in Msgs, ToldInv(m) PROVE ToldInv(m)'
  <2>1. Told(m, statusEvent[m])' /\ Told(m, seen[m])'
    BY <1>2 DEF ToldInv, Told
  <2>2. \A g \in Hooks : HookTold(m, g)'
    BY <1>2 DEF ToldInv, HookTold, Told
  <2>3. QED
    BY <2>1, <2>2 DEF ToldInv
<1>3. \A g \in Hooks : hook'[g] # "idle" => webhooks' > 0
  BY DEF LadderInv
<1>4. QED
  BY <1>1, <1>2, <1>3 DEF LadderInv

\* Settling a message records an event the receiver accepted, with every step
\* below it, or nothing.
LEMMA SettledLadder ==
  ASSUME TypeOK, TickInv, RecordedInv, LadderInv, NEW m \in Msgs, Settled(m),
         \A q \in Msgs :
           \/ statusEvent'[q] = statusEvent[q]
           \/ /\ q = m /\ ~AnyFailed(m) /\ statusEvent'[q] \in Events
              /\ <<m, statusEvent'[q]>> \in Mine(m) /\ verdict[<<m, statusEvent'[q]>>] = "ok"
  PROVE  LadderInv'
<1>1. UNCHANGED <<seen, hook, receipts, webhooks, faults, reported, blind>>
  BY DEF Settled
<1>2. \A r \in DOMAIN verdict' : r \in DOMAIN verdict /\ verdict'[r] = verdict[r]
  BY SettledType
<1>3. \A q \in Msgs : change'[q] \in {change[q], "none"}
  BY SettledFacts
<1>4. ASSUME ToldInv(m), NEW e \in Events, ~AnyFailed(m), <<m, e>> \in Mine(m), verdict[<<m, e>>] = "ok"
      PROVE  Told(m, e)
  <2> SUFFICES ASSUME e \in Ladder, NEW f \in Ladder \ {"dispatched"}, Rank[f] < Rank[e]
               PROVE  <<m, f>> \in reported
    BY DEF Told
  <2>1. /\ change[m] \in Events /\ seen[m] \in Events \cup {"none"}
        /\ seen[m] # "bounced" /\ Rank[seen[m]] < Rank[change[m]]
    BY SettledFacts DEF TickInv, Changed, LadderInv, TypeOK
  <2>2. Mine(m) = WithImpliedSteps(m, change[m], seen[m])
    BY SettledFacts DEF TickInv
  <2> DEFINE last == seen[m] next == change[m]
  <2>a. /\ last # "none" => <<m, last>> \in reported
        /\ Told(m, last) /\ <<m, e>> \in WithImpliedSteps(m, next, last)
    BY <1>4, <2>2 DEF ToldInv, RecordedInv
  <2>b. /\ last \in Events \cup {"none"} /\ last # "bounced"
        /\ next \in Events /\ Rank[last] < Rank[next]
    BY <2>1
  <2>c. WithImpliedSteps(m, next, last) = Mine(m)
    BY <2>2
  <2> HIDE DEF last, next
  <2>3. <<m, f>> \in reported \/ <<m, f>> \in Mine(m)
    BY <2>a, <2>b, <2>c, RungBelow
  <2>4. CASE <<m, f>> \in Mine(m)
    <3>1. verdict[<<m, f>>] \in {"ok", "refused"}
      BY <1>4, <2>4 DEF AnyFailed, Mine, TypeOK, Verdicts
    <3>2. verdict[<<m, f>>] = "refused" => Rank[e] < Rank[f]
      BY <1>4, <2>4 DEF Mine, LadderInv
    <3>3. Rank[e] \in 1 .. 4 /\ Rank[f] \in 1 .. 4
      BY RankFacts DEF Ladder, Events
    <3>4. QED
      BY <2>4, <3>1, <3>2, <3>3 DEF Mine, RecordedInv
  <2>5. QED
    BY <2>3, <2>4
<1>5. ASSUME NEW q \in Msgs, ToldInv(q) PROVE ToldInv(q)'
  <2>1. Told(q, statusEvent[q])' /\ Told(q, seen[q])'
    BY <1>1, <1>4, <1>5 DEF ToldInv, Told
  <2>2. \A h \in Hooks : HookTold(q, h)'
    BY <1>1, <1>5 DEF ToldInv, HookTold, Told
  <2>3. QED
    BY <2>1, <2>2 DEF ToldInv
<1>6. \A q \in Msgs : Excused(q) => Excused(q)'
  BY <1>1 DEF Excused
<1>7. QED
  BY <1>1, <1>2, <1>3, <1>5, <1>6 DEF LadderInv

LEMMA LadderStep ==
  TypeOK /\ SentInv /\ TickInv /\ RecordedInv /\ BouncedInv /\ LadderInv /\ [Next]_vars => LadderInv'
<1> SUFFICES ASSUME TypeOK, SentInv, TickInv, RecordedInv, BouncedInv, LadderInv, [Next]_vars PROVE LadderInv'
  OBVIOUS
<1>1. ASSUME NEW m \in Msgs, Progress(m) PROVE LadderInv'
  BY <1>1, LadderKept DEF Progress
<1>2. ASSUME NEW m \in Msgs, Record(m) PROVE LadderInv'
  BY <1>2, LadderKept DEF Record
<1>3. ASSUME NEW m \in Msgs, Elapse(m) PROVE LadderInv'
  BY <1>3, LadderKept DEF Elapse
<1>4. ASSUME NEW m \in Msgs, Age(m) PROVE LadderInv'
  BY <1>4, LadderKept DEF Age
<1>5. ASSUME NEW m \in Msgs, Prune(m) PROVE LadderInv'
  BY <1>5, LadderKept DEF Prune
<1>6. ASSUME NEW s \in Senders, Unpause(s) PROVE LadderInv'
  BY <1>6, LadderKept DEF Unpause
<1>7. CASE StartTick
  <2>1. \A m \in Msgs : seen'[m] \in {statusEvent[m], "none"} /\ change'[m] = "none"
    BY <1>7 DEF StartTick, TickInv, Changed
  <2>2. UNCHANGED <<statusEvent, verdict, hook, receipts, webhooks, faults, reported, blind>>
    BY <1>7 DEF StartTick
  <2>3. \A m \in Msgs : Told(m, "none")
    BY DEF Told, Ladder
  <2>4. \A m \in Msgs : ToldInv(m) => ToldInv(m)'
    BY <2>1, <2>2, <2>3 DEF ToldInv, HookTold, Told
  <2>5. QED
    BY <2>1, <2>2, <2>4 DEF LadderInv, Excused
<1>8. ASSUME NEW m \in Msgs, StartLookup(m) PROVE LadderInv'
  BY <1>8, LadderKept DEF StartLookup
<1>9. ASSUME NEW m \in Msgs, NEW lookup \in Lookups, Answer(m, lookup) PROVE LadderInv'
  <2>1. UNCHANGED <<statusEvent, seen, verdict, hook, receipts, webhooks, faults, reported, blind>>
    BY <1>9 DEF Answer
  <2>2. ASSUME NEW q \in Msgs, change'[q] # "none"
        PROVE  seen[q] # "bounced" /\ Rank[seen[q]] < Rank[change'[q]]
    <3>1. CASE change'[q] = change[q]
      BY <2>2, <3>1 DEF LadderInv
    <3>2. CASE change'[q] # change[q]
      <4>1. q = m /\ change'[q] = truth[q] /\ Further(q, seen[q]) /\ m \in flight
        BY <1>9, <3>2 DEF Answer, TypeOK
      <4>2. truth[q] \in Events /\ seen[q] \in Events \cup {"none"}
        BY <4>1 DEF TypeOK, SentInv
      <4>3. Rank[seen[q]] \in 1 .. 4 /\ Rank[truth[q]] \in 1 .. 4 /\ Rank[seen[q]] < Rank[truth[q]]
        BY <4>1, <4>2, RankFacts DEF Further
      <4>4. seen[q] # "bounced"
        <5>1. seen[q] = "bounced" => truth[q] = "bounced"
          BY DEF BouncedInv
        <5>2. QED
          BY <4>3, <5>1
      <4>5. QED
        BY <4>1, <4>3, <4>4
    <3>3. QED
      BY <3>1, <3>2
  <2>3. \A q \in Msgs : Excused(q)' <=> Excused(q)
    BY <2>1 DEF Excused
  <2>4. \A q \in Msgs : ToldInv(q)' <=> ToldInv(q)
    BY <2>1 DEF ToldInv, HookTold, Told
  <2>5. QED
    BY <2>1, <2>2, <2>3, <2>4 DEF LadderInv
<1>10. CASE ForwardChunkStep
  <2>1. PICK C \in SUBSET Changed : \E D \in SUBSET (C \ deleted) :
          Forward(Batch(C), D, verdict') /\ chunk' = C
    BY <1>10 DEF ForwardChunkStep, Batch
  <2>2. PICK D \in SUBSET (C \ deleted) : Forward(Batch(C), D, verdict')
    BY <2>1
  <2>3. /\ reported \subseteq reported' /\ faults \in Nat /\ faults' \in Nat /\ faults <= faults'
        /\ blind' = blind
    BY <2>2 DEF Forward, TypeOK
  <2>4. DOMAIN verdict' = Batch(C)
    BY <2>2, OutcomeFacts DEF Forward
  <2>5. \A r, q \in DOMAIN verdict' :
          r[1] = q[1] /\ verdict'[r] \in {"ok", "lost"} /\ verdict'[q] = "refused" =>
            Rank[r[2]] < Rank[q[2]]
    BY <2>2, <2>4, OutcomeFacts DEF Forward
  <2>6. UNCHANGED <<statusEvent, seen, change, hook, receipts, webhooks>>
    BY <1>10 DEF ForwardChunkStep
  <2>7. \A m \in Msgs : Excused(m) \/ ToldInv(m) => Excused(m)' \/ ToldInv(m)'
    BY <2>3, <2>6 DEF Excused, ToldInv, HookTold, Told
  <2>8. QED
    BY <2>5, <2>6, <2>7 DEF LadderInv
<1>11. ASSUME NEW m \in Msgs, SettleRefused(m) PROVE LadderInv'
  <2>1. Settled(m)
    BY <1>11 DEF SettleRefused
  <2>2. \A q \in Msgs :
          \/ statusEvent'[q] = statusEvent[q]
          \/ /\ q = m /\ ~AnyFailed(m) /\ statusEvent'[q] \in Events
             /\ <<m, statusEvent'[q]>> \in Mine(m) /\ verdict[<<m, statusEvent'[q]>>] = "ok"
    <3>1. CASE UNCHANGED statusEvent
      BY <3>1
    <3>2. CASE ~UNCHANGED statusEvent
      <4>1. PICK e \in Events : /\ statusEvent' = [statusEvent EXCEPT ![m] = e]
                                /\ <<m, e>> \in Mine(m) /\ verdict[<<m, e>>] = "ok"
        BY <1>11, <3>2, TopFacts
      <4>2. ~AnyFailed(m)
        BY <1>11 DEF SettleRefused
      <4>3. QED
        BY <4>1, <4>2 DEF TypeOK
    <3>3. QED
      BY <3>1, <3>2
  <2>3. QED
    BY <2>1, <2>2, SettledLadder
<1>12. ASSUME NEW m \in Msgs, SettleAccepted(m) PROVE LadderInv'
  <2>1. Settled(m)
    BY <1>12 DEF SettleAccepted
  <2>2. \A q \in Msgs :
          \/ statusEvent'[q] = statusEvent[q]
          \/ /\ q = m /\ ~AnyFailed(m) /\ statusEvent'[q] \in Events
             /\ <<m, statusEvent'[q]>> \in Mine(m) /\ verdict[<<m, statusEvent'[q]>>] = "ok"
    <3>1. m \in chunk /\ change[m] \in Events
      BY <2>1, SettledFacts DEF TickInv, Changed, TypeOK
    <3>2. <<m, change[m]>> \in Mine(m)
      BY <3>1 DEF TickInv, WithImpliedSteps
    <3>3. verdict[<<m, change[m]>>] = "ok"
      BY <1>12, <3>2 DEF SettleAccepted, AnyFailed, AnyRefused, Mine, TypeOK, Verdicts
    <3>4. ~AnyFailed(m) /\ \A q \in Msgs : statusEvent'[q] = statusEvent[q] \/ (q = m /\ statusEvent'[q] = change[m])
      BY <1>12 DEF SettleAccepted, TypeOK
    <3>5. QED
      BY <3>1, <3>2, <3>3, <3>4
  <2>3. QED
    BY <2>1, <2>2, SettledLadder
<1>13. ASSUME NEW m \in Msgs, SettleRetry(m) PROVE LadderInv'
  <2>1. Settled(m)
    BY <1>13 DEF SettleRetry
  <2>2. \A q \in Msgs : statusEvent'[q] = statusEvent[q]
    BY <1>13 DEF SettleRetry
  <2>3. QED
    BY <2>1, <2>2, SettledLadder
<1>14. CASE EndTick
  <2>1. \A m \in Msgs : seen'[m] = "none" /\ change'[m] = "none"
    BY <1>14 DEF EndTick, Changed
  <2>2. UNCHANGED <<statusEvent, verdict, hook, receipts, webhooks, faults, reported, blind>>
    BY <1>14 DEF EndTick
  <2>3. \A m \in Msgs : Told(m, "none")
    BY DEF Told, Ladder
  <2>4. \A m \in Msgs : ToldInv(m) => ToldInv(m)'
    BY <2>1, <2>2, <2>3 DEF ToldInv, HookTold, Told
  <2>5. QED
    BY <2>1, <2>2, <2>4 DEF LadderInv, Excused
<1>15. ASSUME NEW h \in Hooks, Receive(h) PROVE LadderInv'
  <2>1. /\ hook[h] = "idle" /\ hook'[h] \in {"idle", "forward"} /\ receipts'[h] \subseteq Receipts
        /\ webhooks' = webhooks + 1 /\ faults' \in Nat /\ faults <= faults' /\ blind \subseteq blind'
        /\ \A g \in Hooks : g # h => hook'[g] = hook[g] /\ receipts'[g] = receipts[g]
    BY <1>15, ReceiveStep DEF TypeOK
  <2>2. UNCHANGED <<statusEvent, seen, change, verdict, reported>>
    BY <1>15 DEF Receive
  <2>3. webhooks \in Nat /\ faults \in Nat /\ webhooks' > 0
    BY <2>1 DEF TypeOK
  <2>4. ASSUME NEW m \in Msgs, ~Excused(m)' PROVE ToldInv(m)'
    <3>1. ~Excused(m) /\ m \notin blind' /\ ToldInv(m)
      BY <2>1, <2>3, <2>4 DEF Excused, LadderInv
    <3>2. Told(m, statusEvent[m])' /\ Told(m, seen[m])'
      BY <2>2, <3>1 DEF ToldInv, Told
    <3>3. \A g \in Hooks : g # h => HookTold(m, g)'
      BY <2>1, <2>2, <3>1 DEF ToldInv, HookTold, Told
    <3>4. HookTold(m, h)'
      <4> SUFFICES ASSUME NEW e \in Ladder, <<m, e>> \in receipts'[h],
                          NEW f \in Ladder \ {"dispatched"}, Rank[f] < Rank[e]
                   PROVE  <<m, f>> \in reported \cup receipts'[h]
        BY <2>1, <2>2 DEF HookTold
      <4>1. PICK d \in Events : /\ d \in Reached(m)
                                /\ <<m, e>> \in Reconcile(m, d) /\ Kept(m)
                                /\ Reconcile(m, d) \subseteq receipts'[h]
        BY <1>15, <3>1, ReceiveStep
      <4>2. statusEvent[m] \in Events \cup {"none"} /\ Rank[statusEvent[m]] < Rank[d]
            /\ Reconcile(m, d) = WithImpliedSteps(m, d, statusEvent[m])
        BY <4>1, RankFacts DEF Reconcile, TypeOK
      <4>3. statusEvent[m] # "bounced"
        <5>1. statusEvent[m] = "bounced" => truth[m] = "bounced"
          BY DEF BouncedInv
        <5>2. truth[m] = "bounced" => d = "bounced"
          BY <4>1 DEF Reached
        <5>3. Rank[d] \in 1 .. 4
          BY RankFacts
        <5>4. QED
          BY <4>2, <5>1, <5>2, <5>3
      <4>4. d # "dispatched"
        BY <4>1, ReceiptType
      <4>5. <<m, f>> \in reported \/ <<m, f>> \in WithImpliedSteps(m, d, statusEvent[m])
        BY <3>1, <4>1, <4>2, <4>3, <4>4, RungBelow DEF ToldInv, RecordedInv
      <4>6. QED
        BY <4>1, <4>2, <4>5
    <3>5. QED
      BY <3>2, <3>3, <3>4 DEF ToldInv
  <2>5. \A g \in Hooks : hook'[g] # "idle" => webhooks' > 0
    BY <2>3
  <2>6. QED
    BY <2>2, <2>4, <2>5 DEF LadderInv
<1>16. ASSUME NEW h \in Hooks, HookForward(h) PROVE LadderInv'
  <2>1. PICK D \in SUBSET {r[1] : r \in {q \in receipts[h] : q[1] \notin deleted}} :
          \E o \in Outcomes(receipts[h], D) :
            /\ Forward(receipts[h], D, o)
            /\ receipts' = [receipts EXCEPT ![h] = {r \in receipts[h] : o[r] = "ok"}]
            /\ hook' = [hook EXCEPT ![h] =
                 IF {r \in receipts[h] : o[r] = "ok"} = {} THEN "idle" ELSE "read"]
    BY <1>16 DEF HookForward
  <2>2. PICK o \in Outcomes(receipts[h], D) :
          /\ Forward(receipts[h], D, o)
          /\ receipts' = [receipts EXCEPT ![h] = {r \in receipts[h] : o[r] = "ok"}]
          /\ hook' = [hook EXCEPT ![h] =
               IF {r \in receipts[h] : o[r] = "ok"} = {} THEN "idle" ELSE "read"]
    BY <2>1
  <2>3. /\ hook[h] = "forward" /\ receipts[h] \subseteq Receipts
        /\ hook'[h] \in {"idle", "read"}
        /\ receipts'[h] = {r \in receipts[h] : o[r] = "ok"}
        /\ \A g \in Hooks : g # h => hook'[g] = hook[g] /\ receipts'[g] = receipts[g]
    BY <1>16, <2>2 DEF HookForward, TypeOK
  <2>4. /\ reported' = reported \cup {r \in receipts[h] : o[r] \in {"ok", "lost"}}
        /\ faults' = (IF Clean(o) THEN faults ELSE faults + 1) /\ blind' = blind
    BY <2>2 DEF Forward
  <2>5. UNCHANGED <<statusEvent, seen, change, verdict, webhooks>>
    BY <1>16 DEF HookForward
  <2>6. webhooks > 0 /\ webhooks \in Nat /\ faults \in Nat /\ faults <= faults'
    BY <2>3, <2>4 DEF LadderInv, TypeOK
  <2>7. ASSUME NEW m \in Msgs, ~Excused(m)' PROVE ToldInv(m)'
    <3>1. ~Excused(m) /\ ToldInv(m) /\ Clean(o)
      BY <2>4, <2>5, <2>6, <2>7 DEF Excused, LadderInv
    <3>2. Told(m, statusEvent[m])' /\ Told(m, seen[m])'
      BY <2>4, <2>5, <3>1 DEF ToldInv, Told
    <3>3. \A g \in Hooks : g # h => HookTold(m, g)'
      BY <2>3, <2>4, <3>1 DEF ToldInv, HookTold, Told
    <3>4. HookTold(m, h)'
      <4> SUFFICES ASSUME NEW e \in Ladder, <<m, e>> \in receipts'[h],
                          NEW f \in Ladder \ {"dispatched"}, Rank[f] < Rank[e]
                   PROVE  <<m, f>> \in reported'
        BY <2>3 DEF HookTold, Told
      <4>1. <<m, e>> \in receipts[h] /\ o[<<m, e>>] = "ok" /\ e \in Events
        BY <2>3 DEF Ladder, Events
      <4>2. <<m, f>> \in reported \cup receipts[h]
        BY <2>3, <3>1, <4>1 DEF ToldInv, HookTold
      <4>3. CASE <<m, f>> \in receipts[h]
        <5>1. DOMAIN o = receipts[h] /\ o[<<m, f>>] \in {"ok", "refused"}
          BY <3>1, <4>1, <4>3, OutcomeFacts DEF Clean
        <5>2. o[<<m, f>>] # "refused"
          <6>1. o[<<m, f>>] = "refused" => Rank[e] < Rank[f]
            BY <4>1, <4>3, OutcomeFacts
          <6>2. Rank[e] \in 1 .. 4 /\ Rank[f] \in 1 .. 4
            BY RankFacts DEF Ladder, Events
          <6>3. QED
            BY <6>1, <6>2
        <5>3. QED
          BY <2>4, <4>3, <5>1, <5>2
      <4>4. QED
        BY <2>4, <4>2, <4>3
    <3>5. QED
      BY <3>2, <3>3, <3>4 DEF ToldInv
  <2>8. \A g \in Hooks : hook'[g] # "idle" => webhooks' > 0
    BY <2>5, <2>6
  <2>9. QED
    BY <2>5, <2>7, <2>8 DEF LadderInv
<1>17. ASSUME NEW h \in Hooks, HookRead(h) PROVE LadderInv'
  <2>1. /\ receipts'[h] \subseteq receipts[h] /\ hook[h] = "read" /\ hook'[h] \in {"idle", "write"}
        /\ \A g \in Hooks : g # h => receipts'[g] = receipts[g] /\ hook'[g] = hook[g]
        /\ UNCHANGED <<statusEvent, seen, change, verdict, webhooks, faults, reported, blind>>
    BY <1>17 DEF HookRead, TypeOK
  <2>2. QED
    BY <2>1, HookShrinks
<1>18. ASSUME NEW h \in Hooks, HookWrite(h) PROVE LadderInv'
  <2>1. PICK r \in receipts[h] :
          /\ statusEvent' = IF Kept(r[1]) THEN [statusEvent EXCEPT ![r[1]] = r[2]] ELSE statusEvent
          /\ receipts' = [receipts EXCEPT ![h] = receipts[h] \ {r}]
          /\ hook' = [hook EXCEPT ![h] = IF receipts[h] \ {r} = {} THEN "idle" ELSE "write"]
    BY <1>18 DEF HookWrite
  <2>2. r = <<r[1], r[2]>> /\ r[1] \in Msgs /\ r[2] \in Events /\ hook[h] = "write"
    BY <1>18 DEF HookWrite, TypeOK, Receipts
  <2>3. /\ receipts'[h] \subseteq receipts[h] /\ hook'[h] \in {"idle", "write"}
        /\ \A g \in Hooks : g # h => receipts'[g] = receipts[g] /\ hook'[g] = hook[g]
    BY <2>1 DEF TypeOK
  <2>4. UNCHANGED <<seen, change, verdict, webhooks, faults, reported, blind>>
    BY <1>18 DEF HookWrite
  <2>5. \A q \in Msgs : statusEvent'[q] = statusEvent[q] \/ (q = r[1] /\ statusEvent'[q] = r[2])
    BY <2>1 DEF TypeOK
  <2>6. ASSUME NEW q \in Msgs, ToldInv(q) PROVE Told(q, statusEvent'[q])
    BY <2>2, <2>5, <2>6 DEF ToldInv, HookTold
  <2>7. QED
    BY <2>2, <2>3, <2>4, <2>6, HookShrinks DEF TypeOK
<1>19. ASSUME NEW h \in Hooks, HookFails(h) PROVE LadderInv'
  <2>1. /\ receipts'[h] = {} /\ hook[h] \in {"read", "write"} /\ hook'[h] = "idle"
        /\ \A g \in Hooks : g # h => receipts'[g] = receipts[g] /\ hook'[g] = hook[g]
        /\ UNCHANGED <<statusEvent, seen, change, verdict, webhooks, reported, blind>>
        /\ faults' = faults + 1
    BY <1>19 DEF HookFails, TypeOK
  <2>2. QED
    BY <2>1, HookShrinks DEF TypeOK
<1>20. CASE TickFails
  <2>1. DOMAIN verdict' = {} /\ \A m \in Msgs : seen'[m] = "none" /\ change'[m] = "none"
    BY <1>20, EmptyVerdict DEF TickFails, ResetTick
  <2>2. UNCHANGED <<statusEvent, hook, receipts, webhooks, reported, blind>> /\ faults' = faults + 1
    BY <1>20 DEF TickFails
  <2>3. \A m \in Msgs : Told(m, "none")
    BY DEF Told, Ladder
  <2>4. \A m \in Msgs : ToldInv(m) => ToldInv(m)'
    BY <2>1, <2>2, <2>3 DEF ToldInv, HookTold, Told
  <2>5. \A m \in Msgs : Excused(m) => Excused(m)'
    BY <2>2 DEF Excused, TypeOK
  <2>6. QED
    BY <2>1, <2>2, <2>4, <2>5 DEF LadderInv
<1>21. ASSUME NEW x \in stray, NEW lookup \in Lookups, StrayAnswer(x, lookup) PROVE LadderInv'
  BY <1>21, LadderKept DEF StrayAnswer
<1>22. CASE Crash
  <2>1. DOMAIN verdict' = {} /\ \A m \in Msgs : seen'[m] = "none" /\ change'[m] = "none"
    BY <1>22, EmptyVerdict DEF Crash, ResetTick
  <2>2. /\ UNCHANGED <<statusEvent, webhooks, reported, blind>> /\ faults' = faults + 1
        /\ \A h \in Hooks : hook'[h] = "idle" /\ receipts'[h] = {}
    BY <1>22 DEF Crash
  <2>3. \A m \in Msgs : Told(m, "none")
    BY DEF Told, Ladder
  <2>4. \A m \in Msgs : ToldInv(m) => ToldInv(m)'
    BY <2>1, <2>2, <2>3 DEF ToldInv, HookTold, Told
  <2>5. \A m \in Msgs : Excused(m) => Excused(m)'
    BY <2>2 DEF Excused, TypeOK
  <2>6. QED
    BY <2>1, <2>2, <2>4, <2>5 DEF LadderInv
<1>23. CASE UNCHANGED vars
  BY <1>23, LadderKept DEF vars
<1>24. QED
  BY <1>1, <1>2, <1>3, <1>4, <1>5, <1>6, <1>7, <1>8, <1>9, <1>10, <1>11, <1>12, <1>13, <1>14,
     <1>15, <1>16, <1>17, <1>18, <1>19, <1>20, <1>21, <1>22, <1>23
     DEF Next, LookupStep, SettleStep

LEMMA LadderAlways == Spec => []LadderInv
<1>1. ASSUME Init PROVE LadderInv
  <2>1. \A m \in Msgs : Told(m, "none")
    BY DEF Told, Ladder
  <2>2. \A m \in Msgs : ToldInv(m)
    BY <1>1, <2>1 DEF Init, ToldInv, HookTold
  <2>3. DOMAIN verdict = {}
    BY <1>1, EmptyVerdict DEF Init
  <2>4. QED
    BY <1>1, <2>2, <2>3 DEF Init, LadderInv
<1>2. QED
  BY <1>1, LadderStep, BouncedAlways, RecordedAlways, TickAlways, TypeAlways, PTL DEF Spec

\* No skipped steps: once a rung is recorded, the receiver has every rung below
\* it, though poller and webhooks race on the row.
THEOREM LadderCorrect == Spec => []LadderReported
<1>1. LadderInv => LadderReported
  BY DEF LadderInv, LadderReported, Excused, ToldInv, Told
<1>2. QED
  BY <1>1, LadderAlways, PTL


-----------------------------------------------------------------------------
USE DEF Alone

LEMMA QuietStep == MaxWebhooks = 0 /\ TypeOK /\ QuietInv /\ [Next]_vars => QuietInv'
<1> SUFFICES ASSUME MaxWebhooks = 0, TypeOK, QuietInv, [Next]_vars PROVE QuietInv'
  OBVIOUS
<1>1. ASSUME NEW m \in Msgs, Progress(m) PROVE QuietInv'
  BY <1>1 DEF Progress, QuietInv
<1>2. ASSUME NEW m \in Msgs, Record(m) PROVE QuietInv'
  BY <1>2 DEF Record, QuietInv
<1>3. ASSUME NEW m \in Msgs, Elapse(m) PROVE QuietInv'
  BY <1>3 DEF Elapse, QuietInv
<1>4. ASSUME NEW m \in Msgs, Age(m) PROVE QuietInv'
  BY <1>4 DEF Age, QuietInv
<1>5. ASSUME NEW m \in Msgs, Prune(m) PROVE QuietInv'
  BY <1>5 DEF Prune, QuietInv
<1>6. ASSUME NEW s \in Senders, Unpause(s) PROVE QuietInv'
  BY <1>6 DEF Unpause, QuietInv
<1>7. CASE StartTick
  BY <1>7 DEF StartTick, QuietInv
<1>8. ASSUME NEW m \in Msgs, StartLookup(m) PROVE QuietInv'
  BY <1>8 DEF StartLookup, QuietInv
<1>9. ASSUME NEW m \in Msgs, NEW lookup \in Lookups, Answer(m, lookup) PROVE QuietInv'
  BY <1>9 DEF Answer, QuietInv
<1>10. CASE ForwardChunkStep
  BY <1>10 DEF ForwardChunkStep, QuietInv
<1>11. ASSUME NEW m \in Msgs, SettleRefused(m) PROVE QuietInv'
  BY <1>11 DEF SettleRefused, Settled, QuietInv
<1>12. ASSUME NEW m \in Msgs, SettleAccepted(m) PROVE QuietInv'
  BY <1>12 DEF SettleAccepted, Settled, QuietInv
<1>13. ASSUME NEW m \in Msgs, SettleRetry(m) PROVE QuietInv'
  BY <1>13 DEF SettleRetry, Settled, QuietInv
<1>14. CASE EndTick
  BY <1>14 DEF EndTick, QuietInv
<1>15. ASSUME NEW h \in Hooks, Receive(h) PROVE QuietInv'
  <2>1. webhooks < MaxWebhooks /\ webhooks = 0
    BY <1>15, ReceiveStep DEF QuietInv
  <2>2. QED
    BY <2>1
<1>16. ASSUME NEW h \in Hooks, HookForward(h) PROVE QuietInv'
  BY <1>16 DEF HookForward, QuietInv
<1>17. ASSUME NEW h \in Hooks, HookRead(h) PROVE QuietInv'
  BY <1>17 DEF HookRead, QuietInv
<1>18. ASSUME NEW h \in Hooks, HookWrite(h) PROVE QuietInv'
  BY <1>18 DEF HookWrite, QuietInv
<1>19. ASSUME NEW h \in Hooks, HookFails(h) PROVE QuietInv'
  BY <1>19 DEF HookFails, QuietInv
<1>20. CASE TickFails
  BY <1>20 DEF TickFails, QuietInv
<1>21. ASSUME NEW x \in stray, NEW lookup \in Lookups, StrayAnswer(x, lookup) PROVE QuietInv'
  BY <1>21 DEF StrayAnswer, QuietInv
<1>22. CASE Crash
  BY <1>22 DEF Crash, QuietInv
<1>23. CASE UNCHANGED vars
  BY <1>23 DEF vars, QuietInv
<1>24. QED
  BY <1>1, <1>2, <1>3, <1>4, <1>5, <1>6, <1>7, <1>8, <1>9, <1>10, <1>11, <1>12, <1>13, <1>14,
     <1>15, <1>16, <1>17, <1>18, <1>19, <1>20, <1>21, <1>22, <1>23
     DEF Next, LookupStep, SettleStep

LEMMA FaultsGrow == TypeOK /\ [Next]_vars => faults' \in Nat /\ faults <= faults'
<1> SUFFICES ASSUME TypeOK, [Next]_vars PROVE faults' \in Nat /\ faults <= faults'
  OBVIOUS
<1>1. ASSUME NEW m \in Msgs, Progress(m) PROVE faults' \in Nat /\ faults <= faults'
  BY <1>1 DEF Progress, TypeOK
<1>2. ASSUME NEW m \in Msgs, Record(m) PROVE faults' \in Nat /\ faults <= faults'
  BY <1>2 DEF Record, TypeOK
<1>3. ASSUME NEW m \in Msgs, Elapse(m) PROVE faults' \in Nat /\ faults <= faults'
  BY <1>3 DEF Elapse, TypeOK
<1>4. ASSUME NEW m \in Msgs, Age(m) PROVE faults' \in Nat /\ faults <= faults'
  BY <1>4 DEF Age, TypeOK
<1>5. ASSUME NEW m \in Msgs, Prune(m) PROVE faults' \in Nat /\ faults <= faults'
  BY <1>5 DEF Prune, TypeOK
<1>6. ASSUME NEW s \in Senders, Unpause(s) PROVE faults' \in Nat /\ faults <= faults'
  BY <1>6 DEF Unpause, TypeOK
<1>7. CASE StartTick
  BY <1>7 DEF StartTick, TypeOK
<1>8. ASSUME NEW m \in Msgs, StartLookup(m) PROVE faults' \in Nat /\ faults <= faults'
  BY <1>8 DEF StartLookup, TypeOK
<1>9. ASSUME NEW m \in Msgs, NEW lookup \in Lookups, Answer(m, lookup)
      PROVE  faults' \in Nat /\ faults <= faults'
  BY <1>9 DEF Answer, TypeOK
<1>10. CASE ForwardChunkStep
  BY <1>10 DEF ForwardChunkStep, Forward, TypeOK
<1>11. ASSUME NEW m \in Msgs, SettleRefused(m) PROVE faults' \in Nat /\ faults <= faults'
  BY <1>11 DEF SettleRefused, Settled, TypeOK
<1>12. ASSUME NEW m \in Msgs, SettleAccepted(m) PROVE faults' \in Nat /\ faults <= faults'
  BY <1>12 DEF SettleAccepted, Settled, TypeOK
<1>13. ASSUME NEW m \in Msgs, SettleRetry(m) PROVE faults' \in Nat /\ faults <= faults'
  BY <1>13 DEF SettleRetry, Settled, TypeOK
<1>14. CASE EndTick
  BY <1>14 DEF EndTick, TypeOK
<1>15. ASSUME NEW h \in Hooks, Receive(h) PROVE faults' \in Nat /\ faults <= faults'
  BY <1>15, ReceiveStep DEF TypeOK
<1>16. ASSUME NEW h \in Hooks, HookForward(h) PROVE faults' \in Nat /\ faults <= faults'
  <2>1. PICK D \in SUBSET {r[1] : r \in {q \in receipts[h] : q[1] \notin deleted}} :
          \E o \in Outcomes(receipts[h], D) :
            /\ Forward(receipts[h], D, o)
            /\ receipts' = [receipts EXCEPT ![h] = {r \in receipts[h] : o[r] = "ok"}]
            /\ hook' = [hook EXCEPT ![h] =
                 IF {r \in receipts[h] : o[r] = "ok"} = {} THEN "idle" ELSE "read"]
    BY <1>16 DEF HookForward
  <2>2. PICK o \in Outcomes(receipts[h], D) :
          /\ Forward(receipts[h], D, o)
          /\ receipts' = [receipts EXCEPT ![h] = {r \in receipts[h] : o[r] = "ok"}]
          /\ hook' = [hook EXCEPT ![h] =
               IF {r \in receipts[h] : o[r] = "ok"} = {} THEN "idle" ELSE "read"]
    BY <2>1
  <2>3. QED
    BY <2>2 DEF Forward, TypeOK
<1>17. ASSUME NEW h \in Hooks, HookRead(h) PROVE faults' \in Nat /\ faults <= faults'
  BY <1>17 DEF HookRead, TypeOK
<1>18. ASSUME NEW h \in Hooks, HookWrite(h) PROVE faults' \in Nat /\ faults <= faults'
  BY <1>18 DEF HookWrite, TypeOK
<1>19. ASSUME NEW h \in Hooks, HookFails(h) PROVE faults' \in Nat /\ faults <= faults'
  BY <1>19 DEF HookFails, TypeOK
<1>20. CASE TickFails
  BY <1>20 DEF TickFails, TypeOK
<1>21. ASSUME NEW x \in stray, NEW lookup \in Lookups, StrayAnswer(x, lookup)
       PROVE  faults' \in Nat /\ faults <= faults'
  BY <1>21 DEF StrayAnswer, TypeOK
<1>22. CASE Crash
  BY <1>22 DEF Crash, TypeOK
<1>23. CASE UNCHANGED vars
  BY <1>23 DEF vars, TypeOK
<1>24. QED
  BY <1>1, <1>2, <1>3, <1>4, <1>5, <1>6, <1>7, <1>8, <1>9, <1>10, <1>11, <1>12, <1>13, <1>14,
     <1>15, <1>16, <1>17, <1>18, <1>19, <1>20, <1>21, <1>22, <1>23
     DEF Next, LookupStep, SettleStep

\* Settling a message on its own: its row says as much as the receiver has.
LEMMA SettledAlone ==
  ASSUME TypeOK, TickInv, Alone, NEW m \in Msgs, Settled(m),
         \A q \in Msgs : q # m => statusEvent'[q] = statusEvent[q] /\ poll'[q] = poll[q],
         statusEvent'[m] \in Final => poll'[m] = "off",
         \A r \in reported : r[1] = m => ~Kept(m) \/ Rank[r[2]] <= Rank[statusEvent'[m]]
  PROVE  Alone'
<1>1. /\ UNCHANGED <<row, seen, stray, reported, repeated>> /\ m \in Changed
      /\ todo' = {} /\ flight' = {} /\ Changed' = Changed \ {m} /\ chunk' = chunk \ {m}
  BY SettledFacts DEF Settled, TickInv
<1>2. /\ DOMAIN verdict' = DOMAIN verdict \ Mine(m)
      /\ \A r \in DOMAIN verdict' : verdict'[r] = verdict[r]
  BY SettledType
<1>3. OneAnswer'
  BY <1>2 DEF OneAnswer
<1>4. Fresh'
  <2>1. row[m] # "absent" /\ Changed \subseteq Msgs
    BY <1>1 DEF Fresh, Changed
  <2>2. QED
    BY <1>1, <2>1 DEF Fresh
<1>5. Accounted'
  <2> SUFFICES ASSUME NEW r \in reported PROVE Known(r)'
    BY <1>1 DEF Accounted
  <2>1. r[1] \in Msgs
    BY DEF TypeOK, Receipts
  <2>2. CASE r[1] = m
    BY <1>1, <2>2 DEF Known, Kept
  <2>3. CASE r[1] # m
    <3>1. r \in DOMAIN verdict => r \in DOMAIN verdict' /\ verdict'[r] = verdict[r]
      BY <1>2, <2>3 DEF Mine
    <3>2. QED
      BY <1>1, <2>1, <2>3, <3>1 DEF Known, Kept, Accounted
  <2>4. QED
    BY <2>2, <2>3
<1>6. QED
  BY <1>1, <1>3, <1>4, <1>5

LEMMA AloneStep ==
  ASSUME MaxWebhooks = 0, TypeOK, SentInv, TickInv, LadderInv, QuietInv, AloneInv, [Next]_vars
  PROVE  AloneInv'
<1> SUFFICES ASSUME faults' = 0 PROVE Alone'
  BY DEF AloneInv
<1>0. faults = 0 /\ Alone
  BY FaultsGrow DEF AloneInv, TypeOK
<1> USE <1>0
<1>1. ASSUME NEW m \in Msgs, Progress(m) PROVE Alone'
  BY <1>1 DEF Progress, OneAnswer, Fresh, Accounted, Known, Kept, Changed
<1>2. ASSUME NEW m \in Msgs, Record(m) PROVE Alone'
  <2>1. UNCHANGED <<statusEvent, tick, todo, flight, seen, change, chunk, verdict, stray, reported, repeated>>
    BY <1>2 DEF Record
  <2>2. /\ row[m] = "absent" /\ statusEvent[m] = "none" /\ row' = [row EXCEPT ![m] = "kept"]
        /\ \A q \in Msgs : q # m => poll'[q] = poll[q]
    BY <1>2 DEF Record, Fresh, TypeOK
  <2>3. OneAnswer' /\ Changed' = Changed
    BY <2>1 DEF OneAnswer, Changed
  <2>4. Fresh'
    BY <2>1, <2>2, <2>3 DEF Fresh, Final, TypeOK
  <2>5. Accounted'
    <3> SUFFICES ASSUME NEW r \in reported PROVE row'[r[1]] = row[r[1]] /\ row[r[1]] # "absent"
      BY <2>1, <2>3 DEF Accounted, Known, Kept
    <3>1. QED
      BY <2>2 DEF Accounted, TypeOK
  <2>6. QED
    BY <2>1, <2>3, <2>4, <2>5
<1>3. ASSUME NEW m \in Msgs, Elapse(m) PROVE Alone'
  BY <1>3 DEF Elapse, TypeOK, OneAnswer, Fresh, Accounted, Known, Kept, Changed
<1>4. ASSUME NEW m \in Msgs, Age(m) PROVE Alone'
  BY <1>4 DEF Age, OneAnswer, Fresh, Accounted, Known, Kept, Changed
<1>5. ASSUME NEW m \in Msgs, Prune(m) PROVE Alone'
  <2>1. UNCHANGED <<statusEvent, tick, todo, flight, seen, change, chunk, verdict, stray, reported, repeated>>
    BY <1>5 DEF Prune
  <2>2. \A q \in Msgs : /\ row'[q] = row[q] \/ (row'[q] = "pruned" /\ row[q] = "kept")
                        /\ poll'[q] \in {poll[q], "off"}
    BY <1>5 DEF Prune, Kept, TypeOK
  <2>3. OneAnswer' /\ Changed' = Changed
    BY <2>1 DEF OneAnswer, Changed
  <2>4. Fresh'
    BY <2>1, <2>2, <2>3 DEF Fresh
  <2>5. Accounted'
    <3>1. \A r \in reported : r[1] \in Msgs
      BY DEF TypeOK, Receipts
    <3>2. \A r \in reported : row'[r[1]] # "absent" /\ Known(r)'
      BY <2>1, <2>2, <3>1 DEF Accounted, Known, Kept
    <3>3. QED
      BY <2>1, <2>3, <3>2 DEF Accounted
  <2>6. QED
    BY <2>1, <2>3, <2>4, <2>5
<1>6. ASSUME NEW s \in Senders, Unpause(s) PROVE Alone'
  BY <1>6 DEF Unpause, OneAnswer, Fresh, Accounted, Known, Kept, Changed
<1>7. CASE StartTick
  <2>1. /\ todo = {} /\ flight = {} /\ Changed = {} /\ chunk = {}
        /\ UNCHANGED <<statusEvent, row, flight, change, chunk, verdict, stray, reported, repeated>>
    BY <1>7 DEF StartTick, TickInv
  <2>2. /\ todo' \subseteq Msgs
        /\ \A m \in todo' : Kept(m) /\ poll[m] = "due" /\ seen'[m] = statusEvent[m]
        /\ \A m \in Msgs : poll'[m] \in {poll[m], "off"}
    BY <1>7 DEF StartTick
  <2>3. OneAnswer' /\ Changed' = {} /\ flight' = {} /\ chunk' = {}
    BY <2>1 DEF OneAnswer, Changed
  <2>4. Fresh'
    BY <2>1, <2>2, <2>3 DEF Fresh
  <2>5. Accounted'
    BY <2>1, <2>2, <2>3 DEF Accounted, Known, Kept
  <2>6. QED
    BY <2>1, <2>3, <2>4, <2>5
<1>8. ASSUME NEW m \in Msgs, StartLookup(m) PROVE Alone'
  <2>1. /\ m \in todo /\ statusEvent[m] \notin Final
        /\ UNCHANGED <<statusEvent, row, seen, change, chunk, verdict, stray, reported, repeated>>
    BY <1>8 DEF StartLookup, Fresh
  <2>2. /\ todo' = todo \ {m} /\ flight' \subseteq flight \cup {m}
        /\ \A q \in Msgs : q # m => poll'[q] = poll[q]
    BY <1>8 DEF StartLookup, Reschedule, TypeOK
  <2>3. OneAnswer' /\ Changed' = Changed
    BY <2>1 DEF OneAnswer, Changed
  <2>4. Fresh'
    BY <2>1, <2>2, <2>3 DEF Fresh
  <2>5. Accounted'
    BY <2>1, <2>2, <2>3 DEF Accounted, Known, Kept
  <2>6. QED
    BY <2>1, <2>3, <2>4, <2>5
<1>9. ASSUME NEW m \in Msgs, NEW lookup \in Lookups, Answer(m, lookup) PROVE Alone'
  <2>1. /\ m \in flight /\ flight' = flight \ {m} /\ statusEvent[m] \notin Final
        /\ UNCHANGED <<statusEvent, row, todo, seen, chunk, verdict, stray, reported, repeated>>
    BY <1>9 DEF Answer, Fresh
  <2>2. \A q \in Msgs : q # m => poll'[q] = poll[q]
    BY <1>9 DEF Answer, AnswerWrite, Reschedule, TypeOK
  <2>3. \A q \in Msgs : q # m => change'[q] = change[q]
    BY <1>9 DEF Answer, TypeOK
  <2>4. OneAnswer' /\ Changed' \subseteq Changed \cup {m} /\ chunk = {} /\ m \notin todo /\ row[m] # "absent"
    BY <2>1, <2>3 DEF OneAnswer, Changed, TickInv, Fresh, SentInv
  <2>5. Fresh'
    BY <2>1, <2>2, <2>4 DEF Fresh
  <2>6. Accounted'
    BY <2>1, <2>4 DEF Accounted, Known, Kept
  <2>7. QED
    BY <2>1, <2>4, <2>5, <2>6
<1>10. CASE ForwardChunkStep
  <2>1. PICK C \in SUBSET Changed : \E D \in SUBSET (C \ deleted) :
          Forward(Batch(C), D, verdict') /\ chunk' = C
    BY <1>10 DEF ForwardChunkStep, Batch
  <2>2. PICK D \in SUBSET (C \ deleted) : Forward(Batch(C), D, verdict')
    BY <2>1
  <2>3. /\ UNCHANGED <<statusEvent, row, poll, todo, flight, seen, change, stray>>
        /\ todo = {} /\ flight = {} /\ chunk = {}
    BY <1>10 DEF ForwardChunkStep
  <2>4. DOMAIN verdict' = Batch(C)
    BY <2>2, OutcomeFacts DEF Forward
  <2>5. Clean(verdict') /\ repeated' = repeated \cup ({r \in Batch(C) : verdict'[r] \in {"ok", "lost"}} \cap reported)
    BY <2>2 DEF Forward
  <2>6. OneAnswer' /\ Changed' = Changed
    BY <2>3, <2>5 DEF Clean, OneAnswer, Changed
  <2>7. \A r \in Batch(C) : r[1] \in C /\ Rank[seen[r[1]]] < Rank[r[2]] /\ Rank[r[2]] \in 1 .. 4
    <3> SUFFICES ASSUME NEW q \in C, NEW e, <<q, e>> \in WithImpliedSteps(q, change[q], seen[q])
                 PROVE  Rank[seen[q]] < Rank[e] /\ Rank[e] \in 1 .. 4
      BY DEF Batch, WithImpliedSteps
    <3>1. q \in Msgs /\ change[q] # "none" /\ change[q] \in Events
      BY DEF Changed, TypeOK
    <3>2. Rank[seen[q]] < Rank[change[q]]
      BY <3>1 DEF LadderInv
    <3>3. e = change[q] \/ (e \in Events /\ Rank[seen[q]] < Rank[e])
      BY DEF WithImpliedSteps, ImpliedSteps, Ladder, Events
    <3>4. QED
      BY <3>1, <3>2, <3>3, RankFacts
  <2>8. \A r \in Batch(C) : r \notin reported
    <3> SUFFICES ASSUME NEW r \in Batch(C), r \in reported PROVE FALSE
      OBVIOUS
    <3>1. r[1] \in Changed \ chunk
      BY <2>3, <2>7
    <3>2. Rank[r[2]] <= Rank[seen[r[1]]] /\ r[1] \in Msgs
      BY <3>1 DEF Accounted, Changed
    <3>3. Rank[seen[r[1]]] \in 1 .. 4
      BY <3>2, RankFacts DEF TypeOK
    <3>4. QED
      BY <2>7, <3>2, <3>3
  <2>9. Fresh'
    BY <2>3, <2>6 DEF Fresh
  <2>10. Accounted'
    <3> SUFFICES ASSUME NEW r \in reported'
                 PROVE  /\ row[r[1]] # "absent" /\ Known(r)'
                        /\ r[1] \in Changed \ C => Rank[r[2]] <= Rank[seen[r[1]]]
      BY <2>1, <2>3, <2>6 DEF Accounted
    <3>1. CASE r \in reported
      BY <2>3, <3>1 DEF Accounted, Known, Kept
    <3>2. CASE r \notin reported
      <4>1. r \in Batch(C) /\ verdict'[r] \in {"ok", "lost"}
        BY <2>2, <3>2 DEF Forward
      <4>2. verdict'[r] = "ok" /\ r[1] \in C
        BY <2>4, <2>5, <2>7, <4>1 DEF Clean
      <4>3. r[1] \in Msgs /\ row[r[1]] # "absent"
        BY <4>2 DEF Changed, Fresh
      <4>4. QED
        BY <2>1, <2>4, <4>1, <4>2, <4>3 DEF Known
    <3>3. QED
      BY <3>1, <3>2
  <2>11. QED
    BY <2>3, <2>5, <2>6, <2>8, <2>9, <2>10
<1>11. ASSUME NEW m \in Msgs, SettleRefused(m) PROVE Alone'
  <2>1. Settled(m) /\ \A q \in Msgs : q # m => poll'[q] = poll[q]
    BY <1>11 DEF SettleRefused, Reschedule, TypeOK
  <2>2. m \in chunk /\ m \in Changed /\ seen[m] = statusEvent[m] /\ statusEvent[m] \notin Final
    BY <2>1, SettledFacts DEF TickInv, Fresh
  <2>3. \A r \in reported : r[1] = m /\ Kept(m) =>
          \/ Rank[r[2]] <= Rank[seen[m]]
          \/ r \in Mine(m) /\ verdict[r] = "ok"
    BY <2>2 DEF Accounted, Known, Mine
  <2>4. /\ \A r \in reported : Rank[r[2]] \in 1 .. 4
        /\ Rank[seen[m]] \in 1 .. 4
    BY RankFacts DEF TypeOK, Receipts
  <2>5. CASE UNCHANGED statusEvent /\ (~Kept(m) \/ \A r \in Mine(m) : verdict[r] = "ok" => ~(Rank[r[2]] > Rank[seen[m]]))
    <3>1. \A r \in reported : r[1] = m => ~Kept(m) \/ Rank[r[2]] <= Rank[statusEvent'[m]]
      BY <2>2, <2>3, <2>4, <2>5
    <3>2. QED
      BY <2>1, <2>2, <2>5, <3>1, SettledAlone
  <2>6. ASSUME NEW e \in Events, statusEvent' = [statusEvent EXCEPT ![m] = e], Kept(m), Rank[e] > Rank[seen[m]],
               \A r \in Mine(m) : verdict[r] = "ok" => Rank[r[2]] <= Rank[e]
        PROVE  Alone'
    <3>1. statusEvent'[m] = e /\ \A q \in Msgs : q # m => statusEvent'[q] = statusEvent[q]
      BY <2>6 DEF TypeOK
    <3>2. poll'[m] = "off"
      BY <1>11, <2>6 DEF SettleRefused, Reschedule, TypeOK
    <3>3. Rank[e] \in 1 .. 4
      BY RankFacts
    <3>4. \A r \in reported : r[1] = m => Rank[r[2]] <= Rank[e]
      BY <2>3, <2>4, <2>6, <3>3
    <3>5. QED
      BY <2>1, <3>1, <3>2, <3>4, SettledAlone
  <2>7. QED
    BY <1>11, <2>5, <2>6, TopFacts
<1>12. ASSUME NEW m \in Msgs, SettleAccepted(m) PROVE Alone'
  <2>1. /\ Settled(m)
        /\ \A q \in Msgs : q # m => statusEvent'[q] = statusEvent[q] /\ poll'[q] = poll[q]
        /\ statusEvent'[m] = (IF Kept(m) THEN change[m] ELSE statusEvent[m])
        /\ Kept(m) => poll'[m] = IF change[m] \in Final THEN "off" ELSE "later"
    BY <1>12 DEF SettleAccepted, Reschedule, TypeOK
  <2>2. /\ m \in chunk /\ m \in Changed /\ seen[m] = statusEvent[m] /\ statusEvent[m] \notin Final
        /\ change[m] # "none" /\ Rank[seen[m]] < Rank[change[m]]
    BY <2>1, SettledFacts DEF TickInv, Fresh, Changed, LadderInv
  <2>3. statusEvent'[m] \in Final => poll'[m] = "off"
    BY <2>1, <2>2
  <2>4. ASSUME NEW r \in reported, r[1] = m, Kept(m) PROVE Rank[r[2]] <= Rank[change[m]]
    <3>1. /\ r[2] \in Events /\ change[m] \in Events /\ seen[m] \in Events \cup {"none"}
      BY <2>2 DEF TypeOK, Receipts
    <3>2. Rank[r[2]] \in 1 .. 4 /\ Rank[change[m]] \in 1 .. 4 /\ Rank[seen[m]] \in 1 .. 4
      BY <3>1, RankFacts
    <3>3. Rank[r[2]] <= Rank[seen[m]] \/ r \in DOMAIN verdict
      BY <2>2, <2>4 DEF Accounted, Known
    <3>4. CASE r \in DOMAIN verdict
      <4>1. r \in WithImpliedSteps(m, change[m], seen[m])
        BY <2>2, <2>4, <3>4 DEF TickInv, Mine
      <4>2. r[2] = change[m] \/ Rank[r[2]] < Rank[change[m]]
        BY <4>1 DEF WithImpliedSteps, ImpliedSteps
      <4>3. QED
        BY <3>2, <4>2
    <3>5. QED
      BY <2>2, <3>2, <3>3, <3>4
  <2>5. \A r \in reported : r[1] = m => ~Kept(m) \/ Rank[r[2]] <= Rank[statusEvent'[m]]
    BY <2>1, <2>4
  <2>6. QED
    BY <2>1, <2>3, <2>5, SettledAlone
<1>13. ASSUME NEW m \in Msgs, SettleRetry(m) PROVE Alone'
  <2>1. Settled(m) /\ UNCHANGED statusEvent /\ AnyFailed(m) /\ \A q \in Msgs : q # m => poll'[q] = poll[q]
    BY <1>13 DEF SettleRetry, Reschedule, TypeOK
  <2>2. m \in Changed
    BY <2>1, SettledFacts DEF TickInv
  <2>3. statusEvent'[m] \notin Final
    BY <2>1, <2>2 DEF Fresh
  <2>4. \A r \in DOMAIN verdict : verdict[r] = "failed"
    BY <2>1 DEF AnyFailed, OneAnswer, Mine
  <2>5. \A r \in reported : r[1] = m => ~Kept(m) \/ Rank[r[2]] <= Rank[statusEvent'[m]]
    BY <2>1, <2>4 DEF Accounted, Known
  <2>6. QED
    BY <2>1, <2>3, <2>5, SettledAlone
<1>14. CASE EndTick
  <2>1. /\ todo' = {} /\ flight' = {} /\ chunk' = {} /\ Changed = {} /\ chunk = {} /\ change' = change
        /\ UNCHANGED <<statusEvent, row, poll, verdict, stray, reported, repeated>>
    BY <1>14 DEF EndTick
  <2>2. OneAnswer' /\ Changed' = {}
    BY <2>1 DEF OneAnswer, Changed
  <2>3. Fresh'
    BY <2>1, <2>2 DEF Fresh
  <2>4. Accounted'
    BY <2>1, <2>2 DEF Accounted, Known, Kept
  <2>5. QED
    BY <2>1, <2>2, <2>3, <2>4
<1>15. ASSUME NEW h \in Hooks, Receive(h) PROVE Alone'
  <2>1. webhooks < MaxWebhooks /\ webhooks = 0
    BY <1>15, ReceiveStep DEF QuietInv
  <2>2. QED
    BY <2>1
<1>16. ASSUME NEW h \in Hooks, HookForward(h) PROVE Alone'
  BY <1>16 DEF HookForward, QuietInv
<1>17. ASSUME NEW h \in Hooks, HookRead(h) PROVE Alone'
  BY <1>17 DEF HookRead, QuietInv
<1>18. ASSUME NEW h \in Hooks, HookWrite(h) PROVE Alone'
  BY <1>18 DEF HookWrite, QuietInv
<1>19. ASSUME NEW h \in Hooks, HookFails(h) PROVE Alone'
  BY <1>19 DEF HookFails, QuietInv
<1>20. CASE TickFails
  BY <1>20 DEF TickFails
<1>21. ASSUME NEW x \in stray, NEW lookup \in Lookups, StrayAnswer(x, lookup) PROVE Alone'
  OBVIOUS
<1>22. CASE Crash
  BY <1>22 DEF Crash
<1>23. CASE UNCHANGED vars
  BY <1>23 DEF vars, OneAnswer, Fresh, Accounted, Known, Kept, Changed
<1>24. QED
  BY <1>1, <1>2, <1>3, <1>4, <1>5, <1>6, <1>7, <1>8, <1>9, <1>10, <1>11, <1>12, <1>13, <1>14,
     <1>15, <1>16, <1>17, <1>18, <1>19, <1>20, <1>21, <1>22, <1>23
     DEF Next, LookupStep, SettleStep

LEMMA AloneAlways == ASSUME MaxWebhooks = 0 PROVE Spec => []AloneInv
<1>1. Init => QuietInv /\ AloneInv
  BY EmptyVerdict DEF Init, QuietInv, AloneInv, OneAnswer, Fresh, Accounted, Changed, Final
<1>2. MaxWebhooks = 0
  OBVIOUS
<1>3. /\ TypeOK /\ SentInv /\ TickInv /\ LadderInv /\ QuietInv /\ AloneInv /\ [Next]_vars
      => QuietInv' /\ AloneInv'
  BY <1>2, QuietStep, AloneStep
<1>4. QED
  BY <1>1, <1>3, LadderAlways, TickAlways, TypeAlways, PTL DEF Spec

\* Only real progress: with no webhooks, the poller repeats a report only after a
\* fault.
THEOREM RepeatedCorrect == ASSUME MaxWebhooks = 0 PROVE Spec => []RepeatedOnlyAfterFault
<1>1. AloneInv /\ TypeOK => RepeatedOnlyAfterFault
  BY DEF AloneInv, RepeatedOnlyAfterFault, TypeOK
<1>2. QED
  BY <1>1, AloneAlways, TypeAlways, PTL

\* Stop when done: with no webhooks and before any fault, a row whose final event is
\* recorded is not polled again.
THEOREM StopsCorrect == ASSUME MaxWebhooks = 0 PROVE Spec => []FinalStopsPolling
<1>1. AloneInv => FinalStopsPolling
  BY DEF AloneInv, Fresh, FinalStopsPolling
<1>2. QED
  BY <1>1, AloneAlways, PTL

=============================================================================
