-------------------------- MODULE DispatchRunProofs --------------------------
(***************************************************************************)
(* What TLAPS proves of DispatchRun, for any number of runs, any users,    *)
(* channels, configurations and faults: the type invariant and the five    *)
(* invariants of its runs, each with the inductive invariant behind it.    *)
(***************************************************************************)
EXTENDS DispatchRun, FiniteSetTheorems, TLAPS

USE DEF locals, saved, history

\* The recipients of a run that were sent a message and have no event.
Untold(d) == {u \in took[d] : outbox[d][u] = "none"}

\* The loop never gets ahead of the outbox: only the recipient in hand is untold,
\* and once the run has stopped for good, whoever was in hand then.
UntoldInv ==
  \A d \in Runs :
    /\ pc[d] = "emit" => Untold(d) \subseteq {hand[d].user}
    /\ pc[d] \notin {"emit", "failed", "lost"} => Untold(d) = {}
    /\ \A u, v \in Untold(d) : u = v

\* The recipients are resolved: nothing is left of the list a run started with.
Resolved(d) == pc[d] = "send" \/ (pc[d] = "emit" /\ hand[d].next = "send")

\* Where each recipient of a run is: still to do, in a message, or in the log;
\* "sent" in the log is the provider's acceptance and nothing else.
AccountInv ==
  \A d \in Runs :
    /\ messages[d] \cap todo[d] = {}
    /\ took[d] \cap (todo[d] \cup messages[d]) = {}
    /\ ~Email(d) => messages[d] = {}
    /\ Resolved(d) => todo[d] = {}
    /\ \A u \in Users : logs[d][u] = "sent" <=> u \in took[d]
    /\ ~DevMode =>
         /\ pc[d] = "done" => todo[d] = {} /\ messages[d] = {}
         /\ \A u \in Users : u \in todo[d] \cup messages[d] \/ logs[d][u] # "none"

\* Without a fault the links of a run are stored once its recipients are
\* resolved, and an email is sent only then.
LinksInv ==
  faults = 0 =>
    \A d \in Runs :
      /\ (messages[d] \cup took[d]) \cap Linked \subseteq links[d]
      /\ Resolved(d) \/ pc[d] = "done" => savedLinks[d] = links[d]
      /\ Email(d) /\ took[d] # {} => Resolved(d) \/ pc[d] = "done"
      /\ pc[d] \in {"new", "begin"} => links[d] = {} /\ savedLinks[d] = {}

\* A run that is past the development check and has not left its resolve loop,
\* and a run that has, or had, the development message.
Open(d) ==
  /\ Email(d)
  /\ pc[d] \in {"resolve", "mark"} \/ (pc[d] = "emit" /\ hand[d].next = "resolve")
Sender(d) ==
  /\ Email(d)
  /\ took[d] # {} \/ (messages[d] # {} /\ pc[d] \notin Ended)

\* In development, unless two runs overlapped in the check: one run at a time is
\* past it, and a run with the message has marked the campaign or is about to.
DevInv ==
  DevMode /\ ~overlap =>
    /\ \A d, e \in Runs : Open(d) /\ Open(e) => d = e
    /\ \A d, e \in Runs : Open(d) /\ Sender(e) => d = e
    /\ \A d, e \in Runs : Sender(d) /\ Sender(e) => d = e
    /\ \A d \in Runs : Email(d) /\ took[d] # {} => devSent
    /\ \A d \in Runs : Sender(d) => devSent \/ pc[d] = "mark"

\* In the order they were issued, the first word of a run is written before the
\* last: an ended run has its last word to come, or has it for good.
FlightInv ==
  ~Pooled /\ faults = 0 =>
    \A d \in Runs :
      /\ pc[d] # "lost"
      /\ pc[d] \in {"done", "failed"} =>
           \/ {Write(d, "completed"), Write(d, "failed")} \cap writes # {}
           \/ row[d] \in {"completed", "failed"} /\ Write(d, "accepted") \notin writes
-----------------------------------------------------------------------------
LEMMA TypeStep == TypeOK /\ [Next]_vars => TypeOK'
<1> SUFFICES ASSUME TypeOK, [Next]_vars, setup' = setup PROVE TypeOK'
  BY DEF Next, vars
<1>1. ASSUME NEW d \in Runs, Accept(d) PROVE TypeOK'
  BY <1>1 DEF Accept, TypeOK, Write, Statements
<1>2. ASSUME NEW d \in Runs, Begin(d) PROVE TypeOK'
  <2>1. /\ pc' \in [Runs -> {"new", "begin", "resolve", "untemplated", "mark", "send", "emit"} \cup Ended]
        /\ \A e \in Runs : pc'[e] = "emit" <=> pc[e] = "emit"
    BY <1>2 DEF Begin, TypeOK, Ended
  <2>2. writes' \subseteq Statements
    BY <1>2 DEF Begin, TypeOK, Write, Statements
  <2>3. overlap' \in BOOLEAN
    BY <1>2 DEF Begin, TypeOK
  <2>4. QED
    BY <1>2, <2>1, <2>2, <2>3 DEF Begin, TypeOK
<1>3. ASSUME NEW d \in Runs, BeginFails(d) PROVE TypeOK'
  BY <1>3 DEF BeginFails, Fails, TypeOK, Ended, Nobody, InHand, Write, Statements
<1>4. ASSUME NEW d \in Runs, NEW u \in Users, Skip(d, u) PROVE TypeOK'
  BY <1>4 DEF Skip, Log, TypeOK
<1>5. ASSUME NEW d \in Runs, NEW u \in Users, Reject(d, u) PROVE TypeOK'
  <2>1. hand' \in [Runs -> InHand \cup {Nobody}] /\ hand'[d] \in InHand
    BY <1>5 DEF Reject, Say, TypeOK, InHand
  <2>2. links' \in [Runs -> SUBSET Linked]
    <3>1. CASE Email(d)
      <4>1. Issue(d, u)
        BY <1>5, <3>1 DEF Reject
      <4>2. QED
        BY <4>1 DEF Issue, TypeOK
    <3>2. CASE ~Email(d)
      BY <1>5, <3>2 DEF Reject, TypeOK
    <3>3. QED
      BY <3>1, <3>2
  <2>3. logs' \in [Runs -> [Users -> {"none", "sent", "failed"}]]
    BY <1>5 DEF Reject, Log, TypeOK
  <2>4. QED
    BY <1>5, <2>1, <2>2, <2>3 DEF Reject, Say, TypeOK
<1>6. ASSUME NEW d \in Runs, NEW u \in Users, Prepare(d, u) PROVE TypeOK'
  BY <1>6 DEF Prepare, Issue, TypeOK
<1>7. ASSUME NEW d \in Runs, NEW u \in Users, NEW answer \in Answers, SendEmail(d, u, answer)
      PROVE  TypeOK'
  <2>1. hand' \in [Runs -> InHand \cup {Nobody}] /\ hand'[d] \in InHand
    BY <1>7 DEF SendEmail, Sent, Say, TypeOK, InHand
  <2>2. logs' \in [Runs -> [Users -> {"none", "sent", "failed"}]]
    BY <1>7 DEF SendEmail, Sent, Log, TypeOK
  <2>3. took' \in [Runs -> SUBSET Users] /\ messages' \in [Runs -> SUBSET Users]
    BY <1>7 DEF SendEmail, Sent, TypeOK
  <2>4. QED
    BY <1>7, <2>1, <2>2, <2>3 DEF SendEmail, Sent, Say, TypeOK
<1>8. ASSUME NEW d \in Runs, NEW u \in Users, NEW answer \in Answers, SendWhatsApp(d, u, answer)
      PROVE  TypeOK'
  <2>1. hand' \in [Runs -> InHand \cup {Nobody}] /\ hand'[d] \in InHand
    BY <1>8 DEF SendWhatsApp, Sent, Say, TypeOK, InHand
  <2>2. logs' \in [Runs -> [Users -> {"none", "sent", "failed"}]]
    BY <1>8 DEF SendWhatsApp, Sent, Log, TypeOK
  <2>3. took' \in [Runs -> SUBSET Users] /\ todo' \in [Runs -> SUBSET Users]
    BY <1>8 DEF SendWhatsApp, Sent, TypeOK
  <2>4. links' \in [Runs -> SUBSET Linked] /\ ids' \in [Runs -> SUBSET Users]
    BY <1>8 DEF SendWhatsApp, Issue, TypeOK
  <2>5. QED
    BY <1>8, <2>1, <2>2, <2>3, <2>4 DEF SendWhatsApp, Sent, Say, TypeOK
<1>9. ASSUME NEW d \in Runs, Mark(d) PROVE TypeOK'
  BY <1>9 DEF Mark, TypeOK
<1>10. ASSUME NEW d \in Runs, StoreLinks(d) PROVE TypeOK'
  <2>1. savedLinks' \in [Runs -> SUBSET Linked] /\ faults' \in Nat
    BY <1>10 DEF StoreLinks, TypeOK
  <2>2. QED
    BY <1>10, <2>1 DEF StoreLinks, TypeOK
<1>11. ASSUME NEW d \in Runs, NoTemplate(d) PROVE TypeOK'
  BY <1>11 DEF NoTemplate, Fails, TypeOK, Ended, Nobody, InHand, Write, Statements
<1>12. ASSUME NEW d \in Runs, Emit(d) PROVE TypeOK'
  <2>1. outbox' \in [Runs -> [Users -> {"none", "dispatched", "failed"}]]
    BY <1>12 DEF Emit, TypeOK, InHand
  <2>2. hand' \in [Runs -> InHand \cup {Nobody}] /\ hand'[d] = Nobody
    BY <1>12 DEF Emit, TypeOK
  <2>3. pc' = [pc EXCEPT ![d] = hand[d].next] /\ pc'[d] \in {"resolve", "untemplated", "send"}
    BY <1>12 DEF Emit, TypeOK, InHand
  <2>4. QED
    BY <1>12, <2>1, <2>2, <2>3 DEF Emit, TypeOK, Ended
<1>13. ASSUME NEW d \in Runs, CallFails(d) PROVE TypeOK'
  <2>1. outbox' \in [Runs -> [Users -> {"none", "dispatched", "failed"}]]
    <3>1. CASE UNCHANGED outbox
      BY <3>1 DEF TypeOK
    <3>2. CASE pc[d] = "emit" /\ outbox' = [outbox EXCEPT ![d][hand[d].user] = hand[d].event]
      BY <3>2 DEF TypeOK, InHand
    <3>3. QED
      BY <1>13, <3>1, <3>2 DEF CallFails
  <2>2. hand' \in [Runs -> InHand \cup {Nobody}] /\ hand'[d] = Nobody
    BY <1>13 DEF CallFails, TypeOK
  <2>3. writes' \subseteq Statements
    BY <1>13 DEF CallFails, Fails, TypeOK, Write, Statements
  <2>4. QED
    BY <1>13, <2>1, <2>2, <2>3 DEF CallFails, Fails, TypeOK, Ended
<1>14. ASSUME NEW d \in Runs, Finish(d) PROVE TypeOK'
  BY <1>14 DEF Finish, TypeOK, Ended, Nobody, InHand, Write, Statements
<1>15. ASSUME NEW w \in Statements, Apply(w) PROVE TypeOK'
  BY <1>15 DEF Apply, TypeOK
<1>16. ASSUME NEW w \in Statements, Drop(w) PROVE TypeOK'
  BY <1>16 DEF Drop, TypeOK
<1>17. CASE Crash
  BY <1>17 DEF Crash, TypeOK, Ended, Nobody, InHand
<1>18. CASE UNCHANGED vars
  BY <1>18 DEF vars, TypeOK
<1>19. QED
  BY <1>1, <1>2, <1>3, <1>4, <1>5, <1>6, <1>7, <1>8, <1>9, <1>10, <1>11, <1>12, <1>13, <1>14,
     <1>15, <1>16, <1>17, <1>18
     DEF Next, Step, Recipient

\* Every variable keeps its type, and a recipient is in hand exactly while its
\* event is being emitted.
THEOREM TypeCorrect == Spec => []TypeOK
<1>1. ASSUME Init PROVE TypeOK
  <2>1. pc \in [Runs -> {"new"}] /\ hand \in [Runs -> {Nobody}]
    BY <1>1 DEF Init
  <2>2. logs \in [Runs -> [Users -> {"none"}]] /\ outbox \in [Runs -> [Users -> {"none"}]]
    BY <1>1 DEF Init
  <2>3. todo \in [Runs -> SUBSET Users] /\ messages \in [Runs -> SUBSET Users]
        /\ ids \in [Runs -> SUBSET Users] /\ took \in [Runs -> SUBSET Users]
        /\ links \in [Runs -> SUBSET Linked] /\ savedLinks \in [Runs -> SUBSET Linked]
    BY <1>1 DEF Init
  <2>4. QED
    BY <1>1, <2>1, <2>2, <2>3 DEF Init, TypeOK, Ended
<1>2. QED
  BY <1>1, TypeStep, PTL DEF Spec

-----------------------------------------------------------------------------
LEMMA UntoldStep == TypeOK /\ UntoldInv /\ [Next]_vars => UntoldInv'
<1> SUFFICES ASSUME TypeOK, UntoldInv, [Next]_vars, setup' = setup PROVE UntoldInv'
  BY DEF Next, vars
<1>1. ASSUME NEW d \in Runs, Accept(d) PROVE UntoldInv'
  BY <1>1 DEF Accept, UntoldInv, Untold
<1>2. ASSUME NEW d \in Runs, Begin(d) PROVE UntoldInv'
  <2>1. /\ UNCHANGED <<took, outbox, hand>> /\ pc[d] = "begin"
        /\ \A e \in Runs : pc'[e] = pc[e] \/ e = d
        /\ pc'[d] # "emit"
    BY <1>2 DEF Begin, TypeOK
  <2>2. QED
    BY <2>1 DEF UntoldInv, Untold
<1>3. ASSUME NEW d \in Runs, BeginFails(d) PROVE UntoldInv'
  BY <1>3 DEF BeginFails, Fails, UntoldInv, Untold
<1>4. ASSUME NEW d \in Runs, NEW u \in Users, Skip(d, u) PROVE UntoldInv'
  BY <1>4 DEF Skip, Log, UntoldInv, Untold
<1>5. ASSUME NEW d \in Runs, NEW u \in Users, Reject(d, u) PROVE UntoldInv'
  BY <1>5 DEF Reject, Log, Say, Issue, UntoldInv, Untold
<1>6. ASSUME NEW d \in Runs, NEW u \in Users, Prepare(d, u) PROVE UntoldInv'
  BY <1>6 DEF Prepare, Issue, UntoldInv, Untold
<1>7. ASSUME NEW d \in Runs, NEW u \in Users, NEW answer \in Answers, SendEmail(d, u, answer)
      PROVE  UntoldInv'
  BY <1>7 DEF SendEmail, Sent, Log, Say, TypeOK, UntoldInv, Untold
<1>8. ASSUME NEW d \in Runs, NEW u \in Users, NEW answer \in Answers, SendWhatsApp(d, u, answer)
      PROVE  UntoldInv'
  BY <1>8 DEF SendWhatsApp, Sent, Log, Say, Issue, TypeOK, UntoldInv, Untold
<1>9. ASSUME NEW d \in Runs, Mark(d) PROVE UntoldInv'
  BY <1>9 DEF Mark, UntoldInv, Untold
<1>10. ASSUME NEW d \in Runs, StoreLinks(d) PROVE UntoldInv'
  BY <1>10 DEF StoreLinks, UntoldInv, Untold
<1>11. ASSUME NEW d \in Runs, NoTemplate(d) PROVE UntoldInv'
  BY <1>11 DEF NoTemplate, Fails, UntoldInv, Untold
<1>12. ASSUME NEW d \in Runs, Emit(d) PROVE UntoldInv'
  <2>1. hand[d] \in InHand /\ pc[d] = "emit" /\ UNCHANGED took
    BY <1>12 DEF Emit, TypeOK
  <2>2. outbox' = [outbox EXCEPT ![d] = [outbox[d] EXCEPT ![hand[d].user] = hand[d].event]]
    BY <1>12 DEF Emit, TypeOK
  <2>3. /\ outbox'[d] = [outbox[d] EXCEPT ![hand[d].user] = hand[d].event]
        /\ \A e \in Runs : e # d => outbox'[e] = outbox[e] /\ hand'[e] = hand[e] /\ pc'[e] = pc[e]
    BY <1>12, <2>2 DEF Emit, TypeOK
  <2>4. Untold(d)' = {}
    <3>1. SUFFICES ASSUME NEW u \in took[d] PROVE outbox'[d][u] # "none"
      BY <2>1 DEF Untold
    <3>2. CASE u = hand[d].user
      BY <2>1, <2>3, <3>2 DEF InHand, TypeOK
    <3>3. CASE u # hand[d].user
      BY <2>1, <2>3, <3>3 DEF UntoldInv, Untold, TypeOK
    <3>4. QED
      BY <3>2, <3>3
  <2>5. \A e \in Runs : e # d => Untold(e)' = Untold(e)
    BY <2>1, <2>3 DEF Untold
  <2>6. pc'[d] # "emit"
    BY <1>12 DEF Emit, TypeOK, InHand
  <2>7. QED
    BY <2>3, <2>4, <2>5, <2>6 DEF UntoldInv
<1>13. ASSUME NEW d \in Runs, CallFails(d) PROVE UntoldInv'
  BY <1>13 DEF CallFails, Fails, TypeOK, UntoldInv, Untold
<1>14. ASSUME NEW d \in Runs, Finish(d) PROVE UntoldInv'
  BY <1>14 DEF Finish, UntoldInv, Untold
<1>15. ASSUME NEW w \in Statements, Apply(w) PROVE UntoldInv'
  BY <1>15 DEF Apply, UntoldInv, Untold
<1>16. ASSUME NEW w \in Statements, Drop(w) PROVE UntoldInv'
  BY <1>16 DEF Drop, UntoldInv, Untold
<1>17. CASE Crash
  BY <1>17 DEF Crash, TypeOK, UntoldInv, Untold, Ended, Nobody, InHand
<1>18. CASE UNCHANGED vars
  BY <1>18 DEF vars, UntoldInv, Untold
<1>19. QED
  BY <1>1, <1>2, <1>3, <1>4, <1>5, <1>6, <1>7, <1>8, <1>9, <1>10, <1>11, <1>12, <1>13, <1>14,
     <1>15, <1>16, <1>17, <1>18
     DEF Next, Step, Recipient

LEMMA UntoldAlways == Spec => []UntoldInv
<1>1. Init => UntoldInv
  BY DEF Init, UntoldInv, Untold
<1>2. QED
  BY <1>1, UntoldStep, TypeCorrect, PTL DEF Spec

\* Whatever throws or crashes, at most one recipient of a run was sent a message
\* that no event tells of.
THEOREM UntoldCorrect == Spec => []AtMostOneUntold
<1>1. UntoldInv => AtMostOneUntold
  <2> SUFFICES ASSUME UntoldInv, NEW d \in Runs PROVE Cardinality(Untold(d)) <= 1
    BY DEF AtMostOneUntold, Untold
  <2>1. CASE Untold(d) = {}
    BY <2>1, FS_EmptySet
  <2>2. ASSUME NEW u \in Untold(d) PROVE Cardinality(Untold(d)) <= 1
    <3>1. Untold(d) = {u}
      BY DEF UntoldInv
    <3>2. Cardinality({u}) = 1
      BY FS_Singleton
    <3>3. QED
      BY <3>1, <3>2
  <2>3. QED
    BY <2>1, <2>2
<1>2. QED
  BY <1>1, UntoldAlways, PTL

-----------------------------------------------------------------------------
LEMMA AccountStep == TypeOK /\ AccountInv /\ [Next]_vars => AccountInv'
<1> SUFFICES ASSUME TypeOK, AccountInv, [Next]_vars, setup' = setup PROVE AccountInv'
  BY DEF Next, vars
<1>1. ASSUME NEW d \in Runs, Accept(d) PROVE AccountInv'
  BY <1>1 DEF Accept, AccountInv, Resolved, Email, DevMode
<1>2. ASSUME NEW d \in Runs, Begin(d) PROVE AccountInv'
  BY <1>2 DEF Begin, TypeOK, AccountInv, Resolved, Email, DevMode, InHand
<1>3. ASSUME NEW d \in Runs, BeginFails(d) PROVE AccountInv'
  BY <1>3 DEF BeginFails, Fails, AccountInv, Resolved, Email, DevMode
<1>4. ASSUME NEW d \in Runs, NEW u \in Users, Skip(d, u) PROVE AccountInv'
  BY <1>4 DEF Skip, Log, TypeOK, AccountInv, Resolved, Email, DevMode
<1>5. ASSUME NEW d \in Runs, NEW u \in Users, Reject(d, u) PROVE AccountInv'
  BY <1>5 DEF Reject, Log, Say, Issue, TypeOK, AccountInv, Resolved, Email, DevMode
<1>6. ASSUME NEW d \in Runs, NEW u \in Users, Prepare(d, u) PROVE AccountInv'
  BY <1>6 DEF Prepare, Issue, TypeOK, AccountInv, Resolved, Email, DevMode
<1>7. ASSUME NEW d \in Runs, NEW u \in Users, NEW answer \in Answers, SendEmail(d, u, answer)
      PROVE  AccountInv'
  BY <1>7 DEF SendEmail, Sent, Log, Say, TypeOK, AccountInv, Resolved, Email, DevMode
<1>8. ASSUME NEW d \in Runs, NEW u \in Users, NEW answer \in Answers, SendWhatsApp(d, u, answer)
      PROVE  AccountInv'
  BY <1>8 DEF SendWhatsApp, Sent, Log, Say, Issue, TypeOK, AccountInv, Resolved, Email, DevMode
<1>9. ASSUME NEW d \in Runs, Mark(d) PROVE AccountInv'
  BY <1>9 DEF Mark, AccountInv, Resolved, Email, DevMode
<1>10. ASSUME NEW d \in Runs, StoreLinks(d) PROVE AccountInv'
  BY <1>10 DEF StoreLinks, AccountInv, Resolved, Email, DevMode
<1>11. ASSUME NEW d \in Runs, NoTemplate(d) PROVE AccountInv'
  BY <1>11 DEF NoTemplate, Fails, AccountInv, Resolved, Email, DevMode
<1>12. ASSUME NEW d \in Runs, Emit(d) PROVE AccountInv'
  BY <1>12 DEF Emit, TypeOK, AccountInv, Resolved, Email, DevMode, Nobody, InHand
<1>13. ASSUME NEW d \in Runs, CallFails(d) PROVE AccountInv'
  BY <1>13 DEF CallFails, Fails, AccountInv, Resolved, Email, DevMode, Nobody
<1>14. ASSUME NEW d \in Runs, Finish(d) PROVE AccountInv'
  BY <1>14 DEF Finish, AccountInv, Resolved, Email, DevMode
<1>15. ASSUME NEW w \in Statements, Apply(w) PROVE AccountInv'
  BY <1>15 DEF Apply, AccountInv, Resolved, Email, DevMode
<1>16. ASSUME NEW w \in Statements, Drop(w) PROVE AccountInv'
  BY <1>16 DEF Drop, AccountInv, Resolved, Email, DevMode
<1>17. CASE Crash
  BY <1>17 DEF Crash, AccountInv, Resolved, Email, DevMode, Nobody
<1>18. CASE UNCHANGED vars
  BY <1>18 DEF vars, AccountInv, Resolved, Email, DevMode
<1>19. QED
  BY <1>1, <1>2, <1>3, <1>4, <1>5, <1>6, <1>7, <1>8, <1>9, <1>10, <1>11, <1>12, <1>13, <1>14,
     <1>15, <1>16, <1>17, <1>18
     DEF Next, Step, Recipient

LEMMA AccountAlways == Spec => []AccountInv
<1>1. Init => AccountInv
  BY DEF Init, AccountInv, Resolved
<1>2. QED
  BY <1>1, AccountStep, TypeCorrect, PTL DEF Spec

\* A completed run accounts for everybody: each recipient has a log entry, which
\* says sent if a provider accepted the message, and then an event tells of it.
THEOREM AccountsCorrect == Spec => []CompletedAccountsForAll
<1>1. AccountInv /\ UntoldInv => CompletedAccountsForAll
  BY DEF AccountInv, UntoldInv, Untold, CompletedAccountsForAll
<1>2. QED
  BY <1>1, AccountAlways, UntoldAlways, PTL

-----------------------------------------------------------------------------
LEMMA LinksStep == TypeOK /\ AccountInv /\ LinksInv /\ [Next]_vars => LinksInv'
<1> SUFFICES ASSUME TypeOK, AccountInv, LinksInv, [Next]_vars, setup' = setup PROVE LinksInv'
  BY DEF Next, vars
<1>1. ASSUME NEW d \in Runs, Accept(d) PROVE LinksInv'
  BY <1>1 DEF Accept, AccountInv, LinksInv, Resolved, Email
<1>2. ASSUME NEW d \in Runs, Begin(d) PROVE LinksInv'
  <2>1. /\ UNCHANGED <<messages, took, links, savedLinks, faults, hand>> /\ pc[d] = "begin"
        /\ \A e \in Runs : pc'[e] = pc[e] \/ e = d
        /\ pc'[d] \in {"done", "resolve", "untemplated"}
    BY <1>2 DEF Begin, TypeOK
  <2>2. faults = 0 => (Email(d) => took[d] = {}) /\ links[d] = {} /\ savedLinks[d] = {}
    BY <2>1 DEF LinksInv, Resolved
  <2>3. QED
    BY <2>1, <2>2 DEF LinksInv, Resolved, Email
<1>3. ASSUME NEW d \in Runs, BeginFails(d) PROVE LinksInv'
  BY <1>3 DEF BeginFails, Fails, AccountInv, LinksInv, Resolved, Email
<1>4. ASSUME NEW d \in Runs, NEW u \in Users, Skip(d, u) PROVE LinksInv'
  BY <1>4 DEF Skip, Log, AccountInv, LinksInv, Resolved, Email
<1>5. ASSUME NEW d \in Runs, NEW u \in Users, Reject(d, u) PROVE LinksInv'
  BY <1>5 DEF Reject, Log, Say, Issue, TypeOK, AccountInv, LinksInv, Resolved, Email
<1>6. ASSUME NEW d \in Runs, NEW u \in Users, Prepare(d, u) PROVE LinksInv'
  BY <1>6 DEF Prepare, Issue, TypeOK, AccountInv, LinksInv, Resolved, Email
<1>7. ASSUME NEW d \in Runs, NEW u \in Users, NEW answer \in Answers, SendEmail(d, u, answer)
      PROVE  LinksInv'
  BY <1>7 DEF SendEmail, Sent, Log, Say, TypeOK, AccountInv, LinksInv, Resolved, Email
<1>8. ASSUME NEW d \in Runs, NEW u \in Users, NEW answer \in Answers, SendWhatsApp(d, u, answer)
      PROVE  LinksInv'
  BY <1>8 DEF SendWhatsApp, Sent, Log, Say, Issue, TypeOK, AccountInv, LinksInv, Resolved, Email
<1>9. ASSUME NEW d \in Runs, Mark(d) PROVE LinksInv'
  BY <1>9 DEF Mark, AccountInv, LinksInv, Resolved, Email
<1>10. ASSUME NEW d \in Runs, StoreLinks(d) PROVE LinksInv'
  BY <1>10 DEF StoreLinks, TypeOK, AccountInv, LinksInv, Resolved, Email
<1>11. ASSUME NEW d \in Runs, NoTemplate(d) PROVE LinksInv'
  BY <1>11 DEF NoTemplate, Fails, AccountInv, LinksInv, Resolved, Email
<1>12. ASSUME NEW d \in Runs, Emit(d) PROVE LinksInv'
  <2>1. /\ UNCHANGED <<messages, took, links, savedLinks, faults>> /\ pc[d] = "emit"
        /\ \A e \in Runs : e # d => pc'[e] = pc[e] /\ hand'[e] = hand[e]
    BY <1>12 DEF Emit, TypeOK
  <2>2. pc'[d] = hand[d].next /\ hand[d].next \in {"resolve", "untemplated", "send"}
    BY <1>12 DEF Emit, TypeOK, InHand
  <2>3. \A e \in Runs : Resolved(e)' <=> Resolved(e)
    BY <2>1, <2>2 DEF Resolved
  <2>4. QED
    BY <2>1, <2>2, <2>3 DEF LinksInv, Email
<1>13. ASSUME NEW d \in Runs, CallFails(d) PROVE LinksInv'
  BY <1>13 DEF CallFails, Fails, TypeOK, AccountInv, LinksInv
<1>14. ASSUME NEW d \in Runs, Finish(d) PROVE LinksInv'
  BY <1>14 DEF Finish, AccountInv, LinksInv, Resolved, Email
<1>15. ASSUME NEW w \in Statements, Apply(w) PROVE LinksInv'
  BY <1>15 DEF Apply, AccountInv, LinksInv, Resolved, Email
<1>16. ASSUME NEW w \in Statements, Drop(w) PROVE LinksInv'
  BY <1>16 DEF Drop, TypeOK, AccountInv, LinksInv
<1>17. CASE Crash
  BY <1>17 DEF Crash, TypeOK, AccountInv, LinksInv
<1>18. CASE UNCHANGED vars
  BY <1>18 DEF vars, AccountInv, LinksInv, Resolved, Email
<1>19. QED
  BY <1>1, <1>2, <1>3, <1>4, <1>5, <1>6, <1>7, <1>8, <1>9, <1>10, <1>11, <1>12, <1>13, <1>14,
     <1>15, <1>16, <1>17, <1>18
     DEF Next, Step, Recipient

LEMMA LinksAlways == Spec => []LinksInv
<1>1. Init => LinksInv
  BY DEF Init, LinksInv, Resolved
<1>2. QED
  BY <1>1, LinksStep, AccountAlways, TypeCorrect, PTL DEF Spec

\* An email carries no onsite link the redeem endpoint does not know, and those
\* of a completed WhatsApp run are known too, unless a database call failed.
THEOREM LinksCorrect == Spec => []LinksAreKnown
<1>1. TypeOK /\ LinksInv => LinksAreKnown
  BY DEF TypeOK, LinksInv, LinksAreKnown
<1>2. QED
  BY <1>1, LinksAlways, TypeCorrect, PTL

-----------------------------------------------------------------------------
\* A step that opens no run and gives none the message.
LEMMA DevKept ==
  ASSUME DevInv, setup' = setup, overlap => overlap',
         \A e \in Runs : Open(e)' => Open(e),
         DevMode /\ ~overlap => \A e \in Runs : Sender(e)' => Sender(e),
         DevMode /\ ~overlap => \A e \in Runs : Email(e) /\ took'[e] # {} => devSent',
         DevMode /\ ~overlap => \A e \in Runs : Sender(e)' => devSent' \/ pc'[e] = "mark"
  PROVE  DevInv'
BY DEF DevInv, DevMode, Email

LEMMA DevStep == TypeOK /\ AccountInv /\ DevInv /\ [Next]_vars => DevInv'
<1> SUFFICES ASSUME TypeOK, AccountInv, DevInv, [Next]_vars, setup' = setup PROVE DevInv'
  BY DEF Next, vars
<1>1. ASSUME NEW d \in Runs, Accept(d) PROVE DevInv'
  <2>1. \A e \in Runs : Open(e)' => Open(e)
    BY <1>1 DEF Accept, Open, Email
  <2>2. \A e \in Runs : Sender(e)' => Sender(e)
    BY <1>1 DEF Accept, Sender, Email, TypeOK, Ended, InHand
  <2>3. DevMode /\ ~overlap => \A e \in Runs : Email(e) /\ took'[e] # {} => devSent'
    BY <1>1 DEF Accept, DevInv
  <2>4. DevMode /\ ~overlap => \A e \in Runs : Sender(e)' => devSent' \/ pc'[e] = "mark"
    BY <1>1 DEF Accept, DevInv, Sender, Email, TypeOK, Ended, InHand
  <2>5. QED
    BY <1>1, <2>1, <2>2, <2>3, <2>4, DevKept DEF Accept
<1>2. ASSUME NEW d \in Runs, Begin(d) PROVE DevInv'
  <2>1. /\ UNCHANGED <<messages, took, devSent, hand>> /\ pc[d] = "begin"
        /\ (overlap => overlap')
        /\ \A e \in Runs : e # d => pc'[e] = pc[e]
        /\ pc'[d] \in {"done", "resolve", "untemplated"}
    BY <1>2 DEF Begin, TypeOK
  <2>2. \A e \in Runs : e # d => (Open(e)' <=> Open(e)) /\ (Sender(e)' <=> Sender(e))
    BY <2>1 DEF Open, Sender, Email
  <2>3. Sender(d)' => Sender(d)
    BY <2>1 DEF Sender, Email, Ended
  <2>4. CASE DevMode /\ Email(d) /\ ~devSent /\ ~overlap'
    <3>1. \A e \in Runs : e # d => ~Open(e) /\ pc[e] # "mark"
      BY <1>2, <2>4 DEF Begin, Open
    <3>2. \A e \in Runs : ~Sender(e)
      BY <2>1, <2>4, <3>1 DEF DevInv
    <3>3. QED
      BY <2>1, <2>2, <2>3, <3>1, <3>2 DEF DevInv, DevMode, Email
  <2>5. CASE ~Email(d)
    <3>1. ~Open(d)' /\ ~Open(d)
      BY <2>5 DEF Open, Email
    <3>2. QED
      BY <2>1, <2>2, <2>3, <2>5, <3>1 DEF DevInv, DevMode, Email
  <2>6. CASE DevMode /\ Email(d) /\ devSent
    <3>1. ~Open(d)'
      BY <1>2, <2>6 DEF Begin, Open, TypeOK
    <3>2. QED
      BY <2>1, <2>2, <2>3, <2>6, <3>1 DEF DevInv, DevMode, Email
  <2>7. CASE ~DevMode \/ overlap'
    BY <2>7 DEF DevInv, DevMode
  <2>8. QED
    BY <2>4, <2>5, <2>6, <2>7
<1>3. ASSUME NEW d \in Runs, BeginFails(d) PROVE DevInv'
  <2>1. \A e \in Runs : Open(e)' => Open(e)
    BY <1>3 DEF BeginFails, Fails, Open, Email
  <2>2. \A e \in Runs : Sender(e)' => Sender(e)
    BY <1>3 DEF BeginFails, Fails, Sender, Email, TypeOK, Ended, InHand, Write, Statements
  <2>3. DevMode /\ ~overlap => \A e \in Runs : Email(e) /\ took'[e] # {} => devSent'
    BY <1>3 DEF BeginFails, Fails, DevInv
  <2>4. DevMode /\ ~overlap => \A e \in Runs : Sender(e)' => devSent' \/ pc'[e] = "mark"
    BY <1>3 DEF BeginFails, Fails, DevInv, Sender, Email, TypeOK, Ended, InHand, Write, Statements
  <2>5. QED
    BY <1>3, <2>1, <2>2, <2>3, <2>4, DevKept DEF BeginFails, Fails
<1>4. ASSUME NEW d \in Runs, NEW u \in Users, Skip(d, u) PROVE DevInv'
  <2>1. \A e \in Runs : Open(e)' => Open(e)
    BY <1>4 DEF Skip, Log, Open, Email
  <2>2. \A e \in Runs : Sender(e)' => Sender(e)
    BY <1>4 DEF Skip, Log, Sender, Email
  <2>3. DevMode /\ ~overlap => \A e \in Runs : Email(e) /\ took'[e] # {} => devSent'
    BY <1>4 DEF Skip, Log, DevInv
  <2>4. DevMode /\ ~overlap => \A e \in Runs : Sender(e)' => devSent' \/ pc'[e] = "mark"
    BY <1>4 DEF Skip, Log, DevInv, Sender, Email
  <2>5. QED
    BY <1>4, <2>1, <2>2, <2>3, <2>4, DevKept DEF Skip, Log
<1>5. ASSUME NEW d \in Runs, NEW u \in Users, Reject(d, u) PROVE DevInv'
  <2>1. \A e \in Runs : Open(e)' => Open(e)
    BY <1>5 DEF Reject, Log, Say, Issue, Open, Email, TypeOK
  <2>2. \A e \in Runs : Sender(e)' => Sender(e)
    BY <1>5 DEF Reject, Log, Say, Issue, Sender, Email, TypeOK, Ended, InHand
  <2>3. DevMode /\ ~overlap => \A e \in Runs : Email(e) /\ took'[e] # {} => devSent'
    BY <1>5 DEF Reject, Log, Say, Issue, DevInv
  <2>4. DevMode /\ ~overlap => \A e \in Runs : Sender(e)' => devSent' \/ pc'[e] = "mark"
    BY <1>5 DEF Reject, Log, Say, Issue, DevInv, Sender, Email, TypeOK, Ended, InHand
  <2>5. QED
    BY <1>5, <2>1, <2>2, <2>3, <2>4, DevKept DEF Reject, Log, Say, Issue
<1>6. ASSUME NEW d \in Runs, NEW u \in Users, Prepare(d, u) PROVE DevInv'
  <2>1. /\ UNCHANGED <<took, devSent, overlap, hand>> /\ pc[d] = "resolve" /\ Email(d)
        /\ \A e \in Runs : e # d => pc'[e] = pc[e] /\ messages'[e] = messages[e]
        /\ DevMode => pc'[d] = "mark"
    BY <1>6 DEF Prepare, TypeOK
  <2>2. Open(d) /\ \A e \in Runs : e # d => (Open(e)' <=> Open(e)) /\ (Sender(e)' <=> Sender(e))
    BY <2>1 DEF Open, Sender, Email
  <2>3. QED
    BY <2>1, <2>2 DEF DevInv, DevMode, Email
<1>7. ASSUME NEW d \in Runs, NEW u \in Users, NEW answer \in Answers, SendEmail(d, u, answer)
      PROVE  DevInv'
  <2>1. \A e \in Runs : Open(e)' => Open(e)
    BY <1>7 DEF SendEmail, Sent, Log, Say, Open, Email, TypeOK
  <2>2. \A e \in Runs : Sender(e)' => Sender(e)
    BY <1>7 DEF SendEmail, Sent, Log, Say, Sender, Email, TypeOK, Ended, InHand
  <2>3. DevMode /\ ~overlap => \A e \in Runs : Email(e) /\ took'[e] # {} => devSent'
    BY <1>7 DEF SendEmail, Sent, Log, Say, DevInv, Sender, Email, TypeOK, Ended
  <2>4. DevMode /\ ~overlap => \A e \in Runs : Sender(e)' => devSent' \/ pc'[e] = "mark"
    BY <1>7 DEF SendEmail, Sent, Log, Say, DevInv, Sender, Email, TypeOK, Ended, InHand
  <2>5. QED
    BY <1>7, <2>1, <2>2, <2>3, <2>4, DevKept DEF SendEmail, Sent, Log, Say
<1>8. ASSUME NEW d \in Runs, NEW u \in Users, NEW answer \in Answers, SendWhatsApp(d, u, answer)
      PROVE  DevInv'
  <2>1. \A e \in Runs : Open(e)' => Open(e)
    BY <1>8 DEF SendWhatsApp, Sent, Log, Say, Issue, Open, Email
  <2>2. \A e \in Runs : Sender(e)' => Sender(e)
    BY <1>8 DEF SendWhatsApp, Sent, Log, Say, Issue, Sender, Email
  <2>3. DevMode /\ ~overlap => \A e \in Runs : Email(e) /\ took'[e] # {} => devSent'
    BY <1>8 DEF SendWhatsApp, Sent, Log, Say, Issue, DevInv
  <2>4. DevMode /\ ~overlap => \A e \in Runs : Sender(e)' => devSent' \/ pc'[e] = "mark"
    BY <1>8 DEF SendWhatsApp, Sent, Log, Say, Issue, DevInv, Sender, Email
  <2>5. QED
    BY <1>8, <2>1, <2>2, <2>3, <2>4, DevKept DEF SendWhatsApp, Sent, Log, Say, Issue
<1>9. ASSUME NEW d \in Runs, Mark(d) PROVE DevInv'
  <2>1. \A e \in Runs : Open(e)' => Open(e)
    BY <1>9 DEF Mark, Open, Email
  <2>2. \A e \in Runs : Sender(e)' => Sender(e)
    BY <1>9 DEF Mark, Sender, Email, TypeOK, Ended, InHand
  <2>3. DevMode /\ ~overlap => \A e \in Runs : Email(e) /\ took'[e] # {} => devSent'
    BY <1>9 DEF Mark, DevInv
  <2>4. DevMode /\ ~overlap => \A e \in Runs : Sender(e)' => devSent' \/ pc'[e] = "mark"
    BY <1>9 DEF Mark, DevInv
  <2>5. QED
    BY <1>9, <2>1, <2>2, <2>3, <2>4, DevKept DEF Mark
<1>10. ASSUME NEW d \in Runs, StoreLinks(d) PROVE DevInv'
  <2>1. \A e \in Runs : Open(e)' => Open(e)
    BY <1>10 DEF StoreLinks, Open, Email
  <2>2. \A e \in Runs : Sender(e)' => Sender(e)
    BY <1>10 DEF StoreLinks, Sender, Email, TypeOK, Ended, InHand
  <2>3. DevMode /\ ~overlap => \A e \in Runs : Email(e) /\ took'[e] # {} => devSent'
    BY <1>10 DEF StoreLinks, DevInv
  <2>4. DevMode /\ ~overlap => \A e \in Runs : Sender(e)' => devSent' \/ pc'[e] = "mark"
    BY <1>10 DEF StoreLinks, DevInv, Sender, Email, TypeOK, Ended, InHand
  <2>5. QED
    BY <1>10, <2>1, <2>2, <2>3, <2>4, DevKept DEF StoreLinks
<1>11. ASSUME NEW d \in Runs, NoTemplate(d) PROVE DevInv'
  <2>1. \A e \in Runs : Open(e)' => Open(e)
    BY <1>11 DEF NoTemplate, Fails, Open, Email
  <2>2. \A e \in Runs : Sender(e)' => Sender(e)
    BY <1>11 DEF NoTemplate, Fails, Sender, Email, TypeOK, Ended, InHand, Write, Statements
  <2>3. DevMode /\ ~overlap => \A e \in Runs : Email(e) /\ took'[e] # {} => devSent'
    BY <1>11 DEF NoTemplate, Fails, DevInv
  <2>4. DevMode /\ ~overlap => \A e \in Runs : Sender(e)' => devSent' \/ pc'[e] = "mark"
    BY <1>11 DEF NoTemplate, Fails, DevInv, Sender, Email, TypeOK, Ended, InHand, Write, Statements
  <2>5. QED
    BY <1>11, <2>1, <2>2, <2>3, <2>4, DevKept DEF NoTemplate, Fails
<1>12. ASSUME NEW d \in Runs, Emit(d) PROVE DevInv'
  <2>1. \A e \in Runs : Open(e)' => Open(e)
    BY <1>12 DEF Emit, Open, Email, TypeOK, InHand
  <2>2. \A e \in Runs : Sender(e)' => Sender(e)
    BY <1>12 DEF Emit, Sender, Email, TypeOK, Ended, InHand
  <2>3. DevMode /\ ~overlap => \A e \in Runs : Email(e) /\ took'[e] # {} => devSent'
    BY <1>12 DEF Emit, DevInv
  <2>4. DevMode /\ ~overlap => \A e \in Runs : Sender(e)' => devSent' \/ pc'[e] = "mark"
    BY <1>12 DEF Emit, DevInv, Sender, Email, TypeOK, Ended, InHand
  <2>5. QED
    BY <1>12, <2>1, <2>2, <2>3, <2>4, DevKept DEF Emit
<1>13. ASSUME NEW d \in Runs, CallFails(d) PROVE DevInv'
  <2>1. \A e \in Runs : Open(e)' => Open(e)
    BY <1>13 DEF CallFails, Fails, Open, Email, TypeOK
  <2>2. \A e \in Runs : Sender(e)' => Sender(e)
    BY <1>13 DEF CallFails, Fails, Sender, Email, TypeOK, Ended, InHand
  <2>3. DevMode /\ ~overlap => \A e \in Runs : Email(e) /\ took'[e] # {} => devSent'
    BY <1>13 DEF CallFails, Fails, DevInv
  <2>4. DevMode /\ ~overlap => \A e \in Runs : Sender(e)' => devSent' \/ pc'[e] = "mark"
    BY <1>13 DEF CallFails, Fails, DevInv, Sender, Email, TypeOK, Ended, InHand
  <2>5. QED
    BY <1>13, <2>1, <2>2, <2>3, <2>4, DevKept DEF CallFails, Fails
<1>14. ASSUME NEW d \in Runs, Finish(d) PROVE DevInv'
  <2>1. \A e \in Runs : Open(e)' => Open(e)
    BY <1>14 DEF Finish, Open, Email
  <2>2. \A e \in Runs : Sender(e)' => Sender(e)
    BY <1>14 DEF Finish, Sender, Email
  <2>3. DevMode /\ ~overlap => \A e \in Runs : Email(e) /\ took'[e] # {} => devSent'
    BY <1>14 DEF Finish, DevInv
  <2>4. DevMode /\ ~overlap => \A e \in Runs : Sender(e)' => devSent' \/ pc'[e] = "mark"
    BY <1>14 DEF Finish, DevInv, Sender, Email
  <2>5. QED
    BY <1>14, <2>1, <2>2, <2>3, <2>4, DevKept DEF Finish
<1>15. ASSUME NEW w \in Statements, Apply(w) PROVE DevInv'
  <2>1. \A e \in Runs : Open(e)' => Open(e)
    BY <1>15 DEF Apply, Open, Email
  <2>2. \A e \in Runs : Sender(e)' => Sender(e)
    BY <1>15 DEF Apply, Sender, Email
  <2>3. DevMode /\ ~overlap => \A e \in Runs : Email(e) /\ took'[e] # {} => devSent'
    BY <1>15 DEF Apply, DevInv
  <2>4. DevMode /\ ~overlap => \A e \in Runs : Sender(e)' => devSent' \/ pc'[e] = "mark"
    BY <1>15 DEF Apply, DevInv, Sender, Email
  <2>5. QED
    BY <1>15, <2>1, <2>2, <2>3, <2>4, DevKept DEF Apply
<1>16. ASSUME NEW w \in Statements, Drop(w) PROVE DevInv'
  <2>1. \A e \in Runs : Open(e)' => Open(e)
    BY <1>16 DEF Drop, Open, Email
  <2>2. \A e \in Runs : Sender(e)' => Sender(e)
    BY <1>16 DEF Drop, Sender, Email
  <2>3. DevMode /\ ~overlap => \A e \in Runs : Email(e) /\ took'[e] # {} => devSent'
    BY <1>16 DEF Drop, DevInv
  <2>4. DevMode /\ ~overlap => \A e \in Runs : Sender(e)' => devSent' \/ pc'[e] = "mark"
    BY <1>16 DEF Drop, DevInv, Sender, Email
  <2>5. QED
    BY <1>16, <2>1, <2>2, <2>3, <2>4, DevKept DEF Drop
<1>17. CASE Crash
  <2>1. \A e \in Runs : Open(e)' => Open(e)
    <3>1. SUFFICES ASSUME NEW e \in Runs, Open(e)' PROVE Open(e)
      OBVIOUS
    <3>2. pc'[e] \in {"resolve", "mark", "emit"}
      BY <3>1 DEF Open
    <3>3. pc[e] = pc'[e]
      BY <1>17, <3>2 DEF Crash
    <3>4. pc'[e] # "emit"
      BY <1>17, <3>2, <3>3 DEF Crash, Ended
    <3>5. QED
      BY <3>1, <3>2, <3>3, <3>4 DEF Open, Email
  <2>2. \A e \in Runs : Sender(e)' => Sender(e)
    BY <1>17 DEF Crash, Sender, Email
  <2>3. DevMode /\ ~overlap => \A e \in Runs : Email(e) /\ took'[e] # {} => devSent'
    BY <1>17 DEF Crash, DevInv
  <2>4. DevMode /\ ~overlap => \A e \in Runs : Sender(e)' => devSent' \/ pc'[e] = "mark"
    BY <1>17 DEF Crash, DevInv, Sender, Email, TypeOK, Ended, InHand
  <2>5. QED
    BY <1>17, <2>1, <2>2, <2>3, <2>4, DevKept DEF Crash
<1>18. CASE UNCHANGED vars
  BY <1>18 DEF vars, AccountInv, DevInv, Open, Sender, Email, DevMode
<1>19. QED
  BY <1>1, <1>2, <1>3, <1>4, <1>5, <1>6, <1>7, <1>8, <1>9, <1>10, <1>11, <1>12, <1>13, <1>14,
     <1>15, <1>16, <1>17, <1>18
     DEF Next, Step, Recipient

LEMMA DevAlways == Spec => []DevInv
<1>1. Init => DevInv
  BY DEF Init, DevInv, Open, Sender
<1>2. QED
  BY <1>1, DevStep, AccountAlways, TypeCorrect, PTL DEF Spec

\* In development a campaign is mailed more than once only if a second delivery
\* of it passed the check before the first was marked.
THEOREM DevCorrect == Spec => []DevRepeatsOnlyIfOverlapping
<1>1. DevInv => DevRepeatsOnlyIfOverlapping
  <2> DEFINE S == {d \in Runs : Email(d) /\ took[d] # {}}
  <2> SUFFICES ASSUME DevInv, DevMode, ~overlap PROVE ~(Cardinality(S) > 1)
    BY DEF DevRepeatsOnlyIfOverlapping
  <2>1. \A d, e \in S : d = e
    BY DEF DevInv, Sender
  <2>2. CASE S = {}
    BY <2>2, FS_EmptySet
  <2>3. ASSUME NEW d \in S PROVE ~(Cardinality(S) > 1)
    <3>1. S = {d}
      BY <2>1
    <3>2. Cardinality({d}) = 1
      BY FS_Singleton
    <3>3. QED
      BY <3>1, <3>2
  <2>4. QED
    BY <2>2, <2>3
<1>2. QED
  BY <1>1, DevAlways, PTL

-----------------------------------------------------------------------------
\* A step that writes no row: a run that ends gives its last word, and nobody
\* gives an ended run a first one.
LEMMA FlightKept ==
  ASSUME FlightInv, setup' = setup, faults' = 0 => faults = 0, row' = row, writes \subseteq writes',
         \A e \in Runs : pc'[e] # "lost" \/ pc[e] = "lost",
         \A e \in Runs : pc'[e] \in {"done", "failed"} =>
           \/ pc[e] \in {"done", "failed"}
              /\ (Write(e, "accepted") \in writes' => Write(e, "accepted") \in writes)
           \/ {Write(e, "completed"), Write(e, "failed")} \cap writes' # {}
  PROVE  FlightInv'
BY DEF FlightInv, Pooled

LEMMA FlightStep == TypeOK /\ FlightInv /\ [Next]_vars => FlightInv'
<1> SUFFICES ASSUME TypeOK, FlightInv, [Next]_vars, setup' = setup PROVE FlightInv'
  BY DEF Next, vars
<1>1. ASSUME NEW d \in Runs, Accept(d) PROVE FlightInv'
  BY <1>1 DEF Accept, TypeOK, FlightInv, Pooled, Write
<1>2. ASSUME NEW d \in Runs, Begin(d) PROVE FlightInv'
  <2>1. writes \subseteq writes' /\ row' = row /\ faults' = faults
    BY <1>2 DEF Begin
  <2>2. \A e \in Runs : e # d => pc'[e] = pc[e]
    BY <1>2 DEF Begin, TypeOK
  <2>3. pc'[d] # "lost" /\ pc'[d] # "failed"
    BY <1>2 DEF Begin, TypeOK
  <2>4. pc'[d] = "done" => Write(d, "completed") \in writes'
    <3>1. CASE DevMode /\ Email(d) /\ devSent
      BY <1>2, <3>1 DEF Begin
    <3>2. CASE ~(DevMode /\ Email(d) /\ devSent)
      BY <1>2, <3>2 DEF Begin, TypeOK
    <3>3. QED
      BY <3>1, <3>2
  <2>5. \A e \in Runs : e # d => (Write(e, "accepted") \in writes' => Write(e, "accepted") \in writes)
    BY <1>2 DEF Begin, Write
  <2>6. QED
    BY <2>1, <2>2, <2>3, <2>4, <2>5, FlightKept
<1>3. ASSUME NEW d \in Runs, BeginFails(d) PROVE FlightInv'
  BY <1>3 DEF BeginFails, Fails, TypeOK, FlightInv, Pooled, Write, Write, Statements
<1>4. ASSUME NEW d \in Runs, NEW u \in Users, Skip(d, u) PROVE FlightInv'
  BY <1>4 DEF Skip, Log, FlightInv, Pooled
<1>5. ASSUME NEW d \in Runs, NEW u \in Users, Reject(d, u) PROVE FlightInv'
  BY <1>5 DEF Reject, Log, Say, Issue, TypeOK, FlightInv, Pooled
<1>6. ASSUME NEW d \in Runs, NEW u \in Users, Prepare(d, u) PROVE FlightInv'
  BY <1>6 DEF Prepare, Issue, TypeOK, FlightInv, Pooled
<1>7. ASSUME NEW d \in Runs, NEW u \in Users, NEW answer \in Answers, SendEmail(d, u, answer)
      PROVE  FlightInv'
  BY <1>7 DEF SendEmail, Sent, Log, Say, TypeOK, FlightInv, Pooled
<1>8. ASSUME NEW d \in Runs, NEW u \in Users, NEW answer \in Answers, SendWhatsApp(d, u, answer)
      PROVE  FlightInv'
  BY <1>8 DEF SendWhatsApp, Sent, Log, Say, Issue, TypeOK, FlightInv, Pooled
<1>9. ASSUME NEW d \in Runs, Mark(d) PROVE FlightInv'
  BY <1>9 DEF Mark, TypeOK, FlightInv, Pooled
<1>10. ASSUME NEW d \in Runs, StoreLinks(d) PROVE FlightInv'
  <2>1. writes \subseteq writes' /\ row' = row /\ (faults' = 0 => faults = 0)
    BY <1>10 DEF StoreLinks, TypeOK
  <2>2. \A e \in Runs : pc'[e] # "lost" \/ pc[e] = "lost"
    BY <1>10 DEF StoreLinks, TypeOK, InHand
  <2>3. \A e \in Runs : pc'[e] \in {"done", "failed"} =>
          \/ pc[e] \in {"done", "failed"}
             /\ (Write(e, "accepted") \in writes' => Write(e, "accepted") \in writes)
          \/ {Write(e, "completed"), Write(e, "failed")} \cap writes' # {}
    BY <1>10 DEF StoreLinks, InHand, Write
  <2>4. QED
    BY <2>1, <2>2, <2>3, FlightKept
<1>11. ASSUME NEW d \in Runs, NoTemplate(d) PROVE FlightInv'
  BY <1>11 DEF NoTemplate, Fails, TypeOK, FlightInv, Pooled, Write, Write, Statements
<1>12. ASSUME NEW d \in Runs, Emit(d) PROVE FlightInv'
  <2>1. writes \subseteq writes' /\ row' = row /\ (faults' = 0 => faults = 0)
    BY <1>12 DEF Emit, TypeOK
  <2>2. \A e \in Runs : pc'[e] # "lost" \/ pc[e] = "lost"
    BY <1>12 DEF Emit, TypeOK, InHand
  <2>3. \A e \in Runs : pc'[e] \in {"done", "failed"} =>
          \/ pc[e] \in {"done", "failed"}
             /\ (Write(e, "accepted") \in writes' => Write(e, "accepted") \in writes)
          \/ {Write(e, "completed"), Write(e, "failed")} \cap writes' # {}
    BY <1>12 DEF Emit, TypeOK, InHand
  <2>4. QED
    BY <2>1, <2>2, <2>3, FlightKept
<1>13. ASSUME NEW d \in Runs, CallFails(d) PROVE FlightInv'
  <2>1. faults' # 0
    BY <1>13 DEF CallFails, TypeOK
  <2>2. QED
    BY <2>1 DEF FlightInv
<1>14. ASSUME NEW d \in Runs, Finish(d) PROVE FlightInv'
  BY <1>14 DEF Finish, TypeOK, FlightInv, Pooled, Write, Write, Statements
<1>15. ASSUME NEW w \in Statements, Apply(w) PROVE FlightInv'
  <2>1. /\ UNCHANGED <<pc, faults>> /\ w \in writes /\ writes' = writes \ {w} /\ InOrder(w)
        /\ row' = IF w.what \in {"accepted", "completed", "failed"}
                    THEN [row EXCEPT ![w.run] = w.what] ELSE row
        /\ w.run \in Runs /\ w = Write(w.run, w.what)
    <3>1. \A v \in Statements : v.run \in Runs /\ v = Write(v.run, v.what)
      BY DEF Statements, Write
    <3>2. QED
      BY <1>15, <3>1 DEF Apply
  <2>2. SUFFICES ASSUME ~Pooled, faults = 0, NEW d \in Runs, pc[d] \in {"done", "failed"}
                 PROVE  \/ {Write(d, "completed"), Write(d, "failed")} \cap writes' # {}
                        \/ row'[d] \in {"completed", "failed"} /\ Write(d, "accepted") \notin writes'
    BY <2>1 DEF FlightInv, Pooled
  <2>3. CASE w \in {Write(d, "completed"), Write(d, "failed")}
    <3>1. w.run = d /\ w.what \in {"completed", "failed"}
      BY <2>3 DEF Write
    <3>2. Write(d, "accepted") \notin writes
      BY <2>1, <2>2, <3>1 DEF InOrder
    <3>3. row'[d] \in {"completed", "failed"}
      BY <2>1, <3>1 DEF TypeOK
    <3>4. QED
      BY <2>1, <3>2, <3>3
  <2>4. CASE w \notin {Write(d, "completed"), Write(d, "failed")}
    <3>1. CASE {Write(d, "completed"), Write(d, "failed")} \cap writes # {}
      BY <2>1, <2>4, <3>1
    <3>2. CASE row[d] \in {"completed", "failed"} /\ Write(d, "accepted") \notin writes
      <4>1. row'[d] \in {row[d], "completed", "failed"}
        <5>1. CASE w.run = d /\ w.what \in {"accepted", "completed", "failed"}
          <6>1. w.what \in {"completed", "failed"}
            BY <2>1, <3>2, <5>1
          <6>2. QED
            BY <2>1, <5>1, <6>1 DEF TypeOK
        <5>2. CASE ~(w.run = d /\ w.what \in {"accepted", "completed", "failed"})
          BY <2>1, <5>2 DEF TypeOK
        <5>3. QED
          BY <5>1, <5>2
      <4>2. QED
        BY <2>1, <3>2, <4>1
    <3>3. QED
      BY <2>2, <3>1, <3>2 DEF FlightInv
  <2>5. QED
    BY <2>3, <2>4
<1>16. ASSUME NEW w \in Statements, Drop(w) PROVE FlightInv'
  <2>1. faults' # 0
    BY <1>16 DEF Drop, TypeOK
  <2>2. QED
    BY <2>1 DEF FlightInv
<1>17. CASE Crash
  BY <1>17 DEF Crash, TypeOK, FlightInv
<1>18. CASE UNCHANGED vars
  BY <1>18 DEF vars, FlightInv, Pooled
<1>19. QED
  BY <1>1, <1>2, <1>3, <1>4, <1>5, <1>6, <1>7, <1>8, <1>9, <1>10, <1>11, <1>12, <1>13, <1>14,
     <1>15, <1>16, <1>17, <1>18
     DEF Next, Step, Recipient

LEMMA FlightAlways == Spec => []FlightInv
<1>1. Init => FlightInv
  BY DEF Init, FlightInv, Write
<1>2. QED
  BY <1>1, FlightStep, TypeCorrect, PTL DEF Spec

\* Over SQLite a row says accepted no longer than its run is under way, or than
\* the last word of the run is being written, or it was lost to a fault.
THEOREM InFlightCorrect == Spec => []InFlightUnlessPooled
<1>1. FlightInv => InFlightUnlessPooled
  <2> SUFFICES ASSUME FlightInv, ~Pooled, NEW d \in Runs, row[d] = "accepted", faults = 0,
                      pc[d] \in Ended
               PROVE  \E w \in writes : w.run = d /\ w.what \in {"completed", "failed"}
    BY DEF InFlightUnlessPooled, AcceptedIsInFlight
  <2>1. PICK w \in {Write(d, "completed"), Write(d, "failed")} : w \in writes
    BY DEF FlightInv, Ended
  <2>2. QED
    BY <2>1 DEF Write
<1>2. QED
  BY <1>1, FlightAlways, PTL

=============================================================================
