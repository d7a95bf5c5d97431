----------------------------- MODULE OnsiteProofs -----------------------------
(***************************************************************************)
(* What TLAPS proves of the parts MCOnsite composes, for any value of      *)
(* their constants.  Of Onsite: the type invariant, that a link has one    *)
(* browser, which is never turned away, that everybody is given one        *)
(* wording, and that an acknowledged receipt is stored and told.  Then, of *)
(* Accounts, LogSinks and Links, the invariants the runs check.            *)
(***************************************************************************)
EXTENDS MCOnsite, SequenceTheorems, FiniteSetTheorems, TLAPS

USE DEF tables, history

\* What a request has in hand, by how far it has come.
InHand(r) ==
  /\ r.pc # "idle" => r.who \in Browsers /\ r.act \in Acts
  /\ r.pc = "mint" => r.snapshot \in Acts
  /\ r.pc = "visit" => ~r.post
  /\ r.pc \in {"store", "tell"} => r.post
  /\ r.pc = "touch" /\ ~r.post => r.snapshot \in Acts
  /\ r.pc \in {"visit", "store", "tell", "touch"} <=> r.session # Nothing

HandInv ==
  /\ \A q \in Requests : InHand(req[q])
  /\ \A s \in Sessions : Minted(s) => session[s].nonce \in Browsers

\* A request about to be answered with the offer of a, and a session for it, hold a.
Opening(q, a) == req[q].pc \in {"render", "mint"} /\ req[q].act = a /\ req[q].session = Nothing

Holds(b, a) ==
  \/ \E s \in Sessions : session[s].act = a /\ session[s].nonce = b
  \/ \E q \in Requests : Opening(q, a) /\ req[q].who = b

\* An activation is stored once; who holds it is the one browser it is bound to,
\* and remains the only one when the row is swept.
BrowserInv ==
  \A a \in Acts :
    /\ act[a].exists => issue[a] = "done"
    /\ \A b \in Browsers : Holds(b, a) =>
         /\ issue[a] = "done"
         /\ act[a].exists => act[a].nonce = b
         /\ \A c \in Browsers : Holds(c, a) => b = c

\* A request compares only with a link that somebody has bound; who was refused
\* is another than the one it is bound to.
RefusedInv ==
  /\ \A q \in Requests :
       /\ req[q].pc \in {"bind", "compare"} => issue[req[q].act] = "done"
       /\ req[q].pc = "compare" /\ act[req[q].act].exists => act[req[q].act].nonce # Nothing
  /\ \A r \in refused :
       /\ issue[r[1]] = "done"
       /\ act[r[1]].exists => act[r[1]].nonce \notin {Nothing, r[2]}

\* Until the decision is pruned, whatever was or will be shown is its wording.
Wording(r) == r.pc = "mint" \/ (r.pc = "touch" /\ ~r.post)

OfferInv ==
  ~pruned =>
    /\ \A x \in shown : x = decision.snapshot
    /\ \A q \in Requests : Wording(req[q]) => req[q].snapshot = decision.snapshot

\* A receipt on its way to its acknowledgement.
Receipt(r) ==
  /\ r.pc = "tell" => r.who \in stored
  /\ r.pc = "touch" /\ r.post => r.who \in stored /\ r.who \in told \cup unrouted

ReceiptInv == AcknowledgedIsTold /\ \A q \in Requests : Receipt(req[q])

-----------------------------------------------------------------------------
\* A request that moves on leaves the others alone.
Moved(q) == req' = [req EXCEPT ![q] = req'[q]] /\ req'[q] \in Request /\ InHand(req'[q])

LEMMA MovedFacts ==
  ASSUME TypeOK, HandInv, NEW q \in Requests, Moved(q)
  PROVE  /\ req' \in [Requests -> Request] /\ \A p \in Requests : InHand(req'[p])
         /\ \A p \in Requests :
              req'[p].pc \in {"visit", "store", "tell", "touch"} <=> req'[p].session # Nothing
         /\ \A p \in Requests : p # q => req'[p] = req[p]
<1>1. req' = [req EXCEPT ![q] = req'[q]] /\ req'[q] \in Request /\ InHand(req'[q])
  BY DEF Moved
<1>2. req \in [Requests -> Request] /\ \A p \in Requests : InHand(req[p])
  BY DEF TypeOK, HandInv
<1>3. req' \in [Requests -> Request] /\ \A p \in Requests : p # q => req'[p] = req[p]
  BY <1>1, <1>2
<1>4. \A p \in Requests : InHand(req'[p])
  BY <1>1, <1>2, <1>3
<1>5. QED
  BY <1>3, <1>4 DEF InHand

\* The step changes no session but may change one request, by Moved.
LEMMA MovedType ==
  ASSUME TypeOK, HandInv, NEW q \in Requests, Moved(q), UNCHANGED <<session, issue, pruned>>,
         decision' = decision, act' \in [Acts -> Activation],
         \A a \in Acts : act'[a].age <= LinkLife(a) + 1,
         cookie' = cookie, stored' \subseteq Browsers, told' \subseteq Browsers,
         faults' \in 0..MaxFaults, shown' \subseteq Acts, refused' \subseteq Acts \X Browsers,
         acked' \subseteq Browsers, unrouted' \subseteq Browsers
  PROVE  TypeOK' /\ HandInv'
<1>1. TypeOK'
  BY MovedFacts DEF TypeOK
<1>2. HandInv'
  BY MovedFacts DEF HandInv, Minted
<1>3. QED
  BY <1>1, <1>2

LEMMA GoFacts ==
  ASSUME TypeOK, NEW q \in Requests, NEW pc, Go(q, pc)
  PROVE  /\ req' = [req EXCEPT ![q] = req'[q]]
         /\ req'[q] = [req[q] EXCEPT !.pc = pc]
         /\ req'[q].pc = pc
         /\ req'[q].who = req[q].who /\ req'[q].act = req[q].act /\ req'[q].session = req[q].session
         /\ req'[q].post = req[q].post /\ req'[q].snapshot = req[q].snapshot
<1>1. req \in [Requests -> Request] /\ req[q] \in Request
  BY DEF TypeOK
<1>2. req' = [req EXCEPT ![q] = [req[q] EXCEPT !.pc = pc]]
  BY DEF Go
<1>3. QED
  BY <1>1, <1>2 DEF Request

LEMMA GoMoves ==
  ASSUME TypeOK, HandInv, NEW q \in Requests, NEW pc, Go(q, pc),
         <<req[q].pc, pc>> \in {<<"bind", "render">>, <<"bind", "compare">>, <<"compare", "render">>,
                                <<"store", "tell">>, <<"tell", "touch">>}
  PROVE  Moved(q)
<1>1. req[q] \in Request /\ InHand(req[q])
  BY DEF TypeOK, HandInv
<1>2. req'[q] \in Request
  <2>1. pc \in {"render", "compare", "tell", "touch"}
    OBVIOUS
  <2>2. [req[q] EXCEPT !.pc = pc] \in Request
    BY <1>1, <2>1 DEF Request
  <2>3. QED
    BY <2>2, GoFacts
<1>3. InHand(req'[q])
  BY <1>1, GoFacts DEF InHand
<1>4. QED
  BY <1>2, <1>3, GoFacts DEF Moved

LEMMA EndMoves ==
  ASSUME TypeOK, NEW q \in Requests, End(q) PROVE Moved(q) /\ req'[q] = NoRequest
<1>1. NoRequest \in Request /\ InHand(NoRequest)
  BY BoundAssumption DEF NoRequest, Request, InHand
<1>2. req'[q] = NoRequest /\ req' = [req EXCEPT ![q] = NoRequest]
  BY DEF End, TypeOK
<1>3. QED
  BY <1>1, <1>2 DEF Moved

LEMMA RedeemMoves ==
  ASSUME TypeOK, NEW q \in Requests, NEW b \in Browsers, NEW a \in Acts, Redeem(q, b, a)
  PROVE  /\ req'[q].pc = "bind" /\ req'[q].who = b /\ req'[q].act = a /\ Moved(q)
         /\ req[q].pc = "idle" /\ act[a].exists
         /\ UNCHANGED <<tables, issue, cookie, stored, told, faults, history>>
<1> DEFINE r == [NoRequest EXCEPT !.pc = "bind", !.who = b, !.act = a]
<1>1. r \in Request /\ InHand(r)
  <2>1. NoRequest \in Request
    BY BoundAssumption DEF NoRequest, Request
  <2>2. r \in Request
    BY <2>1 DEF Request
  <2>3. r.pc = "bind" /\ r.who = b /\ r.act = a /\ r.session = Nothing
    BY <2>1 DEF Request, NoRequest
  <2>4. QED
    BY <2>2, <2>3 DEF InHand
<1>2. req' = [req EXCEPT ![q] = r] /\ req'[q] = r
  BY DEF Redeem, TypeOK
<1>3. r.pc = "bind" /\ r.who = b /\ r.act = a
  BY DEF NoRequest
<1>4. QED
  <2> HIDE DEF r
  <2>1. QED
    BY <1>1, <1>2, <1>3 DEF Moved, Redeem

\* A visit or a post starts from the session in the browser's cookie.
LEMMA OpenMoves ==
  ASSUME TypeOK, NEW q \in Requests, NEW b \in Browsers, NEW post \in BOOLEAN, Open(q, b, post)
  PROVE  /\ Moved(q) /\ req[q].pc = "idle"
         /\ req'[q].who = b /\ req'[q].pc = (IF post THEN "store" ELSE "visit") /\ req'[q].post = post
         /\ UNCHANGED <<tables, issue, cookie, stored, told, faults, history>>
<1> DEFINE r == [NoRequest EXCEPT !.who = b, !.session = cookie[b], !.act = session[cookie[b]].act,
                                  !.post = post, !.pc = IF post THEN "store" ELSE "visit"]
<1>1. cookie[b] \in Sessions /\ cookie[b] # Nothing /\ session[cookie[b]].act \in Acts
  BY DEF Open, Live, Minted, TypeOK
<1>2. r \in Request /\ InHand(r)
  <2>1. NoRequest \in Request
    BY BoundAssumption DEF NoRequest, Request
  <2>2. r \in Request
    BY <1>1, <2>1 DEF Request
  <2>3. /\ r.who = b /\ r.act = session[cookie[b]].act /\ r.session = cookie[b]
        /\ r.post = post /\ r.pc = IF post THEN "store" ELSE "visit"
    BY <1>1, <2>1 DEF Request
  <2>4. QED
    <3> HIDE DEF r
    <3>1. QED
      BY <1>1, <2>2, <2>3 DEF InHand
<1>3. req' = [req EXCEPT ![q] = r] /\ req'[q] = r
  BY DEF Open, TypeOK
<1>4. r.who = b /\ r.pc = (IF post THEN "store" ELSE "visit") /\ r.post = post
  BY DEF NoRequest
<1>5. QED
  <2> HIDE DEF r
  <2>1. QED
    BY <1>2, <1>3, <1>4 DEF Moved, Open

\* envelopeForActivation gives the wording of the decision.
LEMMA RenderMoves ==
  ASSUME TypeOK, HandInv, NEW q \in Requests, Render(q)
  PROVE  /\ Moved(q)
         /\ \/ req'[q] = NoRequest
            \/ /\ decision.snapshot \in Acts /\ req'[q].snapshot = decision.snapshot
               /\ \/ req[q].pc = "render" /\ req'[q].pc = "mint"
                  \/ req[q].pc = "visit" /\ req'[q].pc = "touch"
               /\ req'[q].who = req[q].who /\ req'[q].act = req[q].act /\ req'[q].session = req[q].session
               /\ req'[q].post = req[q].post
         /\ UNCHANGED <<tables, issue, cookie, stored, told, faults, history>>
<1>1. CASE End(q)
  BY <1>1, EndMoves DEF Render
<1>2. CASE ~End(q)
  <2> DEFINE r == [req[q] EXCEPT !.snapshot = decision.snapshot,
                                 !.pc = IF req[q].pc = "render" THEN "mint" ELSE "touch"]
  <2>1. req \in [Requests -> Request] /\ req[q] \in Request /\ InHand(req[q])
    BY DEF TypeOK, HandInv
  <2>2. req[q].pc \in {"render", "visit"} /\ decision.snapshot \in Acts
        /\ req' = [req EXCEPT ![q].snapshot = decision.snapshot,
                              ![q].pc = IF @ = "render" THEN "mint" ELSE "touch"]
    BY <1>2 DEF Render, Frozen, TypeOK
  <2>3. req' = [req EXCEPT ![q] = r] /\ req'[q] = r
    BY <2>1, <2>2 DEF Request
  <2>4. r \in Request
    BY <2>1, <2>2 DEF Request
  <2>5. /\ r.snapshot = decision.snapshot /\ r.who = req[q].who /\ r.act = req[q].act
        /\ r.session = req[q].session /\ r.post = req[q].post
        /\ r.pc = IF req[q].pc = "render" THEN "mint" ELSE "touch"
    BY <2>1 DEF Request
  <2>6. InHand(r)
    <3> HIDE DEF r
    <3>1. QED
      BY <2>1, <2>2, <2>5 DEF InHand
  <2>7. QED
    <3> HIDE DEF r
    <3>1. QED
      BY <2>2, <2>3, <2>4, <2>5, <2>6 DEF Moved, Render
<1>3. QED
  BY <1>1, <1>2

\* insertOnsiteSession fills a free row.
LEMMA MintFacts ==
  ASSUME TypeOK, NEW q \in Requests, Mint(q)
  PROVE  \E s \in Sessions :
           /\ session[s] = NoSession /\ req[q].pc = "mint" /\ End(q)
           /\ session' = [session EXCEPT ![s] = [act |-> req[q].act, nonce |-> req[q].who,
                                                 age |-> req[q].age, idle |-> req[q].age]]
           /\ cookie' \in {cookie, [cookie EXCEPT ![req[q].who] = s]}
           /\ shown' \subseteq shown \cup {req[q].snapshot}
           /\ faults' = faults \/ (faults < MaxFaults /\ faults' = faults + 1)
           /\ UNCHANGED <<decision, act, issue, stored, told, refused, acked, unrouted, pruned>>
BY DEF Mint

LEMMA OlderFacts ==
  ASSUME NEW limit \in Nat, NEW n \in Nat, n <= limit + 1
  PROVE  Older(n, limit) \in Nat /\ Older(n, limit) <= limit + 1
BY DEF Older

\* A request that only grew older.
Same(q) ==
  /\ req'[q].pc = req[q].pc /\ req'[q].who = req[q].who /\ req'[q].act = req[q].act
  /\ req'[q].session = req[q].session /\ req'[q].post = req[q].post
  /\ req'[q].snapshot = req[q].snapshot

\* Time changes nothing but ages.
LEMMA TickFacts ==
  ASSUME TypeOK, Tick
  PROVE  /\ decision' \in [snapshot : Acts \cup {Nothing}, age : 0..KeepDecision + 1]
         /\ decision'.snapshot = decision.snapshot
         /\ act' \in [Acts -> Activation]
         /\ \A a \in Acts : /\ act'[a].exists = act[a].exists /\ act'[a].nonce = act[a].nonce
                            /\ act'[a].age <= LinkLife(a) + 1
         /\ session' \in [Sessions -> Session]
         /\ \A s \in Sessions : session'[s].act = session[s].act /\ session'[s].nonce = session[s].nonce
         /\ req' \in [Requests -> Request]
         /\ \A q \in Requests : Same(q)
         /\ UNCHANGED <<issue, cookie, stored, told, faults, history>>
<1>1. /\ decision' \in [snapshot : Acts \cup {Nothing}, age : 0..KeepDecision + 1]
      /\ decision'.snapshot = decision.snapshot
  <2> DEFINE n == Older(decision.age, KeepDecision)
  <2>1. n \in 0..KeepDecision + 1
    <3>1. decision.age \in 0..KeepDecision + 1 /\ KeepDecision \in Nat
      BY KeepAssumption DEF TypeOK
    <3>2. decision.age \in Nat /\ decision.age <= KeepDecision + 1
      BY <3>1
    <3>3. n \in Nat /\ n <= KeepDecision + 1
      BY <3>1, <3>2, OlderFacts
    <3> HIDE DEF n
    <3>4. QED
      BY <3>1, <3>3
  <2>2. decision' = decision \/ decision' = [decision EXCEPT !.age = n]
    BY DEF Tick
  <2> HIDE DEF n
  <2>3. QED
    BY <2>1, <2>2 DEF TypeOK
<1>2. /\ act' \in [Acts -> Activation]
      /\ \A a \in Acts : /\ act'[a].exists = act[a].exists /\ act'[a].nonce = act[a].nonce
                         /\ act'[a].age <= LinkLife(a) + 1
  <2>1. ASSUME NEW a \in Acts
        PROVE  /\ act'[a] \in Activation /\ act'[a].exists = act[a].exists
               /\ act'[a].nonce = act[a].nonce /\ act'[a].age <= LinkLife(a) + 1
    <3> DEFINE n == Older(act[a].age, LinkLife(a))
    <3>1. LinkLife(a) \in Nat /\ act[a] \in Activation /\ act[a].age \in Nat /\ act[a].age <= LinkLife(a) + 1
      BY WindowAssumption, KeepAssumption DEF LinkLife, TypeOK, Activation
    <3>2. n \in Nat /\ n <= LinkLife(a) + 1
      BY <3>1, OlderFacts
    <3>3. act'[a] = act[a] \/ act'[a] = [act[a] EXCEPT !.age = n]
      BY DEF Tick
    <3> HIDE DEF n
    <3>4. QED
      BY <3>1, <3>2, <3>3 DEF Activation
  <2>2. act' = [a \in Acts |-> act'[a]]
    BY DEF Tick
  <2>3. QED
    BY <2>1, <2>2
<1>3. /\ session' \in [Sessions -> Session]
      /\ \A s \in Sessions : session'[s].act = session[s].act /\ session'[s].nonce = session[s].nonce
  <2>1. ASSUME NEW s \in Sessions
        PROVE  /\ session'[s] \in Session /\ session'[s].act = session[s].act
               /\ session'[s].nonce = session[s].nonce
    <3> DEFINE n == Older(session[s].age, SessionLife) k == Older(session[s].idle, IdleLimit - 1)
    <3>1. SessionLife \in Nat /\ session[s] \in Session
      BY LifeAssumption, KeepAssumption DEF SessionLife, TypeOK
    <3>2. session[s].age \in 0..SessionLife + 1 + Patience /\ session[s].idle \in 0..IdleLimit + Patience
      BY <3>1 DEF Session
    <3>3. n \in 0..SessionLife + 1 + Patience /\ k \in 0..IdleLimit + Patience
      BY <3>1, <3>2, LifeAssumption, BoundAssumption DEF Older
    <3>4. session'[s] = session[s] \/ session'[s] = [session[s] EXCEPT !.age = n, !.idle = k]
      BY DEF Tick
    <3> HIDE DEF n, k
    <3>5. QED
      BY <3>1, <3>3, <3>4 DEF Session
  <2>2. session' = [s \in Sessions |-> session'[s]]
    BY DEF Tick
  <2>3. QED
    BY <2>1, <2>2
<1>4. req' \in [Requests -> Request] /\ \A q \in Requests : Same(q)
  <2>1. ASSUME NEW q \in Requests PROVE req'[q] \in Request /\ Same(q)
    <3>1. req[q] \in Request
      BY DEF TypeOK
    <3>2. req'[q] = req[q] \/ (req[q].age < Patience /\ req'[q] = [req[q] EXCEPT !.age = req[q].age + 1])
      BY DEF Tick
    <3>3. req[q].age \in 0..Patience
      BY <3>1 DEF Request
    <3>4. req[q].age < Patience => req[q].age + 1 \in 0..Patience
      BY <3>3, BoundAssumption
    <3>5. QED
      BY <3>1, <3>2, <3>4 DEF Request, Same
  <2>2. req' = [q \in Requests |-> req'[q]]
    BY DEF Tick
  <2>3. QED
    BY <2>1, <2>2
<1>5. QED
  BY <1>1, <1>2, <1>3, <1>4 DEF Tick

LEMMA TouchFacts ==
  ASSUME TypeOK, NEW q \in Requests, Touch(q)
  PROVE  /\ session' \in [Sessions -> Session]
         /\ \A t \in Sessions : session'[t].act = session[t].act /\ session'[t].nonce = session[t].nonce
<1> DEFINE s == req[q].session
<1>1. req[q].age \in 0..Patience
  BY DEF TypeOK, Request
<1>2. req[q].age \in 0..IdleLimit + Patience
  BY <1>1, LifeAssumption, BoundAssumption
<1>3. session' = session \/ session' = [session EXCEPT ![s] = [session[s] EXCEPT !.idle = req[q].age]]
  BY DEF Touch
<1>4. \A t \in Sessions :
        session'[t] = session[t] \/ session'[t] = [session[t] EXCEPT !.idle = req[q].age]
  BY <1>3 DEF TypeOK
<1>5. \A t \in Sessions : session[t] \in Session
  BY DEF TypeOK
<1>6. \A t \in Sessions : session'[t] \in Session /\ session'[t].act = session[t].act
                          /\ session'[t].nonce = session[t].nonce
  BY <1>2, <1>4, <1>5 DEF Session
<1>7. QED
  BY <1>3, <1>6 DEF TypeOK

LEMMA TypeStep == TypeOK /\ HandInv /\ [Next]_vars => TypeOK' /\ HandInv'
<1> SUFFICES ASSUME TypeOK, HandInv, [Next]_vars PROVE TypeOK' /\ HandInv'
  OBVIOUS
<1>1. ASSUME NEW a \in Acts, EnsureDecision(a) PROVE TypeOK' /\ HandInv'
  BY <1>1 DEF EnsureDecision, TypeOK, HandInv, Minted
<1>2. ASSUME NEW a \in Acts, Freeze(a) PROVE TypeOK' /\ HandInv'
  <2>1. decision' \in [snapshot : Acts \cup {Nothing}, age : 0..KeepDecision + 1]
    BY <1>2, KeepAssumption DEF Freeze, TypeOK
  <2>2. QED
    BY <1>2, <2>1 DEF Freeze, TypeOK, HandInv, Minted
<1>3. ASSUME NEW a \in Acts, StoreLink(a) PROVE TypeOK' /\ HandInv'
  <2>1. LinkLife(a) \in Nat
    BY WindowAssumption, KeepAssumption DEF LinkLife
  <2>2. act' \in [Acts -> Activation]
    BY <1>3 DEF StoreLink, TypeOK, Activation
  <2>3. \A c \in Acts : act'[c].age <= LinkLife(c) + 1
    BY <1>3, <2>1 DEF StoreLink, TypeOK
  <2>4. QED
    BY <1>3, <2>2, <2>3 DEF StoreLink, TypeOK, HandInv, Minted
<1>4. ASSUME NEW a \in Acts, IssueFails(a) PROVE TypeOK' /\ HandInv'
  BY <1>4, BoundAssumption DEF IssueFails, TypeOK, HandInv, Minted
<1>5. ASSUME NEW q \in Requests, NEW b \in Browsers, NEW a \in Acts, Redeem(q, b, a)
      PROVE  TypeOK' /\ HandInv'
  <2>1. Moved(q) /\ UNCHANGED <<tables, issue, cookie, stored, told, faults, history>>
    BY <1>5, RedeemMoves
  <2>2. QED
    BY <2>1, MovedType DEF TypeOK
<1>6. ASSUME NEW q \in Requests, NEW b \in Browsers, Visit(q, b) PROVE TypeOK' /\ HandInv'
  <2>1. Moved(q) /\ UNCHANGED <<tables, issue, cookie, stored, told, faults, history>>
    BY <1>6, OpenMoves DEF Visit
  <2>2. QED
    BY <2>1, MovedType DEF TypeOK
<1>7. ASSUME NEW q \in Requests, NEW b \in Browsers, Post(q, b) PROVE TypeOK' /\ HandInv'
  <2>1. Moved(q) /\ UNCHANGED <<tables, issue, cookie, stored, told, faults, history>>
    BY <1>7, OpenMoves DEF Post
  <2>2. QED
    BY <2>1, MovedType DEF TypeOK
<1>8. ASSUME NEW q \in Requests, Bind(q) PROVE TypeOK' /\ HandInv'
  <2>1. Moved(q)
    BY <1>8, GoMoves DEF Bind
  <2>2. req[q].who \in Browsers
    BY <1>8 DEF Bind, HandInv, InHand
  <2>3. /\ act' \in [Acts -> Activation]
        /\ \A c \in Acts : act'[c].age = act[c].age
    <3> DEFINE a == req[q].act
               bound == [act[a] EXCEPT !.nonce = req[q].who]
    <3>1. act' = [act EXCEPT ![a] = bound] \/ act' = act
      BY <1>8 DEF Bind
    <3>2. act \in [Acts -> Activation] /\ a \in Acts
      BY <1>8 DEF Bind, TypeOK, HandInv, InHand
    <3>3. bound \in Activation /\ bound.age = act[a].age
      BY <2>2, <3>2 DEF Activation
    <3> HIDE DEF a, bound
    <3>4. QED
      BY <3>1, <3>2, <3>3
  <2>4. UNCHANGED <<decision, session, issue, cookie, stored, told, faults, history>>
    BY <1>8 DEF Bind
  <2>5. QED
    BY <2>1, <2>3, <2>4, MovedType DEF TypeOK
<1>9. ASSUME NEW q \in Requests, Compare(q) PROVE TypeOK' /\ HandInv'
  <2>1. Moved(q)
    BY <1>9, GoMoves, EndMoves DEF Compare
  <2>2. UNCHANGED <<tables, issue, cookie, stored, told, faults, shown, acked, unrouted, pruned>>
    BY <1>9 DEF Compare
  <2>3. req[q].who \in Browsers /\ req[q].act \in Acts
    BY <1>9 DEF Compare, HandInv, InHand
  <2>4. refused' \subseteq Acts \X Browsers
    BY <1>9, <2>3 DEF Compare, TypeOK
  <2>5. QED
    BY <2>1, <2>2, <2>4, MovedType DEF TypeOK
<1>10. ASSUME NEW q \in Requests, Render(q) PROVE TypeOK' /\ HandInv'
  <2>1. Moved(q) /\ UNCHANGED <<tables, issue, cookie, stored, told, faults, history>>
    BY <1>10, RenderMoves
  <2>2. QED
    BY <2>1, MovedType DEF TypeOK
<1>11. ASSUME NEW q \in Requests, Mint(q) PROVE TypeOK' /\ HandInv'
  <2>1. PICK s \in Sessions :
          /\ session[s] = NoSession /\ req[q].pc = "mint" /\ End(q)
          /\ session' = [session EXCEPT ![s] = [act |-> req[q].act, nonce |-> req[q].who,
                                                age |-> req[q].age, idle |-> req[q].age]]
          /\ cookie' \in {cookie, [cookie EXCEPT ![req[q].who] = s]}
          /\ shown' \subseteq shown \cup {req[q].snapshot}
          /\ faults' = faults \/ (faults < MaxFaults /\ faults' = faults + 1)
          /\ UNCHANGED <<decision, act, issue, stored, told, refused, acked, unrouted, pruned>>
    BY <1>11, MintFacts
  <2>2. req[q].who \in Browsers /\ req[q].act \in Acts /\ req[q].snapshot \in Acts /\ req[q].age \in 0..Patience
    BY <2>1 DEF TypeOK, HandInv, InHand, Request
  <2>3. SessionLife \in Nat
    BY LifeAssumption, KeepAssumption DEF SessionLife
  <2>4. [act |-> req[q].act, nonce |-> req[q].who, age |-> req[q].age, idle |-> req[q].age] \in Session
    BY <2>2, <2>3, LifeAssumption, BoundAssumption DEF Session
  <2>5. /\ session' \in [Sessions -> Session]
        /\ \A t \in Sessions : session'[t].act \in Acts => session'[t].nonce \in Browsers
    BY <2>1, <2>2, <2>4 DEF TypeOK, HandInv, Minted
  <2>6. cookie' \in [Browsers -> Sessions \cup {Nothing}]
    BY <2>1 DEF TypeOK
  <2>7. shown' \subseteq Acts /\ faults' \in 0..MaxFaults
    BY <2>1, <2>2, BoundAssumption DEF TypeOK
  <2>8. Moved(q)
    BY <2>1, EndMoves
  <2>9. TypeOK'
    BY <2>1, <2>5, <2>6, <2>7, <2>8, MovedFacts DEF TypeOK
  <2>10. QED
    BY <2>5, <2>8, <2>9, MovedFacts DEF HandInv, Minted
<1>12. ASSUME NEW q \in Requests, StoreReceipt(q) PROVE TypeOK' /\ HandInv'
  <2>1. Moved(q)
    BY <1>12, GoMoves, EndMoves DEF StoreReceipt
  <2>2. UNCHANGED <<tables, issue, cookie, told, faults, history>>
    BY <1>12 DEF StoreReceipt
  <2>3. stored' \subseteq Browsers
    BY <1>12 DEF StoreReceipt, TypeOK, HandInv, InHand
  <2>4. QED
    BY <2>1, <2>2, <2>3, MovedType DEF TypeOK
<1>13. ASSUME NEW q \in Requests, Tell(q) PROVE TypeOK' /\ HandInv'
  <2>1. Moved(q)
    BY <1>13, GoMoves DEF Tell
  <2>2. UNCHANGED <<tables, issue, cookie, stored, shown, refused, acked, pruned>>
    BY <1>13 DEF Tell
  <2>3. told' \subseteq Browsers /\ unrouted' \subseteq Browsers /\ faults' \in 0..MaxFaults
    BY <1>13, BoundAssumption DEF Tell, TypeOK, HandInv, InHand
  <2>4. QED
    BY <2>1, <2>2, <2>3, MovedType DEF TypeOK
<1>14. ASSUME NEW q \in Requests, Touch(q) PROVE TypeOK' /\ HandInv'
  <2>1. req[q].pc = "touch" /\ Moved(q)
    BY <1>14, EndMoves DEF Touch
  <2>2. UNCHANGED <<decision, act, issue, cookie, stored, told, faults, refused, unrouted, pruned>>
    BY <1>14 DEF Touch
  <2>3. shown' \subseteq Acts /\ acked' \subseteq Browsers
    BY <1>14, <2>1 DEF Touch, TypeOK, HandInv, InHand
  <2>4. /\ session' \in [Sessions -> Session]
        /\ \A t \in Sessions : session'[t].act = session[t].act /\ session'[t].nonce = session[t].nonce
    BY <1>14, TouchFacts
  <2>5. TypeOK'
    BY <2>1, <2>2, <2>3, <2>4, MovedFacts DEF TypeOK
  <2>6. QED
    BY <2>1, <2>4, <2>5, MovedFacts DEF HandInv, Minted
<1>15. ASSUME NEW q \in Requests, RequestFails(q) PROVE TypeOK' /\ HandInv'
  <2>1. Moved(q)
    BY <1>15, EndMoves DEF RequestFails
  <2>2. UNCHANGED <<tables, issue, cookie, stored, history>>
    BY <1>15 DEF RequestFails
  <2>3. told' \subseteq Browsers /\ faults' \in 0..MaxFaults
    BY <1>15, BoundAssumption DEF RequestFails, TypeOK, HandInv, InHand
  <2>4. QED
    BY <2>1, <2>2, <2>3, MovedType DEF TypeOK
<1>16. CASE Tick
  <2>1. TypeOK'
    BY <1>16, TickFacts DEF TypeOK, Same
  <2>2. \A q \in Requests : InHand(req'[q])
    BY <1>16, TickFacts DEF HandInv, InHand, Same
  <2>3. QED
    BY <1>16, <2>1, <2>2, TickFacts DEF HandInv, Minted
<1>17. CASE SweepLinks
  <2>1. NoAct \in Activation /\ NoAct.age = 0 /\ \A a \in Acts : LinkLife(a) \in Nat
    BY WindowAssumption, KeepAssumption DEF NoAct, LinkLife, Activation
  <2>2. /\ act' \in [Acts -> Activation]
        /\ \A a \in Acts : act'[a].age <= LinkLife(a) + 1
    BY <1>17, <2>1 DEF SweepLinks, TypeOK
  <2>3. QED
    BY <1>17, <2>2 DEF SweepLinks, TypeOK, HandInv, Minted
<1>18. CASE SweepSessions
  <2>1. SessionLife \in Nat
    BY LifeAssumption, KeepAssumption DEF SessionLife
  <2>2. Gone \in Session /\ Gone.act = "gone"
    BY <2>1, LifeAssumption, BoundAssumption DEF Gone, NoSession, Session
  <2>3. /\ session' \in [Sessions -> Session]
        /\ \A t \in Sessions : session'[t].act \in Acts => session'[t] = session[t]
    BY <1>18, <2>2, NameAssumption DEF SweepSessions, TypeOK
  <2>4. QED
    BY <1>18, <2>3 DEF SweepSessions, TypeOK, HandInv, Minted
<1>19. CASE SweepDecision
  <2>1. decision' \in [snapshot : Acts \cup {Nothing}, age : 0..KeepDecision + 1]
    BY <1>19, KeepAssumption DEF SweepDecision, NoDecision
  <2>2. QED
    BY <1>19, <2>1 DEF SweepDecision, TypeOK, HandInv, Minted
<1>20. CASE UNCHANGED vars
  BY <1>20 DEF vars, TypeOK, HandInv, Minted
<1>21. QED
  BY <1>1, <1>2, <1>3, <1>4, <1>5, <1>6, <1>7, <1>8, <1>9, <1>10, <1>11, <1>12, <1>13, <1>14,
     <1>15, <1>16, <1>17, <1>18, <1>19, <1>20
     DEF Next, Issuing, Handling, Arrival

LEMMA TypeAlways == Spec => [](TypeOK /\ HandInv)
<1>1. ASSUME Init PROVE TypeOK /\ HandInv
  <2>1. \A a \in Acts : LinkLife(a) \in Nat
    BY WindowAssumption, KeepAssumption DEF LinkLife
  <2>2. SessionLife \in Nat
    BY LifeAssumption, KeepAssumption DEF SessionLife
  <2>3. NoAct \in Activation /\ NoAct.age = 0
    BY DEF NoAct, Activation
  <2>4. NoSession \in Session /\ NoSession.act = Nothing
    BY <2>2, LifeAssumption, BoundAssumption DEF NoSession, Session
  <2>5. NoRequest \in Request /\ InHand(NoRequest)
    BY BoundAssumption DEF NoRequest, Request, InHand
  <2>6. decision \in [snapshot : Acts \cup {Nothing}, age : 0..KeepDecision + 1]
    BY <1>1, KeepAssumption DEF Init, NoDecision
  <2>7. TypeOK
    <3>1. act \in [Acts -> Activation] /\ \A a \in Acts : act[a].age <= LinkLife(a) + 1
      BY <1>1, <2>1, <2>3 DEF Init
    <3>2. session \in [Sessions -> Session] /\ req \in [Requests -> Request]
      BY <1>1, <2>4, <2>5 DEF Init
    <3>3. \A q \in Requests :
            req[q].pc \in {"visit", "store", "tell", "touch"} <=> req[q].session # Nothing
      BY <1>1, <2>5 DEF Init, InHand
    <3>4. issue \in [Acts -> {"new", "freeze", "linked", "done"}] /\ cookie \in [Browsers -> Sessions \cup {Nothing}]
      BY <1>1 DEF Init
    <3>5. /\ stored = {} /\ told = {} /\ faults \in 0..MaxFaults /\ shown = {} /\ refused = {}
          /\ acked = {} /\ unrouted = {} /\ pruned = FALSE
      BY <1>1, BoundAssumption DEF Init
    <3>6. QED
      BY <2>6, <3>1, <3>2, <3>3, <3>4, <3>5 DEF TypeOK
  <2>8. HandInv
    BY <1>1, <2>4, <2>5, NameAssumption DEF Init, HandInv, Minted
  <2>9. QED
    BY <2>7, <2>8
<1>2. QED
  BY <1>1, TypeStep, PTL DEF Spec

\* Every variable keeps its type.
THEOREM TypeCorrect == Spec => []TypeOK
BY TypeAlways, PTL

-----------------------------------------------------------------------------
\* A request that moves without becoming an opening one adds no holder.
LEMMA HoldersKept ==
  ASSUME TypeOK, HandInv, BrowserInv, NEW q \in Requests, Moved(q), UNCHANGED <<act, issue>>,
         \A t \in Sessions : session'[t].act = session[t].act /\ session'[t].nonce = session[t].nonce,
         \/ req'[q].pc \notin {"render", "mint"}
         \/ /\ req[q].pc = "render" /\ req'[q].who = req[q].who /\ req'[q].act = req[q].act
            /\ req'[q].session = req[q].session
  PROVE  BrowserInv'
<1>1. ASSUME NEW c \in Acts, NEW b \in Browsers, Holds(b, c)' PROVE Holds(b, c)
  BY <1>1, MovedFacts DEF Holds, Opening
<1>2. QED
  BY <1>1 DEF BrowserInv

LEMMA BrowserStep == TypeOK /\ HandInv /\ BrowserInv /\ [Next]_vars => BrowserInv'
<1> SUFFICES ASSUME TypeOK, HandInv, BrowserInv, [Next]_vars PROVE BrowserInv'
  OBVIOUS
<1>1. ASSUME NEW a \in Acts, EnsureDecision(a) PROVE BrowserInv'
  <2>1. UNCHANGED <<act, session, req>> /\ \A c \in Acts : issue[c] = "done" => issue'[c] = "done"
    BY <1>1 DEF EnsureDecision, TypeOK
  <2>2. QED
    BY <2>1 DEF BrowserInv, Holds, Opening
<1>2. ASSUME NEW a \in Acts, Freeze(a) PROVE BrowserInv'
  <2>1. UNCHANGED <<act, session, req>> /\ \A c \in Acts : issue[c] = "done" => issue'[c] = "done"
    BY <1>2 DEF Freeze, TypeOK
  <2>2. QED
    BY <2>1 DEF BrowserInv, Holds, Opening
<1>3. ASSUME NEW a \in Acts, StoreLink(a) PROVE BrowserInv'
  <2>1. UNCHANGED <<session, req>> /\ issue[a] = "linked"
        /\ issue' = [issue EXCEPT ![a] = "done"]
        /\ \A c \in Acts : c # a => act'[c] = act[c]
    BY <1>3 DEF StoreLink, TypeOK
  <2>2. \A b \in Browsers : ~Holds(b, a)
    BY <2>1 DEF BrowserInv
  <2>3. QED
    BY <2>1, <2>2 DEF BrowserInv, Holds, Opening, TypeOK
<1>4. ASSUME NEW a \in Acts, IssueFails(a) PROVE BrowserInv'
  <2>1. UNCHANGED <<act, session, req>> /\ \A c \in Acts : issue[c] = "done" => issue'[c] = "done"
    BY <1>4 DEF IssueFails, TypeOK
  <2>2. QED
    BY <2>1 DEF BrowserInv, Holds, Opening
<1>5. ASSUME NEW q \in Requests, NEW b \in Browsers, NEW a \in Acts, Redeem(q, b, a)
      PROVE  BrowserInv'
  <2>1. /\ UNCHANGED <<act, session, issue>> /\ Moved(q) /\ req'[q].pc = "bind"
    BY <1>5, RedeemMoves
  <2>2. QED
    BY <2>1, HoldersKept
<1>6. ASSUME NEW q \in Requests, NEW b \in Browsers, Visit(q, b) PROVE BrowserInv'
  <2>1. UNCHANGED <<act, session, issue>> /\ Moved(q) /\ req'[q].pc \in {"visit", "store"}
    BY <1>6, OpenMoves DEF Visit
  <2>2. QED
    BY <2>1, HoldersKept
<1>7. ASSUME NEW q \in Requests, NEW b \in Browsers, Post(q, b) PROVE BrowserInv'
  <2>1. UNCHANGED <<act, session, issue>> /\ Moved(q) /\ req'[q].pc \in {"visit", "store"}
    BY <1>7, OpenMoves DEF Post
  <2>2. QED
    BY <2>1, HoldersKept
<1>8. ASSUME NEW q \in Requests, Bind(q) PROVE BrowserInv'
  <2>1. /\ req[q].pc = "bind" /\ Moved(q) /\ UNCHANGED <<session, issue>>
        /\ req'[q].who = req[q].who /\ req'[q].act = req[q].act /\ req'[q].session = req[q].session
        /\ req[q].who \in Browsers /\ req[q].act \in Acts
    BY <1>8, GoMoves, GoFacts DEF Bind, HandInv, InHand
  <2>2. CASE act[req[q].act].exists /\ act[req[q].act].nonce = Nothing
    <3>1. act' = [act EXCEPT ![req[q].act] = [act[req[q].act] EXCEPT !.nonce = req[q].who]]
      BY <1>8, <2>2 DEF Bind
    <3>2. /\ \A c \in Acts : c # req[q].act => act'[c] = act[c]
          /\ act'[req[q].act].exists /\ act'[req[q].act].nonce = req[q].who
      BY <2>1, <2>2, <3>1 DEF TypeOK, Activation
    <3>3. \A b \in Browsers : ~Holds(b, req[q].act)
      BY <2>1, <2>2, NameAssumption DEF BrowserInv
    <3>4. ASSUME NEW c \in Acts, NEW b \in Browsers, Holds(b, c)'
          PROVE  Holds(b, c) \/ (c = req[q].act /\ b = req[q].who)
      BY <2>1, <3>4, MovedFacts DEF Holds, Opening
    <3>5. QED
      BY <2>1, <2>2, <3>2, <3>3, <3>4 DEF BrowserInv
  <2>3. CASE ~(act[req[q].act].exists /\ act[req[q].act].nonce = Nothing)
    <3>1. act' = act /\ req'[q].pc = "compare"
      BY <1>8, <2>3, GoFacts DEF Bind
    <3>2. QED
      BY <2>1, <3>1, HoldersKept
  <2>4. QED
    BY <2>2, <2>3
<1>9. ASSUME NEW q \in Requests, Compare(q) PROVE BrowserInv'
  <2>1. req[q].pc = "compare" /\ Moved(q) /\ UNCHANGED <<act, session, issue>>
    BY <1>9, GoMoves, EndMoves DEF Compare
  <2>2. CASE act[req[q].act].exists /\ act[req[q].act].nonce = req[q].who
    <3>1. /\ req'[q].who = req[q].who /\ req'[q].act = req[q].act
          /\ req[q].who \in Browsers /\ req[q].act \in Acts
      BY <1>9, <2>2, GoFacts DEF Compare, HandInv, InHand
    <3>2. ASSUME NEW c \in Acts, NEW b \in Browsers, Holds(b, c)'
          PROVE  Holds(b, c) \/ (c = req[q].act /\ b = req[q].who)
      BY <2>1, <3>1, <3>2, MovedFacts DEF Holds, Opening
    <3>3. QED
      BY <2>1, <2>2, <3>1, <3>2 DEF BrowserInv
  <2>3. CASE ~(act[req[q].act].exists /\ act[req[q].act].nonce = req[q].who)
    <3>1. req'[q].pc = "idle"
      BY <1>9, <2>3, EndMoves DEF Compare, NoRequest
    <3>2. QED
      BY <2>1, <3>1, HoldersKept
  <2>4. QED
    BY <2>2, <2>3
<1>10. ASSUME NEW q \in Requests, Render(q) PROVE BrowserInv'
  <2>1. /\ UNCHANGED <<act, session, issue>> /\ Moved(q)
        /\ \/ req'[q].pc \in {"idle", "touch"}
           \/ /\ req[q].pc = "render" /\ req'[q].who = req[q].who /\ req'[q].act = req[q].act
              /\ req'[q].session = req[q].session
    BY <1>10, RenderMoves DEF NoRequest
  <2>2. QED
    BY <2>1, HoldersKept
<1>11. ASSUME NEW q \in Requests, Mint(q) PROVE BrowserInv'
  <2>1. PICK s \in Sessions :
          /\ session[s] = NoSession /\ req[q].pc = "mint" /\ End(q)
          /\ session' = [session EXCEPT ![s] = [act |-> req[q].act, nonce |-> req[q].who,
                                                age |-> req[q].age, idle |-> req[q].age]]
          /\ UNCHANGED <<decision, act, issue, stored, told, refused, acked, unrouted, pruned>>
    BY <1>11, MintFacts
  <2>2. Moved(q) /\ req'[q] = NoRequest /\ req[q].session = Nothing
    BY <2>1, EndMoves DEF TypeOK
  <2>3. /\ session'[s].act = req[q].act /\ session'[s].nonce = req[q].who
        /\ \A t \in Sessions : t # s => session'[t] = session[t]
    BY <2>1 DEF TypeOK
  <2>4. ASSUME NEW c \in Acts, NEW b \in Browsers, Holds(b, c)' PROVE Holds(b, c)
    <3>1. CASE \E t \in Sessions : session'[t].act = c /\ session'[t].nonce = b
      BY <2>1, <2>2, <2>3, <3>1 DEF Holds, Opening
    <3>2. CASE \E p \in Requests : Opening(p, c)' /\ req'[p].who = b
      <4>1. PICK p \in Requests : Opening(p, c)' /\ req'[p].who = b
        BY <3>2
      <4>2. p # q
        BY <2>2, <4>1 DEF Opening, NoRequest
      <4>3. req'[p] = req[p]
        BY <2>2, <4>2, MovedFacts
      <4>4. QED
        BY <4>1, <4>3 DEF Holds, Opening
    <3>3. QED
      BY <2>4, <3>1, <3>2 DEF Holds
  <2>5. QED
    BY <2>1, <2>4 DEF BrowserInv
<1>12. ASSUME NEW q \in Requests, StoreReceipt(q) PROVE BrowserInv'
  <2>1. UNCHANGED <<act, session, issue>> /\ Moved(q) /\ req'[q].pc \in {"idle", "tell"}
    <3>1. CASE End(q)
      BY <1>12, <3>1, EndMoves DEF StoreReceipt, NoRequest
    <3>2. CASE Go(q, "tell")
      BY <1>12, <3>2, GoMoves, GoFacts DEF StoreReceipt
    <3>3. QED
      BY <1>12, <3>1, <3>2 DEF StoreReceipt
  <2>2. QED
    BY <2>1, HoldersKept
<1>13. ASSUME NEW q \in Requests, Tell(q) PROVE BrowserInv'
  <2>1. UNCHANGED <<act, session, issue>> /\ Moved(q) /\ req'[q].pc = "touch"
    BY <1>13, GoMoves, GoFacts DEF Tell
  <2>2. QED
    BY <2>1, HoldersKept
<1>14. ASSUME NEW q \in Requests, Touch(q) PROVE BrowserInv'
  <2>1. /\ UNCHANGED <<act, issue>> /\ Moved(q) /\ req'[q].pc = "idle"
        /\ \A t \in Sessions : session'[t].act = session[t].act /\ session'[t].nonce = session[t].nonce
    BY <1>14, EndMoves, TouchFacts DEF Touch, NoRequest
  <2>2. QED
    BY <2>1, HoldersKept
<1>15. ASSUME NEW q \in Requests, RequestFails(q) PROVE BrowserInv'
  <2>1. UNCHANGED <<act, session, issue>> /\ Moved(q) /\ req'[q].pc = "idle"
    BY <1>15, EndMoves DEF RequestFails, NoRequest
  <2>2. QED
    BY <2>1, HoldersKept
<1>16. CASE Tick
  <2>1. /\ \A c \in Acts : act'[c].exists = act[c].exists /\ act'[c].nonce = act[c].nonce
        /\ \A t \in Sessions : session'[t].act = session[t].act /\ session'[t].nonce = session[t].nonce
        /\ \A q \in Requests : Same(q)
        /\ UNCHANGED issue
    BY <1>16, TickFacts
  <2>2. \A c \in Acts, b \in Browsers : Holds(b, c)' <=> Holds(b, c)
    BY <2>1 DEF Holds, Opening, Same
  <2>3. QED
    BY <2>1, <2>2 DEF BrowserInv
<1>17. CASE SweepLinks
  <2>1. UNCHANGED <<session, req, issue>> /\ \A c \in Acts : act'[c] = act[c] \/ ~act'[c].exists
    BY <1>17 DEF SweepLinks, NoAct
  <2>2. QED
    BY <2>1 DEF BrowserInv, Holds, Opening
<1>18. CASE SweepSessions
  <2>1. /\ UNCHANGED <<act, req, issue>>
        /\ \A t \in Sessions : session'[t] = session[t] \/ session'[t].act \notin Acts
    BY <1>18, NameAssumption DEF SweepSessions, Gone, NoSession
  <2>2. \A c \in Acts, b \in Browsers : Holds(b, c)' => Holds(b, c)
    BY <2>1 DEF Holds, Opening
  <2>3. QED
    BY <2>1, <2>2 DEF BrowserInv
<1>19. CASE SweepDecision
  BY <1>19 DEF SweepDecision, BrowserInv, Holds, Opening
<1>20. CASE UNCHANGED vars
  BY <1>20 DEF vars, BrowserInv, Holds, Opening
<1>21. QED
  BY <1>1, <1>2, <1>3, <1>4, <1>5, <1>6, <1>7, <1>8, <1>9, <1>10, <1>11, <1>12, <1>13, <1>14,
     <1>15, <1>16, <1>17, <1>18, <1>19, <1>20
     DEF Next, Issuing, Handling, Arrival

LEMMA BrowserAlways == Spec => []BrowserInv
<1>1. Init => BrowserInv
  BY NameAssumption DEF Init, BrowserInv, Holds, Opening, NoAct, NoSession, NoRequest
<1>2. QED
  BY <1>1, BrowserStep, TypeAlways, PTL DEF Spec

-----------------------------------------------------------------------------
LEMMA BindFacts ==
  ASSUME TypeOK, HandInv, NEW q \in Requests, Bind(q)
  PROVE  /\ Moved(q) /\ req'[q].pc \in {"render", "compare"}
         /\ act[req[q].act].exists /\ act[req[q].act].nonce = Nothing => req'[q].pc = "render"
<1>1. CASE act[req[q].act].exists /\ act[req[q].act].nonce = Nothing
  <2>1. req[q].pc = "bind" /\ Go(q, "render")
    BY <1>1 DEF Bind
  <2>2. Moved(q)
    BY <2>1, GoMoves
  <2>3. QED
    BY <2>1, <2>2, GoFacts
<1>2. CASE ~(act[req[q].act].exists /\ act[req[q].act].nonce = Nothing)
  <2>1. req[q].pc = "bind" /\ Go(q, "compare")
    BY <1>2 DEF Bind
  <2>2. Moved(q)
    BY <2>1, GoMoves
  <2>3. QED
    BY <1>2, <2>1, <2>2, GoFacts
<1>3. QED
  BY <1>1, <1>2

LEMMA MovedRefused ==
  ASSUME TypeOK, HandInv, RefusedInv, NEW q \in Requests, Moved(q), UNCHANGED <<act, issue, refused>>,
         req'[q].pc \notin {"bind", "compare"}
  PROVE  RefusedInv'
BY MovedFacts DEF RefusedInv

LEMMA RefusedStep == TypeOK /\ HandInv /\ BrowserInv /\ RefusedInv /\ [Next]_vars => RefusedInv'
<1> SUFFICES ASSUME TypeOK, HandInv, BrowserInv, RefusedInv, [Next]_vars PROVE RefusedInv'
  OBVIOUS
<1>1. ASSUME NEW a \in Acts, EnsureDecision(a) PROVE RefusedInv'
  <2>1. UNCHANGED <<act, req, refused>> /\ \A c \in Acts : issue[c] = "done" => issue'[c] = "done"
    BY <1>1 DEF EnsureDecision, TypeOK
  <2>2. QED
    BY <2>1 DEF RefusedInv, TypeOK, HandInv, InHand
<1>2. ASSUME NEW a \in Acts, Freeze(a) PROVE RefusedInv'
  <2>1. UNCHANGED <<act, req, refused>> /\ \A c \in Acts : issue[c] = "done" => issue'[c] = "done"
    BY <1>2 DEF Freeze, TypeOK
  <2>2. QED
    BY <2>1 DEF RefusedInv, TypeOK, HandInv, InHand
<1>3. ASSUME NEW a \in Acts, StoreLink(a) PROVE RefusedInv'
  <2>1. UNCHANGED <<req, refused>> /\ issue[a] = "linked"
        /\ \A c \in Acts : c # a => act'[c] = act[c] /\ issue'[c] = issue[c]
    BY <1>3 DEF StoreLink, TypeOK
  <2>2. ASSUME NEW q \in Requests, req[q].pc \in {"bind", "compare"}
        PROVE  req[q].act \in Acts /\ req[q].act # a
    BY <2>1, <2>2 DEF RefusedInv, HandInv, InHand
  <2>3. ASSUME NEW r \in refused PROVE r[1] \in Acts /\ r[1] # a
    BY <2>1 DEF RefusedInv, TypeOK
  <2>4. QED
    BY <2>1, <2>2, <2>3 DEF RefusedInv
<1>4. ASSUME NEW a \in Acts, IssueFails(a) PROVE RefusedInv'
  <2>1. UNCHANGED <<act, req, refused>> /\ \A c \in Acts : issue[c] = "done" => issue'[c] = "done"
    BY <1>4 DEF IssueFails, TypeOK
  <2>2. QED
    BY <2>1 DEF RefusedInv, TypeOK, HandInv, InHand
<1>5. ASSUME NEW q \in Requests, NEW b \in Browsers, NEW a \in Acts, Redeem(q, b, a)
      PROVE  RefusedInv'
  <2>1. /\ UNCHANGED <<act, issue, refused>> /\ Moved(q) /\ req'[q].pc = "bind"
        /\ req'[q].act = a /\ act[a].exists
    BY <1>5, RedeemMoves
  <2>2. issue[a] = "done"
    BY <2>1 DEF BrowserInv
  <2>3. QED
    BY <2>1, <2>2, MovedFacts DEF RefusedInv
<1>6. ASSUME NEW q \in Requests, NEW b \in Browsers, Visit(q, b) PROVE RefusedInv'
  <2>1. UNCHANGED <<act, issue, refused>> /\ Moved(q) /\ req'[q].pc \in {"visit", "store"}
    BY <1>6, OpenMoves DEF Visit
  <2>2. QED
    BY <2>1, MovedRefused
<1>7. ASSUME NEW q \in Requests, NEW b \in Browsers, Post(q, b) PROVE RefusedInv'
  <2>1. UNCHANGED <<act, issue, refused>> /\ Moved(q) /\ req'[q].pc \in {"visit", "store"}
    BY <1>7, OpenMoves DEF Post
  <2>2. QED
    BY <2>1, MovedRefused
<1>8. ASSUME NEW q \in Requests, Bind(q) PROVE RefusedInv'
  <2>1. /\ req[q].pc = "bind" /\ Moved(q) /\ UNCHANGED <<issue, refused>>
        /\ req'[q].act = req[q].act /\ req[q].who \in Browsers /\ req[q].act \in Acts
    BY <1>8, GoMoves, GoFacts DEF Bind, HandInv, InHand
  <2>2. CASE act[req[q].act].exists /\ act[req[q].act].nonce = Nothing
    <3>1. act' = [act EXCEPT ![req[q].act] = [act[req[q].act] EXCEPT !.nonce = req[q].who]]
      BY <1>8, <2>2 DEF Bind
    <3>2. /\ \A c \in Acts : c # req[q].act => act'[c] = act[c]
          /\ act'[req[q].act].exists /\ act'[req[q].act].nonce = req[q].who /\ req[q].who # Nothing
      BY <2>1, <2>2, <3>1, NameAssumption DEF TypeOK, Activation
    <3>3. \A r \in refused : r[1] \in Acts /\ r[1] # req[q].act
      BY <2>2 DEF RefusedInv, TypeOK
    <3>4. req'[q].pc = "render"
      BY <1>8, <2>2, BindFacts
    <3>5. ASSUME NEW p \in Requests, req'[p].pc \in {"bind", "compare"}
          PROVE  /\ issue[req'[p].act] = "done"
                 /\ req'[p].pc = "compare" /\ act'[req'[p].act].exists => act'[req'[p].act].nonce # Nothing
      <4>1. p # q /\ req'[p] = req[p]
        BY <2>1, <3>4, <3>5, MovedFacts
      <4>2. req[p].act \in Acts
        BY <3>5, <4>1 DEF HandInv, InHand
      <4>3. QED
        BY <3>2, <3>5, <4>1, <4>2 DEF RefusedInv
    <3>6. QED
      BY <2>1, <3>2, <3>3, <3>5 DEF RefusedInv
  <2>3. CASE ~(act[req[q].act].exists /\ act[req[q].act].nonce = Nothing)
    <3>1. act' = act
      BY <1>8, <2>3 DEF Bind
    <3>2. QED
      BY <2>1, <2>3, <3>1, MovedFacts DEF RefusedInv
  <2>4. QED
    BY <2>2, <2>3
<1>9. ASSUME NEW q \in Requests, Compare(q) PROVE RefusedInv'
  <2>1. /\ req[q].pc = "compare" /\ Moved(q) /\ UNCHANGED <<act, issue>>
        /\ req[q].who \in Browsers /\ req[q].act \in Acts
    BY <1>9, GoMoves, EndMoves DEF Compare, HandInv, InHand
  <2>2. CASE act[req[q].act].exists /\ act[req[q].act].nonce = req[q].who
    <3>1. req'[q].pc = "render" /\ refused' = refused
      BY <1>9, <2>2, GoFacts DEF Compare
    <3>2. QED
      BY <2>1, <3>1, MovedRefused
  <2>3. CASE ~(act[req[q].act].exists /\ act[req[q].act].nonce = req[q].who)
    <3>1. req'[q].pc = "idle" /\ refused' = refused \cup {<<req[q].act, req[q].who>>}
      BY <1>9, <2>3, EndMoves DEF Compare, NoRequest
    <3>2. /\ issue[req[q].act] = "done"
          /\ act[req[q].act].exists => act[req[q].act].nonce \notin {Nothing, req[q].who}
      BY <2>1, <2>3 DEF RefusedInv
    <3>3. QED
      BY <2>1, <3>1, <3>2, MovedFacts DEF RefusedInv
  <2>4. QED
    BY <2>2, <2>3
<1>10. ASSUME NEW q \in Requests, Render(q) PROVE RefusedInv'
  <2>1. UNCHANGED <<act, issue, refused>> /\ Moved(q) /\ req'[q].pc \in {"idle", "mint", "touch"}
    BY <1>10, RenderMoves DEF NoRequest
  <2>2. QED
    BY <2>1, MovedRefused
<1>11. ASSUME NEW q \in Requests, Mint(q) PROVE RefusedInv'
  <2>1. UNCHANGED <<act, issue, refused>> /\ Moved(q) /\ req'[q].pc = "idle"
    BY <1>11, MintFacts, EndMoves DEF NoRequest
  <2>2. QED
    BY <2>1, MovedRefused
<1>12. ASSUME NEW q \in Requests, StoreReceipt(q) PROVE RefusedInv'
  <2>1. UNCHANGED <<act, issue, refused>> /\ Moved(q) /\ req'[q].pc \in {"idle", "tell"}
    <3>1. CASE End(q)
      BY <1>12, <3>1, EndMoves DEF StoreReceipt, NoRequest
    <3>2. CASE Go(q, "tell")
      BY <1>12, <3>2, GoMoves, GoFacts DEF StoreReceipt
    <3>3. QED
      BY <1>12, <3>1, <3>2 DEF StoreReceipt
  <2>2. QED
    BY <2>1, MovedRefused
<1>13. ASSUME NEW q \in Requests, Tell(q) PROVE RefusedInv'
  <2>1. UNCHANGED <<act, issue, refused>> /\ Moved(q) /\ req'[q].pc = "touch"
    BY <1>13, GoMoves, GoFacts DEF Tell
  <2>2. QED
    BY <2>1, MovedRefused
<1>14. ASSUME NEW q \in Requests, Touch(q) PROVE RefusedInv'
  <2>1. UNCHANGED <<act, issue, refused>> /\ Moved(q) /\ req'[q].pc = "idle"
    BY <1>14, EndMoves DEF Touch, NoRequest
  <2>2. QED
    BY <2>1, MovedRefused
<1>15. ASSUME NEW q \in Requests, RequestFails(q) PROVE RefusedInv'
  <2>1. UNCHANGED <<act, issue, refused>> /\ Moved(q) /\ req'[q].pc = "idle"
    BY <1>15, EndMoves DEF RequestFails, NoRequest
  <2>2. QED
    BY <2>1, MovedRefused
<1>16. CASE Tick
  <2>1. /\ \A c \in Acts : act'[c].exists = act[c].exists /\ act'[c].nonce = act[c].nonce
        /\ \A q \in Requests : Same(q)
        /\ UNCHANGED <<issue, refused>>
    BY <1>16, TickFacts
  <2>2. \A q \in Requests : req[q].pc \in {"bind", "compare"} => req[q].act \in Acts
    BY DEF HandInv, InHand
  <2>3. \A r \in refused : r[1] \in Acts
    BY DEF TypeOK
  <2>4. QED
    BY <2>1, <2>2, <2>3 DEF RefusedInv, Same
<1>17. CASE SweepLinks
  <2>1. UNCHANGED <<req, issue, refused>> /\ \A c \in Acts : act'[c] = act[c] \/ ~act'[c].exists
    BY <1>17 DEF SweepLinks, NoAct
  <2>2. \A q \in Requests : req[q].pc \in {"bind", "compare"} => req[q].act \in Acts
    BY DEF HandInv, InHand
  <2>3. \A r \in refused : r[1] \in Acts
    BY DEF TypeOK
  <2>4. QED
    BY <2>1, <2>2, <2>3 DEF RefusedInv
<1>18. CASE SweepSessions
  BY <1>18 DEF SweepSessions, RefusedInv
<1>19. CASE SweepDecision
  BY <1>19 DEF SweepDecision, RefusedInv
<1>20. CASE UNCHANGED vars
  BY <1>20 DEF vars, RefusedInv
<1>21. QED
  BY <1>1, <1>2, <1>3, <1>4, <1>5, <1>6, <1>7, <1>8, <1>9, <1>10, <1>11, <1>12, <1>13, <1>14,
     <1>15, <1>16, <1>17, <1>18, <1>19, <1>20
     DEF Next, Issuing, Handling, Arrival

LEMMA RefusedAlways == Spec => []RefusedInv
<1>1. Init => RefusedInv
  BY DEF Init, RefusedInv, NoRequest
<1>2. QED
  BY <1>1, RefusedStep, BrowserAlways, TypeAlways, PTL DEF Spec

-----------------------------------------------------------------------------
LEMMA MovedOffer ==
  ASSUME TypeOK, HandInv, OfferInv, NEW q \in Requests, Moved(q), UNCHANGED <<decision, pruned>>,
         shown' = shown \/ (Wording(req[q]) /\ shown' \subseteq shown \cup {req[q].snapshot}),
         ~Wording(req'[q]) \/ req'[q].snapshot = decision.snapshot
  PROVE  OfferInv'
<1>1. \A p \in Requests : p # q => req'[p] = req[p]
  BY MovedFacts
<1>2. QED
  BY <1>1 DEF OfferInv

LEMMA OfferStep == TypeOK /\ HandInv /\ OfferInv /\ [Next]_vars => OfferInv'
<1> SUFFICES ASSUME TypeOK, HandInv, OfferInv, [Next]_vars PROVE OfferInv'
  OBVIOUS
<1>1. ASSUME NEW a \in Acts, EnsureDecision(a) PROVE OfferInv'
  BY <1>1 DEF EnsureDecision, OfferInv, Wording
<1>2. ASSUME NEW a \in Acts, Freeze(a) PROVE OfferInv'
  <2>1. UNCHANGED <<req, shown, pruned>>
        /\ decision'.snapshot = IF Frozen THEN decision.snapshot ELSE a
    BY <1>2 DEF Freeze
  <2>2. CASE Frozen
    BY <2>1, <2>2 DEF OfferInv, Wording
  <2>3. CASE ~Frozen
    <3>1. decision.snapshot = Nothing /\ Nothing \notin Acts
      BY <2>3, NameAssumption DEF Frozen
    <3>2. \A q \in Requests : Wording(req[q]) => req[q].snapshot \in Acts
      BY DEF HandInv, InHand, Wording
    <3>3. \A x \in shown : x \in Acts
      BY DEF TypeOK
    <3>4. QED
      BY <2>1, <3>1, <3>2, <3>3 DEF OfferInv
  <2>4. QED
    BY <2>2, <2>3
<1>3. ASSUME NEW a \in Acts, StoreLink(a) PROVE OfferInv'
  BY <1>3 DEF StoreLink, OfferInv, Wording
<1>4. ASSUME NEW a \in Acts, IssueFails(a) PROVE OfferInv'
  BY <1>4 DEF IssueFails, OfferInv, Wording
<1>5. ASSUME NEW q \in Requests, NEW b \in Browsers, NEW a \in Acts, Redeem(q, b, a)
      PROVE  OfferInv'
  <2>1. UNCHANGED <<decision, shown, pruned>> /\ Moved(q) /\ ~Wording(req'[q])
    BY <1>5, RedeemMoves DEF Wording
  <2>2. QED
    BY <2>1, MovedOffer
<1>6. ASSUME NEW q \in Requests, NEW b \in Browsers, Visit(q, b) PROVE OfferInv'
  <2>1. UNCHANGED <<decision, shown, pruned>> /\ Moved(q) /\ ~Wording(req'[q])
    BY <1>6, OpenMoves DEF Visit, Wording
  <2>2. QED
    BY <2>1, MovedOffer
<1>7. ASSUME NEW q \in Requests, NEW b \in Browsers, Post(q, b) PROVE OfferInv'
  <2>1. UNCHANGED <<decision, shown, pruned>> /\ Moved(q) /\ ~Wording(req'[q])
    BY <1>7, OpenMoves DEF Post, Wording
  <2>2. QED
    BY <2>1, MovedOffer
<1>8. ASSUME NEW q \in Requests, Bind(q) PROVE OfferInv'
  <2>1. UNCHANGED <<decision, shown, pruned>> /\ Moved(q) /\ ~Wording(req'[q])
    BY <1>8, BindFacts DEF Bind, Wording
  <2>2. QED
    BY <2>1, MovedOffer
<1>9. ASSUME NEW q \in Requests, Compare(q) PROVE OfferInv'
  <2>1. UNCHANGED <<decision, shown, pruned>> /\ Moved(q) /\ ~Wording(req'[q])
    <3>1. CASE End(q)
      BY <1>9, <3>1, EndMoves DEF Compare, NoRequest, Wording
    <3>2. CASE Go(q, "render")
      <4>1. Moved(q) /\ UNCHANGED <<decision, shown, pruned>>
        BY <1>9, <3>2, GoMoves DEF Compare
      <4>2. req'[q].pc = "render"
        BY <3>2, GoFacts
      <4>3. QED
        BY <4>1, <4>2 DEF Wording
    <3>3. QED
      BY <1>9, <3>1, <3>2 DEF Compare
  <2>2. QED
    BY <2>1, MovedOffer
<1>10. ASSUME NEW q \in Requests, Render(q) PROVE OfferInv'
  <2>1. /\ UNCHANGED <<decision, shown, pruned>> /\ Moved(q)
        /\ ~Wording(req'[q]) \/ req'[q].snapshot = decision.snapshot
    BY <1>10, RenderMoves DEF NoRequest, Wording
  <2>2. QED
    BY <2>1, MovedOffer
<1>11. ASSUME NEW q \in Requests, Mint(q) PROVE OfferInv'
  <2>1. /\ UNCHANGED <<decision, pruned>> /\ Moved(q) /\ req'[q].pc = "idle" /\ Wording(req[q])
        /\ shown' \subseteq shown \cup {req[q].snapshot}
    BY <1>11, MintFacts, EndMoves DEF NoRequest, Wording
  <2>2. QED
    BY <2>1, MovedOffer DEF Wording
<1>12. ASSUME NEW q \in Requests, StoreReceipt(q) PROVE OfferInv'
  <2>1. UNCHANGED <<decision, shown, pruned>> /\ Moved(q) /\ ~Wording(req'[q])
    <3>1. CASE End(q)
      BY <1>12, <3>1, EndMoves DEF StoreReceipt, NoRequest, Wording
    <3>2. CASE Go(q, "tell")
      <4>1. Moved(q) /\ UNCHANGED <<decision, shown, pruned>>
        BY <1>12, <3>2, GoMoves DEF StoreReceipt
      <4>2. req'[q].pc = "tell"
        BY <3>2, GoFacts
      <4>3. QED
        BY <4>1, <4>2 DEF Wording
    <3>3. QED
      BY <1>12, <3>1, <3>2 DEF StoreReceipt
  <2>2. QED
    BY <2>1, MovedOffer
<1>13. ASSUME NEW q \in Requests, Tell(q) PROVE OfferInv'
  <2>1. UNCHANGED <<decision, shown, pruned>> /\ Moved(q) /\ ~Wording(req'[q])
    <3>1. UNCHANGED <<decision, shown, pruned>> /\ Go(q, "touch") /\ req[q].pc = "tell"
      BY <1>13 DEF Tell
    <3>2. Moved(q)
      BY <3>1, GoMoves
    <3>3. req'[q].pc = "touch" /\ req'[q].post
      BY <3>1, GoFacts DEF HandInv, InHand
    <3>4. QED
      BY <3>1, <3>2, <3>3 DEF Wording
  <2>2. QED
    BY <2>1, MovedOffer
<1>14. ASSUME NEW q \in Requests, Touch(q) PROVE OfferInv'
  <2>1. /\ UNCHANGED <<decision, pruned>> /\ Moved(q) /\ req'[q].pc = "idle"
        /\ shown' \subseteq shown \cup {req[q].snapshot}
        /\ shown' = shown \/ Wording(req[q])
    BY <1>14, EndMoves DEF Touch, NoRequest, Wording
  <2>2. QED
    BY <2>1, MovedOffer DEF Wording
<1>15. ASSUME NEW q \in Requests, RequestFails(q) PROVE OfferInv'
  <2>1. UNCHANGED <<decision, shown, pruned>> /\ Moved(q) /\ ~Wording(req'[q])
    BY <1>15, EndMoves DEF RequestFails, NoRequest, Wording
  <2>2. QED
    BY <2>1, MovedOffer
<1>16. CASE Tick
  <2>1. decision'.snapshot = decision.snapshot /\ (\A q \in Requests : Same(q)) /\ UNCHANGED <<shown, pruned>>
    BY <1>16, TickFacts
  <2>2. QED
    BY <2>1 DEF OfferInv, Wording, Same
<1>17. CASE SweepLinks
  BY <1>17 DEF SweepLinks, OfferInv, Wording
<1>18. CASE SweepSessions
  BY <1>18 DEF SweepSessions, OfferInv, Wording
<1>19. CASE SweepDecision
  BY <1>19 DEF SweepDecision, OfferInv
<1>20. CASE UNCHANGED vars
  BY <1>20 DEF vars, OfferInv, Wording
<1>21. QED
  BY <1>1, <1>2, <1>3, <1>4, <1>5, <1>6, <1>7, <1>8, <1>9, <1>10, <1>11, <1>12, <1>13, <1>14,
     <1>15, <1>16, <1>17, <1>18, <1>19, <1>20
     DEF Next, Issuing, Handling, Arrival

LEMMA OfferAlways == Spec => []OfferInv
<1>1. Init => OfferInv
  BY DEF Init, OfferInv, Wording, NoRequest
<1>2. QED
  BY <1>1, OfferStep, TypeAlways, PTL DEF Spec

\* At most one wording is shown when all that were shown are the same.
LEMMA OneWording ==
  ASSUME NEW x, NEW S, \A y \in S : y = x PROVE ~(Cardinality(S) > 1)
<1>1. CASE S = {}
  BY <1>1, FS_EmptySet
<1>2. CASE S # {}
  <2>1. S = {x}
    BY <1>2
  <2>2. Cardinality({x}) = 1
    BY FS_Singleton
  <2>3. QED
    BY <2>1, <2>2
<1>3. QED
  BY <1>1, <1>2

\* One browser per link, which is never refused, and one wording for everybody,
\* whatever redeems, visits, lost answers and sweeps overlap.
THEOREM OffersCorrect == Spec => []OffersHold
<1>1. HandInv /\ BrowserInv => OneBrowser
  <2> SUFFICES ASSUME HandInv, BrowserInv, NEW s \in Sessions, Minted(s)
               PROVE  /\ act[session[s].act].exists => act[session[s].act].nonce = session[s].nonce
                      /\ \A t \in Sessions :
                           session[t].act = session[s].act => session[t].nonce = session[s].nonce
    BY DEF OneBrowser
  <2>1. session[s].act \in Acts /\ session[s].nonce \in Browsers
    BY DEF HandInv, Minted
  <2>2. \A t \in Sessions : session[t].act = session[s].act =>
          session[t].nonce \in Browsers /\ Holds(session[t].nonce, session[s].act)
    BY <2>1 DEF HandInv, Minted, Holds
  <2>3. QED
    BY <2>1, <2>2 DEF BrowserInv
<1>2. RefusedInv => OnlyOthersRefused
  BY DEF RefusedInv, OnlyOthersRefused
<1>3. OfferInv => SameOffer
  BY OneWording DEF OfferInv, SameOffer
<1>4. QED
  BY <1>1, <1>2, <1>3, TypeAlways, BrowserAlways, RefusedAlways, OfferAlways, PTL DEF OffersHold

-----------------------------------------------------------------------------
LEMMA MovedReceipt ==
  ASSUME TypeOK, HandInv, ReceiptInv, NEW q \in Requests, Moved(q), acked' = acked,
         stored \subseteq stored', told \subseteq told', unrouted \subseteq unrouted', Receipt(req[q])'
  PROVE  ReceiptInv'
<1>1. \A p \in Requests : p # q => req'[p] = req[p]
  BY MovedFacts
<1>2. AcknowledgedIsTold'
  BY DEF ReceiptInv, AcknowledgedIsTold
<1>3. \A p \in Requests : Receipt(req[p])'
  BY <1>1 DEF ReceiptInv, Receipt
<1>4. QED
  BY <1>2, <1>3 DEF ReceiptInv

LEMMA ReceiptStep == TypeOK /\ HandInv /\ ReceiptInv /\ [Next]_vars => ReceiptInv'
<1> SUFFICES ASSUME TypeOK, HandInv, ReceiptInv, [Next]_vars PROVE ReceiptInv'
  OBVIOUS
<1>1. ASSUME NEW a \in Acts, EnsureDecision(a) PROVE ReceiptInv'
  BY <1>1 DEF EnsureDecision, ReceiptInv, AcknowledgedIsTold, Receipt
<1>2. ASSUME NEW a \in Acts, Freeze(a) PROVE ReceiptInv'
  BY <1>2 DEF Freeze, ReceiptInv, AcknowledgedIsTold, Receipt
<1>3. ASSUME NEW a \in Acts, StoreLink(a) PROVE ReceiptInv'
  BY <1>3 DEF StoreLink, ReceiptInv, AcknowledgedIsTold, Receipt
<1>4. ASSUME NEW a \in Acts, IssueFails(a) PROVE ReceiptInv'
  BY <1>4 DEF IssueFails, ReceiptInv, AcknowledgedIsTold, Receipt
<1>5. ASSUME NEW q \in Requests, NEW b \in Browsers, NEW a \in Acts, Redeem(q, b, a)
      PROVE  ReceiptInv'
  <2>1. UNCHANGED <<acked, stored, told, unrouted>> /\ Moved(q) /\ Receipt(req[q])'
    BY <1>5, RedeemMoves DEF Receipt
  <2>2. QED
    BY <2>1, MovedReceipt
<1>6. ASSUME NEW q \in Requests, NEW b \in Browsers, Visit(q, b) PROVE ReceiptInv'
  <2>1. UNCHANGED <<acked, stored, told, unrouted>> /\ Moved(q) /\ Receipt(req[q])'
    BY <1>6, OpenMoves DEF Visit, Receipt
  <2>2. QED
    BY <2>1, MovedReceipt
<1>7. ASSUME NEW q \in Requests, NEW b \in Browsers, Post(q, b) PROVE ReceiptInv'
  <2>1. UNCHANGED <<acked, stored, told, unrouted>> /\ Moved(q) /\ Receipt(req[q])'
    BY <1>7, OpenMoves DEF Post, Receipt
  <2>2. QED
    BY <2>1, MovedReceipt
<1>8. ASSUME NEW q \in Requests, Bind(q) PROVE ReceiptInv'
  <2>1. UNCHANGED <<acked, stored, told, unrouted>> /\ Moved(q) /\ Receipt(req[q])'
    BY <1>8, BindFacts DEF Bind, Receipt
  <2>2. QED
    BY <2>1, MovedReceipt
<1>9. ASSUME NEW q \in Requests, Compare(q) PROVE ReceiptInv'
  <2>1. UNCHANGED <<acked, stored, told, unrouted>> /\ Moved(q) /\ Receipt(req[q])'
    <3>1. CASE End(q)
      BY <1>9, <3>1, EndMoves DEF Compare, NoRequest, Receipt
    <3>2. CASE Go(q, "render")
      <4>1. UNCHANGED <<acked, stored, told, unrouted>> /\ Moved(q)
        BY <1>9, <3>2, GoMoves DEF Compare
      <4>2. req'[q].pc = "render"
        BY <3>2, GoFacts
      <4>3. QED
        BY <4>1, <4>2 DEF Receipt
    <3>3. QED
      BY <1>9, <3>1, <3>2 DEF Compare
  <2>2. QED
    BY <2>1, MovedReceipt
<1>10. ASSUME NEW q \in Requests, Render(q) PROVE ReceiptInv'
  <2>1. UNCHANGED <<acked, stored, told, unrouted>> /\ Moved(q) /\ Receipt(req[q])'
    BY <1>10, RenderMoves DEF NoRequest, Receipt, HandInv, InHand
  <2>2. QED
    BY <2>1, MovedReceipt
<1>11. ASSUME NEW q \in Requests, Mint(q) PROVE ReceiptInv'
  <2>1. UNCHANGED <<acked, stored, told, unrouted>> /\ Moved(q) /\ Receipt(req[q])'
    BY <1>11, MintFacts, EndMoves DEF NoRequest, Receipt
  <2>2. QED
    BY <2>1, MovedReceipt
<1>12. ASSUME NEW q \in Requests, StoreReceipt(q) PROVE ReceiptInv'
  <2>1. /\ acked' = acked /\ told' = told /\ unrouted' = unrouted /\ stored \subseteq stored'
        /\ Moved(q) /\ Receipt(req[q])'
    <3>1. CASE End(q)
      BY <1>12, <3>1, EndMoves DEF StoreReceipt, NoRequest, Receipt
    <3>2. CASE ~End(q)
      <4>1. Go(q, "tell") /\ stored' = stored \cup {req[q].who}
        BY <1>12, <3>2 DEF StoreReceipt
      <4>2. Moved(q)
        BY <1>12, <4>1, GoMoves DEF StoreReceipt
      <4>3. req'[q].pc = "tell" /\ req'[q].who = req[q].who
        BY <4>1, GoFacts
      <4>4. acked' = acked /\ told' = told /\ unrouted' = unrouted
        BY <1>12 DEF StoreReceipt
      <4>5. QED
        BY <4>1, <4>2, <4>3, <4>4 DEF Receipt
    <3>3. QED
      BY <3>1, <3>2
  <2>2. QED
    BY <2>1, MovedReceipt
<1>13. ASSUME NEW q \in Requests, Tell(q) PROVE ReceiptInv'
  <2>1. /\ acked' = acked /\ stored' = stored /\ told \subseteq told' /\ unrouted \subseteq unrouted'
        /\ Moved(q) /\ Receipt(req[q])'
    <3>1. Go(q, "touch") /\ req[q].pc = "tell" /\ req[q].who \in told' \cup unrouted'
      BY <1>13 DEF Tell
    <3>2. req[q].who \in stored
      BY <3>1 DEF ReceiptInv, Receipt
    <3>3. QED
      BY <1>13, <3>1, <3>2, GoMoves, GoFacts DEF Tell, Receipt
  <2>2. QED
    BY <2>1, MovedReceipt
<1>14. ASSUME NEW q \in Requests, Touch(q) PROVE ReceiptInv'
  <2>1. /\ UNCHANGED <<stored, told, unrouted>> /\ Moved(q) /\ req'[q].pc = "idle" /\ req[q].pc = "touch"
        /\ acked' = IF req[q].post THEN acked \cup {req[q].who} ELSE acked
    BY <1>14, EndMoves DEF Touch, NoRequest
  <2>2. acked' \subseteq stored /\ acked' \subseteq told \cup unrouted
    BY <2>1 DEF ReceiptInv, Receipt, AcknowledgedIsTold
  <2>3. QED
    BY <2>1, <2>2, MovedFacts DEF ReceiptInv, Receipt, AcknowledgedIsTold
<1>15. ASSUME NEW q \in Requests, RequestFails(q) PROVE ReceiptInv'
  <2>1. /\ acked' = acked /\ stored' = stored /\ told \subseteq told' /\ unrouted' = unrouted
        /\ Moved(q) /\ Receipt(req[q])'
    BY <1>15, EndMoves DEF RequestFails, NoRequest, Receipt
  <2>2. QED
    BY <2>1, MovedReceipt
<1>16. CASE Tick
  <2>1. (\A q \in Requests : Same(q)) /\ UNCHANGED <<acked, stored, told, unrouted>>
    BY <1>16, TickFacts
  <2>2. QED
    BY <2>1 DEF ReceiptInv, Receipt, AcknowledgedIsTold, Same
<1>17. CASE SweepLinks
  BY <1>17 DEF SweepLinks, ReceiptInv, AcknowledgedIsTold, Receipt
<1>18. CASE SweepSessions
  BY <1>18 DEF SweepSessions, ReceiptInv, AcknowledgedIsTold, Receipt
<1>19. CASE SweepDecision
  BY <1>19 DEF SweepDecision, ReceiptInv, AcknowledgedIsTold, Receipt
<1>20. CASE UNCHANGED vars
  BY <1>20 DEF vars, ReceiptInv, AcknowledgedIsTold, Receipt
<1>21. QED
  BY <1>1, <1>2, <1>3, <1>4, <1>5, <1>6, <1>7, <1>8, <1>9, <1>10, <1>11, <1>12, <1>13, <1>14,
     <1>15, <1>16, <1>17, <1>18, <1>19, <1>20
     DEF Next, Issuing, Handling, Arrival

\* A receipt that was answered 201 is stored and told, or its campaign's callback
\* was not found.
THEOREM AcknowledgedCorrect == Spec => []AcknowledgedIsTold
<1>1. Init => ReceiptInv
  BY DEF Init, ReceiptInv, Receipt, AcknowledgedIsTold, NoRequest
<1>2. ReceiptInv => AcknowledgedIsTold
  BY DEF ReceiptInv
<1>3. QED
  BY <1>1, <1>2, ReceiptStep, TypeAlways, PTL DEF Spec
-----------------------------------------------------------------------------
HIDE DEF tables, history

(* Accounts, invitations and the key.                                        *)

AccountTypeOK ==
  /\ accept \in [Visitors -> [pc : {"idle", "create", "sign-in", "join"},
                              invite : Invites \cup {"none"}]]
  /\ keyOp \in [KeyOps -> {"todo", "read", "done", "refused"}]
  /\ key \in [secret : KeyOps \cup {"created"}, revoked : BOOLEAN]

\* The key is revoked when a revocation was written and not before, and its secret
\* is the one of a rotation that was written, if there was any.
KeyInv ==
  /\ key.revoked <=> \E o \in KeyOps \ Rotates : keyOp[o] = "done"
  /\ (\E o \in Rotates : keyOp[o] = "done") => key.secret \in Rotates /\ keyOp[key.secret] = "done"

AccountInv == AccountTypeOK /\ A!AccountsAreMembers /\ KeyInv

\* A step of the people that leaves the key alone.
LEMMA PeopleStep ==
  ASSUME AccountInv, UNCHANGED A!keys, A!AccountsAreMembers',
         accept' \in [Visitors -> [pc : {"idle", "create", "sign-in", "join"},
                                   invite : Invites \cup {"none"}]]
  PROVE  AccountInv'
BY DEF AccountInv, AccountTypeOK, KeyInv, A!keys

LEMMA AccountStep == AccountInv /\ [A!AccountNext]_account => AccountInv'
<1> SUFFICES ASSUME AccountInv, [A!AccountNext]_account PROVE AccountInv'
  OBVIOUS
<1>1. CASE A!SeedCheck
  BY <1>1, PeopleStep DEF A!SeedCheck, A!people, A!AccountsAreMembers, AccountInv, AccountTypeOK, A!Email
<1>2. CASE A!SeedUser
  BY <1>2, PeopleStep DEF A!SeedUser, A!AccountsAreMembers, AccountInv, AccountTypeOK, A!Email
<1>3. CASE A!SeedOrg
  BY <1>3, PeopleStep DEF A!SeedOrg, A!AccountsAreMembers, AccountInv, AccountTypeOK, A!Email
<1>4. ASSUME NEW i \in Invites, A!Invite(i) PROVE AccountInv'
  BY <1>4, PeopleStep DEF A!Invite, A!AccountsAreMembers, AccountInv, AccountTypeOK, A!Email
<1>5. ASSUME NEW i \in Invites, NEW how \in {"canceled", "expired"}, A!Withdraw(i, how)
      PROVE  AccountInv'
  BY <1>5, PeopleStep DEF A!Withdraw, A!AccountsAreMembers, AccountInv, AccountTypeOK, A!Email
<1>r. ASSUME NEW e \in Emails, A!Remove(e) PROVE AccountInv'
  BY <1>r, PeopleStep DEF A!Remove, A!AccountsAreMembers, AccountInv, AccountTypeOK, A!Email
<1>6. ASSUME NEW b \in Visitors, NEW i \in Invites, A!Post(b, i) PROVE AccountInv'
  BY <1>6, PeopleStep DEF A!Post, A!people, A!AccountsAreMembers, AccountInv, AccountTypeOK, A!Email
<1>7. ASSUME NEW b \in Visitors, A!CreateUser(b) PROVE AccountInv'
  BY <1>7, PeopleStep
     DEF A!CreateUser, A!Back, A!Go, A!AccountsAreMembers, AccountInv, AccountTypeOK, A!Email
<1>8. ASSUME NEW b \in Visitors, A!SignIn(b) PROVE AccountInv'
  BY <1>8, PeopleStep
     DEF A!SignIn, A!Go, A!people, A!AccountsAreMembers, AccountInv, AccountTypeOK, A!Email
<1>9. ASSUME NEW b \in Visitors, A!Join(b) PROVE AccountInv'
  BY <1>9, PeopleStep DEF A!Join, A!Back, A!AccountsAreMembers, AccountInv, AccountTypeOK, A!Email
<1>10. ASSUME NEW b \in Visitors, A!CallFails(b) PROVE AccountInv'
  BY <1>10, PeopleStep DEF A!CallFails, A!Back, A!AccountsAreMembers, AccountInv, AccountTypeOK, A!Email
<1>11. ASSUME NEW o \in KeyOps, A!KeyRead(o) PROVE AccountInv'
  BY <1>11 DEF A!KeyRead, A!people, A!AccountsAreMembers, AccountInv, AccountTypeOK, KeyInv, A!Email
<1>12. ASSUME NEW o \in KeyOps, A!KeyWrite(o) PROVE AccountInv'
  <2>1. AccountTypeOK' /\ A!AccountsAreMembers'
    BY <1>12 DEF A!KeyWrite, A!Written, A!people, A!AccountsAreMembers, AccountInv, AccountTypeOK,
                 A!Email
  <2>2. /\ keyOp[o] = "read" /\ keyOp' = [keyOp EXCEPT ![o] = "done"]
        /\ o \in Rotates => key'.secret = o /\ key'.revoked = key.revoked
        /\ o \notin Rotates => key'.secret = key.secret /\ key'.revoked = TRUE
    BY <1>12 DEF A!KeyWrite, A!Written, AccountInv, AccountTypeOK
  <2>3. keyOp \in [KeyOps -> {"todo", "read", "done", "refused"}] /\ Rotates \subseteq KeyOps
    BY VisitsAssumption DEF AccountInv, AccountTypeOK, A!AccountAssumption
  <2>4. KeyInv'
    BY <2>2, <2>3 DEF KeyInv, AccountInv
  <2>5. QED
    BY <2>1, <2>4 DEF AccountInv
<1>13. CASE A!AccountCrash
  <2>1. A!AccountsAreMembers'
    BY <1>13 DEF A!AccountCrash, A!AccountsAreMembers, AccountInv, AccountTypeOK, A!Email
  <2>2. AccountTypeOK' /\ KeyInv'
    BY <1>13, VisitsAssumption
       DEF A!AccountCrash, AccountInv, AccountTypeOK, KeyInv, A!AccountAssumption
  <2>3. QED
    BY <2>1, <2>2 DEF AccountInv
<1>14. CASE UNCHANGED account
  BY <1>14 DEF account, AccountInv, AccountTypeOK, A!AccountsAreMembers, KeyInv, A!Email
<1>15. QED
  BY <1>1, <1>2, <1>3, <1>4, <1>5, <1>r, <1>6, <1>7, <1>8, <1>9, <1>10, <1>11, <1>12, <1>13,
     <1>14
     DEF A!AccountNext

LEMMA AccountBase == A!AccountInit => AccountInv
BY VisitsAssumption
   DEF A!AccountInit, AccountInv, AccountTypeOK, A!AccountsAreMembers, KeyInv, A!AccountAssumption

LEMMA AccountFacts == AccountInv => A!AccountsHold
<1> SUFFICES ASSUME AccountInv PROVE A!AccountsHold
  OBVIOUS
<1>1. A!AccountsAreMembers
  BY DEF AccountInv
<1>2. A!KeysHold
  BY DEF AccountInv, KeyInv, AccountTypeOK, A!KeysHold, A!Verifies
<1>3. QED
  BY <1>1, <1>2 DEF A!AccountsHold

\* Whoever has an account is a member or was cut off on the way; a revoked key stays
\* dead, and before that one of the keys given out works.
THEOREM MembersCorrect == A!AccountSpec => []A!AccountsHold
<1>1. AccountInv /\ [A!AccountNext]_(A!accountVars) => AccountInv'
  BY AccountStep DEF A!accountVars, account
<1>2. QED
  BY <1>1, AccountBase, AccountFacts, PTL DEF A!AccountSpec

\* The same of the instance the runs check.
THEOREM AccountsCorrect == MCSpec => []AccountsHold
<1>1. MCInit => AccountInv
  BY AccountBase DEF MCInit
<1>2. AccountInv /\ [MCNext]_<<part, vars, account, logs, links>> => AccountInv'
  <2> SUFFICES ASSUME AccountInv, [MCNext]_<<part, vars, account, logs, links>> PROVE AccountInv'
    OBVIOUS
  <2>1. [A!AccountNext]_account
    BY DEF MCNext
  <2>2. QED
    BY <2>1, AccountStep
<1>3. AccountInv => AccountsHold
  BY AccountFacts DEF AccountsHold
<1>4. QED
  BY <1>1, <1>2, <1>3, PTL DEF MCSpec
-----------------------------------------------------------------------------
(* The log sinks.                                                            *)

Waiting == L!ToSet(buffer)
Sending == L!ToSet(flight)

LogTypeOK ==
  /\ buffer \in Seq(Nat) /\ flight \in Seq(Nat) /\ written \in Nat /\ inflight \in Nat
  /\ endedAt \in 0 .. written /\ dbUp \in BOOLEAN /\ awaited \in BOOLEAN /\ quiet \in BOOLEAN
  /\ phase \in {"run", "ending", "exited"}

\* Every line is in one place, and what is handed over precedes what waits.
LineInv ==
  /\ Waiting \cup Sending \cup logTable \cup DOMAIN lost = 1 .. written
  /\ Waiting \cap Sending = {} /\ (Waiting \cup Sending) \cap logTable = {}
  /\ (Waiting \cup Sending \cup logTable) \cap DOMAIN lost = {}
  /\ \A x \in Sending, y \in Waiting : x < y

SlotInv ==
  /\ open \subseteq 1 .. written /\ IsFiniteSet(open)
  /\ inflight = Cardinality(open) /\ inflight <= MaxInflight

\* Before the end, lines are lost for the two reasons alone; an end that found no
\* insert in flight has what was written before it in the one it waits for.
Kept(l) == l \in logTable \/ (l \in DOMAIN lost /\ lost[l] \in {"overflow", "insert"})

EndInv ==
  /\ phase # "exited" => \A l \in DOMAIN lost : lost[l] \in {"overflow", "insert"}
  /\ phase = "ending" /\ dbUp /\ quiet =>
       \A l \in 1 .. endedAt : Kept(l) \/ (awaited /\ l \in Sending)
  /\ phase = "exited" /\ dbUp /\ quiet => \A l \in 1 .. endedAt : Kept(l)

SinkInv == LogTypeOK /\ LineInv /\ SlotInv /\ EndInv

LEMMA SetOfAppend ==
  ASSUME NEW s \in Seq(Nat), NEW x \in Nat
  PROVE  Append(s, x) \in Seq(Nat) /\ L!ToSet(Append(s, x)) = L!ToSet(s) \cup {x}
<1>1. /\ Append(s, x) \in Seq(Nat) /\ Len(Append(s, x)) = Len(s) + 1 /\ Len(s) \in Nat
      /\ Append(s, x)[Len(s) + 1] = x /\ \A i \in 1 .. Len(s) : Append(s, x)[i] = s[i]
  OBVIOUS
<1>2. DOMAIN s = 1 .. Len(s) /\ DOMAIN Append(s, x) = 1 .. Len(s) + 1
  BY <1>1
<1>3. QED
  BY <1>1, <1>2 DEF L!ToSet

LEMMA SetOfEmpty == ASSUME NEW s \in Seq(Nat) PROVE s = <<>> <=> L!ToSet(s) = {}
<1>1. Len(s) \in Nat /\ DOMAIN s = 1 .. Len(s)
  OBVIOUS
<1>2. s # <<>> => 1 \in DOMAIN s
  BY <1>1, EmptySeq
<1>3. s = <<>> => DOMAIN s = {}
  BY <1>1, EmptySeq
<1>4. QED
  BY <1>2, <1>3 DEF L!ToSet

LEMMA CappedFacts ==
  ASSUME NEW s \in Seq(Nat)
  PROVE  L!Capped(s) \in Seq(Nat) /\ L!ToSet(L!Capped(s)) \subseteq L!ToSet(s)
<1>1. CASE ~(Len(s) > MaxPending)
  BY <1>1 DEF L!Capped
<1>2. CASE Len(s) > MaxPending
  <2> DEFINE m == Len(s) - MaxPending + 1
             c == SubSeq(s, m, Len(s))
  <2>1. Len(s) \in Nat /\ m \in 1 .. Len(s) /\ DOMAIN s = 1 .. Len(s)
    BY <1>2, VisitsAssumption DEF L!SinkAssumption
  <2> HIDE DEF m
  <2>2. /\ c \in Seq(Nat) /\ Len(c) = Len(s) - m + 1
        /\ \A i \in 1 .. Len(s) - m + 1 : c[i] = s[m + i - 1]
    <3>1. \A i \in m .. Len(s) : s[i] \in Nat
      BY <2>1, ElementOfSeq
    <3>2. QED
      BY <2>1, <3>1, SubSeqProperties
  <2>3. ASSUME NEW i \in DOMAIN c PROVE c[i] \in L!ToSet(s)
    <3>1. i \in 1 .. Len(s) - m + 1
      BY <2>2
    <3>2. m + i - 1 \in DOMAIN s /\ c[i] = s[m + i - 1]
      BY <2>1, <2>2, <3>1
    <3>3. QED
      BY <3>2 DEF L!ToSet
  <2>4. L!Capped(s) = c
    BY <1>2 DEF L!Capped, m
  <2>5. QED
    BY <2>2, <2>3, <2>4 DEF L!ToSet
<1>3. QED
  BY <1>1, <1>2

\* The buffer is handed over whole, or stays.
LEMMA HandOverFacts ==
  ASSUME LogTypeOK, NEW s \in Seq(Nat), L!HandOver(s)
  PROVE  /\ buffer' \in Seq(Nat) /\ flight' \in Seq(Nat)
         /\ \/ Waiting' = L!ToSet(s) /\ flight' = flight /\ Sending' = Sending
            \/ flight = <<>> /\ Sending = {} /\ Waiting' = {} /\ Sending' = L!ToSet(s)
         /\ dbUp /\ flight = <<>> => Waiting' = {} /\ Sending' = L!ToSet(s)
<1>1. /\ \/ buffer' = s /\ flight' = flight
         \/ flight = <<>> /\ buffer' = <<>> /\ flight' = s
      /\ dbUp /\ flight = <<>> => s = <<>> \/ (buffer' = <<>> /\ flight' = s)
  BY DEF L!HandOver
<1>2. L!ToSet(<<>>) = {}
  BY SetOfEmpty, EmptySeq
<1>3. QED
  BY <1>1, <1>2 DEF LogTypeOK, Waiting, Sending

LEMMA LosingFacts ==
  ASSUME NEW S, NEW why, lost' = L!Losing(S, why)
  PROVE  /\ DOMAIN lost' = DOMAIN lost \cup S
         /\ \A l \in DOMAIN lost' : lost'[l] = IF l \in S THEN why ELSE lost[l]
BY DEF L!Losing

LEMMA WriteStep == ASSUME SinkInv, NEW passes \in BOOLEAN, L!Write(passes) PROVE SinkInv'
<1> DEFINE line == written + 1
           all == Append(buffer, line)
           kept == L!Capped(all)
           dropped == L!ToSet(all) \ L!ToSet(kept)
<1>1. /\ line \in Nat /\ line = written + 1 /\ written \in Nat /\ buffer \in Seq(Nat)
      /\ flight \in Seq(Nat) /\ phase # "exited" /\ endedAt \in 0 .. written
  BY DEF SinkInv, LogTypeOK, L!Write
<1>2. /\ written' = line /\ lost' = L!Losing(dropped, "overflow")
      /\ UNCHANGED <<dbUp, logTable, phase, awaited, endedAt, quiet>>
      /\ \/ L!HandOver(kept)
         \/ buffer' = kept /\ flight' = flight
      /\ \/ inflight < MaxInflight /\ inflight' = inflight + 1 /\ open' = open \cup {line}
         \/ UNCHANGED <<inflight, open>>
  BY DEF L!Write, L!ends
<1> HIDE DEF line
<1>3. all \in Seq(Nat) /\ L!ToSet(all) = Waiting \cup {line}
  BY <1>1, SetOfAppend DEF Waiting
<1> HIDE DEF all
<1>4. kept \in Seq(Nat) /\ L!ToSet(kept) \subseteq Waiting \cup {line}
  BY <1>3, CappedFacts
<1> HIDE DEF kept
<1>5. dropped = (Waiting \cup {line}) \ L!ToSet(kept)
  BY <1>3
<1> HIDE DEF dropped
<1>6. /\ buffer' \in Seq(Nat) /\ flight' \in Seq(Nat)
      /\ \/ Waiting' = L!ToSet(kept) /\ flight' = flight /\ Sending' = Sending
         \/ flight = <<>> /\ Sending = {} /\ Waiting' = {} /\ Sending' = L!ToSet(kept)
  <2>1. CASE L!HandOver(kept)
    BY <1>4, <2>1, HandOverFacts DEF SinkInv
  <2>2. CASE buffer' = kept /\ flight' = flight
    BY <1>1, <1>4, <2>2 DEF Waiting, Sending
  <2>3. QED
    BY <1>2, <2>1, <2>2
<1>7. /\ DOMAIN lost' = DOMAIN lost \cup dropped
      /\ \A l \in DOMAIN lost' : lost'[l] = IF l \in dropped THEN "overflow" ELSE lost[l]
  BY <1>2, LosingFacts
<1>8. line \notin Waiting \cup Sending \cup logTable \cup DOMAIN lost
  BY <1>1 DEF SinkInv, LineInv
<1>9. 1 .. line = (1 .. written) \cup {line}
  BY <1>1
<1>10. LogTypeOK'
  <2>1. inflight' \in Nat /\ endedAt' \in 0 .. written'
    BY <1>1, <1>2 DEF SinkInv, LogTypeOK
  <2>2. QED
    BY <1>1, <1>2, <1>6, <2>1 DEF SinkInv, LogTypeOK
<1>11. LineInv'
  <2>1. Waiting' \cup Sending' \cup logTable' \cup DOMAIN lost' = 1 .. written'
    BY <1>2, <1>4, <1>5, <1>6, <1>7, <1>9 DEF SinkInv, LineInv
  <2>2. /\ Waiting' \cap Sending' = {} /\ (Waiting' \cup Sending') \cap logTable' = {}
        /\ (Waiting' \cup Sending' \cup logTable') \cap DOMAIN lost' = {}
    BY <1>2, <1>4, <1>5, <1>6, <1>7, <1>8 DEF SinkInv, LineInv
  <2>3. ASSUME NEW x \in Sending', NEW y \in Waiting' PROVE x < y
    <3>1. x \in Sending /\ y \in Waiting \cup {line}
      BY <1>4, <1>6, <2>3
    <3>2. x \in 1 .. written
      BY <3>1 DEF SinkInv, LineInv
    <3>3. QED
      BY <1>1, <3>1, <3>2 DEF SinkInv, LineInv
  <2>4. QED
    BY <2>1, <2>2, <2>3 DEF LineInv
<1>12. SlotInv'
  <2>1. /\ open \subseteq 1 .. written /\ IsFiniteSet(open) /\ inflight = Cardinality(open)
        /\ inflight <= MaxInflight /\ MaxInflight \in Nat /\ inflight \in Nat
    BY VisitsAssumption DEF SinkInv, SlotInv, LogTypeOK, L!SinkAssumption
  <2>2. CASE UNCHANGED <<inflight, open>>
    BY <1>2, <1>9, <2>1, <2>2 DEF SlotInv
  <2>3. CASE inflight < MaxInflight /\ inflight' = inflight + 1 /\ open' = open \cup {line}
    <3>1. line \notin open
      BY <1>1, <2>1
    <3>2. IsFiniteSet(open') /\ Cardinality(open') = Cardinality(open) + 1
      BY <2>1, <2>3, <3>1, FS_AddElement
    <3>3. open' \subseteq 1 .. written'
      BY <1>2, <1>9, <2>1, <2>3
    <3>4. QED
      BY <2>1, <2>3, <3>2, <3>3 DEF SlotInv
  <2>4. QED
    BY <1>2, <2>2, <2>3
<1>13. EndInv'
  <2>1. \A l \in 1 .. endedAt : Kept(l) => Kept(l)'
    BY <1>2, <1>7 DEF Kept
  <2>2. \A l \in Sending : l \in Sending'
    BY <1>6
  <2>3. QED
    BY <1>1, <1>2, <1>7, <2>1, <2>2 DEF SinkInv, EndInv
<1>14. QED
  BY <1>10, <1>11, <1>12, <1>13 DEF SinkInv

\* The buffer is handed over, and no line is added or lost.
LEMMA HandedOver ==
  ASSUME SinkInv, L!HandOver(buffer), UNCHANGED <<logTable, written, lost>>
  PROVE  LineInv'
<1>1. buffer \in Seq(Nat) /\ LogTypeOK
  BY DEF SinkInv, LogTypeOK
<1>2. \/ Waiting' = Waiting /\ Sending' = Sending
      \/ Sending = {} /\ Waiting' = {} /\ Sending' = Waiting
  BY <1>1, HandOverFacts DEF Waiting
<1>3. QED
  BY <1>2 DEF SinkInv, LineInv

LEMMA TimerStep == ASSUME SinkInv, L!TimerFires PROVE SinkInv'
<1>1. /\ L!HandOver(buffer) /\ phase # "exited"
      /\ UNCHANGED <<logTable, written, lost, inflight, open, phase, awaited, dbUp, endedAt, quiet>>
  BY DEF L!TimerFires, L!ends
<1>2. /\ buffer' \in Seq(Nat) /\ flight' \in Seq(Nat)
      /\ \A l \in Sending : l \in Sending'
  BY <1>1, HandOverFacts DEF SinkInv, LogTypeOK
<1>3. LogTypeOK' /\ SlotInv'
  BY <1>1, <1>2 DEF SinkInv, LogTypeOK, SlotInv
<1>4. EndInv'
  BY <1>1, <1>2 DEF SinkInv, EndInv, Kept
<1>5. QED
  BY <1>1, <1>3, <1>4, HandedOver DEF SinkInv

LEMMA InsertStep == ASSUME SinkInv, NEW ok \in BOOLEAN, L!InsertEnds(ok) PROVE SinkInv'
<1>1. /\ flight' = <<>> /\ awaited' = FALSE /\ phase # "exited" /\ flight \in Seq(Nat)
      /\ UNCHANGED <<buffer, written, inflight, open, phase, dbUp, endedAt, quiet>>
      /\ \/ logTable' = logTable \cup Sending /\ lost' = lost
         \/ lost' = L!Losing(Sending, "insert") /\ logTable' = logTable
  BY DEF L!InsertEnds, L!ends, Sending, SinkInv, LogTypeOK
<1>2. Waiting' = Waiting /\ Sending' = {} /\ flight' \in Seq(Nat)
  BY <1>1, SetOfEmpty, EmptySeq DEF Waiting, Sending
<1>3. \/ logTable' = logTable \cup Sending /\ lost' = lost
      \/ /\ logTable' = logTable /\ DOMAIN lost' = DOMAIN lost \cup Sending
         /\ \A l \in DOMAIN lost' : lost'[l] = IF l \in Sending THEN "insert" ELSE lost[l]
  BY <1>1, LosingFacts
<1>4. LogTypeOK' /\ SlotInv'
  BY <1>1, <1>2 DEF SinkInv, LogTypeOK, SlotInv
<1>5. LineInv'
  BY <1>1, <1>2, <1>3 DEF SinkInv, LineInv
<1>6. EndInv'
  BY <1>1, <1>3 DEF SinkInv, EndInv, Kept
<1>7. QED
  BY <1>4, <1>5, <1>6 DEF SinkInv

\* The webhook's settings, and the database while the process runs.
LEMMA SettingStep ==
  ASSUME SinkInv, L!DbOpens \/ (\E on \in BOOLEAN : L!SaveHook(on)) \/ L!RefreshHook
  PROVE  SinkInv'
<1>1. /\ UNCHANGED <<buffer, flight, inflight, open, logTable, phase, awaited, written, lost,
                     endedAt, quiet>>
      /\ phase = "run" /\ dbUp' \in BOOLEAN
  BY DEF L!DbOpens, L!SaveHook, L!RefreshHook, L!ends, SinkInv, LogTypeOK
<1>2. Waiting' = Waiting /\ Sending' = Sending
  BY <1>1 DEF Waiting, Sending
<1>3. QED
  BY <1>1, <1>2 DEF SinkInv, LogTypeOK, LineInv, SlotInv, EndInv

LEMMA DeliveredStep ==
  ASSUME SinkInv, NEW line \in open, NEW ok \in BOOLEAN, L!Delivered(line, ok)
  PROVE  SinkInv'
<1>1. /\ UNCHANGED <<buffer, flight, dbUp, logTable, phase, awaited, written, lost, endedAt, quiet>>
      /\ open' = open \ {line} /\ inflight' = inflight - 1
  BY DEF L!Delivered, L!ends
<1>2. Waiting' = Waiting /\ Sending' = Sending
  BY <1>1 DEF Waiting, Sending
<1>3. /\ open \subseteq 1 .. written /\ IsFiniteSet(open) /\ inflight = Cardinality(open)
      /\ inflight <= MaxInflight /\ MaxInflight \in Nat /\ inflight \in Nat
  BY VisitsAssumption DEF SinkInv, SlotInv, LogTypeOK, L!SinkAssumption
<1>4. IsFiniteSet(open') /\ Cardinality(open') = Cardinality(open) - 1 /\ Cardinality(open') \in Nat
  BY <1>1, <1>3, FS_RemoveElement, FS_CardinalityType
<1>5. SlotInv' /\ inflight' \in Nat
  BY <1>1, <1>3, <1>4 DEF SlotInv
<1>6. QED
  BY <1>1, <1>2, <1>5 DEF SinkInv, LogTypeOK, LineInv, EndInv, Kept

LEMMA EndingStep == ASSUME SinkInv, L!Ending PROVE SinkInv'
<1>1. /\ L!HandOver(buffer) /\ phase = "run" /\ phase' = "ending"
      /\ UNCHANGED <<logTable, written, lost, inflight, open, dbUp>>
      /\ awaited' = (flight' # <<>>) /\ endedAt' = written /\ quiet' = (flight = <<>>)
  BY DEF L!Ending
<1>2. /\ buffer' \in Seq(Nat) /\ flight' \in Seq(Nat)
      /\ dbUp /\ flight = <<>> => Waiting' = {} /\ Sending' = Waiting
  BY <1>1, HandOverFacts DEF SinkInv, LogTypeOK, Waiting
<1>3. LogTypeOK' /\ SlotInv'
  <2>1. written \in 0 .. written
    BY DEF SinkInv, LogTypeOK
  <2>2. QED
    BY <1>1, <1>2, <2>1 DEF SinkInv, LogTypeOK, SlotInv
<1>4. EndInv'
  <2>1. ASSUME dbUp, flight = <<>>, NEW l \in 1 .. written PROVE Kept(l)' \/ (awaited' /\ l \in Sending')
    <3>1. Sending = {}
      BY <2>1, SetOfEmpty, EmptySeq DEF Sending
    <3>2. l \in Waiting \/ l \in logTable \/ l \in DOMAIN lost
      BY <3>1 DEF SinkInv, LineInv
    <3>3. CASE l \in Waiting
      <4>1. l \in Sending'
        BY <1>2, <2>1, <3>3
      <4>2. flight' # <<>>
        BY <1>2, <4>1, SetOfEmpty, EmptySeq DEF Sending
      <4>3. QED
        BY <1>1, <4>1, <4>2
    <3>4. CASE l \in logTable \/ l \in DOMAIN lost
      BY <1>1, <3>4 DEF Kept, SinkInv, EndInv
    <3>5. QED
      BY <3>2, <3>3, <3>4
  <2>2. QED
    BY <1>1, <2>1 DEF SinkInv, EndInv
<1>5. QED
  BY <1>1, <1>3, <1>4, HandedOver DEF SinkInv

LEMMA ExitStep == ASSUME SinkInv, L!Exit PROVE SinkInv'
<1>1. /\ phase = "ending" /\ ~awaited /\ phase' = "exited"
      /\ lost' = L!Losing(Waiting \cup Sending, "exit") /\ buffer' = <<>> /\ flight' = <<>>
      /\ UNCHANGED <<dbUp, inflight, open, logTable, awaited, written, endedAt, quiet>>
  BY DEF L!Exit, L!Settled, L!ends, Waiting, Sending
<1>2. Waiting' = {} /\ Sending' = {} /\ buffer' \in Seq(Nat) /\ flight' \in Seq(Nat)
  BY <1>1, SetOfEmpty, EmptySeq DEF Waiting, Sending
<1>3. /\ DOMAIN lost' = DOMAIN lost \cup (Waiting \cup Sending)
      /\ \A l \in DOMAIN lost' : lost'[l] = IF l \in Waiting \cup Sending THEN "exit" ELSE lost[l]
  BY <1>1, LosingFacts
<1>4. LogTypeOK' /\ SlotInv'
  BY <1>1, <1>2 DEF SinkInv, LogTypeOK, SlotInv
<1>5. LineInv'
  BY <1>1, <1>2, <1>3 DEF SinkInv, LineInv
<1>6. \A l : Kept(l) => Kept(l)'
  BY <1>1, <1>3 DEF Kept, SinkInv, LineInv
<1>7. EndInv'
  BY <1>1, <1>6 DEF SinkInv, EndInv
<1>8. QED
  BY <1>4, <1>5, <1>7 DEF SinkInv

LEMMA SinkStep == SinkInv /\ [L!LogNext]_logs => SinkInv'
<1> SUFFICES ASSUME SinkInv, [L!LogNext]_logs PROVE SinkInv'
  OBVIOUS
<1>1. CASE UNCHANGED logs
  <2>1. Waiting' = Waiting /\ Sending' = Sending
    BY <1>1 DEF logs, Waiting, Sending
  <2>2. QED
    BY <1>1, <2>1 DEF logs, SinkInv, LogTypeOK, LineInv, SlotInv, EndInv, Kept
<1>2. CASE L!LogNext
  BY <1>2, WriteStep, TimerStep, InsertStep, SettingStep, DeliveredStep, EndingStep, ExitStep
     DEF L!LogNext
<1>3. QED
  BY <1>1, <1>2

LEMMA SinkBase == L!LogInit => SinkInv
<1> SUFFICES ASSUME L!LogInit PROVE SinkInv
  OBVIOUS
<1>1. Waiting = {} /\ Sending = {} /\ buffer \in Seq(Nat) /\ flight \in Seq(Nat)
  BY SetOfEmpty, EmptySeq DEF L!LogInit, Waiting, Sending
<1>2. DOMAIN lost = {}
  BY EmptySeq DEF L!LogInit
<1>3. IsFiniteSet(open) /\ Cardinality(open) = 0
  BY FS_EmptySet DEF L!LogInit
<1>4. LogTypeOK /\ LineInv
  <2>1. /\ written = 0 /\ inflight = 0 /\ endedAt = 0 /\ dbUp = FALSE /\ awaited = FALSE
        /\ quiet = TRUE /\ phase = "run" /\ logTable = {}
    BY DEF L!LogInit
  <2>2. 1 .. written = {} /\ endedAt \in 0 .. written
    BY <2>1
  <2>3. QED
    BY <1>1, <1>2, <2>1, <2>2 DEF LogTypeOK, LineInv
<1>5. SlotInv /\ EndInv
  BY <1>2, <1>3, VisitsAssumption DEF L!LogInit, SlotInv, EndInv, L!SinkAssumption
<1>6. QED
  BY <1>4, <1>5 DEF SinkInv

\* The instance counts with its own copy of FiniteSets.
LEMMA CardinalityOfLogs == \A S : L!Cardinality(S) = Cardinality(S)
BY DEF L!Cardinality, Cardinality

LEMMA SinkFacts == SinkInv => L!SinksSound
<1> SUFFICES ASSUME SinkInv PROVE L!SinksSound
  OBVIOUS
<1>1. ASSUME NEW l \in L!Lines PROVE Cardinality({p \in DOMAIN L!Places : l \in L!Places[p]}) = 1
  <2>1. /\ DOMAIN L!Places = {"buffer", "flight", "table", "lost"}
        /\ L!Places["buffer"] = Waiting /\ L!Places["flight"] = Sending
        /\ L!Places["table"] = logTable /\ L!Places["lost"] = DOMAIN lost
    BY DEF L!Places, Waiting, Sending
  <2>2. \E q : {p \in DOMAIN L!Places : l \in L!Places[p]} = {q}
    <3>1. l \in Waiting \/ l \in Sending \/ l \in logTable \/ l \in DOMAIN lost
      BY DEF SinkInv, LineInv, L!Lines
    <3>2. l \in Waiting => {p \in DOMAIN L!Places : l \in L!Places[p]} = {"buffer"}
      BY <2>1 DEF SinkInv, LineInv
    <3>3. l \in Sending => {p \in DOMAIN L!Places : l \in L!Places[p]} = {"flight"}
      BY <2>1 DEF SinkInv, LineInv
    <3>4. l \in logTable => {p \in DOMAIN L!Places : l \in L!Places[p]} = {"table"}
      BY <2>1 DEF SinkInv, LineInv
    <3>5. l \in DOMAIN lost => {p \in DOMAIN L!Places : l \in L!Places[p]} = {"lost"}
      BY <2>1 DEF SinkInv, LineInv
    <3>6. QED
      BY <3>1, <3>2, <3>3, <3>4, <3>5
  <2>3. QED
    BY <2>2, FS_Singleton
<1>2. ASSUME NEW i \in 1 .. Len(flight), NEW j \in 1 .. Len(buffer) PROVE flight[i] < buffer[j]
  <2>1. i \in DOMAIN flight /\ j \in DOMAIN buffer
    BY DEF SinkInv, LogTypeOK
  <2>2. flight[i] \in Sending /\ buffer[j] \in Waiting
    BY <2>1 DEF Sending, Waiting, L!ToSet
  <2>3. QED
    BY <2>2 DEF SinkInv, LineInv
<1>3. L!EveryLineOnce
  BY <1>1, <1>2, CardinalityOfLogs DEF L!EveryLineOnce
<1>4. L!SlotsReturned /\ L!QuietEndKeepsLines
  BY CardinalityOfLogs
     DEF SinkInv, SlotInv, EndInv, Kept, L!SlotsReturned, L!QuietEndKeepsLines
<1>5. QED
  BY <1>3, <1>4 DEF L!SinksSound

\* Every log line is in one place and in order, the webhook's slots are given back,
\* and an end that finds no insert in flight loses nothing written before it.
THEOREM LinesCorrect == L!LogSpec => []L!SinksSound
<1>1. SinkInv /\ [L!LogNext]_(L!logVars) => SinkInv'
  BY SinkStep DEF L!logVars, logs
<1>2. QED
  BY <1>1, SinkBase, SinkFacts, PTL DEF L!LogSpec

\* The same of the instance the runs check.
THEOREM SinksCorrect == MCSpec => []SinksSound
<1>1. MCInit => SinkInv
  BY SinkBase DEF MCInit
<1>2. SinkInv /\ [MCNext]_<<part, vars, account, logs, links>> => SinkInv'
  <2> SUFFICES ASSUME SinkInv, [MCNext]_<<part, vars, account, logs, links>> PROVE SinkInv'
    OBVIOUS
  <2>1. [L!LogNext]_logs
    BY DEF MCNext
  <2>2. QED
    BY <2>1, SinkStep
<1>3. SinkInv => SinksSound
  BY SinkFacts DEF SinksSound
<1>4. QED
  BY <1>1, <1>2, <1>3, PTL DEF MCSpec
-----------------------------------------------------------------------------
(* The pages behind the links of an email.                                   *)

Reasons == DefaultReasons \cup settings.reasons \cup {"none"}
Page ==
  [pc : {"closed", "form", "store", "post", "answered"},
   page : {"none", "unsubscribe", "preferences"}, correlated : BOOLEAN, off : SUBSET Categories,
   all : BOOLEAN, reason : Reasons, at : Nat, attempt : Nat,
   told : {"none", "400", "redirected", "received", "stopped", "unchanged"}, saved : BOOLEAN,
   refused : BOOLEAN]

PageInv ==
  /\ tab \in [Tabs -> Page] /\ time \in Nat
  /\ presses \subseteq Nat \X Nat /\ IsFiniteSet(presses)
  /\ \A p \in presses : p[1] <= Cardinality(presses)

\* What a press asks for was picked, while it is under way and once it is kept.
Picked(e) ==
  \/ e.event = "unsubscribed" /\ e.key[1][1] = "unsubscribe"
  \/ e.stopped \subseteq picked
  \/ "all" \in picked /\ e.event = "preference_update"

PickInv ==
  /\ \A e \in taken \cup eventRows : Picked(e)
  /\ \A t \in Tabs :
       tab[t].pc \in {"store", "post"} =>
         IF tab[t].all THEN "all" \in picked ELSE tab[t].off \subseteq picked

\* Rows and presses under way carry the time of a press; two of them with one time
\* are of two presses. What was saved is stored, unless two presses had its time.
Stamps == {p[2] : p \in presses}
Shared == {at \in Stamps : \E p, q \in presses : p # q /\ p[2] = at /\ q[2] = at}

RowsInv == \A e \in eventRows : e.key[3] \in Stamps
StoreInv ==
  \A t \in Tabs : tab[t].pc = "store" =>
    /\ ~tab[t].saved /\ tab[t].at \in Stamps
    /\ tab[t].at \in Shared \/ \A e \in eventRows : e.key[3] # tab[t].at
    /\ \A u \in Tabs \ {t} : tab[u].pc = "store" /\ tab[u].at = tab[t].at => tab[t].at \in Shared
SavedInv ==
  \A t \in Tabs : tab[t].pc \in {"post", "answered"} /\ tab[t].saved =>
    K!Events(tab[t]) \subseteq eventRows \/ tab[t].at \in Shared
StampInv == RowsInv /\ StoreInv /\ SavedInv

LinkInv == PageInv /\ PickInv /\ StampInv /\ K!ToldUnlessRefused

LEMMA MessageIs ==
  ASSUME NEW p
  PROVE  /\ K!Message(p) \in {"redirected", "received", "stopped", "unchanged"}
         /\ ~K!CanProxy(p) => K!Message(p) # "stopped"
BY DEF K!Message

\* Every event of a press has its time; no two have one key.
LEMMA EventFacts ==
  ASSUME NEW p, NEW e \in K!Events(p)
  PROVE  e.key[3] = p.at /\ \A f \in K!Events(p) : f.key = e.key => f = e
<1>1. ASSUME NEW f \in K!Events(p)
      PROVE  \/ /\ f = K!PreferenceUpdate(p) /\ f.key[2] = "preference_update" /\ f.key[3] = p.at
             \/ /\ f.key[2] = "unsubscribed" /\ f.key[3] = p.at
                /\ \E s \in K!Scopes(p) :
                     f = [event |-> "unsubscribed",
                          key |-> <<K!MessageId(p, s), "unsubscribed", p.at>>, stopped |-> {s}]
  BY <1>1 DEF K!Events, K!Unsubscribed, K!PreferenceUpdate
<1>2. ASSUME NEW s \in K!Scopes(p), NEW u \in K!Scopes(p), K!MessageId(p, s) = K!MessageId(p, u)
      PROVE  s = u
  <2>1. CASE p.page = "unsubscribe"
    BY <1>2, <2>1 DEF K!Scopes
  <2>2. CASE p.page # "unsubscribe"
    BY <1>2, <2>2 DEF K!MessageId
  <2>3. QED
    BY <2>1, <2>2
<1>3. ASSUME NEW f \in K!Events(p), f.key = e.key PROVE f = e
  <2>1. CASE f.key[2] = "preference_update"
    BY <1>1, <1>3, <2>1
  <2>2. CASE f.key[2] # "preference_update"
    <3>1. PICK s \in K!Scopes(p) :
            f = [event |-> "unsubscribed",
                 key |-> <<K!MessageId(p, s), "unsubscribed", p.at>>, stopped |-> {s}]
      BY <1>1, <2>2
    <3>2. PICK u \in K!Scopes(p) :
            e = [event |-> "unsubscribed",
                 key |-> <<K!MessageId(p, u), "unsubscribed", p.at>>, stopped |-> {u}]
      BY <1>1, <1>3, <2>2
    <3>3. K!MessageId(p, s) = K!MessageId(p, u)
      BY <1>3, <3>1, <3>2
    <3>4. QED
      BY <1>2, <3>1, <3>2, <3>3
  <2>3. QED
    BY <2>1, <2>2
<1>4. QED
  BY <1>1, <1>3

\* The events of a press are of its page, boxes, reason and time alone.
LEMMA SameEvents ==
  ASSUME NEW p, NEW q, p.page = q.page, p.all = q.all, p.off = q.off, p.reason = q.reason, p.at = q.at
  PROVE  K!Events(p) = K!Events(q)
BY DEF K!Events, K!Unsubscribed, K!PreferenceUpdate, K!MessageId, K!Scopes

\* What a press under way asks for was picked.
LEMMA EventsPicked ==
  ASSUME PageInv, PickInv, NEW t \in Tabs, tab[t].pc \in {"store", "post"}, NEW e \in K!Events(tab[t])
  PROVE  Picked(e)
<1> DEFINE p == tab[t]
<1>1. IF p.all THEN "all" \in picked ELSE p.off \subseteq picked
  BY DEF PickInv
<1> HIDE DEF p
<1>2. \/ e = K!PreferenceUpdate(p)
      \/ \E s \in K!Scopes(p) :
           e = [event |-> "unsubscribed",
                key |-> <<K!MessageId(p, s), "unsubscribed", p.at>>, stopped |-> {s}]
  BY DEF K!Events, K!Unsubscribed, p
<1>3. CASE e = K!PreferenceUpdate(p)
  BY <1>1, <1>3 DEF K!PreferenceUpdate, Picked
<1>4. ASSUME NEW s \in K!Scopes(p),
             e = [event |-> "unsubscribed",
                  key |-> <<K!MessageId(p, s), "unsubscribed", p.at>>, stopped |-> {s}]
      PROVE  Picked(e)
  <2>1. CASE p.page = "unsubscribe"
    BY <1>4, <2>1 DEF K!MessageId, Picked
  <2>2. CASE p.page # "unsubscribe"
    <3>1. s \in picked
      BY <1>1, <1>4, <2>2 DEF K!Scopes
    <3>2. QED
      BY <1>4, <3>1 DEF Picked
  <2>3. QED
    BY <2>1, <2>2
<1>5. QED
  BY <1>2, <1>3, <1>4

LEMMA CardinalityOfLinks == \A S : K!Cardinality(S) = Cardinality(S)
BY DEF K!Cardinality, Cardinality

\* A step of one tab that stores and presses nothing.
LEMMA ShownStep ==
  ASSUME LinkInv, NEW t \in Tabs, NEW q \in Page, tab' = [tab EXCEPT ![t] = q],
         UNCHANGED <<settings, time, eventRows, picked, presses>>, q.pc # "store",
         q.pc = "post" => tab[t].pc = "post" /\ q.all = tab[t].all /\ q.off = tab[t].off,
         q.pc \in {"post", "answered"} /\ q.saved =>
           /\ tab[t].pc \in {"post", "answered"} /\ tab[t].saved
           /\ K!Events(q) = K!Events(tab[t]) /\ q.at = tab[t].at,
         taken \subseteq taken', \A e \in taken' \ taken : Picked(e),
         q.pc = "answered" /\ q.told = "stopped" /\ ~q.refused => K!Events(q) \subseteq taken'
  PROVE  LinkInv'
<1>1. /\ tab \in [Tabs -> Page] /\ tab'[t] = q
      /\ \A u \in Tabs \ {t} : tab'[u] = tab[u]
  BY DEF LinkInv, PageInv
<1>2. PageInv'
  BY DEF LinkInv, PageInv, Page, Reasons
<1>3. PickInv'
  BY <1>1 DEF LinkInv, PickInv, Picked
<1>4. StampInv'
  <2>1. Stamps' = Stamps /\ Shared' = Shared
    BY DEF Stamps, Shared
  <2>2. RowsInv' /\ StoreInv'
    BY <1>1, <2>1 DEF LinkInv, StampInv, RowsInv, StoreInv
  <2>3. ASSUME NEW u \in Tabs, tab'[u].pc \in {"post", "answered"}, tab'[u].saved
        PROVE  K!Events(tab'[u]) \subseteq eventRows \/ tab'[u].at \in Shared
    <3>1. CASE u = t
      <4>1. K!Events(tab[t]) \subseteq eventRows \/ tab[t].at \in Shared
        BY <1>1, <2>3, <3>1 DEF LinkInv, StampInv, SavedInv
      <4>2. QED
        BY <1>1, <2>3, <3>1, <4>1
    <3>2. CASE u # t
      BY <1>1, <2>3, <3>2 DEF LinkInv, StampInv, SavedInv
    <3>3. QED
      BY <3>1, <3>2
  <2>4. SavedInv'
    BY <2>1, <2>3 DEF SavedInv
  <2>5. QED
    BY <2>2, <2>4 DEF StampInv
<1>5. K!ToldUnlessRefused'
  BY <1>1 DEF LinkInv, K!ToldUnlessRefused
<1>6. QED
  BY <1>2, <1>3, <1>4, <1>5 DEF LinkInv

LEMMA FollowStep ==
  ASSUME LinkInv, NEW t \in Tabs, NEW page \in {"unsubscribe", "preferences"}, NEW user \in BOOLEAN,
         NEW correlated \in BOOLEAN, K!Follow(t, page, user, correlated)
  PROVE  LinkInv'
<1> DEFINE q == [K!NoPage EXCEPT !.pc = IF user THEN "form" ELSE "answered",
                                 !.told = IF user THEN "none" ELSE "400",
                                 !.page = page, !.correlated = correlated]
<1>1. /\ q \in Page /\ ~q.saved /\ q.told # "stopped"
      /\ q.pc \in {"form", "answered"}
  BY DEF Page, K!NoPage, Reasons
<1>2. tab' = [tab EXCEPT ![t] = q] /\ UNCHANGED <<settings, time, eventRows, taken, picked, presses>>
  BY DEF K!Follow, K!Show
<1> HIDE DEF q
<1>3. QED
  BY <1>1, <1>2, ShownStep

LEMMA UntickStep ==
  ASSUME LinkInv, NEW t \in Tabs, NEW c \in Categories, K!Untick(t, c)
  PROVE  LinkInv'
<1> DEFINE q == [tab[t] EXCEPT !.off = @ \cup {c}]
<1>1. q \in Page /\ q.pc = "form"
  BY DEF LinkInv, PageInv, Page, K!Untick
<1>2. tab' = [tab EXCEPT ![t] = q] /\ UNCHANGED <<settings, time, eventRows, taken, picked, presses>>
  BY DEF K!Untick, K!Show
<1> HIDE DEF q
<1>3. QED
  BY <1>1, <1>2, ShownStep

LEMMA BackStep ==
  ASSUME LinkInv, NEW t \in Tabs, K!Back(t)
  PROVE  LinkInv'
<1> DEFINE q == [tab[t] EXCEPT !.pc = "form"]
<1>1. q \in Page /\ q.pc = "form"
  BY DEF LinkInv, PageInv, Page, K!Back
<1>2. tab' = [tab EXCEPT ![t] = q] /\ UNCHANGED <<settings, time, eventRows, taken, picked, presses>>
  BY DEF K!Back, K!Show
<1> HIDE DEF q
<1>3. QED
  BY <1>1, <1>2, ShownStep

\* An answer keeps the press and says what its settings allow.
LEMMA AnswerIs ==
  ASSUME NEW p \in Page
  PROVE  /\ K!Answered(p) \in Page /\ K!Answered(p).pc = "answered"
         /\ K!Answered(p).told = K!Message(p)
         /\ K!Answered(p).saved = p.saved /\ K!Answered(p).refused = p.refused
         /\ K!Answered(p).at = p.at /\ K!Answered(p).correlated = p.correlated
         /\ K!Events(K!Answered(p)) = K!Events(p)
<1> DEFINE q == K!Answered(p)
<1>1. /\ q \in Page /\ q.pc = "answered" /\ q.told = K!Message(p) /\ q.saved = p.saved
      /\ q.refused = p.refused /\ q.at = p.at /\ q.correlated = p.correlated
      /\ q.page = p.page /\ q.all = p.all /\ q.off = p.off /\ q.reason = p.reason
  BY MessageIs DEF Page, K!Answered
<1> HIDE DEF q
<1>2. K!Events(q) = K!Events(p)
  BY <1>1, SameEvents
<1>3. QED
  BY <1>1, <1>2 DEF q

LEMMA TakenStep ==
  ASSUME LinkInv, NEW t \in Tabs, K!Taken(t)
  PROVE  LinkInv'
<1> DEFINE q == K!Answered(tab[t])
<1>1. /\ tab[t] \in Page /\ tab[t].pc = "post"
      /\ tab' = [tab EXCEPT ![t] = q] /\ taken' = taken \cup K!Events(tab[t])
      /\ UNCHANGED <<settings, time, eventRows, picked, presses>>
  BY DEF LinkInv, PageInv, K!Taken, K!Show
<1>2. /\ q \in Page /\ q.pc = "answered" /\ q.saved = tab[t].saved
      /\ K!Events(q) = K!Events(tab[t]) /\ q.at = tab[t].at
  BY <1>1, AnswerIs
<1>3. \A e \in K!Events(tab[t]) : Picked(e)
  BY <1>1, EventsPicked DEF LinkInv
<1> HIDE DEF q
<1>4. QED
  BY <1>1, <1>2, <1>3, ShownStep

\* What shows after the last attempt: an answer that knows it was refused.
LEMMA GivenUpStep ==
  ASSUME LinkInv, NEW t \in Tabs, tab[t].pc = "post",
         tab' = [tab EXCEPT ![t] = [K!Answered(tab[t]) EXCEPT !.refused = TRUE]],
         taken' \in {taken, taken \cup K!Events(tab[t])},
         UNCHANGED <<settings, time, eventRows, picked, presses>>
  PROVE  LinkInv'
<1> DEFINE p == K!Answered(tab[t])
           q == [p EXCEPT !.refused = TRUE]
<1>1. tab[t] \in Page
  BY DEF LinkInv, PageInv
<1>2. p \in Page /\ p.pc = "answered" /\ p.saved = tab[t].saved /\ p.at = tab[t].at
      /\ K!Events(p) = K!Events(tab[t])
  BY <1>1, AnswerIs
<1>3. tab' = [tab EXCEPT ![t] = q]
  OBVIOUS
<1> HIDE DEF p
<1>4. /\ q \in Page /\ q.pc = "answered" /\ q.saved = p.saved /\ q.refused
      /\ q.page = p.page /\ q.all = p.all /\ q.off = p.off /\ q.reason = p.reason /\ q.at = p.at
  BY <1>2 DEF Page
<1> HIDE DEF q
<1>5. K!Events(q) = K!Events(tab[t])
  BY <1>2, <1>4, SameEvents
<1>6. \A e \in taken' \ taken : Picked(e)
  BY EventsPicked DEF LinkInv
<1>7. QED
  BY <1>1, <1>2, <1>3, <1>4, <1>5, <1>6, ShownStep

LEMMA FailedStep ==
  ASSUME LinkInv, NEW t \in Tabs, K!Failed(t)
  PROVE  LinkInv'
<1>1. /\ tab[t].pc = "post" /\ taken' \in {taken, taken \cup K!Events(tab[t])}
      /\ UNCHANGED <<settings, time, eventRows, picked, presses>>
  BY DEF K!Failed
<1>2. CASE tab[t].attempt < LinkRetries
  <2> DEFINE q == [tab[t] EXCEPT !.attempt = @ + 1]
  <2>1. tab' = [tab EXCEPT ![t] = q]
    BY <1>2 DEF K!Failed, K!Show
  <2>2. /\ q \in Page /\ q.pc = "post" /\ q.saved = tab[t].saved
        /\ q.page = tab[t].page /\ q.all = tab[t].all /\ q.off = tab[t].off
        /\ q.reason = tab[t].reason /\ q.at = tab[t].at
    BY <1>1 DEF LinkInv, PageInv, Page
  <2> HIDE DEF q
  <2>3. K!Events(q) = K!Events(tab[t])
    BY <2>2, SameEvents
  <2>4. \A e \in taken' \ taken : Picked(e)
    BY <1>1, EventsPicked DEF LinkInv
  <2>5. QED
    BY <1>1, <2>1, <2>2, <2>3, <2>4, ShownStep
<1>3. CASE ~(tab[t].attempt < LinkRetries)
  BY <1>1, <1>3, GivenUpStep DEF K!Failed, K!Show
<1>4. QED
  BY <1>2, <1>3

LEMMA RestartStep == LinkInv /\ K!Restart => LinkInv'
<1> SUFFICES ASSUME LinkInv, K!Restart PROVE LinkInv'
  OBVIOUS
<1>1. /\ UNCHANGED <<settings, time, eventRows, taken, picked, presses>> /\ tab \in [Tabs -> Page]
      /\ tab' = [t \in Tabs |-> IF tab[t].pc \in {"store", "post"}
                                  THEN [tab[t] EXCEPT !.pc = "form"] ELSE tab[t]]
  BY DEF LinkInv, PageInv, K!Restart
<1>2. ASSUME NEW t \in Tabs
      PROVE  tab'[t] \in Page /\ (tab'[t] = tab[t] \/ tab'[t].pc = "form")
  BY <1>1 DEF Page
<1>3. tab' \in [Tabs -> Page]
  BY <1>1, <1>2
<1>4. PageInv'
  BY <1>1, <1>3 DEF LinkInv, PageInv, Page, Reasons
<1>5. PickInv'
  BY <1>1, <1>2 DEF LinkInv, PickInv, Picked
<1>6. StampInv'
  BY <1>1, <1>2 DEF LinkInv, StampInv, RowsInv, StoreInv, SavedInv, Stamps, Shared
<1>7. K!ToldUnlessRefused'
  BY <1>1, <1>2 DEF LinkInv, K!ToldUnlessRefused
<1>8. QED
  BY <1>4, <1>5, <1>6, <1>7 DEF LinkInv

LEMMA TickOfLinks == LinkInv /\ K!Tick => LinkInv'
<1> SUFFICES ASSUME LinkInv, K!Tick PROVE LinkInv'
  OBVIOUS
<1>1. UNCHANGED <<settings, tab, eventRows, taken, picked, presses>> /\ time' = time + 1
  BY DEF K!Tick
<1>2. PageInv'
  BY <1>1 DEF LinkInv, PageInv, Page, Reasons
<1>3. PickInv' /\ StampInv' /\ K!ToldUnlessRefused'
  BY <1>1 DEF LinkInv, PickInv, Picked, StampInv, RowsInv, StoreInv, SavedInv, Stamps, Shared,
              K!ToldUnlessRefused
<1>4. QED
  BY <1>2, <1>3 DEF LinkInv

\* A press is a new one, whatever its time, and lets nothing be forgotten.
LEMMA PressIsNew ==
  ASSUME PageInv, presses' = presses \cup {<<Cardinality(presses) + 1, time>>}
  PROVE  /\ presses' \subseteq Nat \X Nat /\ IsFiniteSet(presses')
         /\ \A p \in presses' : p[1] <= Cardinality(presses')
         /\ time \in Stamps' /\ (time \in Stamps => time \in Shared')
         /\ Stamps \subseteq Stamps' /\ Shared \subseteq Shared'
<1> DEFINE n == Cardinality(presses)
           new == <<n + 1, time>>
<1>1. /\ presses \subseteq Nat \X Nat /\ IsFiniteSet(presses) /\ time \in Nat /\ n \in Nat
      /\ \A p \in presses : p[1] <= n
  BY FS_CardinalityType DEF PageInv
<1>2. presses' = presses \cup {new} /\ new \in Nat \X Nat /\ new[1] = n + 1 /\ new[2] = time
  BY <1>1
<1>3. new \notin presses
  BY <1>1, <1>2
<1>4. IsFiniteSet(presses') /\ Cardinality(presses') = n + 1
  BY <1>1, <1>2, <1>3, FS_AddElement
<1> HIDE DEF new, n
<1>5. ASSUME NEW p \in presses' PROVE p \in Nat \X Nat /\ p[1] <= Cardinality(presses')
  BY <1>1, <1>2, <1>4
<1>6. time \in Stamps' /\ Stamps \subseteq Stamps' /\ Shared \subseteq Shared'
  BY <1>2 DEF Stamps, Shared
<1>7. time \in Stamps => time \in Shared'
  BY <1>2, <1>3 DEF Stamps, Shared
<1>8. QED
  BY <1>4, <1>5, <1>6, <1>7

LEMMA PressStep ==
  ASSUME LinkInv, NEW t \in Tabs, NEW all \in BOOLEAN,
         NEW reason \in K!OfferedReasons \cup {"none"}, K!Press(t, all, reason)
  PROVE  LinkInv'
<1> DEFINE p == [tab[t] EXCEPT !.all = all, !.off = IF all THEN {} ELSE @, !.reason = reason,
                               !.at = time, !.attempt = 0, !.saved = FALSE, !.refused = FALSE]
           q == IF tab[t].correlated THEN [p EXCEPT !.pc = "store"] ELSE K!Answered(p)
<1>1. /\ UNCHANGED <<settings, time, eventRows, taken>>
      /\ presses' = presses \cup {<<Cardinality(presses) + 1, time>>}
      /\ \/ UNCHANGED <<tab, picked>>
         \/ tab' = [tab EXCEPT ![t] = q] /\ picked' = picked \cup (IF all THEN {"all"} ELSE tab[t].off)
  BY CardinalityOfLinks DEF K!Press, K!Show
<1>2. /\ tab \in [Tabs -> Page] /\ tab[t] \in Page /\ time \in Nat /\ reason \in Reasons
      /\ PageInv /\ PickInv /\ RowsInv /\ StoreInv /\ SavedInv /\ K!ToldUnlessRefused
  BY DEF LinkInv, PageInv, StampInv, Reasons, K!OfferedReasons
<1>3. /\ p \in Page /\ p.all = all /\ p.off = (IF all THEN {} ELSE tab[t].off) /\ p.at = time
      /\ ~p.saved /\ p.correlated = tab[t].correlated
  BY <1>2 DEF Page
<1> HIDE DEF p
<1>4. /\ q \in Page /\ q.pc \in {"store", "answered"} /\ q.at = time /\ ~q.saved
      /\ q.pc = "store" => q.all = all /\ q.off = (IF all THEN {} ELSE tab[t].off)
      /\ q.pc = "answered" => q.told # "stopped"
  <2>1. CASE tab[t].correlated
    BY <1>3, <2>1 DEF Page
  <2>2. CASE ~tab[t].correlated
    <3>1. ~K!CanProxy(p)
      BY <1>3, <2>2 DEF K!CanProxy
    <3>2. QED
      BY <1>3, <2>2, <3>1, AnswerIs, MessageIs
  <2>3. QED
    BY <2>1, <2>2
<1> HIDE DEF q
<1>5. \A u \in Tabs : tab'[u] = tab[u] \/ (u = t /\ tab'[u] = q)
  BY <1>1, <1>2
<1>6. /\ presses' \subseteq Nat \X Nat /\ IsFiniteSet(presses')
      /\ \A x \in presses' : x[1] <= Cardinality(presses')
      /\ time \in Stamps' /\ (time \in Stamps => time \in Shared')
      /\ Stamps \subseteq Stamps' /\ Shared \subseteq Shared'
  BY <1>1, <1>2, PressIsNew
<1>7. PageInv'
  <2>1. tab' \in [Tabs -> Page]
    BY <1>1, <1>2, <1>4
  <2>2. QED
    BY <1>1, <1>2, <1>6, <2>1 DEF PageInv, Page, Reasons
<1>8. PickInv'
  <2>1. picked \subseteq picked'
    BY <1>1
  <2>2. \A e : Picked(e) => Picked(e)'
    BY <2>1 DEF Picked
  <2>3. ASSUME NEW u \in Tabs, tab'[u].pc \in {"store", "post"}
        PROVE  IF tab'[u].all THEN "all" \in picked' ELSE tab'[u].off \subseteq picked'
    <3>1. CASE tab'[u] = tab[u]
      BY <1>2, <2>1, <2>3, <3>1 DEF PickInv
    <3>2. CASE tab'[u] # tab[u]
      BY <1>1, <1>4, <1>5, <2>3, <3>2
    <3>3. QED
      BY <3>1, <3>2
  <2>4. QED
    BY <1>1, <1>2, <2>2, <2>3 DEF PickInv
<1>9. RowsInv'
  BY <1>1, <1>2, <1>6 DEF RowsInv
<1>10. StoreInv'
  <2>1. ASSUME NEW u \in Tabs, tab'[u].pc = "store"
        PROVE  /\ ~tab'[u].saved /\ tab'[u].at \in Stamps'
               /\ tab'[u].at \in Shared' \/ \A e \in eventRows : e.key[3] # tab'[u].at
               /\ tab'[u] # tab[u] => tab'[u].at = time
               /\ tab'[u] = tab[u] => tab[u].at \in Stamps
    <3>1. CASE tab'[u] = tab[u]
      BY <1>2, <1>6, <2>1, <3>1 DEF StoreInv
    <3>2. CASE tab'[u] # tab[u]
      BY <1>2, <1>4, <1>5, <1>6, <2>1, <3>2 DEF RowsInv
    <3>3. QED
      BY <3>1, <3>2
  <2>2. ASSUME NEW u \in Tabs, NEW w \in Tabs \ {u}, tab'[u].pc = "store", tab'[w].pc = "store",
               tab'[w].at = tab'[u].at
        PROVE  tab'[u].at \in Shared'
    <3>1. CASE tab'[u] = tab[u] /\ tab'[w] = tab[w]
      BY <1>2, <1>6, <2>2, <3>1 DEF StoreInv
    <3>2. CASE tab'[u] # tab[u]
      <4>1. tab'[w] = tab[w]
        BY <1>5, <2>2, <3>2
      <4>2. QED
        BY <1>6, <2>1, <2>2, <3>2, <4>1
    <3>3. CASE tab'[w] # tab[w]
      <4>1. tab'[u] = tab[u]
        BY <1>5, <2>2, <3>3
      <4>2. QED
        BY <1>6, <2>1, <2>2, <3>3, <4>1
    <3>4. QED
      BY <3>1, <3>2, <3>3
  <2>3. QED
    BY <1>1, <2>1, <2>2 DEF StoreInv
<1>11. SavedInv'
  BY <1>1, <1>2, <1>4, <1>5, <1>6 DEF SavedInv
<1>12. K!ToldUnlessRefused'
  BY <1>1, <1>2, <1>4, <1>5 DEF K!ToldUnlessRefused
<1>13. QED
  BY <1>7, <1>8, <1>9, <1>10, <1>11, <1>12 DEF LinkInv, StampInv

\* What a statement stores is of its press; without two presses at one time it is all.
LEMMA StoredIs ==
  ASSUME NEW p, LinkInv,
         eventRows' = eventRows \cup
           {CHOOSE e \in K!Events(p) : e.key = k :
              k \in {e.key : e \in K!Events(p)} \ {e.key : e \in eventRows}}
  PROVE  /\ eventRows \subseteq eventRows' /\ eventRows' \subseteq eventRows \cup K!Events(p)
         /\ (\A e \in eventRows : e.key[3] # p.at) => K!Events(p) \subseteq eventRows'
<1> DEFINE keys == {e.key : e \in K!Events(p)}
           fresh == keys \ {e.key : e \in eventRows}
           One(k) == CHOOSE e \in K!Events(p) : e.key = k
<1>1. eventRows' = eventRows \cup {One(k) : k \in fresh}
  OBVIOUS
<1>2. ASSUME NEW e \in K!Events(p) PROVE One(e.key) = e
  BY EventFacts
<1>3. \A k \in keys : \E e \in K!Events(p) : k = e.key
  OBVIOUS
<1>4. \A e \in K!Events(p) : e.key \in keys /\ e.key[3] = p.at
  BY EventFacts
<1>5. fresh \subseteq keys /\ \A k \in keys : k \in fresh \/ \E e \in eventRows : k = e.key
  OBVIOUS
<1> HIDE DEF One, keys, fresh
<1>6. \A k \in fresh : One(k) \in K!Events(p)
  BY <1>2, <1>3, <1>5
<1>7. ASSUME \A e \in eventRows : e.key[3] # p.at, NEW e \in K!Events(p) PROVE e \in eventRows'
  BY <1>1, <1>2, <1>4, <1>5, <1>7
<1>8. QED
  BY <1>1, <1>6, <1>7

LEMMA StoreStep ==
  ASSUME LinkInv, NEW t \in Tabs, K!Store(t)
  PROVE  LinkInv'
<1> DEFINE p == tab[t]
           after == IF K!CanProxy(p) THEN [p EXCEPT !.pc = "post"] ELSE K!Answered(p)
<1>1. /\ p.pc = "store" /\ UNCHANGED <<settings, time, taken, picked, presses>>
      /\ \/ /\ eventRows' = eventRows \cup
                 {CHOOSE e \in K!Events(p) : e.key = k :
                    k \in {e.key : e \in K!Events(p)} \ {e.key : e \in eventRows}}
            /\ tab' = [tab EXCEPT ![t] = [after EXCEPT !.saved = TRUE]]
         \/ tab' = [tab EXCEPT ![t] = after] /\ UNCHANGED eventRows
  BY DEF K!Store, K!Show
<1>2. /\ tab \in [Tabs -> Page] /\ p \in Page /\ time \in Nat
      /\ PageInv /\ PickInv /\ RowsInv /\ StoreInv /\ SavedInv /\ K!ToldUnlessRefused
  BY DEF LinkInv, PageInv, StampInv
<1>3. ~p.saved
  BY <1>1, <1>2 DEF StoreInv
<1>4. /\ after \in Page /\ after.pc \in {"post", "answered"} /\ after.at = p.at /\ ~after.saved
      /\ K!Events(after) = K!Events(p)
      /\ after.pc = "post" => after.all = p.all /\ after.off = p.off
      /\ after.pc = "answered" => after.told # "stopped"
  <2>1. CASE K!CanProxy(p)
    <3> DEFINE q == [p EXCEPT !.pc = "post"]
    <3>1. /\ q \in Page /\ q.pc = "post" /\ q.at = p.at /\ q.all = p.all /\ q.off = p.off
          /\ q.saved = p.saved /\ q.page = p.page /\ q.reason = p.reason
      BY <1>2 DEF Page
    <3> HIDE DEF q
    <3>2. K!Events(q) = K!Events(p)
      BY <3>1, SameEvents
    <3>3. after = q
      BY <2>1 DEF q
    <3>4. QED
      BY <1>3, <3>1, <3>2, <3>3
  <2>2. CASE ~K!CanProxy(p)
    BY <1>2, <1>3, <2>2, AnswerIs, MessageIs
  <2>3. QED
    BY <2>1, <2>2
<1> DEFINE q == tab'[t]
           saved == [after EXCEPT !.saved = TRUE]
<1> HIDE DEF after
<1>5. /\ saved \in Page /\ saved.pc = after.pc /\ saved.at = p.at /\ saved.told = after.told
      /\ saved.all = after.all /\ saved.off = after.off /\ saved.saved
      /\ K!Events(saved) = K!Events(p)
  <2>1. /\ saved \in Page /\ saved.pc = after.pc /\ saved.at = after.at /\ saved.told = after.told
        /\ saved.all = after.all /\ saved.off = after.off /\ saved.saved
        /\ saved.page = after.page /\ saved.reason = after.reason
    BY <1>4 DEF Page
  <2> HIDE DEF saved
  <2>2. QED
    BY <1>4, <2>1, SameEvents
<1>6. /\ eventRows \subseteq eventRows' /\ eventRows' \subseteq eventRows \cup K!Events(p)
      /\ tab' = [tab EXCEPT ![t] = q] /\ q \in {after, saved}
      /\ q = after \/ p.at \in Shared \/ K!Events(p) \subseteq eventRows'
  <2>1. CASE tab' = [tab EXCEPT ![t] = after] /\ UNCHANGED eventRows
    BY <1>2, <2>1
  <2>2. CASE tab' # [tab EXCEPT ![t] = after] \/ eventRows' # eventRows
    <3>1. /\ eventRows \subseteq eventRows' /\ eventRows' \subseteq eventRows \cup K!Events(p)
          /\ (\A e \in eventRows : e.key[3] # p.at) => K!Events(p) \subseteq eventRows'
      BY <1>1, <2>2, StoredIs
    <3>2. tab' = [tab EXCEPT ![t] = saved]
      BY <1>1, <2>2
    <3>3. p.at \in Shared \/ \A e \in eventRows : e.key[3] # p.at
      BY <1>1, <1>2 DEF StoreInv
    <3>4. QED
      BY <1>2, <3>1, <3>2, <3>3
  <2>3. QED
    BY <2>1, <2>2
<1> HIDE DEF saved
<1>7. /\ q \in Page /\ q.pc \in {"post", "answered"} /\ q.at = p.at /\ K!Events(q) = K!Events(p)
      /\ q.pc = "post" => q.all = p.all /\ q.off = p.off
      /\ q.pc = "answered" => q.told # "stopped"
  BY <1>4, <1>5, <1>6
<1>8. /\ \A u \in Tabs \ {t} : tab'[u] = tab[u]
      /\ Stamps' = Stamps /\ Shared' = Shared
  BY <1>1, <1>2, <1>6 DEF Stamps, Shared
<1>9. PageInv'
  <2>1. tab' \in [Tabs -> Page]
    BY <1>2, <1>6, <1>7
  <2>2. QED
    BY <1>1, <1>2, <2>1 DEF PageInv, Page, Reasons
<1>10. PickInv'
  <2>1. \A e \in K!Events(p) : Picked(e)
    BY <1>1, <1>2, EventsPicked
  <2>2. \A e : Picked(e) => Picked(e)'
    BY <1>1 DEF Picked
  <2>3. \A e \in taken' \cup eventRows' : Picked(e)
    BY <1>1, <1>2, <1>6, <2>1 DEF PickInv
  <2>4. ASSUME NEW u \in Tabs, tab'[u].pc \in {"store", "post"}
        PROVE  IF tab'[u].all THEN "all" \in picked ELSE tab'[u].off \subseteq picked
    <3>1. IF tab[u].all THEN "all" \in picked ELSE tab[u].off \subseteq picked
      <4>1. CASE u = t
        BY <1>1, <1>2, <4>1 DEF PickInv
      <4>2. CASE u # t
        BY <1>2, <1>8, <2>4, <4>2 DEF PickInv
      <4>3. QED
        BY <4>1, <4>2
    <3>2. tab'[u].all = tab[u].all /\ tab'[u].off = tab[u].off
      BY <1>7, <1>8, <2>4
    <3>3. QED
      BY <3>1, <3>2
  <2>5. QED
    BY <1>1, <2>2, <2>3, <2>4 DEF PickInv
<1>11. RowsInv'
  <2>1. \A e \in K!Events(p) : e.key[3] = p.at
    BY EventFacts
  <2>2. p.at \in Stamps
    BY <1>1, <1>2 DEF StoreInv
  <2>3. QED
    BY <1>2, <1>6, <1>8, <2>1, <2>2 DEF RowsInv
<1>12. StoreInv'
  <2>1. \A e \in eventRows' : e \in eventRows \/ e.key[3] = p.at
    BY <1>6, EventFacts
  <2>2. ASSUME NEW u \in Tabs, tab'[u].pc = "store"
        PROVE  /\ u # t /\ tab'[u] = tab[u] /\ ~tab[u].saved
               /\ tab[u].at \in Stamps
               /\ tab[u].at \in Shared \/ \A e \in eventRows' : e.key[3] # tab[u].at
               /\ \A w \in Tabs \ {u} :
                    tab[w].pc = "store" /\ tab[w].at = tab[u].at => tab[u].at \in Shared
    <3>1. u # t /\ tab'[u] = tab[u]
      BY <1>7, <1>8, <2>2
    <3>2. /\ ~tab[u].saved /\ tab[u].at \in Stamps
          /\ tab[u].at \in Shared \/ \A e \in eventRows : e.key[3] # tab[u].at
          /\ \A w \in Tabs \ {u} : tab[w].pc = "store" /\ tab[w].at = tab[u].at => tab[u].at \in Shared
      BY <1>2, <2>2, <3>1 DEF StoreInv
    <3>3. p.at = tab[u].at => tab[u].at \in Shared
      BY <1>1, <3>1, <3>2
    <3>4. QED
      BY <2>1, <3>1, <3>2, <3>3
  <2>3. QED
    BY <1>8, <2>2 DEF StoreInv
<1>13. SavedInv'
  <2>1. ASSUME NEW u \in Tabs, tab'[u].pc \in {"post", "answered"}, tab'[u].saved
        PROVE  K!Events(tab'[u]) \subseteq eventRows' \/ tab'[u].at \in Shared
    <3>1. CASE u = t /\ q # after
      BY <1>6, <1>7, <3>1
    <3>2. CASE u = t /\ q = after
      BY <1>4, <2>1, <3>2
    <3>3. CASE u # t
      BY <1>2, <1>6, <1>8, <2>1, <3>3 DEF SavedInv
    <3>4. QED
      BY <3>1, <3>2, <3>3
  <2>2. QED
    BY <1>8, <2>1 DEF SavedInv
<1>14. K!ToldUnlessRefused'
  BY <1>1, <1>2, <1>7, <1>8 DEF K!ToldUnlessRefused
<1>15. QED
  BY <1>9, <1>10, <1>11, <1>12, <1>13, <1>14 DEF LinkInv, StampInv

LEMMA LinkStep == LinkInv /\ [K!LinkNext]_links => LinkInv'
<1> SUFFICES ASSUME LinkInv, [K!LinkNext]_links PROVE LinkInv'
  OBVIOUS
<1>1. CASE UNCHANGED links
  BY <1>1 DEF links, LinkInv, PageInv, Page, Reasons, PickInv, Picked, StampInv, RowsInv, StoreInv,
              SavedInv, Stamps, Shared, K!ToldUnlessRefused
<1>2. CASE K!LinkNext
  <2>1. ASSUME NEW t \in Tabs, K!Refused(t) PROVE LinkInv'
    BY <2>1, GivenUpStep DEF K!Refused, K!Show
  <2>2. QED
    BY <1>2, <2>1, FollowStep, UntickStep, PressStep, StoreStep, TakenStep, FailedStep, BackStep,
       RestartStep, TickOfLinks
       DEF K!LinkNext
<1>3. QED
  BY <1>1, <1>2

LEMMA LinkBase == K!LinkInit => LinkInv
<1> SUFFICES ASSUME K!LinkInit PROVE LinkInv
  OBVIOUS
<1>1. /\ time = 1 /\ tab = [t \in Tabs |-> K!NoPage] /\ eventRows = {} /\ taken = {} /\ presses = {}
  BY DEF K!LinkInit
<1>2. K!NoPage \in Page /\ K!NoPage.pc = "closed"
  BY DEF K!NoPage, Page, Reasons
<1>3. PageInv
  BY <1>1, <1>2, FS_EmptySet DEF PageInv
<1>4. PickInv /\ StampInv /\ K!ToldUnlessRefused
  BY <1>1, <1>2 DEF PickInv, StampInv, RowsInv, StoreInv, SavedInv, K!ToldUnlessRefused
<1>5. QED
  BY <1>3, <1>4 DEF LinkInv

\* Two presses at one time are more than one.
LEMMA LinkFacts == LinkInv => K!LinksHold
<1> SUFFICES ASSUME LinkInv PROVE K!LinksHold
  OBVIOUS
<1>1. K!StopsOnlyWhatWasPicked
  BY DEF LinkInv, PickInv, Picked, K!StopsOnlyWhatWasPicked
<1>2. ASSUME NEW at \in Shared PROVE K!Cardinality({p \in presses : p[2] = at}) > 1
  <2> DEFINE S == {p \in presses : p[2] = at}
  <2>1. PICK p, q \in presses : p # q /\ p[2] = at /\ q[2] = at
    BY <1>2 DEF Shared
  <2>2. IsFiniteSet(S) /\ {p, q} \subseteq S
    BY <2>1, FS_Subset DEF LinkInv, PageInv
  <2>3. Cardinality({p, q}) = 2 /\ IsFiniteSet({p, q})
    <3>1. Cardinality({p}) = 1 /\ IsFiniteSet({p})
      BY FS_Singleton
    <3>2. q \notin {p} /\ {p} \cup {q} = {p, q}
      BY <2>1
    <3>3. QED
      BY <3>1, <3>2, FS_AddElement
  <2> HIDE DEF S
  <2>4. Cardinality(S) \in Nat /\ Cardinality({p, q}) <= Cardinality(S)
    BY <2>2, FS_Subset, FS_CardinalityType
  <2>5. Cardinality(S) > 1
    BY <2>3, <2>4
  <2>6. QED
    BY <2>5, CardinalityOfLinks DEF S
<1>3. K!PressIsRecorded
  BY <1>2 DEF LinkInv, StampInv, SavedInv, K!PressIsRecorded
<1>4. QED
  BY <1>1, <1>3 DEF LinkInv, K!LinksHold

\* Nobody is stopped from more than was picked, a saved press is stored whole unless
\* another had its millisecond, and who is told that mails stop was reported unless
\* the posts were refused, for any tabs, categories and settings.
THEOREM PressesCorrect == K!LinkSpec => []K!LinksHold
<1>1. LinkInv /\ [K!LinkNext]_(K!linkVars) => LinkInv'
  BY LinkStep DEF K!linkVars, links
<1>2. QED
  BY <1>1, LinkBase, LinkFacts, PTL DEF K!LinkSpec

\* The same of the instance the runs check.
THEOREM LinksCorrect == MCSpec => []LinksHold
<1>1. MCInit => LinkInv
  BY LinkBase DEF MCInit
<1>2. LinkInv /\ [MCNext]_<<part, vars, account, logs, links>> => LinkInv'
  <2> SUFFICES ASSUME LinkInv, [MCNext]_<<part, vars, account, logs, links>> PROVE LinkInv'
    OBVIOUS
  <2>1. [K!LinkNext]_links
    BY DEF MCNext
  <2>2. QED
    BY <2>1, LinkStep
<1>3. LinkInv => LinksHold
  BY LinkFacts DEF LinksHold
<1>4. QED
  BY <1>1, <1>2, <1>3, PTL DEF MCSpec
=============================================================================
