-------------------------------- MODULE Onsite --------------------------------
(***************************************************************************)
(* The onsite offer of one recipient: frozen and linked by                 *)
(* src/onsite/issue.ts, opened by browsers through src/onsite/service.ts   *)
(* over src/db/repos/onsite.ts, and pruned by src/db/retention.ts.         *)
(*                                                                         *)
(* One decision is shared by the activations of several channels or        *)
(* touches; each has a link, which the first browser to open it keeps.     *)
(* A request is split at its awaits.  The clock is relative: every row     *)
(* carries its age, and a request the time since its `now`.                *)
(***************************************************************************)
EXTENDS Naturals, FiniteSets

CONSTANTS
  Acts,            \* activations of the decision
  Window,          \* Window[a]: ticks from the issue of a to its expires_at
  Browsers,        \* visitors, each with a nonce and a receipt to post
  Sessions,        \* session rows that may be minted
  Requests,        \* browser requests the process may handle at once
  IdleLimit, AbsoluteLimit,  \* SESSION_IDLE_SECONDS, SESSION_ABSOLUTE_SECONDS, in ticks
  KeepExpired,     \* DISPATCHER_ONSITE_RETENTION_DAYS, in ticks
  KeepDecision,    \* the 90 days of a decision, in ticks
  Patience,        \* ticks a request may take; with 0 a dispatch takes none either
  MaxFaults        \* bound on failed statements, lost answers and crashes

ASSUME WindowAssumption == Window \in [Acts -> Nat \ {0}]
ASSUME LifeAssumption == IdleLimit \in Nat \ {0} /\ AbsoluteLimit \in Nat \ {0}
ASSUME KeepAssumption == KeepExpired \in Nat \ {0} /\ KeepDecision \in Nat \ {0}
ASSUME BoundAssumption == Patience \in Nat /\ MaxFaults \in Nat

VARIABLES
  decision,    \* onsite_decisions: whose wording was frozen, and updated_at
  issue,       \* issue[a]: how far the dispatch of a has come
  act,         \* onsite_activations
  session,     \* onsite_sessions
  cookie,      \* cookie[b]: the session a browser holds
  req,         \* the local variables of each request
  stored,      \* onsite_receipts, by the browser that posted
  told,        \* receipts with an event in the outbox
  faults,
  \* history
  shown,       \* wordings a browser was given
  refused,     \* browsers told the link is another's: <<activation, browser>>
  acked,       \* receipts answered 201
  unrouted,    \* receipts of a campaign whose callback was not found
  pruned       \* the decision was swept

tables == <<decision, act, session>>
history == <<shown, refused, acked, unrouted, pruned>>
vars == <<tables, issue, cookie, req, stored, told, faults, history>>

Nothing == "none"
NoDecision == [snapshot |-> Nothing, age |-> 0]
NoAct == [exists |-> FALSE, nonce |-> Nothing, age |-> 0]
NoSession == [act |-> Nothing, nonce |-> Nothing, age |-> 0, idle |-> 0]
Gone == [NoSession EXCEPT !.act = "gone"]
NoRequest == [pc |-> "idle", who |-> Nothing, act |-> Nothing, session |-> Nothing,
              post |-> FALSE, snapshot |-> Nothing, age |-> 0]

ASSUME NameAssumption == Nothing \notin Acts \cup Browsers \cup Sessions /\ "gone" \notin Acts

Init ==
  /\ decision = NoDecision
  /\ issue = [a \in Acts |-> "new"]
  /\ act = [a \in Acts |-> NoAct]
  /\ session = [s \in Sessions |-> NoSession]
  /\ cookie = [b \in Browsers |-> Nothing]
  /\ req = [q \in Requests |-> NoRequest]
  /\ stored = {} /\ told = {}
  /\ faults = 0
  /\ shown = {} /\ refused = {} /\ acked = {} /\ unrouted = {} /\ pruned = FALSE

Frozen == decision.snapshot # Nothing
Minted(s) == session[s].act \in Acts

-----------------------------------------------------------------------------
(***************************************************************************)
(* Issuing: ensureDecision reads the decision and freezes it when there is *)
(* none, the link goes into the message, and the flush stores it.          *)
(***************************************************************************)
EnsureDecision(a) ==
  /\ issue[a] = "new"
  /\ issue' = [issue EXCEPT ![a] = IF Frozen THEN "linked" ELSE "freeze"]
  /\ UNCHANGED <<tables, cookie, req, stored, told, faults, history>>

\* The upsert: when another channel was faster, only updated_at moves.
Freeze(a) ==
  /\ issue[a] = "freeze"
  /\ decision' = [snapshot |-> IF Frozen THEN decision.snapshot ELSE a, age |-> 0]
  /\ issue' = [issue EXCEPT ![a] = "linked"]
  /\ UNCHANGED <<act, session, cookie, req, stored, told, faults, history>>

\* onsite.flush
StoreLink(a) ==
  /\ issue[a] = "linked"
  /\ issue' = [issue EXCEPT ![a] = "done"]
  /\ act' = [act EXCEPT ![a] = [exists |-> TRUE, nonce |-> Nothing, age |-> 0]]
  /\ UNCHANGED <<decision, session, cookie, req, stored, told, faults, history>>

\* Any of its statements fails, or the process dies: the recipient gets no
\* link, or one nobody knows.
IssueFails(a) ==
  /\ issue[a] \in {"new", "freeze", "linked"}
  /\ faults < MaxFaults
  /\ faults' = faults + 1
  /\ issue' = [issue EXCEPT ![a] = "done"]
  /\ UNCHANGED <<tables, cookie, req, stored, told, history>>

-----------------------------------------------------------------------------
(***************************************************************************)
(* redeemActivation.  A request that is turned away at once (no such row,  *)
(* or expired) changes nothing and is left out.                            *)
(***************************************************************************)
End(q) == req' = [req EXCEPT ![q] = NoRequest]
Go(q, pc) == req' = [req EXCEPT ![q].pc = pc]

Redeem(q, b, a) ==
  /\ req[q].pc = "idle"
  /\ act[a].exists /\ act[a].age < Window[a]
  /\ req' = [req EXCEPT ![q] = [NoRequest EXCEPT !.pc = "bind", !.who = b, !.act = a]]
  /\ UNCHANGED <<tables, issue, cookie, stored, told, faults, history>>

\* Mutant of Bind: the update forgets its visitor_nonce_hash IS NULL.
BindAnyway(q) ==
  LET a == req[q].act IN
  /\ req[q].pc = "bind"
  /\ act' = IF act[a].exists THEN [act EXCEPT ![a].nonce = req[q].who] ELSE act
  /\ Go(q, IF act[a].exists THEN "render" ELSE "compare")
  /\ UNCHANGED <<decision, session, issue, cookie, stored, told, faults, history>>

\* bindActivationNonce: one conditional update.
Bind(q) ==
  LET a == req[q].act
      first == act[a].exists /\ act[a].nonce = Nothing
  IN
  /\ req[q].pc = "bind"
  /\ act' = IF first THEN [act EXCEPT ![a].nonce = req[q].who] ELSE act
  /\ Go(q, IF first THEN "render" ELSE "compare")
  /\ UNCHANGED <<decision, session, issue, cookie, stored, told, faults, history>>

\* Somebody bound it before: this browser, which may go on, or another one.
Compare(q) ==
  LET a == req[q].act
      same == act[a].exists /\ act[a].nonce = req[q].who
  IN
  /\ req[q].pc = "compare"
  /\ IF same THEN Go(q, "render") ELSE End(q)
  /\ refused' = IF same THEN refused ELSE refused \cup {<<a, req[q].who>>}
  /\ UNCHANGED <<tables, issue, cookie, stored, told, faults, shown, acked, unrouted, pruned>>

\* envelopeForActivation, for a redeem and for a visit.
Render(q) ==
  /\ req[q].pc \in {"render", "visit"}
  /\ IF Frozen /\ (req[q].pc = "visit" => act[req[q].act].exists)
       THEN req' = [req EXCEPT ![q].snapshot = decision.snapshot,
                               ![q].pc = IF @ = "render" THEN "mint" ELSE "touch"]
       ELSE End(q)
  /\ UNCHANGED <<tables, issue, cookie, stored, told, faults, history>>

\* insertOnsiteSession, and the answer with its cookie, which may be lost.
Mint(q) ==
  LET b == req[q].who IN
  /\ req[q].pc = "mint"
  /\ \E s \in Sessions :
       /\ session[s] = NoSession
       /\ session' = [session EXCEPT ![s] = [act |-> req[q].act, nonce |-> b,
                                             age |-> req[q].age, idle |-> req[q].age]]
       /\ \/ /\ cookie' = [cookie EXCEPT ![b] = s]
             /\ shown' = shown \cup {req[q].snapshot}
             /\ UNCHANGED faults
          \/ /\ faults < MaxFaults /\ faults' = faults + 1
             /\ UNCHANGED <<cookie, shown>>
  /\ End(q)
  /\ UNCHANGED <<decision, act, issue, stored, told, refused, acked, unrouted, pruned>>

-----------------------------------------------------------------------------
(***************************************************************************)
(* getOnsiteSession and recordOnsiteReceipt, for the session in the cookie.*)
(***************************************************************************)
Live(s) == Minted(s) /\ session[s].age < AbsoluteLimit /\ session[s].idle < IdleLimit

Open(q, b, post) ==
  LET s == cookie[b] IN
  /\ req[q].pc = "idle"
  /\ s # Nothing
  /\ Live(s)
  /\ req' = [req EXCEPT ![q] = [NoRequest EXCEPT !.who = b, !.session = s, !.act = session[s].act,
                                  !.post = post, !.pc = IF post THEN "store" ELSE "visit"]]
  /\ UNCHANGED <<tables, issue, cookie, stored, told, faults, history>>

Visit(q, b) == Open(q, b, FALSE)
Post(q, b) == Open(q, b, TRUE)

\* getActivationById and insertOnsiteReceipt, which ignores a known receipt_id.
StoreReceipt(q) ==
  /\ req[q].pc = "store"
  /\ IF act[req[q].act].exists
       THEN Go(q, "tell") /\ stored' = stored \cup {req[q].who}
       ELSE End(q) /\ UNCHANGED stored
  /\ UNCHANGED <<tables, issue, cookie, told, faults, history>>

\* Mutant of Tell: a receipt the table already had is not forwarded.
TellOnce(q) ==
  /\ req[q].pc = "tell"
  /\ Go(q, "touch")
  /\ told' = IF req[q].who \in stored THEN told ELSE told \cup {req[q].who}
  /\ UNCHANGED <<tables, issue, cookie, stored, faults, history>>

\* enqueueOnsiteReceipt: an event for every post, unless the campaign's callback
\* is not found; nobody hears of that.
Tell(q) ==
  /\ req[q].pc = "tell"
  /\ Go(q, "touch")
  /\ \/ /\ told' = told \cup {req[q].who}
        /\ UNCHANGED <<faults, unrouted>>
     \/ /\ faults < MaxFaults /\ faults' = faults + 1
        /\ unrouted' = unrouted \cup {req[q].who}
        /\ UNCHANGED told
  /\ UNCHANGED <<tables, issue, cookie, stored, shown, refused, acked, pruned>>

\* touchOnsiteSession with the `now` of the request, and the answer.
Touch(q) ==
  LET s == req[q].session IN
  /\ req[q].pc = "touch"
  /\ session' = IF Minted(s) THEN [session EXCEPT ![s].idle = req[q].age] ELSE session
  /\ shown' = IF req[q].post THEN shown ELSE shown \cup {req[q].snapshot}
  /\ acked' = IF req[q].post THEN acked \cup {req[q].who} ELSE acked
  /\ End(q)
  /\ UNCHANGED <<decision, act, issue, cookie, stored, told, faults, refused, unrouted, pruned>>

\* A statement of a request fails: 500, and what it did so far stays.
RequestFails(q) ==
  /\ req[q].pc # "idle"
  /\ faults < MaxFaults
  /\ faults' = faults + 1
  /\ End(q)
  /\ \/ UNCHANGED told
     \/ req[q].pc = "tell" /\ told' = told \cup {req[q].who}  \* the event got in first
  /\ UNCHANGED <<tables, issue, cookie, stored, history>>

-----------------------------------------------------------------------------
(***************************************************************************)
(* Time (an age stops once nothing more depends on it) and                 *)
(* runRetentionSweep.                                                      *)
(***************************************************************************)
Older(n, limit) == IF n > limit THEN n ELSE n + 1
LinkLife(a) == Window[a] + KeepExpired
SessionLife == AbsoluteLimit + KeepExpired

Tick ==
  /\ \A q \in Requests : req[q].pc # "idle" => req[q].age < Patience
  /\ Patience = 0 => \A a \in Acts : issue[a] \in {"new", "done"}
  /\ decision' = IF Frozen THEN [decision EXCEPT !.age = Older(@, KeepDecision)] ELSE decision
  /\ act' = [a \in Acts |-> IF act[a].exists THEN [act[a] EXCEPT !.age = Older(@, LinkLife(a))] ELSE act[a]]
  /\ session' = [s \in Sessions |-> IF Minted(s)
                   THEN [session[s] EXCEPT !.age = Older(@, SessionLife), !.idle = Older(@, IdleLimit - 1)]
                   ELSE session[s]]
  /\ req' = [q \in Requests |-> IF req[q].pc = "idle" THEN req[q]
                                ELSE [req[q] EXCEPT !.age = @ + 1]]
  /\ UNCHANGED <<issue, cookie, stored, told, faults, history>>

SweepLinks ==
  /\ \E a \in Acts : act[a].exists /\ act[a].age > LinkLife(a)
  /\ act' = [a \in Acts |-> IF act[a].age > LinkLife(a) THEN NoAct ELSE act[a]]
  /\ UNCHANGED <<decision, session, issue, cookie, req, stored, told, faults, history>>

SweepSessions ==
  /\ \E s \in Sessions : session[s].age > SessionLife
  /\ session' = [s \in Sessions |-> IF session[s].age > SessionLife THEN Gone ELSE session[s]]
  /\ UNCHANGED <<decision, act, issue, cookie, req, stored, told, faults, history>>

SweepDecision ==
  /\ decision.age > KeepDecision
  /\ decision' = NoDecision
  /\ pruned' = TRUE
  /\ UNCHANGED <<act, session, issue, cookie, req, stored, told, faults,
                 shown, refused, acked, unrouted>>

Issuing(a) == EnsureDecision(a) \/ Freeze(a) \/ StoreLink(a) \/ IssueFails(a)

Handling(q) ==
  \/ Bind(q) \/ Compare(q) \/ Render(q) \/ Mint(q)
  \/ StoreReceipt(q) \/ Tell(q) \/ Touch(q)

Arrival(q) ==
  \E b \in Browsers :
    \/ \E a \in Acts : Redeem(q, b, a)
    \/ Visit(q, b)
    \/ Post(q, b)

Next ==
  \/ \E a \in Acts : Issuing(a)
  \/ \E q \in Requests : Arrival(q) \/ Handling(q) \/ RequestFails(q)
  \/ Tick
  \/ SweepLinks
  \/ SweepSessions
  \/ SweepDecision

Spec == Init /\ [][Next]_vars

-----------------------------------------------------------------------------
Activation == [exists : BOOLEAN, nonce : Browsers \cup {Nothing}, age : Nat]
Session == [act : Acts \cup {Nothing, "gone"}, nonce : Browsers \cup {Nothing},
            age : 0..SessionLife + 1 + Patience, idle : 0..IdleLimit + Patience]
Request == [pc : {"idle", "bind", "compare", "render", "mint", "visit", "store", "tell", "touch"},
            who : Browsers \cup {Nothing}, act : Acts \cup {Nothing},
            session : Sessions \cup {Nothing}, post : BOOLEAN,
            snapshot : Acts \cup {Nothing}, age : 0..Patience]

\* Every variable holds a value of its type, and only a request that opened a
\* session has one in hand.
TypeOK ==
  /\ decision \in [snapshot : Acts \cup {Nothing}, age : 0..KeepDecision + 1]
  /\ issue \in [Acts -> {"new", "freeze", "linked", "done"}]
  /\ act \in [Acts -> Activation]
  /\ \A a \in Acts : act[a].age <= LinkLife(a) + 1
  /\ session \in [Sessions -> Session]
  /\ cookie \in [Browsers -> Sessions \cup {Nothing}]
  /\ req \in [Requests -> Request]
  /\ \A q \in Requests :
       req[q].pc \in {"visit", "store", "tell", "touch"} <=> req[q].session # Nothing
  /\ stored \subseteq Browsers /\ told \subseteq Browsers /\ faults \in 0..MaxFaults
  /\ shown \subseteq Acts /\ refused \subseteq Acts \X Browsers
  /\ acked \subseteq Browsers /\ unrouted \subseteq Browsers /\ pruned \in BOOLEAN

\* First writer wins: whatever redeems overlap, all sessions of a link belong to
\* one browser, the one the link is bound to (service.ts, bindActivationNonce).
OneBrowser ==
  \A s \in Sessions : Minted(s) =>
    LET a == session[s].act IN
    /\ act[a].exists => act[a].nonce = session[s].nonce
    /\ \A t \in Sessions : session[t].act = a => session[t].nonce = session[s].nonce

\* Redeeming again is idempotent: the browser a link is bound to is never told
\* that the link is another's, also when the answer to its first redeem was lost.
OnlyOthersRefused ==
  \A a \in Acts, b \in Browsers :
    <<a, b>> \in refused /\ act[a].exists => act[a].nonce # b

\* The creative is frozen: as long as retention did not prune the decision, all
\* browsers of all channels are given the same wording.
SameOffer == Cardinality(shown) > 1 => pruned

\* What an open link promises, whatever requests overlap.
OffersHold == OneBrowser /\ OnlyOthersRefused /\ SameOffer

\* A receipt that was answered 201 is in the table and its event in the outbox,
\* unless the callback of its campaign was not found.  In particular a retry
\* after a failure half way through still leads to the event.
AcknowledgedIsTold == acked \subseteq stored /\ acked \subseteq told \cup unrouted

\* retention.ts: "Decisions are frozen snapshots reused across channels, so keep
\* them the longest": a link that can be opened has the offer it opens.
OpenLinkHasItsOffer ==
  \A a \in Acts : act[a].exists /\ act[a].age < Window[a] => Frozen
=============================================================================
