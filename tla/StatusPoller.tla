---------------------------- MODULE StatusPoller ----------------------------
(***************************************************************************)
(* Freshchat delivery statuses: the poller of                              *)
(* src/events/freshchat/status-poller.ts and the webhook handler of        *)
(* src/events/index.ts report the progress of each sent message to the     *)
(* analytics receiver.  Both work on the message's row in                  *)
(* provider_message_ids (status_event: the last reported event;            *)
(* next_poll_at: when to ask again), and both read the row, await a        *)
(* forward, and write the row by id afterwards.                            *)
(*                                                                         *)
(* A receipt is a pair <<message, event>>.  next_poll_at is "due", "later" *)
(* or "off" (null): how much later, which backs off with the age of the    *)
(* message, is not told apart.                                             *)
(***************************************************************************)
EXTENDS Integers, FiniteSets

CONSTANTS
  Msgs,         \* messages accepted by Freshchat
  Senders,      \* Freshchat senders
  Polled,       \* those with status_poller on
  Sender,       \* Sender[m]: the sender of a message
  Statuses,     \* the statuses the provider may reach after "dispatched"
  BatchLimit,   \* BATCH_LIMIT
  Concurrency,  \* CONCURRENCY
  ForwardChunk, \* FORWARD_CHUNK
  Hooks,        \* webhook requests that may be handled at the same time
  MaxWebhooks,  \* bound on webhook requests
  MaxFaults     \* bound on crashes, database errors, lost and split answers

ASSUME SenderAssumption == Sender \in [Msgs -> Senders] /\ Polled \subseteq Senders
ASSUME StatusAssumption == Statuses \subseteq {"delivered", "read", "clicked", "bounced"}
ASSUME SizeAssumption ==
  BatchLimit \in Nat \ {0} /\ Concurrency \in Nat \ {0} /\ ForwardChunk \in Nat \ {0}
ASSUME BoundAssumption == MaxWebhooks \in Nat /\ MaxFaults \in Nat

VARIABLES
  truth,     \* the provider's status of each message
  deleted,   \* messages whose drip was deleted: the receiver refuses their receipts
  \* provider_message_ids
  row, statusEvent, poll, old,
  paused,    \* pausedUntil: senders not asked before a deadline
  \* one tick of the poller
  tick, todo, flight, seen, change, chunk, verdict,
  stray,     \* lookups of a tick that has already failed: <<message, seen>>
  \* the handler of each webhook request
  hook, receipts,
  webhooks,  \* webhook requests so far
  faults,    \* crashes, database errors, lost and split answers so far
  \* history
  reported,  \* receipts the receiver has
  repeated,  \* receipts the receiver was given more than once
  blind      \* messages a webhook was forwarded for without reading their row

table == <<row, statusEvent, poll, old>>
locals == <<tick, todo, flight, seen, change, chunk, verdict>>
handlers == <<hook, receipts, webhooks>>
history == <<reported, repeated, blind>>
vars == <<truth, deleted, table, paused, locals, stray, handlers, faults, history>>

-----------------------------------------------------------------------------
Events == {"dispatched", "delivered", "read", "clicked", "bounced"}

\* statusRank; "none" is a status_event of null, which ranks as dispatched.
Rank == [none |-> 1, dispatched |-> 1, delivered |-> 2, read |-> 3, bounced |-> 3, clicked |-> 4]

Final == {"read", "bounced", "clicked"}

Ladder == {"dispatched", "delivered", "read", "clicked"}

\* Mutants of ImpliedSteps: nothing is filled in; the last reported rung is included.
ImpliedNone(last, next) == {}

\* The rungs strictly between the last reported event and the next one; none
\* when either is off the ladder.
ImpliedSteps(last, next) ==
  {e \in Ladder : /\ last \in Ladder \cup {"none"} /\ next \in Ladder
                  /\ Rank[last] < Rank[e] /\ Rank[e] < Rank[next]}

WithImpliedSteps(m, next, last) == {<<m, e>> : e \in ImpliedSteps(last, next) \cup {next}}

Kept(m) == row[m] = "kept"

\* updatePoll writes by id: a pruned row is not written.
Reschedule(m, when) == poll' = IF Kept(m) THEN [poll EXCEPT ![m] = when] ELSE poll

Init ==
  /\ truth = [m \in Msgs |-> "unsent"]
  /\ deleted = {}
  /\ row = [m \in Msgs |-> "absent"]
  /\ statusEvent = [m \in Msgs |-> "none"]
  /\ poll = [m \in Msgs |-> "off"]
  /\ old = [m \in Msgs |-> FALSE]
  /\ paused = {}
  /\ tick = "idle" /\ todo = {} /\ flight = {} /\ chunk = {} /\ verdict = <<>>
  /\ seen = [m \in Msgs |-> "none"]
  /\ change = [m \in Msgs |-> "none"]
  /\ stray = {}
  /\ hook = [h \in Hooks |-> "idle"]
  /\ receipts = [h \in Hooks |-> {}]
  /\ webhooks = 0 /\ faults = 0
  /\ reported = {} /\ repeated = {} /\ blind = {}

-----------------------------------------------------------------------------
(***************************************************************************)
(* The provider accepts a message and moves it along; the dispatch run     *)
(* saves the row after its loop, when webhooks may already have come.      *)
(***************************************************************************)
Succ == [unsent |-> {"dispatched"}, dispatched |-> {"delivered", "bounced"},
         delivered |-> {"read", "bounced"}, read |-> {"clicked"},
         clicked |-> {}, bounced |-> {}]

Progress(m) ==
  /\ \E s \in Succ[truth[m]] \cap (Statuses \cup {"dispatched"}) :
       truth' = [truth EXCEPT ![m] = s]
  /\ UNCHANGED <<deleted, table, paused, locals, stray, handlers, faults, history>>

Record(m) ==
  /\ truth[m] # "unsent" /\ row[m] = "absent"
  /\ row' = [row EXCEPT ![m] = "kept"]
  /\ poll' = IF Sender[m] \in Polled THEN [poll EXCEPT ![m] = "later"] ELSE poll
  /\ UNCHANGED <<truth, deleted, statusEvent, old, paused, locals, stray, handlers, faults, history>>

\* Time passes: a next_poll_at comes, a row passes freshchat_status_poll_ttl and
\* then, never before, message_id_ttl, a pause ends.  A running tick compares
\* pauses with the time it started at.
Elapse(m) ==
  /\ Kept(m) /\ poll[m] = "later"
  /\ poll' = [poll EXCEPT ![m] = "due"]
  /\ UNCHANGED <<truth, deleted, row, statusEvent, old, paused, locals, stray, handlers, faults, history>>

Age(m) ==
  /\ Kept(m) /\ ~old[m]
  /\ old' = [old EXCEPT ![m] = TRUE]
  /\ UNCHANGED <<truth, deleted, row, statusEvent, poll, paused, locals, stray, handlers, faults, history>>

Prune(m) ==
  /\ Kept(m) /\ old[m]
  /\ row' = [row EXCEPT ![m] = "pruned"]
  /\ poll' = [poll EXCEPT ![m] = "off"]
  /\ UNCHANGED <<truth, deleted, statusEvent, old, paused, locals, stray, handlers, faults, history>>

Unpause(s) ==
  /\ s \in paused /\ tick = "idle"
  /\ paused' = paused \ {s}
  /\ UNCHANGED <<truth, deleted, table, locals, stray, handlers, faults, history>>

-----------------------------------------------------------------------------
(***************************************************************************)
(* pollFreshchatStatusesOnce.  The timer starts a tick only when the last  *)
(* one has ended.  It first stops the rows past their ttl, then takes a    *)
(* snapshot of the due rows of senders that are not paused.                *)
(***************************************************************************)
\* Mutant of Expired: the ttl is never applied.
ExpiredNever == {}

Expired == {m \in Msgs : Kept(m) /\ old[m]}

StartTick ==
  LET due == {m \in Msgs : /\ Kept(m) /\ poll[m] = "due" /\ m \notin Expired
                           /\ Sender[m] \in Polled \ paused}
  IN  /\ tick = "idle"
      /\ poll' = [m \in Msgs |-> IF m \in Expired THEN "off" ELSE poll[m]]
      /\ \E S \in SUBSET due :
           /\ Cardinality(S) <= BatchLimit
           /\ Cardinality(S) < BatchLimit => S = due
           /\ todo' = S
           /\ seen' = [m \in Msgs |-> IF m \in S THEN statusEvent[m] ELSE "none"]
           /\ tick' = IF S = {} THEN "idle" ELSE "busy"
      /\ UNCHANGED <<truth, deleted, row, statusEvent, old, paused, flight, change, chunk,
                     verdict, stray, handlers, faults, history>>

\* mapLimit: at most Concurrency requests in flight; a row whose sender was
\* paused by another answer of this tick waits for the pause.
StartLookup(m) ==
  /\ tick = "busy" /\ m \in todo
  /\ Cardinality(flight) < Concurrency
  /\ todo' = todo \ {m}
  /\ IF Sender[m] \in paused
       THEN Reschedule(m, "later") /\ UNCHANGED flight
       ELSE flight' = flight \cup {m} /\ UNCHANGED poll
  /\ UNCHANGED <<truth, deleted, row, statusEvent, old, paused, tick, seen, change, chunk,
                 verdict, stray, handlers, faults, history>>

(***************************************************************************)
(* The answer of lookupStatus for a row whose last reported event was      *)
(* `last` when the tick began:                                             *)
(*   status   the provider's status                                        *)
(*   odd      a status mapFreshchatStatus does not know                    *)
(*   silent   no record (404), an error, a timeout                         *)
(*   pause    429, 401 or 403                                              *)
(* A status further along is kept for the forward; anything else is        *)
(* written at once, from the snapshot.                                     *)
(***************************************************************************)
Lookups == {"status", "odd", "silent", "pause"}

\* Mutant of Further: a repeated status is a change.
FurtherOrSame(m, last) == Rank[truth[m]] >= Rank[last]

Further(m, last) == Rank[truth[m]] > Rank[last]

AnswerWrite(m, last, lookup) ==
  /\ paused' = IF lookup = "pause" THEN paused \cup {Sender[m]} ELSE paused
  /\ IF lookup \in {"status", "odd"} /\ last \in Final
       THEN Reschedule(m, "off")
       ELSE Reschedule(m, "later")

Answer(m, lookup) ==
  /\ m \in flight
  /\ flight' = flight \ {m}
  /\ IF lookup = "status" /\ Further(m, seen[m])
       THEN change' = [change EXCEPT ![m] = truth[m]] /\ UNCHANGED <<poll, paused>>
       ELSE AnswerWrite(m, seen[m], lookup) /\ UNCHANGED change
  /\ UNCHANGED <<truth, deleted, row, statusEvent, old, tick, todo, seen, chunk, verdict,
                 stray, handlers, faults, history>>

-----------------------------------------------------------------------------
(***************************************************************************)
(* forwardFreshchatReceiptsIsolating, as one step (IsolatingForward has    *)
(* its recursion): the verdict on every receipt of a batch.                *)
(*   ok       accepted                                                     *)
(*   refused  a 4xx on its own: the drip of its message is deleted         *)
(*   failed   a passing failure                                            *)
(*   lost     the receiver has it, but no answer arrived                   *)
(* A batch without a refused receipt shares one verdict.  A batch with one *)
(* is split, and may get different verdicts for each part; its parts go    *)
(* out in ladder order.  D: drips deleted since the last forward.          *)
(***************************************************************************)
Verdicts == {"ok", "refused", "failed", "lost"}

Outcomes(R, D) ==
  IF \A r \in R : r[1] \notin deleted \cup D
    THEN {[r \in R |-> v] : v \in Verdicts \ {"refused"}}
    ELSE {o \in [R -> Verdicts] :
           /\ \A r \in R : r[1] \notin deleted \cup D => o[r] # "refused"
           /\ \A r \in R : r[1] \in deleted => o[r] \in {"refused", "failed"}
           /\ \A r, q \in R :
                r[1] = q[1] /\ o[r] \in {"ok", "lost"} /\ o[q] = "refused" => Rank[r[2]] < Rank[q[2]]}

\* Every answer arrived, and the endpoint was up, or down, for the whole batch.
Clean(o) ==
  \/ \A r \in DOMAIN o : o[r] \in {"ok", "refused"}
  \/ \A r \in DOMAIN o : o[r] = "failed"

Forward(R, D, o) ==
  LET got == {r \in R : o[r] \in {"ok", "lost"}}
  IN  /\ o \in Outcomes(R, D)
      /\ ~Clean(o) => faults < MaxFaults
      /\ faults' = IF Clean(o) THEN faults ELSE faults + 1
      /\ deleted' = deleted \cup D
      /\ reported' = reported \cup got
      /\ repeated' = repeated \cup (got \cap reported)
      /\ UNCHANGED blind

Changed == {m \in Msgs : change[m] # "none"}

Mine(m) == {r \in DOMAIN verdict : r[1] = m}

\* One chunk of changes: receipts for every step each change passed.
ForwardChunkStep ==
  /\ tick = "busy" /\ todo = {} /\ flight = {} /\ chunk = {} /\ Changed # {}
  /\ \E C \in SUBSET Changed :
       /\ Cardinality(C) <= ForwardChunk
       /\ Cardinality(C) < ForwardChunk => C = Changed
       /\ C # {}
       /\ LET R == UNION {WithImpliedSteps(m, change[m], seen[m]) : m \in C}
          IN  \E D \in SUBSET (C \ deleted) : \E o \in Outcomes(R, D) :
                Forward(R, D, o) /\ verdict' = o
       /\ chunk' = C
  /\ UNCHANGED <<truth, table, paused, tick, todo, flight, seen, change, stray, handlers>>

Settled(m) ==
  /\ m \in chunk
  /\ chunk' = chunk \ {m}
  /\ change' = [change EXCEPT ![m] = "none"]
  /\ verdict' = [r \in DOMAIN verdict \ Mine(m) |-> verdict[r]]
  /\ UNCHANGED <<truth, deleted, row, old, paused, tick, todo, flight, seen, stray, handlers,
                 faults, history>>

AnyFailed(m) == \E r \in Mine(m) : verdict[r] \in {"failed", "lost"}
AnyRefused(m) == \E r \in Mine(m) : verdict[r] = "refused"

\* Refused on its own: polling stops; steps that were accepted are recorded.
SettleRefused(m) ==
  LET reached == {r[2] : r \in {q \in Mine(m) : verdict[q] = "ok"}}
      top == {e \in reached : Rank[e] > Rank[seen[m]] /\ \A f \in reached : Rank[f] <= Rank[e]}
  IN  /\ Settled(m)
      /\ ~AnyFailed(m) /\ AnyRefused(m)
      /\ statusEvent' = IF Kept(m) /\ top # {}
                          THEN [statusEvent EXCEPT ![m] = CHOOSE e \in top : TRUE]
                          ELSE statusEvent
      /\ Reschedule(m, "off")

\* Mutant of SettleAccepted: a final event does not end polling.
SettleAcceptedPolling(m) ==
  /\ Settled(m)
  /\ ~AnyFailed(m) /\ ~AnyRefused(m)
  /\ statusEvent' = IF Kept(m) THEN [statusEvent EXCEPT ![m] = change[m]] ELSE statusEvent
  /\ Reschedule(m, "later")

SettleAccepted(m) ==
  /\ Settled(m)
  /\ ~AnyFailed(m) /\ ~AnyRefused(m)
  /\ statusEvent' = IF Kept(m) THEN [statusEvent EXCEPT ![m] = change[m]] ELSE statusEvent
  /\ Reschedule(m, IF change[m] \in Final THEN "off" ELSE "later")

\* Mutant of SettleRetry: the change is recorded though it was not accepted.
SettleRetryRecorded(m) ==
  /\ Settled(m)
  /\ AnyFailed(m)
  /\ statusEvent' = IF Kept(m) THEN [statusEvent EXCEPT ![m] = change[m]] ELSE statusEvent
  /\ Reschedule(m, "later")

\* Not recorded as reported: the next poll sees the change again.
SettleRetry(m) ==
  /\ Settled(m)
  /\ AnyFailed(m)
  /\ Reschedule(m, "later")
  /\ UNCHANGED statusEvent

EndTick ==
  /\ tick = "busy" /\ todo = {} /\ flight = {} /\ chunk = {} /\ Changed = {}
  /\ tick' = "idle"
  /\ seen' = [m \in Msgs |-> "none"]
  /\ UNCHANGED <<truth, deleted, table, paused, todo, flight, change, chunk, verdict, stray,
                 handlers, faults, history>>

-----------------------------------------------------------------------------
(***************************************************************************)
(* A webhook request: statuses the messages have reached, some long ago,   *)
(* at most one of each message.  reconcileWebhookReceipts drops what the   *)
(* row says was reported and fills in what was skipped; a message without  *)
(* a row passes through, and so does the whole request if the read fails.  *)
(* (A "dispatched" receipt goes through both steps unseen and is left      *)
(* out.)                                                                   *)
(***************************************************************************)
Reached(m) ==
  IF truth[m] = "bounced" THEN {"bounced"}
  ELSE {e \in Ladder : truth[m] # "unsent" /\ 1 < Rank[e] /\ Rank[e] <= Rank[truth[m]]}

Reconcile(m, e) ==
  IF ~Kept(m) THEN {<<m, e>>}
  ELSE IF Rank[e] <= Rank[statusEvent[m]] THEN {}
  ELSE WithImpliedSteps(m, e, statusEvent[m])

Receive(h) ==
  /\ hook[h] = "idle" /\ webhooks < MaxWebhooks
  /\ webhooks' = webhooks + 1
  /\ \E S \in SUBSET Msgs, unread \in BOOLEAN : \E f \in [S -> Events] :
       /\ S # {}
       /\ \A m \in S : f[m] \in Reached(m)
       /\ unread => faults < MaxFaults
       /\ faults' = IF unread THEN faults + 1 ELSE faults
       /\ LET out == IF unread THEN {<<m, f[m]>> : m \in S}
                               ELSE UNION {Reconcile(m, f[m]) : m \in S}
          IN  /\ receipts' = [receipts EXCEPT ![h] = out]
              /\ hook' = [hook EXCEPT ![h] = IF out = {} THEN "idle" ELSE "forward"]
       /\ blind' = blind \cup {m \in S : unread \/ ~Kept(m)}
  /\ UNCHANGED <<truth, deleted, table, paused, locals, stray, reported, repeated>>

\* Accepted receipts go on to recordReportedStatuses; the others are dropped, the
\* webhook is answered 200 whatever became of them.
HookForward(h) ==
  /\ hook[h] = "forward"
  /\ LET R == receipts[h]
     IN  \E D \in SUBSET {r[1] : r \in {q \in R : q[1] \notin deleted}} : \E o \in Outcomes(R, D) :
           LET accepted == {r \in R : o[r] = "ok"}
           IN  /\ Forward(R, D, o)
               /\ receipts' = [receipts EXCEPT ![h] = accepted]
               /\ hook' = [hook EXCEPT ![h] = IF accepted = {} THEN "idle" ELSE "read"]
  /\ UNCHANGED <<truth, table, paused, locals, stray, webhooks>>

\* recordReportedStatuses reads the rows, then writes what is further along.
HookRead(h) ==
  LET further == {r \in receipts[h] : Kept(r[1]) /\ Rank[r[2]] > Rank[statusEvent[r[1]]]}
  IN  /\ hook[h] = "read"
      /\ receipts' = [receipts EXCEPT ![h] = further]
      /\ hook' = [hook EXCEPT ![h] = IF further = {} THEN "idle" ELSE "write"]
      /\ UNCHANGED <<truth, deleted, table, paused, locals, stray, webhooks, faults, history>>

HookWrite(h) ==
  \E r \in receipts[h] :
    LET rest == receipts[h] \ {r}
    IN  /\ hook[h] = "write"
        /\ \A q \in rest : q[1] = r[1] => Rank[r[2]] <= Rank[q[2]]
        /\ statusEvent' = IF Kept(r[1]) THEN [statusEvent EXCEPT ![r[1]] = r[2]] ELSE statusEvent
        /\ IF r[2] \in Final THEN Reschedule(r[1], "off") ELSE UNCHANGED poll
        /\ receipts' = [receipts EXCEPT ![h] = rest]
        /\ hook' = [hook EXCEPT ![h] = IF rest = {} THEN "idle" ELSE "write"]
        /\ UNCHANGED <<truth, deleted, row, old, paused, locals, stray, webhooks, faults, history>>

\* A database error while recording is swallowed.
HookFails(h) ==
  /\ hook[h] \in {"read", "write"}
  /\ faults < MaxFaults
  /\ faults' = faults + 1
  /\ receipts' = [receipts EXCEPT ![h] = {}]
  /\ hook' = [hook EXCEPT ![h] = "idle"]
  /\ UNCHANGED <<truth, deleted, table, paused, locals, stray, webhooks, history>>

-----------------------------------------------------------------------------
ResetTick ==
  /\ tick' = "idle" /\ todo' = {} /\ flight' = {} /\ chunk' = {} /\ verdict' = <<>>
  /\ seen' = [m \in Msgs |-> "none"]
  /\ change' = [m \in Msgs |-> "none"]

(***************************************************************************)
(* A database write of the tick throws.  Its changes are forgotten and the *)
(* next tick may start, but the other branches of mapLimit's Promise.all   *)
(* are not stopped: the remaining lookups go on, and still write their     *)
(* rows from the old snapshot.                                             *)
(***************************************************************************)
TickFails ==
  /\ tick = "busy" /\ flight \cup chunk # {}
  /\ faults < MaxFaults
  /\ faults' = faults + 1
  /\ IF flight = {} THEN UNCHANGED stray
     ELSE \E m \in flight :
            stray' = stray \cup {<<q, seen[q]>> : q \in (todo \cup flight) \ {m}}
  /\ ResetTick
  /\ UNCHANGED <<truth, deleted, table, paused, handlers, history>>

StrayAnswer(x, lookup) ==
  /\ x \in stray
  /\ stray' = stray \ {x}
  /\ IF lookup = "status" /\ Further(x[1], x[2])
       THEN UNCHANGED <<poll, paused>>
       ELSE AnswerWrite(x[1], x[2], lookup)
  /\ UNCHANGED <<truth, deleted, row, statusEvent, old, locals, handlers, faults, history>>

Crash ==
  /\ faults < MaxFaults
  /\ faults' = faults + 1
  /\ paused' = {} /\ stray' = {}
  /\ ResetTick
  /\ hook' = [h \in Hooks |-> "idle"]
  /\ receipts' = [h \in Hooks |-> {}]
  /\ UNCHANGED <<truth, deleted, table, webhooks, history>>

-----------------------------------------------------------------------------
LookupStep ==
  \/ \E m \in Msgs : StartLookup(m)
  \/ \E m \in Msgs, lookup \in Lookups : Answer(m, lookup)

SettleStep(m) == SettleRefused(m) \/ SettleAccepted(m) \/ SettleRetry(m)

Next ==
  \/ \E m \in Msgs : Progress(m)
  \/ \E m \in Msgs : Record(m)
  \/ \E m \in Msgs : Elapse(m)
  \/ \E m \in Msgs : Age(m)
  \/ \E m \in Msgs : Prune(m)
  \/ \E s \in Senders : Unpause(s)
  \/ StartTick
  \/ LookupStep
  \/ ForwardChunkStep
  \/ \E m \in Msgs : SettleStep(m)
  \/ EndTick
  \/ \E h \in Hooks : Receive(h)
  \/ \E h \in Hooks : HookForward(h)
  \/ \E h \in Hooks : HookRead(h)
  \/ \E h \in Hooks : HookWrite(h)
  \/ \E h \in Hooks : HookFails(h)
  \/ TickFails
  \/ \E x \in stray, lookup \in Lookups : StrayAnswer(x, lookup)
  \/ Crash

Spec == Init /\ [][Next]_vars

(***************************************************************************)
(* The timer keeps ticking, a tick and a request run on (every lookup has  *)
(* a timeout), and next_poll_at comes.                                     *)
(***************************************************************************)
PollerFairness ==
  /\ WF_vars(StartTick)
  /\ WF_vars(EndTick)
  /\ \A m \in Msgs : WF_vars(StartLookup(m))
  /\ \A m \in Msgs : WF_vars(\E lookup \in Lookups : Answer(m, lookup))
  /\ WF_vars(ForwardChunkStep)
  /\ \A m \in Msgs : WF_vars(SettleStep(m))
  /\ \A m \in Msgs : WF_vars(Elapse(m))
  /\ \A s \in Senders : WF_vars(Unpause(s))
  /\ \A h \in Hooks : WF_vars(HookForward(h) \/ HookRead(h) \/ HookWrite(h))
  /\ WF_vars(\E x \in stray, lookup \in Lookups : StrayAnswer(x, lookup))

\* Messages age.
AgingSpec == Spec /\ PollerFairness /\ \A m \in Msgs : WF_vars(Age(m))

\* Nothing is assumed of age, but the status API and the receiver answer again and
\* again: a message asked about, or forwarded, often enough gets its answer.
HealthySpec ==
  /\ Spec /\ PollerFairness
  /\ \A m \in Msgs : SF_vars(Answer(m, "status"))
  /\ \A m \in Msgs : SF_vars(ForwardChunkStep /\ m \in chunk' /\ \A r \in DOMAIN verdict' : verdict'[r] = "ok")

-----------------------------------------------------------------------------
\* Never "dispatched": the send itself reported that.
Receipts == Msgs \X (Events \ {"dispatched"})

\* Every variable holds a value of its type.
TypeOK ==
  /\ truth \in [Msgs -> Events \cup {"unsent"}] /\ deleted \subseteq Msgs
  /\ row \in [Msgs -> {"absent", "kept", "pruned"}]
  /\ statusEvent \in [Msgs -> Events \cup {"none"}]
  /\ poll \in [Msgs -> {"off", "due", "later"}] /\ old \in [Msgs -> BOOLEAN]
  /\ paused \subseteq Senders
  /\ tick \in {"idle", "busy"}
  /\ todo \subseteq Msgs /\ flight \subseteq Msgs /\ chunk \subseteq Msgs
  /\ seen \in [Msgs -> Events \cup {"none"}]
  /\ change \in [Msgs -> (Events \ {"dispatched"}) \cup {"none"}]
  /\ verdict \in [DOMAIN verdict -> Verdicts] /\ DOMAIN verdict \subseteq Receipts
  /\ stray \subseteq Msgs \X (Events \cup {"none"})
  /\ hook \in [Hooks -> {"idle", "forward", "read", "write"}]
  /\ receipts \in [Hooks -> SUBSET Receipts]
  /\ webhooks \in Nat /\ faults \in Nat
  /\ reported \subseteq Receipts /\ repeated \subseteq Receipts /\ blind \subseteq Msgs

\* At least once: an event is recorded as reported only if the receiver has it,
\* however ticks, their stray lookups, webhooks and crashes interleave, and whoever
\* of them writes the row last.
RecordedWasReported ==
  \A m \in Msgs : statusEvent[m] # "none" => <<m, statusEvent[m]>> \in reported

\* No skipped steps: once a rung of the ladder is recorded for a message, the
\* receiver has every rung below it, though the provider moved several between two
\* polls, and though poller and webhooks race on the row.  A webhook that came
\* before the row is excepted, and so is one whose batch was split by a fault.
LadderReported ==
  \A m \in Msgs :
    \/ \A e \in Ladder \ {"dispatched"} :
         statusEvent[m] \in Ladder /\ Rank[e] < Rank[statusEvent[m]] => <<m, e>> \in reported
    \/ m \in blind
    \/ webhooks > 0 /\ faults > 0

\* Only real progress: without webhooks, the poller gives the receiver an event
\* twice only after a crash, a database error or an answer that was lost or that
\* came for a part of the batch only.
RepeatedOnlyAfterFault == repeated # {} => faults > 0

\* Stop when done: without webhooks, a row whose final event is recorded is not
\* polled again, unless a failed tick left a stray lookup behind.
FinalStopsPolling ==
  \A m \in Msgs : statusEvent[m] \in Final /\ faults = 0 => poll[m] = "off"

\* Anything older than the ttl stops: polling of every row ends for good in the
\* end, webhooks, pauses, stray lookups and crashes notwithstanding.
PollingEnds == \A m \in Msgs : (row[m] = "kept") ~> [](poll[m] = "off")

\* A read message is reported in the end if the API and the receiver answer again
\* and again, unless its row grows old or its drip is deleted first.
EventuallyReported ==
  \A m \in Msgs :
    (row[m] = "kept" /\ truth[m] = "read") ~>
      (<<m, "read">> \in reported \/ truth[m] # "read" \/ old[m] \/ m \in deleted)

\* "Webhook receipts update the same field (recordReportedStatuses), so running
\* both never double-reports": short of a fault, the receiver is given no event twice
\* whose webhook found its message's row.  Webhooks that come one after the other
\* keep this; a tick or a second request that overlaps breaks it.
NeverDoubleReports == faults = 0 => \A r \in repeated : r[1] \in blind
=============================================================================
