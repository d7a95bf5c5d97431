----------------------------- MODULE DispatchRun -----------------------------
(***************************************************************************)
(* One dispatch request from its 202 to its last bookkeeping write: the    *)
(* handler of src/index.ts, processDispatch of src/dispatch/processor.ts   *)
(* (email) and processWhatsAppDispatch of src/dispatch/whatsapp.ts, with   *)
(* their recorders.                                                        *)
(*                                                                         *)
(* Runs of one campaign may overlap.  Email resolves every recipient, then *)
(* stores the onsite links, then sends; WhatsApp resolves and sends one    *)
(* recipient at a time and stores the links last.  The writes nobody       *)
(* awaits wait in `writes`: the pool of a MySQL or PostgreSQL state        *)
(* database runs them in any order, SQLite in the order they were issued.  *)
(***************************************************************************)
EXTENDS Naturals, FiniteSets

CONSTANTS
  Runs,      \* accepted dispatch requests of one campaign
  Users,     \* the user_ids of each
  Linked,    \* users with an onsite assignment
  Setups,    \* the channel of each run, and how the process is configured
  MaxFaults  \* bound on crashes and failed database calls

ASSUME SetupAssumption ==
  Setups \subseteq [channel : [Runs -> {"email", "whatsapp"}], dev : BOOLEAN, pooled : BOOLEAN]
ASSUME LinkedAssumption == Linked \subseteq Users /\ IsFiniteSet(Users)
ASSUME BoundAssumption == MaxFaults \in Nat

VARIABLES
  setup,     \* one of Setups, for good
  \* the local variables of each run
  pc, todo, messages, hand, logs, ids, links,
  \* the state database
  row, savedLogs, savedIds, savedLinks, devSent,
  writes,    \* statements issued and not awaited
  outbox,    \* outbox[d][u]: the event emitted for a recipient
  faults,
  \* history
  took,      \* recipients whose message a provider accepted
  dropped,   \* unawaited statements that failed
  overlap    \* two runs passed the development check before either marked

locals == <<pc, todo, messages, hand, logs, ids, links>>
saved == <<row, savedLogs, savedIds, savedLinks>>
history == <<took, dropped, overlap>>
vars == <<setup, locals, saved, devSent, writes, outbox, faults, history>>

Email(d) == setup.channel[d] = "email"
DevMode == setup.dev     \* a development recipient is configured
Pooled == setup.pooled   \* the state database is behind a connection pool

\* The recipient in hand while its event is emitted, and where the loop goes on.
Nobody == [user |-> "nobody", event |-> "none", next |-> "none"]

Init ==
  /\ setup \in Setups
  /\ pc = [d \in Runs |-> "new"]
  /\ todo = [d \in Runs |-> Users]
  /\ messages = [d \in Runs |-> {}]
  /\ hand = [d \in Runs |-> Nobody]
  /\ logs = [d \in Runs |-> [u \in Users |-> "none"]]
  /\ ids = [d \in Runs |-> {}] /\ links = [d \in Runs |-> {}]
  /\ row = [d \in Runs |-> "absent"]
  /\ savedLogs = [d \in Runs |-> FALSE]
  /\ savedIds = [d \in Runs |-> {}] /\ savedLinks = [d \in Runs |-> {}]
  /\ devSent = FALSE
  /\ writes = {}
  /\ outbox = [d \in Runs |-> [u \in Users |-> "none"]]
  /\ faults = 0
  /\ took = [d \in Runs |-> {}] /\ dropped = {} /\ overlap = FALSE

-----------------------------------------------------------------------------
(***************************************************************************)
(* Unawaited statements: recordDispatchActivity and the recorders' flush.  *)
(***************************************************************************)
Write(d, what) == [run |-> d, what |-> what]

InAnyOrder(w) == TRUE

InOrder(w) ==
  Pooled \/ w.what = "accepted" \/ Write(w.run, "accepted") \notin writes

Apply(w) ==
  /\ w \in writes
  /\ InOrder(w)
  /\ writes' = writes \ {w}
  /\ row' = IF w.what \in {"accepted", "completed", "failed"}
              THEN [row EXCEPT ![w.run] = w.what] ELSE row
  /\ savedLogs' = IF w.what = "logs" THEN [savedLogs EXCEPT ![w.run] = TRUE] ELSE savedLogs
  /\ savedIds' = IF w.what = "ids" THEN [savedIds EXCEPT ![w.run] = ids[w.run]] ELSE savedIds
  /\ UNCHANGED <<locals, savedLinks, devSent, outbox, faults, history>>

\* The statement fails: logged, and nobody retries it.
Drop(w) ==
  /\ w \in writes
  /\ InOrder(w)
  /\ faults < MaxFaults
  /\ faults' = faults + 1
  /\ writes' = writes \ {w}
  /\ dropped' = dropped \cup {w}
  /\ UNCHANGED <<locals, saved, devSent, outbox, took, overlap>>

-----------------------------------------------------------------------------
(***************************************************************************)
(* The handler accepts the request: a row, a 202, and the run goes on by   *)
(* itself.                                                                 *)
(***************************************************************************)
Accept(d) ==
  /\ pc[d] = "new"
  /\ pc' = [pc EXCEPT ![d] = "begin"]
  /\ writes' = writes \cup {Write(d, "accepted")}
  /\ UNCHANGED <<todo, messages, hand, logs, ids, links, saved, devSent, outbox, faults, history>>

\* The promise of processDispatch resolves, or rejects; index.ts records which.
Fails(d) ==
  /\ pc' = [pc EXCEPT ![d] = "failed"]
  /\ writes' = writes \cup {Write(d, "failed")}

(***************************************************************************)
(* Variables, user lookup, images, onsite preparation and, for email, the  *)
(* question whether the development recipient had this campaign before.    *)
(* A WhatsApp run may turn out to have no template ("untemplated").        *)
(***************************************************************************)
Begin(d) ==
  /\ pc[d] = "begin"
  /\ IF DevMode /\ Email(d) /\ devSent
       THEN /\ pc' = [pc EXCEPT ![d] = "done"]
            /\ writes' = writes \cup {Write(d, "completed")}
            /\ UNCHANGED overlap
       ELSE /\ \E loop \in {"resolve"} \cup (IF Email(d) THEN {} ELSE {"untemplated"}) :
                 pc' = [pc EXCEPT ![d] = loop]
            /\ overlap' = (overlap \/ \E e \in Runs \ {d} : pc[e] \in {"resolve", "emit", "mark"})
            /\ UNCHANGED writes
  /\ UNCHANGED <<todo, messages, hand, logs, ids, links, saved, devSent, outbox, faults, took, dropped>>

\* The lookup, a variable or the template cannot be resolved at all.
BeginFails(d) ==
  /\ pc[d] = "begin"
  /\ Fails(d)
  /\ UNCHANGED <<todo, messages, hand, logs, ids, links, saved, devSent, outbox, faults, history>>

-----------------------------------------------------------------------------
Log(d, u, status) == logs' = [logs EXCEPT ![d][u] = status]
Say(d, u, event) == hand' = [hand EXCEPT ![d] = [user |-> u, event |-> event, next |-> pc[d]]]

\* An onsite link is issued for the recipient, in memory.
Issue(d, u) == links' = [links EXCEPT ![d] = @ \cup ({u} \cap Linked)]

\* Mutant of Skip: the recipient is left out of the send log.
SkipSilently(d, u) ==
  /\ pc[d] \in {"resolve", "untemplated"}
  /\ u \in todo[d]
  /\ todo' = [todo EXCEPT ![d] = @ \ {u}]
  /\ UNCHANGED <<pc, messages, hand, logs, ids, links, saved, devSent, writes, outbox, faults, history>>

(***************************************************************************)
(* The lookup did not find the recipient: a log entry and no event.  In    *)
(* development WhatsApp has the test recipient's number for everybody.     *)
(***************************************************************************)
Skip(d, u) ==
  /\ Email(d) \/ ~DevMode
  /\ pc[d] \in {"resolve", "untemplated"}
  /\ u \in todo[d]
  /\ todo' = [todo EXCEPT ![d] = @ \ {u}]
  /\ Log(d, u, "failed")
  /\ UNCHANGED <<pc, messages, hand, ids, links, saved, devSent, writes, outbox, faults, history>>

(***************************************************************************)
(* No sender for the organization, or (WhatsApp) no phone number: a log    *)
(* entry and a "failed" event.  Email has issued the link by then.         *)
(***************************************************************************)
Reject(d, u) ==
  /\ pc[d] \in {"resolve", "untemplated"}
  /\ u \in todo[d]
  /\ todo' = [todo EXCEPT ![d] = @ \ {u}]
  /\ Log(d, u, "failed")
  /\ Say(d, u, "failed")
  /\ IF Email(d) THEN Issue(d, u) ELSE UNCHANGED links
  /\ pc' = [pc EXCEPT ![d] = "emit"]
  /\ UNCHANGED <<messages, ids, saved, devSent, writes, outbox, faults, history>>

\* Mutant of Prepare: the development send is not marked.
PrepareUnmarked(d, u) ==
  /\ Email(d)
  /\ pc[d] = "resolve"
  /\ u \in todo[d]
  /\ todo' = [todo EXCEPT ![d] = IF DevMode THEN {} ELSE @ \ {u}]
  /\ messages' = [messages EXCEPT ![d] = @ \cup {u}]
  /\ Issue(d, u)
  /\ UNCHANGED <<pc, hand, logs, ids, saved, devSent, writes, outbox, faults, history>>

(***************************************************************************)
(* Email: the message is ready.  In development it is the only one, and    *)
(* the campaign is marked before anything is sent.                         *)
(***************************************************************************)
Prepare(d, u) ==
  /\ Email(d)
  /\ pc[d] = "resolve"
  /\ u \in todo[d]
  /\ todo' = [todo EXCEPT ![d] = IF DevMode THEN {} ELSE @ \ {u}]
  /\ messages' = [messages EXCEPT ![d] = @ \cup {u}]
  /\ Issue(d, u)
  /\ pc' = [pc EXCEPT ![d] = IF DevMode THEN "mark" ELSE "resolve"]
  /\ UNCHANGED <<hand, logs, ids, saved, devSent, writes, outbox, faults, history>>

Mark(d) ==
  /\ pc[d] = "mark"
  /\ devSent' = TRUE
  /\ pc' = [pc EXCEPT ![d] = "resolve"]
  /\ UNCHANGED <<todo, messages, hand, logs, ids, links, saved, writes, outbox, faults, history>>

\* Mutant of StoreLinks: the links stay in memory.
StoreLinksNever(d) ==
  /\ pc[d] \in {"resolve", "untemplated"}
  /\ todo[d] = {}
  /\ pc' = [pc EXCEPT ![d] = "send"]
  /\ UNCHANGED <<todo, messages, hand, logs, ids, links, saved, devSent, writes, outbox, faults, history>>

(***************************************************************************)
(* onsite.flush after the resolve loop, which for email is before the      *)
(* sends and for WhatsApp after them.  It swallows its errors: the links   *)
(* of an email run are then sent all the same.                             *)
(***************************************************************************)
StoreLinks(d) ==
  /\ pc[d] \in {"resolve", "untemplated"}
  /\ todo[d] = {}
  /\ pc' = [pc EXCEPT ![d] = "send"]
  /\ \/ savedLinks' = [savedLinks EXCEPT ![d] = links[d]] /\ UNCHANGED faults
     \/ faults < MaxFaults /\ faults' = faults + 1 /\ UNCHANGED savedLinks
  /\ UNCHANGED <<todo, messages, hand, logs, ids, links, row, savedLogs, savedIds, devSent,
                 writes, outbox, history>>

(***************************************************************************)
(* sendWithFailover answers: accepted with a message id, accepted without  *)
(* one, or refused.  WhatsApp reports an acceptance it could never match a *)
(* receipt to as failed; its send log still says sent.                     *)
(***************************************************************************)
Answers == {"id", "noid", "refused"}

Sent(d, u, answer) ==
  /\ took' = IF answer = "refused" THEN took ELSE [took EXCEPT ![d] = @ \cup {u}]
  /\ Log(d, u, IF answer = "refused" THEN "failed" ELSE "sent")
  /\ Say(d, u, IF answer = "id" \/ (answer = "noid" /\ Email(d)) THEN "dispatched" ELSE "failed")
  /\ pc' = [pc EXCEPT ![d] = "emit"]

SendEmail(d, u, answer) ==
  /\ pc[d] = "send"
  /\ u \in messages[d]
  /\ messages' = [messages EXCEPT ![d] = @ \ {u}]
  /\ Sent(d, u, answer)
  /\ UNCHANGED <<todo, ids, links, saved, devSent, writes, outbox, faults, dropped, overlap>>

SendWhatsApp(d, u, answer) ==
  /\ ~Email(d)
  /\ pc[d] = "resolve"
  /\ u \in todo[d]
  /\ todo' = [todo EXCEPT ![d] = IF DevMode THEN {} ELSE @ \ {u}]
  /\ Issue(d, u)
  /\ ids' = IF answer = "id" THEN [ids EXCEPT ![d] = @ \cup {u}] ELSE ids
  /\ Sent(d, u, answer)
  /\ UNCHANGED <<messages, saved, devSent, writes, outbox, faults, dropped, overlap>>

\* No content, no template and no default one: found out at the first recipient
\* that has a sender, before anything is sent.
NoTemplate(d) ==
  /\ pc[d] = "untemplated"
  /\ todo[d] # {}
  /\ Fails(d)
  /\ UNCHANGED <<todo, messages, hand, logs, ids, links, saved, devSent, outbox, faults, history>>

(***************************************************************************)
(* emitEvent: the event is in the outbox before the loop goes on.          *)
(***************************************************************************)
Emit(d) ==
  /\ pc[d] = "emit"
  /\ outbox' = [outbox EXCEPT ![d][hand[d].user] = hand[d].event]
  /\ hand' = [hand EXCEPT ![d] = Nobody]
  /\ pc' = [pc EXCEPT ![d] = hand[d].next]
  /\ UNCHANGED <<todo, messages, logs, ids, links, saved, devSent, writes, faults, history>>

\* Mutant of CallFails: the loop goes on with the next recipient.
CallFailsGoesOn(d) ==
  /\ pc[d] = "emit"
  /\ faults < MaxFaults
  /\ faults' = faults + 1
  /\ hand' = [hand EXCEPT ![d] = Nobody]
  /\ pc' = [pc EXCEPT ![d] = hand[d].next]
  /\ UNCHANGED <<todo, messages, logs, ids, links, saved, devSent, writes, outbox, history>>

(***************************************************************************)
(* An awaited database call throws: the insert of the event, or (sync      *)
(* mode) the delivery after it, or the development mark.  The run rejects  *)
(* where it stands and its recorders are never flushed.                    *)
(***************************************************************************)
CallFails(d) ==
  /\ pc[d] \in {"emit", "mark"}
  /\ faults < MaxFaults
  /\ faults' = faults + 1
  /\ Fails(d)
  /\ \/ UNCHANGED outbox
     \/ /\ pc[d] = "emit"
        /\ outbox' = [outbox EXCEPT ![d][hand[d].user] = hand[d].event]
  /\ hand' = [hand EXCEPT ![d] = Nobody]
  /\ UNCHANGED <<todo, messages, logs, ids, links, saved, devSent, history>>

(***************************************************************************)
(* The loops are over: the recorders flush and the row is completed.       *)
(***************************************************************************)
Finish(d) ==
  /\ pc[d] = "send"
  /\ messages[d] = {}
  /\ pc' = [pc EXCEPT ![d] = "done"]
  /\ writes' = writes \cup {Write(d, "completed"), Write(d, "logs")}
                      \cup (IF ids[d] # {} THEN {Write(d, "ids")} ELSE {})
  /\ UNCHANGED <<todo, messages, hand, logs, ids, links, saved, devSent, outbox, faults, history>>

Ended == {"done", "failed", "lost"}

(***************************************************************************)
(* The process dies: its runs and the statements under way are gone, and   *)
(* nothing at the next start looks for them.                               *)
(***************************************************************************)
Crash ==
  /\ faults < MaxFaults
  /\ faults' = faults + 1
  /\ \E d \in Runs : pc[d] \notin {"new"}
  /\ pc' = [d \in Runs |-> IF pc[d] \in {"new"} \cup Ended THEN pc[d] ELSE "lost"]
  /\ hand' = [d \in Runs |-> Nobody]
  /\ writes' = {}
  /\ dropped' = dropped \cup writes
  /\ UNCHANGED <<todo, messages, logs, ids, links, saved, devSent, outbox, took, overlap>>

Recipient(d, u) ==
  \/ Skip(d, u)
  \/ Reject(d, u)
  \/ Prepare(d, u)
  \/ \E answer \in Answers : SendEmail(d, u, answer)
  \/ \E answer \in Answers : SendWhatsApp(d, u, answer)

Step(d) ==
  \/ Begin(d)
  \/ BeginFails(d)
  \/ \E u \in Users : Recipient(d, u)
  \/ Mark(d)
  \/ StoreLinks(d)
  \/ NoTemplate(d)
  \/ Emit(d)
  \/ Finish(d)

Statements == [run : Runs, what : {"accepted", "completed", "failed", "logs", "ids"}]

Next ==
  /\ UNCHANGED setup
  /\ \/ \E d \in Runs : Accept(d)
     \/ \E d \in Runs : Step(d)
     \/ \E d \in Runs : CallFails(d)
     \/ \E w \in Statements : Apply(w)
     \/ \E w \in Statements : Drop(w)
     \/ Crash

Spec == Init /\ [][Next]_vars

(***************************************************************************)
(* A run goes on (its provider calls and lookups return in the end) and a  *)
(* statement that was issued is run.                                       *)
(***************************************************************************)
FairSpec ==
  /\ Spec
  /\ \A d \in Runs : WF_vars(Step(d) /\ UNCHANGED setup)
  /\ \A w \in Statements : WF_vars(Apply(w) /\ UNCHANGED setup)

-----------------------------------------------------------------------------
InHand == [user : Users, event : {"dispatched", "failed"},
           next : {"resolve", "untemplated", "send"}]

\* Every variable holds a value of its type, and a recipient is in hand exactly
\* while its event is being emitted.
TypeOK ==
  /\ setup \in Setups
  /\ pc \in [Runs -> {"new", "begin", "resolve", "untemplated", "mark", "send", "emit"} \cup Ended]
  /\ todo \in [Runs -> SUBSET Users] /\ messages \in [Runs -> SUBSET Users]
  /\ hand \in [Runs -> InHand \cup {Nobody}]
  /\ \A d \in Runs : IF pc[d] = "emit" THEN hand[d] \in InHand ELSE hand[d] = Nobody
  /\ logs \in [Runs -> [Users -> {"none", "sent", "failed"}]]
  /\ ids \in [Runs -> SUBSET Users]
  /\ links \in [Runs -> SUBSET Linked] /\ savedLinks \in [Runs -> SUBSET Linked]
  /\ row \in [Runs -> {"absent", "accepted", "completed", "failed"}]
  /\ savedLogs \in [Runs -> BOOLEAN] /\ savedIds \in [Runs -> SUBSET Users]
  /\ devSent \in BOOLEAN /\ overlap \in BOOLEAN
  /\ writes \subseteq Statements /\ dropped \subseteq Statements
  /\ outbox \in [Runs -> [Users -> {"none", "dispatched", "failed"}]]
  /\ faults \in Nat
  /\ took \in [Runs -> SUBSET Users]

\* Whatever throws or crashes, at most the recipient in hand was sent a message
\* that no event tells of: the loop never gets ahead of the outbox.
AtMostOneUntold ==
  \A d \in Runs : Cardinality({u \in took[d] : outbox[d][u] = "none"}) <= 1

\* A completed run accounts for everybody: each recipient has a log entry, and
\* whoever was sent a message has an event too (not in development, where the
\* loop stops at the first message).
CompletedAccountsForAll ==
  \A d \in Runs : pc[d] = "done" /\ ~DevMode =>
    \A u \in Users : /\ logs[d][u] # "none"
                     /\ logs[d][u] = "sent" <=> u \in took[d]
                     /\ u \in took[d] => outbox[d][u] # "none"

\* An email never carries an onsite link the redeem endpoint does not know, and
\* the links of a WhatsApp run are known once it has completed, unless the
\* insert itself failed.
LinksAreKnown ==
  \A d \in Runs : Email(d) \/ pc[d] = "done" =>
    took[d] \cap Linked \subseteq savedLinks[d] \/ faults > 0

\* In development a campaign is mailed more than once only if a second delivery
\* of it passed the check before the first was marked; a crash, a failure or a
\* retry after the mark never repeats it.
DevRepeatsOnlyIfOverlapping ==
  DevMode /\ Cardinality({d \in Runs : Email(d) /\ took[d] # {}}) > 1 => overlap

\* "True when the campaign has an in-flight (accepted) run": a row that says
\* accepted belongs to a run that is under way, or whose last word is being
\* written, or was lost to a fault.
AcceptedIsInFlight ==
  \A d \in Runs : row[d] = "accepted" /\ faults = 0 =>
    \/ pc[d] \notin Ended
    \/ \E w \in writes : w.run = d /\ w.what \in {"completed", "failed"}

\* Over SQLite, whose statements run in the order they were issued, the row of a
\* run says accepted no longer than the run is under way: see AcceptedIsInFlight.
InFlightUnlessPooled == ~Pooled => AcceptedIsInFlight

\* Without faults the row of every accepted run leaves accepted for good.
EveryRunSettles ==
  \A d \in Runs :
    (pc[d] = "begin") ~> ([](row[d] \in {"completed", "failed"}) \/ faults > 0)

-----------------------------------------------------------------------------
(***************************************************************************)
(* Statements of comments and docs that the code does not meet.            *)
(***************************************************************************)
\* "a `failed` row never sent anything".
FailedRunSentNothing == \A d \in Runs : row[d] = "failed" => took[d] = {}

\* "The dispatcher writes one row for every WhatsApp message a provider accepts":
\* once a run has ended, its ids are saved, being saved, or their insert failed.
AcceptedIdsAreSaved ==
  \A d \in Runs : pc[d] \in {"done", "failed"} =>
    \/ ids[d] \subseteq savedIds[d]
    \/ Write(d, "ids") \in writes \cup dropped

\* "so a redelivery of the same campaign is skipped entirely".
RedeliverySkipped ==
  DevMode => Cardinality({d \in Runs : Email(d) /\ took[d] # {}}) <= 1
=============================================================================
