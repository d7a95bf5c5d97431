---------------------------- MODULE ClientEvents ----------------------------
(***************************************************************************)
(* POST /api/scalemargin/client-events: the company's own systems report   *)
(* events of sent messages (events/client/client-events.ts).  A message is *)
(* named by its request id or by a value saved with it                     *)
(* (db/repos/api-response-refs.ts).  The receipts go the way of the        *)
(* Freshchat webhook: reconcileWebhookReceipts, batches through the        *)
(* isolating forwarder (one step here, IsolatingForward has its inside),   *)
(* recordReportedStatuses.  ScaleMargin's answers may be lost and the      *)
(* process may end; the caller may repeat a list after any of that.        *)
(***************************************************************************)
EXTENDS Naturals, Sequences, FiniteSets

CONSTANTS Sent,       \* messages with a row in provider_message_ids: [id, user]
          Refs,       \* rows of api_response_refs: [id, user, campaign, value]
          Bodies,     \* the lists of events a caller may send
          Callers,    \* identities of requests
          MaxEvents,  \* MAX_CLIENT_EVENTS
          MaxBatch,   \* MAX_RECEIPTS_PER_REQUEST
          MaxClientFaults, \* bound on what goes wrong
          MaxElsewhere     \* bound on what others report and delete

ClientEventsAssumption ==
    /\ MaxEvents \in Nat /\ MaxBatch \in Nat \ {0} /\ {MaxClientFaults, MaxElsewhere} \subseteq Nat
    /\ \A a, b \in Sent : a.id = b.id => a = b
    /\ \A body \in Bodies : body \in Seq({body[k] : k \in DOMAIN body})

VARIABLES status,   \* status_event of each row, "none" before the first
          deleted,  \* messages whose campaign or step ScaleMargin no longer has
          told,     \* how often ScaleMargin accepted each event of each message
          calls,    \* the requests
          elsewhere, problems,
          muddled   \* history: messages ScaleMargin took in an attempt whose answer was lost, whose
                    \* bookkeeping failed or met the end of the process, or that another reporter
                    \* reported beside a request under way; all of them once two requests overlap

vars == <<status, deleted, told, calls, elsewhere, problems, muddled>>

Ids == {m.id : m \in Sent \cup Refs}
Ladder == <<"dispatched", "delivered", "read", "clicked">>
Event == {"delivered", "read", "clicked", "bounced"}
Rank(e) == CASE e \in {"none", "dispatched"} -> 1 [] e = "delivered" -> 2 [] e \in {"read", "bounced"} -> 3 [] OTHER -> 4

\* clientEventType: `dispatched` is refused, the send has reported it.
Type(name) == IF name \in Event THEN name
              ELSE CASE name = "seen" -> "read" [] name = "failed" -> "bounced" [] OTHER -> "invalid"

(***************************************************************************)
(* Which message an event is about.                                        *)
(***************************************************************************)
Matches(e, ref) == /\ ref.value = e.value
                   /\ e.user \in {"any", ref.user} /\ e.campaign \in {"any", ref.campaign}
Named(e) ==
    CASE e.id # "none" -> {s.id : s \in {m \in Sent : m.id = e.id /\ e.user \in {"any", m.user}}}
      [] OTHER -> {found.id : found \in {ref \in Refs : Matches(e, ref)}}
Invalid(e) == Type(e.event) = "invalid" \/ (e.id = "none" /\ e.value = "none")
Resolve(e) ==
    CASE Invalid(e) -> "invalid"
      [] ~Invalid(e) /\ Named(e) = {} -> "not_found"
      [] ~Invalid(e) /\ Cardinality(Named(e)) > 1 -> "ambiguous"
      [] OTHER -> "forwarded"

ReceiptOf(e) == [id |-> CHOOSE id \in Named(e) : TRUE, event |-> Type(e.event)]

\* What a list has at the positions S, in its order.
At(list, S) == [n \in 1 .. Cardinality(S) |-> list[CHOOSE k \in S : Cardinality({j \in S : j <= k}) = n]]

ReceiptsOf(body) == LET found == At(body, {k \in DOMAIN body : Resolve(body[k]) = "forwarded"})
                    IN  [k \in DOMAIN found |-> ReceiptOf(found[k])]

(***************************************************************************)
(* reconcileWebhookReceipts.                                               *)
(***************************************************************************)
Place(e) == IF \E k \in DOMAIN Ladder : Ladder[k] = e THEN CHOOSE k \in DOMAIN Ladder : Ladder[k] = e ELSE 0
Steps(last, e) ==
    LET from == Place(IF last = "none" THEN "dispatched" ELSE last)
        to == Place(e)
    IN  IF from = 0 \/ to = 0 THEN <<>> ELSE SubSeq(Ladder, from + 1, to - 1)

\* Stable by rank.
Ordered(receipts) ==
    LET OfRank(n) == At(receipts, {k \in DOMAIN receipts : Rank(receipts[k].event) = n}) IN OfRank(1) \o OfRank(2) \o OfRank(3) \o OfRank(4)

Recorded(id) == \E m \in Sent : m.id = id
Expand(acc, x) ==
    LET last == acc.reported[x.id]
    IN  CASE ~Recorded(x.id) -> [acc EXCEPT !.out = Append(@, x)]
          [] Recorded(x.id) /\ last # "none" /\ Rank(x.event) <= Rank(last) -> acc
          [] OTHER -> [out |-> acc.out \o [k \in DOMAIN Steps(last, x.event) |-> [id |-> x.id, event |-> Steps(last, x.event)[k]]]
                                       \o <<x>>,
                       reported |-> IF Rank(x.event) > Rank(last) THEN [acc.reported EXCEPT ![x.id] = x.event] ELSE acc.reported]

\* Mutant of Reconciled: without a look at what was reported.
ReconciledAsSent(receipts) == receipts

Expanded(list) ==
    LET acc[n \in 0 .. Len(list)] == IF n = 0 THEN [out |-> <<>>, reported |-> status] ELSE Expand(acc[n - 1], list[n])
    IN  acc
Reconciled(receipts) == LET list == Ordered(receipts) IN Expanded(list)[Len(list)].out

(***************************************************************************)
(* The handler.                                                            *)
(***************************************************************************)
Idle == [pc |-> "idle", body |-> <<>>, receipts |-> <<>>, todo |-> <<>>, sent |-> {}, refused |-> {}, results |-> <<>>,
         accepted |-> {}, last |-> FALSE, answer |-> 0]
Init ==
    /\ status = [id \in Ids |-> "none"]
    /\ deleted = {}
    /\ told = [x \in Ids \X Event |-> 0]
    /\ calls = [c \in Callers |-> Idle]
    /\ elsewhere = 0 /\ problems = 0 /\ muddled = {}

Update(c, call) == calls' = [calls EXCEPT ![c] = call]

UnderWay == {c \in Callers : calls[c].pc \notin {"idle", "answered"}}

\* 413 and 400 before anything is read; each event is looked up for itself.
Receive(c, body) ==
    /\ calls[c].pc = "idle"
    /\ Update(c, IF body = <<>> \/ Len(body) > MaxEvents
                 THEN [Idle EXCEPT !.pc = "answered", !.body = body, !.answer = 400]
                 ELSE [Idle EXCEPT !.pc = "reconcile", !.body = body, !.receipts = ReceiptsOf(body),
                                   !.results = [k \in DOMAIN body |-> Resolve(body[k])]])
    /\ muddled' = IF UnderWay = {} THEN muddled ELSE Ids
    /\ UNCHANGED <<status, deleted, told, elsewhere, problems>>

\* What the reconciliation dropped was reported already; where it throws, all go as they came.
Reconcile(c) ==
    LET call == calls[c]
    IN  /\ call.pc = "reconcile"
        /\ \E failing \in BOOLEAN :
              LET out == IF failing THEN call.receipts ELSE Reconciled(call.receipts)
                  sent == {[id |-> out[k].id, event |-> out[k].event] : k \in DOMAIN out}
              IN  /\ failing => problems < MaxClientFaults
                  /\ problems' = IF failing THEN problems + 1 ELSE problems
                  /\ muddled' = muddled \cup (IF failing THEN {call.receipts[k].id : k \in DOMAIN call.receipts} ELSE {})
                  /\ Update(c, [call EXCEPT !.pc = "forward", !.todo = out, !.sent = sent,
                                !.results = [k \in DOMAIN call.body |->
                                    IF call.results[k] = "forwarded" /\ ReceiptOf(call.body[k]) \notin sent
                                    THEN "already_reported" ELSE call.results[k]]])
        /\ UNCHANGED <<status, deleted, told, elsewhere>>

Prefix(s, n) == SubSeq(s, 1, IF Len(s) < n THEN Len(s) ELSE n)

\* The forwarder gives back what was accepted, what was refused for good, and what failed; a failed half
\* does not keep the next from going out, and a list nothing of which is refused is not split.  The
\* receipts at `heard` ScaleMargin also took in an attempt whose answer was lost (once for all of those).
Forward(c, failed, heard) ==
    LET call == calls[c]
        batch == Prefix(call.todo, MaxBatch)
        gone == {j \in DOMAIN batch : batch[j].id \in deleted}
        accepted == DOMAIN batch \ (gone \cup failed)
        Times(S, x) == Cardinality({j \in S : batch[j] = [id |-> x[1], event |-> x[2]]})
        faulty == failed \cup heard # {}
    IN  /\ call.pc = "forward" /\ batch # <<>>
        /\ failed \subseteq DOMAIN batch /\ heard \subseteq DOMAIN batch \ gone
        /\ gone = {} => {failed, heard} \subseteq {{}, DOMAIN batch}
        /\ faulty => problems < MaxClientFaults
        /\ problems' = IF faulty THEN problems + 1 ELSE problems
        /\ told' = [x \in DOMAIN told |-> told[x] + Times(accepted, x) + Times(heard, x)]
        /\ Update(c, [call EXCEPT !.pc = "record", !.todo = SubSeq(@, Len(batch) + 1, Len(@)),
                                  !.accepted = {batch[j] : j \in accepted},
                                  !.refused = @ \cup {batch[j].id : j \in gone \ failed}, !.last = failed # {}])
        /\ muddled' = muddled \cup {batch[j].id : j \in heard}
        /\ UNCHANGED <<status, deleted, elsewhere>>

Highest(id, accepted) ==
    LET mine == {e \in Event : [id |-> id, event |-> e] \in accepted /\ Rank(e) > Rank(status[id])}
    IN  IF mine = {} THEN status[id] ELSE CHOOSE e \in mine : \A f \in mine : Rank(f) <= Rank(e)

\* A caller that is told to retry has its earlier batches accepted and recorded.
Record(c) ==
    LET call == calls[c]
    IN  /\ call.pc = "record"
        /\ \E failing \in BOOLEAN :
              /\ failing => problems < MaxClientFaults /\ call.accepted # {}
              /\ problems' = IF failing THEN problems + 1 ELSE problems
              /\ muddled' = muddled \cup (IF failing THEN {x.id : x \in call.accepted} ELSE {})
              /\ status' = IF failing THEN status
                           ELSE [id \in Ids |-> IF Recorded(id) THEN Highest(id, call.accepted) ELSE "none"]
        /\ Update(c, IF call.last THEN [call EXCEPT !.pc = "answered", !.answer = 502] ELSE [call EXCEPT !.pc = "forward"])
        /\ UNCHANGED <<deleted, told, elsewhere>>

\* refusedByMessage has the message only: all its events are told they were rejected.
Results(call) == [k \in DOMAIN call.body |->
                     IF call.results[k] = "forwarded" /\ ReceiptOf(call.body[k]).id \in call.refused
                     THEN "rejected" ELSE call.results[k]]

Answer(c) ==
    LET call == calls[c]
    IN  /\ call.pc = "forward" /\ call.todo = <<>>
        /\ Update(c, [call EXCEPT !.pc = "answered", !.answer = 200, !.results = Results(call)])
        /\ UNCHANGED <<status, deleted, told, elsewhere, problems, muddled>>

(***************************************************************************)
(* The process ends, and the callers hear nothing.  The poller and the     *)
(* Freshchat webhook report and record the same messages; campaigns are    *)
(* deleted.                                                                *)
(***************************************************************************)
Crash ==
    /\ UnderWay # {} /\ problems < MaxClientFaults
    /\ problems' = problems + 1
    /\ calls' = [c \in Callers |-> IF c \in UnderWay THEN [calls[c] EXCEPT !.pc = "answered"] ELSE calls[c]]
    /\ muddled' = muddled \cup {x.id : x \in UNION {calls[c].accepted : c \in {d \in Callers : calls[d].pc = "record"}}}
    /\ UNCHANGED <<status, deleted, told, elsewhere>>

Elsewhere(m, e) ==
    /\ elsewhere < MaxElsewhere /\ m \in Sent /\ m.id \notin deleted /\ Rank(e) > Rank(status[m.id])
    /\ elsewhere' = elsewhere + 1
    /\ LET steps == Steps(status[m.id], e)
       IN  told' = [x \in DOMAIN told |-> IF x[1] = m.id /\ (x[2] = e \/ \E k \in DOMAIN steps : steps[k] = x[2])
                                          THEN told[x] + 1 ELSE told[x]]
    /\ status' = [status EXCEPT ![m.id] = e]
    /\ muddled' = muddled \cup (IF UnderWay = {} THEN {} ELSE {m.id})
    /\ UNCHANGED <<deleted, calls, problems>>

Delete(id) ==
    /\ id \notin deleted /\ elsewhere < MaxElsewhere
    /\ elsewhere' = elsewhere + 1
    /\ deleted' = deleted \cup {id}
    /\ UNCHANGED <<status, told, calls, problems, muddled>>

Next ==
    \/ \E c \in Callers : (\E body \in Bodies : Receive(c, body)) \/ Reconcile(c)
                             \/ (\E failed, heard \in SUBSET (1 .. MaxBatch) : Forward(c, failed, heard))
                             \/ Record(c) \/ Answer(c)
    \/ Crash
    \/ \E m \in Sent, e \in Event : Elsewhere(m, e)
    \/ \E id \in Ids : Delete(id)
Spec == Init /\ [][Next]_vars

(***************************************************************************)
(* Properties.                                                             *)
(***************************************************************************)
\* What a 200 says of an event is so: "forwarded" was accepted by ScaleMargin, "already_reported" follows
\* something at least as far along that was accepted of the message, or goes beside a refusal, "rejected"
\* is about a message ScaleMargin refused.
ResultsAreTrue ==
    \A c \in Callers : calls[c].answer = 200 =>
        \A k \in DOMAIN calls[c].body :
            LET x == ReceiptOf(calls[c].body[k]) says == calls[c].results[k]
            IN  /\ says = "forwarded" => told[<<x.id, x.event>>] > 0
                /\ says = "rejected" => x.id \in deleted
                /\ says = "already_reported" =>
                      \E e \in Event : Rank(e) >= Rank(x.event) /\ (told[<<x.id, e>>] > 0 \/ x.id \in calls[c].refused)

\* Whatever is answered 502, half accepted or cut off by the end of the process, and however often a list
\* is repeated, ScaleMargin hears an event of a message twice only if an answer about that message was
\* lost, its bookkeeping failed or was cut off, it was reported beside a request under way, or requests
\* overlapped (reconcileWebhookReceipts, recordReportedStatuses).
RetriesRepeatNothing ==
    \A m \in Sent, e \in Event : m.id \notin muddled => told[<<m.id, e>>] <= 1

\* "nothing already reported is sent twice" (client-events.ts, at its head), whatever fails.
NothingTwice == \A m \in Sent, e \in Event : told[<<m.id, e>>] <= 1

\* A refused event is reported per event as `rejected` (client-events.ts, comment at the forwarder call).
RejectedPerEvent ==
    \A c \in Callers : calls[c].answer = 200 =>
        \A k \in DOMAIN calls[c].body : calls[c].results[k] = "rejected" =>
            LET x == ReceiptOf(calls[c].body[k]) IN told[<<x.id, x.event>>] = 0
=============================================================================
