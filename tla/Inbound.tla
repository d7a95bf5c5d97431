------------------------------ MODULE Inbound ------------------------------
(***************************************************************************)
(* The provider webhooks: routes/inbound-webhooks.ts, the handler of       *)
(* events/index.ts, the four adapters, and the forwarding of Gupshup       *)
(* receipts inside the request.  A provider posts a batch of items and     *)
(* posts it again when it does not hear 200 in time.                       *)
(*                                                                         *)
(* An item names what happened (occ), its wire status, the message id and  *)
(* the time it carries or not and whether that can be read, its correlation ("full", "partial", "sign"  *)
(* or "none"), whether it carries a callback url, and whether `extra` is   *)
(* stamped.  A sent row of the outbox is Outbox's affair, a Freshchat      *)
(* receipt from the forwarder on StatusPoller's.                           *)
(***************************************************************************)
EXTENDS Naturals, Sequences, FiniteSets

CONSTANTS Configs,     \* what .env.yaml and the settings may say, and the batches the provider may post
          Requests,    \* identities of requests
          MaxRetries,  \* MAX_RETRIES
          MaxClock, MaxInboundFaults, MaxRepeats \* bounds

InboundAssumption ==
    /\ MaxRetries \in Nat /\ {MaxClock, MaxInboundFaults, MaxRepeats} \subseteq Nat /\ IsFiniteSet(Requests)
    /\ \A c \in Configs :
          /\ c.provider \in {"sendgrid", "ses", "gupshup", "freshchat"}
          /\ \A b \in c.batches : b \in Seq({b[k] : k \in DOMAIN b})
          \* A provider says the same whenever it posts what happened once.
          /\ \A a, b \in c.batches : \A j \in DOMAIN a, k \in DOMAIN b : a[j].occ = b[k].occ => a[j] = b[k]

VARIABLES cfg,      \* the configuration, and the secret the provider signs with
          clock,
          reqs,     \* the requests
          rows,     \* campaign_events: [key, occ]
          outbox,   \* occurrences enqueued, with how often
          heard,    \* receipts the backend took, with how often
          faults, repeats, posts, missed, lost

vars == <<cfg, clock, reqs, rows, outbox, heard, faults, repeats, posts, missed, lost>>

(***************************************************************************)
(* The adapters.                                                           *)
(***************************************************************************)
Occs == UNION {UNION {{b[i].occ : i \in DOMAIN b} : b \in c.batches} : c \in Configs}
Wire == [sendgrid |-> [processed |-> "dispatched", deferred |-> "deferred", delivered |-> "delivered", open |-> "opened",
                       click |-> "clicked", bounce |-> "bounced", dropped |-> "bounced", spamreport |-> "complained",
                       unsubscribe |-> "unsubscribed", group_unsubscribe |-> "unsubscribed"],
         ses |-> [Bounce |-> "bounced", Complaint |-> "complained", Delivery |-> "delivered", Open |-> "opened",
                  Click |-> "clicked", Reject |-> "bounced", Send |-> "dispatched", Subscription |-> "unsubscribed"],
         gupshup |-> [enqueued |-> "dispatched", sent |-> "dispatched", delivered |-> "delivered", read |-> "opened",
                      clicked |-> "clicked", failed |-> "failed"],
         freshchat |-> [sent |-> "dispatched", delivered |-> "delivered", read |-> "read", clicked |-> "clicked",
                        failed |-> "bounced"]]
Event(i) == IF i.status \in DOMAIN Wire[cfg.provider] THEN Wire[cfg.provider][i.status] ELSE "none"

\* sendGridInboundWireAllowed: the default list leaves opens and clicks out.
DefaultWire == {"processed", "delivered", "bounce", "dropped", "deferred", "spamreport", "unsubscribe", "group_unsubscribe"}
Allowed(i) == cfg.provider = "sendgrid" =>
    CASE cfg.filter = {} -> i.status \in DefaultWire
      [] cfg.filter = {"*"} -> Event(i) # "none"
      [] OTHER -> i.status \in cfg.filter

\* All of campaign, user and organization, or nothing.
Correlated(i) == i.corr = "full"

\* A Gupshup receipt needs the stamp of our own send; a Freshchat receipt needs an id only.
Receipt(i) == /\ cfg.provider \in {"gupshup", "freshchat"} /\ ~Correlated(i)
              /\ i.id # "none" /\ Event(i) # "none"
              /\ cfg.provider = "gupshup" => i.stamp

\* Every event of an SES message carries the time of the mail itself.
Time(i) == IF cfg.provider = "ses" THEN i.mail ELSE IF i.time # 0 THEN i.time ELSE clock

\* A time nobody can read throws where an event or a receipt is made of the item.
\* SES hands the text on.
Throws(i) == /\ ~i.legible /\ cfg.provider # "ses" /\ Allowed(i) /\ Event(i) # "none"
             /\ Correlated(i) \/ (cfg.provider \in {"gupshup", "freshchat"} /\ i.id # "none")

\* ensureIdempotency and computeDedupeKey: without at_least_once the hash has the user in it.
Key(i) == LET id == IF i.id = "none" THEN "unknown" ELSE i.id
          IN  IF cfg.mode = "at_least_once" THEN <<id, Event(i), Time(i)>> ELSE <<id, Event(i), Time(i), i.user>>

\* resolveAnalyticsCallbackUrl; SES takes the url of the registry for that of the correlation.
Url(i) == LET own == IF cfg.provider = "ses" THEN cfg.registry ELSE i.url
          IN  (cfg.overrides /\ cfg.envUrl) \/ own \/ cfg.registry \/ cfg.envUrl

\* resolveWhatsAppReceiptsUrl, and the secret without which nothing is sent.
Destination == (cfg.envUrl \/ cfg.registry) /\ cfg.secret

(***************************************************************************)
(* Requests.                                                               *)
(***************************************************************************)
Idle == [pc |-> "idle", batch |-> <<>>, proof |-> "none", kept |-> {}, receipts |-> {}, attempt |-> 0, answer |-> 0]

Init ==
    /\ cfg \in Configs
    /\ clock = 1
    /\ reqs = [r \in Requests |-> Idle]
    /\ rows = {} /\ outbox = [o \in Occs |-> 0] /\ heard = [o \in Occs |-> 0]
    /\ faults = 0 /\ repeats = 0 /\ posts = [o \in Occs |-> 0] /\ missed = {} /\ lost = 0

Goto(r, pc) == reqs' = [reqs EXCEPT ![r].pc = pc]
Reply(r, status) == reqs' = [reqs EXCEPT ![r].pc = "answered", ![r].answer = status]
Posted(b) == posts' = [o \in Occs |-> posts[o] + Cardinality({i \in DOMAIN b : b[i].occ = o})]

Open(r, b, proof) ==
    /\ reqs[r].pc = "idle"
    /\ reqs' = [reqs EXCEPT ![r] = [Idle EXCEPT !.pc = "route", !.batch = b, !.proof = proof]]
    /\ Posted(b)
    /\ UNCHANGED <<cfg, clock, rows, outbox, heard, faults, missed, lost>>

Post(r, b) ==
    /\ b \in cfg.batches /\ \A q \in Requests : reqs[q].pc = "idle" \/ reqs[q].batch # b
    /\ Open(r, b, cfg.signs)
    /\ UNCHANGED repeats

\* No 200 in time: also while the first request is still at work.
Repeat(r, q) ==
    /\ repeats < MaxRepeats /\ reqs[q].pc # "idle" /\ reqs[q].answer # 200
    /\ Open(r, reqs[q].batch, reqs[q].proof)
    /\ repeats' = repeats + 1

\* getInboundAdapter: SendGrid cannot do without a key, and the throw leaves the request unanswered.
Route(r) ==
    /\ reqs[r].pc = "route"
    /\ CASE ~cfg.enabled /\ cfg.provider \in {"gupshup", "freshchat"} -> Reply(r, 200)
         [] ~cfg.enabled /\ cfg.provider = "sendgrid" -> Reply(r, 404)
         [] cfg.enabled /\ cfg.provider = "sendgrid" /\ cfg.secrets = {} -> Goto(r, "hung")
         [] OTHER -> Goto(r, "verify")
    /\ UNCHANGED <<cfg, clock, rows, outbox, heard, faults, repeats, posts, missed, lost>>

\* Any one of the secrets; WhatsApp webhooks without a secret are open.
Verified(r) == \/ reqs[r].proof \in cfg.secrets
               \/ cfg.provider = "ses"
               \/ cfg.provider \in {"gupshup", "freshchat"} /\ cfg.secrets = {}

\* An item that correlates but cannot be read ends the loop.
KeptUntilUnsupported(b) ==
    {[occ |-> b[i].occ, key |-> Key(b[i]), url |-> Url(b[i])] : i \in
        {i \in DOMAIN b : \A j \in 1 .. i : Correlated(b[j]) /\ Event(b[j]) # "none"}}

Kept(b) ==
    {[occ |-> b[i].occ, key |-> Key(b[i]), url |-> Url(b[i])] : i \in
        {i \in DOMAIN b : Allowed(b[i]) /\ Correlated(b[i]) /\ Event(b[i]) # "none"}}

\* SES is verified by the route and again by the handler; each fetches the certificate.
\* A body that is no batch counts as an empty one here.  An item that throws does so
\* before anything of its batch is stored, and nobody answers.
Verify(r) ==
    /\ reqs[r].pc = "verify"
    /\ LET b == reqs[r].batch
       IN  \/ ~Verified(r) /\ Reply(r, 401) /\ UNCHANGED faults
           \/ cfg.provider = "ses" /\ faults < MaxInboundFaults /\ faults' = faults + 1 /\ Reply(r, 401)
           \/ Verified(r) /\ cfg.provider = "ses" /\ ~cfg.enabled /\ Reply(r, 404) /\ UNCHANGED faults
           \/ Verified(r) /\ cfg.enabled /\ b = <<>> /\ Reply(r, 400) /\ UNCHANGED faults
           \/ Verified(r) /\ cfg.enabled /\ (\E k \in DOMAIN b : Throws(b[k])) /\ Goto(r, "hung") /\ UNCHANGED faults
           \/ /\ Verified(r) /\ cfg.enabled /\ (\A k \in DOMAIN b : ~Throws(b[k]))
              /\ reqs' = [reqs EXCEPT ![r].pc = "persist", ![r].kept = Kept(b),
                                      ![r].receipts = {b[i].occ : i \in {i \in DOMAIN b : Receipt(b[i])}}]
              /\ UNCHANGED faults
    /\ UNCHANGED <<cfg, clock, rows, outbox, heard, repeats, posts, missed, lost>>

\* insertIgnore on dedupe_key: the first of two rows with one key stays.
Fresh(kept) == {e \in kept : \A row \in rows : row.key # e.key}
Persist(r) ==
    /\ reqs[r].pc = "persist"
    /\ Goto(r, "enqueue")
    /\ \/ /\ \E new \in SUBSET {[key |-> e.key, occ |-> e.occ] : e \in Fresh(reqs[r].kept)} :
                /\ \A e \in Fresh(reqs[r].kept) : Cardinality({row \in new : row.key = e.key}) = 1
                /\ rows' = rows \cup new
          /\ UNCHANGED <<faults, missed>>
       \/ /\ faults < MaxInboundFaults /\ reqs[r].kept # {}
          /\ faults' = faults + 1 /\ missed' = missed \cup {r}
          /\ UNCHANGED rows
    /\ UNCHANGED <<cfg, clock, outbox, heard, repeats, posts, lost>>

\* A throw of the insert reaches nobody: Express never answers.
Enqueue(r) ==
    LET sent == {e.occ : e \in {e \in reqs[r].kept : e.url}}
    IN  /\ reqs[r].pc = "enqueue"
        /\ \/ /\ outbox' = [o \in Occs |-> outbox[o] + (IF o \in sent THEN 1 ELSE 0)]
              /\ Goto(r, "forward")
              /\ UNCHANGED faults
           \/ /\ sent # {} /\ faults < MaxInboundFaults
              /\ faults' = faults + 1
              /\ Goto(r, "hung")
              /\ UNCHANGED outbox
        /\ UNCHANGED <<cfg, clock, rows, heard, repeats, posts, missed, lost>>

(***************************************************************************)
(* forwardGupshupReceipts: one POST a step.  Its result is not looked at.  *)
(***************************************************************************)
Take(r) == heard' = [o \in Occs |-> heard[o] + (IF o \in reqs[r].receipts THEN 1 ELSE 0)]
Attempting(r) == reqs[r].pc = "forward" /\ reqs[r].receipts # {} /\ Destination

Accepted(r) ==
    /\ Attempting(r) /\ Take(r) /\ Goto(r, "end")
    /\ UNCHANGED <<cfg, clock, rows, outbox, faults, repeats, posts, missed, lost>>

\* Any 4xx but 429.
Refused(r) ==
    /\ Attempting(r) /\ faults < MaxInboundFaults
    /\ faults' = faults + 1
    /\ Goto(r, "refused")
    /\ UNCHANGED <<cfg, clock, rows, outbox, heard, repeats, posts, missed, lost>>

Later(r) == reqs' = [reqs EXCEPT ![r].attempt = @ + 1, ![r].pc = IF reqs[r].attempt < MaxRetries THEN "forward" ELSE "end"]

\* One attempt less than the loop has.
LaterButOne(r) == reqs' = [reqs EXCEPT ![r].attempt = @ + 1,
                                       ![r].pc = IF reqs[r].attempt + 1 < MaxRetries THEN "forward" ELSE "end"]

\* A 5xx or 429, or a connection that breaks before or after the backend took the receipts.
Failed(r) ==
    /\ Attempting(r) /\ faults < MaxInboundFaults
    /\ faults' = faults + 1
    /\ \/ UNCHANGED <<heard, lost>>
       \/ Take(r) /\ lost' = lost + 1
    /\ Later(r)
    /\ UNCHANGED <<cfg, clock, rows, outbox, repeats, posts, missed>>

Answer(r) ==
    /\ \/ reqs[r].pc \in {"end", "refused"}
       \/ reqs[r].pc = "forward" /\ (reqs[r].receipts = {} \/ ~Destination)
    /\ reqs' = [reqs EXCEPT ![r].pc = IF @ = "refused" THEN "answered, refused" ELSE "answered", ![r].answer = 200]
    /\ UNCHANGED <<cfg, clock, rows, outbox, heard, faults, repeats, posts, missed, lost>>

Crash ==
    /\ faults < MaxInboundFaults
    /\ faults' = faults + 1
    /\ reqs' = [r \in Requests |-> IF reqs[r].pc \in {"idle", "answered", "answered, refused"} THEN reqs[r]
                                   ELSE [reqs[r] EXCEPT !.pc = "hung"]]
    /\ UNCHANGED <<cfg, clock, rows, outbox, heard, repeats, posts, missed, lost>>

Tick == /\ clock < MaxClock /\ clock' = clock + 1
        /\ UNCHANGED <<cfg, reqs, rows, outbox, heard, faults, repeats, posts, missed, lost>>

Step(r) == Route(r) \/ Verify(r) \/ Persist(r) \/ Enqueue(r) \/ Accepted(r) \/ Refused(r) \/ Failed(r) \/ Answer(r)
Next == \/ \E r \in Requests : Step(r) \/ (\E b \in cfg.batches : Post(r, b)) \/ (\E q \in Requests : Repeat(r, q))
        \/ Crash \/ Tick
Spec == Init /\ [][Next]_vars

(***************************************************************************)
(* Properties.                                                             *)
(***************************************************************************)
\* What became of an item of a request answered 200.
Dropped(i) == \/ ~Allowed(i)
              \/ Correlated(i) /\ Event(i) = "none"
              \/ ~Correlated(i) /\ ~Receipt(i)
Stored(r, i) == /\ Correlated(i)
                /\ \E e \in reqs[r].kept : e.occ = i.occ /\ (r \in missed \/ \E row \in rows : row.key = e.key)
                /\ Url(i) => outbox[i.occ] > 0
Forwarded(r, i) == /\ Receipt(i)
                   /\ \/ cfg.provider = "freshchat" \/ heard[i.occ] > 0 \/ ~Destination
                      \/ reqs[r].pc = "answered, refused" \/ reqs[r].attempt = MaxRetries + 1

\* A provider that hears 200 never repeats the batch: by then every item was filtered or unsupported,
\* or recorded (unless the best-effort store failed) and enqueued if it has a destination, or its
\* receipt was taken, refused for good, or tried MAX_RETRIES + 1 times (createInboundWebhookHandler).
AnsweredIsAccountedFor ==
    \A r \in Requests : cfg.enabled /\ reqs[r].answer = 200 =>
        \A k \in DOMAIN reqs[r].batch :
            LET i == reqs[r].batch[k] IN Dropped(i) \/ Stored(r, i) \/ Forwarded(r, i)

\* Repeated and overlapping requests leave one row for what happened once, where the item says when;
\* and the backend takes a receipt no more often than it was posted to us or its answer was lost
\* (computeDedupeKey, insertCampaignEvents, forwardGupshupReceipts).
ReplaysAreOne ==
    /\ \A a, b \in rows : a.occ = b.occ /\ a # b => \E t \in cfg.batches : \E k \in DOMAIN t : t[k].occ = a.occ /\ t[k].time = 0
    /\ \A o \in Occs : heard[o] <= posts[o] + lost /\ outbox[o] <= posts[o]

\* Two things that happened have two keys ("Deduplicate on it", docs/message-ids-and-analytics.md:435).
KeysTellApart ==
    \A q, r \in Requests : \A d \in reqs[q].kept, e \in reqs[r].kept : d.key = e.key => d.occ = e.occ

\* A WhatsApp read stays a read in the store (db/repos/campaign-events.ts: "`read` is NOT folded into `opened`").
ReadStaysRead ==
    \A r \in Requests : \A k \in DOMAIN reqs[r].batch :
        reqs[r].batch[k].status = "read" => \A e \in reqs[r].kept : e.occ = reqs[r].batch[k].occ => e.key[2] = "read"
=============================================================================
