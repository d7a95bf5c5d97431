# Dispatcher: a TLA+ development

The dispatcher (`src/src`) takes dispatch requests from ScaleMargin, sends each
recipient a message by email or WhatsApp through the client's own provider
accounts, and reports what happened (dispatched, delivered, read, clicked,
bounced, failed) back to ScaleMargin. It is one Node.js process over one state
database (SQLite, MySQL or PostgreSQL); `docs/architecture.md:79` and
`docs/development.md:188` say that a second replica is not supported. So all
concurrency is between async functions of one process that interleave at their
awaits, the database, the providers, ScaleMargin, browsers and a restart.

Contents: [inventory](#inventory), [modules](#modules-and-how-they-correspond-to-the-code),
[what the runs show](#what-the-runs-show), [disagreements](#where-the-code-and-its-documentation-disagree),
[bounds](#bounds-and-why-they-are-enough), [fairness](#fairness),
[proofs](#what-is-proved), [not modelled](#what-is-not-modelled), [plan](#plan).
Paths without `src/` or `docs/` in front are below `src/src`.

## Inventory

| Component | State it keeps | Operations | What is hard about it | What makes it correct |
| --- | --- | --- | --- | --- |
| Analytics outbox: `events/outbox.ts`, `db/repos/outbox.ts`, `events/forwarder.ts`, `events/index.ts` | table `event_outbox` (status, attempts, next_attempt_at) | `emitEvent`, `deliverDueBatch` by timer (batched) or by each caller (sync), sweep | calls overlap, lease, select-then-mark, crash around the POST, lost answers | no event is lost silently; delivered means received; every event settles |
| Freshchat status poller and receipts: `events/freshchat/*` | `provider_message_ids` (status_event, next_poll_at), pauses in memory | a tick (expire, select, look up, forward, save), webhook requests | tick and webhooks race on a row; a failed tick leaves lookups running | what is recorded was reported, without gaps; polling ends |
| Isolating forwarder: `events/freshchat/receipt-forwarder.ts` | the lists of one call | forward with retries, halve on refusal | recursion meets passing failures | good receipts are never dropped, order is kept |
| Senders: `providers/senders.ts` | breakers in memory | resolve a chain, send with failover, record results | runs share breakers and interleave; chains resolved early | routing is honoured; a timeout is not resent |
| Provider clients: `providers/*.ts` | none | choose gateway, template, media and credentials, preview, send, read the answer | everything is chosen twice, for the log and for the request, and credentials a third time at boot | a message leaves on its own sender's account, as it was previewed, and is reported as the provider answered |
| Dispatch runs: `index.ts`, `dispatch/*.ts`, `admin/activity.ts` | `dispatch_runs`, `send_logs`, ids, onsite links, `dev_sent_campaigns` | accept, resolve, send, emit, flush recorders, record the end | awaited and unawaited writes, crash at any await, redelivery | at most one message is unaccounted for; a completed run accounts for everybody |
| Variable resolver, personalisation, user lookup: `variables/resolver.ts`, `personalize.ts`, `user-lookup/*` | per-run caches | look up by chunk, plan, call, render, count | the registry is replaced meanwhile; calls shared by key; partial answers | nobody reads another's value; calls are few; counters agree |
| Placeholder registry: `variables/*.ts`, `admin/api/variables.ts`, `api/v1/controllers/*` | tables of variables and call-metadata schemas, a snapshot with a TTL | create, update, rename, delete on two surfaces, seed, refresh | overlapping refreshes, check-then-act between tables, masked secrets, partial seed | dispatches resolve from what was last written; a deletion sticks; a mask is no secret; attachments do not dangle short of a race |
| Campaign summary: `db/repos/campaign-summary.ts`, `events/persist.ts` | `campaign_summary` | refresh (read three, compute, upsert), backfill, pruning of the sources | overlapping read-compute-write, sources pruned | counters never exceed what happened, and never fall without an overlap |
| Dispatch programs: `db/repos/dispatch-programs.ts`, `db/campaign-events-backfill.ts` | `dispatch_programs` and a cache; a flag | record, look up, copy the outbox's history at the first boot | cache filled after an await; the copy is cut short | cached means stored; misses are not remembered; history is copied once |
| Callback registry: `events/campaign-callback-registry.ts` | cache and `campaign_callbacks` | register, look up, warm load, sweep | the same, with fire-and-forget upserts and restarts | a campaign dispatched lately is known, with its last URL |
| Onsite offers: `onsite/*.ts` | decisions, activations, sessions, receipts | freeze, issue, redeem, visit, receipt, sweep | two browsers, lost answers, several channels share a decision | one browser per link, one wording, acknowledged receipts reach the outbox |
| Unsubscribe and preference links: `unsubscribe/*`, `preferences/link.ts` | events only | open, press, store, post, answer | presses in one millisecond, a post without outbox | nobody is stopped from more than they picked; told means reported, short of a refusal |
| Inbound webhooks: `events/index.ts`, `events/<provider>/*` | none of their own | verify, parse, correlate, filter, store, enqueue, forward | repeats, half-stored batches, retries inside the request | a 2xx accounts for every event; a repeat adds nothing |
| Client events: `events/client/client-events.ts` | `api_response_refs`, `provider_message_ids` | find the message, reconcile, forward, record, answer per event | a 502 repeats the whole batch; lost answers; other reporters | each result is what became of the event |
| Log sinks: `logging/*` | a buffer, slots | write, flush, deliver, shut down | one flush in flight, caps, shutdown during a flush | a line is in one place only; slots come back |
| Metrics: `metrics/*` | groups in memory, `dispatch_metrics` | record, flush, sweep, report | swap at a flush, chunks that fail, split minutes | what was recorded is waiting, written or knowingly dropped; the report adds up |
| Accounts: `auth/*`, `admin/api/members.ts` | the auth library's tables | seed, invite, withdraw, accept, remove a member, rotate, revoke | sequences of calls cut half way | accounts are members, short of a removal or a cut sequence; a revoked key stays dead |
| Console and data plane: `admin/api/*`, `api/v1/controllers/*`, `admin/src/pages/*` (under `src/`) | lists in a tab | pages by key and by number, filters, chips, details | late answers, rows that move between pages, three translations of a status | a walk misses and repeats nothing; counts and rows agree |
| Configuration: `config/*`, `env-yaml.ts`, `dispatcher-settings.ts` | `process.env` | hydrate at boot, resolve later | two passes over overlapping rows, references resolved twice | platform over typed key over `env:` map |
| Retention: `db/retention.ts` | none | hourly sweep of every table | deletes under readers and writers | see the tables' own modules |
| Event buffer, database client, migrations, GUI forms, demo scripts | | | | not modelled, see below |

Interactions: a dispatch request registers its campaign (callback registry) and
its program, freezes and issues onsite offers, looks its recipients up, resolves
values from the placeholder snapshot, chooses senders, sends through a provider
client, emits an event per recipient into the outbox, and at its end flushes
its recorders and refreshes the summary. The outbox posts to ScaleMargin.
Provider webhooks and onsite receipts find their destination in the registry and
go into the same outbox; Freshchat receipts and client events take a way of their
own, together with the poller, over `provider_message_ids`. Everything logs and
counts (sinks, metrics). The console reads the tables of all of them, and the
sweep prunes them.

## Modules and how they correspond to the code

Every module is read the same way. VARIABLES are the columns a property can
tell apart, the local variables that live across an await, and a few history
variables at the end, marked as such. An action is the code between two awaits
of a handler; a database statement is atomic. A crash loses the local variables
and keeps the tables. Clocks are relative (time left, age), so that time is not
bounded by a counter. `MaxFaults` (with a prefix where modules meet) bounds
crashes, failed statements and lost answers together, and the properties that
tolerate a fault say so. `PROJECT.json` names the lines each definition stands
for. A definition headed "Mutant of" is a plausible bug in the definition after
it, which breaks the property `PROJECT.json` names.

The way out:

- **AnalyticsDelivery** is the abstract promise: an event is owed, received or
  abandoned. Accepting makes it owed, delivering makes it received for good, an
  abandoned one may be revived (a batch that still ran settles after another
  gave up). Nothing else may happen to it.
- **Outbox** is the table, the workers (`deliverDueBatch`: Select, Mark, Post,
  Settle), the callers (`Enqueue`, and `kicks` for the calls sync mode owes), the
  sweep, a crash, and `Tick`. `snap` are the attempts as they were selected:
  backoff and give-up use them, not the row. `Promise` is the refinement to
  AnalyticsDelivery. **OutboxProofs** has the theorems about it.
- **StatusPoller** has a tick (`StartTick`, `StartLookup`, `Answer`,
  `ForwardChunkStep`, `SettleStep`, `EndTick`, `TickFails`), lookups a failed tick
  leaves behind (`stray`), webhook requests (`HookForward`, `HookRead`, `HookWrite`),
  ageing, pruning and the provider's own truth (`Progress`). **StatusPollerProofs**
  has the theorems about it.
- **IsolatingForward** is one call of `forwardFreshchatReceiptsIsolating`; the
  recursion's stack is the sequence `todo`. **SettlingProofs** has the theorems about
  it and about Variables.

The sending side:

- **SenderFailover** has the breakers, the choice of a chain (`Orders`: weights and
  pins, any order among equals, for the hash that the code orders by), and the
  failover loop, which differs between email (all chains first) and WhatsApp.
  **SenderFailoverProofs** has the theorems about it.
- **ProviderSend** takes one message from the senders of `.env.yaml` (or the
  synthesized ones) to the provider: the boot check, the template or media the
  content asks for, the preview that is logged, the request, the answer. Its
  action splits where the code awaits the provider. A mail sender without keys
  (`Keyless`) goes on its role, or on the process's own AWS keys where the
  environment has them; which senders are synthesized follows `EMAIL_PROVIDER` and
  `WHATSAPP_PROVIDER`. **FlowsProofs** has the theorems about it and about Inbound,
  Hydration, ClientEvents and Resolver.
- **DispatchRun** has a run from the 202 to its last write. `writes` are
  statements issued and not awaited; `setup` says whether they keep their order
  (`Pooled`), whether a development recipient is configured, and each run's channel.
  **DispatchRunProofs** has the theorems about it.
- **Resolver** goes lookup (chunks, retries, four backends), plan, resolve (jobs
  by key, `Concurrency` at a time), render, while `Swap` may replace the registry
  between any two steps. A value is who it was computed for, not its text. An
  inactive variable of a source other than SQL is in the registry as a constant, its
  fallback (`Inactive`); such a constant is rendered without being counted (`Unsaid`).
- **Variables** has both write surfaces and the call-metadata API as requests that
  go statement by statement (`Receive`, `Read`, `CheckMeta`, `Insert`, `Write`, `Remove`, and
  the `Schema` actions), the refresh after each (`List`, `Install`), the boot's seed, the
  TTL (`Age`, `Dispatch`), failures and restarts. `snapshot` is what dispatches read;
  `raced` has the schemas of which a handler that attaches and one that changes were
  both between check and write, whatever came of it, and `masked` the names the
  console created from a mask, or renamed from one.
  **SettlingProofs** has the theorems about it.

What comes back:

- **Inbound** has one endpoint under a configuration, requests with the posts of
  its provider, and the steps verify, parse and correlate, filter, store, enqueue,
  forward (Gupshup, with retries), answer. `occ` is what really happened; the
  key is what the code makes of it. A body without items is answered 400 or 200, as
  its adapter parses it; a time that is no time (`legible`) throws outside the
  handler's `try` and leaves the request unanswered (`hung`).
- **ClientEvents** has callers that post a batch, may overlap and may repeat a list
  whenever they like, and another reporter of the same messages. A forwarded batch may be
  refused or fail in part, one half failing while the other goes out, and
  ScaleMargin may take it in an attempt whose answer is lost (`heard`), so that the
  retry posts it again; the process may end between any two steps. `muddled` has the
  messages to which one of these happened, or a report of another beside a request.
- **Links** has tabs on the two pages; a press makes events, stores them, posts
  them and answers. **Onsite** has the decision, its links (`act`), sessions,
  browsers with one receipt each, and requests split at their awaits. **OnsiteProofs**
  has the theorems about it, and about the parts `MCOnsite` puts beside it.

The stores and what is read of them:

- **CampaignSummary** has refreshes as three reads in any order and an upsert,
  over events, runs and their pruning; `pooled` says whether a run's row may be
  written after the refresh that was issued with it. The backfill's flag is set by a
  step of its own, after the rebuild (`BackfillEnds`), and nothing else runs before it (`Serving`).
- **CallbackRegistry** has cache, table, statements under way and durable lookups;
  **Programs** the same for wire ids, after the first boot's copy of the outbox
  (`CopyPage`, `CopyFails`, `BackfillDone`), before which nothing is served. A page
  is the set of rows with fewer than `BATCH` before them. **StoresProofs** has the
  theorems about these three and about Console.
- **LogSinks** has buffer, insert in flight, timer, webhook slots and the ends of
  the process. **Metrics** has groups, batches, rows and the report's sums.
- **Accounts** has the seed, invitations, the removal of a member (whose account
  stays) and key operations, each call of the auth library a step.
- **Console** has the nine lists over one table that is written meanwhile: a tab
  with keyset pages and several requests under way, and a client that turns
  numbered pages. `Having`, `Derived` and `Chip` are the three translations of a
  recipient's status. A row may move down its list: a run whose acceptance is stored
  after its end (`AcceptLate`), for neither is awaited, and a rollup whose refresh
  writes an older `last_event_at` over a newer one (`Roll`). `gone` remembers the names
  whose rows were swept or moved down, for they may come again further down;
  `torn` that a row was written between a total and its page, or moved down
  while numbered pages were turned.
- **Hydration** has what a boot makes of the platform's variables and the file: the
  two passes over `BINDINGS` row by row, and the Atlas key. A step is a restart
  after a variable was rotated. `PrecedenceHolds` is the order of
  `hydrate.ts:4-9` as a definition of its own. `SettingsHold` says nothing of a file
  in which any reference names a variable of the table, another row's or its own (the
  documented `atlas_key_env: DISPATCHER_ATLAS_KEY`). Of the four pairs of keys the file's
  schema refuses (`dispatcher-schema.ts:77`, `config/settings-schema.ts:111,179`) only
  the Atlas one is left out; the model takes the files with the other three as well.

The modules compose at their tables' edges: Outbox treats emitEvent as `Enqueue`,
DispatchRun treats the outbox's insert as one statement that may fail, and
StatusPoller and ClientEvents use of IsolatingForward what it promises (each
receipt accepted, refused or failed). The MC modules give constants values and
symmetry. In `MCFlows` the requests, the callers and the metric subjects are
symmetric: no definition tells one from another. `MCStores`, `MCOnsite`, `MCSettling` and `MCFlows` put components
that share no variable into one instance: the variable `part`, chosen at the
start, says which of them steps, and the others stay where they began. The
interleavings left out would reach no further state of any of them.

## What the runs show

| Run | Distinct states | Shows |
| --- | --- | --- |
| `Outbox_callers` | 1.6M | sync mode, two overlapping callers, sweep, crash, lease: nothing lost, every POST counted, the promise of AnalyticsDelivery kept |
| `Outbox_fair` | 15k | batched mode settles every event, also after a crash; without overlap an event is repeated only after a fault, and delivered is final |
| `StatusPoller_alone` | 1.3M | two senders with a message each: no gaps on the ladder, repeats only after a fault, final means final, stray lookups included |
| `StatusPoller_ends` | 64k | poller and webhook race over one message: nothing recorded that was not reported, no gaps; polling ends when rows age |
| `SenderFailover` | 91k | three overlapping runs without a pin, with a soft and a strict one: breakers under interleaving, routing, timeouts, and every recipient answered |
| `DispatchRun_runs` | 1.8M | an email and a WhatsApp run over a pool, and two development runs over SQLite, with a fault anywhere |
| `Onsite_visits` | 1.8M | what a person outside a dispatch reaches: offers (two links, browsers, sessions and requests, lost answers, the sweep), unsubscribe and preference pages, accounts, log sinks |
| `Stores` | 1.8M | rollup, callback registry, program cache and the first boot's copy, console |
| `Settling` | 504k | the placeholder registry, whose answers become live, and the isolating recursion, which ends |
| `Flows` | 0.6M | what flows past the stores: send, inbound, client events, resolving, metrics, settings |
| `StatusPoller_races`, `DispatchRun_failed` | | violations, see the next section |

What the conjunctions of the composed runs consist of (each part is a property of
its own module, with its comment there):

| Property | Parts |
| --- | --- |
| `OffersHold` (Onsite) | one browser per link; only others are refused; one wording of an offer |
| `LinksHold` (Links) | `StopsOnlyWhatWasPicked`, `PressIsRecorded`, `ToldUnlessRefused` |
| `AccountsHold` (Accounts) | `AccountsAreMembers` short of a cut sequence or a removal, `KeysHold`: a revoked key stays dead, and until then one of the keys that rotations gave out works, however they overlapped |
| `SinksSound` (LogSinks) | `EveryLineOnce`, `SlotsReturned`, `QuietEndKeepsLines` |
| `CountsHold` (CampaignSummary) | counters never exceed what happened, nor fall short of it when all is quiet and nothing failed |
| `CachesHold` | `StaleOnlyIfRaced`, `RestartKeepsCorrelation` (CallbackRegistry); `CacheTellsTable`, `MissesAreNotCached`, `HistoryCopied` (Programs) |
| `RegistryHolds` (Variables) | `DeletionSticks`, `LiveUnlessRaced`, `MaskOnlyAsCreated` |
| `AttachmentsHold` (Variables) | `DanglingOnlyIfRaced` |
| `ForwardHolds` (IsolatingForward) | `Conserved`, `OnlyRefusedAreLost`, `GoodNeverRejected`, `AcceptedInOrder` |
| `SendsHold` (ProviderSend) | `OwnAccountOnly` (short of a keyless mail sender), `PreviewIsSent`, `ReportIsTrue` |
| `InboundHolds` (Inbound) | `AnsweredIsAccountedFor`, `ReplaysAreOne` |
| `ClientHolds` (ClientEvents) | `ResultsAreTrue`, `RetriesRepeatNothing` (of messages that are not `muddled`) |
| `ResolverHolds` (Resolver) | `OwnValuesOnly`, `CallsAreFew`, `LookupIsLocal`, `CountsAgree` (inactive variables with a fallback aside) |
| `ConsoleHolds` (Console) | `TabIsFaithful`, `ChipsAgree`, `DetailNeverMilder`, `PagesMissNothing` (unless `torn`) |
| `ReportHolds` (Metrics) | `AddsUp`, `TimelineAddsUp`, `QuantilesHold` |
| `SettingsHold` (Hydration) | `PrecedenceHolds`, `AtlasKeyHolds`, `ReportHolds` |

Each property of each run is also shown to depend on the code: a mutant of one
mapped definition, kept beside it in the module, breaks it.

Two more instances hold and are run by hand
(`tlc -config MCX_y.cfg MCX.tla`):

| Configuration | Shows |
| --- | --- |
| `MCStatusPoller_both` | the poller and two racing webhooks over all four statuses keep `RecordedWasReported` and `LadderReported` (1M states) |
| `MCDispatchRun_settles` | every accepted run settles, short of faults |

`MCStatusPoller_ends` with `SPECIFICATION HealthySpec` and `PROPERTY
EventuallyReported` shows that a final status is reported in the end if both ends
answer.

## Where the code and its documentation disagree

Each statement below is made by a document, a comment or a text of the program
(or, where it stands in brackets, is what a reader would take for granted) and is
false of the code; the model checker finds a behaviour that breaks it.
The first two are runs, and `PROJECT.json` quotes them. The rest are reproduced by
hand: where a configuration is named alone, run it as it is; where a property is
named with it, put that property in the place of the configuration's own
INVARIANT and PROPERTY lines (the properties are defined in the MC module, or in
the module it extends).

| Reproduce with | Statement | What happens |
| --- | --- | --- |
| run `StatusPoller_races` | `events/freshchat/status-poller.ts:19`: running poller and webhook never double-reports | they read and forward in opposite order |
| run `DispatchRun_failed` | `db/repos/campaign-summary.ts:52`: a failed row never sent anything | a run may fail half way |

The outbox and the other reporters:

| Reproduce with | Statement | What happens |
| --- | --- | --- |
| `MCOutbox_giveup` | `docs/development.md:198`: attempts before an event is marked failed | the oldest row of the group decides for all (`events/outbox.ts:142`) |
| `MCOutbox_giveup`, PROPERTY `PermanentNotRetried` | `docs/message-ids-and-analytics.md:476`: a 4xx is permanent, not retried | the outbox retries every failure (`events/outbox.ts:141`) |
| `MCOutbox_repick` | `events/outbox.ts:38`: while a batch is in flight it is not picked again | two callers select before either has leased (`events/outbox.ts:117`) |
| `MCOutbox_sync` | `docs/architecture.md:475`: failures back off and retry up to ten attempts | sync mode has no timer (`events/index.ts:143`) |
| `MCFlows`, `RejectedPerEvent` | `events/client/client-events.ts:215`: a refused receipt is reported as rejected | refusals are remembered by message, so an event of it that was accepted is called rejected too |
| `MCFlows`, `NothingTwice` | `events/client/client-events.ts:5`: nothing already reported is sent twice | the answer to a batch is lost, and `events/freshchat/receipt-forwarder.ts:73` posts it again |
| `MCFlows`, `KeysTellApart` | `docs/message-ids-and-analytics.md:435`: deduplicate on the key | two opens of one SES mail carry the mail's own time and share a key, and so may events without a message id |
| `MCFlows`, `ReadStaysRead` | `db/repos/campaign-events.ts:110`: `read` is not folded into `opened` | the webhooks normalise it before they store it |
| `MCOnsite_visits`, `ToldIsTrue` | `unsubscribe/link.ts:275`: unsubscribe recorded, no more emails | a refused post is answered so too |
| `MCOnsite_visits`, `SavedWithoutCampaign` | `docs/message-ids-and-analytics.md:344`: saved in the database even without a campaign | nothing is stored without one |

Sending and resolving:

| Reproduce with | Statement | What happens |
| --- | --- | --- |
| `MCSenderFailover_unrouted` | `providers/senders.ts:592`: prefer healthy senders | a healthy pin-only sender hides the parked weighted one |
| `MCSenderFailover_probe` | `providers/senders.ts:152`: half-open allows one probe | every resolve is let through |
| `MCSenderFailover_probe`, `ParkedIsNotTried` | `docs/deployment/client-deployment.md:674`: how long it stays parked before being tried | an email run resolves its chains before its first send (`dispatch/processor.ts:203`) |
| `MCSenderFailover_unclear` | `README.md:421` (repository): never retry an unclear outcome | a reset connection fails over (`providers/senders.ts:274`) |
| `MCFlows`, PROPERTY `ConfiguredSends` | `providers/sender-credentials.ts:7`: boot and send can never disagree about whether a sender is configured | a Gupshup sender that boot accepts by its account alone has no key to send a template with |
| `MCFlows`, `NoSharedKeys` | `providers/sender-credentials.ts:2`: credentials are the sender's own, never from a provider-wide variable | a mail sender without keys is sent with the process's AWS keys (`providers/ses.ts:36`) |
| `MCFlows`, `DefaultIsTheSenders` | `dispatch/whatsapp.ts:232`: a sender's default template | the first of the chain lends its template to the one that sends |
| `MCDispatchRun_runs`, `AcceptedIdsAreSaved` | `docs/message-ids-and-analytics.md:12`: a row for every accepted WhatsApp message | ids are written after the loop (`dispatch/whatsapp.ts:480`) |
| `MCDispatchRun_runs`, `RedeliverySkipped` | `docs/architecture.md:169`: a redelivery is skipped entirely | overlapping deliveries both pass the check (`dispatch/processor.ts:135`, `277`) |
| `MCDispatchRun_runs`, `AcceptedIsInFlight` | `db/repos/activity.ts:161`: accepted means in flight | unawaited statements swap behind a pool (`admin/activity.ts:97`) |
| `MCFlows`, `CountsAgreeAlways` and `NothingRaw` | `personalize.ts:300`: the count can never disagree with what was rendered | the registry may be replaced between the two |
| `MCFlows`, `InactiveIsCounted` | the same, of a registry that is not replaced | an inactive variable is a constant of its fallback (`variables/service.ts:43`), which is rendered and not counted |
| `MCFlows`, `ResolvingNeverThrows` | `variables/resolver.ts:5`: failures fall back, never throw into the dispatch | planning throws where a URL's host comes out empty |

Stores and settings:

| Reproduce with | Statement | What happens |
| --- | --- | --- |
| `MCStores`, PROPERTY `NeverBackwards`, no SYMMETRY | `db/repos/campaign-summary.ts:130`: counters never move backwards | a lost update between two refreshes |
| `MCStores`, `CacheBounded` and `FreshAnswers` | `db/repos/dispatch-programs.ts`: at most CACHE_MAX entries that say what the row says | a lookup fills the cache whatever its size, with what it read before a recording |
| `MCOnsite_visits`, `OpenLinkHasItsOffer` | `db/retention.ts:171`: decisions are kept the longest | reuse does not renew updated_at (`onsite/issue.ts:129`) |
| `MCCallbackRegistry_many` | `events/campaign-callback-registry.ts:6`: a restart no longer breaks SES correlation | the warm load reads 5,000 rows, SES asks the cache only |
| `MCCallbackRegistry_many`, `UsedIsFound`, with `Campaigns = {c1}` | `onsite/receipt-forwarder.ts:3`: destination known even after a restart | cache hits do not renew last_used_at |
| `MCSettling` (`Mode = "few"`), `AttachedExists` | `api/v1/controllers/call-metadata.controller.ts:5`: deleting a used schema is refused | it checks before a variable that uses it is written |
| `MCSettling` (few), `SavedAsAsked` | `variables/api-config-schema.ts:2`: both surfaces accept the same | the console's row drops the saved response values (`admin/api/variables.ts:112`) |
| `MCSettling` (few), `MaskNeverStored` | `admin/api/variables.ts:47`: one mask, one rule | only the data plane refuses a mask on create |
| `MCSettling` (few), `AnsweredIsLive` | `admin/api/variables.ts:3`: edits apply to the next dispatch | overlapping refreshes, and a refresh that fails after the write |
| `MCSettling` (few), `SeededWhole` | `variables/import-yaml.ts:21`: a guard against a half-initialized table | a boot cut half way leaves a table that is not empty, and the rest is never seeded |
| `MCFlows`, `InlineWins` | `config/bindings.ts:52`: no binding overwrites another; `config/settings-schema.ts:113`: the inline value would win | where the `env:` map sets the variable as well, its reference overwrites its inline value |
| `MCFlows`, `SkippedWasSet` | `config/hydrate.ts`, `HydrationResult.skipped`: set in the environment already | a reference is skipped because the inline value of the same setting came first |
| `MCFlows`, `SourceIsTrue` | `dispatcher-settings.ts`, `SettingSource`: where a value came from | after hydration the file's value looks like the environment's |

Console, accounts and logs:

| Reproduce with | Statement | What happens |
| --- | --- | --- |
| `MCStores`, `TabShowsWhatIsPicked` | (`CampaignDetail.tsx:292`: the list shown is the picked filter's) | a late answer of the earlier filter replaces it |
| `MCStores`, `DetailAgrees` | (`admin/api/campaigns.ts:309`: a recipient's detail has the status of the list) | `read` is an open in one and its own status in the other |
| `MCStores`, `PagesMissNothingEver` | (a client that turns pages up to `total` has seen every row) | the total is read beside the page |
| `MCFlows`, `MeanOverActiveMinutes` | `metrics/report.ts:67`: mean over minutes with activity | it is over buckets of the resolution |
| `MCOnsite_visits`, `UpIsUsable` | `auth/seed.ts:2`: a fresh deployment is immediately usable | cut between account and organization, the seed never runs again |
| `MCOnsite_visits`, `CreatedCanJoin` | `docs/development.md:267`: an invitee sets a password and is signed in | the account exists after a failed accept, and the link then refuses it |
| `MCOnsite_visits`, `EndKeepsLines` | `logging/db-sink.ts:123`: shutdown awaits outstanding rows | it awaits the insert in flight, not what was buffered meanwhile |
| `MCOnsite_visits`, `WaitsForTimer` | `logging/db-sink.ts:33`: a line waits two seconds at most | a line written during a flush may have no timer |

Not shown by a run, but met on the way: `docs/deployment/client-deployment.md:283`
says that the dispatcher reports at boot when a typed key hides one of the `env:`
map, while `index.ts:63` drops what `hydrateEnvFromYaml` returns; and
`docs/message-ids-and-analytics.md:477` gives pauses of 100, 200 and 400 ms where
the in-memory retries wait seconds.

## Bounds and why they are enough

- Outbox: three rows of two destinations are the smallest batch with a group of two
  and a group of one; a limit of two leaves a row for the next batch. Two workers
  show every pairwise overlap. Two attempts reach the terminal one and one before it.
  `AttemptBound` stops the selection of rows that overlapping batches revive again
  and again. In `Outbox_fair` it must not stop a row: with one worker no row
  outlives MaxAttempts by more than the crash adds, and the bound is above it. Its
  two rows have a destination each and a limit of one makes them wait for one another.
- StatusPoller: two messages belong to two senders, so that one may be paused alone;
  one message is enough where it is a tick and a webhook that race.
- IsolatingForward: five receipts are split into 3+2 and 2+1, 1+1; four passing failures
  exhaust the retries of two batches.
- SenderFailover: a run for each kind of pin, two weighted senders and one for pins
  only; four failures with a threshold of two reach closed, open, half-open and back.
- DispatchRun: two recipients, so that a loop has a next one; two runs overlap. The
  variable `setup` takes both the production and the development instance.
- Resolver: three recipients asked for, one of them twice, in chunks of one; a
  variable of each source, one that reads a user's id, a column and the send's
  metadata, and one that names a host; two calls at a time and one replacement of the registry, at any step. The first registry
  holds all four variables, three of them or none; a replacement may install any.
- Variables: two names and one schema, two requests at once, which is every pair of
  the edits `MCSettling` lists; liveness is checked over all of them.
- Inbound: two requests, so that a repeat meets the first; the posts of each
  provider hold every kind of item its parser tells apart, and the configurations
  every combination of switch, secret, filter and forwarding that its code asks for.
- ClientEvents: two callers, two messages, batches of two; bodies name each way of
  finding a message and each reason to skip one. Two things may go wrong (a batch that
  fails, an answer that is lost, a statement, the end of the process), so that a retry
  may itself go wrong, and one report or deletion comes from elsewhere.
- Onsite: two of everything that may race; ticks are half a session's life. Links: two
  presses of two tabs, times that may be equal. Accounts: one invitee, two
  rotations and a revocation. LogSinks: five lines against a buffer of three.
- CampaignSummary: two people, a run and two refreshes are what a lost update needs.
- CallbackRegistry: two campaigns and one reader; the warm limit is the number of
  campaigns where it must not matter, and one below where it does. Statements run
  in any order, which includes the order SQLite keeps.
- Programs: two wire ids with a cache of one, two lookups; five outbox rows in pages
  of two, with three of one instant, so that a page ends between rows of equal time.
- Metrics: two subjects and two groups, so that a third is dropped; a resolution of two
  minutes over three, and chunks of one, so that a failing chunk has one before it.
- Console: three rows of two owners and pages of one, two requests under way.
- Hydration: two settings with a typed key and a reference each, and one variable
  to refer to: every row of the two passes may meet every other.
- ProviderSend: two recipients over every sender shape and every content shape; the
  choices are made per message, so one message at a time shows them all.

`CHECK_DEADLOCK FALSE` stands where the modelled work ends (all rows settled and
swept, all runs ended, bounds reached).

## Fairness

- Outbox: the clock advances, a started call goes on (fetch has a timeout of its
  own), and in batched mode the timer starts the next one. Nothing is assumed of
  the receiver, crashes or the sweep. In sync mode the callers are not fair:
  nobody is obliged to emit another event.
- StatusPoller: the timer ticks, lookups and requests end. `AgingSpec` also lets rows
  age. `HealthySpec` adds strong fairness of a status answer and of an accepted
  batch: a receiver that refuses for ever is no counterexample to a promise that
  is about healthy ones.
- SenderFailover, DispatchRun, IsolatingForward: a run goes on, since provider
  calls, lookups and statements return or throw. Starting a run is not fair.
- Variables: the boot's seed and every started refresh go on, the snapshot ages, and
  some dispatch asks for it when its TTL is over; nothing is assumed of the operators
  and their requests. That is why a
  write whose own refresh failed becomes live (`EventuallyLive`), where
  `AnsweredIsLive` is false.

## What is proved

`OutboxProofs` holds for any finite or infinite set of rows, destinations and
workers, any limits and any times, under the assumptions named in `Outbox`
(limits and times are positive naturals, `Dest` is a function to `Dests`).

| Theorem | States |
| --- | --- |
| `TypeCorrect` | `Spec => []TypeOK` |
| `DeliveredCorrect` | `Spec => []DeliveredWasReceived` |
| `NothingLostCorrect` | `Spec => []NothingLost` |
| `PromiseImplemented` | `Spec => ImplementsPromise`, the refinement of AnalyticsDelivery |
| `PostsAreCounted` | `Spec => []EveryPostCounted` |
| `RepeatedCorrect` | `Spec /\ []Disjoint => []RepeatedOnlyAfterFault` |
| `DeliveredStaysFinal` | `Spec /\ []Disjoint => DeliveredIsFinal` |

`DeliveredWasReceived` alone is not inductive: a settlement writes `delivered` by
id an await after the POST, so one must know that a `2xx` in a worker's hand is
the receiver's own for all rows of its group. `ReceiptInv` says so, and what each
settled status means (`failed` was given up on, `gone` was settled before the
sweep), and that batches hold only rows that were enqueued (else a settlement
could create one). It says nothing of who may hold which row: overlapping
batches may hold the same one, and the argument does not need them apart.
`ReceiptStep` proves it preserved action by action; `ReceiptAlways` is the
invariant, the safety theorems follow from it, and `PromiseStep` maps each
action to Accept, Deliver, Abandon, Revive or a stutter under it. `BackoffType`,
`RemainingType` and `AdvanceType` are the lemmas about the operators.

Type invariants are proved, here and below, and in no run's list: the proofs need
them, and as checked properties they would say little of the program.

`CountInv` counts the POSTs of a row against its attempts column: the groups that
marked a row and have not posted it are what the column is ahead by (`Owing`), so
overlapping batches that mark the same row may make it too high, never too low.

The last two hold while no two running batches share a row (`Disjoint`), which is
what the code means by the lease and does not ensure: two callers may select a row
before either has leased it (`MCOutbox_repick` above), and a POST that outlives the
lease frees its rows for another. A single worker, which is what the timer of the
batched mode is, is always disjoint (`AloneIsDisjoint`). `DisjointInv` says
that a held row is live and that, before any fault, a received row is settled or in
the hands of the worker that will settle it.

`SenderFailoverProofs` holds for any finite set of senders, any runs, recipients,
weights, pins, threshold and bounds, under the assumptions named in `SenderFailover`.

| Theorem | States |
| --- | --- |
| `FailoverTypeCorrect` | `Spec => []TypeOK` |
| `BreakerCorrect` | `Spec => []BreakerTracksFailures` |
| `TimeoutCorrect` | `Spec => []TimeoutNeverResent` |
| `RoutingCorrect` | `Spec => []RoutingHonoured` |

The three properties speak of what was asked and taken; what makes them last is in
the queues. `FailoverInv` adds that chains are not empty and hold routed senders only
(`ChainsRouted`), that the sender of the next attempt exists (`AttemptExists`), that
a recipient is either without a chain or queued once (`QueuedOnce`), and that what
was taken of a message still waiting was unclear (`TakenIsUnclear`): without the
last two a settled message might be sent again and a second sender take it. The
choice of a chain is proved about as a sequence, whatever order among equals it has.

`StoresProofs` extends `MCStores`. Of CampaignSummary it holds for any finite sets of
people and runs, any number of refreshes and any `MaxFaults`.

| Theorem | States |
| --- | --- |
| `SummaryTypeCorrect` | `Spec => []TypeOK` |
| `CountsCorrect` | `Spec => []CountsHold` |
| `OnlyOverlapMovesBack` | `Spec => NeverBackwardsAlone` |

`SummaryInv` adds what a refresh in flight knows: nothing it read exceeds what
happened (`Bounded`, from `CountedHappened`: rows are of things that happened), until
two overlap it has the row as it is (`ReadIsFresh`), and without a pool and faults it
has counted every row there is (`ReadIsComplete`: rows come with a refresh of their
own, so a row that is added under a refresh makes two overlap). `UpsertRow` is the
lemma on the larger-of-two that the code writes.

Of the other two stores it holds for any campaigns, URLs, readers and windows, with or
without a pool, and for any sends, dispatches, lookups, outbox rows and page size:

| Theorem | States |
| --- | --- |
| `FreshCorrect` | `R!Spec => []R!StaleOnlyIfRaced` |
| `CorrelationCorrect` | `AllWarm` implies `R!Spec => []R!RestartKeepsCorrelation` |
| `ProgramsCorrect` | `P!ProgramSpec => []P!ProgramsSound` |
| `CachesCorrect` | `AllWarm` implies `MCSpec => []CachesHold` |

`AllWarm` says that the warm load has room for every campaign there is (5,000 rows in
the code); without it the restart does forget (`MCCallbackRegistry_many` above). The
assumptions say that the word for "no URL" is no URL (`NameAssumption`), and of the
outbox a first boot finds that it is finite, that no two rows have the same
`created_at` and id, and that an event of a campaign has a key (`ProgramAssumption`).

The registry answers from memory while its statements are under way. `FreshInv`
follows one URL through all places it may be in: unless a statement was lost or a
lookup met the dispatch, what is to be written, what the table has when nothing is to
be written, and what a reader holds are what the last dispatch gave. `WindowInv` adds
that a campaign of the window is in the table, no older than it is silent, or about to
be; a warm load then is the whole window (`WarmIsAll`). `WireInv` is the like for the
programs: what a dispatch has still to cache, or a lookup has read, is the row unless
another step of its wire id came between. `CopyInv` is about the copy: rows up to the
cursor are stored, and while nothing was dispatched each stored event is under the
program of a row with its key. That a page leaves no row behind its cursor is an argument
about a line: a row up to the last one of the page has no more rows before it than
that one has (`CopyPageStep`), and a finite set of rows has a first and a last one
(`EndsOfRows`).

Of Console, the fourth part of `MCStores`, it holds for any lists, owners, kinds of
events, page and timeline limits, writes and requests:

| Theorem | States |
| --- | --- |
| `ConsoleHoldsAlways` | `MCSpec => []ConsoleHolds` |

`ConsoleAssumption` says that ids and owners are numbers, for only their order matters,
and that a page has at least one row. `ConsoleInv` speaks of what is under way. Until
something tangles them a tab has at most one request, under the filter that is picked
(`WalkInv`), and what the tab shows, or will with the answer that was read, is
whole: in order (`Ordered`), each name once and with nothing older in the table under it,
but for what was swept or moved down (`Remembered`, where `gone` enters), and with every row
that was listed unchanged since the reload down to the cursor (`Whole`). For the numbered pages the measure is how many rows stand above
one (`Above`): the sweep takes the oldest, so of the rows above one that stays none goes
but where a rollup moves down, which `torn` remembers; hence a row not given yet is not above
the next page, and a total read beside its page counts it (`PagesInv`). Lists are
sequences ordered by key, and that a finite set of rows has one such sequence
(`OrderExists`, `NewestIs`) and where a row stands in it (`PlaceInOrder`) are
inductions over the number of rows, as far as sets go: `NumberInduction` is about the set
of the numbers for which the statement holds.

`DispatchRunProofs` holds for any number of runs and recipients, any channels, any
configuration and any `MaxFaults`, under the assumptions named in `DispatchRun` (the
recipients are a finite set, since the property counts them).

| Theorem | States |
| --- | --- |
| `TypeCorrect` | `Spec => []TypeOK` |
| `UntoldCorrect` | `Spec => []AtMostOneUntold` |
| `AccountsCorrect` | `Spec => []CompletedAccountsForAll` |
| `LinksCorrect` | `Spec => []LinksAreKnown` |
| `DevCorrect` | `Spec => []DevRepeatsOnlyIfOverlapping` |
| `InFlightCorrect` | `Spec => []InFlightUnlessPooled` |

Each has an invariant of its own, for each is about another pair of states.
`UntoldInv`: whoever was sent a message and has no event is the recipient in hand, or
was when the run ended. `AccountInv`: a recipient is to do, in a message, or in the
log, and never in two of them. `LinksInv`: without a fault the links of a run are
stored once its recipients are resolved, and mail goes out only then. `DevInv`: one
run at a time is between the development check and the mark, unless two overlapped,
and a run that has the development message has marked the campaign or is about to.
`FlightInv`: an ended run has its last word to come, or has it with no earlier word
behind it; this is where the order of statements (`~Pooled`) is needed.

`StatusPollerProofs` holds for any messages, senders, statuses, lifetimes, chunk
sizes and faults, under the assumptions named in `StatusPoller`.

| Theorem | States |
| --- | --- |
| `TypeCorrect` | `Spec => []TypeOK` |
| `RecordedCorrect` | `Spec => []RecordedWasReported` |
| `LadderCorrect` | `Spec => []LadderReported` |
| `RepeatedCorrect` | `MaxWebhooks = 0` implies `Spec => []RepeatedOnlyAfterFault` |
| `StopsCorrect` | `MaxWebhooks = 0` implies `Spec => []FinalStopsPolling` |

The row is written by three kinds of process that read it an await earlier.
`RecordedInv` follows the evidence: a snapshot a lookup took, a verdict of the
receiver and the receipts a handler still holds are each of something reported.
`LadderInv` follows the rungs below it: the poller forwards a change with every step it
passed, the receiver's verdicts respect the order they are forwarded in, and what a
handler holds was forwarded with what is below. `BouncedInv` keeps the one
event without a rung out of the ladder's way: a message bounced wherever
anything says so. The last two theorems are about
the poller alone, since a webhook and a lookup that overlap do report twice (the
run `StatusPoller_races`): `AloneInv`
says that, before a fault, a message is at one place of a tick, that its snapshot is
its row, and that the receiver has nothing of it beyond the row but what the answer
at hand says. `ImpliedFacts` and `RankFacts` are the lemmas on the steps implied by a
status.

`OnsiteProofs` holds of Onsite for any links, browsers, sessions and requests, any
lifetimes and faults. Beyond the bounds it assumes that a nonce, a session id and a link are
never the word for "nothing" (`NameAssumption`: they are random strings and columns
that are not null).

| Theorem | States |
| --- | --- |
| `TypeCorrect` | `Spec => []TypeOK` |
| `OffersCorrect` | `Spec => []OffersHold` |
| `AcknowledgedCorrect` | `Spec => []AcknowledgedIsTold` |

That a session belongs to the browser its link is bound to is not inductive, because
a redeem reads and compares the binding before the session is stored and the sweep
may delete the row between the two. `BrowserInv` speaks of everything that holds a
link, sessions and requests about to be answered: a link is issued once, so its
holders are one browser, and remain one when the row is gone. `RefusedInv` says
that whoever was refused met another's nonce; `OfferInv` that until the decision is
pruned whatever is in a request's hand is its wording; `ReceiptInv` what a receipt
has passed by each step. `HandInv` ties the step of a request to what it holds.

It extends `MCOnsite`, and holds of the other parts of that instance for any emails,
invitations and key operations, any lines, thresholds and slots, and any tabs,
categories, settings and presses:

| Theorem | States |
| --- | --- |
| `MembersCorrect`, `AccountsCorrect` | `A!AccountSpec => []A!AccountsHold`, `MCSpec => []AccountsHold` |
| `LinesCorrect`, `SinksCorrect` | `L!LogSpec => []L!SinksSound`, `MCSpec => []SinksSound` |
| `PressesCorrect`, `LinksCorrect` | `K!LinkSpec => []K!LinksHold`, `MCSpec => []LinksHold` |

The assumptions (`AccountAssumption`, `SinkAssumption`) say that the
key created first is of no operation, and that a flush takes at least one row and the
buffer has room for one. `KeyInv` needs both directions: a revocation written and nothing
else revokes, and after a rotation the stored secret is of one that was written.
`LineInv` has every line in one place, those in flight before those that wait; `SlotInv` counts
the open posts of the webhook by their set; `EndInv` remembers what an end that found
no insert in flight still held. For the links the time of a press is the
key: `StoreInv` says that a press about to be stored finds no row of its time unless
two presses share it (`Shared`), so that insert-or-skip stores all of its events
(`StoredIs`), and `EventFacts` that no two events of one press have one key, which
is what hashing the category is for. `PickInv` keeps what is asked for within what was
picked while a tab is stored, posted and retried.

`SettlingProofs` is about the two components of `MCSettling`, for any names,
schemas, values and requests of operators, slots and faults, and for any number of
receipts, batch size, retries and outages.

| Theorem | States |
| --- | --- |
| `VariablesCorrect` | `Spec => [](DeletionSticks /\ LiveUnlessRaced /\ MaskOnlyAsCreated /\ DanglingOnlyIfRaced)` |
| `RegistryCorrect`, `AttachmentsCorrect` | the same of the composed instance: `MCSpec => []RegistryHolds`, `MCSpec => []AttachmentsHold` |
| `IsolationCorrect` | `F!Spec => []` of the four parts of `ForwardHolds` |
| `ForwardCorrect` | the same of the composed instance: `MCSpec => []ForwardHolds` |

The assumptions on the registry say what a request is (`InputAssumption`: the fields
the route's schema admits, a create with a definition) and that the words `none` and
`mask` are no schema key and no header value an operator types (`ValueAssumption`; the mask is
the code's own `HEADER_MASK`, and typing it is modelled as the mask). `RegistryInv`
adds what each handler waits for and has in hand (`HandlerInv`), that nothing is
served before the seed is decided (`BootInv`, without which a deleted placeholder
could be seeded again), that a snapshot behind the table has a request's refresh to
come (`LiveInv`; a dispatch's refresh does not count, for it may fail and leave no
trace), and that what a handler found is still so when it writes (`KnownInv`): an update
carries a mask on only if the row had one; and unless its schema raced, the schema that it
attaches has its keys, and the one it changes is not used against the change.

`ForwardInv` is about the recursion's stack: its intervals are ordered and apart
(`Stacked`), everything accepted precedes them (`AcceptedFirst`), and every
receipt is pending, accepted, rejected or failed and in one of these only
(`OnePlace`). Splitting an interval, the step a slip would be made in, keeps all
three (`SplitStep`). That each receipt is accepted once is the counting lemma
`AcceptedOnce`, a bijection with the sequence's domain.

`FlowsProofs` extends `MCFlows`, and holds for any senders, files and recipients
(ProviderSend), any posts, configurations, requests, retries and faults (Inbound),
any table of settings, platform and file (Hydration), any messages, lists of
events and callers (ClientEvents), and any directory, variables, recipients, workers and
replacements of the registry (Resolver).

| Theorem | States |
| --- | --- |
| `SendsHoldAlways` | `MCSpec => []SendsHold` |
| `InboundHoldsAlways` | `MCSpec => []InboundHolds` |
| `SettingsHoldAlways` | `MCSpec => []SettingsHold` |
| `ClientHoldsAlways` | `MCSpec => []ClientHolds` |
| `ResolverHoldsAlways` | `V!WordsApart` implies `MCSpec => []ResolverHolds` |

`ProviderSendAssumption` says that the providers of the file are the four there are, and
that no sender is called `shared`, `role`, `mixed` or `nobody`, the words the module has for an
account that is not one sender's own. `SendInv` adds that nothing is sent before the boot's
check (`Valid`), that senders are well-formed, and the count of each message
that the providers took (`Counted`). That an account is the sender's own is an argument
by cases of what each provider's code reads, against the way of the boot check that
let the sender through (`SesCredentials`, `KeyCredentials`, `GupshupAccount`).

`InboundAssumption` says that a provider says the same whenever it posts what happened
once. `RequestInv` is what each step of a request has done for each item of its batch
(`Handled`, `Persisted`, `Enqueued`, `Delivered`), `EventsInv` that a stored row is the
one its item's key makes, and `CountsInv` bounds what was enqueued and heard by the posts,
less the requests that still owe it (`Owing`, `Hearing`): replays add no more.

`HydrationAssumption` says that references name variables. The two passes of a boot
are a recursion over the rows of the table; `PassInv` says what the first `n` rows
leave in each variable and report, `RowsAreRead` is one row, and the induction over
`n` is again one about a set of numbers (`SetInduction`, after `StepsAreTaken`, which gives
the recursive function its values). `PrecedenceHolds` follows at the last row.

`ClientEventsAssumption` says that message ids are of one message each and batches hold at
least one receipt. `ClientInv` has three parts. `CallOK` is what one call knows of what it
will answer: each event that is to be called forwarded was accepted, was refused, or is
still in the list (`Foretold`), and no other call can take that back, as what was accepted
and what was deleted only grows. `StatusTold`: a recorded status was accepted before. `AloneInv`
is for `RetriesRepeatNothing`, and is said message by message (`Alone`): until something muddles
a message, what was accepted of it is at most as far along as its recorded status, or is in the
hands of the one call that is about to record it; and what that call still has to forward lies
ahead of both (`Ahead`), step by step (`Rising`). A batch of which a half failed breaks nothing of
this: what was accepted is recorded, and a repeat starts above it, at the price that a step of the
failed half below it is then called `already_reported` without ScaleMargin ever having had it. That the reconciled list is rising, starts beyond the recorded
status and leaves out only what is at or below it (`ReconciledIs`) is an induction over
the length of the list, a set of numbers again (`SetInduction`), over `ExpandInv`; that a list
taken at a set of positions (`At`) has each of them once and in order is counting: the place of a
position, the number of positions up to it, rises (`PlacesRise`) and misses none (`PlacesFill`).

`ResolverAssumption` says that the recipients are a list, the workers a number and that a
record of a directory has an id, whether it is reachable, and a column. `WordsApart` is a
hypothesis of the theorem and not assumed of the code: the key of a call holds its inputs as the
header or body does, and two tokens side by side there run together, so `ab` and `c` give
the key of `a` and `bc`. The requests are the same text then, but a value is no longer computed from
its reader's own inputs alone. The hypothesis holds in the instance that is checked, and
`KeysTellInputs` is the only use of it. `LookupInv` has of a network at every
moment what `LookupIsLocal` says at the end (`FoundIs`), which `ChunkIsAsked` and `LookupAdvances`
carry from chunk to chunk. `JobsInv` says that a job or an outcome is of a recipient that was found
(`JobOK`, `OutcomeOK`), and that no call made has the key of a job that waits: one job
per key then is one call per input. `RenderInv` says of `used` that it is what the registry counts until it
is replaced, and `CountedIsRendered` that the count and the rendering, two ways through the
code, agree on each such token.

Only model-checked: liveness (`EventuallySettled`, `PollingEnds`,
`EventuallyReported`, `EveryoneAnswered`, `EveryRunSettles`, `AnswersSettle`,
`RecursionEnds`), which rests on fairness and ENABLED; and of the parts of `MCFlows`
`ReportHolds`: its sums and quantiles over groups and buckets are folds, and what they
compute would need induction over data with an operator as the parameter.

## What is not modelled

- The in-memory event buffer (`events/buffer.ts`): it is reached only without a state
  database, which boot requires.
- The database client, migrations and dialects: one atomic statement in the modules.
- The console's forms (`Settings.tsx`, `Variables.tsx` and the like) and the demo
  scripts: they keep no state that outlives a page, and the API they call is modelled.
- Texts: payload contents, formatting, HTML, logging. Hashes, signatures and
  encryption appear as what they tell apart.
- Metrics at the end of the process or before the database is open: `flushMetrics` then
  loses what it swapped out, or the chunks not yet written, as it does when an insert fails.
- Sessions, passwords and roles of the auth library: a request in a module has
  passed them.

## Plan

Done, in this order: AnalyticsDelivery and Outbox with its proofs (the promise of
the whole program), StatusPoller and IsolatingForward (the other way to
ScaleMargin), SenderFailover and DispatchRun (the sending side), CampaignSummary,
Onsite, CallbackRegistry, then Variables, Resolver, ProviderSend, Inbound, ClientEvents,
Links, Accounts, LogSinks, Metrics, Programs, Console, Hydration,
and the proofs about SenderFailover, CampaignSummary, DispatchRun, StatusPoller, Onsite,
Variables, IsolatingForward, Accounts, LogSinks, Links, CallbackRegistry, Programs, Console,
ProviderSend, Inbound, Hydration, ClientEvents and Resolver.

Next, theorems: `AddsUp` and `TimelineAddsUp` of Metrics, with their sums written as counts
of the samples behind them. Next, models: a flush of Metrics cut by the end of the process; files
of settings whose references name the table's own variables, where `PrecedenceHolds` says nothing
yet; and that the ids and logs of a WhatsApp run that is cut short are the only rows it lacks.
