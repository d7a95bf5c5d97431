--------------------------- MODULE CallbackRegistry ---------------------------
(***************************************************************************)
(* campaign_id -> the analytics URL of its dispatch:                       *)
(* src/events/campaign-callback-registry.ts over                           *)
(* src/db/repos/campaign-callbacks.ts, warmed at boot and pruned by        *)
(* src/db/retention.ts.                                                    *)
(*                                                                         *)
(* A dispatch registers its campaign: in the cache at once, in the table   *)
(* by an upsert nobody awaits.  The SES adapter and                        *)
(* resolveAnalyticsCallbackUrl ask the cache only; onsite receipts ask the *)
(* cache, then the table.  A tick is a day, within which statements and    *)
(* lookups end; an age stops once nothing more depends on it.              *)
(***************************************************************************)
EXTENDS Integers, FiniteSets, FiniteSetsExt, SequencesExt

CONSTANTS
  Campaigns, Urls,
  Readers,    \* durable lookups that may be under way at once
  WarmLimit,  \* rows the warm load reads at most
  KeepDays,   \* days a row is kept after last_used_at; the warm load's window
  Pooled,     \* the state database is behind a connection pool
  MaxPending, \* bound on the statements under way
  MaxFaults   \* bound on failed statements and restarts

NameAssumption == "none" \notin Campaigns \cup Urls
KeepAssumption == KeepDays \in Nat \ {0} /\ WarmLimit \in Nat \ {0}
BoundAssumption == Pooled \in BOOLEAN /\ MaxPending \in Nat /\ MaxFaults \in Nat

VARIABLES
  cache,     \* store
  latest,    \* latestCallbackUrl
  table,     \* campaign_callbacks: the URL, and the days since last_used_at
  writes,    \* upserts and touches issued and not awaited
  reader,    \* the durable lookups under way
  faults,
  \* history
  given,     \* the URL of the last dispatch of each campaign
  silent,    \* days since that dispatch
  unused,    \* days since a dispatch or an event used the campaign
  lost,      \* campaigns whose last upsert failed or died with the process
  raced      \* campaigns registered while an upsert or a lookup of theirs ran

history == <<given, silent, unused, lost, raced>>
vars == <<cache, latest, table, writes, reader, faults, history>>

NoUrl == "none"
Absent == [url |-> NoUrl, age |-> 0]
Resting == [of |-> NoUrl, pc |-> "idle", url |-> NoUrl]
Present(c) == table[c] # Absent

Init ==
  /\ cache = [c \in Campaigns |-> NoUrl] /\ latest = NoUrl
  /\ table = [c \in Campaigns |-> Absent]
  /\ writes = <<>>
  /\ reader = [k \in Readers |-> Resting]
  /\ faults = 0
  /\ given = [c \in Campaigns |-> NoUrl]
  /\ silent = [c \in Campaigns |-> 0] /\ unused = [c \in Campaigns |-> 0]
  /\ lost = {} /\ raced = {}

-----------------------------------------------------------------------------
Upsert(c, u) == [campaign |-> c, url |-> u]
Touch(c) == [campaign |-> c, url |-> NoUrl]
Upserts == {w \in ToSet(writes) : w.url # NoUrl}

\* registerCampaignCallback
Register(c, u) ==
  /\ Len(writes) < MaxPending
  /\ cache' = [cache EXCEPT ![c] = u]
  /\ latest' = u
  /\ writes' = Append(writes, Upsert(c, u))
  /\ given' = [given EXCEPT ![c] = u]
  /\ silent' = [silent EXCEPT ![c] = 0] /\ unused' = [unused EXCEPT ![c] = 0]
  /\ lost' = lost \ {c}
  /\ raced' = IF \/ \E w \in Upserts : w.campaign = c
                 \/ \E k \in Readers : reader[k].of = c
                THEN raced \cup {c} ELSE raced
  /\ UNCHANGED <<table, reader, faults>>

\* What an upsert, or a touch, makes of the row.
Merged(row, w) ==
  IF w.url # NoUrl THEN [url |-> w.url, age |-> 0]
  ELSE IF row = Absent THEN row ELSE [row EXCEPT !.age = 0]

\* SQLite runs the statements as they were issued, a pool in any order.
Turns == IF Pooled THEN DOMAIN writes ELSE DOMAIN writes \cap {1}

Apply(i) ==
  /\ i \in Turns
  /\ table' = [table EXCEPT ![writes[i].campaign] = Merged(@, writes[i])]
  /\ writes' = RemoveAt(writes, i)
  /\ UNCHANGED <<cache, latest, reader, faults, history>>

\* The statement fails: a warning for an upsert, nothing for a touch.
Drop(i) ==
  /\ i \in Turns
  /\ faults < MaxFaults
  /\ faults' = faults + 1
  /\ lost' = IF writes[i] \in Upserts THEN lost \cup {writes[i].campaign} ELSE lost
  /\ writes' = RemoveAt(writes, i)
  /\ UNCHANGED <<cache, latest, table, reader, given, silent, unused, raced>>

-----------------------------------------------------------------------------
\* An event of the campaign finds its URL in the cache; nothing is written.
Hit(c) ==
  /\ cache[c] # NoUrl
  /\ unused[c] > 0
  /\ unused' = [unused EXCEPT ![c] = 0]
  /\ UNCHANGED <<cache, latest, table, writes, reader, faults, given, silent, lost, raced>>

\* getCampaignCallbackDurable after a miss: the query, its row, the cache.
Ask(k, c) ==
  /\ reader[k].pc = "idle"
  /\ cache[c] = NoUrl
  /\ reader' = [reader EXCEPT ![k] = [of |-> c, pc |-> "query", url |-> NoUrl]]
  /\ UNCHANGED <<cache, latest, table, writes, faults, history>>

ReadRow(k) ==
  LET c == reader[k].of IN
  /\ reader[k].pc = "query"
  /\ reader' = [reader EXCEPT ![k] =
       IF Present(c) THEN [of |-> c, pc |-> "fill", url |-> table[c].url] ELSE Resting]
  /\ UNCHANGED <<cache, latest, table, writes, faults, history>>

Fill(k) ==
  LET c == reader[k].of IN
  /\ reader[k].pc = "fill"
  /\ Len(writes) < MaxPending
  /\ cache' = [cache EXCEPT ![c] = reader[k].url]
  /\ writes' = Append(writes, Touch(c))
  /\ unused' = [unused EXCEPT ![c] = 0]
  /\ reader' = [reader EXCEPT ![k] = Resting]
  /\ UNCHANGED <<latest, table, faults, given, silent, lost, raced>>

\* The query fails: a warning, and the event has no destination.
AskFails(k) ==
  /\ reader[k].pc = "query"
  /\ faults < MaxFaults
  /\ faults' = faults + 1
  /\ reader' = [reader EXCEPT ![k] = Resting]
  /\ UNCHANGED <<cache, latest, table, writes, history>>

-----------------------------------------------------------------------------
Recent == {c \in Campaigns : Present(c) /\ table[c].age <= KeepDays}

\* listRecentCampaignCallbacks: the last used rows, at most WarmLimit of them.
Warmable(W) ==
  /\ Cardinality(W) = Min({WarmLimit, Cardinality(Recent)})
  /\ \A c \in W, d \in Recent \ W : table[c].age <= table[d].age

(***************************************************************************)
(* The process stops and starts: what is in memory is gone, and            *)
(* warmCampaignCallbackCache runs before the first request.                *)
(***************************************************************************)
Restart ==
  /\ faults < MaxFaults
  /\ faults' = faults + 1
  /\ writes' = <<>>
  /\ lost' = lost \cup {w.campaign : w \in Upserts}
  /\ reader' = [k \in Readers |-> Resting]
  /\ \E W \in SUBSET Recent :
       /\ Warmable(W)
       /\ cache' = [c \in Campaigns |-> IF c \in W THEN table[c].url ELSE NoUrl]
       /\ IF W = {} THEN latest' = NoUrl
            ELSE \E c \in W : /\ \A d \in W : table[c].age <= table[d].age
                              /\ latest' = table[c].url
  /\ UNCHANGED <<table, given, silent, unused, raced>>

\* runRetentionSweep
Sweep ==
  /\ \E c \in Campaigns : table[c].age > KeepDays
  /\ table' = [c \in Campaigns |-> IF table[c].age > KeepDays THEN Absent ELSE table[c]]
  /\ UNCHANGED <<cache, latest, writes, reader, faults, history>>

Older(n) == IF n > KeepDays THEN n ELSE n + 1

Tick ==
  /\ writes = <<>>
  /\ \A k \in Readers : reader[k].pc = "idle"
  /\ \E c \in Campaigns : given[c] # NoUrl
  /\ table' = [c \in Campaigns |-> IF Present(c) THEN [table[c] EXCEPT !.age = Older(@)] ELSE Absent]
  /\ silent' = [c \in Campaigns |-> IF given[c] = NoUrl THEN 0 ELSE Older(silent[c])]
  /\ unused' = [c \in Campaigns |-> IF given[c] = NoUrl THEN 0 ELSE Older(unused[c])]
  /\ UNCHANGED <<cache, latest, writes, reader, faults, given, lost, raced>>

Next ==
  \/ \E c \in Campaigns, u \in Urls : Register(c, u)
  \/ \E i \in 1..MaxPending : Apply(i) \/ Drop(i)
  \/ \E c \in Campaigns : Hit(c)
  \/ \E k \in Readers, c \in Campaigns : Ask(k, c)
  \/ \E k \in Readers : ReadRow(k) \/ Fill(k) \/ AskFails(k)
  \/ Restart
  \/ Sweep
  \/ Tick

Spec == Init /\ [][Next]_vars

-----------------------------------------------------------------------------
Given == {c \in Campaigns : given[c] # NoUrl}

\* Every variable holds a value of its type, a lookup fills the cache only with
\* a URL it read, and a campaign is known only after a dispatch of it.
TypeOK ==
  /\ cache \in [Campaigns -> Urls \cup {NoUrl}] /\ latest \in Urls \cup {NoUrl}
  /\ table \in [Campaigns -> [url : Urls \cup {NoUrl}, age : 0..KeepDays + 1]]
  /\ \A w \in ToSet(writes) : w \in [campaign : Campaigns, url : Urls \cup {NoUrl}]
  /\ Len(writes) <= MaxPending
  /\ reader \in [Readers -> [of : Campaigns \cup {NoUrl}, pc : {"idle", "query", "fill"},
                             url : Urls \cup {NoUrl}]]
  /\ \A k \in Readers : reader[k].pc = "fill" <=> reader[k].url # NoUrl
  /\ faults \in 0..MaxFaults
  /\ given \in [Campaigns -> Urls \cup {NoUrl}]
  /\ \A c \in Campaigns : 0 <= unused[c] /\ unused[c] <= silent[c] /\ silent[c] <= KeepDays + 1
  /\ \A c \in Campaigns : cache[c] # NoUrl \/ Present(c) => c \in Given
  /\ lost \subseteq Given /\ raced \subseteq Given

\* The cached URL is the one of the last dispatch, unless an upsert was lost or
\* the dispatch overlapped another upsert or a lookup of the same campaign: a
\* lookup resumes with the row it read and overwrites what was registered
\* meanwhile (registry.ts, store.set after the await).
StaleOnlyIfRaced ==
  \A c \in Campaigns \ (lost \cup raced) : cache[c] \in {NoUrl, given[c]}

\* A restart does not break the correlation of a running campaign: what was
\* dispatched in the last KeepDays days and written is in the cache the SES adapter
\* asks (registry.ts: "a pod restart mid-campaign no longer breaks SES event
\* correlation").
RestartKeepsCorrelation ==
  \A c \in Given \ lost : silent[c] <= KeepDays => cache[c] # NoUrl

\* The destination of receipts that name no campaign is known as long as any
\* dispatch of the last KeepDays days was written (latestAnalyticsCallbackUrl).
LatestKnown == (\E c \in Given \ lost : silent[c] <= KeepDays) => latest # NoUrl

\* onsite/receipt-forwarder.ts: the registry "supplies the authenticated
\* ScaleMargin destination even after a dispatcher restart": a campaign used in
\* the last KeepDays days is found, in the cache or in the table.
UsedIsFound ==
  \A c \in Given \ lost : unused[c] <= KeepDays => cache[c] # NoUrl \/ Present(c)
=============================================================================
