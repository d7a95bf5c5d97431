--------------------------- MODULE CampaignSummary ---------------------------
(***************************************************************************)
(* The durable rollup of one program: src/db/repos/campaign-summary.ts     *)
(* over dispatch_runs and campaign_events, refreshed by                    *)
(* src/events/persist.ts and by the end of a run in src/index.ts, and      *)
(* outliving both tables, which src/db/retention.ts prunes.                *)
(*                                                                         *)
(* refreshCampaignSummary reads three things at once, computes, and        *)
(* upserts; nobody awaits it and nothing keeps two of them apart.  One     *)
(* funnel stage stands for all (each is counted and kept alike), and every *)
(* run sends one message.                                                  *)
(***************************************************************************)
EXTENDS Naturals, FiniteSets, FiniteSetsExt

CONSTANTS
  People,      \* recipients that may reach the stage
  Runs,        \* dispatch runs of the program
  Refreshes,   \* refreshes that may be under way at once
  MaxFaults    \* bound on failed statements and restarts

ASSUME SizeAssumption == IsFiniteSet(People) /\ IsFiniteSet(Runs)
ASSUME BoundAssumption == MaxFaults \in Nat

VARIABLES
  pooled,      \* whether the state database is behind a connection pool, for good
  events,      \* people with a row in campaign_events
  run,         \* run[d]: the row of the run in dispatch_runs
  unwritten,   \* completed runs whose row is not written yet
  summary,     \* the row of campaign_summary
  reads,       \* reads[f]: what the refresh still has to read
  seen,        \* seen[f]: what it has read
  backfilled,  \* campaign_summary_backfill_done_at: "no", "done", or "running" at boot
  faults,
  happened,    \* history: people the stage was ever recorded for
  completed,   \* history: runs that ever completed
  overlap      \* history: two refreshes were under way at once

sources == <<events, run, unwritten>>
history == <<happened, completed, overlap>>
vars == <<pooled, sources, summary, reads, seen, backfilled, faults, history>>

NoRow == [exists |-> FALSE, reached |-> 0, sent |-> 0]
Unseen == [known |-> FALSE, sent |-> 0, reached |-> 0, stored |-> NoRow]
Idle(f) == reads[f] = {"idle"}

Init ==
  /\ pooled \in BOOLEAN
  /\ events = {} /\ unwritten = {}
  /\ run = [d \in Runs |-> "absent"]
  /\ summary = NoRow
  /\ reads = [f \in Refreshes |-> {"idle"}]
  /\ seen = [f \in Refreshes |-> Unseen]
  /\ backfilled \in {"no", "done"}
  /\ faults = 0
  /\ happened = {} /\ completed = {} /\ overlap = FALSE

-----------------------------------------------------------------------------
\* initDispatcherDb awaits the backfill: nothing is served or swept before its end.
Serving == backfilled # "running"

\* refreshCampaignSummary starts its Promise.all: three queries, in any order.
Refresh(f) ==
  /\ Idle(f)
  /\ reads' = [reads EXCEPT ![f] = {"runs", "funnel", "stored"}]
  /\ seen' = [seen EXCEPT ![f] = Unseen]
  /\ overlap' = (overlap \/ \E g \in Refreshes \ {f} : ~Idle(g))

(***************************************************************************)
(* persistCampaignEvents: insert-or-skip on dedupe_key, so that a provider *)
(* that repeats itself changes nothing, then a refresh nobody awaits.      *)
(***************************************************************************)
Persist(p, f) ==
  /\ Serving
  /\ events' = events \cup {p}
  /\ happened' = happened \cup {p}
  /\ Refresh(f)
  /\ UNCHANGED <<run, unwritten, summary, backfilled, faults, completed>>

(***************************************************************************)
(* A run of the program is accepted; later it completes, its row and the   *)
(* refresh are issued together, and neither is awaited.  Without a pool    *)
(* the statement that was issued first is run first.                       *)
(***************************************************************************)
AcceptRun(d) ==
  /\ Serving
  /\ run[d] = "absent" /\ d \notin completed
  /\ run' = [run EXCEPT ![d] = "accepted"]
  /\ UNCHANGED <<events, unwritten, summary, reads, seen, backfilled, faults, history>>

CompleteRun(d, f) ==
  /\ Serving
  /\ run[d] = "accepted"
  /\ d \notin completed
  /\ completed' = completed \cup {d}
  /\ IF pooled
       THEN unwritten' = unwritten \cup {d} /\ UNCHANGED run
       ELSE run' = [run EXCEPT ![d] = "completed"] /\ UNCHANGED unwritten
  /\ Refresh(f)
  /\ UNCHANGED <<events, summary, backfilled, faults, happened>>

WriteRun(d) ==
  /\ d \in unwritten
  /\ unwritten' = unwritten \ {d}
  /\ \/ run' = [run EXCEPT ![d] = "completed"] /\ UNCHANGED faults
     \/ faults < MaxFaults /\ faults' = faults + 1 /\ UNCHANGED run
  /\ UNCHANGED <<events, summary, reads, seen, backfilled, history>>

-----------------------------------------------------------------------------
\* Mutant of ReadRuns: runs that have not completed are summed too.
ReadRunsOfAnyStatus(f) ==
  /\ "runs" \in reads[f]
  /\ reads' = [reads EXCEPT ![f] = @ \ {"runs"}]
  /\ seen' = [seen EXCEPT
       ![f].known = \E d \in Runs : run[d] \in {"accepted", "completed"},
       ![f].sent = Cardinality({d \in Runs : run[d] \in {"accepted", "completed"}})]
  /\ UNCHANGED <<sources, summary, backfilled, faults, history>>

\* sumRunsForProgram: the completed runs, and whether there is any run at all.
ReadRuns(f) ==
  /\ "runs" \in reads[f]
  /\ reads' = [reads EXCEPT ![f] = @ \ {"runs"}]
  /\ seen' = [seen EXCEPT
       ![f].known = \E d \in Runs : run[d] \in {"accepted", "completed"},
       ![f].sent = Cardinality({d \in Runs : run[d] = "completed"})]
  /\ UNCHANGED <<sources, summary, backfilled, faults, history>>

\* getCampaignFunnel: distinct people with a row.
ReadFunnel(f) ==
  /\ "funnel" \in reads[f]
  /\ reads' = [reads EXCEPT ![f] = @ \ {"funnel"}]
  /\ seen' = [seen EXCEPT ![f].reached = Cardinality(events)]
  /\ UNCHANGED <<sources, summary, backfilled, faults, history>>

\* getCampaignSummary
ReadStored(f) ==
  /\ "stored" \in reads[f]
  /\ reads' = [reads EXCEPT ![f] = @ \ {"stored"}]
  /\ seen' = [seen EXCEPT ![f].stored = summary]
  /\ UNCHANGED <<sources, summary, backfilled, faults, history>>

\* Mutant of Keep: the old value is not kept.
KeepNothing(stored, computed) == computed

Keep(stored, computed) == Max({stored, computed})

(***************************************************************************)
(* The end of refreshCampaignSummary: nothing for a program without runs   *)
(* and without a row, else each counter is the larger of what was stored   *)
(* and what was computed, as they were when read.                          *)
(***************************************************************************)
Upsert(f) ==
  /\ reads[f] = {}
  /\ summary' = IF seen[f].known \/ seen[f].stored.exists
                  THEN [exists |-> TRUE,
                        reached |-> Keep(seen[f].stored.reached, seen[f].reached),
                        sent |-> Keep(seen[f].stored.sent, seen[f].sent)]
                  ELSE summary
  /\ reads' = [reads EXCEPT ![f] = {"idle"}]
  /\ seen' = [seen EXCEPT ![f] = Unseen]
  /\ UNCHANGED <<sources, backfilled, faults, history>>

\* A statement of the refresh fails: logged by refreshCampaignSummarySafe, or by the
\* backfill, which is then not flagged as done.
RefreshFails(f) ==
  /\ ~Idle(f)
  /\ faults < MaxFaults
  /\ faults' = faults + 1
  /\ reads' = [reads EXCEPT ![f] = {"idle"}]
  /\ seen' = [seen EXCEPT ![f] = Unseen]
  /\ backfilled' = IF Serving THEN backfilled ELSE "no"
  /\ UNCHANGED <<sources, summary, history>>

-----------------------------------------------------------------------------
(***************************************************************************)
(* runRetentionSweep: events and runs past their age; never the summary.   *)
(***************************************************************************)
PruneEvent(p) ==
  /\ Serving /\ p \in events
  /\ events' = events \ {p}
  /\ UNCHANGED <<run, unwritten, summary, reads, seen, backfilled, faults, history>>

PruneRun(d) ==
  /\ Serving /\ run[d] \in {"accepted", "completed"} /\ d \notin unwritten
  /\ run' = [run EXCEPT ![d] = "gone"]
  /\ UNCHANGED <<events, unwritten, summary, reads, seen, backfilled, faults, history>>

(***************************************************************************)
(* The process restarts.  backfillCampaignSummariesOnce refreshes every    *)
(* program that has runs, unless an earlier start has already done so, and *)
(* flags that it has when all are refreshed.                               *)
(***************************************************************************)
Restart(f) ==
  /\ faults < MaxFaults
  /\ faults' = faults + 1
  /\ unwritten' = {}
  /\ seen' = [g \in Refreshes |-> Unseen]
  /\ IF backfilled # "done" /\ \E d \in Runs : run[d] \in {"accepted", "completed"}
       THEN /\ reads' = [g \in Refreshes |-> IF g = f THEN {"runs", "funnel", "stored"} ELSE {"idle"}]
            /\ backfilled' = "running"
       ELSE reads' = [g \in Refreshes |-> {"idle"}] /\ backfilled' = "done"
  /\ UNCHANGED <<events, run, summary, history>>

BackfillEnds ==
  /\ backfilled = "running" /\ \A f \in Refreshes : Idle(f)
  /\ \/ backfilled' = "done" /\ UNCHANGED faults
     \/ faults < MaxFaults /\ faults' = faults + 1 /\ backfilled' = "no"
  /\ UNCHANGED <<sources, summary, reads, seen, history>>

Next ==
  /\ UNCHANGED pooled
  /\ \/ \E p \in People, f \in Refreshes : Persist(p, f)
     \/ \E d \in Runs : AcceptRun(d)
     \/ \E d \in Runs, f \in Refreshes : CompleteRun(d, f)
     \/ \E d \in Runs : WriteRun(d)
     \/ \E f \in Refreshes : ReadRuns(f)
     \/ \E f \in Refreshes : ReadFunnel(f)
     \/ \E f \in Refreshes : ReadStored(f)
     \/ \E f \in Refreshes : Upsert(f)
     \/ \E f \in Refreshes : RefreshFails(f)
     \/ \E p \in People : PruneEvent(p)
     \/ \E d \in Runs : PruneRun(d)
     \/ \E f \in Refreshes : Restart(f)
     \/ BackfillEnds

Spec == Init /\ [][Next]_vars

-----------------------------------------------------------------------------
Row == [exists : BOOLEAN, reached : 0 .. Cardinality(People), sent : 0 .. Cardinality(Runs)]

\* Every variable holds a value of its type; no counter leaves its range.
TypeOK ==
  /\ pooled \in BOOLEAN /\ overlap \in BOOLEAN
  /\ events \subseteq People /\ happened \subseteq People
  /\ run \in [Runs -> {"absent", "accepted", "completed", "gone"}]
  /\ unwritten \subseteq Runs /\ completed \subseteq Runs
  /\ summary \in Row
  /\ reads \in [Refreshes -> (SUBSET {"runs", "funnel", "stored"}) \cup {{"idle"}}]
  /\ seen \in [Refreshes -> [known : BOOLEAN, sent : 0 .. Cardinality(Runs),
                             reached : 0 .. Cardinality(People), stored : Row]]
  /\ backfilled \in {"no", "running", "done"} /\ faults \in Nat

\* The rollup never claims more than ever happened, however often providers
\* repeat themselves and however refreshes, prunes and restarts interleave.
NeverInflated ==
  /\ summary.reached <= Cardinality(happened)
  /\ summary.sent <= Cardinality(completed)

\* Once no refresh is under way, nothing failed and no two refreshes ever
\* overlapped, the rollup of a program with a run counts at least every row its
\* tables still hold.  Over a pool a run's row may be written after its refresh
\* has read: nothing is claimed then.
QuietMeansCounted ==
  (\A f \in Refreshes : Idle(f)) /\ ~overlap /\ ~pooled /\ faults = 0 /\ summary.exists =>
    /\ summary.reached >= Cardinality(events)
    /\ summary.sent >= Cardinality({d \in Runs : run[d] = "completed"})

\* Both: counters are neither above the truth nor, when all is quiet, below it.
CountsHold == NeverInflated /\ QuietMeansCounted

\* "Counters never move backwards": not even when the rows behind them are
\* pruned, a statement fails or the process restarts, as long as no two
\* refreshes overlapped.
NeverBackwardsAlone ==
  [][\/ overlap'
     \/ summary'.reached >= summary.reached /\ summary'.sent >= summary.sent]_vars

\* The same without the exception, which the code does not meet: of two
\* refreshes that overlap, the one that read less may write last.
NeverBackwards ==
  [][summary'.reached >= summary.reached /\ summary'.sent >= summary.sent]_vars
=============================================================================
