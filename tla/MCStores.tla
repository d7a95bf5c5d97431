------------------------------- MODULE MCStores -------------------------------
(***************************************************************************)
(* Durable stores behind the events and those who read them, in one        *)
(* instance: the campaign rollup (CampaignSummary), the callback registry  *)
(* (CallbackRegistry), the program of a campaign (Programs), and the lists *)
(* of the console and the data plane (Console).  They share the database   *)
(* and no variable, so a behaviour steps the part it chose at the start    *)
(* and leaves the others where they began.                                 *)
(***************************************************************************)
EXTENDS CampaignSummary, TLC

CONSTANTS
  p1, p2, d1, d2, f1, f2, u1, u2, c1, c2, k1,
  Campaigns, Urls, Readers, WarmLimit, KeepDays, MaxPending, MaxRegistryFaults,
  w1, w2, e1, e2, e3, l1, l2,
  Wires, Dispatches, Payload, Lookups, CacheMax, Mapped, Queued, PageSize, MaxProgramFaults,
  Lists, RowIds, Owners, EventMarks, PageLimit, TimelineLimit, MaxNow, MaxWrites, MaxIssued

VARIABLES
  part,
  cache, latest, table, writes, reader, registryFaults, given, silent, unused, lost, raced,
  programs, programCache, recording, lookup, programFaults, overlapped, stored, backfill,
  list, now, listed, view, timer, asked, issued, pages, written, steady, tangled, torn, gone

R == INSTANCE CallbackRegistry
       WITH Pooled <- TRUE, MaxFaults <- MaxRegistryFaults, faults <- registryFaults

\* Two steps of one drip, one of them dispatched by an older sender as well.
MCPayload ==
  (e1 :> [wire |-> w1, program |-> "drip"]) @@ (e2 :> [wire |-> w1, program |-> "none"])
    @@ (e3 :> [wire |-> w2, program |-> "drip"])

\* Three rows of one instant across a page, a row of no campaign, an event queued twice.
MCQueued ==
  {[ts |-> 1, id |-> 1, key |-> "a", wire |-> w1], [ts |-> 1, id |-> 2, key |-> "none", wire |-> "none"],
   [ts |-> 1, id |-> 3, key |-> "b", wire |-> w2], [ts |-> 2, id |-> 2, key |-> "a", wire |-> w1],
   [ts |-> 2, id |-> 4, key |-> "c", wire |-> w1]}

MCMapped == {[w \in Wires |-> "none"], [w \in Wires |-> IF w = w1 THEN "drip" ELSE "none"]}

P == INSTANCE Programs

C == INSTANCE Console WITH rows <- listed

ASSUME StoresAssumption ==
  R!NameAssumption /\ R!KeepAssumption /\ R!BoundAssumption /\ P!ProgramAssumption /\ C!ConsoleAssumption

MCSymmetry == Permutations(People) \cup Permutations(Runs) \cup Permutations(Refreshes)
                \cup Permutations(Urls)

registry == <<cache, latest, table, writes, reader, registryFaults, given, silent, unused, lost, raced>>
program == <<programs, programCache, recording, lookup, programFaults, overlapped, stored, backfill>>
console == <<list, now, listed, view, timer, asked, issued, pages, written, steady, tangled, torn, gone>>

\* A part that was not chosen has one initial state.
MCInit ==
  /\ part \in {"summary", "registry", "programs", "console"}
  /\ Init /\ R!Init /\ P!ProgramInit /\ C!ConsoleInit
  /\ part # "summary" => ~pooled /\ backfilled = "no"
  /\ part # "programs" => (\A w \in Wires : programs[w] = "none") /\ \A l \in Lookups : lookup[l].wire = w1
  /\ part # "console" => list = CHOOSE one \in Lists : TRUE

MCNext ==
  \/ part = "summary" /\ Next /\ UNCHANGED <<part, registry, program, console>>
  \/ part = "registry" /\ R!Next /\ UNCHANGED <<part, vars, program, console>>
  \/ part = "programs" /\ P!ProgramNext /\ UNCHANGED <<part, vars, registry, console>>
  \/ part = "console" /\ C!ConsoleNext /\ UNCHANGED <<part, vars, registry, program>>

MCSpec == MCInit /\ [][MCNext]_<<part, vars, registry, program, console>>

\* What is answered from a cache is what the table says, short of a race, also after
\* a restart: the analytics URL of a campaign is the one of its last dispatch
\* (campaign-callback-registry.ts); the program of a send is its row, a miss is looked
\* up again, and the history a first boot copies resolves through the same map
\* (dispatch-programs.ts, campaign-events-backfill.ts).
CachesHold ==
  /\ part = "registry" => R!StaleOnlyIfRaced /\ R!RestartKeepsCorrelation
  /\ part = "programs" => P!ProgramsSound

\* The list shows what the table says under the filter that is picked, its chips and
\* the detail agree with it, and no page skips a row (admin/api, dataplane).
ConsoleHolds == part = "console" => C!ConsoleSound /\ C!PagesMissNothing
-----------------------------------------------------------------------------
(* Statements the code does not meet, each false in this instance; so is     *)
(* NeverBackwards of CampaignSummary.                                        *)
CacheBounded == part = "programs" => P!CacheBounded
FreshAnswers == part = "programs" => P!FreshAnswers
TabShowsWhatIsPicked == part = "console" => C!TabShowsWhatIsPicked
DetailAgrees == part = "console" => C!DetailAgrees
PagesMissNothingEver == part = "console" => C!PagesMissNothingEver
=============================================================================
