---------------------------- MODULE StoresProofs ----------------------------
(***************************************************************************)
(* What TLAPS proves of the stores that MCStores has, for constants of any *)
(* size.  CampaignSummary: the counters never exceed what happened, are    *)
(* complete when all is quiet, and never fall unless two refreshes         *)
(* overlapped.  CallbackRegistry: a cached URL is the one of the last      *)
(* dispatch, short of a race, and a restart keeps it.  Programs: the cache *)
(* says what the table says, and the first boot's copy leaves nothing out. *)
(* Console: a clean walk of a tab misses and repeats nothing, and numbered *)
(* pages turned to the end give every row that was there all along.        *)
(***************************************************************************)
EXTENDS MCStores, Sequences, SequenceTheorems, WellFoundedInduction, FiniteSetTheorems, TLAPS

USE DEF sources, history

Completed == {d \in Runs : run[d] = "completed"}

\* What is counted has happened.
CountedHappened ==
  /\ events \subseteq happened /\ Completed \subseteq completed /\ unwritten \subseteq completed
  /\ ~pooled => unwritten = {}

\* Neither the row nor what a refresh has read exceeds what happened.
Bounded ==
  /\ summary.reached <= Cardinality(happened) /\ summary.sent <= Cardinality(completed)
  /\ \A f \in Refreshes :
       /\ seen[f].reached <= Cardinality(happened) /\ seen[f].stored.reached <= Cardinality(happened)
       /\ seen[f].sent <= Cardinality(completed) /\ seen[f].stored.sent <= Cardinality(completed)

\* Until two refreshes overlap, the one under way has the row as it is.
ReadIsFresh ==
  ~overlap =>
    /\ \A f, g \in Refreshes : ~Idle(f) /\ ~Idle(g) => f = g
    /\ \A f \in Refreshes : ~Idle(f) /\ "stored" \notin reads[f] => seen[f].stored = summary

\* Without a pool and faults it also has counted every row there is.
ReadIsComplete ==
  ~overlap /\ ~pooled /\ faults = 0 =>
    \A f \in Refreshes : ~Idle(f) =>
      /\ "funnel" \notin reads[f] => seen[f].reached >= Cardinality(events)
      /\ "runs" \notin reads[f] => seen[f].sent >= Cardinality(Completed)

SummaryInv ==
  TypeOK /\ CountedHappened /\ Bounded /\ ReadIsFresh /\ ReadIsComplete /\ QuietMeansCounted

Steps == {"runs", "funnel", "stored"}
Seen == [known : BOOLEAN, sent : 0 .. Cardinality(Runs), reached : 0 .. Cardinality(People), stored : Row]

-----------------------------------------------------------------------------
\* Counting: a part is no larger than the whole.
LEMMA PeopleSize ==
  ASSUME NEW S \in SUBSET People
  PROVE  /\ Cardinality(S) \in 0 .. Cardinality(People) /\ Cardinality(S) \in Nat
         /\ \A T \in SUBSET S : Cardinality(T) \in Nat /\ Cardinality(T) <= Cardinality(S)
<1>1. IsFiniteSet(People) /\ IsFiniteSet(S) /\ Cardinality(S) <= Cardinality(People)
  BY SizeAssumption, FS_Subset
<1>2. Cardinality(S) \in Nat /\ Cardinality(People) \in Nat
  BY <1>1, FS_CardinalityType
<1>3. ASSUME NEW T \in SUBSET S PROVE Cardinality(T) \in Nat /\ Cardinality(T) <= Cardinality(S)
  BY <1>1, FS_Subset, FS_CardinalityType
<1>4. QED BY <1>1, <1>2, <1>3

LEMMA RunsSize ==
  ASSUME NEW S \in SUBSET Runs
  PROVE  /\ Cardinality(S) \in 0 .. Cardinality(Runs) /\ Cardinality(S) \in Nat
         /\ \A T \in SUBSET S : Cardinality(T) \in Nat /\ Cardinality(T) <= Cardinality(S)
<1>1. IsFiniteSet(Runs) /\ IsFiniteSet(S) /\ Cardinality(S) <= Cardinality(Runs)
  BY SizeAssumption, FS_Subset
<1>2. Cardinality(S) \in Nat /\ Cardinality(Runs) \in Nat
  BY <1>1, FS_CardinalityType
<1>3. ASSUME NEW T \in SUBSET S PROVE Cardinality(T) \in Nat /\ Cardinality(T) <= Cardinality(S)
  BY <1>1, FS_Subset, FS_CardinalityType
<1>4. QED BY <1>1, <1>2, <1>3

\* Keep is the larger of the two.
LEMMA KeepType ==
  ASSUME NEW a \in Nat, NEW b \in Nat
  PROVE  Keep(a, b) \in {a, b} /\ Keep(a, b) >= a /\ Keep(a, b) >= b
<1>1. \E x \in {a, b} : \A y \in {a, b} : x >= y
  <2>1. CASE a >= b
    BY <2>1
  <2>2. CASE ~(a >= b)
    BY <2>2
  <2>3. QED BY <2>1, <2>2
<1>2. Keep(a, b) \in {a, b} /\ \A y \in {a, b} : Keep(a, b) >= y
  BY <1>1 DEF Keep, Max
<1>3. QED BY <1>2

\* A row that was never written, and a refresh that has read nothing.
LEMMA UnseenType == NoRow \in Row /\ Unseen \in Seen
<1>1. 0 \in 0 .. Cardinality(People) /\ 0 \in 0 .. Cardinality(Runs)
  BY SizeAssumption, FS_CardinalityType
<1>2. NoRow \in Row
  BY <1>1 DEF NoRow, Row
<1>3. QED BY <1>1, <1>2 DEF Unseen, Seen

\* The counters of a state that has its types are numbers.
LEMMA Numbers ==
  ASSUME TypeOK
  PROVE  /\ Cardinality(events) \in Nat /\ Cardinality(happened) \in Nat
         /\ Cardinality(completed) \in Nat /\ Cardinality(Completed) \in Nat
         /\ summary.reached \in Nat /\ summary.sent \in Nat /\ summary.exists \in BOOLEAN
         /\ \A f \in Refreshes :
              /\ seen[f] \in Seen /\ seen[f].reached \in Nat /\ seen[f].sent \in Nat
              /\ seen[f].stored \in Row /\ seen[f].stored.reached \in Nat /\ seen[f].stored.sent \in Nat
<1>1. Cardinality(events) \in Nat /\ Cardinality(happened) \in Nat
  BY PeopleSize DEF TypeOK
<1>2. Cardinality(completed) \in Nat /\ Cardinality(Completed) \in Nat
  BY RunsSize DEF TypeOK, Completed
<1>3. Cardinality(People) \in Nat /\ Cardinality(Runs) \in Nat
  BY SizeAssumption, FS_CardinalityType
<1>4. summary \in Row /\ \A f \in Refreshes : seen[f] \in Seen
  BY DEF TypeOK, Seen
<1>5. \A x \in Row : x.reached \in Nat /\ x.sent \in Nat /\ x.exists \in BOOLEAN
  BY <1>3 DEF Row
<1>6. \A x \in Seen : x.stored \in Row /\ x.reached \in Nat /\ x.sent \in Nat
  BY <1>3 DEF Seen
<1>7. QED BY <1>1, <1>2, <1>4, <1>5, <1>6

\* A refresh is idle or has some of its three reads to do.
LEMMA ReadsType ==
  ASSUME TypeOK, NEW f \in Refreshes
  PROVE  /\ ~Idle(f) => reads[f] \in SUBSET Steps
         /\ reads[f] \in SUBSET Steps => ~Idle(f)
<1>1. reads[f] \in (SUBSET Steps) \cup {{"idle"}}
  BY DEF TypeOK, Steps
<1>2. "idle" \notin Steps
  BY DEF Steps
<1>3. QED BY <1>1, <1>2 DEF Idle

\* The bounds only move up: what was below them stays below.
LEMMA BoundsStep ==
  ASSUME SummaryInv, happened' \in SUBSET People, completed' \in SUBSET Runs,
         happened \subseteq happened', completed \subseteq completed',
         UNCHANGED summary, \A f \in Refreshes : seen'[f] \in {seen[f], Unseen}
  PROVE  Bounded'
<1>1. Cardinality(happened) <= Cardinality(happened') /\ Cardinality(happened') \in Nat
  BY PeopleSize
<1>2. Cardinality(completed) <= Cardinality(completed') /\ Cardinality(completed') \in Nat
  BY RunsSize
<1>3. /\ summary.reached <= Cardinality(happened') /\ summary.sent <= Cardinality(completed')
      /\ \A f \in Refreshes :
           /\ seen[f].reached <= Cardinality(happened') /\ seen[f].stored.reached <= Cardinality(happened')
           /\ seen[f].sent <= Cardinality(completed') /\ seen[f].stored.sent <= Cardinality(completed')
  BY <1>1, <1>2, Numbers DEF SummaryInv, Bounded
<1>4. ASSUME NEW f \in Refreshes
      PROVE  /\ seen'[f].reached <= Cardinality(happened') /\ seen'[f].stored.reached <= Cardinality(happened')
             /\ seen'[f].sent <= Cardinality(completed') /\ seen'[f].stored.sent <= Cardinality(completed')
  <2>1. CASE seen'[f] = seen[f]
    BY <2>1, <1>3
  <2>2. CASE seen'[f] = Unseen
    BY <2>2, <1>1, <1>2 DEF Unseen, NoRow
  <2>3. QED BY <2>1, <2>2
<1>5. QED BY <1>3, <1>4 DEF Bounded

-----------------------------------------------------------------------------
\* A new refresh has read nothing, and unless it overlaps it is the only one.
LEMMA RefreshTypes ==
  ASSUME SummaryInv, NEW f \in Refreshes, Refresh(f)
  PROVE  /\ reads' \in [Refreshes -> (SUBSET Steps) \cup {{"idle"}}] /\ seen' \in [Refreshes -> Seen]
         /\ overlap' \in BOOLEAN
         /\ \A g \in Refreshes : seen'[g] \in {seen[g], Unseen}
<1>1. /\ reads \in [Refreshes -> (SUBSET Steps) \cup {{"idle"}}] /\ seen \in [Refreshes -> Seen]
      /\ overlap \in BOOLEAN
  BY DEF SummaryInv, TypeOK, Steps, Seen
<1>2. /\ reads' = [reads EXCEPT ![f] = Steps] /\ seen' = [seen EXCEPT ![f] = Unseen]
      /\ overlap' = (overlap \/ \E g \in Refreshes \ {f} : ~Idle(g))
  BY DEF Refresh, Steps
<1>3. QED BY <1>1, <1>2, UnseenType

LEMMA RefreshReads ==
  ASSUME SummaryInv, NEW f \in Refreshes, Refresh(f)
  PROVE  ReadIsFresh' /\ ReadIsComplete' /\ QuietMeansCounted'
<1>1. reads \in [Refreshes -> (SUBSET Steps) \cup {{"idle"}}]
  BY DEF SummaryInv, TypeOK, Steps
<1>2. reads' = [reads EXCEPT ![f] = Steps] /\ Idle(f)
  BY DEF Refresh, Steps
<1>3. reads'[f] = Steps /\ "runs" \in Steps /\ "funnel" \in Steps /\ "stored" \in Steps /\ "idle" \notin Steps
  BY <1>1, <1>2 DEF Steps
<1>4. ASSUME ~overlap', NEW g \in Refreshes, ~Idle(g)' PROVE g = f
  <2>1. SUFFICES ASSUME g # f PROVE FALSE
    OBVIOUS
  <2>2. Idle(g)
    BY <1>4, <2>1 DEF Refresh
  <2>3. reads'[g] = reads[g]
    BY <1>1, <1>2, <2>1
  <2>4. QED BY <1>4, <2>2, <2>3 DEF Idle
<1>5. ReadIsFresh'
  BY <1>3, <1>4 DEF ReadIsFresh
<1>6. ReadIsComplete'
  BY <1>3, <1>4 DEF ReadIsComplete
<1>7. ~Idle(f)'
  BY <1>3 DEF Idle
<1>8. QuietMeansCounted'
  BY <1>7 DEF QuietMeansCounted
<1>9. QED BY <1>5, <1>6, <1>8

LEMMA PersistStep ==
  ASSUME SummaryInv, UNCHANGED pooled, NEW p \in People, NEW f \in Refreshes, Persist(p, f)
  PROVE  SummaryInv'
<1>1. Refresh(f) /\ UNCHANGED <<run, unwritten, summary, backfilled, faults, completed>>
  BY DEF Persist
<1>2. events' = events \cup {p} /\ happened' = happened \cup {p}
  BY DEF Persist
<1>3. TypeOK'
  BY <1>1, <1>2, RefreshTypes DEF SummaryInv, TypeOK, Steps, Seen
<1>4. CountedHappened'
  BY <1>1, <1>2 DEF SummaryInv, CountedHappened, Completed
<1>5. Bounded'
  <2>1. happened' \in SUBSET People /\ completed' \in SUBSET Runs
    BY <1>3 DEF TypeOK
  <2>2. QED BY <1>1, <1>2, <2>1, RefreshTypes, BoundsStep
<1>6. QED BY <1>1, <1>3, <1>4, <1>5, RefreshReads DEF SummaryInv

LEMMA CompleteRunStep ==
  ASSUME SummaryInv, UNCHANGED pooled, NEW d \in Runs, NEW f \in Refreshes, CompleteRun(d, f)
  PROVE  SummaryInv'
<1>1. Refresh(f) /\ UNCHANGED <<events, summary, backfilled, faults, happened>>
  BY DEF CompleteRun
<1>2. completed' = completed \cup {d}
  BY DEF CompleteRun
<1>3. \/ pooled /\ unwritten' = unwritten \cup {d} /\ UNCHANGED run
      \/ run' = [run EXCEPT ![d] = "completed"] /\ UNCHANGED unwritten
  BY DEF CompleteRun
<1>4. TypeOK'
  BY <1>1, <1>2, <1>3, RefreshTypes DEF SummaryInv, TypeOK, Steps, Seen
<1>5. CountedHappened'
  <2>1. Completed' \subseteq Completed \cup {d}
    BY <1>3 DEF Completed, SummaryInv, TypeOK
  <2>2. QED BY <1>1, <1>2, <1>3, <2>1 DEF SummaryInv, CountedHappened
<1>6. Bounded'
  <2>1. happened' \in SUBSET People /\ completed' \in SUBSET Runs
    BY <1>4 DEF TypeOK
  <2>2. QED BY <1>1, <1>2, <2>1, RefreshTypes, BoundsStep
<1>7. QED BY <1>1, <1>4, <1>5, <1>6, RefreshReads DEF SummaryInv

\* Steps that leave the refreshes alone and add no row a refresh must count.
LEMMA RowsStep ==
  ASSUME SummaryInv, TypeOK', CountedHappened',
         UNCHANGED <<pooled, reads, seen, overlap, summary, happened, completed>>,
         \/ pooled \/ (events' \subseteq events /\ Completed' \subseteq Completed /\ UNCHANGED faults)
  PROVE  SummaryInv'
<1>1. Bounded' /\ ReadIsFresh'
  BY DEF SummaryInv, Bounded, ReadIsFresh, Idle
<1>2. CASE pooled
  BY <1>1, <1>2 DEF SummaryInv, ReadIsComplete, QuietMeansCounted
<1>3. CASE events' \subseteq events /\ Completed' \subseteq Completed /\ UNCHANGED faults
  <2>1. events \in SUBSET People /\ Completed \in SUBSET Runs
    BY DEF SummaryInv, TypeOK, Completed
  <2>2. /\ Cardinality(events') <= Cardinality(events) /\ Cardinality(Completed') <= Cardinality(Completed)
        /\ Cardinality(events') \in Nat /\ Cardinality(Completed') \in Nat
        /\ Cardinality(events) \in Nat /\ Cardinality(Completed) \in Nat
    BY <1>3, <2>1, PeopleSize, RunsSize
  <2>3. ReadIsComplete'
    <3>1. \A f \in Refreshes : seen[f].reached \in Nat /\ seen[f].sent \in Nat
      BY Numbers DEF SummaryInv
    <3>2. QED BY <1>3, <2>2, <3>1 DEF SummaryInv, ReadIsComplete, Idle
  <2>4. QuietMeansCounted'
    <3>1. summary.reached \in Nat /\ summary.sent \in Nat
      BY Numbers DEF SummaryInv
    <3>2. QED BY <1>3, <2>2, <3>1 DEF SummaryInv, QuietMeansCounted, Completed, Idle
  <2>5. QED BY <1>1, <2>3, <2>4 DEF SummaryInv
<1>4. QED BY <1>2, <1>3

LEMMA AcceptRunStep ==
  ASSUME SummaryInv, UNCHANGED pooled, NEW d \in Runs, AcceptRun(d)
  PROVE  SummaryInv'
<1>1. TypeOK'
  BY DEF AcceptRun, SummaryInv, TypeOK
<1>2. Completed' \subseteq Completed
  BY DEF AcceptRun, Completed, SummaryInv, TypeOK
<1>3. CountedHappened'
  BY <1>2 DEF AcceptRun, SummaryInv, CountedHappened
<1>4. QED BY <1>1, <1>2, <1>3, RowsStep DEF AcceptRun

LEMMA WriteRunStep ==
  ASSUME SummaryInv, UNCHANGED pooled, NEW d \in Runs, WriteRun(d)
  PROVE  SummaryInv'
<1>1. pooled /\ d \in completed
  BY DEF WriteRun, SummaryInv, CountedHappened
<1>2. TypeOK'
  BY DEF WriteRun, SummaryInv, TypeOK
<1>3. CountedHappened'
  <2>1. Completed' \subseteq Completed \cup {d}
    BY DEF WriteRun, Completed, SummaryInv, TypeOK
  <2>2. QED BY <1>1, <2>1 DEF WriteRun, SummaryInv, CountedHappened
<1>4. QED BY <1>1, <1>2, <1>3, RowsStep DEF WriteRun

LEMMA PruneEventStep ==
  ASSUME SummaryInv, UNCHANGED pooled, NEW p \in People, PruneEvent(p)
  PROVE  SummaryInv'
<1>1. TypeOK'
  BY DEF PruneEvent, SummaryInv, TypeOK
<1>2. Completed' \subseteq Completed /\ events' \subseteq events
  BY DEF PruneEvent, Completed
<1>3. CountedHappened'
  BY <1>2 DEF PruneEvent, SummaryInv, CountedHappened
<1>4. QED BY <1>1, <1>2, <1>3, RowsStep DEF PruneEvent

LEMMA PruneRunStep ==
  ASSUME SummaryInv, UNCHANGED pooled, NEW d \in Runs, PruneRun(d)
  PROVE  SummaryInv'
<1>1. TypeOK'
  BY DEF PruneRun, SummaryInv, TypeOK
<1>2. Completed' \subseteq Completed
  BY DEF PruneRun, Completed, SummaryInv, TypeOK
<1>3. CountedHappened'
  BY <1>2 DEF PruneRun, SummaryInv, CountedHappened
<1>4. QED BY <1>1, <1>2, <1>3, RowsStep DEF PruneRun

-----------------------------------------------------------------------------
\* One query of a refresh answers: with what the tables and the row hold now.
LEMMA ReadStep ==
  ASSUME SummaryInv, NEW f \in Refreshes, NEW q \in Steps, q \in reads[f],
         reads' = [reads EXCEPT ![f] = @ \ {q}],
         seen' = [seen EXCEPT ![f] = seen'[f]], seen'[f] \in Seen,
         UNCHANGED <<pooled, sources, summary, backfilled, faults, history>>,
         q # "runs" => seen'[f].sent = seen[f].sent,
         q = "runs" => seen'[f].sent = Cardinality(Completed),
         q # "funnel" => seen'[f].reached = seen[f].reached,
         q = "funnel" => seen'[f].reached = Cardinality(events),
         q # "stored" => seen'[f].stored = seen[f].stored,
         q = "stored" => seen'[f].stored = summary
  PROVE  SummaryInv'
<1>1. reads[f] \in SUBSET Steps /\ ~Idle(f)
  <2>1. reads[f] \in (SUBSET Steps) \cup {{"idle"}} /\ "idle" \notin Steps
    BY DEF SummaryInv, TypeOK, Steps
  <2>2. QED BY <2>1 DEF Idle
<1>2. TypeOK'
  BY <1>1 DEF SummaryInv, TypeOK, Steps, Seen
<1>3. CountedHappened'
  BY DEF SummaryInv, CountedHappened, Completed
<1>4. reads'[f] = reads[f] \ {q} /\ \A g \in Refreshes \ {f} : reads'[g] = reads[g] /\ seen'[g] = seen[g]
  BY DEF SummaryInv, TypeOK
<1>5. ~Idle(f)'
  BY <1>1, <1>4 DEF Idle, Steps
<1>6. \A g \in Refreshes : Idle(g)' <=> Idle(g)
  BY <1>1, <1>4, <1>5 DEF Idle
<1>7. Bounded'
  <2>1. /\ Cardinality(Completed) <= Cardinality(completed) /\ Cardinality(events) <= Cardinality(happened)
    <3>1. completed \in SUBSET Runs /\ Completed \in SUBSET completed
      BY DEF SummaryInv, TypeOK, CountedHappened
    <3>2. happened \in SUBSET People /\ events \in SUBSET happened
      BY DEF SummaryInv, TypeOK, CountedHappened
    <3>3. QED BY <3>1, <3>2, PeopleSize, RunsSize
  <2>2. /\ seen'[f].reached <= Cardinality(happened) /\ seen'[f].sent <= Cardinality(completed)
        /\ seen'[f].stored.reached <= Cardinality(happened) /\ seen'[f].stored.sent <= Cardinality(completed)
    BY <2>1 DEF SummaryInv, Bounded
  <2>3. QED BY <1>4, <2>2 DEF SummaryInv, Bounded
<1>8. ReadIsFresh'
  BY <1>4, <1>6 DEF SummaryInv, ReadIsFresh
<1>9. ReadIsComplete'
  <2>1. Cardinality(events) >= Cardinality(events) /\ Cardinality(Completed) >= Cardinality(Completed)
    BY Numbers DEF SummaryInv
  <2>2. Completed' = Completed
    BY DEF Completed
  <2>3. SUFFICES ASSUME ~overlap, ~pooled, faults = 0, NEW g \in Refreshes, ~Idle(g)
                 PROVE  /\ "funnel" \notin reads'[g] => seen'[g].reached >= Cardinality(events)
                        /\ "runs" \notin reads'[g] => seen'[g].sent >= Cardinality(Completed)
    BY <1>6, <2>2 DEF ReadIsComplete
  <2>4. /\ "funnel" \notin reads[g] => seen[g].reached >= Cardinality(events)
        /\ "runs" \notin reads[g] => seen[g].sent >= Cardinality(Completed)
    BY <2>3 DEF SummaryInv, ReadIsComplete
  <2>5. QED BY <1>4, <2>1, <2>4
<1>10. QuietMeansCounted'
  BY <1>1, <1>6 DEF QuietMeansCounted
<1>11. QED BY <1>2, <1>3, <1>7, <1>8, <1>9, <1>10 DEF SummaryInv

LEMMA ReadRunsStep ==
  ASSUME SummaryInv, UNCHANGED pooled, NEW f \in Refreshes, ReadRuns(f)
  PROVE  SummaryInv'
<1>1. seen \in [Refreshes -> Seen] /\ Cardinality(Completed) \in 0 .. Cardinality(Runs)
  BY RunsSize DEF SummaryInv, TypeOK, Seen, Completed
<1>2. seen' = [seen EXCEPT ![f] = [@ EXCEPT
               !.known = \E d \in Runs : run[d] \in {"accepted", "completed"},
               !.sent = Cardinality(Completed)]]
  BY <1>1 DEF ReadRuns, Completed, Seen
<1>3. /\ seen'[f] \in Seen /\ seen'[f].sent = Cardinality(Completed)
      /\ seen'[f].reached = seen[f].reached /\ seen'[f].stored = seen[f].stored
      /\ seen' = [seen EXCEPT ![f] = seen'[f]]
  BY <1>1, <1>2 DEF Seen
<1>4. "runs" \in Steps /\ "runs" # "funnel" /\ "runs" # "stored"
  BY DEF Steps
<1>5. QED BY <1>3, <1>4, ReadStep DEF ReadRuns

LEMMA ReadFunnelStep ==
  ASSUME SummaryInv, UNCHANGED pooled, NEW f \in Refreshes, ReadFunnel(f)
  PROVE  SummaryInv'
<1>1. seen \in [Refreshes -> Seen] /\ Cardinality(events) \in 0 .. Cardinality(People)
  BY PeopleSize DEF SummaryInv, TypeOK, Seen
<1>2. seen' = [seen EXCEPT ![f] = [@ EXCEPT !.reached = Cardinality(events)]]
  BY <1>1 DEF ReadFunnel
<1>3. /\ seen'[f] \in Seen /\ seen'[f].reached = Cardinality(events)
      /\ seen'[f].sent = seen[f].sent /\ seen'[f].stored = seen[f].stored
      /\ seen' = [seen EXCEPT ![f] = seen'[f]]
  BY <1>1, <1>2 DEF Seen
<1>4. "funnel" \in Steps /\ "funnel" # "runs" /\ "funnel" # "stored"
  BY DEF Steps
<1>5. QED BY <1>3, <1>4, ReadStep DEF ReadFunnel

LEMMA ReadStoredStep ==
  ASSUME SummaryInv, UNCHANGED pooled, NEW f \in Refreshes, ReadStored(f)
  PROVE  SummaryInv'
<1>1. seen \in [Refreshes -> Seen] /\ summary \in Row
  BY DEF SummaryInv, TypeOK, Seen
<1>2. seen' = [seen EXCEPT ![f] = [@ EXCEPT !.stored = summary]]
  BY <1>1 DEF ReadStored
<1>3. /\ seen'[f] \in Seen /\ seen'[f].stored = summary
      /\ seen'[f].sent = seen[f].sent /\ seen'[f].reached = seen[f].reached
      /\ seen' = [seen EXCEPT ![f] = seen'[f]]
  BY <1>1, <1>2 DEF Seen
<1>4. "stored" \in Steps /\ "stored" # "runs" /\ "stored" # "funnel"
  BY DEF Steps
<1>5. QED BY <1>3, <1>4, ReadStep DEF ReadStored

-----------------------------------------------------------------------------
\* What an upsert writes: no less than it read, no more than happened.
LEMMA UpsertRow ==
  ASSUME SummaryInv, NEW f \in Refreshes, Upsert(f)
  PROVE  /\ summary' \in Row
         /\ summary'.reached <= Cardinality(happened) /\ summary'.sent <= Cardinality(completed)
         /\ \/ ~seen[f].known /\ ~seen[f].stored.exists /\ summary' = summary
            \/ /\ summary'.reached >= seen[f].stored.reached /\ summary'.reached >= seen[f].reached
               /\ summary'.sent >= seen[f].stored.sent /\ summary'.sent >= seen[f].sent
<1>1. CASE ~(seen[f].known \/ seen[f].stored.exists)
  BY <1>1 DEF Upsert, SummaryInv, TypeOK, Bounded
<1>2. CASE seen[f].known \/ seen[f].stored.exists
  <2> DEFINE reached == Keep(seen[f].stored.reached, seen[f].reached)
             sent == Keep(seen[f].stored.sent, seen[f].sent)
  <2>1. summary' = [exists |-> TRUE, reached |-> reached, sent |-> sent]
    BY <1>2 DEF Upsert
  <2>2. /\ seen[f].stored.reached \in Nat /\ seen[f].reached \in Nat
        /\ seen[f].stored.sent \in Nat /\ seen[f].sent \in Nat
    BY Numbers DEF SummaryInv
  <2>3. reached \in {seen[f].stored.reached, seen[f].reached} /\ sent \in {seen[f].stored.sent, seen[f].sent}
    BY <2>2, KeepType
  <2>4. /\ reached >= seen[f].stored.reached /\ reached >= seen[f].reached
        /\ sent >= seen[f].stored.sent /\ sent >= seen[f].sent
    BY <2>2, KeepType
  <2>5. reached <= Cardinality(happened) /\ sent <= Cardinality(completed)
    BY <2>3 DEF SummaryInv, Bounded
  <2>6. reached \in 0 .. Cardinality(People) /\ sent \in 0 .. Cardinality(Runs)
    <3>1. /\ seen[f].reached \in 0 .. Cardinality(People) /\ seen[f].sent \in 0 .. Cardinality(Runs)
          /\ seen[f].stored \in Row
      BY DEF SummaryInv, TypeOK
    <3>2. /\ seen[f].stored.reached \in 0 .. Cardinality(People)
          /\ seen[f].stored.sent \in 0 .. Cardinality(Runs)
      BY <3>1 DEF Row
    <3>3. QED BY <2>3, <3>1, <3>2
  <2> HIDE DEF reached, sent
  <2>7. summary' \in Row
    BY <2>1, <2>6 DEF Row
  <2>8. summary'.reached = reached /\ summary'.sent = sent
    BY <2>1
  <2>9. QED BY <2>4, <2>5, <2>7, <2>8
<1>3. QED BY <1>1, <1>2

LEMMA UpsertStep ==
  ASSUME SummaryInv, UNCHANGED pooled, NEW f \in Refreshes, Upsert(f)
  PROVE  SummaryInv'
<1>1. /\ reads[f] = {} /\ reads' = [reads EXCEPT ![f] = {"idle"}] /\ seen' = [seen EXCEPT ![f] = Unseen]
      /\ UNCHANGED <<sources, backfilled, faults, history>>
  BY DEF Upsert
<1>2. TypeOK'
  BY <1>1, UpsertRow, UnseenType DEF SummaryInv, TypeOK, Seen
<1>3. CountedHappened'
  BY <1>1 DEF SummaryInv, CountedHappened, Completed
<1>4. \A g \in Refreshes : seen'[g] = seen[g] \/ seen'[g] = Unseen
  BY <1>1 DEF SummaryInv, TypeOK
<1>5. Bounded'
  <2>1. Cardinality(happened) >= 0 /\ Cardinality(completed) >= 0
    BY Numbers DEF SummaryInv
  <2>2. ASSUME NEW g \in Refreshes
        PROVE  /\ seen'[g].reached <= Cardinality(happened) /\ seen'[g].stored.reached <= Cardinality(happened)
               /\ seen'[g].sent <= Cardinality(completed) /\ seen'[g].stored.sent <= Cardinality(completed)
    <3>1. CASE seen'[g] = seen[g]
      BY <3>1 DEF SummaryInv, Bounded
    <3>2. CASE seen'[g] = Unseen
      BY <2>1, <3>2 DEF Unseen, NoRow
    <3>3. QED BY <1>4, <3>1, <3>2
  <2>3. QED BY <1>1, <2>2, UpsertRow DEF Bounded
<1>6. ~Idle(f)
  BY <1>1 DEF Idle
<1>7. ASSUME ~overlap', NEW g \in Refreshes PROVE Idle(g)'
  <2>1. ~Idle(g) => f = g
    BY <1>1, <1>6, <1>7 DEF SummaryInv, ReadIsFresh
  <2>2. QED BY <1>1, <2>1 DEF Idle, SummaryInv, TypeOK
<1>8. ReadIsFresh' /\ ReadIsComplete'
  BY <1>7 DEF ReadIsFresh, ReadIsComplete
<1>9. QuietMeansCounted'
  <2>1. SUFFICES ASSUME ~overlap, ~pooled, faults = 0, summary'.exists
                 PROVE  summary'.reached >= Cardinality(events) /\ summary'.sent >= Cardinality(Completed)
    BY <1>1 DEF QuietMeansCounted, Completed
  <2>2. /\ seen[f].stored = summary
        /\ seen[f].reached >= Cardinality(events) /\ seen[f].sent >= Cardinality(Completed)
    BY <1>1, <1>6, <2>1 DEF SummaryInv, ReadIsFresh, ReadIsComplete
  <2>3. /\ summary'.reached >= seen[f].reached /\ summary'.sent >= seen[f].sent
    BY <2>1, <2>2, UpsertRow
  <2>4. /\ seen[f].reached \in Nat /\ seen[f].sent \in Nat
        /\ Cardinality(events) \in Nat /\ Cardinality(Completed) \in Nat
    BY Numbers DEF SummaryInv
  <2>5. summary'.reached \in Nat /\ summary'.sent \in Nat
    <3>1. Cardinality(People) \in Nat /\ Cardinality(Runs) \in Nat
      BY SizeAssumption, FS_CardinalityType
    <3>2. QED BY <3>1, UpsertRow DEF Row
  <2>6. QED BY <2>2, <2>3, <2>4, <2>5
<1>10. QED BY <1>2, <1>3, <1>5, <1>8, <1>9 DEF SummaryInv

\* After a fault only the counters are claimed to hold, not to be complete.
LEMMA RefreshFailsStep ==
  ASSUME SummaryInv, UNCHANGED pooled, NEW f \in Refreshes, RefreshFails(f)
  PROVE  SummaryInv'
<1>1. /\ reads' = [reads EXCEPT ![f] = {"idle"}] /\ seen' = [seen EXCEPT ![f] = Unseen]
      /\ faults' = faults + 1 /\ backfilled' \in {backfilled, "no"}
      /\ UNCHANGED <<sources, summary, history>>
  BY DEF RefreshFails
<1>2. TypeOK'
  BY <1>1, UnseenType DEF SummaryInv, TypeOK, Seen
<1>3. CountedHappened'
  BY <1>1 DEF SummaryInv, CountedHappened, Completed
<1>4. \A g \in Refreshes : seen'[g] \in {seen[g], Unseen}
  BY <1>1 DEF SummaryInv, TypeOK
<1>5. Bounded'
  BY <1>1, <1>4, BoundsStep DEF SummaryInv, TypeOK
<1>6. ReadIsFresh'
  <2>1. \A g \in Refreshes : Idle(g)' \/ (g # f /\ reads'[g] = reads[g] /\ seen'[g] = seen[g])
    BY <1>1 DEF SummaryInv, TypeOK, Idle
  <2>2. \A g \in Refreshes : ~Idle(g)' => ~Idle(g) /\ reads'[g] = reads[g] /\ seen'[g] = seen[g]
    BY <2>1 DEF Idle
  <2>3. QED BY <1>1, <2>2 DEF SummaryInv, ReadIsFresh
<1>7. faults' # 0
  BY <1>1 DEF SummaryInv, TypeOK
<1>8. ReadIsComplete' /\ QuietMeansCounted'
  BY <1>7 DEF ReadIsComplete, QuietMeansCounted
<1>9. QED BY <1>2, <1>3, <1>5, <1>6, <1>8 DEF SummaryInv

LEMMA RestartStep ==
  ASSUME SummaryInv, UNCHANGED pooled, NEW f \in Refreshes, Restart(f)
  PROVE  SummaryInv'
<1>1. /\ faults' = faults + 1 /\ unwritten' = {} /\ backfilled' \in {"running", "done"}
      /\ seen' = [g \in Refreshes |-> Unseen] /\ UNCHANGED <<events, run, summary, history>>
  BY DEF Restart
<1>2. \/ reads' = [g \in Refreshes |-> IF g = f THEN Steps ELSE {"idle"}]
      \/ reads' = [g \in Refreshes |-> {"idle"}]
  BY DEF Restart, Steps
<1>3. TypeOK'
  <2>1. reads' \in [Refreshes -> (SUBSET Steps) \cup {{"idle"}}]
    BY <1>2
  <2>2. seen' \in [Refreshes -> Seen]
    BY <1>1, UnseenType
  <2>3. QED BY <1>1, <2>1, <2>2 DEF SummaryInv, TypeOK, Steps, Seen
<1>4. CountedHappened'
  BY <1>1 DEF SummaryInv, CountedHappened, Completed
<1>5. Bounded'
  BY <1>1, BoundsStep DEF SummaryInv, TypeOK
<1>6. ReadIsFresh'
  <2>1. \A g \in Refreshes : ~Idle(g)' => g = f /\ reads'[g] = Steps
    BY <1>2 DEF Idle
  <2>2. "stored" \in Steps
    BY DEF Steps
  <2>3. QED BY <2>1, <2>2 DEF ReadIsFresh
<1>7. faults' # 0
  BY <1>1 DEF SummaryInv, TypeOK
<1>8. ReadIsComplete' /\ QuietMeansCounted'
  BY <1>7 DEF ReadIsComplete, QuietMeansCounted
<1>9. QED BY <1>3, <1>4, <1>5, <1>6, <1>8 DEF SummaryInv

\* The flag of the backfill is in no invariant but its type.
LEMMA BackfillStep ==
  ASSUME SummaryInv, UNCHANGED pooled, BackfillEnds
  PROVE  SummaryInv'
<1>1. TypeOK'
  BY DEF BackfillEnds, SummaryInv, TypeOK
<1>2. CountedHappened' /\ Bounded' /\ ReadIsFresh'
  BY DEF BackfillEnds, SummaryInv, CountedHappened, Completed, Bounded, ReadIsFresh, Idle
<1>3. faults' = 0 => faults = 0
  BY DEF BackfillEnds, SummaryInv, TypeOK
<1>4. ReadIsComplete' /\ QuietMeansCounted'
  BY <1>3 DEF BackfillEnds, SummaryInv, ReadIsComplete, QuietMeansCounted, Completed, Idle
<1>5. QED BY <1>1, <1>2, <1>4 DEF SummaryInv

-----------------------------------------------------------------------------
LEMMA InitInv == Init => SummaryInv
<1> SUFFICES ASSUME Init PROVE SummaryInv
  OBVIOUS
<1>2. TypeOK
  BY UnseenType, BoundAssumption DEF Init, TypeOK, Seen
<1>3. CountedHappened
  BY DEF Init, CountedHappened, Completed
<1>4. Bounded
  BY <1>2, Numbers DEF Init, Bounded, Unseen, NoRow
<1>5. \A f \in Refreshes : Idle(f)
  BY DEF Init, Idle
<1>6. ReadIsFresh /\ ReadIsComplete
  BY <1>5 DEF ReadIsFresh, ReadIsComplete
<1>7. QuietMeansCounted
  BY DEF Init, QuietMeansCounted, NoRow
<1>8. QED BY <1>2, <1>3, <1>4, <1>6, <1>7 DEF SummaryInv

LEMMA StutterInv == SummaryInv /\ UNCHANGED vars => SummaryInv'
<1> SUFFICES ASSUME SummaryInv, UNCHANGED vars PROVE SummaryInv'
  OBVIOUS
<1>2. TypeOK' /\ CountedHappened'
  BY DEF vars, SummaryInv, TypeOK, CountedHappened, Completed
<1>3. Bounded' /\ ReadIsFresh'
  BY DEF vars, SummaryInv, Bounded, ReadIsFresh, Idle
<1>4. ReadIsComplete' /\ QuietMeansCounted'
  BY DEF vars, SummaryInv, ReadIsComplete, QuietMeansCounted, Completed, Idle
<1>5. QED BY <1>2, <1>3, <1>4 DEF SummaryInv

LEMMA NextInv == SummaryInv /\ [Next]_vars => SummaryInv'
<1>1. SUFFICES ASSUME SummaryInv, Next PROVE SummaryInv'
  BY StutterInv
<1>2. UNCHANGED pooled
  BY <1>1 DEF Next
<1>3. CASE \E p \in People, f \in Refreshes : Persist(p, f)
  BY <1>1, <1>2, <1>3, PersistStep
<1>4. CASE \E d \in Runs : AcceptRun(d)
  BY <1>1, <1>2, <1>4, AcceptRunStep
<1>5. CASE \E d \in Runs, f \in Refreshes : CompleteRun(d, f)
  BY <1>1, <1>2, <1>5, CompleteRunStep
<1>6. CASE \E d \in Runs : WriteRun(d)
  BY <1>1, <1>2, <1>6, WriteRunStep
<1>7. CASE \E f \in Refreshes : ReadRuns(f)
  BY <1>1, <1>2, <1>7, ReadRunsStep
<1>8. CASE \E f \in Refreshes : ReadFunnel(f)
  BY <1>1, <1>2, <1>8, ReadFunnelStep
<1>9. CASE \E f \in Refreshes : ReadStored(f)
  BY <1>1, <1>2, <1>9, ReadStoredStep
<1>10. CASE \E f \in Refreshes : Upsert(f)
  BY <1>1, <1>2, <1>10, UpsertStep
<1>11. CASE \E f \in Refreshes : RefreshFails(f)
  BY <1>1, <1>2, <1>11, RefreshFailsStep
<1>12. CASE \E p \in People : PruneEvent(p)
  BY <1>1, <1>2, <1>12, PruneEventStep
<1>13. CASE \E d \in Runs : PruneRun(d)
  BY <1>1, <1>2, <1>13, PruneRunStep
<1>14. CASE \E f \in Refreshes : Restart(f)
  BY <1>1, <1>2, <1>14, RestartStep
<1>15. CASE BackfillEnds
  BY <1>1, <1>2, <1>15, BackfillStep
<1>16. QED BY <1>1, <1>3, <1>4, <1>5, <1>6, <1>7, <1>8, <1>9, <1>10, <1>11, <1>12, <1>13, <1>14,
              <1>15
          DEF Next

\* Only an upsert writes the row, and of one refresh alone it read the row it
\* replaces.
LEMMA RowOnlyGrows ==
  ASSUME SummaryInv, [Next]_vars
  PROVE  overlap' \/ (summary'.reached >= summary.reached /\ summary'.sent >= summary.sent)
<1>1. summary.reached \in Nat /\ summary.sent \in Nat
  BY Numbers DEF SummaryInv
<1>2. CASE UNCHANGED summary
  BY <1>1, <1>2
<1>3. ASSUME NEW f \in Refreshes, Upsert(f), ~overlap'
      PROVE  summary'.reached >= summary.reached /\ summary'.sent >= summary.sent
  <2>1. reads[f] = {} /\ ~overlap
    BY <1>3 DEF Upsert
  <2>2. seen[f].stored = summary
    BY <2>1 DEF SummaryInv, ReadIsFresh, Idle
  <2>3. QED BY <1>1, <1>3, <2>2, UpsertRow
<1>4. UNCHANGED summary \/ \E f \in Refreshes : Upsert(f)
  BY DEF Next, vars, Persist, AcceptRun, CompleteRun, WriteRun, ReadRuns, ReadFunnel, ReadStored,
         RefreshFails, PruneEvent, PruneRun, Restart, BackfillEnds
<1>5. QED BY <1>2, <1>3, <1>4

-----------------------------------------------------------------------------
\* Every variable of the rollup keeps its type: refreshCampaignSummary computes
\* no counter outside its range.
THEOREM SummaryTypeCorrect == Spec => []TypeOK
<1>1. SummaryInv => TypeOK
  BY DEF SummaryInv
<1>2. QED BY InitInv, NextInv, <1>1, PTL DEF Spec

\* The counters of campaign_summary never claim more than ever happened, and
\* when nothing is under way, failed or overlapped they count every row there is.
THEOREM CountsCorrect == Spec => []CountsHold
<1>1. ASSUME SummaryInv PROVE CountsHold
  BY <1>1 DEF SummaryInv, Bounded, CountsHold, NeverInflated
<1>2. QED BY InitInv, NextInv, <1>1, PTL DEF Spec

\* "Counters never move backwards" whatever is pruned, fails or restarts, as
\* long as no two refreshes of the program overlapped.
THEOREM OnlyOverlapMovesBack == Spec => NeverBackwardsAlone
<1>1. SummaryInv /\ [Next]_vars =>
        [overlap' \/ (summary'.reached >= summary.reached /\ summary'.sent >= summary.sent)]_vars
  BY RowOnlyGrows
<1>2. QED BY InitInv, NextInv, <1>1, PTL DEF Spec, NeverBackwardsAlone

HIDE DEF sources, history

-----------------------------------------------------------------------------
(* The callback registry.                                                  *)

NoUrl == "none"
Statement == [campaign : Campaigns, url : Urls \cup {NoUrl}]

\* Campaigns with an upsert to come.
Awaited == {w.campaign : w \in R!Upserts}

RegistryTypeOK ==
  /\ cache \in [Campaigns -> Urls \cup {NoUrl}]
  /\ table \in [Campaigns -> [url : Urls \cup {NoUrl}, age : Nat]]
  /\ writes \in Seq(Statement)
  /\ reader \in [Readers -> [of : Campaigns \cup {NoUrl}, pc : {"idle", "query", "fill"},
                             url : Urls \cup {NoUrl}]]
  /\ \A k \in Readers : reader[k].pc = "fill" <=> reader[k].url # NoUrl
  /\ \A k \in Readers : reader[k].pc # "idle" => reader[k].of \in Campaigns
  /\ given \in [Campaigns -> Urls \cup {NoUrl}] /\ silent \in [Campaigns -> Nat]
  /\ \A c \in Campaigns : table[c].url = NoUrl => table[c] = R!Absent

\* What is written, read and cached of a campaign is what its last dispatch gave, and
\* nobody is looking it up while its upsert is to come.
FreshInv ==
  /\ \A w \in R!Upserts : w.campaign \notin raced => w.url = given[w.campaign]
  /\ \A c \in Campaigns \ (lost \cup raced) :
       /\ cache[c] \in {NoUrl, given[c]}
       /\ c \in Awaited => cache[c] # NoUrl /\ \A k \in Readers : reader[k].of # c
       /\ c \notin Awaited => table[c].url \in {NoUrl, given[c]}
       /\ \A k \in Readers : reader[k].of = c /\ reader[k].pc = "fill" => reader[k].url = given[c]

\* The warm load has room for every campaign.
AllWarm == IsFiniteSet(Campaigns) /\ Cardinality(Campaigns) <= WarmLimit

\* A dispatch of the window is in the cache, and in the table unless its upsert is to come.
WindowInv ==
  AllWarm => \A c \in Campaigns \ lost : given[c] # NoUrl /\ silent[c] <= KeepDays =>
    /\ cache[c] # NoUrl
    /\ c \in Awaited \/ (table[c].url # NoUrl /\ table[c].age <= silent[c])

RegistryInv == RegistryTypeOK /\ FreshInv
RestartInv == RegistryInv /\ WindowInv

LEMMA Nothings == R!NoUrl = NoUrl /\ R!Absent = [url |-> NoUrl, age |-> 0] /\ NoUrl \notin Campaigns \cup Urls
                    /\ KeepDays \in Nat \ {0}
BY StoresAssumption DEF R!NameAssumption, R!KeepAssumption, R!NoUrl, R!Absent, NoUrl

\* A statement is appended, or taken out at its turn.
LEMMA Appended ==
  ASSUME writes \in Seq(Statement), NEW w \in Statement, writes' = Append(writes, w)
  PROVE  /\ writes' \in Seq(Statement)
         /\ R!Upserts' = R!Upserts \cup (IF w.url # NoUrl THEN {w} ELSE {})
<1>1. /\ writes' \in Seq(Statement) /\ Len(writes') = Len(writes) + 1 /\ Len(writes) \in Nat
      /\ writes'[Len(writes) + 1] = w /\ \A i \in 1 .. Len(writes) : writes'[i] = writes[i]
  BY AppendProperties
<1>2. DOMAIN writes = 1 .. Len(writes) /\ DOMAIN writes' = 1 .. Len(writes) + 1
  BY <1>1
<1>3. {writes'[i] : i \in DOMAIN writes'} = {writes[i] : i \in DOMAIN writes} \cup {w}
  <2>1. ASSUME NEW i \in 1 .. Len(writes) + 1 PROVE writes'[i] \in {writes[j] : j \in DOMAIN writes} \cup {w}
    BY <1>1, <1>2
  <2>2. ASSUME NEW i \in 1 .. Len(writes) PROVE writes[i] \in {writes'[j] : j \in DOMAIN writes'}
    <3>1. i \in 1 .. Len(writes) + 1 /\ writes'[i] = writes[i]
      BY <1>1
    <3>2. QED
      BY <1>2, <3>1
  <2>3. w \in {writes'[j] : j \in DOMAIN writes'}
    <3>1. Len(writes) + 1 \in DOMAIN writes'
      BY <1>1, <1>2
    <3>2. QED
      BY <1>1, <3>1
  <2>4. QED
    BY <1>2, <2>1, <2>2, <2>3
<1>4. QED
  BY <1>1, <1>3, Nothings DEF R!Upserts, R!ToSet

LEMMA TakenOut ==
  ASSUME writes \in Seq(Statement), NEW i \in DOMAIN writes, writes' = R!RemoveAt(writes, i)
  PROVE  /\ writes' \in Seq(Statement) /\ writes[i] \in Statement
         /\ R!Upserts' \subseteq R!Upserts /\ R!Upserts \subseteq R!Upserts' \cup {writes[i]}
<1> DEFINE n == Len(writes)
<1>1. n \in Nat /\ DOMAIN writes = 1 .. n /\ i \in 1 .. n /\ \A j \in 1 .. n : writes[j] \in Statement
  BY ElementOfSeq, LenProperties
<1>2. /\ writes' \in Seq(Statement) /\ Len(writes') = n - 1
      /\ \A j \in 1 .. n - 1 : writes'[j] = IF j < i THEN writes[j] ELSE writes[j + 1]
  <2> DEFINE a == SubSeq(writes, 1, i - 1)
             b == SubSeq(writes, i + 1, n)
  <2>1. /\ a \in Seq(Statement) /\ Len(a) = i - 1
        /\ \A j \in 1 .. i - 1 : a[j] = writes[j]
    BY <1>1, SubSeqProperties
  <2>2. /\ b \in Seq(Statement) /\ Len(b) = n - i
        /\ \A j \in 1 .. n - i : b[j] = writes[i + j]
    BY <1>1, SubSeqProperties
  <2>3. writes' = a \o b
    BY DEF R!RemoveAt
  <2> HIDE DEF a, b, n
  <2>4. /\ a \o b \in Seq(Statement) /\ Len(a \o b) = Len(a) + Len(b)
        /\ \A j \in 1 .. Len(a) + Len(b) : (a \o b)[j] = IF j <= Len(a) THEN a[j] ELSE b[j - Len(a)]
    BY <2>1, <2>2, ConcatProperties
  <2>5. writes' \in Seq(Statement) /\ Len(writes') = n - 1
    BY <1>1, <2>1, <2>2, <2>3, <2>4
  <2>6. ASSUME NEW j \in 1 .. n - 1 PROVE writes'[j] = IF j < i THEN writes[j] ELSE writes[j + 1]
    <3>1. j \in 1 .. Len(a) + Len(b)
      BY <1>1, <2>1, <2>2
    <3>2. CASE j < i
      <4>1. j \in 1 .. i - 1 /\ j <= Len(a)
        BY <1>1, <2>1, <3>2
      <4>2. QED
        BY <2>1, <2>3, <2>4, <3>1, <3>2, <4>1
    <3>3. CASE ~(j < i)
      <4>1. j - (i - 1) \in 1 .. n - i /\ ~(j <= Len(a)) /\ i + (j - (i - 1)) = j + 1
        BY <1>1, <2>1, <3>3
      <4>2. b[j - (i - 1)] = writes[j + 1]
        BY <2>2, <4>1
      <4>3. QED
        BY <2>1, <2>3, <2>4, <3>1, <3>3, <4>1, <4>2
    <3>4. QED
      BY <3>2, <3>3
  <2>7. QED
    BY <2>5, <2>6
<1> HIDE DEF n
<1>3. DOMAIN writes' = 1 .. n - 1
  BY <1>1, <1>2, LenProperties
<1>4. ASSUME NEW j \in DOMAIN writes' PROVE writes'[j] \in {writes[k] : k \in DOMAIN writes}
  <2>1. j \in 1 .. n /\ j + 1 \in 1 .. n
    BY <1>1, <1>3
  <2>2. QED
    BY <1>1, <1>2, <1>3, <2>1
<1>5. ASSUME NEW j \in DOMAIN writes PROVE writes[j] \in {writes'[k] : k \in DOMAIN writes'} \cup {writes[i]}
  <2>1. CASE j < i
    <3>1. j \in 1 .. n - 1
      BY <1>1, <2>1
    <3>2. writes'[j] = writes[j]
      BY <1>2, <2>1, <3>1
    <3>3. QED
      BY <1>3, <3>1, <3>2
  <2>2. CASE j = i
    BY <2>2
  <2>3. CASE j > i
    <3>1. j - 1 \in 1 .. n - 1 /\ ~(j - 1 < i) /\ (j - 1) + 1 = j
      BY <1>1, <2>3
    <3>2. writes'[j - 1] = writes[j]
      BY <1>2, <3>1
    <3>3. QED
      BY <1>3, <3>1, <3>2
  <2>4. QED
    BY <1>1, <2>1, <2>2, <2>3
<1>6. QED
  BY <1>1, <1>2, <1>4, <1>5 DEF R!Upserts, R!ToSet

LEMMA UpsertsAre ==
  ASSUME writes \in Seq(Statement)
  PROVE  \A w \in R!Upserts : w \in Statement /\ w.campaign \in Campaigns /\ w.url \in Urls
<1>1. DOMAIN writes = 1 .. Len(writes) /\ \A i \in 1 .. Len(writes) : writes[i] \in Statement
  BY ElementOfSeq, LenProperties
<1>2. QED
  BY <1>1, Nothings DEF R!Upserts, R!ToSet, Statement

LEMMA RegistryBase == R!Init => RestartInv
<1> SUFFICES ASSUME R!Init PROVE RestartInv
  OBVIOUS
<1>1. RegistryTypeOK
  BY Nothings, EmptySeq DEF R!Init, RegistryTypeOK, R!Resting
<1>2. R!Upserts = {} /\ Awaited = {}
  BY DEF R!Init, R!Upserts, R!ToSet, Awaited
<1>3. FreshInv /\ WindowInv
  BY <1>2, Nothings DEF R!Init, R!Resting, FreshInv, WindowInv
<1>4. QED
  BY <1>1, <1>3 DEF RestartInv, RegistryInv

LEMMA RegisterStep ==
  ASSUME RestartInv, NEW c \in Campaigns, NEW u \in Urls, R!Register(c, u)
  PROVE  RestartInv'
<1> DEFINE w == R!Upsert(c, u)
<1>1. /\ cache' = [cache EXCEPT ![c] = u] /\ writes' = Append(writes, w)
      /\ given' = [given EXCEPT ![c] = u] /\ silent' = [silent EXCEPT ![c] = 0]
      /\ lost' = lost \ {c} /\ UNCHANGED <<table, reader>>
      /\ raced' = IF c \in Awaited \/ \E k \in Readers : reader[k].of = c
                    THEN raced \cup {c} ELSE raced
  BY DEF R!Register, Awaited, R!history
<1>2. /\ RegistryTypeOK /\ FreshInv /\ WindowInv /\ u # NoUrl
  BY Nothings DEF RestartInv, RegistryInv
<1>3. w \in Statement /\ w.url = u /\ w.campaign = c
  BY DEF R!Upsert, Statement
<1> HIDE DEF w
<1>4. writes' \in Seq(Statement) /\ R!Upserts' = R!Upserts \cup {w} /\ Awaited' = Awaited \cup {c}
  <2>1. writes \in Seq(Statement)
    BY <1>2 DEF RegistryTypeOK
  <2>2. writes' \in Seq(Statement) /\ R!Upserts' = R!Upserts \cup {w}
    BY <1>1, <1>2, <1>3, <2>1, Appended
  <2>3. QED
    BY <1>3, <2>2 DEF Awaited
<1>5. RegistryTypeOK'
  BY <1>1, <1>2, <1>4 DEF RegistryTypeOK
<1>6. /\ cache'[c] = u /\ given'[c] = u
      /\ \A d \in Campaigns \ {c} :
           cache'[d] = cache[d] /\ given'[d] = given[d] /\ silent'[d] = silent[d]
  BY <1>1, <1>2 DEF RegistryTypeOK
<1>7. FreshInv'
  <2>1. ASSUME NEW v \in R!Upserts', v.campaign \notin raced' PROVE v.url = given'[v.campaign]
    <3>1. CASE v.campaign = c
      BY <1>1, <1>3, <1>4, <1>6, <2>1, <3>1 DEF Awaited
    <3>2. CASE v.campaign # c
      <4>1. v \in R!Upserts /\ v.campaign \in Campaigns
        BY <1>2, <1>3, <1>4, <2>1, <3>2, UpsertsAre DEF RegistryTypeOK
      <4>2. QED
        BY <1>1, <1>2, <1>6, <2>1, <3>2, <4>1 DEF FreshInv
    <3>3. QED
      BY <3>1, <3>2
  <2>2. ASSUME NEW d \in Campaigns \ (lost' \cup raced')
        PROVE  /\ cache'[d] \in {NoUrl, given'[d]}
               /\ d \in Awaited' => cache'[d] # NoUrl /\ \A k \in Readers : reader'[k].of # d
               /\ d \notin Awaited' => table'[d].url \in {NoUrl, given'[d]}
               /\ \A k \in Readers : reader'[k].of = d /\ reader'[k].pc = "fill" => reader'[k].url = given'[d]
    <3>1. CASE d = c
      <4>1. \A k \in Readers : reader'[k].of # d
        BY <1>1, <2>2, <3>1
      <4>2. QED
        BY <1>2, <1>4, <1>6, <3>1, <4>1
    <3>2. CASE d # c
      BY <1>1, <1>2, <1>4, <1>6, <2>2, <3>2 DEF FreshInv
    <3>3. QED
      BY <3>1, <3>2
  <2>3. QED
    BY <2>1, <2>2 DEF FreshInv
<1>8. WindowInv'
  BY <1>1, <1>2, <1>4, <1>6 DEF WindowInv
<1>9. QED
  BY <1>5, <1>7, <1>8 DEF RestartInv, RegistryInv

\* A statement at its turn: what it makes of its row, and what is to come after it.
LEMMA ApplyStep ==
  ASSUME RestartInv, NEW i, R!Apply(i)
  PROVE  RestartInv'
<1> DEFINE w == writes[i]
           c == w.campaign
<1>1. /\ i \in DOMAIN writes /\ writes' = R!RemoveAt(writes, i)
      /\ table' = [table EXCEPT ![c] = R!Merged(@, w)]
      /\ UNCHANGED <<cache, reader, given, silent, lost, raced>>
  BY DEF R!Apply, R!Turns, R!history
<1>2. RegistryTypeOK /\ FreshInv /\ WindowInv
  BY DEF RestartInv, RegistryInv
<1>3. /\ writes' \in Seq(Statement) /\ w \in Statement
      /\ R!Upserts' \subseteq R!Upserts /\ R!Upserts \subseteq R!Upserts' \cup {w}
  BY <1>1, <1>2, TakenOut DEF RegistryTypeOK
<1>4. w.url # NoUrl => w \in R!Upserts
  BY <1>1, Nothings DEF R!Upserts, R!ToSet
<1>5. c \in Campaigns /\ w.url \in Urls \cup {NoUrl}
  BY <1>3 DEF Statement
<1> HIDE DEF w
<1>6. Awaited' \subseteq Awaited /\ Awaited \subseteq Awaited' \cup {c} /\ (w.url # NoUrl => c \in Awaited)
  BY <1>3, <1>4 DEF Awaited
<1> HIDE DEF c
<1>7. w.url = NoUrl => R!Upserts' = R!Upserts /\ Awaited' = Awaited
  BY <1>3, Nothings DEF Awaited, R!Upserts
<1>8. /\ \A d \in Campaigns \ {c} : table'[d] = table[d]
      /\ w.url # NoUrl => table'[c] = [url |-> w.url, age |-> 0]
      /\ w.url = NoUrl => \/ table[c] = R!Absent /\ table'[c] = table[c]
                          \/ table[c] # R!Absent /\ table'[c] = [table[c] EXCEPT !.age = 0]
  BY <1>1, <1>2, <1>5, Nothings DEF RegistryTypeOK, R!Merged
<1>9. /\ table'[c] \in [url : Urls \cup {NoUrl}, age : Nat]
      /\ table'[c].url = IF w.url = NoUrl THEN table[c].url ELSE w.url
      /\ table'[c].url # NoUrl => table'[c].age = 0
      /\ table'[c].url = NoUrl => table'[c] = R!Absent
  <2>1. CASE w.url = NoUrl
    BY <1>2, <1>5, <1>8, <2>1, Nothings DEF RegistryTypeOK
  <2>2. CASE w.url # NoUrl
    BY <1>5, <1>8, <2>2
  <2>3. QED
    BY <2>1, <2>2
<1>10. RegistryTypeOK'
  <2>1. table' \in [Campaigns -> [url : Urls \cup {NoUrl}, age : Nat]]
    BY <1>1, <1>2, <1>5, <1>8, <1>9 DEF RegistryTypeOK
  <2>2. \A d \in Campaigns : table'[d].url = NoUrl => table'[d] = R!Absent
    BY <1>2, <1>8, <1>9 DEF RegistryTypeOK
  <2>3. QED
    BY <1>1, <1>2, <1>3, <2>1, <2>2, Nothings DEF RegistryTypeOK
<1>11. FreshInv'
  <2>1. \A v \in R!Upserts' : v.campaign \notin raced' => v.url = given'[v.campaign]
    BY <1>1, <1>2, <1>3 DEF FreshInv
  <2>2. ASSUME NEW d \in Campaigns \ (lost' \cup raced')
        PROVE  /\ cache'[d] \in {NoUrl, given'[d]}
               /\ d \in Awaited' => cache'[d] # NoUrl /\ \A k \in Readers : reader'[k].of # d
               /\ \A k \in Readers : reader'[k].of = d /\ reader'[k].pc = "fill" => reader'[k].url = given'[d]
    BY <1>1, <1>2, <1>6, <2>2 DEF FreshInv
  <2>3. ASSUME NEW d \in Campaigns \ (lost' \cup raced'), d \notin Awaited'
        PROVE  table'[d].url \in {NoUrl, given'[d]}
    <3>1. CASE d = c /\ w.url # NoUrl
      BY <1>1, <1>2, <1>4, <1>9, <2>3, <3>1 DEF FreshInv, c
    <3>2. CASE d # c \/ w.url = NoUrl
      <4>1. d \notin Awaited
        BY <1>6, <1>7, <2>3, <3>2
      <4>2. table[d].url \in {NoUrl, given[d]}
        BY <1>1, <1>2, <2>3, <4>1 DEF FreshInv
      <4>3. table'[d].url = table[d].url
        BY <1>8, <1>9, <3>2
      <4>4. QED
        BY <1>1, <4>2, <4>3
    <3>3. QED
      BY <3>1, <3>2
  <2>4. QED
    BY <2>1, <2>2, <2>3 DEF FreshInv
<1>12. WindowInv'
  <2>1. ASSUME AllWarm, NEW d \in Campaigns \ lost', given'[d] # NoUrl, silent'[d] <= KeepDays, d \notin Awaited'
        PROVE  table'[d].url # NoUrl /\ table'[d].age <= silent'[d]
    <3>1. silent[d] \in Nat /\ (d \in Awaited \/ (table[d].url # NoUrl /\ table[d].age <= silent[d]))
      BY <1>1, <1>2, <2>1 DEF RegistryTypeOK, WindowInv
    <3>2. CASE d = c
      BY <1>1, <1>6, <1>7, <1>9, <2>1, <3>1, <3>2
    <3>3. CASE d # c
      BY <1>1, <1>6, <1>8, <2>1, <3>1, <3>3
    <3>4. QED
      BY <3>2, <3>3
  <2>2. QED
    BY <1>1, <1>2, <2>1 DEF WindowInv
<1>13. QED
  BY <1>10, <1>11, <1>12 DEF RestartInv, RegistryInv

LEMMA DropStep ==
  ASSUME RestartInv, NEW i, R!Drop(i)
  PROVE  RestartInv'
<1> DEFINE w == writes[i]
<1>1. /\ i \in DOMAIN writes /\ writes' = R!RemoveAt(writes, i)
      /\ lost' = (IF w \in R!Upserts THEN lost \cup {w.campaign} ELSE lost)
      /\ UNCHANGED <<cache, table, reader, given, silent, raced>>
  BY DEF R!Drop, R!Turns
<1>2. RegistryTypeOK /\ FreshInv /\ WindowInv
  BY DEF RestartInv, RegistryInv
<1>3. /\ writes' \in Seq(Statement) /\ w \in Statement
      /\ R!Upserts' \subseteq R!Upserts /\ R!Upserts \subseteq R!Upserts' \cup {w}
  BY <1>1, <1>2, TakenOut DEF RegistryTypeOK
<1> HIDE DEF w
<1>4. Awaited' \subseteq Awaited /\ Awaited \ lost' \subseteq Awaited'
  BY <1>1, <1>3 DEF Awaited
<1>5. lost \subseteq lost'
  BY <1>1
<1>6. RegistryTypeOK'
  BY <1>1, <1>2, <1>3, Nothings DEF RegistryTypeOK
<1>7. FreshInv'
  <2>1. \A v \in R!Upserts' : v.campaign \notin raced' => v.url = given'[v.campaign]
    BY <1>1, <1>2, <1>3 DEF FreshInv
  <2>2. \A d \in Campaigns \ (lost' \cup raced') :
          /\ cache'[d] \in {NoUrl, given'[d]}
          /\ d \in Awaited' => cache'[d] # NoUrl /\ \A k \in Readers : reader'[k].of # d
          /\ d \notin Awaited' => table'[d].url \in {NoUrl, given'[d]}
          /\ \A k \in Readers : reader'[k].of = d /\ reader'[k].pc = "fill" => reader'[k].url = given'[d]
    BY <1>1, <1>2, <1>4, <1>5 DEF FreshInv
  <2>3. QED
    BY <2>1, <2>2 DEF FreshInv
<1>8. WindowInv'
  BY <1>1, <1>2, <1>4, <1>5 DEF WindowInv
<1>9. QED
  BY <1>6, <1>7, <1>8 DEF RestartInv, RegistryInv

\* A step that leaves the statements, the table, and what was given as they are.
LEMMA LookedUp ==
  ASSUME RestartInv, UNCHANGED <<table, writes, given, silent, raced, lost>>,
         cache' = cache, reader' \in [Readers -> [of : Campaigns \cup {NoUrl}, pc : {"idle", "query", "fill"},
                                                  url : Urls \cup {NoUrl}]],
         \A k \in Readers :
           \/ reader'[k] = reader[k] \/ reader'[k] = R!Resting
           \/ /\ reader'[k].of \in Campaigns /\ cache[reader'[k].of] = NoUrl
              /\ reader'[k].pc = "query" /\ reader'[k].url = NoUrl
           \/ /\ reader[k].pc = "query" /\ reader'[k].of = reader[k].of /\ reader'[k].pc = "fill"
              /\ reader'[k].url = table[reader[k].of].url /\ reader'[k].url # NoUrl
  PROVE  RestartInv'
<1>1. RegistryTypeOK /\ FreshInv /\ WindowInv
  BY DEF RestartInv, RegistryInv
<1>2. R!Upserts' = R!Upserts /\ Awaited' = Awaited
  BY DEF R!Upserts, Awaited
<1>3. R!Resting = [of |-> NoUrl, pc |-> "idle", url |-> NoUrl]
  BY DEF R!Resting, R!NoUrl, NoUrl
<1>4. RegistryTypeOK'
  BY <1>1, <1>3 DEF RegistryTypeOK
<1>5. ASSUME NEW d \in Campaigns \ (lost \cup raced), NEW k \in Readers
      PROVE  /\ d \in Awaited => reader'[k].of # d
             /\ reader'[k].of = d /\ reader'[k].pc = "fill" => reader'[k].url = given[d]
  <2>1. CASE reader'[k] = reader[k]
    BY <1>1, <1>5, <2>1 DEF FreshInv
  <2>2. CASE reader'[k] = R!Resting
    BY <1>3, <2>2, Nothings
  <2>3. CASE /\ reader'[k].of \in Campaigns /\ cache[reader'[k].of] = NoUrl
             /\ reader'[k].pc = "query" /\ reader'[k].url = NoUrl
    BY <1>1, <1>5, <2>3 DEF FreshInv
  <2>4. CASE /\ reader[k].pc = "query" /\ reader'[k].of = reader[k].of /\ reader'[k].pc = "fill"
             /\ reader'[k].url = table[reader[k].of].url /\ reader'[k].url # NoUrl
    BY <1>1, <1>5, <2>4 DEF FreshInv
  <2>5. QED
    BY <2>1, <2>2, <2>3, <2>4
<1>6. FreshInv'
  BY <1>1, <1>2, <1>5 DEF FreshInv
<1>7. WindowInv'
  BY <1>1, <1>2 DEF WindowInv
<1>8. QED
  BY <1>4, <1>6, <1>7 DEF RestartInv, RegistryInv

LEMMA AskStep ==
  ASSUME RestartInv, NEW k \in Readers, NEW c \in Campaigns, R!Ask(k, c) PROVE RestartInv'
<1>1. RegistryTypeOK
  BY DEF RestartInv, RegistryInv
<1>2. /\ reader' = [reader EXCEPT ![k] = [of |-> c, pc |-> "query", url |-> NoUrl]] /\ cache[c] = NoUrl
      /\ UNCHANGED <<cache, table, writes, given, silent, raced, lost>>
  BY DEF R!Ask, R!history, R!NoUrl, NoUrl
<1>3. QED
  BY <1>1, <1>2, LookedUp DEF RegistryTypeOK

LEMMA QueryStep ==
  ASSUME RestartInv, NEW k \in Readers, R!ReadRow(k) \/ R!AskFails(k) PROVE RestartInv'
<1>1. RegistryTypeOK /\ R!Resting = [of |-> NoUrl, pc |-> "idle", url |-> NoUrl]
  BY DEF RestartInv, RegistryInv, R!Resting, R!NoUrl, NoUrl
<1> DEFINE c == reader[k].of
           row == [of |-> c, pc |-> "fill", url |-> table[c].url]
<1>2. /\ reader[k].pc = "query"
      /\ \/ reader' = [reader EXCEPT ![k] = R!Resting]
         \/ table[c] # R!Absent /\ reader' = [reader EXCEPT ![k] = row]
      /\ UNCHANGED <<cache, table, writes, given, silent, raced, lost>>
  BY DEF R!ReadRow, R!AskFails, R!history, R!Present
<1>3. c \in Campaigns
  BY <1>1, <1>2 DEF RegistryTypeOK
<1>4. CASE reader' = [reader EXCEPT ![k] = R!Resting]
  BY <1>1, <1>2, <1>4, LookedUp DEF RegistryTypeOK
<1>5. CASE table[c] # R!Absent /\ reader' = [reader EXCEPT ![k] = row]
  <2>1. table[c].url \in Urls /\ row.of = c /\ row.pc = "fill" /\ row.url = table[c].url /\ table[c].url # NoUrl
    BY <1>1, <1>3, <1>5, Nothings DEF RegistryTypeOK
  <2>2. row \in [of : Campaigns \cup {NoUrl}, pc : {"idle", "query", "fill"}, url : Urls \cup {NoUrl}]
    BY <1>3, <2>1
  <2> HIDE DEF row
  <2>3. reader'[k] = row /\ \A q \in Readers \ {k} : reader'[q] = reader[q]
    BY <1>1, <1>5 DEF RegistryTypeOK
  <2>4. reader' \in [Readers -> [of : Campaigns \cup {NoUrl}, pc : {"idle", "query", "fill"},
                                 url : Urls \cup {NoUrl}]]
    BY <1>1, <1>5, <2>2 DEF RegistryTypeOK
  <2>5. QED
    BY <1>2, <2>1, <2>3, <2>4, LookedUp
<1>6. QED
  BY <1>2, <1>4, <1>5

LEMMA HitStep ==
  ASSUME RestartInv, NEW c \in Campaigns, R!Hit(c) PROVE RestartInv'
<1>1. UNCHANGED <<cache, reader, table, writes, given, silent, raced, lost>>
  BY DEF R!Hit
<1>2. QED
  BY <1>1, LookedUp DEF RestartInv, RegistryInv, RegistryTypeOK

\* A lookup's row goes into the cache, and its touch is issued.
LEMMA FillStep ==
  ASSUME RestartInv, NEW k \in Readers, R!Fill(k) PROVE RestartInv'
<1> DEFINE c == reader[k].of
           u == reader[k].url
           w == R!Touch(c)
<1>1. /\ reader[k].pc = "fill" /\ cache' = [cache EXCEPT ![c] = u] /\ writes' = Append(writes, w)
      /\ reader' = [reader EXCEPT ![k] = R!Resting]
      /\ UNCHANGED <<table, given, silent, raced, lost>>
  BY DEF R!Fill
<1>2. RegistryTypeOK /\ FreshInv /\ WindowInv
  BY DEF RestartInv, RegistryInv
<1>3. c \in Campaigns /\ u \in Urls /\ u # NoUrl
  BY <1>1, <1>2, Nothings DEF RegistryTypeOK
<1>4. w \in Statement /\ w.url = NoUrl
  BY <1>3, Nothings DEF R!Touch, Statement
<1>5. R!Resting = [of |-> NoUrl, pc |-> "idle", url |-> NoUrl]
  BY DEF R!Resting, R!NoUrl, NoUrl
<1> HIDE DEF w
<1>6. writes' \in Seq(Statement) /\ R!Upserts' = R!Upserts /\ Awaited' = Awaited
  <2>1. writes' \in Seq(Statement) /\ R!Upserts' = R!Upserts
    BY <1>1, <1>2, <1>4, Appended DEF RegistryTypeOK
  <2>2. QED
    BY <2>1 DEF Awaited
<1>7. RegistryTypeOK'
  BY <1>1, <1>2, <1>3, <1>5, <1>6 DEF RegistryTypeOK
<1>8. /\ cache'[c] = u /\ \A d \in Campaigns \ {c} : cache'[d] = cache[d]
      /\ reader'[k] = R!Resting /\ \A q \in Readers \ {k} : reader'[q] = reader[q]
  BY <1>1, <1>2, <1>3 DEF RegistryTypeOK
<1>9. FreshInv'
  <2>1. \A v \in R!Upserts' : v.campaign \notin raced' => v.url = given'[v.campaign]
    BY <1>1, <1>2, <1>6 DEF FreshInv
  <2>2. ASSUME NEW d \in Campaigns \ (lost \cup raced)
        PROVE  /\ cache'[d] \in {NoUrl, given[d]}
               /\ d \in Awaited => cache'[d] # NoUrl
               /\ d \notin Awaited => table[d].url \in {NoUrl, given[d]}
    BY <1>1, <1>2, <1>3, <1>8, <2>2 DEF FreshInv
  <2>3. ASSUME NEW d \in Campaigns \ (lost \cup raced), NEW q \in Readers
        PROVE  /\ d \in Awaited => reader'[q].of # d
               /\ reader'[q].of = d /\ reader'[q].pc = "fill" => reader'[q].url = given[d]
    BY Nothings, <1>2, <1>5, <1>8, <2>3 DEF FreshInv
  <2>4. QED
    BY <1>1, <1>6, <2>1, <2>2, <2>3 DEF FreshInv
<1>10. WindowInv'
  BY <1>1, <1>2, <1>3, <1>6, <1>8 DEF WindowInv
<1>11. QED
  BY <1>7, <1>9, <1>10 DEF RestartInv, RegistryInv

LEMMA SweepStep == RestartInv /\ R!Sweep => RestartInv'
<1> SUFFICES ASSUME RestartInv, R!Sweep PROVE RestartInv'
  OBVIOUS
<1>1. /\ table' = [c \in Campaigns |-> IF table[c].age > KeepDays THEN R!Absent ELSE table[c]]
      /\ UNCHANGED <<cache, writes, reader, given, silent, lost, raced>>
  BY DEF R!Sweep, R!history
<1>2. RegistryTypeOK /\ FreshInv /\ WindowInv /\ R!Upserts' = R!Upserts /\ Awaited' = Awaited
  BY <1>1 DEF RestartInv, RegistryInv, R!Upserts, Awaited
<1>3. ASSUME NEW c \in Campaigns
      PROVE  \/ table'[c] = table[c]
             \/ table[c].age > KeepDays /\ table'[c] = [url |-> NoUrl, age |-> 0] /\ table'[c] = R!Absent
  BY <1>1, Nothings
<1>4. table' \in [Campaigns -> [url : Urls \cup {NoUrl}, age : Nat]]
  <2>1. DOMAIN table' = Campaigns /\ table' = [c \in Campaigns |-> table'[c]]
    BY <1>1
  <2>2. \A c \in Campaigns : table'[c] \in [url : Urls \cup {NoUrl}, age : Nat]
    BY <1>2, <1>3 DEF RegistryTypeOK
  <2>3. QED
    BY <2>1, <2>2
<1>5. RegistryTypeOK'
  BY <1>1, <1>2, <1>3, <1>4, Nothings DEF RegistryTypeOK
<1>6. FreshInv'
  BY <1>1, <1>2, <1>3 DEF FreshInv
<1>7. WindowInv'
  <2>1. ASSUME NEW c \in Campaigns, silent[c] <= KeepDays, table[c].age <= silent[c]
        PROVE  table'[c] = table[c]
    <3>1. silent[c] \in Nat /\ table[c].age \in Nat
      BY <1>2 DEF RegistryTypeOK
    <3>2. ~(table[c].age > KeepDays)
      BY <2>1, <3>1, Nothings
    <3>3. QED
      BY <1>3, <3>2
  <2>2. QED
    BY <1>1, <1>2, <2>1 DEF WindowInv
<1>8. QED
  BY <1>5, <1>6, <1>7 DEF RestartInv, RegistryInv

LEMMA DayStep == RestartInv /\ R!Tick => RestartInv'
<1> SUFFICES ASSUME RestartInv, R!Tick PROVE RestartInv'
  OBVIOUS
<1>1. /\ table' = [c \in Campaigns |-> IF table[c] # R!Absent
                                         THEN [table[c] EXCEPT !.age = R!Older(@)] ELSE R!Absent]
      /\ silent' = [c \in Campaigns |-> IF given[c] = NoUrl THEN 0 ELSE R!Older(silent[c])]
      /\ writes = << >> /\ UNCHANGED <<cache, writes, reader, given, lost, raced>>
  BY DEF R!Tick, R!Present, R!NoUrl, NoUrl
<1>2. RegistryTypeOK /\ FreshInv /\ WindowInv /\ R!Upserts' = R!Upserts /\ Awaited' = Awaited
  BY <1>1 DEF RestartInv, RegistryInv, R!Upserts, Awaited
<1>3. Awaited = {}
  BY <1>1 DEF Awaited, R!Upserts, R!ToSet
<1>4. \A n \in Nat : R!Older(n) \in Nat /\ R!Older(n) \in {n, n + 1} /\ (n <= KeepDays => R!Older(n) = n + 1)
  BY Nothings DEF R!Older
<1>5. ASSUME NEW c \in Campaigns
      PROVE  /\ table'[c] \in [url : Urls \cup {NoUrl}, age : Nat] /\ table'[c].url = table[c].url
             /\ table'[c].url = NoUrl => table'[c] = R!Absent
             /\ table'[c].url # NoUrl => table'[c].age = R!Older(table[c].age)
             /\ silent'[c] \in Nat /\ given[c] # NoUrl => silent'[c] = R!Older(silent[c])
  <2>1. /\ table[c] \in [url : Urls \cup {NoUrl}, age : Nat]
        /\ table[c].url = NoUrl => table[c] = R!Absent
        /\ silent[c] \in Nat
    BY <1>2 DEF RegistryTypeOK
  <2>2. CASE table[c] # R!Absent
    <3>1. table'[c] = [table[c] EXCEPT !.age = R!Older(table[c].age)]
      BY <1>1, <2>2
    <3>2. QED
      BY <1>1, <1>4, <2>1, <2>2, <3>1
  <2>3. CASE table[c] = R!Absent
    BY <1>1, <1>4, <2>1, <2>3, Nothings
  <2>4. QED
    BY <2>2, <2>3
<1>6. RegistryTypeOK'
  <2>1. table' = [c \in Campaigns |-> table'[c]] /\ silent' = [c \in Campaigns |-> silent'[c]]
    BY <1>1
  <2>2. table' \in [Campaigns -> [url : Urls \cup {NoUrl}, age : Nat]] /\ silent' \in [Campaigns -> Nat]
    <3>1. \A c \in Campaigns : silent'[c] \in Nat
      BY <1>1, <1>2, <1>4 DEF RegistryTypeOK
    <3>2. QED
      BY <1>5, <2>1, <3>1
  <2>3. QED
    BY <1>1, <1>2, <1>5, <2>2, Nothings DEF RegistryTypeOK
<1>7. FreshInv'
  BY <1>1, <1>2, <1>5 DEF FreshInv
<1>8. WindowInv'
  <2>1. ASSUME AllWarm, NEW c \in Campaigns \ lost, given[c] # NoUrl, silent'[c] <= KeepDays
        PROVE  cache[c] # NoUrl /\ table'[c].url # NoUrl /\ table'[c].age <= silent'[c]
    <3>1. silent[c] \in Nat /\ table[c].age \in Nat /\ silent'[c] = R!Older(silent[c])
      BY <1>1, <1>2, <2>1 DEF RegistryTypeOK
    <3>2. silent[c] <= KeepDays /\ silent'[c] = silent[c] + 1
      BY <1>4, <2>1, <3>1, Nothings
    <3>3. cache[c] # NoUrl /\ table[c].url # NoUrl /\ table[c].age <= silent[c]
      BY <1>2, <1>3, <2>1, <3>2 DEF WindowInv
    <3>4. table'[c].url # NoUrl /\ table'[c].age \in {table[c].age, table[c].age + 1}
      BY <1>4, <1>5, <3>1, <3>3
    <3>5. QED
      BY <3>1, <3>2, <3>3, <3>4
  <2>2. QED
    BY <1>1, <1>2, <2>1 DEF WindowInv
<1>9. QED
  BY <1>6, <1>7, <1>8 DEF RestartInv, RegistryInv

\* With room for all, the warm load takes every row of the window.
LEMMA WarmIsAll ==
  ASSUME AllWarm, NEW W \in SUBSET R!Recent, R!Warmable(W)
  PROVE  W = R!Recent
<1>1. R!Recent \subseteq Campaigns /\ IsFiniteSet(R!Recent) /\ Cardinality(R!Recent) <= Cardinality(Campaigns)
  BY FS_Subset DEF AllWarm, R!Recent
<1>2. /\ Cardinality(R!Recent) \in Nat /\ Cardinality(Campaigns) \in Nat /\ WarmLimit \in Nat
      /\ Cardinality(R!Recent) <= WarmLimit
  BY <1>1, FS_CardinalityType, StoresAssumption DEF AllWarm, R!KeepAssumption
<1>3. R!Min({WarmLimit, Cardinality(R!Recent)}) = Cardinality(R!Recent)
  BY <1>2 DEF R!Min
<1>4. R!Cardinality(W) = Cardinality(W) /\ R!Cardinality(R!Recent) = Cardinality(R!Recent)
  BY DEF R!Cardinality, Cardinality
<1>5. Cardinality(W) = Cardinality(R!Recent)
  BY <1>3, <1>4 DEF R!Warmable
<1>6. QED
  BY <1>1, <1>5, FS_Subset

LEMMA RegistryRestart == RestartInv /\ R!Restart => RestartInv'
<1> SUFFICES ASSUME RestartInv, R!Restart PROVE RestartInv'
  OBVIOUS
<1>1. /\ writes' = << >> /\ lost' = lost \cup Awaited
      /\ reader' = [k \in Readers |-> R!Resting] /\ UNCHANGED <<table, given, silent, raced>>
  BY DEF R!Restart, Awaited
<1>2. PICK W \in SUBSET R!Recent :
        R!Warmable(W) /\ cache' = [c \in Campaigns |-> IF c \in W THEN table[c].url ELSE NoUrl]
  BY DEF R!Restart, R!NoUrl, NoUrl
<1>3. RegistryTypeOK /\ FreshInv /\ WindowInv
  BY DEF RestartInv, RegistryInv
<1>4. R!Resting = [of |-> NoUrl, pc |-> "idle", url |-> NoUrl]
  BY DEF R!Resting, R!NoUrl, NoUrl
<1>5. writes' \in Seq(Statement) /\ R!Upserts' = {} /\ Awaited' = {}
  BY <1>1 DEF R!Upserts, R!ToSet, Awaited
<1>6. \A c \in Campaigns : cache'[c] = IF c \in W THEN table[c].url ELSE NoUrl
  BY <1>2
<1>7. RegistryTypeOK'
  <2>1. cache' \in [Campaigns -> Urls \cup {NoUrl}]
    BY <1>2, <1>3 DEF RegistryTypeOK
  <2>2. QED
    BY <1>1, <1>3, <1>4, <1>5, <2>1, Nothings DEF RegistryTypeOK
<1>8. FreshInv'
  BY <1>1, <1>3, <1>4, <1>5, <1>6 DEF FreshInv
<1>9. WindowInv'
  <2>1. ASSUME AllWarm, NEW c \in Campaigns \ lost', given[c] # NoUrl, silent[c] <= KeepDays
        PROVE  cache'[c] # NoUrl /\ table[c].url # NoUrl /\ table[c].age <= silent[c]
    <3>1. table[c].url # NoUrl /\ table[c].age <= silent[c]
      BY <1>1, <1>3, <2>1 DEF WindowInv
    <3>2. table[c].age \in Nat /\ silent[c] \in Nat
      BY <1>3 DEF RegistryTypeOK
    <3>3. table[c] # R!Absent /\ table[c].age <= KeepDays
      BY <2>1, <3>1, <3>2, Nothings
    <3>4. c \in W
      BY <1>2, <2>1, <3>3, WarmIsAll DEF R!Recent, R!Present
    <3>5. QED
      BY <1>6, <3>1, <3>4
  <2>2. QED
    BY <1>1, <2>1 DEF WindowInv
<1>10. QED
  BY <1>7, <1>8, <1>9 DEF RestartInv, RegistryInv

LEMMA RegistryStep == RestartInv /\ [R!Next]_registry => RestartInv'
<1> SUFFICES ASSUME RestartInv, [R!Next]_registry PROVE RestartInv'
  OBVIOUS
<1>1. CASE UNCHANGED registry
  BY <1>1, LookedUp DEF registry, RestartInv, RegistryInv, RegistryTypeOK
<1>2. CASE R!Next
  BY <1>2, RegisterStep, ApplyStep, DropStep, HitStep, AskStep, QueryStep, FillStep, RegistryRestart,
     SweepStep, DayStep
     DEF R!Next
<1>3. QED
  BY <1>1, <1>2

LEMMA RegistryFacts ==
  RestartInv => R!StaleOnlyIfRaced /\ (AllWarm => R!RestartKeepsCorrelation)
BY DEF RestartInv, RegistryInv, FreshInv, WindowInv, R!StaleOnlyIfRaced, R!RestartKeepsCorrelation,
       R!Given, R!NoUrl, NoUrl

\* The cached URL of a campaign is the one of its last dispatch, unless that was lost or
\* raced, for any campaigns, lookups, days, faults and order of the statements.
THEOREM FreshCorrect == R!Spec => []R!StaleOnlyIfRaced
<1>1. RestartInv /\ [R!Next]_(R!vars) => RestartInv'
  BY RegistryStep DEF R!vars, R!history, registry
<1>2. QED
  BY <1>1, RegistryBase, RegistryFacts, PTL DEF R!Spec

\* A restart keeps the destinations of the campaigns of the window, if the warm load
\* has room for all campaigns there are.
THEOREM CorrelationCorrect == AllWarm => (R!Spec => []R!RestartKeepsCorrelation)
<1> SUFFICES ASSUME AllWarm PROVE R!Spec => []R!RestartKeepsCorrelation
  OBVIOUS
<1>1. RestartInv /\ [R!Next]_(R!vars) => RestartInv'
  BY RegistryStep DEF R!vars, R!history, registry
<1>2. RestartInv => R!RestartKeepsCorrelation
  BY RegistryFacts
<1>3. QED
  BY <1>1, <1>2, RegistryBase, PTL DEF R!Spec

-----------------------------------------------------------------------------
(* The programs of the sends.                                                *)

Names == Wires \cup {"none"} \cup {P!ProgramOf(d) : d \in Dispatches}
           \cup {m[w] : m \in Mapped, w \in Wires}

ProgramTypeOK ==
  /\ programs \in [Wires -> Names]
  /\ DOMAIN programCache \subseteq Wires /\ \A w \in DOMAIN programCache : programCache[w] \in Names
  /\ recording \in [Dispatches -> {"todo", "written", "done"}]
  /\ lookup \in [Lookups -> [pc : {"idle", "read", "done"}, wire : Wires, found : Names]]
  /\ stored \in [P!Keys -> Names]
  /\ backfill \in [done : BOOLEAN, cursor : [ts : Nat, id : Nat]]

\* What a dispatch has still to cache, and what a lookup has read, is the row, unless
\* another step of the wire id came between; rows are never taken back.
WireInv ==
  /\ P!CacheTellsTable /\ P!MissesAreNotCached
  /\ \A d \in Dispatches : recording[d] = "written" =>
       LET w == Payload[d].wire
       IN programs[w] # "none" /\ (w \in overlapped \/ programs[w] = P!ProgramOf(d))
  /\ \A k \in Lookups : lookup[k].pc = "read" =>
       LET w == lookup[k].wire
       IN /\ lookup[k].found # "none" => programs[w] # "none"
          /\ w \in overlapped \/ lookup[k].found = programs[w]

\* Until the copy is done nothing else steps, and what it has passed is stored.
AllTodo == \A d \in Dispatches : recording[d] = "todo"
CopyInv ==
  /\ ~backfill.done => AllTodo /\ overlapped = {}
  /\ \A r \in Queued : r.wire # "none" /\ (backfill.done \/ ~P!Later(r, backfill.cursor))
       => stored[r.key] # "none"
  /\ AllTodo => \A k \in P!Keys : stored[k] # "none" =>
       \E q \in Queued : q.key = k /\ q.wire # "none" /\ stored[k] = P!Row(q.wire)

ProgramInv == ProgramTypeOK /\ WireInv /\ CopyInv

LEMMA ProgramsAre ==
  /\ P!NoProgram = "none" /\ "none" \notin Wires /\ PageSize \in Nat \ {0} /\ IsFiniteSet(Queued)
  /\ \A d \in Dispatches : Payload[d].wire \in Wires /\ P!ProgramOf(d) \in Names /\ P!ProgramOf(d) # "none"
  /\ \A m \in Mapped : m \in [Wires -> Names]
  /\ \A r \in Queued : /\ r.ts \in Nat \ {0} /\ r.id \in Nat
                       /\ r.wire # "none" => r.wire \in Wires /\ r.key \in P!Keys
  /\ \A r, q \in Queued : r.ts = q.ts /\ r.id = q.id => r = q
<1>1. P!ProgramAssumption /\ P!NoProgram = "none"
  BY StoresAssumption DEF P!NoProgram
<1>2. P!IsFiniteSet(Queued) => IsFiniteSet(Queued)
  BY DEF P!IsFiniteSet, IsFiniteSet
<1>3. \A m \in Mapped : m \in [Wires -> Names]
  BY <1>1 DEF P!ProgramAssumption, Names
<1>4. \A d \in Dispatches : Payload[d].wire \in Wires /\ P!ProgramOf(d) # "none"
  BY <1>1 DEF P!ProgramAssumption, P!ProgramOf
<1>5. \A d \in Dispatches : P!ProgramOf(d) \in Names
  BY DEF Names
<1>6. \A r \in Queued : r.key # "none" => r.key \in P!Keys
  BY <1>1 DEF P!Keys
<1>7. \A r \in Queued :
        /\ r.ts \in Nat \ {0} /\ r.id \in Nat
        /\ r.wire # "none" => r.wire \in Wires /\ r.key # "none"
  BY <1>1 DEF P!ProgramAssumption
<1>8. \A r, q \in Queued : r.ts = q.ts /\ r.id = q.id => r = q
  BY <1>1 DEF P!ProgramAssumption
<1>9. "none" \notin Wires /\ PageSize \in Nat \ {0} /\ P!IsFiniteSet(Queued)
  BY <1>1 DEF P!ProgramAssumption
<1>10. QED
  BY <1>1, <1>2, <1>3, <1>4, <1>5, <1>6, <1>7, <1>8, <1>9

LEMMA CardinalityOfRows == \A S : P!Cardinality(S) = Cardinality(S)
BY DEF P!Cardinality, Cardinality

\* The rows of the outbox are in a line.
LEMMA RowsInLine ==
  /\ \A r \in Queued : ~P!Later(r, r)
  /\ \A r, q \in Queued : r = q \/ P!Later(r, q) \/ P!Later(q, r)
  /\ \A r, q, p \in Queued : P!Later(r, q) /\ P!Later(q, p) => P!Later(r, p)
  /\ \A r, q \in Queued : P!Later(r, q) => ~P!Later(q, r)
BY ProgramsAre DEF P!Later

LEMMA LeastNatural ==
  ASSUME NEW T \in SUBSET Nat, T # {}
  PROVE  \E n \in T : \A m \in T : n <= m
<1>1. PICK n \in T : \A m \in T : <<m, n>> \notin OpToRel(<, Nat)
  BY WFMin, NatLessThanWellFounded, Zenon
<1>2. \A m \in T : ~(m < n)
  BY <1>1, Zenon DEF OpToRel
<1>3. QED
  BY <1>2

\* Some row has none before it, and some row none behind it.
LEMMA EndsOfRows ==
  ASSUME NEW S \in SUBSET Queued, S # {}
  PROVE  P!First(S) \in S /\ P!Final(S) \in S
<1> DEFINE Behind(r) == {q \in S : P!Later(q, r)}
           Before(r) == {q \in S : P!Later(r, q)}
<1>1. IsFiniteSet(S)
  BY ProgramsAre, FS_Subset
<1>2. ASSUME NEW r \in S
      PROVE  /\ IsFiniteSet(Behind(r)) /\ Cardinality(Behind(r)) \in Nat
             /\ IsFiniteSet(Before(r)) /\ Cardinality(Before(r)) \in Nat
  BY <1>1, FS_Subset, FS_CardinalityType
<1>3. ASSUME NEW r \in S, NEW q \in Behind(r) PROVE Cardinality(Behind(q)) < Cardinality(Behind(r))
  <2>1. Behind(q) \subseteq Behind(r) /\ q \notin Behind(q)
    BY <1>3, RowsInLine
  <2>2. Behind(q) # Behind(r)
    BY <1>3, <2>1
  <2>3. IsFiniteSet(Behind(r)) /\ Cardinality(Behind(r)) \in Nat /\ Cardinality(Behind(q)) \in Nat
    BY <1>2, <1>3
  <2> HIDE DEF Behind
  <2>4. /\ Cardinality(Behind(q)) <= Cardinality(Behind(r))
        /\ Cardinality(Behind(q)) # Cardinality(Behind(r))
    BY <2>1, <2>2, <2>3, FS_Subset
  <2>5. QED
    BY <2>3, <2>4
<1>4. ASSUME NEW r \in S, NEW q \in Before(r) PROVE Cardinality(Before(q)) < Cardinality(Before(r))
  <2>1. Before(q) \subseteq Before(r) /\ q \notin Before(q)
    BY <1>4, RowsInLine
  <2>2. Before(q) # Before(r)
    BY <1>4, <2>1
  <2>3. IsFiniteSet(Before(r)) /\ Cardinality(Before(r)) \in Nat /\ Cardinality(Before(q)) \in Nat
    BY <1>2, <1>4
  <2> HIDE DEF Before
  <2>4. /\ Cardinality(Before(q)) <= Cardinality(Before(r))
        /\ Cardinality(Before(q)) # Cardinality(Before(r))
    BY <2>1, <2>2, <2>3, FS_Subset
  <2>5. QED
    BY <2>3, <2>4
<1>5. \E r \in S : \A q \in S : ~P!Later(q, r)
  <2> DEFINE T == {Cardinality(Behind(r)) : r \in S}
  <2>1. T \in SUBSET Nat /\ T # {}
    BY <1>2
  <2>2. PICK n \in T : \A m \in T : n <= m
    BY <2>1, LeastNatural
  <2>3. PICK r \in S : n = Cardinality(Behind(r))
    OBVIOUS
  <2>4. ASSUME NEW q \in S, P!Later(q, r) PROVE FALSE
    <3>1. q \in Behind(r) /\ Cardinality(Behind(q)) \in T
      BY <2>4
    <3>2. Cardinality(Behind(q)) < Cardinality(Behind(r))
      BY <1>3, <3>1
    <3>3. Cardinality(Behind(q)) \in Nat /\ Cardinality(Behind(r)) \in Nat
      BY <1>2, <2>4
    <3>4. Cardinality(Behind(r)) <= Cardinality(Behind(q))
      BY <2>2, <2>3, <3>1
    <3> HIDE DEF Behind
    <3>5. QED
      BY <3>2, <3>3, <3>4
  <2>5. QED
    BY <2>4
<1>6. \E r \in S : \A q \in S : ~P!Later(r, q)
  <2> DEFINE T == {Cardinality(Before(r)) : r \in S}
  <2>1. T \in SUBSET Nat /\ T # {}
    BY <1>2
  <2>2. PICK n \in T : \A m \in T : n <= m
    BY <2>1, LeastNatural
  <2>3. PICK r \in S : n = Cardinality(Before(r))
    OBVIOUS
  <2>4. ASSUME NEW q \in S, P!Later(r, q) PROVE FALSE
    <3>1. q \in Before(r) /\ Cardinality(Before(q)) \in T
      BY <2>4
    <3>2. Cardinality(Before(q)) < Cardinality(Before(r))
      BY <1>4, <3>1
    <3>3. Cardinality(Before(q)) \in Nat /\ Cardinality(Before(r)) \in Nat
      BY <1>2, <2>4
    <3>4. Cardinality(Before(r)) <= Cardinality(Before(q))
      BY <2>2, <2>3, <3>1
    <3> HIDE DEF Before
    <3>5. QED
      BY <3>2, <3>3, <3>4
  <2>5. QED
    BY <2>4
<1>7. QED
  BY <1>5, <1>6 DEF P!First, P!Final

\* What is inserted says what the table says, and leaves out nothing of its rows.
LEMMA InsertIs ==
  ASSUME ProgramInv, ~backfill.done, NEW rows \in SUBSET Queued, stored' = P!Insert(rows)
  PROVE  /\ stored' \in [P!Keys -> Names]
         /\ \A k \in P!Keys :
              \/ stored'[k] = stored[k]
              \/ \E q \in rows : q.key = k /\ q.wire # "none" /\ stored'[k] = P!Row(q.wire)
         /\ \A k \in P!Keys : stored[k] # "none" => stored'[k] = stored[k]
         /\ \A r \in rows : r.wire # "none" => stored'[r.key] # "none"
<1> DEFINE mine(k) == {r \in rows : r.key = k /\ r.wire # "none"}
           news(k) == P!Resolved(P!First(mine(k)).wire)
<1>1. stored' = [k \in P!Keys |-> IF stored[k] = "none" /\ mine(k) # {} THEN news(k) ELSE stored[k]]
  BY ProgramsAre DEF P!Insert
<1>2. ASSUME NEW w \in Wires
      PROVE  P!Resolved(w) = P!Row(w) /\ P!Row(w) \in Names /\ P!Row(w) # "none"
  <2>1. w \in DOMAIN programCache => programCache[w] = programs[w] /\ programs[w] # "none"
    BY ProgramsAre DEF ProgramInv, WireInv, CopyInv, AllTodo, P!CacheTellsTable, P!MissesAreNotCached
  <2>2. programs[w] \in Names /\ w \in Names /\ w # "none"
    BY ProgramsAre DEF ProgramInv, ProgramTypeOK, Names
  <2>3. QED
    BY <2>1, <2>2, ProgramsAre DEF P!Resolved, P!Row, P!Alone
<1>3. ASSUME NEW k \in P!Keys, mine(k) # {}
      PROVE  /\ P!First(mine(k)) \in mine(k) /\ P!First(mine(k)).wire \in Wires
             /\ news(k) = P!Row(P!First(mine(k)).wire) /\ news(k) \in Names /\ news(k) # "none"
  <2>1. mine(k) \in SUBSET Queued
    OBVIOUS
  <2>2. P!First(mine(k)) \in mine(k)
    BY <1>3, <2>1, EndsOfRows
  <2>3. P!First(mine(k)).wire \in Wires
    BY <2>1, <2>2, ProgramsAre
  <2>4. QED
    BY <1>2, <2>2, <2>3
<1>4. stored \in [P!Keys -> Names]
  BY DEF ProgramInv, ProgramTypeOK
<1>5. ASSUME NEW r \in rows, r.wire # "none" PROVE r.key \in P!Keys /\ r \in mine(r.key)
  BY <1>5, ProgramsAre
<1>6. ASSUME NEW k \in P!Keys, mine(k) # {}
      PROVE  \E q \in rows : q.key = k /\ q.wire # "none" /\ news(k) = P!Row(q.wire)
  BY <1>3, <1>6
<1>7. \A k \in P!Keys : mine(k) # {} => news(k) \in Names /\ news(k) # "none"
  BY <1>3
<1> HIDE DEF news, mine
<1>8. stored' \in [P!Keys -> Names]
  BY <1>1, <1>4, <1>7
<1>9. \A k \in P!Keys : stored'[k] = IF stored[k] = "none" /\ mine(k) # {} THEN news(k) ELSE stored[k]
  BY <1>1
<1>10. ASSUME NEW r \in rows, r.wire # "none" PROVE stored'[r.key] # "none"
  BY <1>5, <1>7, <1>9, <1>10
<1>11. \A k \in P!Keys :
         \/ stored'[k] = stored[k]
         \/ \E q \in rows : q.key = k /\ q.wire # "none" /\ stored'[k] = P!Row(q.wire)
  BY <1>6, <1>9
<1>12. QED
  BY <1>8, <1>9, <1>10, <1>11

LEMMA ProgramBase == P!ProgramInit => ProgramInv
<1> SUFFICES ASSUME P!ProgramInit PROVE ProgramInv
  OBVIOUS
<1>1. programs \in Mapped /\ programs \in [Wires -> Names]
  BY ProgramsAre DEF P!ProgramInit
<1>2. /\ programCache = << >> /\ DOMAIN programCache = {}
      /\ recording = [d \in Dispatches |-> "todo"] /\ overlapped = {}
      /\ stored = [k \in P!Keys |-> "none"] /\ backfill = [done |-> FALSE, cursor |-> P!Start]
  BY ProgramsAre DEF P!ProgramInit
<1>3. lookup \in [Lookups -> {[pc |-> "idle", wire |-> w, found |-> "none"] : w \in Wires}]
  BY ProgramsAre DEF P!ProgramInit, P!Idle
<1>4. \A k \in Lookups : /\ lookup[k] \in [pc : {"idle", "read", "done"}, wire : Wires, found : Names]
                         /\ lookup[k].pc = "idle"
  BY <1>3 DEF Names
<1>5. "none" \in Names /\ P!Start = [ts |-> 0, id |-> 0]
  BY DEF Names, P!Start
<1>6. ProgramTypeOK
  BY <1>1, <1>2, <1>3, <1>4, <1>5 DEF ProgramTypeOK
<1>7. WireInv
  BY <1>2, <1>4 DEF WireInv, P!CacheTellsTable, P!MissesAreNotCached
<1>8. CopyInv
  <2>1. \A r \in Queued : P!Later(r, P!Start)
    BY ProgramsAre, <1>5 DEF P!Later
  <2>2. \A r \in Queued : r.wire # "none" => r.key \in P!Keys
    BY ProgramsAre
  <2>3. backfill.done = FALSE /\ backfill.cursor = P!Start /\ AllTodo
    BY <1>2 DEF AllTodo
  <2>4. QED
    BY <1>2, <2>1, <2>2, <2>3 DEF CopyInv
<1>9. QED
  BY <1>6, <1>7, <1>8 DEF ProgramInv

\* A cache that has only what it had, or rows, while nothing else may step.
LEMMA CopiedWires ==
  ASSUME ProgramInv, ~backfill.done, UNCHANGED <<programs, recording, lookup, overlapped>>,
         DOMAIN programCache' \subseteq Wires,
         \A w \in DOMAIN programCache' :
           \/ w \in DOMAIN programCache /\ programCache'[w] = programCache[w]
           \/ programCache'[w] = programs[w] /\ programs[w] # "none"
  PROVE  WireInv'
BY ProgramsAre DEF ProgramInv, WireInv, CopyInv, AllTodo, P!CacheTellsTable, P!MissesAreNotCached

LEMMA CopyPageStep == ProgramInv /\ P!CopyPage => ProgramInv'
<1> SUFFICES ASSUME ProgramInv, P!CopyPage PROVE ProgramInv'
  OBVIOUS
<1> DEFINE last == P!Final(P!Page)
<1>1. /\ ~backfill.done /\ P!Page # {} /\ stored' = P!Insert(P!Page)
      /\ backfill' = [backfill EXCEPT !.cursor = [ts |-> last.ts, id |-> last.id]]
      /\ UNCHANGED <<programs, recording, lookup, overlapped>>
  BY DEF P!CopyPage
<1>2. ProgramTypeOK /\ WireInv /\ CopyInv
  BY DEF ProgramInv
<1>3. P!Page \in SUBSET Queued /\ P!Page \subseteq P!Rest
  BY DEF P!Page, P!Ahead, P!Rest
<1>4. last \in P!Page /\ last.ts \in Nat /\ last.id \in Nat
  BY <1>1, <1>3, EndsOfRows, ProgramsAre
<1> HIDE DEF last
<1>5. /\ stored' \in [P!Keys -> Names]
      /\ \A k \in P!Keys :
           \/ stored'[k] = stored[k]
           \/ \E q \in P!Page : q.key = k /\ q.wire # "none" /\ stored'[k] = P!Row(q.wire)
      /\ \A k \in P!Keys : stored[k] # "none" => stored'[k] = stored[k]
      /\ \A r \in P!Page : r.wire # "none" => stored'[r.key] # "none"
  BY <1>1, <1>3, InsertIs
<1>6. /\ backfill' \in [done : BOOLEAN, cursor : [ts : Nat, id : Nat]] /\ ~backfill'.done
      /\ backfill'.cursor.ts = last.ts /\ backfill'.cursor.id = last.id
  BY <1>1, <1>2, <1>4 DEF ProgramTypeOK
<1>7. /\ DOMAIN programCache' \subseteq Wires /\ WireInv'
      /\ \A w \in DOMAIN programCache' : programCache'[w] \in Names
  <2> DEFINE rows == {w \in {r.wire : r \in P!Page} \ {"none"} : programs[w] # "none"}
  <2>1. programCache' = [w \in DOMAIN programCache \cup rows |->
                           IF w \in DOMAIN programCache THEN programCache[w] ELSE programs[w]]
    BY ProgramsAre DEF P!CopyPage
  <2>2. rows \subseteq Wires /\ \A w \in rows : programs[w] # "none"
    BY <1>3, ProgramsAre
  <2> HIDE DEF rows
  <2>3. DOMAIN programCache' \subseteq Wires
    BY <1>2, <2>1, <2>2 DEF ProgramTypeOK
  <2>4. \A w \in DOMAIN programCache' :
          \/ w \in DOMAIN programCache /\ programCache'[w] = programCache[w]
          \/ programCache'[w] = programs[w] /\ programs[w] # "none"
    BY <2>1, <2>2
  <2>5. \A w \in DOMAIN programCache' : programCache'[w] \in Names
    BY <1>2, <2>3, <2>4 DEF ProgramTypeOK
  <2>6. WireInv'
    BY <1>1, <2>3, <2>4, CopiedWires
  <2>7. QED
    BY <2>3, <2>5, <2>6
<1>8. ProgramTypeOK'
  BY <1>1, <1>2, <1>5, <1>6, <1>7 DEF ProgramTypeOK
<1>9. ASSUME NEW r \in Queued, r.wire # "none", ~P!Later(r, backfill'.cursor)
      PROVE  stored'[r.key] # "none"
  <2>1. r.key \in P!Keys
    BY <1>9, ProgramsAre
  <2>2. CASE ~P!Later(r, backfill.cursor)
    BY <1>2, <1>5, <1>9, <2>1, <2>2 DEF CopyInv
  <2>3. CASE P!Later(r, backfill.cursor)
    <3> DEFINE S == {q \in P!Rest : P!Later(r, q)}
               T == {q \in P!Rest : P!Later(last, q)}
    <3>1. ~P!Later(r, last) /\ last \in P!Rest /\ P!Rest \subseteq Queued
      BY <1>3, <1>4, <1>6, <1>9 DEF P!Later, P!Rest
    <3>2. S \subseteq T
      BY <3>1, RowsInLine
    <3>3. IsFiniteSet(T)
      BY <3>1, ProgramsAre, FS_Subset
    <3>4. Cardinality(T) < PageSize
      BY <1>4, CardinalityOfRows DEF P!Page, P!Ahead
    <3> HIDE DEF S, T
    <3>5. Cardinality(S) <= Cardinality(T) /\ Cardinality(S) \in Nat /\ Cardinality(T) \in Nat
      BY <3>2, <3>3, FS_Subset, FS_CardinalityType
    <3>6. Cardinality(S) < PageSize
      BY <3>4, <3>5, ProgramsAre
    <3>7. r \in P!Page
      BY <2>3, <3>6, CardinalityOfRows DEF P!Page, P!Ahead, P!Rest, S
    <3>8. QED
      BY <1>5, <1>9, <3>7
  <2>4. QED
    BY <2>2, <2>3
<1>10. ASSUME AllTodo, NEW k \in P!Keys, stored'[k] # "none"
       PROVE  \E q \in Queued : q.key = k /\ q.wire # "none" /\ stored'[k] = P!Row(q.wire)
  <2>1. CASE stored'[k] = stored[k]
    BY <1>2, <1>10, <2>1 DEF CopyInv
  <2>2. CASE stored'[k] # stored[k]
    BY <1>3, <1>5, <2>2
  <2>3. QED
    BY <2>1, <2>2
<1>11. CopyInv'
  <2>1. AllTodo /\ AllTodo' /\ overlapped' = {}
    BY <1>1, <1>2 DEF CopyInv, AllTodo
  <2>2. \A w : P!Row(w)' = P!Row(w)
    BY <1>1 DEF P!Row, P!Alone
  <2>3. QED
    BY <1>6, <1>9, <1>10, <2>1, <2>2 DEF CopyInv
<1>12. QED
  BY <1>7, <1>8, <1>11 DEF ProgramInv

LEMMA CopyFailsStep ==
  ASSUME ProgramInv, NEW n, P!CopyFails(n)
  PROVE  ProgramInv'
<1>1. /\ ~backfill.done /\ stored' = P!Insert(P!Ahead(n)) /\ programCache' = << >>
      /\ backfill' = [backfill EXCEPT !.cursor = [ts |-> 0, id |-> 0]]
      /\ UNCHANGED <<programs, recording, lookup, overlapped>>
  BY DEF P!CopyFails, P!Start
<1>2. ProgramTypeOK /\ WireInv /\ CopyInv
  BY DEF ProgramInv
<1>3. P!Ahead(n) \in SUBSET Queued
  BY DEF P!Ahead, P!Rest
<1>4. /\ stored' \in [P!Keys -> Names]
      /\ \A k \in P!Keys :
           \/ stored'[k] = stored[k]
           \/ \E q \in P!Ahead(n) : q.key = k /\ q.wire # "none" /\ stored'[k] = P!Row(q.wire)
  BY <1>1, <1>3, InsertIs
<1>5. /\ backfill' \in [done : BOOLEAN, cursor : [ts : Nat, id : Nat]] /\ ~backfill'.done
      /\ backfill'.cursor.ts = 0 /\ backfill'.cursor.id = 0
  BY <1>1, <1>2 DEF ProgramTypeOK
<1>6. DOMAIN programCache' = {}
  BY <1>1
<1>7. WireInv'
  BY <1>1, <1>6, CopiedWires
<1>8. ProgramTypeOK'
  BY <1>1, <1>2, <1>4, <1>5, <1>6 DEF ProgramTypeOK
<1>9. \A r \in Queued : P!Later(r, backfill'.cursor)
  BY <1>5, ProgramsAre DEF P!Later
<1>10. ASSUME AllTodo, NEW k \in P!Keys, stored'[k] # "none"
       PROVE  \E q \in Queued : q.key = k /\ q.wire # "none" /\ stored'[k] = P!Row(q.wire)
  <2>1. CASE stored'[k] = stored[k]
    BY <1>2, <1>10, <2>1 DEF CopyInv
  <2>2. CASE stored'[k] # stored[k]
    BY <1>3, <1>4, <2>2
  <2>3. QED
    BY <2>1, <2>2
<1>11. CopyInv'
  <2>1. AllTodo /\ AllTodo' /\ overlapped' = {}
    BY <1>1, <1>2 DEF CopyInv, AllTodo
  <2>2. \A w : P!Row(w)' = P!Row(w)
    BY <1>1 DEF P!Row, P!Alone
  <2>3. QED
    BY <1>5, <1>9, <1>10, <2>1, <2>2 DEF CopyInv
<1>12. QED
  BY <1>7, <1>8, <1>11 DEF ProgramInv

LEMMA CopyDoneStep == ProgramInv /\ P!BackfillDone => ProgramInv'
<1> SUFFICES ASSUME ProgramInv, P!BackfillDone PROVE ProgramInv'
  OBVIOUS
<1>1. /\ ~backfill.done /\ P!Rest = {} /\ backfill' = [backfill EXCEPT !.done = TRUE]
      /\ UNCHANGED <<programs, programCache, recording, lookup, stored, overlapped>>
  BY DEF P!BackfillDone
<1>2. ProgramTypeOK /\ WireInv /\ CopyInv
  BY DEF ProgramInv
<1>3. backfill' \in [done : BOOLEAN, cursor : [ts : Nat, id : Nat]] /\ backfill'.done
  BY <1>1, <1>2 DEF ProgramTypeOK
<1>4. ProgramTypeOK'
  BY <1>1, <1>2, <1>3 DEF ProgramTypeOK
<1>5. WireInv'
  BY <1>1, <1>2 DEF WireInv, P!CacheTellsTable, P!MissesAreNotCached
<1>6. \A r \in Queued : ~P!Later(r, backfill.cursor)
  BY <1>1 DEF P!Rest
<1>7. CopyInv'
  BY <1>1, <1>2, <1>3, <1>6 DEF CopyInv, AllTodo, P!Row, P!Alone
<1>8. QED
  BY <1>4, <1>5, <1>7 DEF ProgramInv

\* A step after the copy that leaves the stored events alone, and the table while
\* nothing was dispatched.
LEMMA ServedCopy ==
  ASSUME ProgramInv, UNCHANGED <<stored, backfill>>, backfill.done,
         AllTodo' => AllTodo /\ programs' = programs
  PROVE  CopyInv'
<1>1. CopyInv
  BY DEF ProgramInv
<1>2. ASSUME AllTodo' PROVE \A w : P!Row(w)' = P!Row(w)
  BY <1>2 DEF P!Row, P!Alone
<1>3. QED
  BY <1>1, <1>2 DEF CopyInv

LEMMA RecordStep ==
  ASSUME ProgramInv, NEW d \in Dispatches, NEW ok \in BOOLEAN, P!Upsert(d, ok)
  PROVE  ProgramInv'
<1> DEFINE w == Payload[d].wire
<1>1. /\ backfill.done /\ recording[d] = "todo"
      /\ UNCHANGED <<programCache, lookup, stored, backfill>>
      /\ \/ /\ programs' = [programs EXCEPT ![w] = P!ProgramOf(d)]
            /\ recording' = [recording EXCEPT ![d] = "written"]
            /\ overlapped' = IF P!Open(w) THEN overlapped \cup {w} ELSE overlapped
         \/ recording' = [recording EXCEPT ![d] = "done"] /\ UNCHANGED <<programs, overlapped>>
  BY DEF P!Upsert
<1>2. ProgramTypeOK /\ WireInv /\ CopyInv
  BY DEF ProgramInv
<1>3. w \in Wires /\ P!ProgramOf(d) \in Names /\ P!ProgramOf(d) # "none"
  BY ProgramsAre
<1>4. /\ recording'[d] \in {"written", "done"}
      /\ \A e \in Dispatches \ {d} : recording'[e] = recording[e]
  BY <1>1, <1>2 DEF ProgramTypeOK
<1>5. ProgramTypeOK'
  BY <1>1, <1>2, <1>3 DEF ProgramTypeOK
<1>6. ~AllTodo'
  BY <1>4 DEF AllTodo
<1>7. CopyInv'
  BY <1>1, <1>6, ServedCopy
<1>8. WireInv'
  <2>1. CASE recording' = [recording EXCEPT ![d] = "done"] /\ UNCHANGED <<programs, overlapped>>
    BY <1>1, <1>2, <1>4, <2>1 DEF WireInv, ProgramTypeOK, P!CacheTellsTable, P!MissesAreNotCached
  <2>2. CASE /\ programs' = [programs EXCEPT ![w] = P!ProgramOf(d)]
             /\ recording' = [recording EXCEPT ![d] = "written"]
             /\ overlapped' = IF P!Open(w) THEN overlapped \cup {w} ELSE overlapped
    <3>1. /\ programs'[w] = P!ProgramOf(d) /\ recording'[d] = "written"
          /\ \A v \in Wires \ {w} : programs'[v] = programs[v]
          /\ overlapped \subseteq overlapped' /\ (P!Open(w) => w \in overlapped')
      BY <1>2, <1>3, <2>2 DEF ProgramTypeOK
    <3> HIDE DEF w
    <3>2. P!MissesAreNotCached'
      BY <1>1, <1>2, <1>3, <3>1 DEF WireInv, ProgramTypeOK, P!MissesAreNotCached, P!NoProgram
    <3>3. ASSUME NEW v \in DOMAIN programCache
          PROVE  \/ programCache[v] = programs'[v] \/ v \in overlapped'
                 \/ \E e \in Dispatches : recording'[e] = "written" /\ Payload[e].wire = v
      <4>1. CASE v = w
        BY <3>1, <4>1 DEF w
      <4>2. CASE v # w
        <5>1. \/ programCache[v] = programs[v] \/ v \in overlapped
              \/ \E e \in Dispatches : recording[e] = "written" /\ Payload[e].wire = v
          BY <1>2 DEF WireInv, P!CacheTellsTable
        <5>2. v \in Wires
          BY <1>2 DEF ProgramTypeOK
        <5>3. \A e \in Dispatches : recording[e] = "written" => recording'[e] = "written"
          BY <1>1, <1>4
        <5>4. QED
          BY <3>1, <4>2, <5>1, <5>2, <5>3
      <4>3. QED
        BY <4>1, <4>2
    <3>4. ASSUME NEW e \in Dispatches, recording'[e] = "written"
          PROVE  /\ programs'[Payload[e].wire] # "none"
                 /\ Payload[e].wire \in overlapped' \/ programs'[Payload[e].wire] = P!ProgramOf(e)
      <4>1. CASE e = d
        BY <1>3, <3>1, <4>1 DEF w
      <4>2. CASE e # d
        <5>1. recording[e] = "written" /\ Payload[e].wire \in Wires
          BY <1>4, <3>4, <4>2, ProgramsAre
        <5>2. /\ programs[Payload[e].wire] # "none"
              /\ Payload[e].wire \in overlapped \/ programs[Payload[e].wire] = P!ProgramOf(e)
          BY <1>2, <5>1 DEF WireInv
        <5>3. Payload[e].wire = w => P!Open(w)
          BY <5>1 DEF P!Open
        <5>4. QED
          BY <1>3, <3>1, <5>1, <5>2, <5>3
      <4>3. QED
        BY <4>1, <4>2
    <3>5. ASSUME NEW k \in Lookups, lookup[k].pc = "read"
          PROVE  /\ lookup[k].found # "none" => programs'[lookup[k].wire] # "none"
                 /\ lookup[k].wire \in overlapped' \/ lookup[k].found = programs'[lookup[k].wire]
      <4>1. lookup[k].wire \in Wires
        BY <1>2 DEF ProgramTypeOK
      <4>2. /\ lookup[k].found # "none" => programs[lookup[k].wire] # "none"
            /\ lookup[k].wire \in overlapped \/ lookup[k].found = programs[lookup[k].wire]
        BY <1>2, <3>5 DEF WireInv
      <4>3. lookup[k].wire = w => P!Open(w)
        BY <3>5 DEF P!Open
      <4>4. QED
        BY <1>3, <3>1, <4>1, <4>2, <4>3
    <3>6. P!CacheTellsTable'
      BY <1>1, <3>3 DEF P!CacheTellsTable
    <3>7. QED
      BY <1>1, <3>2, <3>4, <3>5, <3>6 DEF WireInv
  <2>3. QED
    BY <1>1, <2>1, <2>2
<1>9. QED
  BY <1>5, <1>7, <1>8 DEF ProgramInv

LEMMA CacheRecordStep ==
  ASSUME ProgramInv, NEW d \in Dispatches, P!CacheRecord(d)
  PROVE  ProgramInv'
<1> DEFINE w == Payload[d].wire
<1>1. /\ recording[d] = "written" /\ programCache' = P!Put(w, P!ProgramOf(d))
      /\ recording' = [recording EXCEPT ![d] = "done"]
      /\ UNCHANGED <<programs, lookup, stored, backfill, overlapped>>
  BY DEF P!CacheRecord
<1>2. ProgramTypeOK /\ WireInv /\ CopyInv
  BY DEF ProgramInv
<1>3. w \in Wires
  BY ProgramsAre
<1>4. /\ programs[w] # "none" /\ (w \in overlapped \/ programs[w] = P!ProgramOf(d))
      /\ backfill.done
  BY <1>1, <1>2 DEF WireInv, CopyInv, AllTodo
<1>5. /\ recording'[d] = "done"
      /\ \A e \in Dispatches \ {d} : recording'[e] = recording[e]
  BY <1>1, <1>2 DEF ProgramTypeOK
<1>6. /\ DOMAIN programCache' \subseteq DOMAIN programCache \cup {w}
      /\ programCache'[w] = P!ProgramOf(d)
      /\ \A v \in DOMAIN programCache' \ {w} : programCache'[v] = programCache[v]
  BY <1>1 DEF P!Put
<1>7. ProgramTypeOK'
  <2>1. P!ProgramOf(d) \in Names
    BY ProgramsAre
  <2>2. \A v \in DOMAIN programCache' : v \in Wires /\ programCache'[v] \in Names
    BY <1>2, <1>3, <1>6, <2>1 DEF ProgramTypeOK
  <2>3. QED
    BY <1>1, <1>2, <2>2 DEF ProgramTypeOK
<1>8. CopyInv'
  BY <1>1, <1>4, <1>5, ServedCopy DEF AllTodo
<1>9. ASSUME NEW v \in DOMAIN programCache'
      PROVE  \/ programCache'[v] = programs[v] \/ v \in overlapped
             \/ \E e \in Dispatches : recording'[e] = "written" /\ Payload[e].wire = v
  <2>1. CASE v = w
    BY <1>4, <1>6, <2>1
  <2>2. CASE v # w
    <3>1. \/ programCache[v] = programs[v] \/ v \in overlapped
          \/ \E e \in Dispatches : recording[e] = "written" /\ Payload[e].wire = v
      BY <1>2, <1>6, <1>9, <2>2 DEF WireInv, P!CacheTellsTable
    <3>2. QED
      BY <1>5, <1>6, <1>9, <2>2, <3>1
  <2>3. QED
    BY <2>1, <2>2
<1>10. P!CacheTellsTable'
  BY <1>1, <1>9 DEF P!CacheTellsTable
<1>11. P!MissesAreNotCached'
  BY <1>1, <1>2, <1>4, <1>6 DEF WireInv, P!MissesAreNotCached, P!NoProgram
<1>12. \A e \in Dispatches : recording'[e] = "written" => recording[e] = "written"
  BY <1>5
<1>13. WireInv'
  BY <1>1, <1>2, <1>10, <1>11, <1>12 DEF WireInv
<1>14. QED
  BY <1>7, <1>8, <1>13 DEF ProgramInv

\* A step of one lookup that leaves table, cache and records alone.
LEMMA OneLookup ==
  ASSUME ProgramInv, NEW k \in Lookups,
         UNCHANGED <<programs, programCache, recording, stored, backfill, overlapped>>,
         NEW new \in [pc : {"idle", "read", "done"}, wire : Wires, found : Names],
         lookup' = [lookup EXCEPT ![k] = new],
         new.pc = "read" => new.found = programs[new.wire]
  PROVE  ProgramInv'
<1>1. ProgramTypeOK /\ WireInv /\ CopyInv
  BY DEF ProgramInv
<1>2. lookup'[k] = new /\ \A j \in Lookups \ {k} : lookup'[j] = lookup[j]
  BY <1>1 DEF ProgramTypeOK
<1>3. ProgramTypeOK'
  BY <1>1 DEF ProgramTypeOK
<1>4. CopyInv'
  BY <1>1 DEF CopyInv, AllTodo, P!Row, P!Alone
<1>5. P!CacheTellsTable' /\ P!MissesAreNotCached'
  BY <1>1 DEF WireInv, P!CacheTellsTable, P!MissesAreNotCached
<1>6. WireInv'
  BY <1>1, <1>2, <1>5 DEF WireInv
<1>7. QED
  BY <1>3, <1>4, <1>6 DEF ProgramInv

LEMMA FoundStep ==
  ASSUME ProgramInv, NEW k \in Lookups, P!Hit(k)
  PROVE  ProgramInv'
<1>1. /\ lookup[k] \in [pc : {"idle", "read", "done"}, wire : Wires, found : Names]
      /\ lookup \in [Lookups -> [pc : {"idle", "read", "done"}, wire : Wires, found : Names]]
      /\ \A w \in DOMAIN programCache : programCache[w] \in Names
  BY DEF ProgramInv, ProgramTypeOK
<1>2. UNCHANGED <<programs, programCache, recording, stored, backfill, overlapped>>
  BY DEF P!Hit
<1>3. PICK p \in Names : lookup' = [lookup EXCEPT ![k].pc = "done", ![k].found = p]
  BY <1>1 DEF P!Hit
<1> DEFINE new == [lookup[k] EXCEPT !.pc = "done", !.found = p]
<1>4. lookup' = [lookup EXCEPT ![k] = new]
  BY <1>1, <1>3
<1>5. /\ new \in [pc : {"idle", "read", "done"}, wire : Wires, found : Names]
      /\ new.pc = "read" => new.found = programs[new.wire]
  BY <1>1
<1> HIDE DEF new
<1>6. QED
  BY <1>2, <1>4, <1>5, OneLookup

LEMMA SelectStep ==
  ASSUME ProgramInv, NEW k \in Lookups, P!Select(k)
  PROVE  ProgramInv'
<1> DEFINE new == [lookup[k] EXCEPT !.pc = "read", !.found = programs[lookup[k].wire]]
<1>1. /\ lookup[k] \in [pc : {"idle", "read", "done"}, wire : Wires, found : Names]
      /\ lookup \in [Lookups -> [pc : {"idle", "read", "done"}, wire : Wires, found : Names]]
      /\ programs \in [Wires -> Names]
  BY DEF ProgramInv, ProgramTypeOK
<1>2. /\ UNCHANGED <<programs, programCache, recording, stored, backfill, overlapped>>
      /\ lookup' = [lookup EXCEPT ![k].pc = "read", ![k].found = programs[lookup[k].wire]]
  BY DEF P!Select
<1>3. lookup' = [lookup EXCEPT ![k] = new]
  BY <1>1, <1>2
<1>4. /\ new \in [pc : {"idle", "read", "done"}, wire : Wires, found : Names]
      /\ new.found = programs[new.wire]
  BY <1>1
<1> HIDE DEF new
<1>5. QED
  BY <1>2, <1>3, <1>4, OneLookup

LEMMA AgainStep ==
  ASSUME ProgramInv, NEW k \in Lookups, NEW w \in Wires, P!Again(k, w)
  PROVE  ProgramInv'
<1>1. /\ UNCHANGED <<programs, programCache, recording, stored, backfill, overlapped>>
      /\ lookup' = [lookup EXCEPT ![k] = P!Idle(w)]
  BY DEF P!Again
<1>2. P!Idle(w) \in [pc : {"idle", "read", "done"}, wire : Wires, found : Names] /\ P!Idle(w).pc # "read"
  BY ProgramsAre DEF P!Idle, Names
<1>3. QED
  BY <1>1, <1>2, OneLookup

LEMMA ResolveStep ==
  ASSUME ProgramInv, NEW k \in Lookups, P!Resolve(k)
  PROVE  ProgramInv'
<1> DEFINE w == lookup[k].wire
           p == lookup[k].found
           new == [lookup[k] EXCEPT !.pc = "done", !.found = IF p = "none" THEN w ELSE p]
<1>1. ProgramTypeOK /\ WireInv /\ CopyInv
  BY DEF ProgramInv
<1>2. /\ lookup[k].pc = "read"
      /\ programCache' = IF p = "none" THEN programCache ELSE P!Fill(w, p)
      /\ UNCHANGED <<programs, recording, stored, backfill, overlapped>>
  BY DEF P!Resolve, P!Learnt, P!NoProgram
<1>3. /\ lookup[k] \in [pc : {"idle", "read", "done"}, wire : Wires, found : Names]
      /\ lookup \in [Lookups -> [pc : {"idle", "read", "done"}, wire : Wires, found : Names]]
  BY <1>1 DEF ProgramTypeOK
<1>4. lookup' = [lookup EXCEPT ![k] = new]
  <2>1. lookup' = [lookup EXCEPT ![k].pc = "done", ![k].found = IF @ = "none" THEN w ELSE @]
    BY DEF P!Resolve, P!NoProgram, P!Alone
  <2>2. QED
    BY <1>3, <2>1
<1>5. new \in [pc : {"idle", "read", "done"}, wire : Wires, found : Names] /\ new.pc # "read"
  <2>1. (IF p = "none" THEN w ELSE p) \in Names
    BY <1>3 DEF Names
  <2>2. QED
    BY <1>3, <2>1
<1>6. p # "none" => programs[w] # "none" /\ (w \in overlapped \/ p = programs[w])
  BY <1>1, <1>2 DEF WireInv
<1>7. w \in Wires /\ p \in Names
  BY <1>3
<1> HIDE DEF new, w, p
<1>8. lookup'[k] = new /\ \A j \in Lookups \ {k} : lookup'[j] = lookup[j]
  BY <1>3, <1>4
<1>9. \A v \in DOMAIN programCache' :
        \/ v \in DOMAIN programCache /\ programCache'[v] = programCache[v]
        \/ p # "none" /\ v = w /\ programCache'[v] = p
  BY <1>2 DEF P!Fill
<1>10. ProgramTypeOK'
  BY <1>1, <1>2, <1>3, <1>4, <1>5, <1>7, <1>9 DEF ProgramTypeOK
<1>11. CopyInv'
  BY <1>1, <1>2 DEF CopyInv, AllTodo, P!Row, P!Alone
<1>12. P!CacheTellsTable' /\ P!MissesAreNotCached'
  BY <1>1, <1>2, <1>6, <1>9 DEF WireInv, P!CacheTellsTable, P!MissesAreNotCached, P!NoProgram
<1>13. WireInv'
  BY <1>1, <1>2, <1>5, <1>8, <1>12 DEF WireInv
<1>14. QED
  BY <1>10, <1>11, <1>13 DEF ProgramInv

LEMMA ProgramRestartStep == ProgramInv /\ P!ProgramRestart => ProgramInv'
<1> SUFFICES ASSUME ProgramInv, P!ProgramRestart PROVE ProgramInv'
  OBVIOUS
<1>1. /\ programCache' = << >> /\ overlapped' = {}
      /\ recording' = [d \in Dispatches |-> IF recording[d] = "written" THEN "done" ELSE recording[d]]
      /\ lookup' = [k \in Lookups |-> P!Idle(lookup[k].wire)]
      /\ backfill' = [backfill EXCEPT !.cursor = [ts |-> 0, id |-> 0]]
      /\ UNCHANGED <<programs, stored>>
  BY DEF P!ProgramRestart, P!Start
<1>2. ProgramTypeOK /\ WireInv /\ CopyInv
  BY DEF ProgramInv
<1>3. \A k \in Lookups : lookup'[k] = [pc |-> "idle", wire |-> lookup[k].wire, found |-> "none"]
  BY <1>1, ProgramsAre DEF P!Idle
<1>4. lookup' \in [Lookups -> [pc : {"idle", "read", "done"}, wire : Wires, found : Names]]
  <2>1. ASSUME NEW k \in Lookups
        PROVE  lookup'[k] \in [pc : {"idle", "read", "done"}, wire : Wires, found : Names]
    <3>1. "none" \in Names /\ lookup[k].wire \in Wires
      BY <1>2 DEF ProgramTypeOK, Names
    <3>2. lookup'[k] = [pc |-> "idle", wire |-> lookup[k].wire, found |-> "none"]
      BY <1>3
    <3>3. QED
      BY <3>1, <3>2
  <2>2. QED
    BY <1>1, <2>1
<1>5. DOMAIN programCache' = {}
  BY <1>1
<1>6. /\ backfill' \in [done : BOOLEAN, cursor : [ts : Nat, id : Nat]]
      /\ backfill'.done = backfill.done /\ backfill'.cursor.ts = 0 /\ backfill'.cursor.id = 0
  BY <1>1, <1>2 DEF ProgramTypeOK
<1>7. ProgramTypeOK'
  BY <1>1, <1>2, <1>4, <1>5, <1>6 DEF ProgramTypeOK
<1>8. WireInv'
  <2>1. ASSUME NEW k \in Lookups PROVE lookup'[k].pc = "idle"
    <3>1. lookup'[k] = P!Idle(lookup[k].wire)
      BY <1>1
    <3>2. QED
      BY <3>1 DEF P!Idle
  <2>2. \A d \in Dispatches : recording'[d] # "written"
    BY <1>1
  <2>3. QED
    BY <1>5, <2>1, <2>2 DEF WireInv, P!CacheTellsTable, P!MissesAreNotCached
<1>9. \A r \in Queued : P!Later(r, backfill'.cursor)
  BY <1>6, ProgramsAre DEF P!Later
<1>10. AllTodo' <=> AllTodo
  BY <1>1 DEF AllTodo
<1>11. \A w : P!Row(w)' = P!Row(w)
  BY <1>1 DEF P!Row, P!Alone
<1>12. CopyInv'
  BY <1>1, <1>2, <1>6, <1>9, <1>10, <1>11 DEF CopyInv
<1>13. QED
  BY <1>7, <1>8, <1>12 DEF ProgramInv

LEMMA ProgramStep == ProgramInv /\ [P!ProgramNext]_program => ProgramInv'
<1> SUFFICES ASSUME ProgramInv, [P!ProgramNext]_program PROVE ProgramInv'
  OBVIOUS
<1>1. CASE UNCHANGED program
  <2>1. ProgramTypeOK' /\ CopyInv'
    BY <1>1 DEF ProgramInv, ProgramTypeOK, CopyInv, AllTodo, P!Row, P!Alone, program
  <2>2. WireInv'
    BY <1>1 DEF ProgramInv, WireInv, P!CacheTellsTable, P!MissesAreNotCached, program
  <2>3. QED
    BY <2>1, <2>2 DEF ProgramInv
<1>2. ASSUME NEW d \in Dispatches, (\E ok \in BOOLEAN : P!Upsert(d, ok)) \/ P!CacheRecord(d)
      PROVE  ProgramInv'
  BY <1>2, RecordStep, CacheRecordStep
<1>3. ASSUME NEW k \in Lookups, P!Hit(k) \/ P!Select(k) \/ P!Resolve(k) \/ \E w \in Wires : P!Again(k, w)
      PROVE  ProgramInv'
  BY <1>3, FoundStep, SelectStep, ResolveStep, AgainStep
<1>4. ASSUME NEW n \in 0 .. PageSize - 1, P!CopyFails(n) PROVE ProgramInv'
  BY <1>4, CopyFailsStep
<1>5. QED
  BY <1>1, <1>2, <1>3, <1>4, CopyPageStep, CopyDoneStep, ProgramRestartStep DEF P!ProgramNext

LEMMA ProgramFacts == ProgramInv => P!ProgramsSound
<1> SUFFICES ASSUME ProgramInv PROVE P!ProgramsSound
  OBVIOUS
<1>1. P!CacheTellsTable /\ P!MissesAreNotCached /\ CopyInv
  BY DEF ProgramInv, WireInv
<1>2. ASSUME backfill.done, NEW r \in Queued, r.wire # "none"
      PROVE  /\ stored[r.key] # "none"
             /\ AllTodo => \E q \in Queued : q.key = r.key /\ q.wire # "none" /\ stored[r.key] = P!Row(q.wire)
  BY <1>1, <1>2, ProgramsAre DEF CopyInv
<1>3. P!HistoryCopied
  BY <1>2, ProgramsAre DEF P!HistoryCopied, AllTodo
<1>4. QED
  BY <1>1, <1>3 DEF P!ProgramsSound

\* The cache of dispatch-programs.ts says what its table says, short of a race; a miss is
\* not remembered; and when a first boot serves, every event it found in the outbox is in
\* the console's store under the program of its wire id.
THEOREM ProgramsCorrect == P!ProgramSpec => []P!ProgramsSound
<1>1. ProgramInv /\ [P!ProgramNext]_(P!programVars) => ProgramInv'
  BY ProgramStep DEF P!programVars, program
<1>2. QED
  BY <1>1, ProgramBase, ProgramFacts, PTL DEF P!ProgramSpec

\* What is answered from either cache is what its table says, also after a restart that
\* warms as many campaigns as there are.
THEOREM CachesCorrect == AllWarm => (MCSpec => []CachesHold)
<1> SUFFICES ASSUME AllWarm PROVE MCSpec => []CachesHold
  OBVIOUS
<1>1. MCInit => RestartInv /\ ProgramInv
  BY RegistryBase, ProgramBase DEF MCInit
<1>2. RestartInv /\ ProgramInv /\ [MCNext]_<<part, vars, registry, program, console>> => (RestartInv /\ ProgramInv)'
  BY RegistryStep, ProgramStep DEF MCNext
<1>3. RestartInv /\ ProgramInv => CachesHold
  BY RegistryFacts, ProgramFacts DEF CachesHold
<1>4. QED
  BY <1>1, <1>2, <1>3, PTL DEF MCSpec

-----------------------------------------------------------------------------
(* Lists and pages (Console).                                                *)

Keys == Nat \X Nat

\* Rows to be listed: finitely many, each with a key of its own.
Keyed(set) ==
  /\ IsFiniteSet(set)
  /\ \A r \in set : r.key \in Keys
  /\ \A r, s \in set : r.key = s.key => r = s

\* The instance has its own copy of the standard definitions.
LEMMA ConsoleSets ==
  /\ \A S : C!Cardinality(S) = Cardinality(S)
  /\ \A f : C!Range(f) = {f[x] : x \in DOMAIN f}
BY DEF C!Cardinality, Cardinality, C!Range

InOrder(s) == \A i, j \in DOMAIN s : i < j => C!Below(s[j].key, s[i].key)

LEMMA KeysInOrder ==
  /\ \A k \in Keys : ~C!Below(k, k)
  /\ \A k, l, m \in Keys : C!Below(k, l) /\ C!Below(l, m) => C!Below(k, m)
  /\ \A k, l \in Keys : C!Below(k, l) \/ k = l \/ C!Below(l, k)
BY DEF Keys, C!Below

LEMMA LeastNumber ==
  ASSUME NEW S \in SUBSET Nat, S # {}
  PROVE  \E n \in S : \A m \in S : n <= m
<1>1. PICK n \in S : \A m \in S : <<m, n>> \notin OpToRel(<, Nat)
  BY WFMin, NatLessThanWellFounded, Zenon
<1>2. \A m \in S : ~(m < n)
  BY <1>1, Zenon DEF OpToRel
<1>3. QED BY <1>2

\* What holds of 0, and of n + 1 where it holds of n, holds of every number.
LEMMA NumberInduction ==
  ASSUME NEW Q \in SUBSET Nat, 0 \in Q, \A n \in Q : n + 1 \in Q
  PROVE  Q = Nat
<1> SUFFICES ASSUME Nat \ Q # {} PROVE FALSE
  OBVIOUS
<1>1. PICK n \in Nat \ Q : \A m \in Nat \ Q : n <= m
  BY LeastNumber
<1>2. n # 0 /\ n - 1 \in Nat /\ n - 1 \in Q
  BY <1>1
<1>3. QED BY <1>1, <1>2

\* The last row of a list.
LEMMA LowestKey ==
  ASSUME NEW S, S # {}, \A r \in S : r.key \in Keys
  PROVE  \E x \in S : \A r \in S : ~C!Below(r.key, x.key)
<1> DEFINE times == {r.key[1] : r \in S}
<1>1. times \in SUBSET Nat /\ times # {}
  BY DEF Keys
<1> HIDE DEF times
<1>2. PICK t \in times : \A u \in times : t <= u
  BY <1>1, LeastNumber
<1> DEFINE names == {r.key[2] : r \in {q \in S : q.key[1] = t}}
<1>3. names \in SUBSET Nat /\ names # {}
  BY <1>2 DEF Keys, times
<1> HIDE DEF names
<1>4. PICK n \in names : \A m \in names : n <= m
  BY <1>3, LeastNumber
<1>5. PICK x \in S : x.key[1] = t /\ x.key[2] = n
  BY <1>4 DEF names
<1>6. ASSUME NEW r \in S PROVE ~C!Below(r.key, x.key)
  <2>1. t <= r.key[1] /\ (r.key[1] = t => n <= r.key[2])
    BY <1>2, <1>4 DEF times, names
  <2>2. r.key[1] \in Nat /\ r.key[2] \in Nat /\ t \in Nat /\ n \in Nat
    BY <1>5 DEF Keys
  <2>3. QED BY <2>1, <2>2, <1>5 DEF C!Below
<1>7. QED BY <1>6

\* Finitely many rows can be listed, whatever they are.
LEMMA OrderExists ==
  ASSUME NEW set, Keyed(set)
  PROVE  \E s \in [1 .. Cardinality(set) -> set] : InOrder(s)
<1> DEFINE Q == {n \in Nat : \A S \in SUBSET set : Cardinality(S) = n => \E s \in [1 .. n -> S] : InOrder(s)}
<1>1. 0 \in Q
  <2> SUFFICES ASSUME NEW S \in SUBSET set PROVE \E s \in [1 .. 0 -> S] : InOrder(s)
    OBVIOUS
  <2>1. [i \in 1 .. 0 |-> {}] \in [1 .. 0 -> S] /\ InOrder([i \in 1 .. 0 |-> {}])
    BY DEF InOrder
  <2>2. QED BY <2>1
<1>2. ASSUME NEW n \in Q PROVE n + 1 \in Q
  <2> SUFFICES ASSUME NEW S \in SUBSET set, Cardinality(S) = n + 1 PROVE \E s \in [1 .. n + 1 -> S] : InOrder(s)
    OBVIOUS
  <2>1. IsFiniteSet(S) /\ S # {}
    BY FS_Subset, FS_EmptySet DEF Keyed
  <2>2. PICK x \in S : \A r \in S : ~C!Below(r.key, x.key)
    BY <2>1, LowestKey DEF Keyed
  <2>3. Cardinality(S \ {x}) = n
    BY <2>1, FS_RemoveElement
  <2>4. PICK s \in [1 .. n -> S \ {x}] : InOrder(s)
    BY <2>3
  <2> DEFINE t == [i \in 1 .. n + 1 |-> IF i = n + 1 THEN x ELSE s[i]]
  <2>5. t \in [1 .. n + 1 -> S]
    OBVIOUS
  <2>6. t[n + 1] = x /\ \A i \in 1 .. n : t[i] = s[i] /\ s[i] \in S \ {x}
    OBVIOUS
  <2> HIDE DEF t
  <2>7. ASSUME NEW i \in 1 .. n + 1, NEW j \in 1 .. n + 1, i < j PROVE C!Below(t[j].key, t[i].key)
    <3>1. CASE j = n + 1
      <4>1. i \in 1 .. n /\ t[j] = x /\ t[i] \in S \ {x}
        BY <3>1, <2>6, <2>7
      <4>2. t[i].key # x.key /\ t[i].key \in Keys /\ x.key \in Keys /\ ~C!Below(t[i].key, x.key)
        BY <4>1, <2>2 DEF Keyed
      <4>3. QED BY <4>1, <4>2, KeysInOrder
    <3>2. CASE j # n + 1
      <4>1. i \in 1 .. n /\ j \in 1 .. n
        BY <3>2, <2>7
      <4>2. QED BY <4>1, <2>4, <2>6, <2>7 DEF InOrder
    <3>3. QED BY <3>1, <3>2
  <2>8. QED BY <2>5, <2>7 DEF InOrder
<1>3. Q = Nat
  <2>1. Q \in SUBSET Nat
    OBVIOUS
  <2> HIDE DEF Q
  <2>2. QED BY <1>1, <1>2, <2>1, NumberInduction
<1>4. Cardinality(set) \in Q /\ set \in SUBSET set
  BY <1>3, FS_CardinalityType DEF Keyed
<1>5. QED BY <1>4

\* What the listing is: every row once, in order.
LEMMA NewestIs ==
  ASSUME NEW set, Keyed(set)
  PROVE  /\ C!Newest(set) \in Seq(set) /\ Len(C!Newest(set)) = Cardinality(set)
         /\ InOrder(C!Newest(set))
         /\ \A r \in set : \E i \in 1 .. Len(C!Newest(set)) : C!Newest(set)[i] = r
<1> DEFINE s == C!Newest(set)
           n == Cardinality(set)
<1>1. s \in [1 .. n -> set] /\ InOrder(s)
  <2>1. s = CHOOSE q \in [1 .. n -> set] : InOrder(q)
    BY ConsoleSets DEF C!Newest, InOrder
  <2>2. \E q \in [1 .. n -> set] : InOrder(q)
    BY OrderExists
  <2> HIDE DEF s, n
  <2>3. QED BY <2>1, <2>2, Zenon
<1> HIDE DEF s
<1>2. n \in Nat /\ IsFiniteSet(1 .. n) /\ Cardinality(1 .. n) = n
  BY FS_CardinalityType, FS_Interval DEF Keyed
<1>3. ASSUME NEW i \in 1 .. n, NEW j \in 1 .. n, s[i] = s[j] PROVE i = j
  <2>1. i < j => C!Below(s[i].key, s[i].key)
    BY <1>1, <1>3 DEF InOrder
  <2>2. j < i => C!Below(s[i].key, s[i].key)
    BY <1>1, <1>3 DEF InOrder
  <2>3. s[i].key \in Keys
    BY <1>1 DEF Keyed
  <2>4. QED BY <2>1, <2>2, <2>3, <1>2, KeysInOrder
<1>4. s \in Injection(1 .. n, set)
  BY <1>1, <1>3 DEF Injection, IsInjective
<1>5. s \in Surjection(1 .. n, set)
  BY <1>2, <1>4, FS_Injection DEF Keyed
<1>6. s \in Seq(set) /\ Len(s) = n
  BY <1>1, <1>2
<1>7. QED BY <1>1, <1>5, <1>6 DEF s, Surjection

-----------------------------------------------------------------------------
(* A recipient's status, said three ways.                                    *)

Ranks == 1 .. 9

LEMMA StatusRanks ==
  /\ \A i \in Ranks : C!Rank(C!StatusOrder[i]) = i /\ C!StatusOrder[i] # "pending"
  /\ C!Rank("pending") = 10
  /\ C!Range(C!StatusOrder) = {C!StatusOrder[i] : i \in Ranks}
  /\ C!Statuses = {C!StatusOrder[i] : i \in Ranks} \cup {"pending"}
  /\ \A i \in Ranks : C!StatusOrder[i] # C!All
<1>1. Len(C!StatusOrder) = 9 /\ DOMAIN C!StatusOrder = Ranks
  BY DEF C!StatusOrder, Ranks
<1>2. \A i, j \in Ranks : C!StatusOrder[i] = C!StatusOrder[j] => i = j
  BY DEF C!StatusOrder, Ranks
<1>3. \A i \in Ranks : C!StatusOrder[i] # "pending" /\ C!StatusOrder[i] # "all"
  BY DEF C!StatusOrder, Ranks
<1>4. ASSUME NEW i \in Ranks PROVE C!Rank(C!StatusOrder[i]) = i
  <2>1. C!Rank(C!StatusOrder[i]) = CHOOSE j \in Ranks : C!StatusOrder[j] = C!StatusOrder[i]
    BY <1>1, <1>3 DEF C!Rank
  <2>2. \E j \in Ranks : C!StatusOrder[j] = C!StatusOrder[i]
    OBVIOUS
  <2>3. C!Rank(C!StatusOrder[i]) \in Ranks /\ C!StatusOrder[C!Rank(C!StatusOrder[i])] = C!StatusOrder[i]
    BY <2>1, <2>2, Zenon
  <2>4. QED BY <2>3, <1>2
<1>5. C!Rank("pending") = 10
  BY <1>1 DEF C!Rank
<1>6. C!Range(C!StatusOrder) = {C!StatusOrder[i] : i \in Ranks}
  BY <1>1, ConsoleSets
<1>7. QED BY <1>3, <1>4, <1>5, <1>6 DEF C!Statuses, C!All

\* The first raised flag names the status, and the list's condition says the same.
LEMMA HavingIsDerived ==
  ASSUME NEW mine, NEW s \in C!Statuses
  PROVE  C!Having(mine, s) <=> C!Derived(C!Raised(mine)) = s
<1> DEFINE up == {i \in Ranks : C!Flag(mine, C!StatusOrder[i])}
           derived == C!Derived(C!Raised(mine))
<1>1. C!Raised(mine) = {C!StatusOrder[i] : i \in up}
  BY StatusRanks DEF C!Raised
<1>2. CASE up = {}
  <2>1. derived = "pending"
    BY <1>1, <1>2 DEF C!Derived
  <2>2. CASE s = "pending"
    <3>1. \A i \in 1 .. (C!Rank(s) - 1) : ~C!Flag(mine, C!StatusOrder[i])
      BY <1>2, <2>2, StatusRanks DEF Ranks
    <3>2. QED BY <3>1, <2>1, <2>2 DEF C!Having
  <2>3. CASE s # "pending"
    <3>1. PICK i \in Ranks : s = C!StatusOrder[i]
      BY <2>3, StatusRanks
    <3>2. ~C!Flag(mine, s)
      BY <3>1, <1>2
    <3>3. QED BY <3>2, <2>1, <2>3 DEF C!Having
  <2>4. QED BY <2>2, <2>3
<1>3. CASE up # {}
  <2>1. up \in SUBSET Nat
    BY DEF Ranks
  <2> HIDE DEF up
  <2>2. PICK k \in up : \A i \in up : k <= i
    BY <2>1, <1>3, LeastNumber
  <2>3. k \in Ranks /\ C!Flag(mine, C!StatusOrder[k])
    BY DEF up
  <2>4. derived = C!StatusOrder[k]
    <3>1. derived = CHOOSE t \in C!Raised(mine) : \A u \in C!Raised(mine) : C!Rank(t) <= C!Rank(u)
      BY <1>1, <1>3 DEF C!Derived
    <3>2. C!StatusOrder[k] \in C!Raised(mine)
      BY <1>1
    <3>3. \A u \in C!Raised(mine) : C!Rank(C!StatusOrder[k]) <= C!Rank(u)
      BY <1>1, <2>2, StatusRanks DEF up
    <3>4. derived \in C!Raised(mine) /\ \A u \in C!Raised(mine) : C!Rank(derived) <= C!Rank(u)
      BY <3>1, <3>2, <3>3, Zenon
    <3>5. PICK j \in up : derived = C!StatusOrder[j]
      BY <1>1, <3>4
    <3>6. j <= k /\ k <= j /\ j \in Nat /\ k \in Nat
      BY <3>2, <3>4, <3>5, <2>1, <2>2, <2>3, StatusRanks DEF up
    <3>7. QED BY <3>5, <3>6
  <2>5. CASE s = "pending"
    <3>1. k \in 1 .. (C!Rank(s) - 1)
      BY <2>5, <2>3, StatusRanks DEF Ranks
    <3>2. QED BY <3>1, <2>3, <2>4, <2>5, StatusRanks DEF C!Having
  <2>6. CASE s # "pending"
    <3>1. PICK m \in Ranks : s = C!StatusOrder[m] /\ C!Rank(s) = m
      BY <2>6, StatusRanks
    <3>2. ASSUME C!Having(mine, s) PROVE m = k
      <4>1. m \in up
        BY <3>1, <3>2, <2>6 DEF C!Having, up
      <4>2. ~(k \in 1 .. (m - 1))
        BY <3>1, <3>2, <2>3 DEF C!Having
      <4>3. QED BY <4>1, <4>2, <2>1, <2>2, <2>3 DEF Ranks
    <3>3. ASSUME m = k PROVE C!Having(mine, s)
      <4>1. \A i \in 1 .. (m - 1) : i \notin up /\ i \in Ranks
        BY <3>3, <2>1, <2>2, <3>1 DEF Ranks
      <4>2. QED BY <4>1, <3>1, <3>3, <2>3 DEF C!Having, up
    <3>4. derived = s <=> m = k
      BY <3>1, <2>3, <2>4, StatusRanks
    <3>5. QED BY <3>2, <3>3, <3>4
  <2>7. QED BY <2>5, <2>6
<1>4. QED BY <1>2, <1>3

\* The count of a chip asks the same of a recipient.
LEMMA ChipCounts ==
  ASSUME NEW store, NEW s \in C!Statuses
  PROVE  C!Chip(store, s) = Cardinality({o \in C!OwnersIn(store) : C!Having(C!Of(store, o), s)})
<1>1. ASSUME NEW o
      PROVE  LET mine == C!Of(store, o)
                 prior == {C!StatusOrder[i] : i \in 1 .. (C!Rank(s) - 1)}
             IN prior \cap C!Raised(mine) = {} /\ (s = "pending" \/ s \in C!Raised(mine)) <=> C!Having(mine, s)
  <2> DEFINE mine == C!Of(store, o)
  <2>1. C!Rank(s) \in 1 .. 10
    BY StatusRanks DEF Ranks
  <2>2. \A i \in 1 .. (C!Rank(s) - 1) : C!StatusOrder[i] \in C!Raised(mine) <=> C!Flag(mine, C!StatusOrder[i])
    BY <2>1, StatusRanks DEF C!Raised, Ranks
  <2>3. s # "pending" => (s \in C!Raised(mine) <=> C!Flag(mine, s))
    BY StatusRanks DEF C!Raised
  <2> HIDE DEF mine
  <2>4. {C!StatusOrder[i] : i \in 1 .. (C!Rank(s) - 1)} \cap C!Raised(mine) = {}
          /\ (s = "pending" \/ s \in C!Raised(mine)) <=> C!Having(mine, s)
    BY <2>2, <2>3 DEF C!Having
  <2>5. QED BY <2>4 DEF mine
<1>2. QED BY <1>1, ConsoleSets DEF C!Chip

-----------------------------------------------------------------------------
(* What a list holds.                                                        *)

Marks == EventMarks \cup {"accepted", "ended", "settled", "failed", "info", "error", "pending", "delivering", "delivered", "all"}
TableRow == [id : Nat, of : Nat, at : Nat, mark : Marks]

TableOK(store) ==
  /\ IsFiniteSet(store) /\ store \subseteq TableRow
  /\ \A r, s \in store : r.id = s.id => r = s

LEMMA ListedCases ==
  ASSUME NEW store, NEW filter
  PROVE  /\ list = "recipients" => C!Listed(store, filter) = C!RecipientRows(store, filter)
         /\ list = "hub" => C!Listed(store, filter) = C!Programs(store)
         /\ list \notin {"recipients", "hub"} => C!Listed(store, filter) = C!OwnRows(store, filter)
BY Zenon DEF C!Listed

LEMMA GreatestNumber ==
  ASSUME NEW S \in SUBSET Nat, IsFiniteSet(S), S # {}
  PROVE  \E n \in S : \A m \in S : m <= n
<1> DEFINE Over(n) == {m \in S : n < m}
           sizes == {Cardinality(Over(n)) : n \in S}
<1>1. ASSUME NEW n \in S PROVE IsFiniteSet(Over(n)) /\ Cardinality(Over(n)) \in Nat
  BY FS_Subset, FS_CardinalityType
<1>2. sizes \in SUBSET Nat /\ sizes # {}
  BY <1>1
<1> HIDE DEF sizes, Over
<1>3. PICK c \in sizes : \A d \in sizes : c <= d
  BY <1>2, LeastNumber
<1>4. PICK n \in S : c = Cardinality(Over(n))
  BY DEF sizes
<1>5. ASSUME NEW m \in S, n < m PROVE FALSE
  <2>1. Over(m) \subseteq Over(n) /\ m \in Over(n) /\ m \notin Over(m)
    <3>1. \A k \in S : m < k => n < k
      BY <1>5
    <3>2. m \in Over(n) /\ m \notin Over(m)
      BY <1>5 DEF Over
    <3>3. Over(m) \subseteq Over(n)
      BY <3>1 DEF Over
    <3>4. QED BY <3>2, <3>3
  <2>2. Cardinality(Over(m)) <= Cardinality(Over(n)) /\ Cardinality(Over(m)) # Cardinality(Over(n))
    BY <2>1, <1>1, FS_Subset
  <2>3. Cardinality(Over(n)) <= Cardinality(Over(m))
    BY <1>3, <1>4 DEF sizes
  <2>4. QED BY <2>2, <2>3, <1>1
<1>6. QED BY <1>5

\* What a function makes of finitely many is finitely many.
LEMMA ImageIsFinite ==
  ASSUME NEW S, IsFiniteSet(S), NEW f, DOMAIN f = S
  PROVE  /\ IsFiniteSet({f[x] : x \in S})
         /\ (\A x, y \in S : f[x] = f[y] => x = y) => Cardinality({f[x] : x \in S}) = Cardinality(S)
<1> DEFINE T == {f[x] : x \in S}
           g == [x \in S |-> f[x]]
<1>1. g \in Surjection(S, T)
  BY DEF Surjection
<1>2. (\A x, y \in S : f[x] = f[y] => x = y) => g \in Injection(S, T)
  BY DEF Injection, IsInjective
<1> HIDE DEF g, T
<1>3. QED BY <1>1, <1>2, FS_Surjection DEF T

LEMMA LatestIs ==
  ASSUME NEW store, TableOK(store), NEW o \in C!OwnersIn(store)
  PROVE  /\ C!Latest(C!Of(store, o)) \in Nat /\ o \in Nat
         /\ \A r \in store : r.of = o => r.at <= C!Latest(C!Of(store, o))
         /\ \E r \in store : r.of = o /\ r.at = C!Latest(C!Of(store, o))
<1> DEFINE mine == C!Of(store, o)
           times == {r.at : r \in mine}
           f == [r \in mine |-> r.at]
<1>1. IsFiniteSet(mine) /\ mine # {} /\ mine \subseteq TableRow /\ o \in Nat
  BY FS_Subset DEF C!Of, C!OwnersIn, TableOK, TableRow
<1> HIDE DEF mine
<1>2. times = {f[r] : r \in mine} /\ DOMAIN f = mine
  OBVIOUS
<1> HIDE DEF f
<1>3. IsFiniteSet(times)
  BY <1>1, <1>2, ImageIsFinite
<1>4. times \in SUBSET Nat /\ times # {}
  BY <1>1 DEF TableRow
<1>5. C!Latest(mine) = CHOOSE t \in times : \A r \in mine : r.at <= t
  BY DEF C!Latest
<1>6. \E t \in times : \A r \in mine : r.at <= t
  <2> HIDE DEF times
  <2>1. PICK t \in times : \A u \in times : u <= t
    BY <1>3, <1>4, GreatestNumber
  <2>2. QED BY <2>1 DEF times
<1>7. C!Latest(mine) \in times /\ \A r \in mine : r.at <= C!Latest(mine)
  BY <1>5, <1>6, Zenon
<1>8. QED BY <1>1, <1>4, <1>7 DEF mine, C!Of

\* What every list is but for its filter: keys in order, and by name the latest row.
Tells(store, r) ==
  /\ \E x \in store : C!Name(x) = r.key[2] /\ x.at = r.key[1]
  /\ \A x \in store : C!Name(x) = r.key[2] => x.at <= r.key[1]

\* Recipients and programs, whatever is said of each.
Groups(store, S, said) == {[key |-> <<C!Latest(C!Of(store, o)), o>>, mark |-> said[o]] : o \in S}

LEMMA GroupsAreKeyed ==
  ASSUME NEW store, TableOK(store), NEW S \in SUBSET C!OwnersIn(store), NEW said,
         list \in {"recipients", "hub"}
  PROVE  /\ Keyed(Groups(store, S, said))
         /\ Cardinality(Groups(store, S, said)) = Cardinality(S)
         /\ \A r \in Groups(store, S, said) : Tells(store, r)
<1> DEFINE f == [o \in S |-> [key |-> <<C!Latest(C!Of(store, o)), o>>, mark |-> said[o]]]
           made == Groups(store, S, said)
<1>1. IsFiniteSet(C!OwnersIn(store))
  <2> DEFINE g == [r \in store |-> r.of]
  <2>1. C!OwnersIn(store) = {g[r] : r \in store} /\ DOMAIN g = store
    BY DEF C!OwnersIn
  <2> HIDE DEF g
  <2>2. QED BY <2>1, ImageIsFinite DEF TableOK
<1>2. IsFiniteSet(S)
  BY <1>1, FS_Subset
<1>3. made = {f[o] : o \in S} /\ DOMAIN f = S
  BY DEF Groups
<1>4. \A o, p \in S : f[o] = f[p] => o = p
  <2>1. ASSUME NEW o \in S, NEW p \in S, f[o] = f[p] PROVE o = p
    <3>1. f[o].key[2] = o /\ f[p].key[2] = p
      OBVIOUS
    <3> HIDE DEF f
    <3>2. QED BY <3>1, <2>1
  <2>2. QED BY <2>1
<1>5. IsFiniteSet(made) /\ Cardinality(made) = Cardinality(S)
  <2> HIDE DEF f, made
  <2>1. QED BY <1>2, <1>3, <1>4, ImageIsFinite
<1>6. ASSUME NEW r \in made
      PROVE  \E o \in S : r.key = <<C!Latest(C!Of(store, o)), o>> /\ r.mark = said[o] /\ r = f[o]
  BY DEF Groups
<1> HIDE DEF made, f
<1>7. ASSUME NEW r \in made PROVE r.key \in Keys /\ Tells(store, r)
  <2>1. PICK o \in S : r.key = <<C!Latest(C!Of(store, o)), o>>
    BY <1>6
  <2>2. \A x \in store : C!Name(x) = x.of
    BY DEF C!Name, C!Grouped
  <2>3. r.key[1] = C!Latest(C!Of(store, o)) /\ r.key[2] = o
    BY <2>1
  <2>4. QED BY <2>1, <2>2, <2>3, LatestIs DEF Tells, Keys
<1>8. ASSUME NEW r \in made, NEW s \in made, r.key = s.key PROVE r = s
  <2>1. PICK o \in S : r.key = <<C!Latest(C!Of(store, o)), o>> /\ r = f[o]
    BY <1>6
  <2>2. PICK p \in S : s.key = <<C!Latest(C!Of(store, p)), p>> /\ s = f[p]
    BY <1>6
  <2>3. r.key[2] = o /\ s.key[2] = p
    BY <2>1, <2>2
  <2>4. QED BY <2>1, <2>2, <2>3, <1>8
<1>9. Keyed(made) /\ \A r \in made : Tells(store, r)
  BY <1>5, <1>7, <1>8 DEF Keyed
<1>10. QED BY <1>5, <1>9 DEF made

LEMMA OwnRowsAreKeyed ==
  ASSUME NEW store, TableOK(store), NEW filter
  PROVE  /\ Keyed(C!OwnRows(store, filter))
         /\ Cardinality(C!OwnRows(store, "all")) = Cardinality(store)
         /\ \A r \in C!OwnRows(store, filter) :
              /\ filter # "all" => r.mark = filter
              /\ ~C!Grouped => Tells(store, r)
<1> DEFINE S == {s \in store : filter = "all" \/ s.mark = filter}
           f == [s \in store |-> [key |-> <<s.at, s.id>>, mark |-> s.mark]]
<1>1. C!OwnRows(store, filter) = {f[s] : s \in S} /\ C!OwnRows(store, "all") = {f[s] : s \in store}
  BY DEF C!OwnRows, C!All
<1>2. IsFiniteSet(S) /\ IsFiniteSet(store) /\ S \subseteq store
  BY FS_Subset DEF TableOK
<1>3. \A s \in store : f[s].key = <<s.at, s.id>> /\ f[s].mark = s.mark /\ f[s].key[1] = s.at /\ f[s].key[2] = s.id
  OBVIOUS
<1>4. \A s \in store : s.id \in Nat /\ s.at \in Nat
  BY DEF TableOK, TableRow
<1>5. \A r, s \in store : f[r].key = f[s].key => r = s
  BY <1>3 DEF TableOK
<1>6. IsFiniteSet({f[s] : s \in S})
  <2> DEFINE g == [s \in S |-> f[s]]
  <2>1. {f[s] : s \in S} = {g[s] : s \in S} /\ DOMAIN g = S
    BY <1>2
  <2> HIDE DEF g, f, S
  <2>2. QED BY <2>1, <1>2, ImageIsFinite
<1>7. Cardinality({f[s] : s \in store}) = Cardinality(store)
  <2>1. DOMAIN f = store
    OBVIOUS
  <2> HIDE DEF f
  <2>2. QED BY <2>1, <1>2, <1>5, ImageIsFinite
<1>8. \A s \in S : s \in store /\ (filter # "all" => s.mark = filter)
  OBVIOUS
<1> HIDE DEF f, S
<1>9. Keyed({f[s] : s \in S})
  <2>1. ASSUME NEW s \in S PROVE f[s].key \in Keys
    <3>1. f[s].key = <<s.at, s.id>> /\ s.at \in Nat /\ s.id \in Nat
      BY <1>3, <1>4, <1>8
    <3>2. QED BY <3>1 DEF Keys
  <2>2. \A r, s \in S : f[r].key = f[s].key => f[r] = f[s]
    BY <1>5, <1>8
  <2>3. QED BY <2>1, <2>2, <1>6 DEF Keyed
<1>10. ASSUME NEW s \in S, ~C!Grouped PROVE Tells(store, f[s])
  BY <1>3, <1>4, <1>8, <1>10 DEF Tells, C!Name, TableOK
<1>11. QED BY <1>1, <1>3, <1>7, <1>8, <1>9, <1>10

\* A filter that can be picked on a list.
Pickable(filter) ==
  /\ list = "recipients" => filter \in C!Statuses \cup {"all"}
  /\ list = "hub" => filter = "all"

LEMMA ListedIs ==
  ASSUME NEW store, TableOK(store), NEW filter
  PROVE  /\ Keyed(C!Listed(store, filter))
         /\ \A r \in C!Listed(store, filter) :
              /\ list # "rollup" => Tells(store, r)
              /\ filter # "all" /\ Pickable(filter) => r.mark = filter
<1>1. CASE list = "recipients"
  <2> DEFINE S == {p \in C!OwnersIn(store) : filter = "all" \/ C!Having(C!Of(store, p), filter)}
             said == [o \in S |-> C!Derived(C!Raised(C!Of(store, o)))]
  <2>1. C!Listed(store, filter) = {[key |-> <<C!Latest(C!Of(store, o)), o>>, mark |-> C!Derived(C!Raised(C!Of(store, o)))] : o \in S}
    BY <1>1, ListedCases DEF C!RecipientRows, C!All
  <2>2. C!Listed(store, filter) = Groups(store, S, said)
    BY <2>1 DEF Groups
  <2>3. S \in SUBSET C!OwnersIn(store)
    OBVIOUS
  <2>4. ASSUME NEW r \in C!Listed(store, filter), filter # "all", filter \in C!Statuses PROVE r.mark = filter
    <3>1. PICK o \in S : r.mark = C!Derived(C!Raised(C!Of(store, o)))
      BY <2>1
    <3>2. C!Having(C!Of(store, o), filter)
      BY <2>4
    <3>3. QED BY <3>1, <3>2, <2>4, HavingIsDerived
  <2> HIDE DEF S, said
  <2>5. Keyed(C!Listed(store, filter)) /\ \A r \in C!Listed(store, filter) : Tells(store, r)
    <3>1. Keyed(Groups(store, S, said)) /\ \A r \in Groups(store, S, said) : Tells(store, r)
      BY <1>1, <2>3, GroupsAreKeyed
    <3>2. QED BY <3>1, <2>2
  <2>6. Pickable(filter) /\ filter # "all" => filter \in C!Statuses
    BY <1>1 DEF Pickable
  <2>7. QED BY <2>4, <2>5, <2>6
<1>2. CASE list = "hub"
  <2> DEFINE S == C!OwnersIn(store)
             said == [o \in S |-> "all"]
  <2>1. C!Listed(store, filter) = Groups(store, S, said)
    BY <1>2, ListedCases DEF C!Programs, C!All, Groups
  <2>2. S \in SUBSET C!OwnersIn(store)
    OBVIOUS
  <2> HIDE DEF S, said
  <2>3. Keyed(Groups(store, S, said)) /\ \A r \in Groups(store, S, said) : Tells(store, r)
    BY <1>2, <2>2, GroupsAreKeyed
  <2>4. QED BY <1>2, <2>1, <2>3 DEF Pickable
<1>3. CASE list \notin {"recipients", "hub"}
  BY <1>3, ListedCases, OwnRowsAreKeyed DEF C!Grouped
<1>4. QED BY <1>1, <1>2, <1>3

-----------------------------------------------------------------------------
(* Pages.                                                                    *)

Cursors == Keys \cup {C!None}

\* A page of a list from a cursor on: in order, of the list, and whole down to its own cursor.
PageSays(p, rows, cursor) ==
  /\ p.rows \in Seq(rows) /\ InOrder(p.rows)
  /\ \A i \in DOMAIN p.rows : cursor = C!None \/ C!Below(p.rows[i].key, cursor)
  /\ p.next = C!None \/ (p.rows # <<>> /\ p.next = p.rows[Len(p.rows)].key)
  /\ \A r \in rows :
       (cursor = C!None \/ C!Below(r.key, cursor)) /\ (p.next = C!None \/ ~C!Below(r.key, p.next)) =>
         \E i \in DOMAIN p.rows : p.rows[i] = r

LEMMA PageIs ==
  ASSUME NEW store, TableOK(store), NEW filter, NEW cursor
  PROVE  PageSays(C!Page(store, filter, cursor), C!Listed(store, filter), cursor)
<1> DEFINE L == {r \in C!Listed(store, filter) : cursor = C!None \/ C!Below(r.key, cursor)}
           s == C!Newest(L)
           k == IF Len(s) > PageLimit THEN PageLimit ELSE Len(s)
           page == SubSeq(s, 1, k)
           p == C!Page(store, filter, cursor)
<1>1. p = [rows |-> page, next |-> IF Len(s) > PageLimit THEN page[PageLimit].key ELSE C!None]
  BY DEF C!Page
<1>2. Keyed(C!Listed(store, filter)) /\ L \subseteq C!Listed(store, filter)
  BY ListedIs
<1>3. Keyed(L)
  BY <1>2, FS_Subset DEF Keyed
<1>0. /\ \A r \in L : cursor = C!None \/ C!Below(r.key, cursor)
      /\ \A r \in C!Listed(store, filter) : (cursor = C!None \/ C!Below(r.key, cursor)) => r \in L
  OBVIOUS
<1> HIDE DEF L
<1>4. s \in Seq(L) /\ InOrder(s) /\ \A r \in L : \E i \in 1 .. Len(s) : s[i] = r
  BY <1>3, NewestIs
<1> HIDE DEF s
<1>5. PageLimit \in Nat \ {0}
  BY StoresAssumption DEF StoresAssumption, C!ConsoleAssumption
<1>6. k \in 0 .. Len(s) /\ Len(s) \in Nat /\ (Len(s) > PageLimit => k = PageLimit) /\ (~(Len(s) > PageLimit) => k = Len(s))
  BY <1>4, <1>5
<1> HIDE DEF k
<1>7. page \in Seq(L) /\ Len(page) = k /\ \A i \in 1 .. k : page[i] = s[i]
  BY <1>4, <1>6
<1> HIDE DEF page
<1>8. DOMAIN page = 1 .. k /\ DOMAIN s = 1 .. Len(s)
  BY <1>4, <1>7
<1>15. \A i, j \in 1 .. Len(s) : i < j => C!Below(s[j].key, s[i].key)
  BY <1>4, <1>8 DEF InOrder
<1>16. \A i \in 1 .. k : i \in 1 .. Len(s)
  BY <1>6
<1>17. \A i \in 1 .. k : page[i] = s[i] /\ page[i] \in L
  BY <1>4, <1>7, <1>8, <1>16
<1>9. InOrder(page)
  BY <1>8, <1>15, <1>16, <1>17 DEF InOrder
<1>10. page \in Seq(C!Listed(store, filter))
  BY <1>2, <1>7
<1>11. \A i \in DOMAIN page : cursor = C!None \/ C!Below(page[i].key, cursor)
  BY <1>0, <1>8, <1>17
<1>12. p.rows = page /\ p.next = IF Len(s) > PageLimit THEN page[PageLimit].key ELSE C!None
  BY <1>1
<1> HIDE DEF p
<1>13. ASSUME Len(s) > PageLimit PROVE PageSays(p, C!Listed(store, filter), cursor)
  <2>1. k = PageLimit /\ k \in 1 .. k /\ page # <<>> /\ p.next = page[Len(page)].key /\ page[k] = s[k]
    BY <1>5, <1>6, <1>7, <1>12, <1>13
  <2>2. ASSUME NEW r \in L, ~C!Below(r.key, p.next) PROVE \E i \in DOMAIN page : page[i] = r
    <3>1. PICK i \in 1 .. Len(s) : s[i] = r
      BY <1>4
    <3>0. k \in 1 .. Len(s)
      BY <2>1, <1>16
    <3>2. i > k => C!Below(s[i].key, s[k].key)
      BY <1>6, <1>15, <2>1, <3>0
    <3>3. i \in 1 .. k
      BY <3>1, <3>2, <2>1, <2>2, <1>6, <1>7
    <3>4. QED BY <3>1, <3>3, <1>7, <1>8
  <2>3. \A r \in C!Listed(store, filter) : (cursor = C!None \/ C!Below(r.key, cursor)) => r \in L
    BY <1>0
  <2>4. p.next # C!None
    <3>1. page[k].key \in Keys
      BY <2>1, <1>3, <1>17 DEF Keyed
    <3>2. p.next = page[k].key
      BY <2>1, <1>7
    <3>3. \A c \in Keys : c # <<>>
      BY DEF Keys
    <3>4. QED BY <3>1, <3>2, <3>3 DEF C!None
  <2>5. QED BY <1>9, <1>10, <1>11, <1>12, <2>1, <2>2, <2>3, <2>4, Zenon DEF PageSays
<1>14. ASSUME ~(Len(s) > PageLimit) PROVE PageSays(p, C!Listed(store, filter), cursor)
  <2>1. p.next = C!None /\ k = Len(s)
    BY <1>6, <1>12, <1>14
  <2>2. \A r \in C!Listed(store, filter) : (cursor = C!None \/ C!Below(r.key, cursor)) => \E i \in DOMAIN page : page[i] = r
    BY <2>1, <1>0, <1>4, <1>8, <1>17
  <2>3. QED BY <1>9, <1>10, <1>11, <1>12, <2>1, <2>2, Zenon DEF PageSays
<1>18. QED BY <1>13, <1>14 DEF p

\* How many rows stand above one.
LEMMA PlaceInOrder ==
  ASSUME NEW set, Keyed(set), NEW i \in 1 .. Len(C!Newest(set))
  PROVE  Cardinality({r \in set : C!Below(C!Newest(set)[i].key, r.key)}) = i - 1
<1> DEFINE s == C!Newest(set)
           above == {r \in set : C!Below(s[i].key, r.key)}
           f == [j \in 1 .. (i - 1) |-> s[j]]
<1>1. s \in Seq(set) /\ InOrder(s) /\ \A r \in set : \E j \in 1 .. Len(s) : s[j] = r
  BY NewestIs
<1> HIDE DEF s
<1>2. Len(s) \in Nat /\ i \in 1 .. Len(s) /\ DOMAIN s = 1 .. Len(s)
  BY <1>1 DEF s
<1>3. \A j \in 1 .. Len(s) : s[j] \in set /\ s[j].key \in Keys
  BY <1>1, <1>2 DEF Keyed
<1>4. \A j \in 1 .. Len(s) : C!Below(s[i].key, s[j].key) <=> j < i
  <2> TAKE j \in 1 .. Len(s)
  <2>1. j < i => C!Below(s[i].key, s[j].key)
    BY <1>1, <1>2 DEF InOrder
  <2>2. i < j => C!Below(s[j].key, s[i].key)
    BY <1>1, <1>2 DEF InOrder
  <2>3. QED BY <2>1, <2>2, <1>2, <1>3, KeysInOrder
<1>5. above = {f[j] : j \in 1 .. (i - 1)}
  <2>1. \A j \in 1 .. (i - 1) : j \in 1 .. Len(s) /\ f[j] = s[j] /\ j < i
    BY <1>2
  <2> HIDE DEF f
  <2>2. ASSUME NEW r \in above PROVE \E j \in 1 .. (i - 1) : r = f[j]
    <3>1. PICK j \in 1 .. Len(s) : s[j] = r
      BY <1>1
    <3>2. j \in 1 .. (i - 1)
      BY <3>1, <1>2, <1>4
    <3>3. QED BY <3>1, <3>2, <2>1
  <2>3. \A j \in 1 .. (i - 1) : f[j] \in above
    BY <2>1, <1>3, <1>4
  <2> HIDE DEF above
  <2>4. QED BY <2>2, <2>3
<1>6. \A j, l \in 1 .. (i - 1) : f[j] = f[l] => j = l
  <2>1. \A j \in 1 .. (i - 1) : j \in 1 .. Len(s) /\ f[j] = s[j]
    BY <1>2
  <2>2. \A j, l \in 1 .. Len(s) : j < l => s[j] # s[l]
    BY <1>1, <1>2, <1>3, KeysInOrder DEF InOrder
  <2> HIDE DEF f
  <2>3. QED BY <2>1, <2>2, <1>2
<1>7. IsFiniteSet(1 .. (i - 1)) /\ Cardinality(1 .. (i - 1)) = i - 1
  <2>1. i - 1 \in Int /\ i >= 1 /\ 1 \in Int
    BY <1>2
  <2>2. QED BY <2>1, FS_Interval
<1>8. DOMAIN f = 1 .. (i - 1)
  OBVIOUS
<1> HIDE DEF f, above
<1>9. Cardinality(above) = i - 1
  <2> DEFINE J == 1 .. (i - 1)
  <2>1. above = {f[j] : j \in J} /\ (\A j, l \in J : f[j] = f[l] => j = l) /\ DOMAIN f = J
    BY <1>5, <1>6, <1>8
  <2>2. IsFiniteSet(J) /\ Cardinality(J) = i - 1
    BY <1>7
  <2> HIDE DEF J
  <2>3. Cardinality({f[j] : j \in J}) = Cardinality(J)
    <3>1. \A g, T : IsFiniteSet(T) /\ DOMAIN g = T /\ (\A q, p \in T : g[q] = g[p] => q = p) =>
            Cardinality({g[q] : q \in T}) = Cardinality(T)
      BY ImageIsFinite
    <3>2. QED BY <2>1, <2>2, <3>1
  <2>4. QED BY <2>1, <2>2, <2>3
<1>10. QED BY <1>9 DEF above, s

-----------------------------------------------------------------------------
(* What the writers leave.                                                   *)

\* The invariants of rows: stamps are not ahead of the clock where the writer stamps
\* them, no id comes back, and a rollup has its program's name.
RowsOK(store, upTo, past) ==
  /\ TableOK(store)
  /\ \A x \in store : /\ list \notin {"recipients", "events"} => x.at <= upTo
                      /\ C!Moving \/ x.id \notin past
                      /\ list = "rollup" => x.id = x.of

\* Of every name that stays and was not moved down there is a row no older than any
\* before, and what stood above a row that stays still stands above it.
Follows(store) ==
  /\ C!Moving \/ C!Lowered(store) = {}
  /\ \A x \in listed : (\E y \in store : C!Name(y) = C!Name(x)) =>
       C!Name(x) \in C!Lowered(store) \/ \E y \in store : C!Name(y) = C!Name(x) /\ y.at >= x.at
  /\ list \in C!PageLists /\ C!Lowered(store) = {} =>
       \A x \in listed, y \in store :
         C!Below(<<y.at, y.id>>, <<x.at, x.id>>) => \E z \in store : z.id = x.id /\ z.at >= x.at

LEMMA RowAdded ==
  ASSUME RowsOK(listed, now, gone), NEW x \in TableRow, \A y \in listed : y.id # x.id,
         list \notin {"recipients", "events"} => x.at <= now,
         C!Moving \/ x.id \notin gone, list = "rollup" => x.id = x.of
  PROVE  RowsOK(listed \cup {x}, now, gone) /\ Follows(listed \cup {x})
<1>1. IsFiniteSet(listed \cup {x})
  BY FS_AddElement DEF RowsOK, TableOK
<1>2. TableOK(listed \cup {x})
  BY <1>1 DEF RowsOK, TableOK
<1>3. \A y \in listed \cup {x} : y \in listed \/ y = x
  OBVIOUS
<1>4. RowsOK(listed \cup {x}, now, gone)
  BY <1>2, <1>3 DEF RowsOK
<1>5. \A y \in listed : y \in listed \cup {x} /\ y.at >= y.at /\ ~(y.at < y.at)
  BY DEF RowsOK, TableOK, TableRow
<1>6. C!Lowered(listed \cup {x}) = {}
  BY <1>3, <1>5 DEF C!Lowered, RowsOK, TableOK
<1>7. QED BY <1>4, <1>5, <1>6 DEF Follows

\* A row is replaced by another form of itself, a later one unless rows move.
LEMMA RowReplaced ==
  ASSUME RowsOK(listed, now, gone), NEW r \in listed, NEW x \in TableRow,
         x.id = r.id, x.of = r.of, r.at <= x.at \/ C!Moving,
         list \notin {"recipients", "events"} => x.at <= now
  PROVE  RowsOK((listed \ {r}) \cup {x}, now, gone) /\ Follows((listed \ {r}) \cup {x})
<1> DEFINE store == (listed \ {r}) \cup {x}
<1>1. IsFiniteSet(store)
  BY FS_AddElement, FS_RemoveElement DEF RowsOK, TableOK
<1>2. \A y \in store : (y \in listed /\ y # r) \/ y = x
  OBVIOUS
<1>3. x \in store /\ \A y \in listed : y = r \/ y \in store
  OBVIOUS
<1>4. \A y \in listed : y \in TableRow /\ (y.id = r.id => y = r)
  BY DEF RowsOK, TableOK
<1> HIDE DEF store
<1>5. store \subseteq TableRow
  BY <1>2, <1>4
<1>6. TableOK(store)
  BY <1>1, <1>2, <1>4, <1>5 DEF RowsOK, TableOK
<1>7. C!Name(x) = C!Name(r)
  BY DEF C!Name
<1>8. RowsOK(store, now, gone)
  BY <1>2, <1>6 DEF RowsOK
<1>9. /\ \A y \in listed : y.at >= y.at /\ ~(y.at < y.at)
      /\ r.at \in Nat /\ x.at \in Nat
  BY <1>4 DEF TableRow
<1>10. Follows(store)
  <2>1. CASE r.at <= x.at
    <3>1. C!Lowered(store) = {}
      <4>1. ASSUME NEW q \in listed, NEW y \in store, y.id = q.id PROVE ~(y.at < q.at)
        <5>1. CASE y = x
          BY <5>1, <4>1, <1>4, <1>9, <2>1
        <5>2. CASE y # x
          BY <5>2, <4>1, <1>2, <1>6, <1>8, <1>9 DEF RowsOK, TableOK
        <5>3. QED BY <5>1, <5>2
      <4>2. QED BY <4>1 DEF C!Lowered
    <3>2. \A y \in listed : \E z \in store : z.id = y.id /\ C!Name(z) = C!Name(y) /\ z.at >= y.at
      <4> TAKE y \in listed
      <4>1. CASE y = r
        BY <4>1, <1>3, <1>7, <1>9, <2>1
      <4>2. CASE y # r
        BY <4>2, <1>3, <1>9
      <4>3. QED BY <4>1, <4>2
    <3>3. QED BY <3>1, <3>2 DEF Follows
  <2>2. CASE x.at < r.at
    <3>1. C!Name(r) \in C!Lowered(store)
      BY <1>3, <2>2 DEF C!Lowered
    <3>2. C!Moving
      BY <1>9, <2>2
    <3>3. QED BY <1>3, <1>7, <1>9, <3>1, <3>2 DEF Follows
  <2>3. QED BY <1>9, <2>1, <2>2
<1>11. QED BY <1>8, <1>10 DEF store

\* What a writer makes of the table.
Writes == \E store : RowsOK(store, now, gone) /\ Follows(store) /\ C!Rewritten(store)

LEMMA FreeIds ==
  ASSUME RowsOK(listed, now, gone)
  PROVE  /\ \A id \in C!Free : /\ id \in Nat /\ \A y \in listed : y.id # id
                               /\ C!Moving \/ id \notin gone
         /\ C!Owning \subseteq Nat
<1>1. RowIds \subseteq Nat /\ Owners \subseteq Nat
  BY StoresAssumption DEF StoresAssumption, C!ConsoleAssumption
<1>2. ASSUME NEW id \in C!Free PROVE id \in RowIds \ {r.id : r \in listed} /\ (C!Moving \/ id \notin gone)
  BY <1>2 DEF C!Free, C!Moving
<1>3. C!Owning \subseteq Owners
  BY DEF C!Owning
<1>4. QED BY <1>1, <1>2, <1>3

LEMMA Added ==
  ASSUME RowsOK(listed, now, gone), NEW id \in C!Free, NEW o \in Nat, NEW t \in Nat, NEW m \in Marks,
         list # "rollup", list \notin {"recipients", "events"} => t <= now
  PROVE  LET x == [id |-> id, of |-> o, at |-> t, mark |-> m]
         IN  RowsOK(listed \cup {x}, now, gone) /\ Follows(listed \cup {x})
<1> DEFINE x == [id |-> id, of |-> o, at |-> t, mark |-> m]
<1>1. x \in TableRow /\ x.id = id /\ x.at = t
  BY FreeIds DEF TableRow
<1> HIDE DEF x
<1>2. RowsOK(listed \cup {x}, now, gone) /\ Follows(listed \cup {x})
  BY <1>1, FreeIds, RowAdded
<1>3. QED BY <1>2 DEF x

LEMMA Written ==
  ASSUME RowsOK(listed, now, gone), now \in Nat,
         C!Arrive \/ C!Accept \/ C!Settle \/ C!AcceptLate \/ C!Queue \/ C!Work \/ C!Line \/ C!Roll
           \/ C!Prune
  PROVE  Writes
<1>1. MaxNow \in Nat /\ now \in Nat /\ C!Owning \subseteq Nat /\ Owners \subseteq Nat
  BY FreeIds, StoresAssumption DEF StoresAssumption, C!ConsoleAssumption
<1>2. \A x \in listed : x \in TableRow
  BY DEF RowsOK, TableOK
<1>3. CASE C!Arrive
  <2>1. PICK id \in C!Free, o \in C!Owning, t \in 1 .. MaxNow, m \in EventMarks :
          C!Rewritten(listed \cup {[id |-> id, of |-> o, at |-> t, mark |-> m]})
    BY <1>3 DEF C!Arrive
  <2>2. m \in Marks /\ t \in Nat /\ o \in Nat /\ list \in {"recipients", "events"}
    BY <1>1, <1>3, <2>1 DEF Marks, C!Arrive
  <2>3. QED BY <2>1, <2>2, Added DEF Writes
<1>4. CASE C!Accept
  <2>1. PICK id \in C!Free, o \in C!Owning, t \in 1 .. now, m \in {"accepted", "ended"} :
          C!Rewritten(listed \cup {[id |-> id, of |-> o, at |-> t, mark |-> m]})
    BY <1>4 DEF C!Accept
  <2>2. m \in Marks /\ t \in Nat /\ o \in Nat /\ list # "rollup" /\ t <= now
    BY <1>1, <1>4, <2>1 DEF Marks, C!Accept
  <2>3. QED BY <2>1, <2>2, Added DEF Writes
<1>5. CASE C!Settle
  <2>1. PICK r \in listed, t \in 1 .. now :
          r.at <= t /\ C!Rewritten((listed \ {r}) \cup {[r EXCEPT !.at = t, !.mark = "settled"]})
    BY <1>5 DEF C!Settle
  <2> DEFINE x == [r EXCEPT !.at = t, !.mark = "settled"]
  <2>0. "settled" \in Marks /\ t \in Nat /\ t <= now /\ r \in TableRow
    BY <1>1, <1>2 DEF Marks
  <2>2. x \in TableRow /\ x.id = r.id /\ x.of = r.of /\ x.at = t
    BY <2>0 DEF TableRow
  <2>3. C!Rewritten((listed \ {r}) \cup {x})
    BY <2>1
  <2> HIDE DEF x
  <2>4. QED BY <2>0, <2>1, <2>2, <2>3, RowReplaced DEF Writes
<1>l. CASE C!AcceptLate
  <2>1. PICK r \in listed, t \in 1 .. now :
          C!Rewritten((listed \ {r}) \cup {[r EXCEPT !.at = t, !.mark = "settled"]})
    BY <1>l DEF C!AcceptLate
  <2> DEFINE x == [r EXCEPT !.at = t, !.mark = "settled"]
  <2>0. "settled" \in Marks /\ t \in Nat /\ t <= now /\ r \in TableRow
    BY <1>1, <1>2 DEF Marks
  <2>2. x \in TableRow /\ x.id = r.id /\ x.of = r.of /\ x.at = t
    BY <2>0 DEF TableRow
  <2>3. C!Rewritten((listed \ {r}) \cup {x})
    BY <2>1
  <2>4. C!Moving
    BY <1>l DEF C!AcceptLate, C!Moving, C!Grouped
  <2> HIDE DEF x
  <2>5. QED BY <2>0, <2>2, <2>3, <2>4, RowReplaced DEF Writes
<1>6. CASE C!Queue
  <2>1. PICK id \in C!Free, o \in C!Owning :
          C!Rewritten(listed \cup {[id |-> id, of |-> o, at |-> now, mark |-> "pending"]})
    BY <1>6 DEF C!Queue
  <2>2. "pending" \in Marks /\ o \in Nat /\ list # "rollup" /\ now <= now
    BY <1>1, <1>6 DEF Marks, C!Queue
  <2>3. QED BY <1>1, <2>1, <2>2, Added DEF Writes
<1>7. CASE C!Work
  <2>1. PICK r \in listed, m \in C!OutboxStatuses :
          C!Rewritten((listed \ {r}) \cup {[r EXCEPT !.mark = m]})
    BY <1>7 DEF C!Work
  <2> DEFINE x == [r EXCEPT !.mark = m]
  <2>2. x \in TableRow /\ x.id = r.id /\ x.of = r.of /\ x.at = r.at /\ r.at \in Nat
    BY <1>2 DEF Marks, TableRow, C!OutboxStatuses
  <2>3. list \notin {"recipients", "events"} => r.at <= now
    BY DEF RowsOK
  <2>4. C!Rewritten((listed \ {r}) \cup {x})
    BY <2>1
  <2> HIDE DEF x
  <2>5. QED BY <2>2, <2>3, <2>4, RowReplaced DEF Writes
<1>8. CASE C!Line
  <2>1. PICK id \in C!Free, o \in C!Owning, t \in (IF list = "sends" THEN {now} ELSE 1 .. now), m \in C!Levels :
          C!Rewritten(listed \cup {[id |-> id, of |-> o, at |-> t, mark |-> m]})
    BY <1>8 DEF C!Line
  <2>2. m \in Marks /\ t \in Nat /\ o \in Nat /\ list # "rollup" /\ t <= now
    BY <1>1, <1>8 DEF Marks, C!Line, C!Levels
  <2>3. QED BY <2>1, <2>2, Added DEF Writes
<1>9. CASE C!Roll
  <2>1. PICK o \in Owners, t \in 1 .. now :
          C!Rewritten((listed \ C!Of(listed, o)) \cup {[id |-> o, of |-> o, at |-> t, mark |-> C!All]})
    BY <1>9 DEF C!Roll
  <2> DEFINE x == [id |-> o, of |-> o, at |-> t, mark |-> C!All]
  <2>2. x \in TableRow /\ x.id = o /\ x.of = o /\ x.at = t /\ t <= now
    BY <1>1 DEF Marks, TableRow, C!All
  <2>3. C!Rewritten((listed \ C!Of(listed, o)) \cup {x})
    BY <2>1
  <2> HIDE DEF x
  <2>4. list = "rollup" /\ C!Moving /\ \A y \in listed : y.id = y.of
    BY <1>9 DEF C!Roll, C!Grouped, C!Moving, RowsOK
  <2>5. CASE \E r \in listed : r.of = o
    <3>1. PICK r \in listed : r.of = o
      BY <2>5
    <3>2. C!Of(listed, o) = {r}
      BY <2>4, <3>1 DEF C!Of, RowsOK, TableOK
    <3>3. x.id = r.id
      BY <2>2, <2>4, <3>1
    <3>4. RowsOK((listed \ {r}) \cup {x}, now, gone) /\ Follows((listed \ {r}) \cup {x})
      BY <2>2, <2>4, <3>1, <3>3, RowReplaced
    <3>5. QED BY <2>3, <3>2, <3>4 DEF Writes
  <2>6. CASE \A r \in listed : r.of # o
    <3>1. C!Of(listed, o) = {}
      BY <2>6 DEF C!Of
    <3>2. listed \ C!Of(listed, o) = listed
      BY <3>1
    <3>3. RowsOK(listed \cup {x}, now, gone) /\ Follows(listed \cup {x})
      BY <2>2, <2>4, <2>6, <1>1, RowAdded
    <3>4. QED BY <2>3, <3>2, <3>3 DEF Writes
  <2>7. QED BY <2>5, <2>6
<1>10. CASE C!Prune
  <2>1. PICK t \in 1 .. MaxNow :
          C!Rewritten(listed \ {r \in listed : r.at < t /\ (list = "outbox" => r.mark \in {"delivered", "failed"})})
    BY <1>10 DEF C!Prune
  <2> DEFINE store == listed \ {r \in listed : r.at < t /\ (list = "outbox" => r.mark \in {"delivered", "failed"})}
  <2>2. /\ store \subseteq listed
        /\ \A x \in listed : x.at >= t => x \in store
        /\ list # "outbox" => \A y \in store : y.at >= t
    BY <1>1, <1>2 DEF TableRow
  <2>3. C!Rewritten(store) /\ t \in Nat
    BY <2>1, <1>1
  <2> HIDE DEF store
  <2>4. RowsOK(store, now, gone)
    <3>1. TableOK(store)
      BY <2>2, FS_Subset DEF RowsOK, TableOK
    <3>2. QED BY <2>2, <3>1 DEF RowsOK
  <2>5. Follows(store)
    <3>1. ASSUME NEW x \in listed, NEW y \in store, C!Name(y) = C!Name(x)
          PROVE  \E z \in store : C!Name(z) = C!Name(x) /\ z.at >= x.at
      <4>1. x \in TableRow /\ y \in TableRow /\ y \in listed
        BY <1>2, <2>2
      <4>2. CASE list = "outbox"
        <5>1. x = y
          BY <3>1, <4>1, <4>2 DEF C!Name, C!Grouped, RowsOK, TableOK
        <5>2. QED BY <4>1, <5>1 DEF TableRow
      <4>3. CASE list # "outbox"
        <5>1. y.at >= t
          BY <2>2, <4>3
        <5>2. x.at >= t => x \in store
          BY <2>2
        <5>3. QED BY <2>3, <3>1, <4>1, <5>1, <5>2 DEF TableRow
      <4>4. QED BY <4>2, <4>3
    <3>2. ASSUME list \in C!PageLists, NEW x \in listed, NEW y \in store, C!Below(<<y.at, y.id>>, <<x.at, x.id>>)
          PROVE  x \in store /\ x.at >= x.at
      <4>1. x \in TableRow /\ y \in TableRow /\ y.at >= t
        BY <1>2, <2>2, <3>2 DEF C!PageLists
      <4>2. y.at <= x.at
        BY <3>2, <4>1 DEF C!Below, TableRow
      <4>3. QED BY <2>2, <2>3, <4>1, <4>2 DEF TableRow
    <3>3. C!Lowered(store) = {}
      BY <1>2, <2>2 DEF C!Lowered, RowsOK, TableOK, TableRow
    <3>4. QED BY <3>1, <3>2, <3>3 DEF Follows
  <2>6. QED BY <2>3, <2>4, <2>5 DEF Writes
<1>11. QED BY <1>3, <1>4, <1>5, <1>l, <1>6, <1>7, <1>8, <1>9, <1>10

-----------------------------------------------------------------------------
(* What a tab shows.                                                         *)

Called(grouped, x) == IF grouped THEN x.of ELSE x.id

\* In order down to the cursor, and of the filter.
Ordered(s, cursor, filter) ==
  /\ (\E S : s \in Seq(S)) /\ (\A i \in DOMAIN s : s[i].key \in Keys) /\ InOrder(s)
  /\ cursor = C!None \/ (s # <<>> /\ cursor = s[Len(s)].key)
  /\ filter # C!All => \A i \in DOMAIN s : s[i].mark = filter

\* Each once, and what stands in the table under the same name is not older.
Remembered(s, store, past, grouped, moving) ==
  /\ \A i, j \in DOMAIN s : s[i].key[2] = s[j].key[2] => i = j \/ (moving /\ s[i].key[2] \in past)
  /\ \A i \in DOMAIN s : s[i].key[2] \in past
       \/ \E x \in store : Called(grouped, x) = s[i].key[2] /\ x.at >= s[i].key[1]

\* No row of those is missing above the cursor.
Whole(s, cursor, kept) ==
  \A r \in kept : (cursor = C!None \/ ~C!Below(r.key, cursor)) => \E i \in DOMAIN s : s[i] = r

LEMMA NameIsCalled == \A x : C!Name(x) = Called(C!Grouped, x)
BY DEF C!Name, Called

\* A row of a tab's list that is shown already and not gone is shown with the key it has.
LEMMA TabRows ==
  ASSUME RowsOK(listed, now, gone), list \in C!TabLists, NEW filter, Pickable(filter)
  PROVE  /\ \A r \in C!Listed(listed, filter) :
              /\ r.key \in Keys
              /\ filter # C!All => r.mark = filter
              /\ \E x \in listed : Called(C!Grouped, x) = r.key[2] /\ x.at >= r.key[1]
              /\ \A x \in listed : Called(C!Grouped, x) = r.key[2] => x.at <= r.key[1]
              /\ r.key[2] \in gone => C!Moving
<1>1. list # "rollup" /\ TableOK(listed)
  BY DEF C!TabLists, RowsOK
<1>2. SUFFICES ASSUME NEW r \in C!Listed(listed, filter)
               PROVE  /\ r.key \in Keys
                      /\ filter # C!All => r.mark = filter
                      /\ \E x \in listed : Called(C!Grouped, x) = r.key[2] /\ x.at >= r.key[1]
                      /\ \A x \in listed : Called(C!Grouped, x) = r.key[2] => x.at <= r.key[1]
                      /\ r.key[2] \in gone => C!Moving
  OBVIOUS
<1>3. r.key \in Keys /\ Tells(listed, r) /\ (filter # "all" => r.mark = filter)
  BY <1>1, ListedIs DEF Keyed
<1>4. \A x \in listed : x.at \in Nat /\ x.at >= x.at
  BY <1>1 DEF TableOK, TableRow
<1>5. r.key[2] \in gone => C!Moving
  BY <1>3 DEF Tells, RowsOK, C!Name, C!Moving
<1>6. QED BY <1>3, <1>4, <1>5, NameIsCalled DEF Tells, C!All

LEMMA OneKeyAName ==
  ASSUME RowsOK(listed, now, gone), list \in C!TabLists, NEW filter, Pickable(filter),
         NEW r \in C!Listed(listed, filter), NEW q \in C!Listed(listed, filter), r.key[2] = q.key[2]
  PROVE  r.key = q.key
<1>1. r.key \in Keys /\ q.key \in Keys
  BY TabRows
<1>2. PICK x \in listed : Called(C!Grouped, x) = r.key[2] /\ x.at >= r.key[1]
  BY TabRows
<1>3. PICK y \in listed : Called(C!Grouped, y) = q.key[2] /\ y.at >= q.key[1]
  BY TabRows
<1>4. x.at <= q.key[1] /\ y.at <= r.key[1]
  BY <1>2, <1>3, TabRows
<1>5. x.at \in Nat /\ y.at \in Nat
  BY DEF RowsOK, TableOK, TableRow
<1>6. QED BY <1>1, <1>2, <1>3, <1>4, <1>5 DEF Keys

LEMMA FirstPage ==
  ASSUME RowsOK(listed, now, gone), list \in C!TabLists, NEW filter, Pickable(filter)
  PROVE  /\ Ordered(C!Page(listed, filter, C!None).rows, C!Page(listed, filter, C!None).next, filter)
         /\ Remembered(C!Page(listed, filter, C!None).rows, listed, gone, C!Grouped, C!Moving)
         /\ Whole(C!Page(listed, filter, C!None).rows, C!Page(listed, filter, C!None).next, C!Listed(listed, filter))
<1> DEFINE p == C!Page(listed, filter, C!None)
           L == C!Listed(listed, filter)
           s == p.rows
<1>1. PageSays(p, L, C!None)
  BY PageIs DEF RowsOK
<1>2. \A r \in L :
         /\ r.key \in Keys
         /\ filter # C!All => r.mark = filter
         /\ \E x \in listed : Called(C!Grouped, x) = r.key[2] /\ x.at >= r.key[1]
         /\ \A x \in listed : Called(C!Grouped, x) = r.key[2] => x.at <= r.key[1]
  BY TabRows
<1>3. \A x \in listed : x.at \in Nat
  BY DEF RowsOK, TableOK, TableRow
<1> HIDE DEF p, L
<1>4. s \in Seq(L) /\ InOrder(s) /\ \A i \in DOMAIN s : s[i] \in L
  BY <1>1 DEF PageSays
<1>5. Ordered(s, p.next, filter)
  BY <1>1, <1>2, <1>4 DEF Ordered, PageSays
<1>6. Whole(s, p.next, L)
  BY <1>1 DEF Whole, PageSays
<1>7. ASSUME NEW i \in DOMAIN s, NEW j \in DOMAIN s, s[i].key[2] = s[j].key[2] PROVE i = j
  <2>1. s[i].key = s[j].key /\ s[i].key \in Keys
    BY <1>2, <1>4, <1>7, OneKeyAName DEF L
  <2>2. i \in Nat /\ j \in Nat
    BY <1>4
  <2>3. ~(i < j) /\ ~(j < i)
    BY <1>4, <2>1, KeysInOrder DEF InOrder
  <2>4. QED BY <2>2, <2>3
<1>8. Remembered(s, listed, gone, C!Grouped, C!Moving)
  BY <1>2, <1>4, <1>7 DEF Remembered
<1>9. QED BY <1>5, <1>6, <1>8 DEF p, L

LEMMA NextPage ==
  ASSUME RowsOK(listed, now, gone), list \in C!TabLists, NEW filter, Pickable(filter),
         NEW s, NEW cursor, cursor # C!None, NEW kept \in SUBSET C!Listed(listed, filter),
         Ordered(s, cursor, filter), Remembered(s, listed, gone, C!Grouped, C!Moving), Whole(s, cursor, kept)
  PROVE  LET p == C!Page(listed, filter, cursor)
             t == s \o p.rows
         IN  /\ Ordered(t, p.next, filter) /\ Remembered(t, listed, gone, C!Grouped, C!Moving)
             /\ Whole(t, p.next, kept)
<1> DEFINE p == C!Page(listed, filter, cursor)
           L == C!Listed(listed, filter)
           a == p.rows
           t == s \o a
<1>1. PageSays(p, L, cursor)
  BY PageIs DEF RowsOK
<1>2. \A r \in L :
         /\ r.key \in Keys
         /\ filter # C!All => r.mark = filter
         /\ \E x \in listed : Called(C!Grouped, x) = r.key[2] /\ x.at >= r.key[1]
         /\ \A x \in listed : Called(C!Grouped, x) = r.key[2] => x.at <= r.key[1]
         /\ r.key[2] \in gone => C!Moving
  BY TabRows
<1>3. \A x \in listed : x.at \in Nat
  BY DEF RowsOK, TableOK, TableRow
<1> HIDE DEF p, L
<1>4. PICK S : s \in Seq(S)
  BY DEF Ordered
<1>5. a \in Seq(L)
  BY <1>1 DEF PageSays
<1>6. Len(s) \in Nat /\ DOMAIN s = 1 .. Len(s) /\ Len(a) \in Nat /\ DOMAIN a = 1 .. Len(a)
  BY <1>4, <1>5
<1>7. /\ t \in Seq(S \cup L) /\ Len(t) = Len(s) + Len(a) /\ DOMAIN t = 1 .. Len(s) + Len(a)
      /\ \A i \in 1 .. Len(s) : t[i] = s[i]
      /\ \A i \in 1 .. Len(a) : t[i + Len(s)] = a[i]
  <2>1. s \in Seq(S \cup L) /\ a \in Seq(S \cup L)
    BY <1>4, <1>5
  <2> HIDE DEF a
  <2>2. QED BY <2>1, <1>6
<1> HIDE DEF a, t
<1>8. /\ \A i \in DOMAIN s : s[i].key \in Keys /\ (filter # C!All => s[i].mark = filter)
      /\ s # <<>> /\ cursor = s[Len(s)].key /\ \A i, j \in DOMAIN s : i < j => C!Below(s[j].key, s[i].key)
  BY DEF Ordered, InOrder
<1>9. Len(s) \in DOMAIN s /\ cursor \in Keys
  BY <1>4, <1>6, <1>8
<1>10. \A i \in DOMAIN a : a[i] \in L /\ a[i].key \in Keys /\ C!Below(a[i].key, cursor) /\ (filter # C!All => a[i].mark = filter)
  BY <1>1, <1>2, <1>5 DEF PageSays, a
<1>11. \A i \in DOMAIN s : s[i].key = cursor \/ C!Below(cursor, s[i].key)
  <2> TAKE i \in DOMAIN s
  <2>1. i = Len(s) \/ i < Len(s)
    BY <1>6
  <2>2. QED BY <2>1, <1>8, <1>9
<1>12. \A i \in DOMAIN s, j \in DOMAIN a : C!Below(a[j].key, s[i].key)
  BY <1>8, <1>9, <1>10, <1>11, KeysInOrder
<1>13. \A k \in DOMAIN t : (k \in DOMAIN s /\ t[k] = s[k]) \/ (k > Len(s) /\ k - Len(s) \in DOMAIN a /\ t[k] = a[k - Len(s)])
  <2> TAKE k \in DOMAIN t
  <2>1. k \in 1 .. Len(s) \/ (k > Len(s) /\ k - Len(s) \in 1 .. Len(a) /\ (k - Len(s)) + Len(s) = k)
    BY <1>6, <1>7
  <2>2. QED BY <2>1, <1>6, <1>7
<1>14. \A i, j \in DOMAIN a : i < j => C!Below(a[j].key, a[i].key)
  BY <1>1 DEF PageSays, InOrder, a
<1>15. \A k \in DOMAIN s : k \in Nat /\ k <= Len(s) /\ k \in DOMAIN t /\ t[k] = s[k]
  BY <1>6, <1>7
<1>16. \A k \in DOMAIN a : k + Len(s) \in DOMAIN t /\ t[k + Len(s)] = a[k]
  BY <1>6, <1>7
<1>17. ASSUME NEW i \in DOMAIN t, NEW j \in DOMAIN t, i < j PROVE C!Below(t[j].key, t[i].key)
  <2>1. i \in Nat /\ j \in Nat
    BY <1>6, <1>7
  <2>2. CASE j \in DOMAIN s
    <3>1. i \in DOMAIN s
      BY <1>6, <1>7, <1>17, <2>1, <2>2
    <3>2. QED BY <3>1, <2>2, <1>8, <1>15, <1>17
  <2>3. CASE j \notin DOMAIN s /\ i \in DOMAIN s
    BY <2>3, <1>12, <1>13
  <2>4. CASE j \notin DOMAIN s /\ i \notin DOMAIN s
    <3>1. i - Len(s) < j - Len(s)
      BY <1>6, <1>17, <2>1
    <3>2. QED BY <3>1, <2>4, <1>13, <1>14
  <2>5. QED BY <2>2, <2>3, <2>4
<1>18. \A k \in DOMAIN t : t[k].key \in Keys /\ (filter # C!All => t[k].mark = filter)
  BY <1>8, <1>10, <1>13
<1>19. p.next = C!None \/ (t # <<>> /\ p.next = t[Len(t)].key)
  <2>1. CASE p.next # C!None
    <3>1. a # <<>> /\ p.next = a[Len(a)].key
      BY <1>1, <2>1 DEF PageSays, a
    <3>2. Len(a) \in DOMAIN a
      BY <1>5, <1>6, <3>1
    <3>3. t[Len(t)] = a[Len(a)] /\ DOMAIN t # {}
      BY <1>6, <1>7, <1>16, <3>2
    <3>4. QED BY <3>1, <3>3
  <2>2. QED BY <2>1
<1>20. Ordered(t, p.next, filter)
  BY <1>7, <1>17, <1>18, <1>19 DEF Ordered, InOrder
<1>21. Whole(t, p.next, kept)
  <2> SUFFICES ASSUME NEW r \in kept, p.next = C!None \/ ~C!Below(r.key, p.next) PROVE \E k \in DOMAIN t : t[k] = r
    BY DEF Whole
  <2>1. r \in L
    BY DEF L
  <2>2. CASE C!Below(r.key, cursor)
    <3>1. PICK i \in DOMAIN a : a[i] = r
      BY <1>1, <2>1, <2>2 DEF PageSays, a
    <3>2. QED BY <3>1, <1>16
  <2>3. CASE ~C!Below(r.key, cursor)
    <3>1. PICK i \in DOMAIN s : s[i] = r
      BY <2>3 DEF Whole
    <3>2. QED BY <3>1, <1>15
  <2>4. QED BY <2>2, <2>3
<1>22. ASSUME NEW i \in DOMAIN s, NEW j \in DOMAIN a, s[i].key[2] = a[j].key[2]
       PROVE  C!Moving /\ s[i].key[2] \in gone
  <2>1. s[i].key \in Keys /\ a[j].key \in Keys /\ a[j].key[1] < s[i].key[1] /\ a[j] \in L
    BY <1>8, <1>10, <1>12, <1>22 DEF C!Below, Keys
  <2>2. s[i].key[2] \in gone
    <3>1. ASSUME NEW x \in listed, Called(C!Grouped, x) = s[i].key[2], x.at >= s[i].key[1] PROVE FALSE
      <4>1. x.at <= a[j].key[1]
        BY <1>2, <1>22, <2>1, <3>1
      <4>2. QED BY <4>1, <3>1, <2>1, <1>3 DEF Keys
    <3>2. QED BY <3>1 DEF Remembered
  <2>3. QED BY <2>1, <2>2, <1>2, <1>22
<1>23. ASSUME NEW i \in DOMAIN a, NEW j \in DOMAIN a, a[i].key[2] = a[j].key[2] PROVE i = j
  <2>1. a[i].key = a[j].key /\ a[i].key \in Keys
    BY <1>10, <1>23, OneKeyAName DEF L
  <2>2. i \in Nat /\ j \in Nat
    BY <1>6
  <2>3. ~(i < j) /\ ~(j < i)
    BY <1>14, <2>1, KeysInOrder
  <2>4. QED BY <2>2, <2>3
<1>24. ASSUME NEW i \in DOMAIN t, NEW j \in DOMAIN t, t[i].key[2] = t[j].key[2]
       PROVE  i = j \/ (C!Moving /\ t[i].key[2] \in gone)
  <2>1. CASE i \in DOMAIN s /\ j \in DOMAIN s
    BY <2>1, <1>15, <1>24 DEF Remembered
  <2>2. CASE i \in DOMAIN s /\ j \notin DOMAIN s
    BY <2>2, <1>13, <1>15, <1>22, <1>24
  <2>3. CASE i \notin DOMAIN s /\ j \in DOMAIN s
    BY <2>3, <1>13, <1>15, <1>22, <1>24
  <2>4. CASE i \notin DOMAIN s /\ j \notin DOMAIN s
    <3>1. i - Len(s) = j - Len(s)
      BY <2>4, <1>13, <1>23, <1>24
    <3>2. QED BY <3>1, <1>6, <1>7
  <2>5. QED BY <2>1, <2>2, <2>3, <2>4
<1>25. \A k \in DOMAIN t : t[k].key[2] \in gone \/ \E x \in listed : Called(C!Grouped, x) = t[k].key[2] /\ x.at >= t[k].key[1]
  <2> TAKE k \in DOMAIN t
  <2>1. CASE k \in DOMAIN s
    BY <2>1, <1>15 DEF Remembered
  <2>2. CASE k \notin DOMAIN s
    BY <2>2, <1>2, <1>10, <1>13
  <2>3. QED BY <2>1, <2>2
<1>26. Remembered(t, listed, gone, C!Grouped, C!Moving)
  BY <1>24, <1>25 DEF Remembered
<1>27. QED BY <1>20, <1>21, <1>26 DEF p, a, t

-----------------------------------------------------------------------------
(* What a numbered list gives.                                               *)

\* The ids that stand above a key, and how many they are.
IdsAbove(store, key) == {x.id : x \in {y \in store : C!Below(key, <<y.at, y.id>>)}}
Above(store, key) == Cardinality(IdsAbove(store, key))

LEMMA IdsAreFinite ==
  ASSUME NEW store, TableOK(store), NEW key
  PROVE  /\ IsFiniteSet(IdsAbove(store, key)) /\ Above(store, key) \in Nat
         /\ (\E y \in store : ~C!Below(key, <<y.at, y.id>>)) => Above(store, key) < Cardinality(store)
<1> DEFINE S == {y \in store : C!Below(key, <<y.at, y.id>>)}
           f == [x \in S |-> x.id]
<1>1. IdsAbove(store, key) = {f[x] : x \in S} /\ DOMAIN f = S
  BY DEF IdsAbove
<1>2. \A x, y \in S : f[x] = f[y] => x = y
  BY DEF TableOK
<1>3. IsFiniteSet(S) /\ S \subseteq store /\ IsFiniteSet(store)
  BY FS_Subset DEF TableOK
<1>4. (\E y \in store : ~C!Below(key, <<y.at, y.id>>)) => S # store
  OBVIOUS
<1> HIDE DEF S, f
<1>5. IsFiniteSet({f[x] : x \in S}) /\ Cardinality({f[x] : x \in S}) = Cardinality(S)
  BY <1>1, <1>2, <1>3, ImageIsFinite
<1>6. Cardinality(S) \in Nat /\ Cardinality(store) \in Nat /\ (S # store => Cardinality(S) < Cardinality(store))
  BY <1>3, FS_Subset, FS_CardinalityType
<1>7. QED BY <1>1, <1>4, <1>5, <1>6 DEF Above

\* A numbered list is the rows of its table.
LEMMA PageListIs ==
  ASSUME NEW store, TableOK(store), list \in C!PageLists
  PROVE  /\ Keyed(C!Listed(store, C!All))
         /\ \A r \in C!Listed(store, C!All) : r.key \in Keys /\ \E y \in store : r.key = <<y.at, y.id>>
         /\ \A y \in store : \E r \in C!Listed(store, C!All) : r.key = <<y.at, y.id>>
<1>1. C!Listed(store, C!All) = C!OwnRows(store, C!All)
  BY ListedCases DEF C!PageLists
<1>2. Keyed(C!Listed(store, C!All))
  BY ListedIs
<1>3. \A r \in C!OwnRows(store, C!All) : \E y \in store : r.key = <<y.at, y.id>>
  BY DEF C!OwnRows
<1>4. \A y \in store : [key |-> <<y.at, y.id>>, mark |-> y.mark] \in C!OwnRows(store, C!All)
  BY DEF C!OwnRows
<1>5. \A y \in store : \E r \in C!OwnRows(store, C!All) : r.key = <<y.at, y.id>>
  <2> TAKE y \in store
  <2>1. [key |-> <<y.at, y.id>>, mark |-> y.mark].key = <<y.at, y.id>>
    OBVIOUS
  <2>2. QED BY <2>1, <1>4
<1>6. QED BY <1>1, <1>2, <1>3, <1>5 DEF Keyed

\* A row that stays does not move up when the table is written, and not down when
\* nothing is added.
LEMMA AboveMoves ==
  ASSUME RowsOK(listed, now, gone), list \in C!PageLists, NEW store, TableOK(store), Follows(store),
         C!Lowered(store) = {}, NEW r \in C!Listed(listed, C!All), r \in C!Listed(store, C!All)
  PROVE  /\ Above(listed, r.key) <= Above(store, r.key)
         /\ store \subseteq listed => Above(store, r.key) <= Above(listed, r.key)
<1>1. TableOK(listed)
  BY DEF RowsOK
<1>2. PICK y \in store : r.key = <<y.at, y.id>>
  BY PageListIs
<1>3. \A x \in listed \cup store : x.at \in Nat /\ x.id \in Nat
  BY <1>1 DEF TableOK, TableRow
<1>4. IdsAbove(listed, r.key) \subseteq IdsAbove(store, r.key)
  <2> SUFFICES ASSUME NEW x \in listed, C!Below(r.key, <<x.at, x.id>>)
               PROVE  \E z \in store : z.id = x.id /\ C!Below(r.key, <<z.at, z.id>>)
    BY DEF IdsAbove
  <2>1. PICK z \in store : z.id = x.id /\ z.at >= x.at
    BY <1>2 DEF Follows
  <2>2. C!Below(r.key, <<z.at, z.id>>)
    BY <2>1, <1>2, <1>3 DEF C!Below
  <2>3. QED BY <2>1, <2>2
<1>5. store \subseteq listed => IdsAbove(store, r.key) \subseteq IdsAbove(listed, r.key)
  BY DEF IdsAbove
<1>6. IsFiniteSet(IdsAbove(listed, r.key)) /\ IsFiniteSet(IdsAbove(store, r.key))
  BY <1>1, IdsAreFinite
<1>7. QED BY <1>4, <1>5, <1>6, FS_Subset DEF Above

\* Rows by number: every row is above the page, on it, or below it.
PageOf(store, first, last) ==
  LET sorted == C!Newest(C!Listed(store, C!All))
  IN  SubSeq(sorted, first + 1, IF last > Len(sorted) THEN Len(sorted) ELSE last)

LEMMA OnThePage ==
  ASSUME NEW store, TableOK(store), list \in C!PageLists, NEW first \in Nat, NEW last \in Nat,
         NEW r \in C!Listed(store, C!All)
  PROVE  \/ Above(store, r.key) < first \/ Above(store, r.key) >= last
         \/ \E i \in DOMAIN PageOf(store, first, last) : PageOf(store, first, last)[i] = r
<1> DEFINE L == C!Listed(store, C!All)
           s == C!Newest(L)
           n == IF last > Len(s) THEN Len(s) ELSE last
           page == PageOf(store, first, last)
<1>0. page = SubSeq(s, first + 1, n)
  BY DEF PageOf
<1>1. Keyed(L) /\ \A q \in L : q.key \in Keys
  BY PageListIs
<1>2. s \in Seq(L) /\ \E i \in 1 .. Len(s) : s[i] = r
  BY <1>1, NewestIs
<1>3. PICK i \in 1 .. Len(s) : s[i] = r
  BY <1>2
<1>4. Above(store, r.key) = i - 1
  <2> DEFINE S == {q \in L : C!Below(r.key, q.key)}
             f == [q \in S |-> q.key[2]]
  <2>1. Cardinality(S) = i - 1
    BY <1>1, <1>3, PlaceInOrder
  <2>2. IdsAbove(store, r.key) = {f[q] : q \in S}
    <3>1. ASSUME NEW d \in IdsAbove(store, r.key) PROVE \E q \in S : d = f[q]
      <4>1. PICK y \in store : C!Below(r.key, <<y.at, y.id>>) /\ d = y.id
        BY <3>1 DEF IdsAbove
      <4>2. PICK q \in L : q.key = <<y.at, y.id>>
        BY PageListIs
      <4>3. q \in S /\ f[q] = y.id
        BY <4>1, <4>2
      <4>4. QED BY <4>1, <4>3
    <3>2. ASSUME NEW q \in S PROVE f[q] \in IdsAbove(store, r.key)
      <4>1. PICK y \in store : q.key = <<y.at, y.id>>
        BY PageListIs
      <4>2. f[q] = y.id /\ C!Below(r.key, <<y.at, y.id>>)
        BY <4>1
      <4>3. QED BY <4>1, <4>2 DEF IdsAbove
    <3> HIDE DEF f, S
    <3>3. QED BY <3>1, <3>2
  <2>3. ASSUME NEW q \in S, NEW p \in S, f[q] = f[p] PROVE q = p
    <3>1. PICK y \in store : q.key = <<y.at, y.id>>
      BY PageListIs
    <3>2. PICK z \in store : p.key = <<z.at, z.id>>
      BY PageListIs
    <3>3. y.id = z.id
      BY <2>3, <3>1, <3>2
    <3>4. y = z
      BY <3>3 DEF TableOK
    <3>5. QED BY <1>1, <3>1, <3>2, <3>4 DEF Keyed
  <2>4. IsFiniteSet(S) /\ DOMAIN f = S
    BY <1>1, FS_Subset DEF Keyed
  <2> HIDE DEF f, S
  <2>5. Cardinality({f[q] : q \in S}) = Cardinality(S)
    <3>1. \A q, p \in S : f[q] = f[p] => q = p
      BY <2>3
    <3>2. \A g, T : IsFiniteSet(T) /\ DOMAIN g = T /\ (\A q, p \in T : g[q] = g[p] => q = p) =>
            Cardinality({g[q] : q \in T}) = Cardinality(T)
      BY ImageIsFinite
    <3>3. QED BY <3>1, <3>2, <2>4
  <2>6. QED BY <2>1, <2>2, <2>5 DEF Above
<1>5. ASSUME i > first, i <= last PROVE \E k \in DOMAIN page : page[k] = r
  <2> HIDE DEF L, s, page
  <2>1. Len(s) \in Nat /\ i \in Nat /\ i <= n /\ n <= Len(s) /\ n \in Nat
    BY <1>2, <1>3, <1>5
  <2>2. \A k \in first + 1 .. n : s[k] \in L
    BY <1>2, <2>1
  <2>3. /\ Len(SubSeq(s, first + 1, n)) = n - first
        /\ \A k \in 1 .. (n - first) : SubSeq(s, first + 1, n)[k] = s[first + k]
        /\ SubSeq(s, first + 1, n) \in Seq(L)
    BY <1>2, <1>5, <2>1
  <2>4. i - first \in 1 .. (n - first) /\ first + (i - first) = i
    BY <1>5, <2>1
  <2>5. DOMAIN SubSeq(s, first + 1, n) = 1 .. (n - first)
    BY <2>3
  <2>6. QED BY <1>0, <1>3, <2>3, <2>4, <2>5
<1>6. QED BY <1>3, <1>4, <1>5

-----------------------------------------------------------------------------
(* The invariant of the console.                                             *)

Offers(chips) == (list = "recipients" => chips \subseteq C!Statuses) /\ (list = "hub" => chips = {})

ConsoleType ==
  /\ list \in C!TabLists \cup C!PageLists /\ now \in Nat /\ RowsOK(listed, now, gone)
  /\ view = [filter |-> view.filter, shown |-> view.shown, cursor |-> view.cursor,
             loading |-> view.loading, chips |-> view.chips]
  /\ pages = [page |-> pages.page, total |-> pages.total, read |-> pages.read, got |-> pages.got, over |-> pages.over]
  /\ \A q \in asked : q = [n |-> q.n, filter |-> q.filter, append |-> q.append, cursor |-> q.cursor,
                           page |-> q.page, chips |-> q.chips]
  /\ list \in C!PageLists => asked = {} /\ view.filter = C!All
  /\ list \notin C!PageLists => pages.total = C!None /\ ~pages.over

\* Only what can be picked is offered.
OfferInv ==
  /\ Pickable(view.filter) /\ Offers(view.chips)
  /\ \A q \in asked : Offers(q.chips)

WalkOK(s, cursor) ==
  /\ Ordered(s, cursor, view.filter) /\ Remembered(s, listed, gone, C!Grouped, C!Moving) /\ Whole(s, cursor, steady)
  /\ steady \subseteq C!Listed(listed, view.filter)

\* As long as nothing tangled a tab's requests there is at most one of them, under the
\* filter that is picked.  A request for more goes on where the tab ends; what the tab
\* shows, or will with the answer that was read, is whole.
WalkInv ==
  list \in C!TabLists /\ ~tangled =>
    /\ \A p, q \in asked : p = q
    /\ (\A q \in asked : q.append) => WalkOK(view.shown, view.cursor)
    /\ \A q \in asked :
         /\ q.filter = view.filter
         /\ q.append => q.cursor = view.cursor /\ view.cursor # C!None
         /\ ~q.append => q.cursor = C!None
         /\ q.page # C!None => WalkOK(C!Shown(q), q.page[1].next)

Fetched(r) == pages.read # C!None /\ \E i \in DOMAIN pages.read[1] : pages.read[1][i] = r
Given(r) == r \in pages.got \/ Fetched(r)

\* A row that was there all along is given already or not yet above the next page; and
\* a total read beside its page counts it.
PagesInv ==
  list \in C!PageLists =>
    /\ pages.page \in Nat \ {0}
    /\ pages.total # C!None => pages.total[1] \in Nat
    /\ pages.over => pages.total = C!None /\ pages.read = C!None
    /\ steady \subseteq C!Listed(listed, C!All)
    /\ ~C!Walking => steady = {} \/ pages.over
    /\ \A r \in steady :
         /\ ~torn => Given(r) \/ Above(listed, r.key) >= C!Offset + (IF pages.read = C!None THEN 0 ELSE PageLimit)
         /\ pages.total # C!None /\ pages.read = C!None /\ ~torn => Above(listed, r.key) < pages.total[1]
         /\ pages.total # C!None /\ pages.read # C!None /\ ~torn => Given(r) \/ C!HasNext(pages.total[1])
         /\ pages.over /\ ~torn => r \in pages.got

ConsoleInv == ConsoleType /\ OfferInv /\ WalkInv /\ PagesInv

\* What depends on which list it is stays while the list does.
LEMMA SameList ==
  ASSUME list' = list
  PROVE  /\ C!Grouped' = C!Grouped /\ C!Moving' = C!Moving
         /\ C!Listed(listed, view.filter)' = C!Listed(listed', view'.filter)
         /\ C!Listed(listed, C!All)' = C!Listed(listed', C!All)
         /\ RowsOK(listed, now, gone)' = RowsOK(listed', now', gone')
<1>1. C!Grouped' = C!Grouped /\ C!Moving' = C!Moving
  BY DEF C!Grouped, C!Moving
<1>2. C!Listed(listed, view.filter)' = C!Listed(listed', view'.filter)
  BY Zenon DEF C!Listed
<1>3. C!Listed(listed, C!All)' = C!Listed(listed', C!All)
  BY Zenon DEF C!Listed
<1>4. RowsOK(listed, now, gone)' = RowsOK(listed', now', gone')
  BY <1>1 DEF RowsOK
<1>5. QED BY <1>1, <1>2, <1>3, <1>4

LEMMA ConsoleStarts == ASSUME C!ConsoleInit PROVE ConsoleInv
<1>1. Lists \subseteq C!TabLists \cup C!PageLists
  BY StoresAssumption DEF StoresAssumption, C!ConsoleAssumption
<1>2. ConsoleType
  <2>1. RowsOK(listed, now, gone)
    BY FS_EmptySet DEF C!ConsoleInit, RowsOK, TableOK
  <2>2. QED BY <1>1, <2>1 DEF C!ConsoleInit, ConsoleType, C!All, C!None
<1>3. OfferInv
  BY DEF C!ConsoleInit, OfferInv, Offers, Pickable, C!All
<1>4. WalkInv
  BY DEF C!ConsoleInit, WalkInv
<1>5. PagesInv
  BY DEF C!ConsoleInit, PagesInv, C!None
<1>6. QED BY <1>2, <1>3, <1>4, <1>5 DEF ConsoleInv

LEMMA ConsoleWrites == ASSUME ConsoleInv, Writes PROVE ConsoleInv'
<1>1. PICK store : RowsOK(store, now, gone) /\ Follows(store) /\ C!Rewritten(store)
  BY DEF Writes
<1>2. /\ listed' = store /\ steady' = steady \cap C!Listed(store, view.filter)
      /\ torn' = (torn \/ (C!Halfway /\ ~(store \subseteq listed)) \/ (C!Walking /\ C!Lowered(store) # {}))
      /\ gone' = gone \cup ({C!Name(r) : r \in listed} \ {C!Name(r) : r \in store}) \cup C!Lowered(store)
      /\ list' = list /\ now' = now /\ view' = view /\ asked' = asked /\ pages' = pages /\ tangled' = tangled
  BY <1>1 DEF C!Rewritten
<1>3. RowsOK(store, now, gone')
  <2>1. \A x \in store : C!Moving \/ C!Name(x) \notin gone' \ gone
    BY <1>1, <1>2 DEF Follows
  <2>2. ~C!Moving => \A x \in store : x.id = C!Name(x)
    BY DEF C!Name, C!Moving
  <2>3. QED BY <1>1, <2>1, <2>2 DEF RowsOK
<1>4. ConsoleType'
  BY <1>2, <1>3, SameList DEF ConsoleInv, ConsoleType
<1>5. OfferInv'
  BY <1>2 DEF ConsoleInv, OfferInv, Offers, Pickable
<1>6. WalkInv'
  <2>1. ASSUME NEW s, NEW cursor, WalkOK(s, cursor)
        PROVE  /\ Ordered(s, cursor, view.filter) /\ Remembered(s, store, gone', C!Grouped, C!Moving) /\ Whole(s, cursor, steady')
               /\ steady' \subseteq C!Listed(store, view.filter)
    <3>1. Whole(s, cursor, steady') /\ steady' \subseteq C!Listed(store, view.filter)
      BY <1>2, <2>1 DEF WalkOK, Whole
    <3>2. \A i \in DOMAIN s : s[i].key[1] \in Nat
      BY <2>1 DEF WalkOK, Ordered, Keys
    <3>3. \A x \in listed \cup store : x.at \in Nat
      BY <1>1 DEF RowsOK, TableOK, TableRow, ConsoleInv, ConsoleType
    <3>4. ASSUME NEW i \in DOMAIN s, s[i].key[2] \notin gone'
          PROVE  \E y \in store : Called(C!Grouped, y) = s[i].key[2] /\ y.at >= s[i].key[1]
      <4>1. PICK x \in listed : Called(C!Grouped, x) = s[i].key[2] /\ x.at >= s[i].key[1]
        BY <1>2, <2>1, <3>4 DEF WalkOK, Remembered
      <4>2. \E y \in store : C!Name(y) = C!Name(x)
        BY <1>2, <3>4, <4>1, NameIsCalled
      <4>3. PICK y \in store : C!Name(y) = C!Name(x) /\ y.at >= x.at
        BY <1>1, <1>2, <3>4, <4>1, <4>2, NameIsCalled DEF Follows
      <4>4. QED BY <4>1, <4>3, <3>2, <3>3, NameIsCalled
    <3>5. Remembered(s, store, gone', C!Grouped, C!Moving)
      BY <1>2, <2>1, <3>4 DEF WalkOK, Remembered
    <3>6. QED BY <2>1, <3>1, <3>5 DEF WalkOK
  <2>2. \A q \in asked : C!Shown(q)' = C!Shown(q)
    BY <1>2 DEF C!Shown
  <2>3. WalkOK(view.shown, view.cursor) => WalkOK(view.shown, view.cursor)'
    BY <1>2, <2>1, SameList DEF WalkOK
  <2>4. ASSUME NEW q \in asked, WalkOK(C!Shown(q), q.page[1].next) PROVE WalkOK(C!Shown(q), q.page[1].next)'
    BY <1>2, <2>1, <2>2, <2>4, SameList DEF WalkOK
  <2>5. QED BY <1>2, <2>3, <2>4 DEF ConsoleInv, WalkInv
<1>7. PagesInv'
  <2>1. ASSUME list \in C!PageLists PROVE PagesInv'
    <3>1. view.filter = C!All /\ TableOK(store) /\ RowsOK(listed, now, gone) /\ TableOK(listed)
      BY <1>1, <2>1 DEF ConsoleInv, ConsoleType, RowsOK
    <3>2. steady' \subseteq C!Listed(store, C!All) /\ steady' \subseteq steady /\ steady \subseteq C!Listed(listed, C!All)
      BY <1>2, <2>1, <3>1 DEF ConsoleInv, PagesInv
    <3>3. ASSUME NEW r \in steady', C!Lowered(store) = {}
          PROVE  /\ Above(listed, r.key) <= Above(store, r.key)
                 /\ Above(listed, r.key) \in Nat /\ Above(store, r.key) \in Nat
                 /\ store \subseteq listed => Above(store, r.key) <= Above(listed, r.key)
      BY <1>1, <2>1, <3>1, <3>2, <3>3, AboveMoves, IdsAreFinite
    <3>4. C!Offset' = C!Offset /\ C!Offset \in Nat /\ PageLimit \in Nat
      BY <1>2, <2>1, StoresAssumption DEF StoresAssumption, C!ConsoleAssumption, C!Offset, ConsoleInv, PagesInv
    <3>5. \A r : Given(r)' = Given(r)
      BY <1>2 DEF Given, Fetched
    <3>6. C!HasNext(pages.total[1])' = C!HasNext(pages.total[1])
      BY <1>2, <3>4 DEF C!HasNext
    <3>7. pages.total # C!None /\ pages.read = C!None /\ ~torn' => ~torn /\ store \subseteq listed
      BY <1>2 DEF C!Halfway
    <3>8. ASSUME NEW r \in steady', ~torn' PROVE ~torn /\ (C!Lowered(store) = {} \/ pages.over)
      BY <1>2, <2>1, <3>8 DEF ConsoleInv, PagesInv
    <3>9. ASSUME NEW r \in steady', ~torn'
          PROVE  /\ Given(r) \/ Above(store, r.key) >= C!Offset + (IF pages.read = C!None THEN 0 ELSE PageLimit)
                 /\ pages.total # C!None /\ pages.read = C!None => Above(store, r.key) < pages.total[1]
                 /\ pages.total # C!None /\ pages.read # C!None => Given(r) \/ C!HasNext(pages.total[1])
                 /\ pages.over => r \in pages.got
      <4>1. CASE C!Lowered(store) = {}
        BY <4>1, <2>1, <3>2, <3>3, <3>4, <3>7, <3>8, <3>9 DEF ConsoleInv, PagesInv
      <4>2. CASE pages.over
        BY <4>2, <2>1, <3>2, <3>8, <3>9 DEF ConsoleInv, PagesInv, Given
      <4>3. QED BY <3>8, <3>9, <4>1, <4>2
    <3>10. (C!Walking <=> C!Walking') /\ steady' \subseteq steady
      BY <1>2 DEF C!Walking
    <3>11. QED
      BY <1>2, <2>1, <3>2, <3>4, <3>5, <3>6, <3>9, <3>10, SameList DEF ConsoleInv, PagesInv
  <2>2. QED BY <1>2, <2>1 DEF PagesInv
<1>8. QED BY <1>4, <1>5, <1>6, <1>7 DEF ConsoleInv

\* A request is made: by a reload, a pick, a debounced search or for more.
LEMMA ConsoleAsks ==
  ASSUME ConsoleInv, NEW filter, NEW append \in BOOLEAN, NEW stale \in BOOLEAN, NEW picked,
         C!Ask(filter, append, stale), Pickable(picked), ~stale => filter = picked,
         append => picked = view.filter /\ view.cursor # C!None,
         view' = [view EXCEPT !.filter = picked, !.loading = TRUE]
  PROVE  ConsoleInv'
<1> DEFINE q0 == [n |-> issued, filter |-> filter, append |-> append,
                  cursor |-> IF append THEN view.cursor ELSE C!None, page |-> C!None, chips |-> {}]
<1>1. /\ list \in C!TabLists /\ asked' = asked \cup {q0}
      /\ tangled' = (asked # {} \/ stale \/ (append /\ tangled))
      /\ list' = list /\ now' = now /\ listed' = listed /\ pages' = pages /\ steady' = steady
      /\ torn' = torn /\ gone' = gone
  BY DEF C!Ask
<1>2. /\ view'.filter = picked /\ view'.shown = view.shown /\ view'.cursor = view.cursor /\ view'.chips = view.chips
      /\ view' = [filter |-> view'.filter, shown |-> view'.shown, cursor |-> view'.cursor,
                  loading |-> view'.loading, chips |-> view'.chips]
  BY DEF ConsoleInv, ConsoleType
<1>3. /\ q0.filter = filter /\ q0.append = append /\ q0.cursor = (IF append THEN view.cursor ELSE C!None)
      /\ q0.page = C!None /\ q0.chips = {}
      /\ q0 = [n |-> q0.n, filter |-> q0.filter, append |-> q0.append, cursor |-> q0.cursor,
               page |-> q0.page, chips |-> q0.chips]
  OBVIOUS
<1> HIDE DEF q0
<1>4. list \notin C!PageLists
  BY <1>1 DEF C!TabLists, C!PageLists
<1>5. ConsoleType'
  BY <1>1, <1>2, <1>3, <1>4, SameList DEF ConsoleInv, ConsoleType
<1>6. OfferInv'
  BY <1>1, <1>2, <1>3 DEF ConsoleInv, OfferInv, Offers, Pickable
<1>7. WalkInv'
  <2>1. ASSUME ~tangled' PROVE asked = {} /\ ~stale /\ asked' = {q0} /\ filter = picked /\ (append => ~tangled)
    BY <1>1, <2>1
  <2>2. ASSUME ~tangled', append PROVE WalkOK(view.shown, view.cursor)'
    <3>1. WalkOK(view.shown, view.cursor) /\ view'.filter = view.filter
      BY <1>1, <1>2, <2>1, <2>2 DEF ConsoleInv, WalkInv
    <3>2. QED BY <3>1, <1>1, <1>2, SameList DEF WalkOK
  <2>3. QED BY <1>1, <1>2, <1>3, <2>1, <2>2 DEF WalkInv
<1>8. PagesInv'
  BY <1>1, <1>4 DEF PagesInv
<1>9. QED BY <1>5, <1>6, <1>7, <1>8 DEF ConsoleInv

\* The clock and a debounced search that is armed change nothing of it.
LEMMA ConsoleStays ==
  ASSUME ConsoleInv, now' \in Nat, now <= now',
         list' = list, listed' = listed, view' = view, asked' = asked, pages' = pages, steady' = steady,
         tangled' = tangled, torn' = torn, gone' = gone
  PROVE  ConsoleInv'
<1>1. RowsOK(listed, now', gone)
  BY DEF ConsoleInv, ConsoleType, RowsOK, TableOK, TableRow
<1>2. ConsoleType'
  BY <1>1, SameList DEF ConsoleInv, ConsoleType
<1>3. OfferInv' /\ WalkInv'
  BY SameList DEF ConsoleInv, OfferInv, Offers, Pickable, WalkInv, WalkOK, C!Shown
<1>4. PagesInv'
  BY SameList DEF ConsoleInv, PagesInv, Given, Fetched, C!Offset, C!HasNext, C!Walking
<1>5. QED BY <1>2, <1>3, <1>4 DEF ConsoleInv

LEMMA ConsoleMoves ==
  ASSUME ConsoleInv, C!Clock \/ C!Reload \/ C!Pick \/ C!More \/ C!Type \/ C!Typed
  PROVE  ConsoleInv'
<1>1. /\ view = [filter |-> view.filter, shown |-> view.shown, cursor |-> view.cursor,
                 loading |-> view.loading, chips |-> view.chips]
      /\ Pickable(view.filter)
  BY DEF ConsoleInv, ConsoleType, OfferInv
<1>2. [view EXCEPT !.loading = TRUE] = [view EXCEPT !.filter = view.filter, !.loading = TRUE]
  BY <1>1
<1>3. CASE C!Clock
  <2>1. now \in Nat
    BY DEF ConsoleInv, ConsoleType
  <2>2. QED BY <2>1, <1>3, ConsoleStays DEF C!Clock
<1>4. CASE C!Reload
  <2>1. C!Ask(view.filter, FALSE, FALSE) /\ view' = [view EXCEPT !.filter = view.filter, !.loading = TRUE]
    BY <1>2, <1>4 DEF C!Reload
  <2>2. QED BY <1>1, <2>1, ConsoleAsks
<1>5. CASE C!Pick
  <2>1. PICK f \in ({C!All} \cup (CASE list = "events" -> EventMarks
                                   [] list = "lines" -> C!Levels
                                   [] OTHER -> view.chips)) \ {view.filter} :
          C!Ask(f, FALSE, FALSE) /\ view' = [view EXCEPT !.filter = f, !.loading = TRUE]
    BY <1>5 DEF C!Pick
  <2>2. list \in {"recipients", "hub"} => f = C!All \/ f \in view.chips
    BY <2>1
  <2>3. Pickable(f)
    BY <2>2 DEF ConsoleInv, OfferInv, Offers, Pickable, C!All
  <2>4. QED BY <2>1, <2>3, ConsoleAsks
<1>6. CASE C!More
  <2>1. C!Ask(view.filter, TRUE, FALSE) /\ view' = [view EXCEPT !.filter = view.filter, !.loading = TRUE]
        /\ view.cursor # C!None
    BY <1>2, <1>6 DEF C!More
  <2>2. QED BY <1>1, <2>1, ConsoleAsks
<1>7. CASE C!Type
  <2>1. now \in Nat
    BY DEF ConsoleInv, ConsoleType
  <2>2. QED BY <2>1, <1>7, ConsoleStays DEF C!Type
<1>8. CASE C!Typed
  <2>1. C!Ask(timer[1], FALSE, timer[1] # view.filter) /\ view' = [view EXCEPT !.filter = view.filter, !.loading = TRUE]
    BY <1>2, <1>8 DEF C!Typed
  <2>2. QED BY <1>1, <2>1, ConsoleAsks
<1>9. QED BY <1>3, <1>4, <1>5, <1>6, <1>7, <1>8

\* The server reads a page.
LEMMA ConsoleReads == ASSUME ConsoleInv, C!Read PROVE ConsoleInv'
<1>1. PICK q \in asked :
        /\ q.page = C!None
        /\ asked' = (asked \ {q}) \cup {[q EXCEPT !.page = <<C!Page(listed, q.filter, q.cursor)>>, !.chips = C!Chips(listed)]}
        /\ steady' = IF q.append THEN steady ELSE C!Listed(listed, q.filter)
        /\ list' = list /\ now' = now /\ listed' = listed /\ view' = view /\ pages' = pages
        /\ tangled' = tangled /\ torn' = torn /\ gone' = gone
  BY DEF C!Read
<1>2. q = [n |-> q.n, filter |-> q.filter, append |-> q.append, cursor |-> q.cursor, page |-> q.page, chips |-> q.chips]
  BY DEF ConsoleInv, ConsoleType
<1>3. PICK page : page = C!Page(listed, q.filter, q.cursor)
  OBVIOUS
<1>4. PICK a : /\ a.filter = q.filter /\ a.append = q.append /\ a.cursor = q.cursor /\ a.page = <<page>>
               /\ a.chips = C!Chips(listed) /\ asked' = (asked \ {q}) \cup {a}
               /\ a = [n |-> a.n, filter |-> a.filter, append |-> a.append, cursor |-> a.cursor,
                       page |-> a.page, chips |-> a.chips]
  <2>1. PICK b : b = [q EXCEPT !.page = <<page>>, !.chips = C!Chips(listed)]
    OBVIOUS
  <2>2. /\ b.filter = q.filter /\ b.append = q.append /\ b.cursor = q.cursor /\ b.page = <<page>> /\ b.chips = C!Chips(listed)
        /\ b = [n |-> b.n, filter |-> b.filter, append |-> b.append, cursor |-> b.cursor, page |-> b.page, chips |-> b.chips]
    BY <1>2, <2>1
  <2>3. asked' = (asked \ {q}) \cup {b}
    BY <1>1, <1>3, <2>1
  <2>4. QED BY <2>2, <2>3
<1>5. Offers(a.chips)
  <2>1. Offers(C!Chips(listed))
    BY Zenon DEF C!Chips, Offers
  <2>2. QED BY <1>4, <2>1
<1>6. /\ list \in C!TabLists /\ list \notin C!PageLists /\ RowsOK(listed, now, gone)
      /\ Pickable(view.filter)
  BY DEF ConsoleInv, ConsoleType, OfferInv, C!TabLists, C!PageLists
<1>7. ConsoleType'
  BY <1>1, <1>4, <1>6, SameList DEF ConsoleInv, ConsoleType
<1>8. OfferInv'
  BY <1>1, <1>4, <1>5 DEF ConsoleInv, OfferInv, Offers, Pickable
<1>9. WalkInv'
  <2> SUFFICES ASSUME ~tangled
               PROVE  /\ \A p, r \in asked' : p = r
                      /\ (\A p \in asked' : p.append) => WalkOK(view.shown, view.cursor)'
                      /\ \A p \in asked' :
                           /\ p.filter = view.filter
                           /\ p.append => p.cursor = view.cursor /\ view.cursor # C!None
                           /\ ~p.append => p.cursor = C!None
                           /\ p.page # C!None => WalkOK(C!Shown(p), p.page[1].next)'
    BY <1>1 DEF WalkInv
  <2>1. /\ \A p, r \in asked : p = r
        /\ (\A p \in asked : p.append) => WalkOK(view.shown, view.cursor)
        /\ q.filter = view.filter
        /\ q.append => q.cursor = view.cursor /\ view.cursor # C!None
        /\ ~q.append => q.cursor = C!None
    BY <1>6 DEF ConsoleInv, WalkInv
  <2>2. asked' = {a}
    BY <1>4, <2>1
  <2>3. q.append => WalkOK(view.shown, view.cursor)
    BY <2>1
  <2>4. q.append => WalkOK(view.shown, view.cursor)'
    BY <2>3, <1>1, SameList DEF WalkOK
  <2>5. ASSUME ~q.append PROVE WalkOK(C!Shown(a), a.page[1].next)'
    <3>1. C!Shown(a)' = page.rows /\ a.page[1].next = page.next
      BY <1>4, <2>5 DEF C!Shown
    <3>2. Ordered(page.rows, page.next, view.filter) /\ Remembered(page.rows, listed, gone, C!Grouped, C!Moving)
          /\ Whole(page.rows, page.next, C!Listed(listed, view.filter))
      BY <1>3, <1>6, <2>1, <2>5, FirstPage
    <3>3. steady' = C!Listed(listed, view.filter)
      BY <1>1, <2>1, <2>5
    <3>4. QED BY <3>1, <3>2, <3>3, <1>1, SameList DEF WalkOK
  <2>6. ASSUME q.append PROVE WalkOK(C!Shown(a), a.page[1].next)'
    <3>1. C!Shown(a)' = view.shown \o page.rows /\ a.page[1].next = page.next
      <4>1. view' = view /\ a.append /\ a.page = <<page>>
        BY <1>1, <1>4, <2>6
      <4>2. a.page[1] = page
        BY <4>1
      <4>3. C!Shown(a)' = view'.shown \o a.page[1].rows
        BY <4>1 DEF C!Shown
      <4>4. QED BY <4>1, <4>2, <4>3
    <3>2. WalkOK(view.shown, view.cursor) /\ q.cursor = view.cursor /\ view.cursor # C!None
      BY <2>1, <2>3, <2>6
    <3>3. page = C!Page(listed, view.filter, view.cursor)
      BY <1>3, <2>1, <3>2
    <3>4. /\ Ordered(view.shown \o page.rows, page.next, view.filter)
          /\ Remembered(view.shown \o page.rows, listed, gone, C!Grouped, C!Moving)
          /\ Whole(view.shown \o page.rows, page.next, steady)
      BY <1>6, <3>2, <3>3, NextPage DEF WalkOK
    <3>5. steady' = steady /\ steady \subseteq C!Listed(listed, view.filter)
      BY <1>1, <2>6, <3>2 DEF WalkOK
    <3>6. QED BY <3>1, <3>4, <3>5, <1>1, SameList DEF WalkOK
  <2>7. QED BY <1>4, <2>1, <2>2, <2>4, <2>5, <2>6
<1>10. PagesInv'
  BY <1>1, <1>6 DEF PagesInv
<1>11. QED BY <1>7, <1>8, <1>9, <1>10 DEF ConsoleInv

\* An answer reaches the tab.
LEMMA ConsoleAnswers == ASSUME ConsoleInv, C!Answer PROVE ConsoleInv'
<1>1. PICK q \in asked :
        /\ q.page # C!None
        /\ asked' = asked \ {q}
        /\ view' = [view EXCEPT !.shown = C!Shown(q), !.cursor = q.page[1].next, !.loading = FALSE, !.chips = q.chips]
        /\ list' = list /\ now' = now /\ listed' = listed /\ pages' = pages /\ steady' = steady
        /\ tangled' = tangled /\ torn' = torn /\ gone' = gone
  BY DEF C!Answer
<1>2. /\ view'.filter = view.filter /\ view'.shown = C!Shown(q) /\ view'.cursor = q.page[1].next /\ view'.chips = q.chips
      /\ view' = [filter |-> view'.filter, shown |-> view'.shown, cursor |-> view'.cursor,
                  loading |-> view'.loading, chips |-> view'.chips]
  BY <1>1 DEF ConsoleInv, ConsoleType
<1>3. list \in C!TabLists /\ list \notin C!PageLists
  BY DEF ConsoleInv, ConsoleType, C!TabLists, C!PageLists
<1>4. ConsoleType'
  BY <1>1, <1>2, <1>3, SameList DEF ConsoleInv, ConsoleType
<1>5. OfferInv'
  BY <1>1, <1>2 DEF ConsoleInv, OfferInv, Offers, Pickable
<1>6. WalkInv'
  <2> SUFFICES ASSUME ~tangled PROVE asked' = {} /\ WalkOK(view.shown, view.cursor)'
    BY <1>1 DEF WalkInv
  <2>1. asked' = {} /\ WalkOK(C!Shown(q), q.page[1].next)
    BY <1>1, <1>3 DEF ConsoleInv, WalkInv
  <2>2. QED BY <2>1, <1>1, <1>2, SameList DEF WalkOK
<1>7. PagesInv'
  BY <1>1, <1>3 DEF PagesInv
<1>8. QED BY <1>4, <1>5, <1>6, <1>7 DEF ConsoleInv

\* A request fails.
LEMMA ConsoleFails == ASSUME ConsoleInv, C!Fail PROVE ConsoleInv'
<1>1. PICK q \in asked :
        /\ asked' = asked \ {q}
        /\ view' = [view EXCEPT !.loading = FALSE]
        /\ tangled' = (tangled \/ ~q.append)
        /\ list' = list /\ now' = now /\ listed' = listed /\ pages' = pages /\ steady' = steady
        /\ torn' = torn /\ gone' = gone
  BY DEF C!Fail
<1>2. /\ view'.filter = view.filter /\ view'.shown = view.shown /\ view'.cursor = view.cursor /\ view'.chips = view.chips
      /\ view' = [filter |-> view'.filter, shown |-> view'.shown, cursor |-> view'.cursor,
                  loading |-> view'.loading, chips |-> view'.chips]
  BY <1>1 DEF ConsoleInv, ConsoleType
<1>3. list \in C!TabLists /\ list \notin C!PageLists
  BY DEF ConsoleInv, ConsoleType, C!TabLists, C!PageLists
<1>4. ConsoleType'
  BY <1>1, <1>2, <1>3, SameList DEF ConsoleInv, ConsoleType
<1>5. OfferInv'
  BY <1>1, <1>2 DEF ConsoleInv, OfferInv, Offers, Pickable
<1>6. WalkInv'
  <2> SUFFICES ASSUME ~tangled, q.append PROVE asked' = {} /\ WalkOK(view.shown, view.cursor)'
    BY <1>1 DEF WalkInv
  <2>1. asked' = {} /\ WalkOK(view.shown, view.cursor)
    BY <1>1, <1>3 DEF ConsoleInv, WalkInv
  <2>2. QED BY <2>1, <1>1, <1>2, SameList DEF WalkOK
<1>7. PagesInv'
  BY <1>1, <1>3 DEF PagesInv
<1>8. QED BY <1>4, <1>5, <1>6, <1>7 DEF ConsoleInv

\* The two statements of a numbered page, and the turn to the next one.
LEMMA ConsoleCounts == ASSUME ConsoleInv, C!CountRows PROVE ConsoleInv'
<1>1. /\ list \in C!PageLists /\ ~pages.over /\ pages.total = C!None
      /\ pages' = [pages EXCEPT !.total = <<C!Cardinality(listed)>>]
      /\ steady' = IF pages.page = 1 /\ pages.read = C!None THEN C!Listed(listed, C!All) ELSE steady
      /\ list' = list /\ now' = now /\ listed' = listed /\ view' = view /\ asked' = asked
      /\ tangled' = tangled /\ torn' = torn /\ gone' = gone
  BY DEF C!CountRows
<1>2. PICK n : n = Cardinality(listed)
  OBVIOUS
<1>3. /\ pages'.page = pages.page /\ pages'.total = <<n>> /\ pages'.read = pages.read /\ pages'.got = pages.got
      /\ pages'.over = pages.over
      /\ pages' = [page |-> pages'.page, total |-> pages'.total, read |-> pages'.read, got |-> pages'.got,
                   over |-> pages'.over]
  <2>1. pages' = [pages EXCEPT !.total = <<n>>]
    BY <1>1, <1>2, ConsoleSets
  <2>2. QED BY <2>1 DEF ConsoleInv, ConsoleType
<1>4. list \notin C!TabLists /\ RowsOK(listed, now, gone) /\ TableOK(listed) /\ pages.page \in Nat \ {0}
  BY <1>1 DEF ConsoleInv, ConsoleType, C!TabLists, C!PageLists, RowsOK, PagesInv
<1>5. ConsoleType'
  BY <1>1, <1>3, SameList DEF ConsoleInv, ConsoleType
<1>6. OfferInv' /\ WalkInv'
  BY <1>1, <1>4 DEF ConsoleInv, OfferInv, Offers, Pickable, WalkInv
<1>7. PagesInv'
  <2>1. PageLimit \in Nat \ {0} /\ C!Offset \in Nat /\ C!Offset' = C!Offset /\ (pages.page = 1 => C!Offset = 0)
    BY <1>1, <1>3, <1>4, StoresAssumption DEF StoresAssumption, C!ConsoleAssumption, C!Offset
  <2>2. steady' \subseteq C!Listed(listed, C!All) /\ n \in Nat
    BY <1>1, <1>2, <1>4, FS_CardinalityType DEF ConsoleInv, PagesInv, TableOK
  <2>3. ASSUME NEW r \in steady'
        PROVE  /\ Above(listed, r.key) \in Nat /\ Above(listed, r.key) < n
    <3>1. PICK y \in listed : r.key = <<y.at, y.id>>
      BY <1>1, <1>4, <2>2, PageListIs
    <3>2. y.at \in Nat /\ y.id \in Nat
      BY <1>4 DEF TableOK, TableRow
    <3>3. ~C!Below(r.key, <<y.at, y.id>>)
      BY <3>1, <3>2 DEF C!Below
    <3>4. QED BY <3>3, <1>2, <1>4, IdsAreFinite
  <2>4. \A r : Given(r)' = Given(r)
    BY <1>3 DEF Given, Fetched
  <2>5. ASSUME NEW r \in steady', ~torn
        PROVE  Given(r) \/ Above(listed, r.key) >= C!Offset + (IF pages.read = C!None THEN 0 ELSE PageLimit)
    <3>1. CASE pages.page = 1 /\ pages.read = C!None
      BY <3>1, <2>1, <2>3
    <3>2. CASE ~(pages.page = 1 /\ pages.read = C!None)
      BY <3>2, <1>1, <2>5 DEF ConsoleInv, PagesInv
    <3>3. QED BY <3>1, <3>2
  <2>6. ASSUME NEW r \in steady', pages.read # C!None, ~torn PROVE Given(r) \/ C!Offset + PageLimit < n
    BY <2>1, <2>2, <2>3, <2>5, <2>6
  <2>7. pages'.total[1] = n /\ C!HasNext(pages.total[1])' = (C!Offset + PageLimit < n) /\ pages'.total # C!None
    BY <1>3, <2>1 DEF C!HasNext, C!None
  <2>8. C!Walking' /\ ~pages.over
    BY <1>1, <1>3, <2>7 DEF C!CountRows, C!Walking
  <2>9. QED BY <1>1, <1>3, <1>4, <2>1, <2>2, <2>3, <2>4, <2>5, <2>6, <2>7, <2>8, SameList DEF PagesInv
<1>8. QED BY <1>5, <1>6, <1>7 DEF ConsoleInv

LEMMA ConsolePages == ASSUME ConsoleInv, C!PageRows PROVE ConsoleInv'
<1>1. PICK page : page = PageOf(listed, C!Offset, C!Offset + PageLimit)
  OBVIOUS
<1>2. /\ list \in C!PageLists /\ ~pages.over /\ pages.read = C!None
      /\ pages' = [pages EXCEPT !.read = <<page>>]
      /\ steady' = IF pages.page = 1 /\ pages.total = C!None THEN C!Listed(listed, C!All) ELSE steady
      /\ list' = list /\ now' = now /\ listed' = listed /\ view' = view /\ asked' = asked
      /\ tangled' = tangled /\ torn' = torn /\ gone' = gone
  BY <1>1 DEF C!PageRows, PageOf
<1>3. /\ pages'.page = pages.page /\ pages'.total = pages.total /\ pages'.read = <<page>> /\ pages'.got = pages.got
      /\ pages'.over = pages.over
      /\ pages' = [page |-> pages'.page, total |-> pages'.total, read |-> pages'.read, got |-> pages'.got,
                   over |-> pages'.over]
  BY <1>2 DEF ConsoleInv, ConsoleType
<1>4. list \notin C!TabLists /\ RowsOK(listed, now, gone) /\ TableOK(listed) /\ pages.page \in Nat \ {0}
  BY <1>2 DEF ConsoleInv, ConsoleType, C!TabLists, C!PageLists, RowsOK, PagesInv
<1>5. ConsoleType'
  BY <1>2, <1>3, SameList DEF ConsoleInv, ConsoleType
<1>6. OfferInv' /\ WalkInv'
  BY <1>2, <1>4 DEF ConsoleInv, OfferInv, Offers, Pickable, WalkInv
<1>7. PagesInv'
  <2>1. PageLimit \in Nat \ {0} /\ C!Offset \in Nat /\ C!Offset' = C!Offset /\ (pages.page = 1 => C!Offset = 0)
        /\ C!Offset + PageLimit \in Nat
    BY <1>2, <1>3, <1>4, StoresAssumption DEF StoresAssumption, C!ConsoleAssumption, C!Offset
  <2>2. steady' \subseteq C!Listed(listed, C!All)
    BY <1>2 DEF ConsoleInv, PagesInv
  <2>3. \A r : Given(r)' <=> r \in pages.got \/ \E i \in DOMAIN page : page[i] = r
    <3>1. pages'.read # C!None /\ pages'.read[1] = page
      BY <1>3 DEF C!None
    <3>2. QED BY <1>3, <3>1 DEF Given, Fetched
  <2>4. \A r : Given(r) <=> r \in pages.got
    BY <1>2 DEF Given, Fetched
  <2>5. ASSUME NEW r \in steady' PROVE Above(listed, r.key) \in Nat
    BY <1>4, IdsAreFinite
  <2>6. ASSUME NEW r \in steady', ~torn PROVE r \in pages.got \/ Above(listed, r.key) >= C!Offset
    <3>1. CASE pages.page = 1 /\ pages.total = C!None
      BY <3>1, <2>1, <2>5
    <3>2. CASE ~(pages.page = 1 /\ pages.total = C!None)
      <4>1. r \in steady
        BY <1>2, <3>2, <2>6
      <4>2. Given(r) \/ Above(listed, r.key) >= C!Offset + (IF pages.read = C!None THEN 0 ELSE PageLimit)
        BY <4>1, <1>2, <2>6, Zenon DEF ConsoleInv, PagesInv
      <4>3. QED BY <4>2, <1>2, <2>1, <2>4
    <3>3. QED BY <3>1, <3>2
  <2>7. ASSUME NEW r \in steady', ~torn PROVE Given(r)' \/ Above(listed, r.key) >= C!Offset + PageLimit
    <3>1. r \in C!Listed(listed, C!All)
      BY <2>2
    <3>2. \/ Above(listed, r.key) < C!Offset \/ Above(listed, r.key) >= C!Offset + PageLimit
          \/ \E i \in DOMAIN page : page[i] = r
      BY <3>1, <1>1, <1>2, <1>4, <2>1, OnThePage
    <3>3. QED BY <3>2, <2>1, <2>3, <2>5, <2>6, <2>7
  <2>8. ASSUME NEW r \in steady', pages.total # C!None, ~torn
        PROVE  Given(r)' \/ C!Offset + PageLimit < pages.total[1]
    <3>1. Above(listed, r.key) < pages.total[1] /\ pages.total[1] \in Nat
      BY <1>2, <2>8 DEF ConsoleInv, PagesInv
    <3>2. QED BY <3>1, <2>1, <2>5, <2>7, <2>8
  <2>9. C!HasNext(pages.total[1])' = (C!Offset + PageLimit < pages.total[1]) /\ pages'.read # C!None
    BY <1>3, <2>1 DEF C!HasNext, C!None
  <2>10. pages.total # C!None => pages.total[1] \in Nat
    BY <1>2 DEF ConsoleInv, PagesInv
  <2>11. C!Walking' /\ ~pages.over
    BY <1>2, <1>3, <2>9 DEF C!PageRows, C!Walking
  <2>12. QED BY <1>2, <1>3, <1>4, <2>1, <2>2, <2>7, <2>8, <2>9, <2>10, <2>11, SameList DEF PagesInv
<1>8. QED BY <1>5, <1>6, <1>7 DEF ConsoleInv

LEMMA ConsoleTurns == ASSUME ConsoleInv, C!Turn PROVE ConsoleInv'
<1>1. /\ pages.total # C!None /\ pages.read # C!None
      /\ pages' = [page |-> IF C!HasNext(pages.total[1]) THEN pages.page + 1 ELSE pages.page,
                   total |-> C!None, read |-> C!None, got |-> pages.got \cup C!Range(pages.read[1]),
                   over |-> ~C!HasNext(pages.total[1])]
      /\ list' = list /\ now' = now /\ listed' = listed /\ view' = view /\ asked' = asked /\ steady' = steady
      /\ tangled' = tangled /\ torn' = torn /\ gone' = gone
  BY DEF C!Turn
<1>2. PICK next \in BOOLEAN : next = C!HasNext(pages.total[1])
  <2>1. C!HasNext(pages.total[1]) \in BOOLEAN
    BY DEF C!HasNext
  <2>2. QED BY <2>1
<1>3. /\ pages'.page = (IF next THEN pages.page + 1 ELSE pages.page) /\ pages'.total = C!None /\ pages'.read = C!None
      /\ pages'.got = pages.got \cup C!Range(pages.read[1]) /\ pages'.over = ~next
      /\ pages' = [page |-> pages'.page, total |-> pages'.total, read |-> pages'.read, got |-> pages'.got,
                   over |-> pages'.over]
  BY <1>1, <1>2
<1>4. ConsoleType'
  BY <1>1, <1>3, SameList DEF ConsoleInv, ConsoleType
<1>5. OfferInv' /\ WalkInv'
  BY <1>1, SameList DEF ConsoleInv, OfferInv, Offers, Pickable, WalkInv, WalkOK, C!Shown
<1>6. PagesInv'
  <2> SUFFICES ASSUME list \in C!PageLists PROVE PagesInv'
    BY <1>1 DEF PagesInv
  <2>1. /\ pages.page \in Nat \ {0} /\ steady \subseteq C!Listed(listed, C!All) /\ TableOK(listed)
        /\ ~torn => \A r \in steady : /\ Given(r) \/ Above(listed, r.key) >= C!Offset + PageLimit
                                      /\ Given(r) \/ next
    BY <1>1, <1>2 DEF ConsoleInv, PagesInv, ConsoleType, RowsOK
  <2>2. PageLimit \in Nat \ {0} /\ C!Offset \in Nat /\ C!Offset' = (IF next THEN C!Offset + PageLimit ELSE C!Offset)
    BY <1>3, <2>1, StoresAssumption DEF StoresAssumption, C!ConsoleAssumption, C!Offset
  <2>3. \A r : Given(r) <=> r \in pages'.got
    BY <1>1, <1>3, ConsoleSets DEF Given, Fetched
  <2>4. \A r : Given(r)' <=> r \in pages'.got
    BY <1>3 DEF Given, Fetched
  <2>5. \A r \in steady : Above(listed, r.key) \in Nat
    BY <2>1, IdsAreFinite
  <2>6. ~torn => \A r \in steady : Given(r)' \/ Above(listed, r.key) >= C!Offset' + 0
    BY <2>1, <2>2, <2>3, <2>4, <2>5
  <2>7. \A r \in steady : pages'.over /\ ~torn => r \in pages'.got
    BY <2>1, <2>3, <1>3
  <2>8. pages'.page \in Nat \ {0}
    BY <1>3, <2>1
  <2>9. pages'.over \/ C!Walking'
    <3>1. CASE next
      <4>1. pages'.page = pages.page + 1
        BY <1>3, <3>1
      <4>2. pages'.page > 1
        BY <4>1, <2>1
      <4>3. ~pages'.over
        BY <1>3, <3>1, Zenon
      <4>4. QED BY <4>2, <4>3 DEF C!Walking
    <3>2. CASE ~next
      BY <1>3, <3>2
    <3>3. QED BY <3>1, <3>2
  <2>10. QED BY <1>1, <1>3, <2>1, <2>6, <2>7, <2>8, <2>9, SameList DEF PagesInv
<1>7. QED BY <1>4, <1>5, <1>6 DEF ConsoleInv

-----------------------------------------------------------------------------
(* What the invariant says.                                                  *)

LEMMA TabSays == ASSUME ConsoleInv PROVE C!TabIsFaithful
<1> SUFFICES ASSUME list \in C!TabLists, asked = {}, ~tangled
             PROVE  /\ \A i \in 1 .. (Len(view.shown) - 1) : C!Below(view.shown[i + 1].key, view.shown[i].key)
                    /\ \A i, j \in DOMAIN view.shown : view.shown[i].key[2] = view.shown[j].key[2] =>
                         i = j \/ (C!Moving /\ view.shown[i].key[2] \in gone)
                    /\ \A r \in steady : (view.cursor = C!None \/ ~C!Below(r.key, view.cursor)) => r \in C!Range(view.shown)
                    /\ view.filter # C!All => \A i \in DOMAIN view.shown : view.shown[i].mark = view.filter
  BY DEF C!TabIsFaithful
<1>1. WalkOK(view.shown, view.cursor)
  BY DEF ConsoleInv, WalkInv
<1> DEFINE s == view.shown
<1>2. PICK S : s \in Seq(S)
  BY <1>1 DEF WalkOK, Ordered
<1>3. Len(s) \in Nat /\ DOMAIN s = 1 .. Len(s)
  BY <1>2
<1>4. \A i, j \in DOMAIN s : i < j => C!Below(s[j].key, s[i].key)
  BY <1>1 DEF WalkOK, Ordered, InOrder
<1>5. \A i \in 1 .. (Len(s) - 1) : i \in DOMAIN s /\ i + 1 \in DOMAIN s /\ i < i + 1
  BY <1>3
<1>6. \A i \in 1 .. (Len(s) - 1) : C!Below(s[i + 1].key, s[i].key)
  BY <1>4, <1>5
<1>7. \A r \in steady : (view.cursor = C!None \/ ~C!Below(r.key, view.cursor)) => r \in C!Range(s)
  BY <1>1, ConsoleSets DEF WalkOK, Whole
<1>8. QED BY <1>1, <1>6, <1>7 DEF WalkOK, Remembered, Ordered

\* The flag of the best rank names the status.
LEMMA DerivedIs ==
  ASSUME NEW flags \in SUBSET C!Range(C!StatusOrder)
  PROVE  /\ C!Rank(C!Derived(flags)) \in 1 .. 10 /\ C!Derived(flags) \in C!Statuses
         /\ \A t \in flags : C!Rank(t) \in 1 .. 10 /\ C!Rank(C!Derived(flags)) <= C!Rank(t)
         /\ flags = {} => C!Rank(C!Derived(flags)) = 10
         /\ flags # {} => C!Derived(flags) \in flags
<1>1. \A t \in flags : \E i \in Ranks : t = C!StatusOrder[i] /\ C!Rank(t) = i
  BY StatusRanks
<1>2. CASE flags = {}
  <2>1. C!Derived(flags) = "pending"
    BY <1>2 DEF C!Derived
  <2>2. QED BY <2>1, <1>2, StatusRanks
<1>3. CASE flags # {}
  <2> DEFINE ranks == {C!Rank(t) : t \in flags}
  <2>1. ranks \in SUBSET Nat /\ ranks # {}
    BY <1>1, <1>3 DEF Ranks
  <2>2. PICK k \in ranks : \A n \in ranks : k <= n
    BY <2>1, LeastNumber
  <2>3. \E s \in flags : \A t \in flags : C!Rank(s) <= C!Rank(t)
    BY <2>2
  <2>4. C!Derived(flags) = CHOOSE s \in flags : \A t \in flags : C!Rank(s) <= C!Rank(t)
    BY <1>3 DEF C!Derived
  <2>5. C!Derived(flags) \in flags /\ \A t \in flags : C!Rank(C!Derived(flags)) <= C!Rank(t)
    BY <2>3, <2>4, Zenon
  <2>6. \A t \in flags : C!Rank(t) \in 1 .. 10
    BY <1>1 DEF Ranks
  <2>7. QED BY <2>5, <2>6, <1>1, <1>3, StatusRanks
<1>4. QED BY <1>2, <1>3

LEMMA ChipsSay == ASSUME ConsoleInv PROVE C!ChipsAgree
<1> SUFFICES ASSUME list = "recipients"
             PROVE  /\ \A s \in C!Statuses : /\ C!Chip(listed, s) = C!Cardinality(C!Listed(listed, s))
                                             /\ \A r \in C!Listed(listed, s) : r.mark = s
                    /\ \A r \in C!Listed(listed, C!All) : C!Cardinality({s \in C!Statuses : r \in C!Listed(listed, s)}) = 1
  BY DEF C!ChipsAgree
<1>1. TableOK(listed)
  BY DEF ConsoleInv, ConsoleType, RowsOK
<1> DEFINE Status(o) == C!Derived(C!Raised(C!Of(listed, o)))
           RowOf(o) == [key |-> <<C!Latest(C!Of(listed, o)), o>>, mark |-> Status(o)]
           Under(s) == {p \in C!OwnersIn(listed) : C!Having(C!Of(listed, p), s)}
<1>2. \A s \in C!Statuses : s # C!All
  BY StatusRanks DEF C!All
<1>3. \A s \in C!Statuses : C!Listed(listed, s) = {RowOf(o) : o \in Under(s)}
  BY <1>2, ListedCases DEF C!RecipientRows
<1>4. C!Listed(listed, C!All) = {RowOf(o) : o \in C!OwnersIn(listed)}
  BY ListedCases DEF C!RecipientRows
<1>5. ASSUME NEW s \in C!Statuses
      PROVE  C!Chip(listed, s) = C!Cardinality(C!Listed(listed, s))
  <2> DEFINE S == Under(s)
             said == [o \in S |-> Status(o)]
  <2>1. C!Listed(listed, s) = Groups(listed, S, said)
    BY <1>3, <1>5 DEF Groups
  <2>2. S \in SUBSET C!OwnersIn(listed)
    OBVIOUS
  <2>3. C!Chip(listed, s) = Cardinality(S)
    BY ChipCounts
  <2> HIDE DEF S, said
  <2>4. Cardinality(Groups(listed, S, said)) = Cardinality(S)
    BY <1>1, <2>2, GroupsAreKeyed
  <2>5. QED BY <2>1, <2>3, <2>4, ConsoleSets
<1>6. ASSUME NEW s \in C!Statuses, NEW r \in C!Listed(listed, s) PROVE r.mark = s
  BY <1>1, <1>2, <1>6, ListedIs DEF Pickable, C!All
<1>7. ASSUME NEW r \in C!Listed(listed, C!All) PROVE C!Cardinality({s \in C!Statuses : r \in C!Listed(listed, s)}) = 1
  <2>1. PICK o \in C!OwnersIn(listed) : r = RowOf(o)
    BY <1>4
  <2>2. C!Raised(C!Of(listed, o)) \in SUBSET C!Range(C!StatusOrder)
    BY DEF C!Raised
  <2>3. Status(o) \in C!Statuses
    BY <2>2, DerivedIs
  <2>4. r \in C!Listed(listed, Status(o))
    <3>1. C!Having(C!Of(listed, o), Status(o))
      BY <2>3, HavingIsDerived
    <3>2. QED BY <2>1, <2>3, <3>1, <1>3
  <2>5. \A s \in C!Statuses : r \in C!Listed(listed, s) => s = Status(o)
    BY <1>6, <2>1
  <2> HIDE DEF Status
  <2>6. {s \in C!Statuses : r \in C!Listed(listed, s)} = {Status(o)}
    BY <2>3, <2>4, <2>5
  <2>7. QED BY <2>6, ConsoleSets, FS_Singleton
<1>8. QED BY <1>5, <1>6, <1>7

LEMMA DetailSays == ASSUME ConsoleInv PROVE C!DetailNeverMilder
<1> SUFFICES ASSUME NEW o \in C!OwnersIn(listed), NEW refused \in SUBSET Owners,
                    C!Cardinality(C!Of(listed, o)) <= TimelineLimit
             PROVE  C!Rank(C!Derived(C!TimelineFlags(listed, o, refused))) <= C!Rank(C!Derived(C!Raised(C!Of(listed, o))))
  BY DEF C!DetailNeverMilder
<1> DEFINE mine == C!Of(listed, o)
           Older(r) == {s \in mine : C!Below(<<s.at, s.id>>, <<r.at, r.id>>)}
           flags == C!TimelineFlags(listed, o, refused)
<1>1. TableOK(listed)
  BY DEF ConsoleInv, ConsoleType, RowsOK
<1>2. IsFiniteSet(mine) /\ \A r \in mine : r.at \in Nat /\ r.id \in Nat
  BY <1>1, FS_Subset DEF TableOK, TableRow, C!Of
<1>3. TimelineLimit \in Nat
  BY StoresAssumption DEF StoresAssumption, C!ConsoleAssumption
<1>4. ASSUME NEW r \in mine PROVE Cardinality(Older(r)) < TimelineLimit
  <2>1. Older(r) \subseteq mine /\ r \notin Older(r)
    BY <1>2 DEF C!Below
  <2>2. Cardinality(mine) <= TimelineLimit
    BY ConsoleSets
  <2> HIDE DEF mine, Older
  <2>3. Cardinality(Older(r)) \in Nat /\ Cardinality(mine) \in Nat /\ Cardinality(Older(r)) < Cardinality(mine)
    BY <1>2, <1>4, <2>1, FS_Subset, FS_CardinalityType
  <2>4. QED BY <2>2, <2>3, <1>3
<1>5. flags = ({IF r.mark = "read" THEN "opened" ELSE r.mark : r \in mine} \cap C!Range(C!StatusOrder))
              \cup (IF o \in refused THEN {"failed"} ELSE {})
  <2>1. {r \in mine : C!Cardinality(Older(r)) < TimelineLimit} = mine
    BY <1>4, ConsoleSets
  <2>2. flags = ({IF r.mark = "read" THEN "opened" ELSE r.mark : r \in {q \in mine : C!Cardinality(Older(q)) < TimelineLimit}}
                   \cap C!Range(C!StatusOrder)) \cup (IF o \in refused THEN {"failed"} ELSE {})
    BY DEF C!TimelineFlags
  <2>3. QED BY <2>1, <2>2
<1>6. /\ C!StatusOrder[3] = "failed" /\ C!StatusOrder[6] = "opened" /\ C!StatusOrder[7] = "read"
      /\ 3 \in Ranks /\ 6 \in Ranks /\ 7 \in Ranks
  BY DEF C!StatusOrder, Ranks
<1>7. /\ {"failed", "opened", "read"} \subseteq C!Range(C!StatusOrder)
      /\ C!Rank("opened") = 6 /\ C!Rank("read") = 7
  BY <1>6, StatusRanks
<1>8. flags \in SUBSET C!Range(C!StatusOrder)
  BY <1>5, <1>7
<1>9. C!Raised(mine) \in SUBSET C!Range(C!StatusOrder)
  BY DEF C!Raised
<1>10. ASSUME NEW s \in C!Raised(mine) PROVE \E t \in flags : C!Rank(t) <= C!Rank(s)
  <2>1. PICK r \in mine : r.mark = s
    BY <1>10 DEF C!Raised, C!Flag
  <2>2. s \in C!Range(C!StatusOrder) /\ C!Rank(s) \in 1 .. 10
    BY <1>9, <1>10, DerivedIs
  <2>3. CASE s = "read"
    BY <2>1, <2>3, <1>5, <1>7
  <2>4. CASE s # "read"
    <3>1. s \in flags
      BY <2>1, <2>2, <2>4, <1>5
    <3>2. QED BY <3>1, <2>2
  <2>5. QED BY <2>3, <2>4
<1> HIDE DEF flags, mine
<1>11. CASE C!Raised(mine) = {}
  BY <1>8, <1>9, <1>11, DerivedIs DEF flags, mine
<1>12. CASE C!Raised(mine) # {}
  <2>1. C!Derived(C!Raised(mine)) \in C!Raised(mine)
    BY <1>9, <1>12, DerivedIs
  <2>2. PICK t \in flags : C!Rank(t) <= C!Rank(C!Derived(C!Raised(mine)))
    BY <1>10, <2>1
  <2>3. C!Rank(C!Derived(flags)) <= C!Rank(t) /\ C!Rank(C!Derived(flags)) \in 1 .. 10 /\ C!Rank(t) \in 1 .. 10
        /\ C!Rank(C!Derived(C!Raised(mine))) \in 1 .. 10
    BY <1>8, <1>9, DerivedIs
  <2>4. C!Rank(C!Derived(flags)) <= C!Rank(C!Derived(C!Raised(mine)))
    BY <2>2, <2>3
  <2>5. QED BY <2>4 DEF flags, mine
<1>13. QED BY <1>11, <1>12

LEMMA ConsoleInvSays == ASSUME ConsoleInv PROVE C!ConsoleSound /\ C!PagesMissNothing
<1>1. C!PagesMissNothing
  <2>1. list \in C!PageLists => C!PagesMissNothing
    BY DEF ConsoleInv, PagesInv, C!PagesMissNothing
  <2>2. list \notin C!PageLists => C!PagesMissNothing
    BY DEF ConsoleInv, ConsoleType, C!PagesMissNothing
  <2>3. QED BY <2>1, <2>2
<1>2. QED BY <1>1, TabSays, ChipsSay, DetailSays DEF C!ConsoleSound

LEMMA ConsoleNextKeeps == ASSUME ConsoleInv, C!ConsoleNext PROVE ConsoleInv'
<1>1. now \in Nat /\ RowsOK(listed, now, gone)
  BY DEF ConsoleInv, ConsoleType
<1>2. CASE C!Arrive \/ C!Accept \/ C!Settle \/ C!AcceptLate \/ C!Queue \/ C!Work \/ C!Line \/ C!Roll
             \/ C!Prune
  BY <1>1, <1>2, Written, ConsoleWrites
<1>3. CASE C!Clock \/ C!Reload \/ C!Pick \/ C!More \/ C!Type \/ C!Typed
  BY <1>3, ConsoleMoves
<1>4. CASE C!Read \/ C!Answer \/ C!Fail
  BY <1>4, ConsoleReads, ConsoleAnswers, ConsoleFails
<1>5. CASE C!CountRows \/ C!PageRows \/ C!Turn
  BY <1>5, ConsoleCounts, ConsolePages, ConsoleTurns
<1>6. QED BY <1>2, <1>3, <1>4, <1>5, Zenon DEF C!ConsoleNext

LEMMA ConsoleUnchanged == ASSUME ConsoleInv, UNCHANGED console PROVE ConsoleInv'
<1>1. now \in Nat
  BY DEF ConsoleInv, ConsoleType
<1>2. QED BY <1>1, ConsoleStays DEF console

\* However requests of a tab overlap, fail and are answered, and whatever is written or
\* swept meanwhile: a tab that one clean walk filled shows each row of its filter once,
\* in order, and none is missing; the chips, the list and the detail of a recipient
\* agree; and a client that turned all the numbered pages was given every row that was
\* there all along.
THEOREM ConsoleHoldsAlways == MCSpec => []ConsoleHolds
<1> DEFINE Q == part = "console" => ConsoleInv
<1>1. MCInit => Q
  BY ConsoleStarts DEF MCInit
<1>2. Q /\ [MCNext]_<<part, vars, registry, program, console>> => Q'
  <2> SUFFICES ASSUME Q, [MCNext]_<<part, vars, registry, program, console>>, part' = "console"
               PROVE  ConsoleInv'
    OBVIOUS
  <2>1. part' = part
    BY DEF MCNext
  <2>2. ConsoleInv /\ (C!ConsoleNext \/ UNCHANGED console)
    BY <2>1 DEF MCNext
  <2>3. QED BY <2>2, ConsoleNextKeeps, ConsoleUnchanged
<1>3. Q => ConsoleHolds
  BY ConsoleInvSays DEF ConsoleHolds
<1> HIDE DEF Q
<1>4. QED BY <1>1, <1>2, <1>3, PTL DEF MCSpec
=============================================================================
