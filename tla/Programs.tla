------------------------------ MODULE Programs ------------------------------
(***************************************************************************)
(* Which program a send belongs to: the table dispatch_programs and the    *)
(* cache before it (src/db/repos/dispatch-programs.ts), written by the     *)
(* dispatches and read by inbound events and by the metrics scope.  An     *)
(* upsert and the cache write after it are two steps, as are a lookup's    *)
(* SELECT and the cache writes of its answer.                              *)
(*                                                                         *)
(* Before anything is served, the first boot copies the events left in the *)
(* outbox into campaign_events, page by page, through the same map         *)
(* (src/db/campaign-events-backfill.ts, db/bootstrap.ts).                  *)
(***************************************************************************)
EXTENDS FiniteSets, Naturals

CONSTANTS
  Wires,           \* wire campaign ids of drip steps
  Dispatches,      \* dispatches, each with its payload
  Payload,         \* dispatch -> [wire, program]; NoProgram for an older sender
  Lookups,         \* resolveProgram calls, one id each
  CacheMax,        \* CACHE_MAX
  Mapped,          \* the rows a first boot may find, left by another process: wire -> program
  Queued,          \* event_outbox at the first boot: [ts, id, key, wire], NoProgram without a campaign
  PageSize,        \* BATCH
  MaxProgramFaults \* bound on failed statements and restarts

NoProgram == "none"

\* A dispatch has a wire id; created_at is past the epoch, and no two rows have one place.
ProgramAssumption ==
  /\ NoProgram \notin Wires /\ PageSize \in Nat \ {0} /\ MaxProgramFaults \in Nat
  /\ \A d \in Dispatches : Payload[d].wire \in Wires
  /\ \A m \in Mapped : m = [w \in Wires |-> m[w]]
  /\ IsFiniteSet(Queued)
  /\ \A r \in Queued :
       /\ r.ts \in Nat \ {0} /\ r.id \in Nat
       /\ r.wire # NoProgram => r.wire \in Wires /\ r.key # NoProgram
  /\ \A r, q \in Queued : r.ts = q.ts /\ r.id = q.id => r = q

VARIABLES
  programs,    \* the table: wire -> program, NoProgram for no row
  programCache,\* wire -> program
  recording,   \* dispatch -> "todo", "written" or "done"
  lookup,      \* lookup -> [pc, wire, found]
  programFaults,
  stored,      \* campaign_events: dedupe_key -> program, of the events in Queued
  backfill,    \* [done, cursor]: the flag in dispatcher_meta, and the rows this boot has passed
  \* history
  overlapped   \* wires recorded while another record or lookup of them was open

programVars == <<programs, programCache, recording, lookup, programFaults, stored, backfill, overlapped>>

\* programOf: the drip's sequence, and the wire id itself for an older sender.
ProgramOf(d) == IF Payload[d].program = NoProgram THEN Payload[d].wire ELSE Payload[d].program

\* resolveProgram without a row: the send groups alone, under its own wire id.
Alone(w) == w

Keys == {r.key : r \in Queued} \ {NoProgram}
Start == [ts |-> 0, id |-> 0]

Idle(w) == [pc |-> "idle", wire |-> w, found |-> NoProgram]

ProgramInit ==
  /\ programs \in Mapped
  /\ programCache = << >>
  /\ recording = [d \in Dispatches |-> "todo"]
  /\ lookup \in [Lookups -> {Idle(w) : w \in Wires}]
  /\ programFaults = 0 /\ overlapped = {}
  /\ stored = [k \in Keys |-> NoProgram]
  /\ backfill = [done |-> FALSE, cursor |-> Start]

-----------------------------------------------------------------------------
(* backfillCampaignEventsOnce *)
Later(r, cursor) == r.ts > cursor.ts \/ (r.ts = cursor.ts /\ r.id > cursor.id)

Rest == {r \in Queued : Later(r, backfill.cursor)}

\* The first n rows to come, in the order of (created_at, id); a page of them.
Ahead(n) == {r \in Rest : Cardinality({q \in Rest : Later(r, q)}) < n}
Page == Ahead(PageSize)

First(rows) == CHOOSE r \in rows : \A q \in rows : ~Later(r, q)
Final(rows) == CHOOSE r \in rows : \A q \in rows : ~Later(q, r)

\* resolveProgram for the wires of a page: nothing else runs yet.
Row(w) == IF programs[w] # NoProgram THEN programs[w] ELSE Alone(w)
Resolved(w) == IF w \in DOMAIN programCache THEN programCache[w] ELSE Row(w)

\* Rows that name a campaign go in by insert-ignore, in order.
Insert(rows) ==
  [k \in Keys |-> LET mine == {r \in rows : r.key = k /\ r.wire # NoProgram}
                  IN IF stored[k] = NoProgram /\ mine # {} THEN Resolved(First(mine).wire) ELSE stored[k]]

CopyPage ==
  /\ ~backfill.done
  /\ Page # {}
  /\ stored' = Insert(Page)
  /\ programCache' = LET rows == {w \in {r.wire : r \in Page} \ {NoProgram} : programs[w] # NoProgram}
                     IN [w \in DOMAIN programCache \cup rows |->
                           IF w \in DOMAIN programCache THEN programCache[w] ELSE programs[w]]
  /\ backfill' = [backfill EXCEPT !.cursor = [ts |-> Final(Page).ts, id |-> Final(Page).id]]
  /\ UNCHANGED <<programs, recording, lookup, programFaults, overlapped>>

\* A page that is not full is the last; then the flag is set.
BackfillDone ==
  /\ ~backfill.done
  /\ Rest = {}
  /\ backfill' = [backfill EXCEPT !.done = TRUE]
  /\ UNCHANGED <<programs, programCache, recording, lookup, programFaults, stored, overlapped>>

\* A statement fails after n rows of a page: the boot ends, and the next begins afresh.
CopyFails(n) ==
  /\ ~backfill.done
  /\ Ahead(n) # Page
  /\ programFaults < MaxProgramFaults
  /\ programFaults' = programFaults + 1
  /\ stored' = Insert(Ahead(n))
  /\ programCache' = <<>>
  /\ backfill' = [backfill EXCEPT !.cursor = Start]
  /\ UNCHANGED <<programs, recording, lookup, overlapped>>

-----------------------------------------------------------------------------
\* recordDispatchProgram clears a full cache before it writes.
Put(w, p) ==
  LET kept == IF Cardinality(DOMAIN programCache) >= CacheMax THEN {} ELSE DOMAIN programCache
  IN [x \in kept \cup {w} |-> IF x = w THEN p ELSE programCache[x]]

\* A lookup's answer goes into the cache whatever its size, or what it has now.
Fill(w, p) == [x \in DOMAIN programCache \cup {w} |-> IF x = w THEN p ELSE programCache[x]]

Open(w) ==
  \/ \E d \in Dispatches : recording[d] = "written" /\ Payload[d].wire = w
  \/ \E k \in Lookups : lookup[k].pc = "read" /\ lookup[k].wire = w

\* The upsert; a statement that fails is swallowed, and the dispatch goes on.
Upsert(d, ok) ==
  LET w == Payload[d].wire IN
  /\ backfill.done /\ recording[d] = "todo"
  /\ \/ /\ ok
        /\ programs' = [programs EXCEPT ![w] = ProgramOf(d)]
        /\ recording' = [recording EXCEPT ![d] = "written"]
        /\ overlapped' = IF Open(w) THEN overlapped \cup {w} ELSE overlapped
        /\ UNCHANGED programFaults
     \/ /\ ~ok /\ programFaults < MaxProgramFaults
        /\ programFaults' = programFaults + 1
        /\ recording' = [recording EXCEPT ![d] = "done"]
        /\ UNCHANGED <<programs, overlapped>>
  /\ UNCHANGED <<programCache, lookup, stored, backfill>>

\* The continuation after the upsert.
CacheRecord(d) ==
  /\ recording[d] = "written"
  /\ programCache' = Put(Payload[d].wire, ProgramOf(d))
  /\ recording' = [recording EXCEPT ![d] = "done"]
  /\ UNCHANGED <<programs, lookup, programFaults, stored, backfill, overlapped>>

\* resolveProgram: a hit answers at once; a miss reads the row.
Hit(k) ==
  /\ backfill.done /\ lookup[k].pc = "idle"
  /\ lookup[k].wire \in DOMAIN programCache
  /\ lookup' = [lookup EXCEPT ![k].pc = "done", ![k].found = programCache[lookup[k].wire]]
  /\ UNCHANGED <<programs, programCache, recording, programFaults, stored, backfill, overlapped>>

Select(k) ==
  /\ backfill.done /\ lookup[k].pc = "idle"
  /\ lookup[k].wire \notin DOMAIN programCache
  /\ lookup' = [lookup EXCEPT ![k].pc = "read", ![k].found = programs[lookup[k].wire]]
  /\ UNCHANGED <<programs, programCache, recording, programFaults, stored, backfill, overlapped>>

\* Mutant of Learnt: a lookup that found nothing remembers that as well.
LearntAlways(k) == Fill(lookup[k].wire, IF lookup[k].found = NoProgram THEN Alone(lookup[k].wire) ELSE lookup[k].found)

\* Only rows are cached: an id without one is looked up again the next time.
Learnt(k) == IF lookup[k].found = NoProgram THEN programCache ELSE Fill(lookup[k].wire, lookup[k].found)

\* The answer of the SELECT: cached, then given, with the fallback for no row.
Resolve(k) ==
  /\ lookup[k].pc = "read"
  /\ programCache' = Learnt(k)
  /\ lookup' = [lookup EXCEPT ![k].pc = "done",
                  ![k].found = IF @ = NoProgram THEN Alone(lookup[k].wire) ELSE @]
  /\ UNCHANGED <<programs, recording, programFaults, stored, backfill, overlapped>>

\* A new event of the same or another send.
Again(k, w) ==
  /\ lookup[k].pc = "done"
  /\ lookup' = [lookup EXCEPT ![k] = Idle(w)]
  /\ UNCHANGED <<programs, programCache, recording, programFaults, stored, backfill, overlapped>>

ProgramRestart ==
  /\ programFaults < MaxProgramFaults
  /\ programFaults' = programFaults + 1
  /\ programCache' = << >>
  /\ recording' = [d \in Dispatches |-> IF recording[d] = "written" THEN "done" ELSE recording[d]]
  /\ lookup' = [k \in Lookups |-> Idle(lookup[k].wire)]
  /\ overlapped' = {}
  /\ backfill' = [backfill EXCEPT !.cursor = Start]
  /\ UNCHANGED <<programs, stored>>

ProgramNext ==
  \/ \E d \in Dispatches : (\E ok \in BOOLEAN : Upsert(d, ok)) \/ CacheRecord(d)
  \/ \E k \in Lookups : Hit(k) \/ Select(k) \/ Resolve(k) \/ (\E w \in Wires : Again(k, w))
  \/ CopyPage \/ BackfillDone \/ (\E n \in 0..PageSize - 1 : CopyFails(n))
  \/ ProgramRestart

ProgramSpec == ProgramInit /\ [][ProgramNext]_programVars

-----------------------------------------------------------------------------
\* The cache says what the table says: a cached mapping is the row, except while
\* the record that wrote the row has still to write the cache, or when a record
\* overlapped another one, or a lookup, of the same wire id (dispatch-programs.ts).
CacheTellsTable ==
  \A w \in DOMAIN programCache :
    \/ programCache[w] = programs[w]
    \/ w \in overlapped
    \/ \E d \in Dispatches : recording[d] = "written" /\ Payload[d].wire = w

\* A miss is never remembered, so a mapping recorded after an event asked for it
\* is found by the next event.
MissesAreNotCached == \A w \in DOMAIN programCache : programs[w] # NoProgram

\* By hand, both false: recordDispatchProgram and the lookups keep the cache within CACHE_MAX.
CacheBounded == Cardinality(DOMAIN programCache) <= CacheMax

\* When a first boot serves, every event of the outbox that names a campaign is in
\* the console's store, under the program the table has for its wire id, however
\* often the boot was cut short (campaign-events-backfill.ts, "makes a crashed/re-run
\* pass safe"; "Historical sends resolve through the same program map as live ones").
HistoryCopied ==
  backfill.done =>
    \A r \in Queued : r.wire # NoProgram =>
      /\ stored[r.key] # NoProgram
      /\ (\A d \in Dispatches : recording[d] = "todo") =>
           \E q \in Queued : q.key = r.key /\ q.wire # NoProgram /\ stored[r.key] = Row(q.wire)

ProgramsSound == CacheTellsTable /\ MissesAreNotCached /\ HistoryCopied

\* The cache is not behind the row once the calls on its wire id are over.
FreshAnswers == \A w \in DOMAIN programCache : ~Open(w) => programCache[w] = programs[w]
=============================================================================
