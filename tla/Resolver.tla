------------------------------ MODULE Resolver ------------------------------
(***************************************************************************)
(* What one dispatch puts into its recipients' messages: the user lookup   *)
(* (src/user-lookup), the query and api variables resolved once for all    *)
(* recipients (src/variables/resolver.ts), and the personalisation of each *)
(* message (src/personalize.ts).  The registry of variables is replaced    *)
(* between any two steps by another request or by the periodic refresh,    *)
(* and the lookup, the resolver and each recipient's rendering read the    *)
(* one of their own moment.                                                *)
(*                                                                         *)
(* A string is the sequence of its words, the empty string one empty word; *)
(* no value holds a {{token}} of its own.  A token is <<variable, path>>,  *)
(* path "" for {{variable}} itself.                                        *)
(***************************************************************************)
EXTENDS FiniteSets, Integers, SequencesExt

CONSTANTS
  Asked,        \* user_ids of the dispatch, in order
  Canonical,    \* wire id -> coerceIdForType, or NoId
  NoId,
  Records,      \* what a directory may hold: [id, reachable, plan]
  ChunkSize,    \* batch.max_ids_per_query
  LookupRetries,\* network.retries, http.retries
  Def,          \* variable -> [source, reads, place, paths, fallback (has a non-empty one), required]
  Content,      \* the tokens of the message
  MetaValue,    \* {{key.v}} as this send carries it
  Concurrency,  \* CONCURRENCY
  MaxSwaps      \* bound on replacements of the registry

ResolverAssumption ==
  /\ Concurrency \in Nat
  /\ Asked \in Seq(ToSet(Asked))
  /\ \A r \in Records : DOMAIN r = {"id", "reachable", "plan"}

Names == DOMAIN Def
EmptyText == <<"">>

VARIABLES
  backend,   \* user_lookup.backend
  registry,  \* names of the active snapshot (variables/service.ts)
  swaps,
  stage,     \* "lookup", "plan", "resolve", "render", "done", "thrown"
  columns,   \* the lookup read the column {{field.plan}} names
  chunkNo, attempt,
  found,     \* wire id -> record; http and sql hold canonical ids until the last chunk
  planned,   \* variables of the snapshot the resolver read
  schemas,   \* the call metadata schemas were loaded
  queue,     \* jobs not yet started, taken in some fixed order: [key, name, inputs]
  running, outcomes,
  used,      \* resolvableTokens of the content
  position, rendered,
  \* history
  answered,  \* <<chunk, records>> the directory answered with
  calls,     \* executions made, as a sequence of [name, inputs]
  stirred    \* the registry was replaced after "used" was read

resolverVars == <<backend, registry, swaps, stage, columns, chunkNo, attempt, found, planned, schemas,
                  queue, running, outcomes, used, position, rendered, answered, calls, stirred>>

\* inactiveSources, refreshPlaceholders: without the customer's database a variable
\* that needs it is registered as a constant, its fallback.
Inactive(n) == backend # "sql" /\ Def[n].source \in {"field", "query"}
Source(n) == IF Inactive(n) THEN "constant" ELSE Def[n].source
Dynamic(n) == Source(n) \in {"api", "query"}

ResolverInit ==
  /\ backend \in {"network", "http", "sql", "mock"}
  /\ registry \in SUBSET Names
  /\ swaps = 0 /\ stage = "lookup" /\ columns = FALSE
  /\ chunkNo = 1 /\ attempt = 0 /\ found = << >>
  /\ planned = {} /\ schemas = FALSE
  /\ queue = {} /\ running = {} /\ outcomes = << >>
  /\ used = {} /\ position = 1 /\ rendered = << >>
  /\ answered = {} /\ calls = << >> /\ stirred = FALSE

\* refreshPlaceholderRegistry installs the snapshot another request left.
Swap ==
  /\ swaps < MaxSwaps /\ stage \notin {"done", "thrown"}
  /\ \E names \in SUBSET Names : names # registry /\ registry' = names
  /\ swaps' = swaps + 1
  /\ stirred' = (stirred \/ stage = "render")
  /\ UNCHANGED <<backend, stage, columns, chunkNo, attempt, found, planned, schemas,
                 queue, running, outcomes, used, position, rendered, answered, calls>>

-----------------------------------------------------------------------------
(* The lookup *)

\* What a list has at the positions S, in its order.
At(list, S) == [n \in 1 .. Cardinality(S) |-> list[CHOOSE k \in S : Cardinality({j \in S : j <= k}) = n]]

Distinct(s) == At(s, {k \in DOMAIN s : \A j \in DOMAIN s : j < k => s[j] # s[k]})

\* What is asked for: the wire ids as they are, or the valid ones coerced.
Wanted ==
  LET coerced == [i \in DOMAIN Asked |-> Canonical[Asked[i]]]
  IN IF backend = "network" THEN Distinct(Asked)
     ELSE Distinct(At(coerced, {i \in DOMAIN coerced : coerced[i] # NoId}))

Chunks == (Len(Wanted) + ChunkSize - 1) \div ChunkSize
Chunk == {Wanted[i] : i \in {j \in DOMAIN Wanted : (j - 1) \div ChunkSize = chunkNo - 1}}

\* The last record of an id is the one that stays.
Later(records) == [i \in {r.id : r \in records} |-> CHOOSE r \in records : r.id = i]

\* toUserRecord and chunk.includes: reachable on the channel, and asked for here.
\* The other adapters keep every record by its coerced id.
Taken(records) ==
  IF backend = "network" THEN Later({r \in records : r.reachable /\ r.id \in Chunk}) ELSE Later(records)

\* The view answers for the ids it was asked; an API answers with what it likes.
Answers ==
  LET one == {A \in SUBSET Records : \A r, s \in A : r.id = s.id => r = s}
  IN IF backend # "sql" THEN one ELSE {A \in one : \A r \in A : r.id \in Chunk}

\* mapSqlRowToUserRecord, mapHttpRecordToUserRecord: one user per wire id.
ByWire(rows) ==
  [w \in {w \in ToSet(Asked) : Canonical[w] \in DOMAIN rows /\ rows[Canonical[w]].reachable} |->
     [rows[Canonical[w]] EXCEPT !.id = w]]

\* A Map with another's entries set over its own.
Over(f, g) == [k \in DOMAIN f \cup DOMAIN g |-> IF k \in DOMAIN f THEN f[k] ELSE g[k]]

\* The next chunk, or the end of the lookup.
Advance(f) ==
  /\ attempt' = 0
  /\ IF chunkNo < Chunks THEN chunkNo' = chunkNo + 1 /\ found' = f /\ UNCHANGED stage
     ELSE /\ stage' = "plan" /\ UNCHANGED chunkNo
          /\ found' = IF backend = "network" THEN f ELSE ByWire(f)

\* sql: the columns the variables of this moment read join the contact fields.
Probe ==
  backend = "sql" /\ \E n \in registry : Def[n].source = "field" \/ \E i \in DOMAIN Def[n].reads : Def[n].reads[i] = "plan"

Answered ==
  /\ stage = "lookup" /\ backend # "mock" /\ Chunks > 0
  /\ \E A \in Answers : Advance(Over(Taken(A), found)) /\ answered' = answered \cup {<<Chunk, A>>}
  /\ columns' = IF chunkNo = 1 THEN Probe ELSE columns
  /\ UNCHANGED <<backend, registry, swaps, planned, schemas, queue, running, outcomes, used,
                 position, rendered, calls, stirred>>

\* A 5xx, a timeout or a malformed answer is asked again while retries are left;
\* a 4xx is not.  The chunk that stays unanswered costs its own recipients.
Unanswered ==
  /\ stage = "lookup" /\ backend \in {"network", "http"} /\ Chunks > 0
  /\ \/ attempt < LookupRetries /\ attempt' = attempt + 1 /\ UNCHANGED <<chunkNo, found, stage>>
     \/ Advance(found)
  /\ UNCHANGED <<backend, registry, swaps, columns, planned, schemas, queue, running, outcomes,
                 used, position, rendered, answered, calls, stirred>>

\* A statement that fails is not caught: the dispatch fails.
SqlFails ==
  /\ stage = "lookup" /\ backend = "sql" /\ Chunks > 0
  /\ stage' = "thrown"
  /\ UNCHANGED <<backend, registry, swaps, columns, chunkNo, attempt, found, planned, schemas,
                 queue, running, outcomes, used, position, rendered, answered, calls, stirred>>

\* MockAdapter knows everybody; no id left to ask ends the lookup at once.
NothingToAsk ==
  /\ stage = "lookup" /\ (backend = "mock" \/ Chunks = 0)
  /\ found' = IF backend = "mock"
              THEN [w \in ToSet(Asked) |-> [id |-> w, reachable |-> TRUE, plan |-> EmptyText]]
              ELSE << >>
  /\ stage' = "plan"
  /\ UNCHANGED <<backend, registry, swaps, columns, chunkNo, attempt, planned, schemas, queue,
                 running, outcomes, used, position, rendered, answered, calls, stirred>>

-----------------------------------------------------------------------------
(* The resolver *)

\* The send's metadata value: without its schema "".
Meta(loaded) == IF loaded THEN MetaValue ELSE EmptyText

\* tokenValue: a column the lookup did not read is "", as is an absent one.
Value(w, what, loaded) ==
  IF what = "user" THEN <<w>>
  ELSE IF what = "meta" THEN Meta(loaded)
  ELSE IF columns THEN found[w].plan ELSE EmptyText

\* The effective inputs.
Inputs(n, w, loaded) == [i \in DOMAIN Def[n].reads |-> Value(w, Def[n].reads[i], loaded)]

\* Mutant of Key: the inputs are left out.
KeyByUrl(n, w, loaded) == <<n, << >> >>

\* cacheKey: the inputs apart in a URL or in SQL, run together in headers or body.
Key(n, w, loaded) ==
  <<n, IF Def[n].place = "text" THEN <<FlattenSeq(Inputs(n, w, loaded))>> ELSE Inputs(n, w, loaded)>>

\* metadataContexts: a required value the send lacks skips the call.
Skipped(n, loaded) ==
  Def[n].required /\ \E i \in DOMAIN Def[n].reads : Def[n].reads[i] = "meta" /\ Meta(loaded) = EmptyText

\* buildApiUrl refuses a URL without a host, before any job is run.
Unbuildable(n, w, loaded) == Def[n].place = "host" /\ \E i \in DOMAIN Def[n].reads : Inputs(n, w, loaded)[i] = EmptyText

\* What the recipients that were found need of the variables ns.
Needs(ns, loaded) ==
  {[key |-> Key(n, w, loaded), name |-> n, inputs |-> Inputs(n, w, loaded)] : n \in ns, w \in DOMAIN found}

\* jobByKey: one job per key, that of the recipient the directory gave first.
OnePerKey(jobs, needs) ==
  /\ jobs \subseteq needs
  /\ \A need \in needs : \E j \in jobs : j.key = need.key
  /\ \A i, j \in jobs : i.key = j.key => i = j

Plan ==
  /\ stage = "plan"
  /\ LET ns == {n \in registry : Dynamic(n)} IN
     \E loaded \in BOOLEAN :
       /\ loaded \/ \E n \in ns : \E i \in DOMAIN Def[n].reads : Def[n].reads[i] = "meta"
       /\ schemas' = loaded /\ planned' = ns
       /\ LET live == {n \in ns : ~Skipped(n, loaded)} IN
          IF \E n \in live : \E w \in DOMAIN found : Unbuildable(n, w, loaded)
          THEN stage' = "thrown" /\ UNCHANGED queue
          ELSE stage' = "resolve" /\ \E jobs \in SUBSET Needs(live, loaded) : OnePerKey(jobs, Needs(live, loaded)) /\ queue' = jobs
  /\ UNCHANGED <<backend, registry, swaps, columns, chunkNo, attempt, found, running, outcomes,
                 used, position, rendered, answered, calls, stirred>>

\* mapLimit: a free worker takes the next job.
Start ==
  /\ stage = "resolve" /\ queue # {} /\ Cardinality(running) < Concurrency
  /\ LET j == CHOOSE job \in queue : TRUE
     IN /\ running' = running \cup {j} /\ queue' = queue \ {j}
        /\ calls' = Append(calls, [name |-> j.name, inputs |-> j.inputs])
  /\ UNCHANGED <<backend, registry, swaps, stage, columns, chunkNo, attempt, found, planned,
                 schemas, outcomes, used, position, rendered, answered, stirred>>

\* pathsToExtract: the declared paths and those the content uses.
Paths(n) == IF Def[n].source # "api" THEN {} ELSE Def[n].paths \cup ({p \in {t[2] : t \in {x \in Content : x[1] = n}} : p # ""})

\* An execution fails (an error, a timeout, a bad status or body) and yields
\* nothing, or yields a non-empty single value at some of the paths.
Finish(j) ==
  /\ j \in running
  /\ \E yields \in SUBSET ({""} \cup Paths(j.name)) :
       outcomes' = Over([k \in {j.key} |-> [inputs |-> j.inputs, yields |-> yields]], outcomes)
  /\ running' = running \ {j}
  /\ UNCHANGED <<backend, registry, swaps, stage, columns, chunkNo, attempt, found, planned,
                 schemas, queue, used, position, rendered, answered, calls, stirred>>

\* resolvableTokens, of the registry of the moment the resolver answered.
Countable(names) == {t \in Content : t[1] \in names /\ (t[2] # "" => Def[t[1]].source = "api")}

Resolved ==
  /\ stage = "resolve" /\ queue = {} /\ running = {}
  /\ used' = Countable(registry)
  /\ stage' = "render"
  /\ UNCHANGED <<backend, registry, swaps, columns, chunkNo, attempt, found, planned, schemas,
                 queue, running, outcomes, position, rendered, answered, calls, stirred>>

-----------------------------------------------------------------------------
(* The message of one recipient *)

\* A text is [kind, of, blank]: a value and what it was computed from, the
\* variable's fallback, or the token itself.
Own(x) == [kind |-> "value", of |-> x]
Fallback == [kind |-> "fallback", of |-> << >>]
Raw == [kind |-> "raw", of |-> << >>]

\* DynamicResolution.values: what was yielded, else the fallback.
Tokens == UNION {{<<n, p>> : p \in {""} \cup Paths(n)} : n \in planned}
Yield(w, t) ==
  LET k == Key(t[1], w, schemas)
  IN IF ~Skipped(t[1], schemas) /\ k \in DOMAIN outcomes /\ t[2] \in outcomes[k].yields
     THEN Own(outcomes[k].inputs) ELSE Fallback

\* resolvePlaceholderWithMeta, of a variable the registry has now.
Placeholder(w, t) ==
  IF Dynamic(t[1]) THEN IF t \in Tokens THEN Yield(w, t) ELSE Fallback
  ELSE IF Inactive(t[1]) THEN Fallback
  ELSE IF Source(t[1]) = "constant" THEN Own(<< >>)
  ELSE IF Value(w, "plan", schemas) # EmptyText THEN Own(<<Value(w, "plan", schemas)>>) ELSE Fallback

\* personalize: the registry's names, then what was resolved, then the sweep of
\* the paths nobody resolved.
Text(w, t) ==
  IF t[2] = "" /\ t[1] \in registry THEN Placeholder(w, t)
  ELSE IF t \in Tokens THEN Yield(w, t)
  ELSE IF t[2] # "" /\ t[1] \in registry /\ Def[t[1]].source = "api" THEN Fallback
  ELSE Raw

\* A constant says that it used its fallback only where its value is empty, and
\* the value of an inactive variable is its fallback.
Unsaid(n) == Inactive(n) /\ Def[n].fallback

\* countFallbacks
Count(w) == Cardinality({t \in used : t[1] \in registry /\ Placeholder(w, t) = Fallback /\ ~Unsaid(t[1])})

Render ==
  /\ stage = "render"
  /\ IF position > Len(Asked) THEN stage' = "done" /\ UNCHANGED <<position, rendered>>
     ELSE LET w == Asked[position] IN
          /\ position' = position + 1
          /\ rendered' = IF w \notin DOMAIN found THEN rendered
                         ELSE Over([i \in {position} |-> [texts |-> [t \in Content |-> Text(w, t)], count |-> Count(w)]], rendered)
          /\ UNCHANGED stage
  /\ UNCHANGED <<backend, registry, swaps, columns, chunkNo, attempt, found, planned, schemas,
                 queue, running, outcomes, used, answered, calls, stirred>>

ResolverNext ==
  \/ Swap \/ Answered \/ Unanswered \/ SqlFails \/ NothingToAsk
  \/ Plan \/ Start \/ Resolved \/ Render
  \/ \E j \in running : Finish(j)

ResolverSpec == ResolverInit /\ [][ResolverNext]_resolverVars

-----------------------------------------------------------------------------
(* Properties *)

\* What an input may be, and the hypothesis that inputs which run together in a
\* header or a body (of two tokens side by side, say) still tell two calls apart.
\* Where they do not, the two requests are the same text.
Words(what) ==
  IF what = "user" THEN {<<w>> : w \in ToSet(Asked)}
  ELSE {EmptyText} \cup (IF what = "meta" THEN {MetaValue} ELSE {r.plan : r \in Records})
Readings(n) ==
  LET reads == Def[n].reads
  IN {x \in [DOMAIN reads -> UNION {Words(reads[i]) : i \in DOMAIN reads}] : \A i \in DOMAIN reads : x[i] \in Words(reads[i])}
WordsApart ==
  \A n \in Names : Def[n].place = "text" => \A x, y \in Readings(n) : FlattenSeq(x) = FlattenSeq(y) => x = y

\* Nobody reads a value computed from another recipient's inputs (resolver.ts,
\* cacheKey and the plans after it), where WordsApart.
OwnValuesOnly ==
  \A i \in DOMAIN rendered : \A t \in Content :
    LET x == rendered[i].texts[t]
    IN x.kind = "value" /\ Dynamic(t[1]) => x.of = Inputs(t[1], Asked[i], schemas)

\* "a definition that doesn't reference user tokens executes only once for the
\* whole batch" (resolver.ts:4-5), no input is asked twice, at most CONCURRENCY
\* at a time, and none with a required value missing.
CallsAreFew ==
  /\ Cardinality(running) <= Concurrency
  /\ \A i, j \in DOMAIN calls : calls[i] = calls[j] => i = j
  /\ \A i \in DOMAIN calls : ~ (Def[calls[i].name].required /\ \E k \in DOMAIN calls[i].inputs :
       Def[calls[i].name].reads[k] = "meta" /\ calls[i].inputs[k] = EmptyText)

\* "A failure here costs those recipients, never the whole run" and "a record for
\* an id we never asked about is not ours to trust" (user-lookup/adapters/network.ts).
LookupIsLocal ==
  backend = "network" /\ stage \notin {"lookup", "thrown"} =>
    /\ DOMAIN found = {w \in ToSet(Asked) : \E a \in answered : w \in a[1] /\ \E r \in a[2] : r.id = w /\ r.reachable}
    /\ \A w \in DOMAIN found : \E a \in answered : w \in a[1] /\ found[w] \in a[2]

\* "the count can never disagree with what was actually rendered"
\* (personalize.ts:300-301), while the registry stays what it was and but for the
\* inactive variables, whose fallback is a constant's value.
CountsAgree ==
  ~stirred => \A i \in DOMAIN rendered :
    rendered[i].count = Cardinality({t \in used : rendered[i].texts[t] = Fallback /\ ~Unsaid(t[1])})

ResolverSound == OwnValuesOnly /\ CallsAreFew /\ LookupIsLocal /\ CountsAgree

\* By hand, each false: a registry replaced while the messages are rendered, an
\* inactive variable whatever the registry does, and "Failures fall back (never
\* throw into the dispatch)" (resolver.ts:5-6).
CountsAgreeAlways ==
  \A i \in DOMAIN rendered : rendered[i].count = Cardinality({t \in used : rendered[i].texts[t] = Fallback})
InactiveIsCounted == ~stirred => CountsAgreeAlways
NothingRaw == \A i \in DOMAIN rendered : \A t \in used : rendered[i].texts[t] # Raw
ResolvingNeverThrows == stage = "thrown" => planned = {}
=============================================================================
