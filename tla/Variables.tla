------------------------------ MODULE Variables ------------------------------
(***************************************************************************)
(* The placeholder registry and its two write surfaces: the console        *)
(* (src/admin/api/variables.ts) and the data plane                         *)
(* (src/api/v1/controllers/dataplane.controller.ts and                     *)
(* call-metadata.controller.ts), over src/db/repos/variables.ts and        *)
(* call-metadata.ts, the snapshot of src/variables/service.ts and the      *)
(* one-time seed of src/variables/import-yaml.ts.                          *)
(*                                                                         *)
(* A handler is a sequence of statements with awaits between them, and     *)
(* handlers overlap: one action per statement.  What a template would      *)
(* print is not modelled; of a definition the model keeps its source, its  *)
(* secret header value, whether response values are saved, and the call    *)
(* metadata schema it attaches with the keys its request uses.             *)
(***************************************************************************)
EXTENDS FiniteSets, Integers

CONSTANTS
  Names,       \* names operators use
  SystemNames, \* SYSTEM_VARIABLES: defined in code
  Seeds,       \* names of config/dispatch.yaml, or the built-in defaults
  Schemas,     \* ids of call metadata schemas
  Keys,
  Secrets,     \* header values an operator types
  Inputs,      \* the requests that may arrive
  Slots,       \* one request each
  SqlModes,    \* whether there is a SQL connection to the customer database
  MaxFaults    \* bound on failed statements and restarts

None == "none"
Mask == "mask"          \* HEADER_MASK
NoRow == [source |-> None]
NoDef == NoRow          \* an update that leaves the definition alone
NoSchema == {None}
Null == [n \in {None} |-> NoRow]  \* no snapshot yet
Field == [source |-> "field", secret |-> None, saved |-> FALSE, meta |-> None, uses |-> {}, form |-> "strict"]

\* What a payload may ask for, and the requests of the two surfaces.
Definition ==
  [source : {"field", "query", "api"}, secret : Secrets \cup {None, Mask}, saved : BOOLEAN,
   meta : Schemas \cup {None}, uses : SUBSET Keys, form : {"strict", "loose", "bad"}]
EditRequest ==
  [via : {"console", "atlas"}, op : {"create", "update", "delete"}, name : Names, to : Names,
   def : Definition \cup {NoDef}, enabled : BOOLEAN]
SchemaRequest ==
  [via : {"atlas"}, op : {"schema", "schemaDelete"}, name : {None}, to : {None}, def : {NoDef},
   schema : Schemas, keys : SUBSET Keys]

ASSUME InputAssumption ==
  /\ Inputs \subseteq EditRequest \cup SchemaRequest
  /\ \A in \in Inputs : in.op = "create" => in.def # NoDef

ASSUME ValueAssumption == None \notin Keys \cup Schemas /\ Mask \notin Secrets /\ Slots \cap {"dispatch", "boot"} = {}

VARIABLES
  rows,      \* the variables table, by name
  schemas,   \* call_metadata, by id: the keys of the schema, or NoSchema
  marked,    \* dispatcher_meta: the seed was imported
  sql,       \* the lookup has a SQL connection
  snapshot, fresh,  \* service.ts: snapshot; loadedAt is within TTL_MS
  act,       \* the handlers, the dispatch and the boot: what each waits for
  faults,
  \* history
  gone,      \* names an operator deleted or renamed away, and nobody wrote since
  masked,    \* names the console created from the mask itself, or renamed from such a name
  raced,     \* schemas checked and written while an attachment of them was, or the reverse
  behind     \* the snapshot was built from an older table, or a write went without its refresh

history == <<gone, masked, raced, behind>>
vars == <<rows, schemas, marked, sql, snapshot, fresh, act, faults, history>>

Actors == Slots \cup {"dispatch", "boot"}
Idle == [pc |-> "idle", in |-> [op |-> None], row |-> NoRow, list |-> Null]

-----------------------------------------------------------------------------
\* What the code computes from a definition.

\* supportedVariableSources: field and query need the customer's database.
Supported(source) == sql \/ source \notin {"field", "query"}

\* The two surfaces' schemas: "bad" fails checkApiConfig on both; "loose" (a URL
\* that is not http, a second statement after a semicolon) only on the data plane.
Parses(via, d) == d.form = "strict" \/ (d.form = "loose" /\ via = "console")

\* mergeMaskedHeaders, unmaskHeaders, unmaskQuery: the mask means "keep the
\* stored one", and nothing is stored unless the row was an api variable.
Unmasked(d, row) ==
  IF d.secret # Mask THEN d
  ELSE [d EXCEPT !.secret = IF row.source = "api" THEN row.secret ELSE None]

\* payloadToEntry of the console copies every part of an api definition but
\* save_response; definitionToColumns of the data plane copies it whole.
Stored(via, d) == [d EXCEPT !.saved = @ /\ via = "atlas"]

Fallback == [source |-> "constant"]

\* refreshPlaceholders: enabled rows that no system variable shadows; a source
\* that is inactive here resolves to its fallback.
Entries(table) ==
  [n \in {m \in DOMAIN table \ SystemNames : table[m] # NoRow /\ table[m].enabled} |->
     IF Supported(table[n].source) THEN table[n] ELSE Fallback]

\* Refused before the first statement: a payload that does not parse, a system
\* name, a source that cannot resolve here, key tokens without a schema and, on
\* the data plane only, a mask where there is nothing to preserve.
Admitted(in) ==
  /\ in.op \in {"create", "update", "delete"} => {in.name, in.to} \cap SystemNames = {}
  /\ in.op \in {"create", "update"} /\ in.def # NoDef =>
       /\ Parses(in.via, in.def)
       /\ Supported(in.def.source)
       /\ in.def.meta = None => in.def.uses = {}
  /\ in.op = "create" /\ in.via = "atlas" => in.def.secret # Mask

\* checkVariableMetadata: the schema exists and has every key the request uses.
Backed(s, uses) == schemas[s] # NoSchema /\ uses \subseteq schemas[s]

\* metadataUsage: the stored variables that attach a schema.
Users(table, s) == {n \in Names : table[n] # NoRow /\ table[n].meta = s}

\* Mutant of InUse: a delete does not ask.
InUseByKeys(in, table) ==
  in.op = "schema" /\ ~(UNION {table[n].uses : n \in Users(table, in.schema)} \subseteq in.keys)

\* A delete is refused while a variable attaches the schema, an update while a
\* key it drops is used: 409.
InUse(in, table) ==
  LET users == Users(table, in.schema) IN
  IF in.op = "schemaDelete" THEN users # {} ELSE ~(UNION {table[n].uses : n \in users} \subseteq in.keys)

-----------------------------------------------------------------------------
\* The row a definition becomes; asked is what the request said of saving.
Row(via, d, enabled) ==
  LET kept == Stored(via, d) IN
  [source |-> kept.source, secret |-> kept.secret, saved |-> kept.saved, meta |-> kept.meta,
   uses |-> kept.uses, enabled |-> enabled, asked |-> d.saved]

\* What an earlier life of the process may have stored.
Earlier == {Row("atlas", [Field EXCEPT !.source = "api", !.secret = x, !.saved = TRUE], TRUE) : x \in Secrets}

\* A new database, or one that was seeded before; an older version also seeded
\* rows under system names.
Init ==
  /\ sql \in SqlModes
  /\ marked \in BOOLEAN
  /\ rows \in [Names \cup SystemNames -> {NoRow, Row("atlas", Field, TRUE)} \cup Earlier]
  /\ \A n \in Names : rows[n] # NoRow => marked /\ rows[n] \in Earlier
  /\ \A n \in SystemNames : rows[n] # NoRow => marked /\ rows[n] \notin Earlier
  /\ schemas \in [Schemas -> {NoSchema, Keys}]
  /\ snapshot = Null /\ fresh = FALSE
  /\ act = [a \in Actors |-> IF a = "boot" THEN [Idle EXCEPT !.pc = "seeded?"] ELSE Idle]
  /\ faults = 0
  /\ gone = IF marked THEN {n \in Names : rows[n] = NoRow} ELSE {}
  /\ masked = {} /\ raced = {} /\ behind = FALSE

Up == act["boot"].pc = "up"
Wait(a, pc) == act' = [act EXCEPT ![a].pc = pc]
Rest(a) == IF a = "boot" THEN "up" ELSE IF a \in Slots THEN "answered" ELSE "idle"
Answer(a) == act' = [act EXCEPT ![a] = [Idle EXCEPT !.pc = Rest(a)]]
stored == <<rows, gone, masked, raced>>

\* A request arrives and passes the checks that need no statement.
Receive(r, in) ==
  /\ Up
  /\ act[r].pc = "idle"
  /\ Admitted(in)
  /\ act' = [act EXCEPT ![r] = [Idle EXCEPT !.in = in,
                                !.pc = IF in.op \in {"schema", "schemaDelete"} THEN "schema-read" ELSE "read"]]
  /\ UNCHANGED <<rows, schemas, marked, sql, snapshot, fresh, faults, history>>

\* The definition the handler goes on with, and the statement it needs next.
Toward(r, row, in, write) ==
  act' = [act EXCEPT ![r].row = row, ![r].in = in,
                     ![r].pc = IF in.def # NoDef /\ in.def.meta # None THEN "meta" ELSE write]

\* getVariable of the name: 409 when it is taken, 404 when there is none.
Read(r) ==
  LET in  == act[r].in
      row == rows[in.name]
      got == IF in.op = "update" /\ in.def # NoDef
               THEN [in EXCEPT !.def = Unmasked(@, row)] ELSE in
  IN
  /\ act[r].pc = "read"
  /\ \/ in.op = "create" /\ row # NoRow /\ Answer(r)
     \/ in.op # "create" /\ row = NoRow /\ Answer(r)
     \/ in.op = "create" /\ row = NoRow /\ Toward(r, row, in, "insert")
     \/ in.op = "update" /\ row # NoRow /\ in.to = in.name /\ Toward(r, row, got, "again")
     \/ in.op = "update" /\ row # NoRow /\ in.to # in.name
          /\ act' = [act EXCEPT ![r].row = row, ![r].in = got, ![r].pc = "target"]
     \/ in.op = "delete" /\ row # NoRow /\ Wait(r, "remove")
  /\ UNCHANGED <<rows, schemas, marked, sql, snapshot, fresh, faults, history>>

\* The name a rename moves to: 409 when a row has it.
ReadTarget(r) ==
  /\ act[r].pc = "target"
  /\ IF rows[act[r].in.to] # NoRow THEN Answer(r)
     ELSE Toward(r, act[r].row, act[r].in, "again")
  /\ UNCHANGED <<rows, schemas, marked, sql, snapshot, fresh, faults, history>>

CheckMeta(r) ==
  LET d == act[r].in.def IN
  /\ act[r].pc = "meta"
  /\ IF ~Backed(d.meta, d.uses) THEN Answer(r)
     ELSE Wait(r, IF act[r].in.op = "create" THEN "insert" ELSE "again")
  /\ UNCHANGED <<rows, schemas, marked, sql, snapshot, fresh, faults, history>>

\* Past its check and short of its write: of an attachment, and of a schema.
Attaching(h, s) == h.pc \in {"insert", "again", "write"} /\ h.in.def # NoDef /\ h.in.def.meta = s
Changing(h, s) == h.pc = "schema-write" /\ h.in.schema = s

\* The schema a definition attaches while another handler is to write it.
Beside(d) == {s \in Schemas : d # NoDef /\ d.meta = s /\ \E q \in Slots : Changing(act[q], s)}

\* createVariable; a name taken meanwhile fails the unique index.
Insert(r) ==
  LET in == act[r].in IN
  /\ act[r].pc = "insert"
  /\ \/ /\ rows[in.name] = NoRow
        /\ rows' = [rows EXCEPT ![in.name] = Row(in.via, in.def, in.enabled)]
        /\ gone' = gone \ {in.name}
        /\ masked' = IF in.via = "console" /\ in.def.secret = Mask THEN masked \cup {in.name} ELSE masked
        /\ raced' = raced \cup Beside(in.def)
        /\ Wait(r, "list")
     \/ rows[in.name] # NoRow /\ Answer(r) /\ UNCHANGED stored
  /\ UNCHANGED <<schemas, marked, sql, snapshot, fresh, faults, behind>>

\* updateVariable reads the row once more; without it the handler still refreshes.
Again(r) ==
  /\ act[r].pc = "again"
  /\ Wait(r, IF rows[act[r].in.name] = NoRow THEN "list" ELSE "write")
  /\ UNCHANGED <<rows, schemas, marked, sql, snapshot, fresh, faults, history>>

\* What an update makes of the row: the definition whole, or none of it.
Patched(in, row) ==
  IF in.def = NoDef THEN [row EXCEPT !.enabled = in.enabled] ELSE Row(in.via, in.def, in.enabled)

\* The UPDATE by name, of whichever row has the name now; what the re-read after
\* it finds decides only the answer.
Write(r) ==
  LET in == act[r].in IN
  /\ act[r].pc = "write"
  /\ \/ rows[in.name] = NoRow /\ Wait(r, "list") /\ UNCHANGED stored
     \/ /\ rows[in.name] # NoRow
        /\ in.to # in.name => rows[in.to] = NoRow
        /\ rows' = [rows EXCEPT ![in.name] = NoRow, ![in.to] = Patched(in, rows[in.name])]
        /\ gone' = (gone \cup {in.name}) \ {in.to}
        /\ masked' = IF in.name \in masked THEN masked \cup {in.to} ELSE masked
        /\ raced' = raced \cup Beside(in.def)
        /\ Wait(r, "list")
     \/ /\ rows[in.name] # NoRow /\ in.to # in.name /\ rows[in.to] # NoRow
        /\ Answer(r)
        /\ UNCHANGED stored
  /\ UNCHANGED <<schemas, marked, sql, snapshot, fresh, faults, behind>>

\* Mutant of Remove: the handler answers without a refresh.
RemoveUnrefreshed(r) ==
  /\ act[r].pc = "remove"
  /\ rows' = [rows EXCEPT ![act[r].in.name] = NoRow]
  /\ gone' = gone \cup {act[r].in.name}
  /\ Answer(r)
  /\ UNCHANGED <<schemas, marked, sql, snapshot, fresh, faults, masked, raced, behind>>

\* deleteVariable, by name.
Remove(r) ==
  /\ act[r].pc = "remove"
  /\ rows' = [rows EXCEPT ![act[r].in.name] = NoRow]
  /\ gone' = gone \cup {act[r].in.name}
  /\ Wait(r, "list")
  /\ UNCHANGED <<schemas, marked, sql, snapshot, fresh, faults, masked, raced, behind>>

-----------------------------------------------------------------------------
\* The call metadata handlers: the schema, then its usage, then the write.
SchemaRead(r) ==
  LET in == act[r].in IN
  /\ act[r].pc = "schema-read"
  /\ \/ schemas[in.schema] = NoSchema /\ in.op = "schemaDelete" /\ Answer(r)
     \/ schemas[in.schema] = NoSchema /\ in.op = "schema" /\ Wait(r, "schema-write")
     \/ schemas[in.schema] # NoSchema /\ Wait(r, "usage")
  /\ UNCHANGED <<rows, schemas, marked, sql, snapshot, fresh, faults, history>>

SchemaUsage(r) ==
  /\ act[r].pc = "usage"
  /\ IF InUse(act[r].in, rows) THEN Answer(r) ELSE Wait(r, "schema-write")
  /\ UNCHANGED <<rows, schemas, marked, sql, snapshot, fresh, faults, history>>

\* The write, whatever was attached since the usage was read.
SchemaWrite(r) ==
  LET in == act[r].in IN
  /\ act[r].pc = "schema-write"
  /\ schemas' = [schemas EXCEPT ![in.schema] = IF in.op = "schema" THEN in.keys ELSE NoSchema]
  /\ raced' = raced \cup {s \in {in.schema} : \E q \in Slots : Attaching(act[q], s)}
  /\ Answer(r)
  /\ UNCHANGED <<rows, marked, sql, snapshot, fresh, faults, gone, masked, behind>>

-----------------------------------------------------------------------------
\* The refresh every write ends with, and a dispatch that finds the snapshot old.

\* Mutant of Stale: a snapshot, once there, is good for ever.
StaleNever == snapshot = Null

\* ensurePlaceholdersFresh: none yet, or older than TTL_MS.
Stale == snapshot = Null \/ ~fresh

Dispatch ==
  /\ Up
  /\ act["dispatch"].pc = "idle"
  /\ Stale
  /\ Wait("dispatch", "list")
  /\ UNCHANGED <<rows, schemas, marked, sql, snapshot, fresh, faults, history>>

\* listVariables: the table as it is now; the continuation runs later.
List(a) ==
  /\ act[a].pc = "list"
  /\ act' = [act EXCEPT ![a].pc = "install", ![a].list = rows]
  /\ UNCHANGED <<rows, schemas, marked, sql, snapshot, fresh, faults, history>>

\* refreshPlaceholders: the snapshot is replaced whole, whatever came between.
Install(a) ==
  /\ act[a].pc = "install"
  /\ snapshot' = Entries(act[a].list)
  /\ fresh' = TRUE
  /\ behind' = (Entries(act[a].list) # Entries(rows))
  /\ Answer(a)
  /\ UNCHANGED <<rows, schemas, marked, sql, faults, gone, masked, raced>>

\* TTL_MS pass.
Age ==
  /\ fresh
  /\ fresh' = FALSE
  /\ UNCHANGED <<rows, schemas, marked, sql, snapshot, act, faults, history>>

-----------------------------------------------------------------------------
\* importYamlPlaceholdersOnce, at boot, before anything is served.

SeedDone == marked

\* The mark; without it, whether the table is empty.
BootCheck ==
  /\ act["boot"].pc = "seeded?"
  /\ IF SeedDone THEN Wait("boot", "list")
     ELSE Wait("boot", IF \A n \in DOMAIN rows : rows[n] = NoRow THEN "seed" ELSE "mark")
  /\ UNCHANGED <<rows, schemas, marked, sql, snapshot, fresh, faults, history>>

\* One createVariable per name of the file, system names left out.
Seed(n) ==
  /\ act["boot"].pc = "seed"
  /\ n \in Seeds \ SystemNames /\ rows[n] = NoRow
  /\ rows' = [rows EXCEPT ![n] = Row("atlas", Field, TRUE)]
  /\ UNCHANGED <<schemas, marked, sql, snapshot, fresh, act, faults, history>>

Seeded ==
  /\ act["boot"].pc = "seed"
  /\ \A n \in Seeds \ SystemNames : rows[n] # NoRow
  /\ Wait("boot", "mark")
  /\ UNCHANGED <<rows, schemas, marked, sql, snapshot, fresh, faults, history>>

MarkSeeded ==
  /\ act["boot"].pc = "mark"
  /\ marked' = TRUE
  /\ Wait("boot", "list")
  /\ UNCHANGED <<rows, schemas, sql, snapshot, fresh, faults, history>>

\* A statement fails: the handler ends with a 500, whatever it wrote before.
Fail(a) ==
  /\ faults < MaxFaults
  /\ act[a].pc \notin {"idle", "answered", "install"}
  /\ a # "boot"
  /\ faults' = faults + 1
  /\ behind' = (behind \/ (a \in Slots /\ act[a].pc = "list"))
  /\ Answer(a)
  /\ UNCHANGED <<rows, schemas, marked, sql, snapshot, fresh, gone, masked, raced>>

\* The process dies at any point, also while it seeds, and boots again.
Crash ==
  /\ faults < MaxFaults
  /\ faults' = faults + 1
  /\ snapshot' = Null /\ fresh' = FALSE /\ behind' = FALSE
  /\ act' = [a \in Actors |->
               IF a = "boot" THEN [Idle EXCEPT !.pc = "seeded?"]
               ELSE IF a \in Slots /\ act[a].pc # "idle" THEN [Idle EXCEPT !.pc = "answered"]
               ELSE Idle]
  /\ UNCHANGED <<rows, schemas, marked, sql, gone, masked, raced>>

Next ==
  \/ \E r \in Slots :
       \/ \E in \in Inputs : Receive(r, in)
       \/ Read(r) \/ ReadTarget(r) \/ CheckMeta(r)
       \/ Insert(r) \/ Again(r) \/ Write(r) \/ Remove(r)
       \/ SchemaRead(r) \/ SchemaUsage(r) \/ SchemaWrite(r)
  \/ \E a \in Actors : List(a) \/ Install(a) \/ Fail(a)
  \/ Dispatch \/ Age
  \/ BootCheck \/ (\E n \in Names : Seed(n)) \/ Seeded \/ MarkSeeded
  \/ Crash

Spec == Init /\ [][Next]_vars

\* Statements end, timers run and campaigns keep being dispatched.
Fairness ==
  /\ WF_vars(Dispatch) /\ WF_vars(Age)
  /\ WF_vars(BootCheck) /\ WF_vars(\E n \in Names : Seed(n)) /\ WF_vars(Seeded) /\ WF_vars(MarkSeeded)
  /\ \A a \in Actors : WF_vars(List(a)) /\ WF_vars(Install(a))

FairSpec == Spec /\ Fairness

-----------------------------------------------------------------------------
\* What an operator deleted, or renamed away, no restart brings back: the seed is
\* imported once, also when the table is empty again (import-yaml.ts).
DeletionSticks == \A n \in gone : rows[n] = NoRow

\* The snapshot a dispatch reads is that of the table, unless a refresh is still
\* to come, or an older list was installed last, or a write failed on the way to
\* its refresh (service.ts).
LiveUnlessRaced ==
  snapshot # Null /\ snapshot # Entries(rows)
    => behind \/ \E a \in Actors : act[a].pc \in {"list", "install"}

\* And it does not stay behind: when writes have ended, every later dispatch
\* resolves from the table as it is (service.ts: TTL_MS).
EventuallyLive == <>[](snapshot # Null /\ snapshot = Entries(rows))

\* The mask an editor is shown is never stored in place of the secret, short of a
\* variable the console created from it, under that name or one it was renamed to:
\* whatever edits overlap, an update stores what the row it read had (redaction.ts).
MaskOnlyAsCreated == \A n \in Names : rows[n] # NoRow /\ rows[n].secret = Mask => n \in masked

\* An attached schema exists and has the keys the request uses, unless a handler
\* that attaches it and one that edits or deletes it were both between their check
\* and their write (call-metadata.controller.ts, checkVariableMetadata).
DanglingOnlyIfRaced ==
  \A n \in Names : rows[n] # NoRow /\ rows[n].meta # None =>
    rows[n].meta \in raced \/ Backed(rows[n].meta, rows[n].uses)

\* call-metadata.controller.ts: deleting a schema, or a key, that a variable still
\* uses is refused; a request must never silently start sending an empty value.
AttachedExists ==
  \A n \in Names : rows[n] # NoRow /\ rows[n].meta # None => Backed(rows[n].meta, rows[n].uses)

\* api-config-schema.ts: both surfaces accept exactly the same thing, so what a
\* request says of saving response values is what the row says.
SavedAsAsked == \A n \in Names : rows[n] # NoRow => rows[n].saved = rows[n].asked

\* data plane: eight bullets are never stored as a bearer token.
MaskNeverStored == \A n \in Names : rows[n] # NoRow => rows[n].secret # Mask

\* admin/api/variables.ts: every write refreshes the snapshot, so an edit that was
\* answered applies to the next dispatch.
AnsweredIsLive ==
  snapshot # Null /\ (\A r \in Slots : act[r].pc \in {"idle", "answered"}) => snapshot = Entries(rows)

\* import-yaml.ts: a partial boot does not leave a half-seeded table for good.
SeededWhole == marked => \A n \in Seeds \ SystemNames : rows[n] # NoRow \/ n \in gone
=============================================================================
