------------------------------ MODULE Hydration ------------------------------
(***************************************************************************)
(* How the settings of .env.yaml become process.env at boot                *)
(* (src/config/hydrate.ts, the table of src/config/bindings.ts), and how   *)
(* the Atlas key is then found (src/dispatcher-settings.ts,                *)
(* api/v1/atlas-key.ts).  hydrateEnvFromYaml is one synchronous call at    *)
(* boot; a state is what one boot made of one platform and one file, and a *)
(* step is a restart after a variable of the platform was rotated.         *)
(***************************************************************************)
EXTENDS Naturals, Sequences, Functions

CONSTANTS
  Variables,   \* names of environment variables
  AtlasKeyVar, \* DISPATCHER_ATLAS_KEY
  Bindings,    \* BINDINGS: [env, key, indirect], in the order of the table
  Injected,    \* what the platform may set a variable to; Unset and Blank among them
  Files        \* the files: [env: variable -> value, Missing without a row; keys: key -> value]

Unset == "unset"     \* undefined or ""
Blank == "blank"     \* spaces only
Missing == "missing" \* a key the file does not have

HydrationAssumption ==
  /\ Bindings \in Seq(Range(Bindings)) /\ {b.env : b \in Range(Bindings)} \cup {AtlasKeyVar} \subseteq Variables
  /\ {Unset, Missing} \cap Variables = {}
  \* A reference names a variable: z.string().min(1).
  /\ \A file \in Files, b \in Range(Bindings) : b.indirect => file.keys[b.key] \in Variables \cup {Missing}

\* The file's schema refuses atlas_key and atlas_key_env together.  It refuses three
\* more pairs so (logs_api_token, client_webhook_secret, state_encryption_key) and
\* leaves the others to the order of the table (dispatch_secret among them): here
\* every pair but the Atlas one may be there, more files than the program takes.
Accepted(file) == \A a, b \in Range(Bindings) :
  a.env = AtlasKeyVar /\ b.env = AtlasKeyVar /\ a # b => Missing \in {file.keys[a.key], file.keys[b.key]}

VARIABLES
  found,    \* [platform, file] at this boot
  environ,  \* process.env
  report    \* HydrationResult

hydrationVars == <<found, environ, report>>

-----------------------------------------------------------------------------
Present(env, v) == env[v] # Unset
Trimmed(x) == IF x = Blank THEN Unset ELSE x

\* Pass 1: the env: map, for every variable the environment does not have.
RawPass(env, cfg) ==
  LET rows == {v \in Variables : cfg.env[v] # Missing}
      raw  == {v \in rows : ~Present(env, v)}
  IN [env |-> [v \in Variables |-> IF v \in raw THEN cfg.env[v] ELSE env[v]],
      raw |-> raw,
      report |-> [applied |-> raw, skipped |-> rows \ raw, dangling |-> {}, collisions |-> {}]]

\* Mutant of Overrides: a typed key sets its variable whatever the platform set.
OverridesAnything(pass, b) == TRUE

\* A typed key sets a variable the env: map set, or nobody.
Overrides(pass, b) == b.env \in pass.raw \/ ~Present(pass.env, b.env)

\* What a typed key stands for, Unset for a reference to nothing.
ValueOf(env, b, x) == IF b.indirect THEN Trimmed(env[x]) ELSE x

\* One row of pass 2.
Bind(pass, cfg, b) ==
  LET x == cfg.keys[b.key]
      value == ValueOf(pass.env, b, x)
  IN CASE x \in {Missing, Unset} -> pass
       [] x \notin {Missing, Unset} /\ value = Unset ->
            [pass EXCEPT !.report.dangling = @ \cup {<<b.env, x>>}]
       [] x \notin {Missing, Unset} /\ value # Unset /\ ~Overrides(pass, b) ->
            [pass EXCEPT !.report.skipped = @ \cup {b.env}]
       [] OTHER ->
            [pass EXCEPT !.env = [pass.env EXCEPT ![b.env] = value],
                         !.report = [pass.report EXCEPT !.applied = @ \cup {b.env}, !.collisions = @ \cup ({b.env} \cap pass.raw)]]

\* The rows of the table, one after the other.
Passes(env, cfg) ==
  LET pass[n \in 0 .. Len(Bindings)] ==
        IF n = 0 THEN RawPass(env, cfg) ELSE Bind(pass[n - 1], cfg, Bindings[n])
  IN pass
Hydrated(env, cfg) == Passes(env, cfg)[Len(Bindings)]

-----------------------------------------------------------------------------
(* dispatcher-settings.ts: the Atlas key and what is said of its source.  A *)
(* file without senders keeps its other blocks (loadEnvYaml).               *)
AtlasKeys(cfg) ==
  LET rows == {b \in Range(Bindings) : b.env = AtlasKeyVar /\ cfg.keys[b.key] # Missing}
  IN [inline |-> {cfg.keys[b.key] : b \in {c \in rows : ~c.indirect}},
      named  |-> {cfg.keys[b.key] : b \in {c \in rows : c.indirect}}]

FromReference(cfg) == {Trimmed(environ[u]) : u \in AtlasKeys(cfg).named} \ {Unset}
FromInline(cfg) == {Trimmed(x) : x \in AtlasKeys(cfg).inline} \ {Unset}

\* A key the file gives too is put down to the file.
SourceOf(set, cfg) == IF set \subseteq FromInline(cfg) \cup FromReference(cfg) THEN "env.yaml" ELSE "env"

\* resolveAtlasKey: {} means the data plane is off.
AtlasKey ==
  LET cfg == found.file
      set == {Trimmed(environ[AtlasKeyVar])} \ {Unset}
      of(values, source) == {[value |-> x, source |-> source] : x \in values}
  IN CASE set # {}                           -> of(set, SourceOf(set, cfg))
       [] set = {} /\ FromInline(cfg) # {}   -> of(FromInline(cfg), "env.yaml")
       [] OTHER                              -> of(FromReference(cfg), "env.yaml")

\* danglingAtlasKeyRef
DanglingAtlasKey == AtlasKeys(found.file).inline = {} /\ AtlasKeys(found.file).named # {} /\ FromReference(found.file) = {}

-----------------------------------------------------------------------------
Booted(platform, file) ==
  /\ found = [platform |-> platform, file |-> file]
  /\ environ = Hydrated(platform, file).env
  /\ report = Hydrated(platform, file).report

HydrationInit ==
  \E platform \in [Variables -> Injected], file \in Files : Accepted(file) /\ Booted(platform, file)

\* A variable of the platform is set, rotated or removed, and the process restarts.
Restart(v, x) ==
  /\ found.platform[v] # x
  /\ found' = [found EXCEPT !.platform[v] = x]
  /\ LET pass == Hydrated(found'.platform, found.file)
     IN environ' = pass.env /\ report' = pass.report

HydrationNext == \E v \in Variables, x \in Injected : Restart(v, x)
HydrationSpec == HydrationInit /\ [][HydrationNext]_hydrationVars

-----------------------------------------------------------------------------
(* hydrate.ts, "Precedence, highest first", as a definition of its own.     *)
Typed(v) == {b \in Range(Bindings) : b.env = v /\ found.file.keys[b.key] \notin {Missing, Unset}}
Targets == {b.env : b \in Range(Bindings)}
Given(v) == CASE found.platform[v] # Unset -> found.platform[v]
              [] found.platform[v] = Unset /\ found.file.env[v] # Missing -> found.file.env[v]
              [] OTHER -> Unset
Means(b) == IF b.indirect THEN Trimmed(Given(found.file.keys[b.key])) ELSE found.file.keys[b.key]
TypedValues(v) == {Means(b) : b \in Typed(v)} \ {Unset}
\* No reference of the file names a variable the table sets, be it another row's or
\* its own (the form "atlas_key_env: DISPATCHER_ATLAS_KEY" of dispatcher-settings.ts:8).
PlainReferences == \A v \in Variables : \A b \in Typed(v) : b.indirect => found.file.keys[b.key] \notin Targets

\* "A real environment variable: never overwritten; a structured block; the env:
\* passthrough map", in this order, and calling hydrate again changes nothing.
\* Of a file with a reference that is not plain nothing is said, here or below.
PrecedenceHolds ==
  PlainReferences =>
    /\ \A v \in Variables :
         CASE found.platform[v] # Unset -> environ[v] = found.platform[v]
           [] found.platform[v] = Unset /\ TypedValues(v) # {} -> environ[v] \in TypedValues(v)
           [] OTHER -> environ[v] = Given(v)
    /\ Hydrated(environ, found.file).env = environ

\* The Atlas key in force is the one this order gives, a secret the platform rotated
\* included; the data plane is on only if somebody set a key, and off only if nobody
\* did or the typed key is blank ("It never falls open", atlas-key.ts); a reference the boot warns of is one
\* hydrate() found dangling.
AtlasKeyHolds ==
  PlainReferences =>
    /\ found.platform[AtlasKeyVar] \notin {Unset, Blank} =>
         {k.value : k \in AtlasKey} = {found.platform[AtlasKeyVar]}
    /\ \A k \in AtlasKey : k.value \in {Given(AtlasKeyVar)} \cup TypedValues(AtlasKeyVar)
    /\ AtlasKey = {} => /\ TypedValues(AtlasKeyVar) \subseteq {Blank}
                        /\ TypedValues(AtlasKeyVar) = {} => Trimmed(Given(AtlasKeyVar)) = Unset
    /\ DanglingAtlasKey => \E x \in AtlasKeys(found.file).named : <<AtlasKeyVar, x>> \in report.dangling

\* The report names what the file set, and what both the env: map and a typed key
\* set ("set by both; the typed value won").
ReportHolds ==
  PlainReferences =>
    LET free == {v \in Variables : found.platform[v] = Unset}
        raw  == {v \in free : found.file.env[v] # Missing}
        typed == {v \in free : TypedValues(v) # {}}
    IN report.applied = raw \cup typed /\ report.collisions = raw \cap typed

SettingsHold == PrecedenceHolds /\ AtlasKeyHolds /\ ReportHolds

\* By hand, each false.  bindings.ts: "hydrate() never lets one overwrite another";
\* settings-schema.ts: "the inline value would win and the reference would be
\* silently ignored".
InlineWins ==
  \A v \in Variables : found.platform[v] = Unset =>
    \A b \in Typed(v) : ~b.indirect => environ[v] = found.file.keys[b.key]
\* hydrate.ts, skipped: "Present in the file but already set in the environment".
SkippedWasSet == report.skipped \subseteq {v \in Variables : found.platform[v] # Unset}
\* SettingSource: where a value came from.
SourceIsTrue ==
  \A k \in AtlasKey : k.source = "env" <=> found.platform[AtlasKeyVar] \notin {Unset, Blank}
=============================================================================
