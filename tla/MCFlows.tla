------------------------------- MODULE MCFlows -------------------------------
(***************************************************************************)
(* What flows past the stores, in one instance: a message on its way to a  *)
(* provider (ProviderSend) with the values it is personalised with         *)
(* (Resolver), the events that come back from providers (Inbound) and      *)
(* from the client (ClientEvents), the metrics kept of all of them         *)
(* (Metrics), and the settings a boot makes of the platform and .env.yaml  *)
(* (Hydration).  They share no variable: a behaviour steps the part it     *)
(* chose at the start.                                                     *)
(***************************************************************************)
EXTENDS ProviderSend, TLC

CONSTANTS
  Configs, Requests, MaxRetries, MaxClock, MaxInboundFaults, MaxRepeats,
  Sent, Refs, Bodies, Callers, MaxEvents, MaxBatch, MaxClientFaults, MaxElsewhere,
  Asked, Canonical, NoId, Records, ChunkSize, LookupRetries, Def, Content, MetaValue, Concurrency, MaxSwaps,
  Subjects, Samples, Bounds, MaxGroups, InsertChunk, Resolution, KeepMinutes, Window, LastMinute, MaxSamples,
  MaxMetricFaults,
  Variables, AtlasKeyVar, Bindings, Injected, Files

VARIABLES
  part,
  cfg, clock, reqs, events, outbox, heard, inboundFaults, repeats, posts, missed, lost,
  status, deleted, told, calls, elsewhere, problems, muddled,
  backend, registry, swaps, stage, columns, chunkNo, attempt, found, planned, schemas,
  queue, running, outcomes, used, position, rendered, answered, fetched, stirred,
  minute, groups, batches, metrics, rowId, metricFaults, sampled, dropped,
  deployed, environ, hydration

-----------------------------------------------------------------------------
(* Senders and contents. *)
Sender(id, channel, provider) ==
  [id |-> id, channel |-> channel, provider |-> provider, enabled |-> TRUE, from |-> id, key |-> "none",
   secret |-> "none", user |-> "none", src |-> "none", source |-> FALSE, default |-> "none"]
GupshupSender(id) == Sender(id, "whatsapp", "gupshup")
FreshchatSender(id) == Sender(id, "whatsapp", "freshchat")

MCGupshup ==
  {[GupshupSender("g") EXCEPT !.key = k, !.user = u, !.src = n, !.source = k = "env"] :
     k \in {"inline", "env", "unset"}, u \in {"inline", "none"}, n \in {"inline", "none"}}
    \cup {[GupshupSender("g") EXCEPT !.user = "env", !.default = "g's"]}
MCFreshchat ==
  {[FreshchatSender("f") EXCEPT !.key = k, !.default = t] : k \in {"inline", "unset", "none"}, t \in {"f's", "none"}}
MCEmail ==
  {[Sender("e", "email", "ses") EXCEPT !.key = k, !.secret = x] : k \in {"inline", "unset", "none"}, x \in {"env", "none"}}
    \cup {[Sender("e", "email", "sendgrid") EXCEPT !.key = k] : k \in {"env", "unset"}}
MCYaml ==
  {<<>>, <<Sender("d", "email", "sendgrid"), [Sender("d", "email", "sendgrid") EXCEPT !.enabled = FALSE]>>}
    \cup {<<g, f>> : g \in MCGupshup, f \in MCFreshchat}
    \cup {<<e, [Sender("x", "email", "sendgrid") EXCEPT !.key = "inline", !.from = w]>> : e \in MCEmail, w \in {"e", "x"}}

MCEnvs ==
  {{}, {"FRESHCHAT_API_KEY", "WHATSAPP_PROVIDER", "GUPSHUP_API_KEY", "AWS_KEYS", "TEST_CAPTION"},
   {"EMAIL_PROVIDER", "SENDGRID_API_KEY", "GUPSHUP_USER", "GUPSHUP_DEFAULT_TEMPLATE", "TEST_MEDIA"}}

Plain == [caption |-> FALSE, media |-> FALSE, image |-> FALSE, body |-> "none", named |-> FALSE, params |-> FALSE]
MCContents ==
  {Plain, [Plain EXCEPT !.caption = TRUE], [Plain EXCEPT !.caption = TRUE, !.media = TRUE],
   [Plain EXCEPT !.params = TRUE, !.image = TRUE], [Plain EXCEPT !.params = TRUE, !.named = TRUE]}
    \cup {[Plain EXCEPT !.body = b] : b \in {"caption", "caption and media", "template", "template without id", "word", "lines"}}
MCRecipients == <<"r1", "r2">>

-----------------------------------------------------------------------------
(* What the providers post, and how the endpoint is configured. *)
Item(occ, wire) ==
  [occ |-> occ, status |-> wire, user |-> "u", id |-> "m", time |-> 1, legible |-> TRUE, mail |-> 1,
   corr |-> "full", url |-> TRUE, stamp |-> FALSE]
Reply(occ, wire) == [Item(occ, wire) EXCEPT !.corr = "sign", !.stamp = TRUE, !.url = FALSE]
Config(provider, posted) ==
  [provider |-> provider, enabled |-> TRUE, secrets |-> {"s1"}, signs |-> "s1", filter |-> {}, mode |-> "at_least_once",
   envUrl |-> FALSE, overrides |-> FALSE, registry |-> TRUE, secret |-> TRUE, batches |-> posted]

SendgridPosts ==
  {<<Item("a", "delivered"), Item("b", "open"), [Item("c", "bounce") EXCEPT !.id = "none", !.time = 0, !.url = FALSE]>>,
   <<[Item("d", "delivered") EXCEPT !.corr = "partial"], Item("e", "odd"), Item("f", "dropped")>>, <<>>}
GupshupPosts ==
  {<<Reply("a", "delivered"), [Reply("b", "read") EXCEPT !.stamp = FALSE], Item("c", "read")>>,
   <<[Item("d", "failed") EXCEPT !.id = "none"], Reply("e", "typing"), Reply("f", "failed")>>}
SesPosts == {<<Item("a", "Open")>>, <<[Item("b", "Open") EXCEPT !.time = 2]>>, <<Item("c", "Rendering Failure")>>}
FreshchatPosts ==
  {<<Reply("a", "delivered"), Item("b", "read")>>,
   <<[Reply("c", "read") EXCEPT !.id = "none"], [Item("d", "delivered") EXCEPT !.time = 0]>>,
   <<Item("e", "sent"), [Reply("f", "read") EXCEPT !.legible = FALSE]>>}

MCConfigs ==
  LET sendgrid == Config("sendgrid", SendgridPosts)
      gupshup == Config("gupshup", GupshupPosts)
  IN  {sendgrid, [sendgrid EXCEPT !.filter = {"*"}, !.registry = FALSE, !.mode = "best_effort"],
       [sendgrid EXCEPT !.filter = {"open"}, !.secrets = {}], [sendgrid EXCEPT !.enabled = FALSE],
       Config("ses", SesPosts), [Config("ses", SesPosts) EXCEPT !.enabled = FALSE, !.secrets = {}],
       gupshup, [gupshup EXCEPT !.secrets = {"s1", "s2"}, !.signs = "s2", !.envUrl = TRUE, !.overrides = TRUE],
       [gupshup EXCEPT !.secrets = {}, !.registry = FALSE], [gupshup EXCEPT !.signs = "other"],
       [gupshup EXCEPT !.enabled = FALSE],
       Config("freshchat", FreshchatPosts), [Config("freshchat", FreshchatPosts) EXCEPT !.secrets = {}]}

I == INSTANCE Inbound WITH rows <- events, faults <- inboundFaults

-----------------------------------------------------------------------------
(* What the client knows of two messages, and reports. *)
MCSent == {[id |-> "m1", user |-> "u1"], [id |-> "m2", user |-> "u2"]}
MCRefs ==
  {[id |-> "m1", user |-> "u1", campaign |-> "c1", value |-> "v"], [id |-> "m2", user |-> "u2", campaign |-> "c1", value |-> "v"],
   [id |-> "m3", user |-> "u1", campaign |-> "c2", value |-> "w"]}
ById(id, e) == [id |-> id, value |-> "none", user |-> "any", campaign |-> "any", event |-> e]
ByValue(v, u, e) == [id |-> "none", value |-> v, user |-> u, campaign |-> "c1", event |-> e]
MCBodies ==
  {<<>>, <<ById("m1", "read"), ById("m1", "delivered"), [ById("m2", "read") EXCEPT !.user = "u1"]>>,
   <<ById("m1", "clicked"), ByValue("v", "u2", "failed"), ByValue("v", "any", "read")>>,
   <<[ByValue("w", "u1", "seen") EXCEPT !.campaign = "any"], ById("none", "read"), ById("m1", "typing")>>,
   <<ById("m1", "read"), ById("m1", "read"), ById("m1", "read"), ById("m1", "read")>>}

E == INSTANCE ClientEvents

-----------------------------------------------------------------------------
(* Two recipients of three, a variable of each source, one that names a host. *)
Definition(source, reads, place, paths, required) ==
  [source |-> source, reads |-> reads, place |-> place, paths |-> paths, required |-> required,
   fallback |-> source # "query"]
MCDef ==
  ("credit" :> Definition("api", <<"user", "plan", "meta">>, "text", {"score"}, TRUE))
    @@ ("rate" :> Definition("query", <<>>, "url", {}, FALSE))
    @@ ("tier" :> Definition("field", <<>>, "text", {}, FALSE))
    @@ ("shop" :> Definition("api", <<"plan">>, "host", {}, FALSE))
MCRecords ==
  {[id |-> "a", reachable |-> TRUE, plan |-> <<"gold">>], [id |-> "b", reachable |-> TRUE, plan |-> <<"">>]}

MCAsked == <<"a", "b", "a">>
MCCanonical == ("a" :> "a") @@ ("b" :> "b")
MCContent == {<<"credit", "">>, <<"credit", "score">>, <<"rate", "">>, <<"tier", "">>}
MCMetaValue == <<"m">>

V == INSTANCE Resolver WITH calls <- fetched
MCSamples == {[ms |-> 5, failed |-> FALSE], [ms |-> 300, failed |-> TRUE]}
MCBounds == <<10, 100>>

M == INSTANCE Metrics WITH rows <- metrics, asked <- sampled

\* Two settings with a typed key and a reference each, and a variable to refer to.
Row(name, key, indirect) == [env |-> name, key |-> key, indirect |-> indirect]
MCBindings ==
  <<Row("ATLAS", "atlas_key", FALSE), Row("ATLAS", "atlas_key_env", TRUE),
    Row("SECRET", "dispatch_secret", FALSE), Row("SECRET", "dispatch_secret_env", TRUE)>>
MCFiles ==
  {[env |-> [ATLAS |-> a, SECRET |-> s, HOME |-> h],
    keys |-> [atlas_key |-> i, atlas_key_env |-> r, dispatch_secret |-> d, dispatch_secret_env |-> x]] :
     a \in {"missing", "raw"}, s \in {"missing", "unset", "raw"}, h \in {"missing", "home"}, i \in {"missing", "typed", "blank"},
     r \in {"missing", "HOME", "SECRET"}, d \in {"missing", "typed"}, x \in {"missing", "HOME"}}

H == INSTANCE Hydration WITH found <- deployed, report <- hydration

ASSUME FlowsAssumption == I!InboundAssumption /\ E!ClientEventsAssumption /\ V!ResolverAssumption /\ H!HydrationAssumption

-----------------------------------------------------------------------------
inbound == <<cfg, clock, reqs, events, outbox, heard, inboundFaults, repeats, posts, missed, lost>>
client == <<status, deleted, told, calls, elsewhere, problems, muddled>>
values == <<backend, registry, swaps, stage, columns, chunkNo, attempt, found, planned, schemas,
            queue, running, outcomes, used, position, rendered, answered, fetched, stirred>>
meter == <<minute, groups, batches, metrics, rowId, metricFaults, sampled, dropped>>
settings == <<deployed, environ, hydration>>

\* Requests of providers, requests of callers and subjects of metrics are only told apart.
MCSymmetry == Permutations(Requests) \cup Permutations(Callers) \cup Permutations(Subjects)

\* A part that was not chosen has one initial state.  Of the registries the first lacks
\* everything, one variable or nothing; the others it is replaced by.
First(set) == CHOOSE x \in set : TRUE
MCInit ==
  /\ part \in {"send", "inbound", "client", "values", "meter", "settings"}
  /\ Init /\ (part # "send" => env = First(Envs) /\ content = First(Contents)
                                /\ senders = IF First(Yaml) = <<>> THEN Synthesized ELSE First(Yaml))
  /\ I!Init /\ (part # "inbound" => cfg = First(Configs))
  /\ E!Init
  /\ V!ResolverInit /\ (IF part = "values" THEN Cardinality(registry) \notin {1, 2} ELSE backend = "sql" /\ registry = {})
  /\ M!MetricInit
  /\ IF part = "settings" THEN H!HydrationInit
     ELSE H!Booted([v \in Variables |-> First(Injected)], First(Files))

MCNext ==
  \/ part = "send" /\ Next /\ UNCHANGED <<part, inbound, client, values, meter, settings>>
  \/ part = "inbound" /\ I!Next /\ UNCHANGED <<part, vars, client, values, meter, settings>>
  \/ part = "client" /\ E!Next /\ UNCHANGED <<part, vars, inbound, values, meter, settings>>
  \/ part = "values" /\ V!ResolverNext /\ UNCHANGED <<part, vars, inbound, client, meter, settings>>
  \/ part = "meter" /\ M!MetricNext /\ UNCHANGED <<part, vars, inbound, client, values, settings>>
  \/ part = "settings" /\ H!HydrationNext /\ UNCHANGED <<part, vars, inbound, client, values, meter>>

MCSpec == MCInit /\ [][MCNext]_<<part, vars, inbound, client, values, meter, settings>>

-----------------------------------------------------------------------------
\* A message goes out on the account of its own sender, the preview logged is the
\* request made, and what the run reports is what the provider said
\* (gupshup-whatsapp.ts, freshchat-whatsapp.ts, sender-credentials.ts).
SendsHold == part = "send" => OwnAccountOnly /\ PreviewIsSent /\ ReportIsTrue

\* An event answered with a 2xx is stored, enqueued, forwarded or knowingly dropped,
\* and a batch the provider posts again adds nothing (events/index.ts).
InboundHolds == part = "inbound" => I!AnsweredIsAccountedFor /\ I!ReplaysAreOne

\* The result given for each client event is what became of it, and a list sent
\* again reports a message twice only after a lost answer about that message, a
\* failure of its bookkeeping or another reporter beside it (client-events.ts).
ClientHolds == part = "client" => E!ResultsAreTrue /\ E!RetriesRepeatNothing

\* Every recipient gets its own values, each call is made once, and the counters
\* agree (variables/resolver.ts, user-lookup, personalize.ts).
ResolverHolds == part = "values" => V!ResolverSound

\* The report adds up to what was recorded and not dropped (metrics/report.ts).
ReportHolds == part = "meter" => M!ReportHolds

\* A variable of the platform wins over the file and a typed key over the env: map,
\* also after a restart with a rotated secret, and the key in force, the boot's
\* report and its warning agree with that (config/hydrate.ts, dispatcher-settings.ts).
SettingsHold == part = "settings" => H!SettingsHold
-----------------------------------------------------------------------------
(* Statements of comments and documents that the code does not meet, each    *)
(* false in this instance (the README quotes them); none is an INVARIANT of  *)
(* MCFlows.cfg.  ConfiguredSends and DefaultIsTheSenders are ProviderSend's. *)
NoSharedKeys == part = "send" => NeverProviderWide
KeysTellApart == part = "inbound" => I!KeysTellApart
ReadStaysRead == part = "inbound" => I!ReadStaysRead
RejectedPerEvent == part = "client" => E!RejectedPerEvent
NothingTwice == part = "client" => E!NothingTwice
CountsAgreeAlways == part = "values" => V!CountsAgreeAlways
InactiveIsCounted == part = "values" => V!InactiveIsCounted
NothingRaw == part = "values" => V!NothingRaw
ResolvingNeverThrows == part = "values" => V!ResolvingNeverThrows
MeanOverActiveMinutes == part = "meter" => M!MeanOverActiveMinutes
InlineWins == part = "settings" => H!InlineWins
SkippedWasSet == part = "settings" => H!SkippedWasSet
SourceIsTrue == part = "settings" => H!SourceIsTrue
=============================================================================
