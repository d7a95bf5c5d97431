----------------------------- MODULE MCSettling -----------------------------
(***************************************************************************)
(* Two parts that must come to rest, in one instance: the placeholder      *)
(* registry, whose answers become live (Variables), and the recursion that *)
(* isolates refused receipts, which ends (IsolatingForward).  They share   *)
(* no variable: a behaviour steps the part it chose at the start.          *)
(***************************************************************************)
EXTENDS Variables, TLC

CONSTANTS r1, r2, s1, k1, m1, Mode, N, MaxRetries, MaxDown

VARIABLES part, kind, endpoint, todo, attempt, down, accepted, rejected, failed, done

F == INSTANCE IsolatingForward

ASSUME SettlingAssumption == F!SizeAssumption

Api(secret, saved, meta, uses, form) ==
  [source |-> "api", secret |-> secret, saved |-> saved, meta |-> meta, uses |-> uses, form |-> form]

Request(via, op, name, to, def, enabled) ==
  [via |-> via, op |-> op, name |-> name, to |-> to, def |-> def, enabled |-> enabled]
Schema(op, keys) ==
  [via |-> "atlas", op |-> op, name |-> None, to |-> None, def |-> NoDef, schema |-> m1, keys |-> keys]

\* What operators do to the two names; each line is a request of its own.
Edits ==
  {Request("console", "create", "a", "a", Api(s1, TRUE, None, {}, "loose"), TRUE),
   Request("console", "create", "a", "a", Api(Mask, FALSE, None, {}, "strict"), TRUE),
   Request("atlas", "create", "a", "a", Api(s1, TRUE, m1, {k1}, "strict"), TRUE),
   Request("atlas", "create", "b", "b", Field, FALSE),
   Request("console", "update", "a", "b", Api(Mask, TRUE, m1, {k1}, "strict"), TRUE),
   Request("console", "update", "b", "b", Field, FALSE),
   Request("atlas", "update", "a", "b", NoDef, TRUE),
   Request("atlas", "update", "a", "a", Api(Mask, TRUE, None, {}, "strict"), TRUE),
   Request("atlas", "update", "b", "b", Field, TRUE),
   Request("atlas", "delete", "a", "a", NoDef, TRUE),
   Request("console", "delete", "b", "b", NoDef, TRUE)}

SchemaEdits == {Schema("schema", {k1}), Schema("schema", {}), Schema("schemaDelete", {})}

\* Few enough to check liveness: one name, and a schema edited beside it.
Few ==
  {Request("console", "create", "a", "a", Api(Mask, FALSE, None, {}, "strict"), TRUE),
   Request("atlas", "create", "a", "a", Api(s1, TRUE, m1, {k1}, "strict"), TRUE),
   Request("console", "update", "a", "b", Api(Mask, TRUE, m1, {}, "strict"), TRUE),
   Request("atlas", "update", "a", "a", Field, TRUE),
   Request("atlas", "delete", "a", "a", NoDef, TRUE),
   Schema("schema", {}), Schema("schemaDelete", {})}

MCInputs == CASE Mode = "edits" -> Edits [] Mode = "few" -> Few
              [] Mode = "schema" -> SchemaEdits \cup {in \in Edits : in.def # NoDef /\ in.def.source = "api"}
              [] OTHER           -> Edits \cup SchemaEdits

-----------------------------------------------------------------------------
forward == <<kind, endpoint, todo, attempt, down, accepted, rejected, failed, done>>

\* A part that was not chosen has one initial state.
MCInit ==
  /\ part \in {"registry", "forward"}
  /\ Init /\ F!Init
  /\ part # "registry" => sql /\ ~marked /\ schemas = [m \in Schemas |-> NoSchema]
  /\ part # "forward" => endpoint = "right" /\ \A i \in 1..N : kind[i] = "good"

MCNext ==
  \/ part = "registry" /\ Next /\ UNCHANGED <<part, forward>>
  \/ part = "forward" /\ F!Next /\ UNCHANGED <<part, vars>>

\* Each part has the fairness its module states for it.
MCSpec ==
  /\ MCInit /\ [][MCNext]_<<part, vars, forward>>
  /\ part = "registry" => Fairness
  /\ WF_forward(part = "forward" /\ F!Next)

\* The registry and its snapshot say what was last written, short of a race
\* (variables/service.ts, admin/api/variables.ts, dataplane.controller.ts).
RegistryHolds ==
  part = "registry" => DeletionSticks /\ LiveUnlessRaced /\ MaskOnlyAsCreated

\* A request never silently sends an empty value for a key that was deleted, or
\* whose schema was, under it (call-metadata.controller.ts): checks and writes of
\* one schema have to overlap for that.
AttachmentsHold == part = "registry" => DanglingOnlyIfRaced

\* One bad receipt cannot sink the rest, nor is any dropped, repeated or blamed for
\* a wrong configuration, and the order is kept (freshchat/receipt-forwarder.ts).
ForwardHolds ==
  part = "forward" => F!Conserved /\ F!OnlyRefusedAreLost /\ F!GoodNeverRejected /\ F!AcceptedInOrder

\* When writes have ended, every later dispatch resolves from the table as it is
\* (variables/service.ts).
AnswersSettle == part = "registry" => EventuallyLive

\* The recursion ends, whatever the receiver answers (freshchat/receipt-forwarder.ts).
RecursionEnds == part = "forward" => F!Terminates
=============================================================================
