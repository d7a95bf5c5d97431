--------------------------- MODULE SettlingProofs ---------------------------
(***************************************************************************)
(* Theorems about the two parts that must come to rest: the recursion that *)
(* isolates refused receipts (IsolatingForward, the instance F), and the   *)
(* placeholder registry (Variables), for every value of the constants that *)
(* meets the assumptions of the modules.                                   *)
(***************************************************************************)
EXTENDS MCSettling, Sequences, FiniteSetTheorems, TLAPS

-----------------------------------------------------------------------------
(* The placeholder registry.                                                 *)

StoredRow ==
  [source : {"field", "query", "api"}, secret : Secrets \cup {None, Mask}, saved : BOOLEAN,
   meta : Schemas \cup {None}, uses : SUBSET Keys, enabled : BOOLEAN, asked : BOOLEAN]
Table == [Names \cup SystemNames -> StoredRow \cup {NoRow}]
Incoming == EditRequest \cup SchemaRequest \cup {[op |-> None]}

BootPcs == {"seeded?", "seed", "mark", "list", "install", "up"}
SlotPcs == {"idle", "read", "target", "meta", "insert", "again", "write", "remove", "schema-read", "usage",
            "schema-write", "list", "install", "answered"}
Handler ==
  [pc : BootPcs \cup SlotPcs, in : Incoming, row : StoredRow \cup {NoRow}, list : Table \cup {Null}]

RegistryTypeOK ==
  /\ rows \in Table /\ schemas \in [Schemas -> (SUBSET Keys) \cup {NoSchema}]
  /\ act \in [Actors -> Handler]
  /\ marked \in BOOLEAN /\ behind \in BOOLEAN
  /\ gone \subseteq Names /\ masked \subseteq Names /\ raced \subseteq Schemas

\* The statement a handler waits for is one of its request.
Serving(h) ==
  /\ h.pc \in {"read", "target", "meta", "insert", "again", "write", "remove"} => h.in \in EditRequest
  /\ h.pc \in {"target", "again", "write"} => h.in.op = "update"
  /\ h.pc = "meta" => h.in.op \in {"create", "update"} /\ h.in.def # NoDef
  /\ h.pc = "insert" => h.in.op = "create"
  /\ h.in \in EditRequest /\ h.in.op = "create" =>
       h.in.def # NoDef /\ (h.in.def.secret = Mask => h.in.via = "console")
  /\ h.pc \in {"schema-read", "usage", "schema-write"} => h.in \in SchemaRequest

HandlerInv ==
  /\ \A r \in Slots : act[r].pc \in SlotPcs /\ Serving(act[r])
  /\ act["dispatch"].pc \in {"idle", "list", "install"}
  /\ act["boot"].pc \in BootPcs

\* Nothing is served before the seed is decided, and nothing decides it again.
BootInv ==
  /\ ~Up => /\ snapshot = Null /\ act["dispatch"].pc = "idle"
            /\ \A r \in Slots : act[r].pc \in {"idle", "answered"}
  /\ act["boot"].pc \in {"seed", "mark"} => ~marked
  /\ act["boot"].pc \in {"list", "install", "up"} => marked
  /\ ~marked => gone = {}

\* A snapshot that is behind the table without saying so has a handler to refresh
\* it; the refresh of a dispatch is not counted on, because it may fail unnoticed.
LiveInv ==
  snapshot # Null /\ snapshot # Entries(rows)
    => behind \/ \E r \in Slots : act[r].pc \in {"list", "install"}

\* An update goes on with a mask only if it found one in the row.
Revealed(h) ==
  h.pc \in {"target", "meta", "again", "write"} /\ h.in.op = "update" /\ h.in.def # NoDef
    /\ h.in.def.secret = Mask

\* What a handler found is still so: the mask was the row's; and unless the schema
\* raced, the one it attaches has its keys, and the one it writes is not in use.
Known(h) ==
  /\ Revealed(h) => h.in.name \in masked
  /\ \A s \in Schemas : Attaching(h, s) => s \in raced \/ Backed(s, h.in.def.uses)
  /\ \A s \in Schemas : Changing(h, s) => s \in raced \/ ~InUse(h.in, rows)
KnownInv == \A r \in Slots : Known(act[r])

RegistryInv ==
  /\ RegistryTypeOK /\ HandlerInv /\ BootInv /\ KnownInv
  /\ DeletionSticks /\ LiveInv /\ MaskOnlyAsCreated /\ DanglingOnlyIfRaced

-----------------------------------------------------------------------------
LEMMA ActorsAre ==
  /\ "boot" \in Actors /\ "dispatch" \in Actors /\ "boot" \notin Slots /\ "dispatch" \notin Slots
  /\ Slots \subseteq Actors
  /\ \A a \in Actors : a \in Slots \/ a = "dispatch" \/ a = "boot"
BY ValueAssumption DEF Actors

LEMMA IdleIs ==
  Idle \in Handler /\ Idle.pc = "idle" /\ Idle.in = [op |-> None] /\ Idle.row = NoRow /\ Idle.list = Null
BY DEF Idle, Handler, Incoming, SlotPcs

\* No handler waits for a statement of a request it does not have.
LEMMA IdleServes ==
  ASSUME NEW h, h.in = [op |-> None], h.pc \in {"idle", "answered", "list", "install"}
  PROVE  Serving(h) /\ Known(h)
<1>1. h.in.op = None
  OBVIOUS
<1>2. ~(h.in \in EditRequest)
  BY <1>1 DEF EditRequest, None
<1>3. QED
  BY <1>1, <1>2 DEF Serving, Known, Revealed, Attaching, Changing

LEMMA AnswerFacts ==
  ASSUME act \in [Actors -> Handler], NEW a \in Actors, Answer(a)
  PROVE  /\ act' = [act EXCEPT ![a] = act'[a]] /\ act'[a] \in Handler
         /\ act'[a].pc = Rest(a) /\ act'[a].in = [op |-> None]
<1>1. Rest(a) \in BootPcs \cup SlotPcs
  BY DEF Rest, BootPcs, SlotPcs
<1>2. [Idle EXCEPT !.pc = Rest(a)] \in Handler
  BY <1>1, IdleIs DEF Handler
<1>3. act' = [act EXCEPT ![a] = [Idle EXCEPT !.pc = Rest(a)]]
  BY DEF Answer
<1>4. act'[a] = [Idle EXCEPT !.pc = Rest(a)]
  BY <1>3
<1>5. [Idle EXCEPT !.pc = Rest(a)].pc = Rest(a) /\ [Idle EXCEPT !.pc = Rest(a)].in = [op |-> None]
  BY DEF Idle
<1>6. QED
  BY <1>2, <1>3, <1>4, <1>5

LEMMA WaitFacts ==
  ASSUME act \in [Actors -> Handler], NEW a \in Actors, NEW pc \in BootPcs \cup SlotPcs,
         Wait(a, pc)
  PROVE  /\ act' = [act EXCEPT ![a] = act'[a]] /\ act'[a] \in Handler
         /\ act'[a].pc = pc /\ act'[a].in = act[a].in
<1>1. act[a] \in Handler /\ act' = [act EXCEPT ![a] = [act[a] EXCEPT !.pc = pc]]
  BY DEF Wait
<1>2. QED
  BY <1>1 DEF Handler

-----------------------------------------------------------------------------
\* A slot took a step that its handler allows.
SlotMoves(r) ==
  /\ Up /\ act' = [act EXCEPT ![r] = act'[r]] /\ act'[r] \in Handler /\ act'[r].pc \in SlotPcs
  /\ Serving(act'[r]) /\ Known(act'[r])

LEMMA SlotFacts ==
  ASSUME RegistryTypeOK, HandlerInv, BootInv, NEW r \in Slots, SlotMoves(r), marked' = marked,
         gone' = gone \/ marked
  PROVE  /\ act' \in [Actors -> Handler] /\ HandlerInv' /\ BootInv'
         /\ \A q \in Slots : q # r => act'[q] = act[q]
<1>1. /\ act \in [Actors -> Handler] /\ Up /\ act' = [act EXCEPT ![r] = act'[r]]
      /\ act'[r] \in Handler
      /\ act'[r].pc \in SlotPcs /\ Serving(act'[r])
  BY DEF SlotMoves, RegistryTypeOK
<1>2. act' \in [Actors -> Handler] /\ \A q \in Actors : q # r => act'[q] = act[q]
  BY <1>1, ActorsAre
<1>3. act'["boot"] = act["boot"] /\ act'["dispatch"] = act["dispatch"]
  BY <1>2, ActorsAre
<1>4. \A q \in Slots : act'[q].pc \in SlotPcs /\ Serving(act'[q])
  BY <1>1, <1>2, ActorsAre DEF HandlerInv
<1>5. HandlerInv'
  BY <1>3, <1>4 DEF HandlerInv
<1>6. BootInv'
  BY <1>1, <1>3 DEF BootInv, Up
<1>7. QED
  BY <1>2, <1>5, <1>6, ActorsAre

\* A schema of which no more is used than before is no more in use.
LEMMA FewerUsers ==
  ASSUME NEW table, NEW other, NEW in, ~InUse(in, table),
         \A n \in Users(other, in.schema) : \E m \in Users(table, in.schema) : table[m].uses = other[n].uses
  PROVE  ~InUse(in, other)
BY DEF InUse

\* What was found is still so when nothing it was found in changed.
LEMMA SameKnown ==
  ASSUME KnownInv, NEW r \in Slots, Known(act'[r]), \A q \in Slots : q # r => act'[q] = act[q],
         UNCHANGED <<rows, schemas, masked, raced>>
  PROVE  KnownInv'
<1>1. ASSUME NEW q \in Slots PROVE Known(act'[q])
  BY <1>1 DEF KnownInv
<1>2. ASSUME NEW q \in Slots PROVE Known(act[q])'
  BY <1>1, <1>2 DEF Known, Attaching, Changing, Revealed, Backed
<1>3. QED BY <1>2 DEF KnownInv

\* Nor when the handlers that did move wait for nothing of the kind.
LEMMA SlotsKnow ==
  ASSUME KnownInv, UNCHANGED <<rows, schemas, masked, raced>>,
         \A q \in Slots : act'[q] = act[q] \/ (act'[q].pc \in {"idle", "answered"})
  PROVE  KnownInv'
<1>1. ASSUME NEW q \in Slots PROVE Known(act[q])'
  <2>1. CASE act'[q] = act[q]
    BY <2>1 DEF KnownInv, Known, Attaching, Changing, Revealed, Backed
  <2>2. CASE act'[q].pc \in {"idle", "answered"}
    BY <2>2 DEF Known, Attaching, Changing, Revealed
  <2>3. QED BY <2>1, <2>2
<1>2. QED BY <1>1 DEF KnownInv

\* The step wrote nothing.
LEMMA QuietSlot ==
  ASSUME RegistryInv, NEW r \in Slots, SlotMoves(r),
         act[r].pc \in {"list", "install"} => act'[r].pc \in {"list", "install"},
         UNCHANGED <<rows, schemas, marked, sql, snapshot, history>>
  PROVE  RegistryInv'
<1>1. /\ act' \in [Actors -> Handler] /\ HandlerInv' /\ BootInv'
      /\ \A q \in Slots : q # r => act'[q] = act[q]
  BY SlotFacts DEF RegistryInv, history
<1>2. RegistryTypeOK'
  BY <1>1 DEF RegistryInv, RegistryTypeOK, history, Table
<1>3. DeletionSticks' /\ DanglingOnlyIfRaced' /\ MaskOnlyAsCreated'
  BY DEF RegistryInv, DeletionSticks, DanglingOnlyIfRaced, Backed, MaskOnlyAsCreated, history
<1>4. KnownInv'
  BY <1>1, SameKnown DEF RegistryInv, SlotMoves, history
<1>5. Entries(rows)' = Entries(rows)
  BY DEF Entries, Supported
<1>6. LiveInv'
  BY <1>1, <1>5 DEF RegistryInv, LiveInv, history
<1>7. QED
  BY <1>1, <1>2, <1>3, <1>4, <1>6 DEF RegistryInv

\* The step wrote the table and goes on to the refresh.
LEMMA WritingSlot ==
  ASSUME RegistryInv, NEW r \in Slots, SlotMoves(r), act'[r].pc = "list",
         rows' \in Table, gone' \subseteq Names, masked' \subseteq Names, raced' \subseteq Schemas,
         masked \subseteq masked', raced \subseteq raced',
         \A q \in Slots, s \in Schemas \ raced' :
           Changing(act[q], s) => \A n \in Users(rows', s) : \E m \in Users(rows, s) : rows[m].uses = rows'[n].uses,
         DeletionSticks', MaskOnlyAsCreated', DanglingOnlyIfRaced',
         UNCHANGED <<schemas, marked, sql, snapshot, behind>>
  PROVE  RegistryInv'
<1>1. marked
  BY DEF RegistryInv, BootInv, SlotMoves, Up
<1>2. /\ act' \in [Actors -> Handler] /\ HandlerInv' /\ BootInv'
      /\ \A q \in Slots : q # r => act'[q] = act[q]
  BY <1>1, SlotFacts DEF RegistryInv
<1>3. RegistryTypeOK'
  BY <1>2 DEF RegistryInv, RegistryTypeOK, Table
<1>4. KnownInv'
  <2>1. ASSUME NEW q \in Slots, NEW s \in Schemas, Changing(act[q], s), s \notin raced'
        PROVE  ~InUse(act[q].in, rows')
    <3>1. ~InUse(act[q].in, rows) /\ act[q].in.schema = s
      BY <2>1 DEF RegistryInv, KnownInv, Known, Changing
    <3>2. QED BY <2>1, <3>1, FewerUsers
  <2>2. \A q \in Slots : q # r => Known(act[q])
    BY DEF RegistryInv, KnownInv
  <2>3. \A s \in Schemas : ~Attaching(act'[r], s) /\ ~Changing(act'[r], s) /\ ~Revealed(act'[r])
    BY DEF Attaching, Changing, Revealed
  <2>4. ASSUME NEW q \in Slots PROVE Known(act[q])'
    <3>1. CASE q = r
      BY <2>3, <3>1 DEF Known, Attaching, Changing, Revealed
    <3>2. CASE q # r
      BY <1>2, <2>1, <2>2, <3>2 DEF Known, Attaching, Changing, Revealed, Backed
    <3>3. QED BY <3>1, <3>2
  <2>5. QED BY <2>4 DEF KnownInv
<1>5. LiveInv'
  BY <1>2 DEF LiveInv
<1>6. QED
  BY <1>2, <1>3, <1>4, <1>5 DEF RegistryInv

\* Two ways a slot goes on: it answers, or it waits for the next statement.
LEMMA SlotAnswers ==
  ASSUME RegistryTypeOK, Up, NEW r \in Slots, Answer(r)
  PROVE  SlotMoves(r) /\ act'[r].pc = "answered"
<1>1. /\ act' = [act EXCEPT ![r] = act'[r]] /\ act'[r] \in Handler
      /\ act'[r].pc = Rest(r) /\ act'[r].in = [op |-> None]
  BY AnswerFacts, ActorsAre DEF RegistryTypeOK
<1>2. Rest(r) = "answered"
  BY ActorsAre DEF Rest
<1>3. QED
  BY <1>1, <1>2, IdleServes DEF SlotMoves, SlotPcs

\* A handler with this request may wait for this statement.
Fits(pc, in) ==
  \A h \in Handler : h.pc = pc /\ h.in = in => Serving(h) /\ Known(h)

LEMMA SlotWaits ==
  ASSUME RegistryTypeOK, Up, NEW r \in Slots, NEW pc \in SlotPcs, Wait(r, pc),
         Fits(pc, act[r].in)
  PROVE  SlotMoves(r) /\ act'[r].pc = pc /\ act'[r].in = act[r].in
<1>1. /\ act' = [act EXCEPT ![r] = act'[r]] /\ act'[r] \in Handler
      /\ act'[r].pc = pc /\ act'[r].in = act[r].in
  BY WaitFacts, ActorsAre DEF RegistryTypeOK
<1>2. QED
  BY <1>1 DEF SlotMoves, Fits

\* The handler goes on with a row and a request of its own making.
Onward(r, row, in, pc) == act' = [act EXCEPT ![r].row = row, ![r].in = in, ![r].pc = pc]

LEMMA SlotGoesOn ==
  ASSUME RegistryTypeOK, Up, NEW r \in Slots, NEW row \in StoredRow \cup {NoRow},
         NEW in \in EditRequest,
         NEW pc \in SlotPcs,
         Onward(r, row, in, pc), Fits(pc, in)
  PROVE  SlotMoves(r) /\ act'[r].pc = pc
<1>1. act \in [Actors -> Handler] /\ r \in Actors /\ act[r] \in Handler
  BY ActorsAre DEF RegistryTypeOK
<1>2. act'[r] = [act[r] EXCEPT !.row = row, !.in = in, !.pc = pc]
  BY <1>1 DEF Onward
<1>3. act' = [act EXCEPT ![r] = act'[r]]
  BY <1>1, <1>2 DEF Onward
<1>4. in \in Incoming /\ pc \in BootPcs \cup SlotPcs
  BY DEF Incoming
<1>5. act'[r] \in Handler /\ act'[r].pc = pc /\ act'[r].in = in
  BY <1>1, <1>2, <1>4 DEF Handler
<1>6. QED
  BY <1>3, <1>5 DEF SlotMoves, Fits

LEMMA BusyMeansUp ==
  ASSUME HandlerInv, BootInv, NEW r \in Slots, act[r].pc \notin {"idle", "answered"}
  PROVE  Up
BY DEF BootInv

LEMMA UnmaskedFacts ==
  ASSUME NEW d \in Definition, NEW row \in StoredRow \cup {NoRow}
  PROVE  /\ Unmasked(d, row) \in Definition
         /\ Unmasked(d, row).secret = Mask => row \in StoredRow /\ row.secret = Mask
<1>1. CASE d.secret # Mask
  BY <1>1 DEF Unmasked
<1>2. CASE d.secret = Mask
  <2>1. row.source = "api" => row \in StoredRow
    BY DEF NoRow, None
  <2>2. Unmasked(d, row) = [d EXCEPT !.secret = IF row.source = "api" THEN row.secret ELSE None]
    BY <1>2 DEF Unmasked
  <2>3. (IF row.source = "api" THEN row.secret ELSE None) \in Secrets \cup {None, Mask}
    BY <2>1 DEF StoredRow
  <2>4. None # Mask
    BY DEF None, Mask
  <2>5. QED
    BY <2>1, <2>2, <2>3, <2>4 DEF Definition
<1>3. QED
  BY <1>1, <1>2

LEMMA RowFacts ==
  ASSUME NEW via, NEW d \in Definition, NEW enabled \in BOOLEAN
  PROVE  /\ Row(via, d, enabled) \in StoredRow /\ Row(via, d, enabled).secret = d.secret
         /\ Row(via, d, enabled).meta = d.meta /\ Row(via, d, enabled).uses = d.uses
<1> DEFINE kept == Stored(via, d)
<1>1. kept = [d EXCEPT !.saved = d.saved /\ via = "atlas"]
  BY DEF Stored
<1>2. (d.saved /\ via = "atlas") \in BOOLEAN
  OBVIOUS
<1>3. /\ kept.source = d.source /\ kept.secret = d.secret /\ kept.meta = d.meta
      /\ kept.uses = d.uses
      /\ kept.saved \in BOOLEAN
  BY <1>1, <1>2 DEF Definition
<1> HIDE DEF kept
<1>4. Row(via, d, enabled) =
        [source |-> kept.source, secret |-> kept.secret, saved |-> kept.saved, meta |-> kept.meta,
         uses |-> kept.uses, enabled |-> enabled, asked |-> d.saved]
  BY DEF Row, kept
<1>5. QED
  BY <1>3, <1>4 DEF Definition, StoredRow

LEMMA DefinitionOf ==
  ASSUME NEW in \in EditRequest, in.def # NoDef
  PROVE  in.def \in Definition
BY DEF EditRequest

LEMMA ReceiveStep ==
  ASSUME RegistryInv, NEW r \in Slots, NEW in \in Inputs, Receive(r, in)
  PROVE  RegistryInv'
<1> DEFINE pc == IF in.op \in {"schema", "schemaDelete"} THEN "schema-read" ELSE "read"
           h == [Idle EXCEPT !.in = in, !.pc = pc]
<1>1. /\ Up /\ act[r].pc = "idle" /\ act' = [act EXCEPT ![r] = h]
      /\ UNCHANGED <<rows, schemas, marked, sql, snapshot, history>>
  BY DEF Receive
<1>2. /\ in \in EditRequest \cup SchemaRequest /\ (in.op = "create" => in.def # NoDef)
      /\ in.op = "create" /\ in.via = "atlas" => in.def.secret # Mask
  BY InputAssumption DEF Receive, Admitted
<1>3. \/ in \in EditRequest /\ pc = "read"
      \/ in \in SchemaRequest /\ pc = "schema-read"
  <2>1. CASE in \in EditRequest
    BY <2>1 DEF EditRequest
  <2>2. CASE in \in SchemaRequest
    BY <2>2 DEF SchemaRequest
  <2>3. QED
    BY <1>2, <2>1, <2>2
<1>4. pc \in BootPcs \cup SlotPcs /\ in \in Incoming
  BY <1>2, <1>3 DEF SlotPcs, Incoming
<1>5. h \in Handler /\ h.pc = pc /\ h.in = in
  BY <1>4, IdleIs DEF Handler
<1>6. act'[r] = h /\ act' = [act EXCEPT ![r] = act'[r]]
  BY <1>1, ActorsAre DEF RegistryInv, RegistryTypeOK
<1> HIDE DEF h, pc
<1>7. Serving(act'[r]) /\ Known(act'[r]) /\ act'[r].pc \in SlotPcs
  BY <1>2, <1>3, <1>5, <1>6 DEF Serving, Known, Revealed, Attaching, Changing, SlotPcs, EditRequest
<1>8. SlotMoves(r)
  BY <1>1, <1>5, <1>6, <1>7 DEF SlotMoves
<1>9. QED
  BY <1>1, <1>8, QuietSlot

LEMMA ReadStep == ASSUME RegistryInv, NEW r \in Slots, Read(r) PROVE RegistryInv'
<1> DEFINE in == act[r].in
           row == rows[in.name]
           got == IF in.op = "update" /\ in.def # NoDef
                    THEN [in EXCEPT !.def = Unmasked(in.def, row)]
                    ELSE in
<1>1. act[r].pc = "read" /\ UNCHANGED <<rows, schemas, marked, sql, snapshot, history>>
  BY DEF Read
<1>2. /\ Up /\ in \in EditRequest /\ in.name \in Names
      /\ in.op = "create" => in.def # NoDef /\ (in.def.secret = Mask => in.via = "console")
  BY <1>1, BusyMeansUp DEF RegistryInv, HandlerInv, Serving, EditRequest
<1>3. row \in StoredRow \cup {NoRow}
  BY <1>2 DEF RegistryInv, RegistryTypeOK, Table
<1>4. /\ got \in EditRequest /\ got.op = in.op /\ got.name = in.name
      /\ (got.def = NoDef => in.def = NoDef \/ in.op # "create")
      /\ in.op = "update" /\ got.def # NoDef /\ got.def.secret = Mask => in.name \in masked
  <2>1. CASE in.op = "update" /\ in.def # NoDef
    <3>1. in.def \in Definition
      BY <1>2, <2>1, DefinitionOf
    <3>2. /\ Unmasked(in.def, row) \in Definition
          /\ (Unmasked(in.def, row).secret = Mask => row # NoRow /\ row.secret = Mask)
      BY <1>3, <3>1, UnmaskedFacts DEF NoRow, StoredRow
    <3>3. row # NoRow /\ row.secret = Mask => in.name \in masked
      BY <1>2 DEF RegistryInv, MaskOnlyAsCreated
    <3>4. got = [in EXCEPT !.def = Unmasked(in.def, row)]
      BY <2>1
    <3>5. QED
      BY <1>2, <2>1, <3>2, <3>3, <3>4 DEF EditRequest
  <2>2. CASE ~(in.op = "update" /\ in.def # NoDef)
    BY <1>1, <1>2, <2>2 DEF RegistryInv, KnownInv, Known, Revealed
  <2>3. QED
    BY <2>1, <2>2
<1> HIDE DEF got
<1>0. RegistryTypeOK
  BY DEF RegistryInv
<1>5. CASE Answer(r)
  BY <1>1, <1>2, <1>5, SlotAnswers, QuietSlot DEF RegistryInv
<1>6. CASE in.op = "create" /\ Toward(r, row, in, "insert")
  <2> DEFINE pc == IF in.def # NoDef /\ in.def.meta # None THEN "meta" ELSE "insert"
  <2>1. Onward(r, row, in, pc)
    BY <1>6 DEF Toward, Onward
  <2>2. Fits(pc, in)
    BY <1>2, <1>6, ValueAssumption DEF Serving, Fits, Known, Revealed, Attaching, Changing
  <2>3. pc \in SlotPcs
    BY DEF SlotPcs
  <2> HIDE DEF pc, row, in
  <2>4. SlotMoves(r)
    BY <1>0, <1>2, <1>3, <2>1, <2>2, <2>3, SlotGoesOn
  <2>5. QED
    BY <1>1, <2>4, QuietSlot
<1>7. CASE in.op = "update" /\ Toward(r, row, got, "again")
  <2> DEFINE pc == IF got.def # NoDef /\ got.def.meta # None THEN "meta" ELSE "again"
  <2>1. Onward(r, row, got, pc)
    BY <1>7 DEF Toward, Onward
  <2>2. \/ pc = "again" /\ (got.def = NoDef \/ got.def.meta = None)
        \/ pc = "meta" /\ got.def # NoDef
    OBVIOUS
  <2>3. pc \in SlotPcs
    BY DEF SlotPcs
  <2> HIDE DEF pc
  <2>4. Fits(pc, got)
    BY <1>4, <1>7, <2>2, ValueAssumption DEF Serving, Fits, Known, Revealed, Attaching, Changing
  <2> HIDE DEF row, in
  <2>5. SlotMoves(r)
    BY <1>0, <1>2, <1>3, <1>4, <2>1, <2>3, <2>4, SlotGoesOn
  <2>6. QED
    BY <1>1, <2>5, QuietSlot
<1>8. CASE in.op = "update" /\ Onward(r, row, got, "target")
  <2>1. Fits("target", got)
    BY <1>4, <1>8 DEF Serving, Fits, Known, Revealed, Attaching, Changing
  <2>2. "target" \in SlotPcs
    BY DEF SlotPcs
  <2> HIDE DEF row, in
  <2>3. SlotMoves(r)
    BY <1>0, <1>2, <1>3, <1>4, <1>8, <2>1, <2>2, SlotGoesOn
  <2>4. QED
    BY <1>1, <2>3, QuietSlot
<1>9. CASE in.op = "delete" /\ Wait(r, "remove")
  <2>1. Fits("remove", act[r].in)
    BY <1>2, <1>9 DEF Serving, Fits, Known, Revealed, Attaching, Changing
  <2>2. "remove" \in SlotPcs
    BY DEF SlotPcs
  <2>3. SlotMoves(r)
    BY <1>2, <1>9, <2>1, <2>2, SlotWaits DEF RegistryInv
  <2>4. QED
    BY <1>1, <2>3, QuietSlot
<1>10. QED
  BY <1>5, <1>6, <1>7, <1>8, <1>9 DEF Read, got, Onward

LEMMA ReadTargetStep == ASSUME RegistryInv, NEW r \in Slots, ReadTarget(r) PROVE RegistryInv'
<1> DEFINE in == act[r].in
           row == act[r].row
           pc == IF in.def # NoDef /\ in.def.meta # None THEN "meta" ELSE "again"
<1>1. act[r].pc = "target" /\ UNCHANGED <<rows, schemas, marked, sql, snapshot, history>>
  BY DEF ReadTarget
<1>2. /\ RegistryTypeOK /\ Up /\ in \in EditRequest /\ in.op = "update"
      /\ in.def # NoDef /\ in.def.secret = Mask => in.name \in masked
  BY <1>1, BusyMeansUp DEF RegistryInv, HandlerInv, Serving, KnownInv, Known, Revealed
<1>3. row \in StoredRow \cup {NoRow}
  BY ActorsAre DEF RegistryInv, RegistryTypeOK, Handler
<1>4. pc \in SlotPcs /\ Fits(pc, in)
  BY <1>2, ValueAssumption DEF SlotPcs, Fits, Serving, Known, Revealed, Attaching, Changing
<1>5. Answer(r) \/ Onward(r, row, in, pc)
  BY DEF ReadTarget, Toward, Onward
<1> HIDE DEF in, row, pc
<1>6. SlotMoves(r)
  BY <1>2, <1>3, <1>4, <1>5, SlotAnswers, SlotGoesOn
<1>7. QED
  BY <1>1, <1>6, QuietSlot

LEMMA CheckMetaStep == ASSUME RegistryInv, NEW r \in Slots, CheckMeta(r) PROVE RegistryInv'
<1> DEFINE pc == IF act[r].in.op = "create" THEN "insert" ELSE "again"
<1>1. act[r].pc = "meta" /\ UNCHANGED <<rows, schemas, marked, sql, snapshot, history>>
  BY DEF CheckMeta
<1>2. /\ RegistryTypeOK /\ Up /\ act[r].in \in EditRequest
      /\ act[r].in.op \in {"create", "update"}
      /\ act[r].in.def # NoDef
      /\ act[r].in.op = "update" /\ act[r].in.def.secret = Mask => act[r].in.name \in masked
      /\ act[r].in.op = "create" /\ act[r].in.def.secret = Mask => act[r].in.via = "console"
  BY <1>1, BusyMeansUp DEF RegistryInv, HandlerInv, Serving, KnownInv, Known, Revealed
<1>3. pc \in SlotPcs /\ (Backed(act[r].in.def.meta, act[r].in.def.uses) => Fits(pc, act[r].in))
  BY <1>2 DEF SlotPcs, Fits, Serving, Known, Revealed, Attaching, Changing
<1>4. Answer(r) \/ (Wait(r, pc) /\ Backed(act[r].in.def.meta, act[r].in.def.uses))
  BY DEF CheckMeta
<1> HIDE DEF pc
<1>5. SlotMoves(r)
  BY <1>2, <1>3, <1>4, SlotAnswers, SlotWaits
<1>6. QED
  BY <1>1, <1>5, QuietSlot

\* The refresh needs nothing of the request.
LEMMA ListFits ==
  ASSUME NEW r \in Slots, RegistryInv
  PROVE  "list" \in SlotPcs /\ Fits("list", act[r].in)
  BY DEF SlotPcs, Fits, Serving, RegistryInv, HandlerInv, Known, Revealed, Attaching, Changing

LEMMA InsertStep == ASSUME RegistryInv, NEW r \in Slots, Insert(r) PROVE RegistryInv'
<1> DEFINE in == act[r].in
           new == Row(in.via, in.def, in.enabled)
<1>1. act[r].pc = "insert" /\ UNCHANGED <<schemas, marked, sql, snapshot, behind>>
  BY DEF Insert
<1>2. /\ RegistryTypeOK /\ Up /\ in \in EditRequest /\ in.op = "create" /\ in.def # NoDef
      /\ in.def.secret = Mask => in.via = "console"
  BY <1>1, BusyMeansUp DEF RegistryInv, HandlerInv, Serving
<1>3. in.def \in Definition /\ in.name \in Names /\ in.enabled \in BOOLEAN
  BY <1>2, DefinitionOf DEF EditRequest
<1>4. CASE Answer(r) /\ UNCHANGED stored
  BY <1>1, <1>2, <1>4, SlotAnswers, QuietSlot DEF stored, history
<1>5. CASE /\ rows' = [rows EXCEPT ![in.name] = new] /\ gone' = gone \ {in.name}
           /\ masked' = IF in.via = "console" /\ in.def.secret = Mask THEN masked \cup {in.name} ELSE masked
           /\ raced' = raced \cup Beside(in.def)
           /\ Wait(r, "list")
  <2>1. SlotMoves(r) /\ act'[r].pc = "list"
    BY <1>2, <1>5, ListFits, SlotWaits
  <2>2. /\ new \in StoredRow /\ new.secret = in.def.secret /\ new.meta = in.def.meta
        /\ new.uses = in.def.uses
    BY <1>3, RowFacts
  <2> HIDE DEF new
  <2>3. rows \in Table
    BY <1>2 DEF RegistryTypeOK
  <2>4. /\ rows' \in Table /\ rows'[in.name] = new
        /\ \A n \in Names : n # in.name => rows'[n] = rows[n]
    BY <1>3, <1>5, <2>2, <2>3 DEF Table
  <2>5. /\ gone' \subseteq Names /\ masked' \subseteq Names /\ raced' \subseteq Schemas
        /\ masked \subseteq masked' /\ raced \subseteq raced'
    BY <1>2, <1>3, <1>5 DEF RegistryTypeOK, Beside
  <2>6. DeletionSticks'
    BY <1>2, <1>5, <2>4 DEF RegistryInv, DeletionSticks, RegistryTypeOK
  <2>7. MaskOnlyAsCreated'
    BY <1>2, <1>5, <2>2, <2>4 DEF RegistryInv, MaskOnlyAsCreated
  <2>8. DanglingOnlyIfRaced'
    <3>1. ASSUME NEW n \in Names, rows'[n] # NoRow, rows'[n].meta # None, rows'[n].meta \notin raced'
          PROVE  Backed(rows'[n].meta, rows'[n].uses)
      <4>1. CASE n = in.name
        <5>1. rows'[n].meta = in.def.meta /\ rows'[n].uses = in.def.uses /\ in.def.meta \in Schemas
          BY <1>3, <2>2, <2>4, <3>1, <4>1 DEF Definition
        <5>2. Attaching(act[r], in.def.meta) /\ in.def.meta \notin raced
          BY <1>1, <1>2, <2>5, <3>1, <5>1 DEF Attaching
        <5>3. QED BY <5>1, <5>2 DEF RegistryInv, KnownInv, Known
      <4>2. CASE n # in.name
        BY <2>4, <2>5, <3>1, <4>2 DEF RegistryInv, DanglingOnlyIfRaced
      <4>3. QED
        BY <4>1, <4>2
    <3>2. QED
      BY <1>1, <3>1 DEF DanglingOnlyIfRaced, Backed
  <2>9. ASSUME NEW q \in Slots, NEW s \in Schemas \ raced', Changing(act[q], s), NEW n \in Users(rows', s)
        PROVE  \E m \in Users(rows, s) : rows[m].uses = rows'[n].uses
    <3>1. in.def.meta # s
      BY <1>2, <1>5, <2>9 DEF Beside
    <3>2. n \in Names /\ n # in.name
      BY <2>2, <2>4, <2>9, <3>1 DEF Users
    <3>3. QED BY <2>4, <2>9, <3>2 DEF Users
  <2>10. QED
    BY <1>1, <2>1, <2>4, <2>5, <2>6, <2>7, <2>8, <2>9, WritingSlot
<1>6. QED
  BY <1>4, <1>5 DEF Insert

LEMMA AgainStep == ASSUME RegistryInv, NEW r \in Slots, Again(r) PROVE RegistryInv'
<1> DEFINE pc == IF rows[act[r].in.name] = NoRow THEN "list" ELSE "write"
<1>1. act[r].pc = "again" /\ UNCHANGED <<rows, schemas, marked, sql, snapshot, history>> /\ Wait(r, pc)
  BY DEF Again
<1>2. /\ RegistryTypeOK /\ Up /\ act[r].in \in EditRequest /\ act[r].in.op = "update"
      /\ act[r].in.def # NoDef /\ act[r].in.def.secret = Mask => act[r].in.name \in masked
  BY <1>1, BusyMeansUp DEF RegistryInv, HandlerInv, Serving, KnownInv, Known, Revealed
<1>3. pc \in SlotPcs /\ Fits(pc, act[r].in)
  <2>1. \A s \in Schemas : act[r].in.def # NoDef /\ act[r].in.def.meta = s =>
          s \in raced \/ Backed(s, act[r].in.def.uses)
    BY <1>1 DEF RegistryInv, KnownInv, Known, Attaching
  <2>2. QED BY <1>2, <2>1 DEF SlotPcs, Fits, Serving, Known, Revealed, Attaching, Changing
<1> HIDE DEF pc
<1>4. SlotMoves(r)
  BY <1>1, <1>2, <1>3, SlotWaits
<1>5. QED
  BY <1>1, <1>4, QuietSlot

LEMMA PatchedFacts ==
  ASSUME NEW in \in EditRequest, NEW row \in StoredRow
  PROVE  /\ Patched(in, row) \in StoredRow
         /\ in.def = NoDef => /\ Patched(in, row).secret = row.secret
                              /\ Patched(in, row).meta = row.meta
                              /\ Patched(in, row).uses = row.uses
         /\ in.def # NoDef => /\ Patched(in, row).secret = in.def.secret
                              /\ Patched(in, row).meta = in.def.meta
                              /\ Patched(in, row).uses = in.def.uses
<1>1. in.enabled \in BOOLEAN
  BY DEF EditRequest
<1>2. CASE in.def = NoDef
  <2>1. Patched(in, row) = [row EXCEPT !.enabled = in.enabled]
    BY <1>2 DEF Patched
  <2>2. QED
    BY <1>1, <1>2, <2>1 DEF StoredRow
<1>3. CASE in.def # NoDef
  <2>1. Patched(in, row) = Row(in.via, in.def, in.enabled)
    BY <1>3 DEF Patched
  <2>2. QED
    BY <1>1, <1>3, <2>1, DefinitionOf, RowFacts
<1>4. QED
  BY <1>2, <1>3

LEMMA WriteStep == ASSUME RegistryInv, NEW r \in Slots, Write(r) PROVE RegistryInv'
<1> DEFINE in == act[r].in
           old == rows[in.name]
           new == Patched(in, old)
<1>1. act[r].pc = "write" /\ UNCHANGED <<schemas, marked, sql, snapshot, behind>>
  BY DEF Write
<1>2. /\ RegistryTypeOK /\ Up /\ in \in EditRequest /\ in.op = "update"
      /\ in.def # NoDef /\ in.def.secret = Mask => in.name \in masked
  BY <1>1, BusyMeansUp DEF RegistryInv, HandlerInv, Serving, KnownInv, Known, Revealed
<1>3. in.name \in Names /\ in.to \in Names
  BY <1>2 DEF EditRequest
<1>4. CASE (Wait(r, "list") \/ Answer(r)) /\ UNCHANGED stored
  BY <1>1, <1>2, <1>4, ListFits, SlotAnswers, SlotWaits, QuietSlot DEF stored, history
<1>5. CASE /\ rows[in.name] # NoRow
           /\ rows' = [rows EXCEPT ![in.name] = NoRow, ![in.to] = new]
           /\ gone' = (gone \cup {in.name}) \ {in.to}
           /\ masked' = IF in.name \in masked THEN masked \cup {in.to} ELSE masked
           /\ raced' = raced \cup Beside(in.def)
           /\ Wait(r, "list")
  <2>1. SlotMoves(r) /\ act'[r].pc = "list"
    BY <1>2, <1>5, ListFits, SlotWaits
  <2>2. rows \in Table /\ old \in StoredRow
    BY <1>2, <1>3, <1>5 DEF RegistryTypeOK, Table
  <2>3. /\ new \in StoredRow
        /\ in.def = NoDef => new.secret = old.secret /\ new.meta = old.meta /\ new.uses = old.uses
        /\ in.def # NoDef =>
             new.secret = in.def.secret /\ new.meta = in.def.meta /\ new.uses = in.def.uses
    BY <1>2, <2>2, PatchedFacts
  <2> HIDE DEF new
  <2>4. /\ rows' \in Table /\ rows'[in.to] = new
        /\ in.name # in.to => rows'[in.name] = NoRow
        /\ \A n \in Names : n # in.name /\ n # in.to => rows'[n] = rows[n]
    BY <1>3, <1>5, <2>2, <2>3 DEF Table
  <2>5. /\ gone' \subseteq Names /\ masked' \subseteq Names /\ raced' \subseteq Schemas
        /\ masked \subseteq masked' /\ raced \subseteq raced'
    BY <1>2, <1>3, <1>5 DEF RegistryTypeOK, Beside
  <2>6. DeletionSticks'
    BY <1>2, <1>5, <2>4 DEF RegistryInv, DeletionSticks, RegistryTypeOK
  <2>7. MaskOnlyAsCreated'
    <3>1. old.secret = Mask => in.name \in masked
      BY <1>3, <1>5 DEF RegistryInv, MaskOnlyAsCreated
    <3>2. new.secret = Mask => in.to \in masked'
      BY <1>2, <1>5, <2>3, <3>1
    <3>3. ASSUME NEW n \in Names, rows'[n] # NoRow, rows'[n].secret = Mask PROVE n \in masked'
      <4>1. CASE n = in.to
        BY <2>4, <3>2, <3>3, <4>1
      <4>2. CASE n # in.to
        BY <2>4, <2>5, <3>3, <4>2 DEF RegistryInv, MaskOnlyAsCreated
      <4>3. QED
        BY <4>1, <4>2
    <3>4. QED
      BY <3>3 DEF MaskOnlyAsCreated
  <2>8. DanglingOnlyIfRaced'
    <3>1. ASSUME NEW n \in Names, rows'[n] # NoRow, rows'[n].meta # None, rows'[n].meta \notin raced'
          PROVE  Backed(rows'[n].meta, rows'[n].uses)
      <4>1. CASE n = in.to /\ in.def # NoDef
        <5>1. rows'[n].meta = in.def.meta /\ rows'[n].uses = in.def.uses /\ in.def.meta \in Schemas
          BY <1>2, <2>3, <2>4, <3>1, <4>1, DefinitionOf DEF Definition
        <5>2. Attaching(act[r], in.def.meta) /\ in.def.meta \notin raced
          BY <1>1, <2>5, <3>1, <4>1, <5>1 DEF Attaching
        <5>3. QED
          BY <5>1, <5>2 DEF RegistryInv, KnownInv, Known
      <4>2. CASE n = in.to /\ in.def = NoDef
        <5>1. /\ rows'[n].meta = old.meta /\ rows'[n].uses = old.uses
              /\ old.meta # None /\ old.meta \notin raced /\ old # NoRow
          BY <1>5, <2>3, <2>4, <2>5, <3>1, <4>2
        <5>2. Backed(old.meta, old.uses)
          BY <1>3, <5>1 DEF RegistryInv, DanglingOnlyIfRaced
        <5>3. QED
          BY <5>1, <5>2
      <4>3. CASE n # in.to
        BY <2>4, <2>5, <3>1, <4>3 DEF RegistryInv, DanglingOnlyIfRaced
      <4>4. QED
        BY <4>1, <4>2, <4>3
    <3>2. QED
      BY <1>1, <3>1 DEF DanglingOnlyIfRaced, Backed
  <2>9. ASSUME NEW q \in Slots, NEW s \in Schemas \ raced', Changing(act[q], s), NEW n \in Users(rows', s)
        PROVE  \E m \in Users(rows, s) : rows[m].uses = rows'[n].uses
    <3>1. in.def = NoDef \/ in.def.meta # s
      BY <1>5, <2>9 DEF Beside
    <3>2. n \in Names /\ rows'[n] # NoRow /\ rows'[n].meta = s
      BY <2>9 DEF Users
    <3>3. CASE n = in.to
      <4>1. in.def = NoDef /\ old # NoRow /\ old.meta = s /\ old.uses = rows'[n].uses
        BY <1>5, <2>3, <2>4, <3>1, <3>2, <3>3
      <4>2. QED BY <1>3, <4>1 DEF Users
    <3>4. CASE n # in.to
      BY <2>4, <3>2, <3>4 DEF Users
    <3>5. QED BY <3>3, <3>4
  <2>10. QED
    BY <1>1, <2>1, <2>4, <2>5, <2>6, <2>7, <2>8, <2>9, WritingSlot
<1>6. QED
  BY <1>4, <1>5 DEF Write

LEMMA RemoveStep == ASSUME RegistryInv, NEW r \in Slots, Remove(r) PROVE RegistryInv'
<1> DEFINE in == act[r].in
<1>1. /\ act[r].pc = "remove" /\ UNCHANGED <<schemas, marked, sql, snapshot, masked, raced, behind>>
      /\ rows' = [rows EXCEPT ![in.name] = NoRow] /\ gone' = gone \cup {in.name}
      /\ Wait(r, "list")
  BY DEF Remove
<1>2. RegistryTypeOK /\ Up /\ in.name \in Names
  BY <1>1, BusyMeansUp DEF RegistryInv, HandlerInv, Serving, EditRequest
<1>3. SlotMoves(r) /\ act'[r].pc = "list"
  BY <1>1, <1>2, ListFits, SlotWaits
<1>4. /\ rows' \in Table /\ rows'[in.name] = NoRow
      /\ \A n \in Names : n # in.name => rows'[n] = rows[n]
  BY <1>1, <1>2 DEF RegistryTypeOK, Table
<1>5. /\ gone' \subseteq Names /\ masked' \subseteq Names /\ raced' \subseteq Schemas
      /\ masked \subseteq masked' /\ raced \subseteq raced'
  BY <1>1, <1>2 DEF RegistryTypeOK
<1>6. DeletionSticks' /\ MaskOnlyAsCreated'
  BY <1>1, <1>2, <1>4 DEF RegistryInv, DeletionSticks, RegistryTypeOK, MaskOnlyAsCreated
<1>7. DanglingOnlyIfRaced'
  BY <1>1, <1>4 DEF RegistryInv, DanglingOnlyIfRaced, Backed
<1>8. \A s \in Schemas : \A n \in Users(rows', s) : \E m \in Users(rows, s) : rows[m].uses = rows'[n].uses
  BY <1>4 DEF Users
<1>9. QED
  BY <1>1, <1>3, <1>4, <1>5, <1>6, <1>7, <1>8, WritingSlot

LEMMA SchemaReadStep == ASSUME RegistryInv, NEW r \in Slots, SchemaRead(r) PROVE RegistryInv'
<1>1. act[r].pc = "schema-read" /\ UNCHANGED <<rows, schemas, marked, sql, snapshot, history>>
  BY DEF SchemaRead
<1>2. RegistryTypeOK /\ Up /\ act[r].in \in SchemaRequest
  BY <1>1, BusyMeansUp DEF RegistryInv, HandlerInv, Serving
<1>3. act[r].in \notin EditRequest
  BY <1>2 DEF SchemaRequest, EditRequest
<1>4. CASE Answer(r)
  BY <1>1, <1>2, <1>4, SlotAnswers, QuietSlot
<1>5. CASE Wait(r, "usage")
  <2>1. "usage" \in SlotPcs /\ Fits("usage", act[r].in)
    BY <1>2, <1>3 DEF SlotPcs, Fits, Serving, Known, Revealed, Attaching, Changing
  <2>2. QED BY <1>1, <1>2, <1>5, <2>1, SlotWaits, QuietSlot
<1>6. CASE schemas[act[r].in.schema] = NoSchema /\ act[r].in.op = "schema" /\ Wait(r, "schema-write")
  <2>1. ASSUME act[r].in.schema \notin raced PROVE ~InUse(act[r].in, rows)
    <3>1. act[r].in.schema # None
      BY <1>2, ValueAssumption DEF SchemaRequest
    <3>2. Users(rows, act[r].in.schema) = {}
      BY <1>6, <2>1, <3>1 DEF RegistryInv, DanglingOnlyIfRaced, Backed, Users
    <3>3. QED BY <1>6, <3>2 DEF InUse
  <2>2. "schema-write" \in SlotPcs /\ Fits("schema-write", act[r].in)
    BY <1>2, <1>3, <2>1 DEF SlotPcs, Fits, Serving, Known, Revealed, Attaching, Changing
  <2>3. QED BY <1>1, <1>2, <1>6, <2>2, SlotWaits, QuietSlot
<1>7. QED
  BY <1>4, <1>5, <1>6 DEF SchemaRead

LEMMA SchemaUsageStep == ASSUME RegistryInv, NEW r \in Slots, SchemaUsage(r) PROVE RegistryInv'
<1>1. act[r].pc = "usage" /\ UNCHANGED <<rows, schemas, marked, sql, snapshot, history>>
  BY DEF SchemaUsage
<1>2. RegistryTypeOK /\ Up /\ act[r].in \in SchemaRequest
  BY <1>1, BusyMeansUp DEF RegistryInv, HandlerInv, Serving
<1>3. "schema-write" \in SlotPcs /\ (~InUse(act[r].in, rows) => Fits("schema-write", act[r].in))
  <2>1. act[r].in \notin EditRequest
    BY <1>2 DEF SchemaRequest, EditRequest
  <2>2. QED
    BY <1>2, <2>1 DEF SlotPcs, Fits, Serving, Known, Revealed, Attaching, Changing
<1>4. Answer(r) \/ (Wait(r, "schema-write") /\ ~InUse(act[r].in, rows))
  BY DEF SchemaUsage
<1>5. SlotMoves(r)
  BY <1>2, <1>3, <1>4, SlotAnswers, SlotWaits
<1>6. QED
  BY <1>1, <1>5, QuietSlot

\* The write of a schema disturbs only what is attached to it.
LEMMA SchemaWriteStep == ASSUME RegistryInv, NEW r \in Slots, SchemaWrite(r) PROVE RegistryInv'
<1> DEFINE in == act[r].in
           new == IF in.op = "schema" THEN in.keys ELSE NoSchema
<1>1. /\ act[r].pc = "schema-write" /\ UNCHANGED <<rows, marked, sql, snapshot, gone, masked, behind>>
      /\ schemas' = [schemas EXCEPT ![in.schema] = new]
      /\ raced' = raced \cup {s \in {in.schema} : \E q \in Slots : Attaching(act[q], s)} /\ Answer(r)
  BY DEF SchemaWrite
<1>2. /\ RegistryTypeOK /\ Up /\ in \in SchemaRequest /\ in.schema \in Schemas
      /\ in.op \in {"schema", "schemaDelete"} /\ in.keys \in SUBSET Keys
  BY <1>1, BusyMeansUp DEF RegistryInv, HandlerInv, Serving, SchemaRequest
<1>3. SlotMoves(r) /\ act'[r].pc = "answered"
  BY <1>1, <1>2, SlotAnswers
<1>4. /\ act' \in [Actors -> Handler] /\ HandlerInv' /\ BootInv'
      /\ \A q \in Slots : q # r => act'[q] = act[q]
  BY <1>1, <1>3, SlotFacts DEF RegistryInv
<1>5. new \in (SUBSET Keys) \cup {NoSchema} /\ (in.op = "schema" => new # NoSchema)
  <2>1. in.keys # NoSchema
    BY <1>2, ValueAssumption DEF NoSchema
  <2>2. CASE in.op = "schema"
    <3>1. new = in.keys
      BY <2>2
    <3>2. QED
      BY <1>2, <2>1, <3>1
  <2>3. CASE in.op # "schema"
    <3>1. new = NoSchema
      BY <2>3
    <3>2. QED
      BY <2>3, <3>1
  <2>4. QED
    BY <2>2, <2>3
<1>6. raced' \subseteq Schemas /\ raced \subseteq raced'
  BY <1>1, <1>2 DEF RegistryTypeOK
<1>7. schemas' \in [Schemas -> (SUBSET Keys) \cup {NoSchema}]
  BY <1>1, <1>2, <1>5 DEF RegistryTypeOK
<1>8. RegistryTypeOK'
  BY <1>1, <1>2, <1>4, <1>6, <1>7 DEF RegistryTypeOK, Table
<1>9. DanglingOnlyIfRaced'
  <2>1. ASSUME NEW n \in Names, rows[n] # NoRow, rows[n].meta # None, rows[n].meta \notin raced'
        PROVE  schemas'[rows[n].meta] # NoSchema /\ rows[n].uses \subseteq schemas'[rows[n].meta]
    <3>1. schemas[rows[n].meta] # NoSchema /\ rows[n].uses \subseteq schemas[rows[n].meta]
      BY <1>6, <2>1 DEF RegistryInv, DanglingOnlyIfRaced, Backed
    <3>2. CASE rows[n].meta # in.schema
      <4>1. rows[n].meta \in Schemas
        BY <1>2, <2>1 DEF RegistryTypeOK, Table, StoredRow
      <4>2. QED
        BY <1>1, <1>2, <3>1, <3>2, <4>1 DEF RegistryTypeOK
    <3>3. CASE rows[n].meta = in.schema
      <4>1. n \in Users(rows, in.schema) /\ ~InUse(in, rows)
        BY <1>1, <1>2, <1>6, <2>1, <3>3 DEF Users, RegistryInv, KnownInv, Known, Changing
      <4>2. /\ in.op = "schema"
            /\ UNION {rows[m].uses : m \in Users(rows, in.schema)} \subseteq in.keys
        BY <1>2, <4>1 DEF InUse
      <4>3. rows[n].uses \subseteq UNION {rows[m].uses : m \in Users(rows, in.schema)}
        BY <4>1
      <4>4. schemas'[in.schema] = in.keys /\ in.keys # NoSchema
        BY <1>1, <1>2, <1>5, <4>2 DEF RegistryTypeOK
      <4>5. QED
        BY <3>3, <4>2, <4>3, <4>4
    <3>4. QED
      BY <3>2, <3>3
  <2>2. QED
    BY <1>1, <2>1 DEF DanglingOnlyIfRaced, Backed
<1>10. DeletionSticks' /\ MaskOnlyAsCreated'
  BY <1>1 DEF RegistryInv, DeletionSticks, MaskOnlyAsCreated
<1>p. KnownInv'
  <2>1. ASSUME NEW q \in Slots, q # r, NEW s \in Schemas, Attaching(act[q], s), s \notin raced'
        PROVE  schemas'[s] # NoSchema /\ act[q].in.def.uses \subseteq schemas'[s]
    <3>1. s # in.schema
      BY <1>1, <2>1
    <3>2. schemas'[s] = schemas[s]
      BY <1>1, <1>2, <2>1, <3>1 DEF RegistryTypeOK
    <3>3. Backed(s, act[q].in.def.uses)
      BY <1>6, <2>1 DEF RegistryInv, KnownInv, Known
    <3>4. QED BY <3>2, <3>3 DEF Backed
  <2>2. ASSUME NEW q \in Slots, q # r PROVE Known(act[q])'
    <3>1. Known(act[q]) /\ act'[q] = act[q]
      BY <1>4, <2>2 DEF RegistryInv, KnownInv
    <3>2. QED BY <1>1, <1>6, <2>1, <2>2, <3>1 DEF Known, Attaching, Changing, Revealed, Backed
  <2>3. Known(act[r])'
    BY <1>3 DEF Known, Attaching, Changing, Revealed
  <2>4. QED BY <2>2, <2>3 DEF KnownInv
<1>11. Entries(rows)' = Entries(rows)
  BY <1>1 DEF Entries, Supported
<1>12. LiveInv'
  BY <1>1, <1>4, <1>11 DEF RegistryInv, LiveInv
<1>13. QED
  BY <1>4, <1>8, <1>9, <1>10, <1>p, <1>12 DEF RegistryInv

-----------------------------------------------------------------------------
\* What is left of the invariant when the tables, the slots and the snapshot stay.
LEMMA ElsewhereStep ==
  ASSUME RegistryInv, act' \in [Actors -> Handler], \A r \in Slots : act'[r] = act[r],
         act'["dispatch"].pc \in {"idle", "list", "install"}, act'["boot"].pc \in BootPcs, BootInv',
         marked' \in BOOLEAN, UNCHANGED <<rows, schemas, sql, snapshot, history>>
  PROVE  RegistryInv'
<1>1. RegistryTypeOK'
  BY DEF RegistryInv, RegistryTypeOK, history, Table
<1>2. HandlerInv'
  BY DEF RegistryInv, HandlerInv
<1>3. DeletionSticks' /\ DanglingOnlyIfRaced' /\ MaskOnlyAsCreated' /\ KnownInv'
  BY SlotsKnow DEF RegistryInv, DeletionSticks, DanglingOnlyIfRaced, Backed, MaskOnlyAsCreated, history
<1>4. Entries(rows)' = Entries(rows)
  BY DEF Entries, Supported
<1>5. LiveInv'
  BY <1>4 DEF RegistryInv, LiveInv, history
<1>6. QED
  BY <1>1, <1>2, <1>3, <1>5 DEF RegistryInv

LEMMA DispatchStep == ASSUME RegistryInv, Dispatch PROVE RegistryInv'
<1>1. Up /\ Wait("dispatch", "list") /\ UNCHANGED <<rows, schemas, marked, sql, snapshot, history>>
  BY DEF Dispatch
<1>2. "list" \in BootPcs \cup SlotPcs /\ act \in [Actors -> Handler]
  BY DEF BootPcs, RegistryInv, RegistryTypeOK
<1>3. /\ act' = [act EXCEPT !["dispatch"] = act'["dispatch"]] /\ act'["dispatch"] \in Handler
      /\ act'["dispatch"].pc = "list"
  BY <1>1, <1>2, ActorsAre, WaitFacts
<1>4. /\ act' \in [Actors -> Handler] /\ \A r \in Slots : act'[r] = act[r]
      /\ act'["boot"] = act["boot"]
  BY <1>2, <1>3, ActorsAre
<1>5. BootInv'
  BY <1>1, <1>4 DEF RegistryInv, BootInv, Up, history
<1>6. QED
  BY <1>1, <1>3, <1>4, <1>5, ElsewhereStep DEF RegistryInv, HandlerInv, RegistryTypeOK

LEMMA AgeStep == ASSUME RegistryInv, Age PROVE RegistryInv'
<1>1. UNCHANGED <<rows, schemas, marked, sql, snapshot, act, history>>
  BY DEF Age
<1>2. BootInv'
  BY <1>1 DEF RegistryInv, BootInv, Up, history
<1>3. QED
  BY <1>1, <1>2, ElsewhereStep DEF RegistryInv, HandlerInv, RegistryTypeOK

LEMMA ListStep == ASSUME RegistryInv, NEW a \in Actors, List(a) PROVE RegistryInv'
<1>1. /\ act[a].pc = "list" /\ act' = [act EXCEPT ![a].pc = "install", ![a].list = rows]
      /\ UNCHANGED <<rows, schemas, marked, sql, snapshot, history>>
  BY DEF List
<1>2. act \in [Actors -> Handler] /\ rows \in Table
  BY DEF RegistryInv, RegistryTypeOK
<1>3. "install" \in BootPcs \cup SlotPcs /\ "install" \in SlotPcs /\ "install" \in BootPcs
  BY DEF BootPcs, SlotPcs
<1>4. act' = [act EXCEPT ![a] = [act[a] EXCEPT !.pc = "install", !.list = rows]]
  BY <1>1, <1>2
<1>5. /\ act'[a] \in Handler /\ act'[a].pc = "install" /\ act'[a].in = act[a].in
      /\ act' = [act EXCEPT ![a] = act'[a]]
  BY <1>2, <1>3, <1>4 DEF Handler
<1>6. act' \in [Actors -> Handler] /\ \A b \in Actors : b # a => act'[b] = act[b]
  BY <1>2, <1>5
<1>7. CASE a \in Slots
  <2>1. Serving(act'[a]) /\ Known(act'[a]) /\ Up
    BY <1>1, <1>5, <1>7, BusyMeansUp DEF RegistryInv, HandlerInv, Serving, Known, Revealed, Attaching, Changing
  <2>2. SlotMoves(a)
    BY <1>3, <1>5, <2>1 DEF SlotMoves
  <2>3. QED
    BY <1>1, <1>5, <1>7, <2>2, QuietSlot
<1>8. CASE a \notin Slots
  <2>1. \A r \in Slots : act'[r] = act[r]
    BY <1>6, <1>8, ActorsAre
  <2>2. /\ BootInv' /\ act'["dispatch"].pc \in {"idle", "list", "install"}
        /\ act'["boot"].pc \in BootPcs
    <3>1. CASE a = "boot"
      <4>1. act'["dispatch"] = act["dispatch"]
        BY <1>6, <3>1, ActorsAre
      <4>2. QED
        BY <1>1, <1>3, <1>5, <2>1, <3>1, <4>1 DEF RegistryInv, HandlerInv, BootInv, Up, history
    <3>2. CASE a = "dispatch"
      <4>1. act'["boot"] = act["boot"]
        BY <1>6, <3>2, ActorsAre
      <4>2. QED
        BY <1>1, <1>5, <2>1, <3>2, <4>1 DEF RegistryInv, HandlerInv, BootInv, Up, history
    <3>3. QED
      BY <1>8, <3>1, <3>2, ActorsAre
  <2>3. QED
    BY <1>1, <1>6, <2>1, <2>2, ElsewhereStep DEF RegistryInv, RegistryTypeOK
<1>9. QED
  BY <1>7, <1>8

\* An answer of anybody but a slot.
LEMMA OtherAnswers ==
  ASSUME RegistryInv, NEW a \in Actors, a \notin Slots, Answer(a), marked' = marked, gone' = gone,
         act[a].pc \in {"list", "install"}, a = "boot" \/ snapshot' = snapshot \/ Up
  PROVE  /\ act' \in [Actors -> Handler] /\ \A r \in Slots : act'[r] = act[r]
         /\ HandlerInv' /\ BootInv'
<1>1. act \in [Actors -> Handler]
  BY DEF RegistryInv, RegistryTypeOK
<1>2. /\ act' = [act EXCEPT ![a] = act'[a]] /\ act'[a] \in Handler /\ act'[a].pc = Rest(a)
  BY <1>1, AnswerFacts
<1>3. act' \in [Actors -> Handler] /\ \A b \in Actors : b # a => act'[b] = act[b]
  BY <1>1, <1>2
<1>4. \A r \in Slots : act'[r] = act[r]
  BY <1>3, ActorsAre
<1>5. CASE a = "boot"
  <2>1. act'["dispatch"] = act["dispatch"] /\ act'["boot"].pc = "up"
    BY <1>2, <1>3, <1>5, ActorsAre DEF Rest
  <2>2. HandlerInv'
    BY <1>4, <2>1 DEF RegistryInv, HandlerInv, BootPcs
  <2>3. BootInv'
    BY <1>5, <2>1 DEF RegistryInv, BootInv, Up
  <2>4. QED
    BY <1>3, <1>4, <2>2, <2>3
<1>6. CASE a = "dispatch"
  <2>1. act'["boot"] = act["boot"] /\ act'["dispatch"].pc = "idle"
    BY <1>2, <1>3, <1>6, ActorsAre DEF Rest
  <2>2. HandlerInv'
    BY <1>4, <2>1 DEF RegistryInv, HandlerInv
  <2>3. Up
    BY <1>6 DEF RegistryInv, BootInv
  <2>4. BootInv'
    BY <2>1, <2>3 DEF RegistryInv, BootInv, Up
  <2>5. QED
    BY <1>3, <1>4, <2>2, <2>4
<1>7. QED
  BY <1>5, <1>6, ActorsAre

\* A refresh says itself whether it is behind the table.
LEMMA InstallStep == ASSUME RegistryInv, NEW a \in Actors, Install(a) PROVE RegistryInv'
<1>1. /\ act[a].pc = "install" /\ snapshot' = Entries(act[a].list) /\ Answer(a)
      /\ behind' = (Entries(act[a].list) # Entries(rows))
      /\ UNCHANGED <<rows, schemas, marked, sql, gone, masked, raced>>
  BY DEF Install
<1>2. Entries(rows)' = Entries(rows)
  BY <1>1 DEF Entries, Supported
<1>3. LiveInv' /\ behind' \in BOOLEAN
  BY <1>1, <1>2 DEF LiveInv
<1>4. /\ act' \in [Actors -> Handler] /\ HandlerInv' /\ BootInv'
      /\ \A r \in Slots : act'[r] = act[r] \/ act'[r].pc \in {"idle", "answered"}
  <2>1. CASE a \in Slots
    <3>1. RegistryTypeOK /\ Up
      BY <1>1, <2>1, BusyMeansUp DEF RegistryInv
    <3>2. SlotMoves(a) /\ act'[a].pc = "answered"
      BY <1>1, <2>1, <3>1, SlotAnswers
    <3>3. /\ act' \in [Actors -> Handler] /\ HandlerInv' /\ BootInv'
          /\ \A q \in Slots : q # a => act'[q] = act[q]
      BY <1>1, <2>1, <3>2, SlotFacts DEF RegistryInv
    <3>4. QED
      BY <3>2, <3>3
  <2>2. CASE a \notin Slots
    <3>1. a = "boot" \/ Up
      BY <1>1, <2>2, ActorsAre DEF RegistryInv, BootInv
    <3>2. QED
      BY <1>1, <2>2, <3>1, OtherAnswers
  <2>3. QED
    BY <2>1, <2>2
<1>5. DeletionSticks' /\ DanglingOnlyIfRaced' /\ MaskOnlyAsCreated' /\ KnownInv'
  BY <1>1, <1>4, SlotsKnow DEF RegistryInv, DeletionSticks, DanglingOnlyIfRaced, Backed, MaskOnlyAsCreated
<1>6. RegistryTypeOK'
  BY <1>1, <1>3, <1>4 DEF RegistryInv, RegistryTypeOK, Table
<1>7. QED
  BY <1>3, <1>4, <1>5, <1>6 DEF RegistryInv

LEMMA FailStep == ASSUME RegistryInv, NEW a \in Actors, Fail(a) PROVE RegistryInv'
<1>1. /\ act[a].pc \notin {"idle", "answered", "install"} /\ a # "boot" /\ Answer(a)
      /\ behind' = (behind \/ (a \in Slots /\ act[a].pc = "list"))
      /\ UNCHANGED <<rows, schemas, marked, sql, snapshot, gone, masked, raced>>
  BY DEF Fail
<1>2. Entries(rows)' = Entries(rows)
  BY <1>1 DEF Entries, Supported
<1>3. /\ act' \in [Actors -> Handler] /\ HandlerInv' /\ BootInv'
      /\ \A r \in Slots : act'[r] = act[r] \/ (r = a /\ act'[r].pc \in {"idle", "answered"})
  <2>1. CASE a \in Slots
    <3>1. RegistryTypeOK /\ Up
      BY <1>1, <2>1, BusyMeansUp DEF RegistryInv
    <3>2. SlotMoves(a) /\ act'[a].pc = "answered"
      BY <1>1, <2>1, <3>1, SlotAnswers
    <3>3. /\ act' \in [Actors -> Handler] /\ HandlerInv' /\ BootInv'
          /\ \A q \in Slots : q # a => act'[q] = act[q]
      BY <1>1, <2>1, <3>2, SlotFacts DEF RegistryInv
    <3>4. QED
      BY <3>2, <3>3
  <2>2. CASE a \notin Slots
    <3>1. act[a].pc \in {"list", "install"}
      BY <1>1, <2>2, ActorsAre DEF RegistryInv, HandlerInv
    <3>2. QED
      BY <1>1, <2>2, <3>1, OtherAnswers
  <2>3. QED
    BY <2>1, <2>2
<1>4. DeletionSticks' /\ DanglingOnlyIfRaced' /\ MaskOnlyAsCreated' /\ KnownInv'
  BY <1>1, <1>3, SlotsKnow DEF RegistryInv, DeletionSticks, DanglingOnlyIfRaced, Backed, MaskOnlyAsCreated
<1>5. behind' \in BOOLEAN
  BY <1>1 DEF RegistryInv, RegistryTypeOK
<1>6. RegistryTypeOK'
  BY <1>1, <1>3, <1>5 DEF RegistryInv, RegistryTypeOK, Table
<1>7. LiveInv'
  BY <1>1, <1>2, <1>3 DEF RegistryInv, LiveInv
<1>8. QED
  BY <1>3, <1>4, <1>6, <1>7 DEF RegistryInv

-----------------------------------------------------------------------------
LEMMA BootWaits ==
  ASSUME RegistryInv, NEW pc \in BootPcs, pc # "up", Wait("boot", pc), act["boot"].pc # "up",
         marked' \in BOOLEAN, marked => marked',
         pc \in {"seed", "mark"} => ~marked', pc \in {"list", "install"} => marked',
         UNCHANGED <<rows, schemas, sql, snapshot, history>>
  PROVE  RegistryInv'
<1>1. act \in [Actors -> Handler]
  BY DEF RegistryInv, RegistryTypeOK
<1>2. /\ act' = [act EXCEPT !["boot"] = act'["boot"]] /\ act'["boot"] \in Handler
      /\ act'["boot"].pc = pc
  BY <1>1, ActorsAre, WaitFacts
<1>3. /\ act' \in [Actors -> Handler] /\ \A r \in Slots : act'[r] = act[r]
      /\ act'["dispatch"] = act["dispatch"]
  BY <1>1, <1>2, ActorsAre
<1>4. BootInv'
  BY <1>2, <1>3 DEF RegistryInv, BootInv, Up, history
<1>5. QED
  BY <1>2, <1>3, <1>4, ElsewhereStep DEF RegistryInv, HandlerInv

LEMMA BootCheckStep == ASSUME RegistryInv, BootCheck PROVE RegistryInv'
<1> DEFINE pc == IF marked THEN "list"
                 ELSE IF \A n \in DOMAIN rows : rows[n] = NoRow THEN "seed" ELSE "mark"
<1>1. /\ act["boot"].pc = "seeded?" /\ Wait("boot", pc)
      /\ UNCHANGED <<rows, schemas, marked, sql, snapshot, history>>
  BY DEF BootCheck, SeedDone
<1>2. /\ pc \in BootPcs /\ pc # "up" /\ (pc \in {"seed", "mark"} => ~marked)
      /\ (pc \in {"list", "install"} => marked)
  BY DEF BootPcs
<1> HIDE DEF pc
<1>3. QED
  BY <1>1, <1>2, BootWaits DEF RegistryInv, RegistryTypeOK

LEMMA SeededStep == ASSUME RegistryInv, Seeded PROVE RegistryInv'
<1>1. /\ act["boot"].pc = "seed" /\ Wait("boot", "mark")
      /\ UNCHANGED <<rows, schemas, marked, sql, snapshot, history>>
  BY DEF Seeded
<1>2. "mark" \in BootPcs /\ ~marked /\ marked \in BOOLEAN
  BY <1>1 DEF BootPcs, RegistryInv, BootInv, RegistryTypeOK
<1>3. QED
  BY <1>1, <1>2, BootWaits

LEMMA MarkSeededStep == ASSUME RegistryInv, MarkSeeded PROVE RegistryInv'
<1>1. /\ act["boot"].pc = "mark" /\ Wait("boot", "list")
      /\ marked' = TRUE /\ UNCHANGED <<rows, schemas, sql, snapshot, history>>
  BY DEF MarkSeeded
<1>2. "list" \in BootPcs
  BY DEF BootPcs
<1>3. QED
  BY <1>1, <1>2, BootWaits

\* The seed fills an empty place of a table nobody has deleted from.
LEMMA SeedStep == ASSUME RegistryInv, NEW n \in Names, Seed(n) PROVE RegistryInv'
<1> DEFINE new == Row("atlas", Field, TRUE)
<1>1. /\ act["boot"].pc = "seed" /\ rows[n] = NoRow /\ rows' = [rows EXCEPT ![n] = new]
      /\ UNCHANGED <<schemas, marked, sql, snapshot, act, history>>
  BY DEF Seed
<1>2. Field \in Definition /\ Field.secret = None /\ Field.meta = None
  BY DEF Field, Definition
<1>3. new \in StoredRow /\ new.secret = None /\ new.meta = None
  BY <1>2, RowFacts
<1> HIDE DEF new
<1>4. snapshot = Null /\ gone = {}
  BY <1>1 DEF RegistryInv, BootInv, Up
<1>5. /\ rows \in Table /\ rows' \in Table /\ rows'[n] = new
      /\ \A m \in Names : m # n => rows'[m] = rows[m]
  BY <1>1, <1>3 DEF RegistryInv, RegistryTypeOK, Table
<1>6. RegistryTypeOK' /\ HandlerInv' /\ BootInv'
  BY <1>1, <1>5 DEF RegistryInv, RegistryTypeOK, HandlerInv, BootInv, Up, history
<1>7. DeletionSticks' /\ LiveInv'
  BY <1>1, <1>4 DEF DeletionSticks, LiveInv, history
<1>8. MaskOnlyAsCreated'
  BY <1>1, <1>3, <1>5 DEF RegistryInv, MaskOnlyAsCreated, history, None, Mask
<1>9. DanglingOnlyIfRaced'
  BY <1>1, <1>3, <1>5 DEF RegistryInv, DanglingOnlyIfRaced, Backed, history
<1>10. KnownInv'
  <2>1. \A q \in Slots : act[q].pc \in {"idle", "answered"}
    BY <1>1 DEF RegistryInv, BootInv, Up
  <2>2. QED BY <1>1, <2>1 DEF KnownInv, Known, Attaching, Changing, Revealed
<1>11. QED
  BY <1>6, <1>7, <1>8, <1>9, <1>10 DEF RegistryInv

LEMMA CrashStep == ASSUME RegistryInv, Crash PROVE RegistryInv'
<1> DEFINE h(a) == IF a = "boot" THEN [Idle EXCEPT !.pc = "seeded?"]
                   ELSE IF a \in Slots /\ act[a].pc # "idle" THEN [Idle EXCEPT !.pc = "answered"]
                   ELSE Idle
<1>1. /\ snapshot' = Null /\ behind' = FALSE /\ act' = [a \in Actors |-> h(a)]
      /\ UNCHANGED <<rows, schemas, marked, sql, gone, masked, raced>>
  BY DEF Crash
<1>2. /\ "seeded?" \in BootPcs \cup SlotPcs /\ "answered" \in BootPcs \cup SlotPcs
      /\ "idle" \in SlotPcs /\ "answered" \in SlotPcs /\ "seeded?" \in BootPcs
  BY DEF BootPcs, SlotPcs
<1>3. ASSUME NEW a \in Actors
      PROVE  /\ h(a) \in Handler /\ h(a).in = [op |-> None]
             /\ a = "boot" => h(a).pc = "seeded?"
             /\ a # "boot" => h(a).pc \in {"idle", "answered"}
             /\ a = "dispatch" => h(a).pc = "idle"
  BY <1>2, IdleIs, ActorsAre DEF Handler
<1>4. \A a \in Actors : act'[a] = h(a)
  BY <1>1
<1> HIDE DEF h
<1>5. act' \in [Actors -> Handler]
  BY <1>1, <1>3
<1>6. /\ act'["boot"].pc = "seeded?" /\ act'["dispatch"].pc = "idle"
      /\ \A r \in Slots : act'[r].pc \in {"idle", "answered"} /\ act'[r].in = [op |-> None]
  BY <1>3, <1>4, ActorsAre
<1>7. \A r \in Slots : Serving(act'[r])
  BY <1>6, IdleServes
<1>8. HandlerInv'
  BY <1>2, <1>6, <1>7 DEF HandlerInv
<1>9. BootInv'
  BY <1>1, <1>6 DEF RegistryInv, BootInv, Up
<1>10. RegistryTypeOK'
  BY <1>1, <1>5 DEF RegistryInv, RegistryTypeOK, Table
<1>11. DeletionSticks' /\ LiveInv' /\ DanglingOnlyIfRaced' /\ MaskOnlyAsCreated' /\ KnownInv'
  BY <1>1, <1>6, SlotsKnow DEF RegistryInv, DeletionSticks, LiveInv, DanglingOnlyIfRaced, Backed,
     MaskOnlyAsCreated
<1>12. QED
  BY <1>8, <1>9, <1>10, <1>11 DEF RegistryInv

LEMMA RegistryStep == RegistryInv /\ [Next]_vars => RegistryInv'
<1> SUFFICES ASSUME RegistryInv, [Next]_vars PROVE RegistryInv'
  OBVIOUS
<1>1. ASSUME NEW r \in Slots,
             \/ \E in \in Inputs : Receive(r, in)
             \/ Read(r) \/ ReadTarget(r) \/ CheckMeta(r)
             \/ Insert(r) \/ Again(r) \/ Write(r) \/ Remove(r)
             \/ SchemaRead(r) \/ SchemaUsage(r) \/ SchemaWrite(r)
      PROVE  RegistryInv'
  BY <1>1, ReceiveStep, ReadStep, ReadTargetStep, CheckMetaStep, InsertStep, AgainStep,
     WriteStep,
     RemoveStep, SchemaReadStep, SchemaUsageStep, SchemaWriteStep
<1>2. ASSUME NEW a \in Actors, List(a) \/ Install(a) \/ Fail(a) PROVE RegistryInv'
  BY <1>2, ListStep, InstallStep, FailStep
<1>3. CASE Dispatch \/ Age
  BY <1>3, DispatchStep, AgeStep
<1>4. CASE BootCheck \/ (\E n \in Names : Seed(n)) \/ Seeded \/ MarkSeeded
  BY <1>4, BootCheckStep, SeedStep, SeededStep, MarkSeededStep
<1>5. CASE Crash
  BY <1>5, CrashStep
<1>6. CASE UNCHANGED vars
  <2>1. UNCHANGED <<rows, schemas, marked, sql, snapshot, act, history>>
    BY <1>6 DEF vars
  <2>2. BootInv'
    BY <2>1 DEF RegistryInv, BootInv, Up, history
  <2>3. QED
    BY <2>1, <2>2, ElsewhereStep DEF RegistryInv, HandlerInv, RegistryTypeOK
<1>7. QED
  BY <1>1, <1>2, <1>3, <1>4, <1>5, <1>6 DEF Next

LEMMA RegistryInit == Init => RegistryInv
<1> SUFFICES ASSUME Init PROVE RegistryInv
  OBVIOUS
<1> DEFINE seed == Row("atlas", Field, TRUE)
<1>1. Field \in Definition /\ Field.secret = None /\ Field.meta = None
  BY DEF Field, Definition
<1>2. seed \in StoredRow /\ seed.secret = None /\ seed.meta = None
  BY <1>1, RowFacts
<1>3. ASSUME NEW x \in Earlier PROVE x \in StoredRow /\ x.secret # Mask /\ x.meta = None
  <2>1. PICK s \in Secrets : x = Row("atlas", [Field EXCEPT !.source = "api", !.secret = s, !.saved = TRUE], TRUE)
    BY <1>3 DEF Earlier
  <2> DEFINE d == [Field EXCEPT !.source = "api", !.secret = s, !.saved = TRUE]
  <2>2. d \in Definition /\ d.secret = s /\ d.meta = None
    BY DEF Field, Definition
  <2>3. x = Row("atlas", d, TRUE)
    BY <2>1
  <2> HIDE DEF d
  <2>4. QED
    BY <2>2, <2>3, RowFacts, ValueAssumption
<1>4. rows \in [Names \cup SystemNames -> {NoRow, seed} \cup Earlier]
  BY DEF Init
<1> HIDE DEF seed
<1>5. rows \in Table
  BY <1>2, <1>3, <1>4 DEF Table
<1>6. \A n \in Names : rows[n] # NoRow => rows[n].secret # Mask /\ rows[n].meta = None
  BY <1>2, <1>3, <1>4 DEF None, Mask
<1>7. /\ schemas \in [Schemas -> {NoSchema, Keys}] /\ marked \in BOOLEAN /\ snapshot = Null
      /\ gone = (IF marked THEN {n \in Names : rows[n] = NoRow} ELSE {})
      /\ masked = {} /\ raced = {} /\ behind = FALSE
      /\ act = [a \in Actors |-> IF a = "boot" THEN [Idle EXCEPT !.pc = "seeded?"] ELSE Idle]
  BY DEF Init
<1>8. [Idle EXCEPT !.pc = "seeded?"] \in Handler /\ [Idle EXCEPT !.pc = "seeded?"].pc = "seeded?"
  <2>1. "seeded?" \in BootPcs \cup SlotPcs
    BY DEF BootPcs
  <2>2. QED
    BY <2>1, IdleIs DEF Handler
<1>9. /\ act \in [Actors -> Handler] /\ act["boot"].pc = "seeded?" /\ act["dispatch"] = Idle
      /\ \A r \in Slots : act[r] = Idle
  BY <1>7, <1>8, IdleIs, ActorsAre
<1>10. RegistryTypeOK
  <2>1. schemas \in [Schemas -> (SUBSET Keys) \cup {NoSchema}]
    <3>1. {NoSchema, Keys} \subseteq (SUBSET Keys) \cup {NoSchema}
      OBVIOUS
    <3>2. QED
      BY <1>7, <3>1
  <2>2. gone \subseteq Names
    BY <1>7
  <2>3. QED
    BY <1>5, <1>7, <1>9, <2>1, <2>2 DEF RegistryTypeOK
<1>11. Serving(Idle) /\ Known(Idle)
  BY IdleIs, IdleServes
<1>12. HandlerInv
  BY <1>9, <1>11, IdleIs DEF HandlerInv, BootPcs, SlotPcs
<1>13. BootInv
  BY <1>7, <1>9, IdleIs DEF BootInv, Up
<1>14. DeletionSticks /\ LiveInv
  BY <1>7 DEF DeletionSticks, LiveInv
<1>15. MaskOnlyAsCreated /\ DanglingOnlyIfRaced /\ KnownInv
  BY <1>6, <1>9, <1>11 DEF KnownInv, MaskOnlyAsCreated, DanglingOnlyIfRaced
<1>16. QED
  BY <1>10, <1>12, <1>13, <1>14, <1>15 DEF RegistryInv

LEMMA RegistryFacts ==
  RegistryInv => DeletionSticks /\ LiveUnlessRaced /\ MaskOnlyAsCreated /\ DanglingOnlyIfRaced
<1>1. LiveInv => LiveUnlessRaced
  BY ActorsAre DEF LiveInv, LiveUnlessRaced
<1>2. QED
  BY <1>1 DEF RegistryInv

\* What an operator deleted stays deleted, the snapshot is that of the table unless
\* a refresh is to come or raced, a mask is stored only where the console created one,
\* and an attachment dangles only if a check and a write of its schema overlapped,
\* however requests, refreshes, failures and restarts overlap.
THEOREM VariablesCorrect ==
  Spec => [](DeletionSticks /\ LiveUnlessRaced /\ MaskOnlyAsCreated /\ DanglingOnlyIfRaced)
BY RegistryInit, RegistryStep, RegistryFacts, PTL DEF Spec

LEMMA RegistryAlways == MCSpec => []RegistryInv
<1>1. MCInit => RegistryInv
  BY RegistryInit DEF MCInit
<1>2. [MCNext]_<<part, vars, forward>> => [Next]_vars
  BY DEF MCNext
<1>3. QED
  BY <1>1, <1>2, RegistryStep, PTL DEF MCSpec

\* The same of the instance the runs check: deletions stick, the snapshot is live
\* short of a race, and no mask takes the place of a secret (variables/service.ts,
\* redaction.ts).
THEOREM RegistryCorrect == MCSpec => []RegistryHolds
<1>1. RegistryInv => RegistryHolds
  BY RegistryFacts DEF RegistryHolds
<1>2. QED BY <1>1, RegistryAlways, PTL

\* And no attachment dangles unless a check and a write of its schema overlapped
\* (call-metadata.controller.ts).
THEOREM AttachmentsCorrect == MCSpec => []AttachmentsHold
<1>1. RegistryInv => AttachmentsHold
  BY RegistryFacts DEF AttachmentsHold
<1>2. QED BY <1>1, RegistryAlways, PTL

-----------------------------------------------------------------------------
(* The isolating forwarder.                                                  *)

LEMMA SizesAreNat == N \in Nat /\ MaxRetries \in Nat /\ MaxDown \in Nat
BY SettlingAssumption DEF F!SizeAssumption

\* The instance counts with its own copy of FiniteSets.
LEMMA SameCardinality == \A S : F!Cardinality(S) = Cardinality(S)
BY DEF F!Cardinality, Cardinality

ForwardTypeOK ==
  /\ kind \in [F!Receipt -> F!Kinds]
  /\ endpoint \in F!Endpoints
  /\ todo \in Seq(F!Receipt \X F!Receipt)
  /\ attempt \in Nat /\ down \in Nat
  /\ accepted \in Seq(F!Receipt)
  /\ rejected \subseteq F!Receipt /\ failed \subseteq F!Receipt
  /\ done \in BOOLEAN

\* The batches left are intervals, each wholly before the next.
Stacked(stack) ==
  /\ \A k \in 1 .. Len(stack) : stack[k][1] <= stack[k][2]
  /\ \A j, k \in 1 .. Len(stack) : j < k => stack[j][2] < stack[k][1]

\* What was accepted precedes everything still to be forwarded.
AcceptedFirst ==
  \A i \in 1 .. Len(accepted) : \A k \in 1 .. Len(todo) : accepted[i] < todo[k][1]

\* Every receipt is in one place.
OnePlace ==
  /\ F!Receipt = F!Pending \cup F!ToSet(accepted) \cup rejected \cup failed
  /\ F!Pending \cap (F!ToSet(accepted) \cup rejected \cup failed) = {}
  /\ F!ToSet(accepted) \cap (rejected \cup failed) = {} /\ rejected \cap failed = {}

\* What an acceptance, a refusal and a failure say of the receipt.
Judged ==
  /\ \A i \in F!ToSet(accepted) : endpoint = "right" /\ kind[i] = "good"
  /\ \A i \in rejected : endpoint = "right" => kind[i] # "good"
  /\ down = 0 /\ endpoint = "right" => \A i \in failed : kind[i] # "good"

ForwardInv ==
  /\ Stacked(todo) /\ AcceptedFirst /\ F!AcceptedInOrder
  /\ OnePlace /\ Judged
  /\ done => todo = <<>>
  /\ F!GoodNeverRejected

LEMMA CoveredBy ==
  ASSUME NEW S, NEW s \in Seq(S), NEW x
  PROVE  x \in UNION {b[1] .. b[2] : b \in F!ToSet(s)} <=> \E k \in 1 .. Len(s) : x \in s[k][1] .. s[k][2]
BY DEF F!ToSet

\* The head of the stack and the rest of it.
LEMMA HeadAndTail ==
  ASSUME NEW S, NEW s \in Seq(S), s # <<>>
  PROVE  /\ Head(s) = s[1] /\ Head(s) \in S /\ 1 \in 1 .. Len(s)
         /\ Tail(s) \in Seq(S) /\ Len(Tail(s)) = Len(s) - 1
         /\ \A k \in 1 .. Len(Tail(s)) : k + 1 \in 1 .. Len(s) /\ Tail(s)[k] = s[k + 1]
OBVIOUS

\* What a split makes of the stack.
LEMMA TwoForOne ==
  ASSUME NEW S, NEW s \in Seq(S), s # <<>>, NEW a \in S, NEW b \in S
  PROVE  LET u == <<a, b>> \o Tail(s) IN
         /\ u \in Seq(S) /\ Len(u) = Len(s) + 1 /\ u[1] = a /\ u[2] = b
         /\ \A k \in 3 .. Len(u) : k - 1 \in 2 .. Len(s) /\ u[k] = s[k - 1]
<1>1. Tail(s) \in Seq(S) /\ Len(Tail(s)) = Len(s) - 1 /\ <<a, b>> \in Seq(S)
  OBVIOUS
<1>2. \A k \in 1 .. Len(Tail(s)) : Tail(s)[k] = s[k + 1]
  OBVIOUS
<1>3. QED
  BY <1>1, <1>2

LEMMA ElementsOf ==
  ASSUME NEW S, NEW s \in Seq(S)
  PROVE  F!ToSet(s) = {s[i] : i \in 1 .. Len(s)}
BY DEF F!ToSet

LEMMA ElementsOfBoth ==
  ASSUME NEW S, NEW s \in Seq(S), NEW t \in Seq(S)
  PROVE  F!ToSet(s \o t) = F!ToSet(s) \cup F!ToSet(t)
<1>1. Len(s \o t) = Len(s) + Len(t) /\ s \o t \in Seq(S) /\ Len(s) \in Nat /\ Len(t) \in Nat
  OBVIOUS
<1>2. \A i \in 1 .. Len(s) : (s \o t)[i] = s[i] /\ i \in 1 .. Len(s \o t)
  BY <1>1
<1>3. \A i \in 1 .. Len(t) : (s \o t)[Len(s) + i] = t[i] /\ Len(s) + i \in 1 .. Len(s \o t)
  BY <1>1
<1>4. \A i \in 1 .. Len(s \o t) : i \in 1 .. Len(s) \/ \E j \in 1 .. Len(t) : i = Len(s) + j
  <2>1. ASSUME NEW i \in 1 .. Len(s \o t), ~(i \in 1 .. Len(s))
        PROVE  \E j \in 1 .. Len(t) : i = Len(s) + j
    <3>1. i - Len(s) \in 1 .. Len(t) /\ i = Len(s) + (i - Len(s))
      BY <1>1, <2>1
    <3>2. QED
      BY <3>1
  <2>2. QED
    BY <2>1
<1>5. ASSUME NEW x PROVE x \in F!ToSet(s \o t) <=> x \in F!ToSet(s) \/ x \in F!ToSet(t)
  <2>1. /\ x \in F!ToSet(s \o t) <=> \E i \in 1 .. Len(s \o t) : x = (s \o t)[i]
        /\ x \in F!ToSet(s) <=> \E i \in 1 .. Len(s) : x = s[i]
        /\ x \in F!ToSet(t) <=> \E i \in 1 .. Len(t) : x = t[i]
    BY <1>1, ElementsOf, Zenon
  <2>2. ASSUME x \in F!ToSet(s \o t) PROVE x \in F!ToSet(s) \/ x \in F!ToSet(t)
    <3>1. PICK i \in 1 .. Len(s \o t) : x = (s \o t)[i]
      BY <2>1, <2>2
    <3>2. QED
      BY <1>2, <1>3, <1>4, <2>1, <3>1
  <2>3. ASSUME x \in F!ToSet(s) \/ x \in F!ToSet(t) PROVE x \in F!ToSet(s \o t)
    BY <1>2, <1>3, <2>1, <2>3
  <2>4. QED
    BY <2>2, <2>3
<1>6. QED
  BY <1>5

\* The next batch leaves the stack.
LEMMA Served ==
  ASSUME ForwardTypeOK, ForwardInv, F!Waiting, todo' = Tail(todo)
  PROVE  /\ todo' \in Seq(F!Receipt \X F!Receipt) /\ Stacked(todo')
         /\ F!Batch \subseteq F!Receipt /\ F!Pending = F!Batch \cup F!Pending'
         /\ F!Batch \cap F!Pending' = {}
         /\ \A x \in F!Batch : \A k \in 1 .. Len(todo') : x < todo'[k][1]
         /\ \A k \in 1 .. Len(todo') : k + 1 \in 1 .. Len(todo) /\ todo'[k] = todo[k + 1]
<1> DEFINE R == F!Receipt \X F!Receipt
<1>1. todo \in Seq(R) /\ todo # <<>> /\ N \in Nat
  BY SizesAreNat DEF ForwardTypeOK, F!Waiting
<1>2. /\ Head(todo) = todo[1] /\ Head(todo) \in R /\ 1 \in 1 .. Len(todo)
      /\ todo' \in Seq(R) /\ Len(todo') = Len(todo) - 1
      /\ \A k \in 1 .. Len(todo') : k + 1 \in 1 .. Len(todo) /\ todo'[k] = todo[k + 1]
  BY <1>1, HeadAndTail
<1>3. Len(todo) \in Nat /\ \A k \in 1 .. Len(todo) : todo[k] \in R
  BY <1>1
<1>4. Stacked(todo')
  BY <1>2, <1>3 DEF ForwardInv, Stacked
<1>5. F!Batch = todo[1][1] .. todo[1][2] /\ F!Batch \subseteq F!Receipt
  BY <1>1, <1>2 DEF F!Batch, F!Receipt
<1>6. \A k \in 1 .. Len(todo') : todo[1][2] < todo'[k][1]
  BY <1>2, <1>3 DEF ForwardInv, Stacked
<1>7. \A x \in F!Batch : \A k \in 1 .. Len(todo') : x < todo'[k][1]
  BY <1>2, <1>3, <1>5, <1>6 DEF F!Receipt
<1>8. ASSUME NEW x
      PROVE  x \in F!Pending' <=> \E k \in 1 .. Len(todo') : x \in todo'[k][1] .. todo'[k][2]
  BY <1>2, CoveredBy DEF F!Pending
<1>9. ASSUME NEW x PROVE x \in F!Pending <=> x \in F!Batch \/ x \in F!Pending'
  <2>1. \A k \in 1 .. Len(todo) : k = 1 \/ \E j \in 1 .. Len(todo') : k = j + 1
    <3>1. ASSUME NEW k \in 1 .. Len(todo), k # 1
          PROVE  k - 1 \in 1 .. Len(todo') /\ k = (k - 1) + 1
      BY <1>2, <1>3, <3>1
    <3>2. QED
      BY <3>1
  <2>2. x \in F!Pending <=> \E k \in 1 .. Len(todo) : x \in todo[k][1] .. todo[k][2]
    BY <1>1, CoveredBy DEF F!Pending
  <2>3. ASSUME x \in F!Pending PROVE x \in F!Batch \/ x \in F!Pending'
    <3>1. PICK k \in 1 .. Len(todo) : x \in todo[k][1] .. todo[k][2]
      BY <2>2, <2>3
    <3>2. CASE k = 1
      BY <1>5, <3>1, <3>2
    <3>3. CASE k # 1
      <4>1. PICK j \in 1 .. Len(todo') : k = j + 1
        BY <2>1, <3>3
      <4>2. x \in todo'[j][1] .. todo'[j][2]
        BY <1>2, <3>1, <4>1
      <4>3. QED
        BY <1>8, <4>2
    <3>4. QED
      BY <3>2, <3>3
  <2>4. ASSUME x \in F!Batch PROVE x \in F!Pending
    BY <1>2, <1>5, <2>2, <2>4
  <2>5. ASSUME x \in F!Pending' PROVE x \in F!Pending
    BY <1>2, <1>8, <2>2, <2>5
  <2>6. QED
    BY <2>3, <2>4, <2>5
<1>10. F!Batch \cap F!Pending' = {}
  <2>1. ASSUME NEW x \in F!Batch, x \in F!Pending' PROVE FALSE
    <3>1. PICK k \in 1 .. Len(todo') : x \in todo'[k][1] .. todo'[k][2]
      BY <1>8, <2>1
    <3>2. x < todo'[k][1] /\ x \in Nat /\ todo'[k] \in R
      BY <1>2, <1>3, <1>5, <1>7, <2>1, <3>1 DEF F!Receipt
    <3>3. QED
      BY <3>1, <3>2 DEF F!Receipt
  <2>2. QED
    BY <2>1
<1>11. F!Pending = F!Batch \cup F!Pending'
  BY <1>9
<1>12. QED
  BY <1>2, <1>4, <1>5, <1>7, <1>10, <1>11

\* ... and what it becomes is neither accepted nor in two places.
LEMMA ServedAside ==
  ASSUME ForwardTypeOK, ForwardInv, F!Waiting, todo' = Tail(todo), accepted' = accepted
  PROVE  AcceptedFirst' /\ F!AcceptedInOrder'
<1>1. \A k \in 1 .. Len(todo') : k + 1 \in 1 .. Len(todo) /\ todo'[k] = todo[k + 1]
  BY Served
<1>2. QED
  BY <1>1 DEF ForwardInv, AcceptedFirst, F!AcceptedInOrder

LEMMA AcceptStep == ASSUME ForwardTypeOK, ForwardInv, F!Accept PROVE ForwardTypeOK' /\ ForwardInv'
<1> DEFINE lo == Head(todo)[1]  hi == Head(todo)[2]  more == F!Sorted(lo, hi)
<1>1. /\ F!Waiting /\ endpoint = "right" /\ \A i \in F!Batch : kind[i] = "good"
      /\ accepted' = accepted \o more /\ todo' = Tail(todo)
  BY DEF F!Accept, F!Answered
<1>2. UNCHANGED <<kind, endpoint, down, done, rejected, failed>> /\ attempt' = 0
  BY DEF F!Accept, F!Answered
<1>3. lo \in F!Receipt /\ hi \in F!Receipt /\ lo <= hi /\ N \in Nat /\ F!Batch = lo .. hi
  BY <1>1, HeadAndTail, SizesAreNat DEF ForwardTypeOK, ForwardInv, Stacked, F!Waiting, F!Batch
<1>4. /\ more \in Seq(F!Receipt) /\ Len(more) = hi - lo + 1
      /\ \A i \in 1 .. Len(more) : more[i] = lo + i - 1 /\ more[i] \in F!Batch
  <2>1. more = [i \in 1 .. (hi - lo + 1) |-> lo + i - 1]
    BY DEF F!Sorted
  <2>2. /\ hi - lo + 1 \in Nat
        /\ \A i \in 1 .. (hi - lo + 1) : lo + i - 1 \in lo .. hi /\ lo + i - 1 \in F!Receipt
    BY <1>3 DEF F!Receipt
  <2>3. QED
    BY <1>3, <2>1, <2>2
<1>5. F!ToSet(more) = F!Batch
  <2>1. F!ToSet(more) = {more[i] : i \in 1 .. Len(more)}
    BY <1>4, ElementsOf
  <2>2. \A x \in lo .. hi : x - lo + 1 \in 1 .. (hi - lo + 1) /\ lo + (x - lo + 1) - 1 = x
    BY <1>3 DEF F!Receipt
  <2>3. \A x \in F!Batch : \E i \in 1 .. Len(more) : more[i] = x
    BY <1>3, <1>4, <2>2
  <2>4. QED
    BY <1>4, <2>1, <2>3
<1>6. /\ accepted \in Seq(F!Receipt) /\ accepted' \in Seq(F!Receipt)
      /\ F!ToSet(accepted') = F!ToSet(accepted) \cup F!Batch
  BY <1>1, <1>4, <1>5, ElementsOfBoth DEF ForwardTypeOK
<1>7. \A i \in 1 .. Len(accepted) : \A x \in F!Batch : accepted[i] < x
  <2>1. ASSUME NEW i \in 1 .. Len(accepted), NEW x \in F!Batch PROVE accepted[i] < x
    <3>1. Head(todo) = todo[1] /\ 1 \in 1 .. Len(todo)
      BY <1>1, HeadAndTail DEF ForwardTypeOK, F!Waiting
    <3>2. accepted[i] < lo /\ accepted[i] \in F!Receipt
      BY <1>6, <3>1 DEF ForwardInv, AcceptedFirst
    <3>3. QED
      BY <1>3, <3>2 DEF F!Receipt
  <2>2. QED
    BY <2>1
<1>8. ASSUME NEW i \in 1 .. Len(accepted')
      PROVE  \/ i \in 1 .. Len(accepted) /\ accepted'[i] = accepted[i]
             \/ /\ i > Len(accepted) /\ accepted'[i] = lo + (i - Len(accepted)) - 1
                /\ accepted'[i] \in F!Batch
  <2>1. Len(accepted) \in Nat /\ Len(accepted') = Len(accepted) + Len(more)
    BY <1>1, <1>4, <1>6
  <2>2. CASE i \in 1 .. Len(accepted)
    BY <1>1, <1>4, <1>6, <2>2
  <2>3. CASE ~(i \in 1 .. Len(accepted))
    <3>1. i - Len(accepted) \in 1 .. Len(more) /\ i > Len(accepted)
      BY <1>4, <2>1, <2>3
    <3>2. accepted'[i] = more[i - Len(accepted)]
      BY <1>1, <1>4, <1>6, <2>1, <2>3
    <3>3. QED
      BY <1>4, <3>1, <3>2
  <2>4. QED
    BY <2>2, <2>3
<1>9. F!AcceptedInOrder'
  <2>1. ASSUME NEW i \in 1 .. Len(accepted'), NEW j \in 1 .. Len(accepted'), i < j
        PROVE  accepted'[i] < accepted'[j]
    <3>1. CASE j \in 1 .. Len(accepted)
      <4>1. i \in 1 .. Len(accepted) /\ accepted'[i] = accepted[i] /\ accepted'[j] = accepted[j]
        BY <1>6, <1>8, <2>1, <3>1
      <4>2. QED
        BY <2>1, <3>1, <4>1 DEF ForwardInv, F!AcceptedInOrder
    <3>2. CASE ~(j \in 1 .. Len(accepted))
      <4>1. accepted'[j] = lo + (j - Len(accepted)) - 1 /\ accepted'[j] \in F!Batch
        BY <1>8, <3>2
      <4>2. CASE i \in 1 .. Len(accepted)
        BY <1>6, <1>7, <1>8, <4>1, <4>2
      <4>3. CASE ~(i \in 1 .. Len(accepted))
        <5>1. accepted'[i] = lo + (i - Len(accepted)) - 1
          BY <1>8, <4>3
        <5>2. i \in Int /\ j \in Int /\ lo \in Int /\ Len(accepted) \in Int
          BY <1>3, <1>6, <2>1 DEF F!Receipt
        <5>3. QED
          BY <2>1, <4>1, <5>1, <5>2
      <4>4. QED
        BY <4>2, <4>3
    <3>3. QED
      BY <3>1, <3>2
  <2>2. QED
    BY <2>1 DEF F!AcceptedInOrder
<1>10. AcceptedFirst'
  <2>1. ASSUME NEW i \in 1 .. Len(accepted'), NEW k \in 1 .. Len(todo')
        PROVE  accepted'[i] < todo'[k][1]
    <3>1. k + 1 \in 1 .. Len(todo) /\ todo'[k] = todo[k + 1] /\ \A x \in F!Batch : x < todo'[k][1]
      BY <1>1, <2>1, Served
    <3>2. QED
      BY <1>8, <3>1 DEF ForwardInv, AcceptedFirst
  <2>2. QED
    BY <2>1 DEF AcceptedFirst
<1>11. OnePlace'
  <2>1. F!Pending = F!Batch \cup F!Pending' /\ F!Batch \cap F!Pending' = {}
    BY <1>1, Served
  <2>2. OnePlace /\ rejected' = rejected /\ failed' = failed /\ F!Receipt' = F!Receipt
    BY <1>2 DEF ForwardInv, F!Receipt
  <2>3. QED
    BY <1>6, <2>1, <2>2 DEF OnePlace
<1>12. Judged'
  BY <1>1, <1>2, <1>6 DEF ForwardInv, Judged
<1>13. ForwardTypeOK'
  BY <1>1, <1>2, <1>6, Served DEF ForwardTypeOK
<1>14. F!GoodNeverRejected' /\ done' = FALSE
  BY <1>1, <1>2 DEF ForwardInv, F!GoodNeverRejected, F!Waiting, ForwardTypeOK
<1>15. Stacked(todo')
  BY <1>1, Served
<1>16. QED
  BY <1>9, <1>10, <1>11, <1>12, <1>13, <1>14, <1>15 DEF ForwardInv, Stacked

LEMMA SetAsideStep ==
  ASSUME ForwardTypeOK, ForwardInv, F!Waiting, todo' = Tail(todo), attempt' = 0, down' \in Nat,
         UNCHANGED <<kind, endpoint, accepted, done>>,
         \/ /\ rejected' = rejected \cup F!Batch /\ failed' = failed /\ down' = down
            /\ endpoint = "right" => \A i \in F!Batch : kind[i] # "good"
         \/ /\ rejected' = rejected /\ failed' = failed \cup F!Batch
            /\ (endpoint # "right" /\ down' = down) \/ down' > 0
  PROVE  ForwardTypeOK' /\ ForwardInv'
<1>1. /\ todo' \in Seq(F!Receipt \X F!Receipt) /\ Stacked(todo')
      /\ F!Batch \subseteq F!Receipt /\ F!Pending = F!Batch \cup F!Pending'
      /\ F!Batch \cap F!Pending' = {}
  BY Served
<1>2. done = FALSE /\ F!Receipt' = F!Receipt /\ F!ToSet(accepted)' = F!ToSet(accepted)
  BY DEF F!Waiting, ForwardTypeOK, F!Receipt, F!ToSet
<1>3. ForwardTypeOK'
  BY <1>1, <1>2 DEF ForwardTypeOK
<1>4. OnePlace'
  BY <1>1, <1>2 DEF OnePlace, ForwardInv
<1>5. Judged'
  BY <1>2 DEF Judged, ForwardInv, ForwardTypeOK
<1>6. QED
  BY <1>1, <1>2, <1>3, <1>4, <1>5, ServedAside DEF ForwardInv, Stacked, F!GoodNeverRejected

\* The halves of a batch stand where the batch stood.
LEMMA SplitStep == ASSUME ForwardTypeOK, ForwardInv, F!Split PROVE ForwardTypeOK' /\ ForwardInv'
<1> DEFINE R == F!Receipt \X F!Receipt
           lo == Head(todo)[1]  hi == Head(todo)[2]  mid == lo + (hi - lo) \div 2
<1>1. F!Waiting /\ lo < hi /\ todo' = <<<<lo, mid>>, <<mid + 1, hi>>>> \o Tail(todo)
  BY DEF F!Split, F!Answered
<1>2. UNCHANGED <<kind, endpoint, down, done, accepted, rejected, failed>> /\ attempt' = 0
  BY DEF F!Split, F!Answered
<1>3. /\ todo \in Seq(R) /\ todo # <<>> /\ Head(todo) = todo[1] /\ 1 \in 1 .. Len(todo)
      /\ lo \in F!Receipt /\ hi \in F!Receipt /\ N \in Nat
  BY <1>1, HeadAndTail, SizesAreNat DEF ForwardTypeOK, F!Waiting
<1>4. lo \in Int /\ hi \in Int /\ mid \in Int /\ lo <= mid /\ mid < hi
  BY <1>1, <1>3 DEF F!Receipt
<1> HIDE DEF lo, hi, mid
<1>5. <<lo, mid>> \in R /\ <<mid + 1, hi>> \in R
  <2>1. mid \in F!Receipt /\ mid + 1 \in F!Receipt
    BY <1>3, <1>4 DEF F!Receipt
  <2>2. QED
    BY <1>3, <2>1
<1>6. /\ todo' \in Seq(R) /\ Len(todo') = Len(todo) + 1
      /\ todo'[1] = <<lo, mid>> /\ todo'[2] = <<mid + 1, hi>>
      /\ \A k \in 3 .. Len(todo') : k - 1 \in 2 .. Len(todo) /\ todo'[k] = todo[k - 1]
  BY <1>1, <1>3, <1>5, TwoForOne
<1>7. /\ Len(todo) \in Nat
      /\ \A k \in 1 .. Len(todo) : todo[k] \in R /\ todo[k][1] \in Int /\ todo[k][2] \in Int
  BY <1>3 DEF F!Receipt
<1>8. todo[1][1] = lo /\ todo[1][2] = hi
  BY <1>3 DEF lo, hi
<1>9. \A k \in 2 .. Len(todo) : hi < todo[k][1] /\ todo[k][1] <= todo[k][2]
  BY <1>3, <1>7, <1>8 DEF ForwardInv, Stacked
<1>10. Stacked(todo')
  <2>1. ASSUME NEW k \in 1 .. Len(todo') PROVE todo'[k][1] <= todo'[k][2]
    <3>1. CASE k \in 3 .. Len(todo')
      BY <1>6, <1>9, <3>1
    <3>2. CASE k = 1 \/ k = 2
      BY <1>4, <1>6, <3>2
    <3>3. QED
      BY <1>6, <1>7, <3>1, <3>2
  <2>2. ASSUME NEW j \in 1 .. Len(todo'), NEW k \in 1 .. Len(todo'), j < k
        PROVE  todo'[j][2] < todo'[k][1]
    <3>1. CASE k = 2
      <4>1. j = 1
        BY <2>2, <3>1
      <4>2. QED
        BY <1>4, <1>6, <3>1, <4>1
    <3>2. CASE k \in 3 .. Len(todo') /\ j \in 3 .. Len(todo')
      <4>1. /\ j - 1 \in 1 .. Len(todo) /\ k - 1 \in 1 .. Len(todo) /\ j - 1 < k - 1
            /\ todo'[j] = todo[j - 1] /\ todo'[k] = todo[k - 1]
        BY <1>6, <1>7, <2>2, <3>2
      <4>2. QED
        BY <4>1 DEF ForwardInv, Stacked
    <3>3. CASE k \in 3 .. Len(todo') /\ (j = 1 \/ j = 2)
      <4>1. k - 1 \in 2 .. Len(todo) /\ todo'[k] = todo[k - 1] /\ todo'[j][2] <= hi
        BY <1>4, <1>6, <3>3
      <4>2. hi < todo[k - 1][1] /\ todo[k - 1][1] \in Int /\ todo'[j][2] \in Int
        BY <1>4, <1>6, <1>7, <1>9, <3>3, <4>1
      <4>3. QED
        BY <1>4, <4>1, <4>2
    <3>4. QED
      BY <1>6, <1>7, <2>2, <3>1, <3>2, <3>3
  <2>3. QED
    BY <2>1, <2>2 DEF Stacked
<1>11. AcceptedFirst'
  <2>1. ASSUME NEW i \in 1 .. Len(accepted), NEW k \in 1 .. Len(todo')
        PROVE  accepted[i] < todo'[k][1]
    <3>1. accepted[i] \in Int /\ accepted[i] < lo
      <4>1. accepted \in Seq(F!Receipt)
        BY DEF ForwardTypeOK
      <4>2. accepted[i] \in F!Receipt
        BY <4>1
      <4>3. accepted[i] < todo[1][1]
        BY <1>3 DEF ForwardInv, AcceptedFirst
      <4>4. QED
        BY <1>8, <4>2, <4>3 DEF F!Receipt
    <3>2. CASE k \in 3 .. Len(todo')
      <4>1. k - 1 \in 1 .. Len(todo) /\ todo'[k] = todo[k - 1]
        BY <1>6, <1>7, <3>2
      <4>2. QED
        BY <4>1 DEF ForwardInv, AcceptedFirst
    <3>3. CASE k = 1 \/ k = 2
      BY <1>4, <1>6, <3>1, <3>3
    <3>4. QED
      BY <1>6, <1>7, <3>2, <3>3
  <2>2. QED
    BY <1>2, <2>1 DEF AcceptedFirst
<1>12. F!Pending' = F!Pending
  <2>1. ASSUME NEW x
        PROVE  /\ x \in F!Pending <=> \E k \in 1 .. Len(todo) : x \in todo[k][1] .. todo[k][2]
               /\ x \in F!Pending' <=> \E k \in 1 .. Len(todo') : x \in todo'[k][1] .. todo'[k][2]
    BY <1>3, <1>6, CoveredBy DEF F!Pending
  <2>2. ASSUME NEW x, x \in F!Pending PROVE x \in F!Pending'
    <3>1. PICK k \in 1 .. Len(todo) : x \in todo[k][1] .. todo[k][2]
      BY <2>1, <2>2
    <3>2. CASE k = 1
      <4>1. x \in lo .. mid \/ x \in mid + 1 .. hi
        BY <1>4, <1>8, <3>1, <3>2
      <4>2. 1 \in 1 .. Len(todo') /\ 2 \in 1 .. Len(todo')
        BY <1>3, <1>6
      <4>3. QED
        BY <1>6, <2>1, <4>1, <4>2
    <3>3. CASE k # 1
      <4>1. k + 1 \in 3 .. Len(todo') /\ k + 1 \in 1 .. Len(todo') /\ (k + 1) - 1 = k
        BY <1>6, <1>7, <3>3
      <4>2. todo'[k + 1] = todo[k]
        BY <1>6, <4>1
      <4>3. QED
        BY <2>1, <3>1, <4>1, <4>2
    <3>4. QED
      BY <3>2, <3>3
  <2>3. ASSUME NEW x, x \in F!Pending' PROVE x \in F!Pending
    <3>1. PICK k \in 1 .. Len(todo') : x \in todo'[k][1] .. todo'[k][2]
      BY <2>1, <2>3
    <3>2. CASE k = 1 \/ k = 2
      <4>1. x \in todo[1][1] .. todo[1][2]
        BY <1>4, <1>6, <1>8, <3>1, <3>2
      <4>2. QED
        BY <1>3, <2>1, <4>1
    <3>3. CASE k \in 3 .. Len(todo')
      <4>1. k - 1 \in 1 .. Len(todo) /\ todo'[k] = todo[k - 1]
        BY <1>6, <1>7, <3>3
      <4>2. QED
        BY <2>1, <3>1, <4>1
    <3>4. QED
      BY <1>6, <1>7, <3>2, <3>3
  <2>4. QED
    BY <2>2, <2>3
<1>13. OnePlace' /\ Judged' /\ F!AcceptedInOrder' /\ F!GoodNeverRejected' /\ done' = FALSE
  BY <1>1, <1>2, <1>12 DEF ForwardInv, OnePlace, Judged, F!AcceptedInOrder, F!GoodNeverRejected,
     F!Waiting, ForwardTypeOK, F!Receipt, F!ToSet
<1>14. ForwardTypeOK'
  BY <1>2, <1>6 DEF ForwardTypeOK
<1>15. QED
  BY <1>10, <1>11, <1>13, <1>14 DEF ForwardInv, Stacked

\* A refusal stays with the receipt only when the run has proof it is about it.
LEMMA FinishStep == ASSUME ForwardTypeOK, ForwardInv, F!Finish PROVE ForwardTypeOK' /\ ForwardInv'
<1>1. /\ todo = <<>> /\ done' = TRUE /\ rejected' = rejected \ F!Unproven
      /\ failed' = failed \cup F!Unproven
      /\ UNCHANGED <<kind, endpoint, todo, attempt, down, accepted>>
  BY DEF F!Finish
<1>2. F!Unproven \subseteq rejected
  BY DEF F!Unproven
<1>3. ForwardTypeOK' /\ Stacked(todo') /\ AcceptedFirst' /\ F!AcceptedInOrder'
  BY <1>1, <1>2 DEF ForwardTypeOK, ForwardInv, Stacked, AcceptedFirst, F!AcceptedInOrder
<1>4. F!Pending' = F!Pending /\ F!ToSet(accepted)' = F!ToSet(accepted) /\ F!Receipt' = F!Receipt
  BY <1>1 DEF F!Pending, F!ToSet, F!Receipt
<1>5. OnePlace'
  BY <1>1, <1>2, <1>4 DEF OnePlace, ForwardInv
<1>6. Judged'
  BY <1>1, <1>2, <1>4 DEF Judged, ForwardInv
<1>7. \A i \in rejected' : endpoint = "right" /\ kind[i] # "good"
  <2>1. CASE accepted = <<>>
    BY <1>1, <2>1 DEF F!Unproven
  <2>2. CASE accepted # <<>>
    <3>1. 1 \in 1 .. Len(accepted) /\ accepted[1] \in F!ToSet(accepted)
      BY <2>2 DEF ForwardTypeOK, F!ToSet
    <3>2. QED
      BY <1>1, <3>1 DEF ForwardInv, Judged
  <2>3. QED
    BY <2>1, <2>2
<1>8. F!GoodNeverRejected'
  BY <1>1, <1>7 DEF F!GoodNeverRejected
<1>9. QED
  BY <1>1, <1>3, <1>5, <1>6, <1>8 DEF ForwardInv, Stacked

LEMMA ForwardStep == ForwardTypeOK /\ ForwardInv /\ [F!Next]_forward => ForwardTypeOK' /\ ForwardInv'
<1> SUFFICES ASSUME ForwardTypeOK, ForwardInv, [F!Next]_forward PROVE ForwardTypeOK' /\ ForwardInv'
  OBVIOUS
<1>1. CASE F!Accept
  BY <1>1, AcceptStep
<1>2. CASE F!Isolate
  <2>1. /\ F!Waiting /\ todo' = Tail(todo) /\ attempt' = 0
        /\ UNCHANGED <<kind, endpoint, down, done, accepted, failed>>
        /\ rejected' = rejected \cup F!Batch
    BY <1>2 DEF F!Isolate, F!Answered
  <2>2. endpoint = "right" => \A i \in F!Batch : kind[i] # "good"
    <3>1. PICK x : F!Batch = {x}
      <4>1. IsFiniteSet(F!Batch)
        <5>1. F!Batch \subseteq F!Receipt
          BY <2>1, Served
        <5>2. IsFiniteSet(F!Receipt)
          BY FS_Interval, SizesAreNat DEF F!Receipt
        <5>3. QED
          BY <5>1, <5>2, FS_Subset
      <4>2. Cardinality(F!Batch) = 1
        BY <1>2, SameCardinality DEF F!Isolate
      <4>3. QED
        BY <4>1, <4>2, FS_Singleton
    <3>2. QED
      BY <1>2, <3>1 DEF F!Isolate, F!Refused
  <2>3. QED
    BY <2>1, <2>2, SetAsideStep DEF ForwardTypeOK
<1>3. CASE F!Split
  BY <1>3, SplitStep
<1>4. CASE F!Deny
  <2>1. /\ F!Waiting /\ todo' = Tail(todo) /\ attempt' = 0 /\ endpoint # "right"
        /\ UNCHANGED <<kind, endpoint, down, done, accepted, rejected>> /\ failed' = failed \cup F!Batch
    BY <1>4 DEF F!Deny, F!Answered
  <2>2. QED
    BY <2>1, SetAsideStep DEF ForwardTypeOK
<1>5. CASE F!Retry
  <2>1. /\ UNCHANGED <<kind, endpoint, todo, accepted, rejected, failed, done>>
        /\ down' = down + 1 /\ attempt' = attempt + 1 /\ down \in Nat /\ attempt \in Nat
    BY <1>5 DEF F!Retry, ForwardTypeOK
  <2>2. ForwardTypeOK'
    BY <2>1 DEF ForwardTypeOK
  <2>3. Judged'
    BY <2>1 DEF Judged, ForwardInv, F!ToSet
  <2>4. OnePlace'
    BY <2>1 DEF OnePlace, ForwardInv, F!ToSet, F!Pending, F!Receipt
  <2>5. QED
    BY <2>1, <2>2, <2>3, <2>4 DEF ForwardInv, Stacked, AcceptedFirst, F!AcceptedInOrder,
       F!GoodNeverRejected
<1>6. CASE F!GiveUp
  <2>1. /\ F!Waiting /\ todo' = Tail(todo) /\ attempt' = 0 /\ down' = down + 1
        /\ UNCHANGED <<kind, endpoint, done, accepted, rejected>> /\ failed' = failed \cup F!Batch
    BY <1>6 DEF F!GiveUp
  <2>2. down' \in Nat /\ down' > 0
    BY <2>1 DEF ForwardTypeOK
  <2>3. QED
    BY <2>1, <2>2, SetAsideStep
<1>7. CASE F!Finish
  BY <1>7, FinishStep
<1>8. CASE UNCHANGED forward
  <2>1. UNCHANGED <<kind, endpoint, todo, attempt, down, accepted, rejected, failed, done>>
    BY <1>8 DEF forward
  <2>2. OnePlace' /\ Judged'
    BY <2>1 DEF OnePlace, Judged, ForwardInv, F!ToSet, F!Pending, F!Receipt
  <2>3. QED
    BY <2>1, <2>2 DEF ForwardTypeOK, ForwardInv, Stacked, AcceptedFirst, F!AcceptedInOrder,
       F!GoodNeverRejected
<1>9. QED
  BY <1>1, <1>2, <1>3, <1>4, <1>5, <1>6, <1>7, <1>8 DEF F!Next

LEMMA PendingIs ==
  ASSUME todo \in Seq(F!Receipt \X F!Receipt), NEW x
  PROVE  x \in F!Pending <=> \E k \in 1 .. Len(todo) : x \in todo[k][1] .. todo[k][2]
BY CoveredBy DEF F!Pending

LEMMA ForwardInit == F!Init => ForwardTypeOK /\ ForwardInv
<1> SUFFICES ASSUME F!Init PROVE ForwardTypeOK /\ ForwardInv
  OBVIOUS
<1>1. /\ kind \in [F!Receipt -> F!Kinds] /\ endpoint \in F!Endpoints
      /\ todo = IF N = 0 THEN <<>> ELSE <<<<1, N>>>>
      /\ attempt = 0 /\ down = 0 /\ accepted = <<>> /\ rejected = {} /\ failed = {} /\ done = FALSE
  BY DEF F!Init
<1>2. todo \in Seq(F!Receipt \X F!Receipt) /\ F!Pending = F!Receipt /\ Stacked(todo)
  <2>1. CASE N = 0
    <3>1. todo = <<>> /\ todo \in Seq(F!Receipt \X F!Receipt) /\ Len(todo) = 0
      BY <1>1, <2>1
    <3>2. ASSUME NEW x PROVE x \notin F!Pending
      BY <3>1, PendingIs
    <3>3. F!Receipt = {}
      BY <2>1 DEF F!Receipt
    <3>4. QED
      BY <3>1, <3>2, <3>3 DEF Stacked
  <2>2. CASE N # 0
    <3>1. /\ todo = <<<<1, N>>>> /\ todo \in Seq(F!Receipt \X F!Receipt) /\ Len(todo) = 1
          /\ todo[1][1] = 1 /\ todo[1][2] = N /\ 1 <= N
      BY <1>1, <2>2, SizesAreNat DEF F!Receipt
    <3>2. ASSUME NEW x PROVE x \in F!Pending <=> x \in 1 .. N
      <4>1. \A k : k \in 1 .. Len(todo) <=> k = 1
        BY <3>1
      <4>2. QED
        BY <3>1, <4>1, PendingIs
    <3>3. Stacked(todo)
      BY <3>1 DEF Stacked
    <3>4. F!Pending = F!Receipt
      BY <3>2 DEF F!Receipt
    <3>5. QED
      BY <3>1, <3>3, <3>4
  <2>3. QED
    BY <2>1, <2>2
<1>3. F!ToSet(accepted) = {}
  BY <1>1 DEF F!ToSet
<1>4. OnePlace /\ Judged
  BY <1>1, <1>2, <1>3 DEF OnePlace, Judged
<1>5. AcceptedFirst /\ F!AcceptedInOrder /\ F!GoodNeverRejected
  BY <1>1 DEF AcceptedFirst, F!AcceptedInOrder, F!GoodNeverRejected
<1>6. ForwardTypeOK
  <2>1. accepted \in Seq(F!Receipt) /\ attempt \in Nat /\ down \in Nat /\ done \in BOOLEAN
    <3>1. <<>> \in Seq(F!Receipt)
      OBVIOUS
    <3>2. QED
      BY <1>1, <3>1
  <2>2. QED
    BY <1>1, <1>2, <2>1 DEF ForwardTypeOK
<1>7. QED
  BY <1>1, <1>2, <1>4, <1>5, <1>6 DEF ForwardInv

\* What was accepted in order was accepted once.
LEMMA AcceptedOnce ==
  ASSUME ForwardTypeOK, F!AcceptedInOrder
  PROVE  F!Cardinality(F!ToSet(accepted)) = Len(accepted)
<1> DEFINE D == 1 .. Len(accepted)
           T == F!ToSet(accepted)
<1>1. /\ accepted \in Seq(F!Receipt) /\ Len(accepted) \in Nat /\ accepted \in [D -> F!Receipt]
      /\ \A i \in D : accepted[i] \in Nat
  <2>1. accepted \in Seq(F!Receipt)
    BY DEF ForwardTypeOK
  <2>2. F!Receipt \subseteq Nat
    BY DEF F!Receipt
  <2>3. Len(accepted) \in Nat /\ accepted \in [D -> F!Receipt]
    BY <2>1
  <2>4. \A i \in D : accepted[i] \in F!Receipt
    BY <2>3, Zenon
  <2>5. QED
    BY <2>1, <2>2, <2>3, <2>4
<1>2. accepted \in [D -> T] /\ \A t \in T : \E i \in D : accepted[i] = t
  <2>1. T = {accepted[i] : i \in D}
    BY <1>1, ElementsOf
  <2>2. QED
    BY <1>1, <2>1
<1>3. ASSUME NEW i \in D, NEW j \in D, accepted[i] = accepted[j] PROVE i = j
  <2>1. i \in Nat /\ j \in Nat /\ accepted[i] \in Nat
    BY <1>1
  <2>2. ~(i < j) /\ ~(j < i)
    BY <1>1, <1>3, <2>1 DEF F!AcceptedInOrder
  <2>3. QED
    BY <2>1, <2>2
<1> HIDE DEF T
<1>4. accepted \in Bijection(D, T)
  BY <1>2, <1>3 DEF Bijection, Injection, Surjection, IsInjective
<1>5. IsFiniteSet(D) /\ Cardinality(D) = Len(accepted)
  <2>1. D = 1 .. Len(accepted) /\ 1 \in Int /\ Len(accepted) \in Int /\ Len(accepted) >= 0
    BY <1>1
  <2>2. /\ IsFiniteSet(1 .. Len(accepted))
        /\ Cardinality(1 .. Len(accepted))
             = IF 1 > Len(accepted) THEN 0 ELSE Len(accepted) - 1 + 1
    BY <2>1, FS_Interval, Zenon
  <2>3. QED
    BY <2>1, <2>2
<1>6. Cardinality(T) = Cardinality(D)
  BY <1>4, <1>5, FS_Bijection DEF ExistsBijection
<1>7. QED
  BY <1>5, <1>6, SameCardinality DEF T

LEMMA ForwardFacts ==
  ForwardTypeOK /\ ForwardInv
    => F!Conserved /\ F!OnlyRefusedAreLost /\ F!GoodNeverRejected /\ F!AcceptedInOrder
<1> SUFFICES ASSUME ForwardTypeOK, ForwardInv PROVE F!Conserved /\ F!OnlyRefusedAreLost
  BY DEF ForwardInv
<1>1. F!Conserved
  BY AcceptedOnce DEF F!Conserved, ForwardInv, OnePlace
<1>2. ASSUME done, down = 0, endpoint = "right"
      PROVE  F!ToSet(accepted) = {i \in F!Receipt : kind[i] = "good"}
  <2>1. todo = <<>> /\ Len(todo) = 0
    BY <1>2 DEF ForwardInv
  <2>2. ASSUME NEW x PROVE x \notin F!Pending
    BY <2>1, PendingIs DEF ForwardTypeOK
  <2>3. QED
    BY <1>2, <2>2 DEF ForwardInv, OnePlace, Judged
<1>3. QED
  BY <1>1, <1>2 DEF F!OnlyRefusedAreLost

\* Every receipt is in one place and the accepted ones in order, a good one is never
\* dropped, and a bad one sinks no other, for any number of receipts and any answers.
THEOREM IsolationCorrect ==
  F!Spec => [](F!Conserved /\ F!OnlyRefusedAreLost /\ F!GoodNeverRejected /\ F!AcceptedInOrder)
<1>1. [F!Next]_(F!vars) <=> [F!Next]_forward
  BY DEF F!vars, forward
<1>2. QED
  BY <1>1, ForwardInit, ForwardStep, ForwardFacts, PTL DEF F!Spec

\* The same of the instance the runs check.
THEOREM ForwardCorrect == MCSpec => []ForwardHolds
<1>1. MCInit => ForwardTypeOK /\ ForwardInv
  BY ForwardInit DEF MCInit
<1>2. [MCNext]_<<part, vars, forward>> => [F!Next]_forward
  BY DEF MCNext, forward
<1>3. ForwardTypeOK /\ ForwardInv => ForwardHolds
  BY ForwardFacts DEF ForwardHolds
<1>4. QED
  BY <1>1, <1>2, <1>3, ForwardStep, PTL DEF MCSpec
=============================================================================
