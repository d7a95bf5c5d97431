--------------------------- MODULE SenderFailover ---------------------------
(***************************************************************************)
(* Sender routing and failover: the registry with its circuit breakers,    *)
(* resolveSenderChainForRecipient and sendWithFailover of                  *)
(* src/providers/senders.ts, as the dispatch runs of                       *)
(* src/dispatch/processor.ts (email) and src/dispatch/whatsapp.ts use      *)
(* them.  Runs overlap in one process and share the breakers.  An email    *)
(* run resolves the chain of every recipient before its first send; a      *)
(* WhatsApp run resolves and sends one recipient at a time.                *)
(*                                                                         *)
(* The clock is relative: cooling[s] is the time left of the cooldown that *)
(* started at lastFailureAt.  The rendezvous hash is any order.            *)
(***************************************************************************)
EXTENDS Integers, Sequences, FiniteSets, SequencesExt

CONSTANTS
  Senders,      \* enabled senders of the channel and the organization
  Weighted,     \* those of weight above 0; the others are pin-only
  Runs,         \* dispatch runs
  Channel,      \* Channel[w]
  Recipients,   \* recipients of each run
  Pin, Strict,  \* Pin[w]: the pinned sender or NoPin; Strict[w]: sender_strict
  NoPin,
  MaxAttempts,  \* routing.failover.max_attempts
  OnTimeout, OnIdentityError,
  Threshold,    \* breaker.failure_threshold
  Cooldown,     \* breaker.cooldown_ms, in ticks
  MaxFailures   \* bound on failed attempts

ASSUME SenderAssumption == IsFiniteSet(Senders) /\ Weighted \subseteq Senders /\ NoPin \notin Senders
ASSUME RunAssumption ==
  /\ Channel \in [Runs -> {"email", "whatsapp"}]
  /\ Pin \in [Runs -> Senders \cup {NoPin}] /\ Strict \in [Runs -> BOOLEAN]
ASSUME FlagAssumption == OnTimeout \in BOOLEAN /\ OnIdentityError \in BOOLEAN
ASSUME BoundAssumption ==
  /\ MaxAttempts \in Nat \ {0} /\ Threshold \in Nat \ {0}
  /\ Cooldown \in Nat \ {0} /\ MaxFailures \in Nat

VARIABLES
  breaker, failures, cooling,  \* the breaker of each sender
  left,     \* left[w]: recipients without a chain yet
  queue,    \* queue[w]: <<recipient, chain>> still to be sent, in order
  tries,    \* tries[w]: attempts for the recipient at the head of the queue
  flying,   \* flying[w]: the provider call of its current attempt is out
  failed,   \* failed attempts so far
  \* history
  asked,    \* <<run, recipient, sender>>: attempts made
  took,     \* <<run, recipient, sender>>: attempts the provider accepted
  unclear,  \* <<run, recipient>>: a connection was reset during an attempt
  probes,   \* probes[s]: attempts on s in flight that started half-open
  wasted,   \* first attempts on a parked sender, of a run that pinned nobody,
            \* while another sender it may use is not parked
  unrouted  \* <<run, recipient>> that got an empty chain

breakers == <<breaker, failures, cooling>>
history == <<asked, took, unclear, probes, wasted, unrouted>>
vars == <<breakers, left, queue, tries, flying, failed, history>>

Init ==
  /\ breaker = [s \in Senders |-> "closed"]
  /\ failures = [s \in Senders |-> 0]
  /\ cooling = [s \in Senders |-> 0]
  /\ left = [w \in Runs |-> Recipients]
  /\ queue = [w \in Runs |-> <<>>]
  /\ tries = [w \in Runs |-> 0]
  /\ flying = [w \in Runs |-> FALSE]
  /\ failed = 0
  /\ asked = {} /\ took = {} /\ unclear = {} /\ wasted = {} /\ unrouted = {}
  /\ probes = [s \in Senders |-> 0]

-----------------------------------------------------------------------------
\* isBreakerAvailable, and its side effect on the senders it is asked about.
Parked(s) == breaker[s] = "open" /\ cooling[s] > 0

HalfOpen(S) ==
  [s \in Senders |-> IF s \in S /\ breaker[s] = "open" /\ cooling[s] = 0 THEN "half-open" ELSE breaker[s]]

\* Mutant of Orders: pin-only senders are not left out.
OrdersOfAll(S) == SetToSeqs(S)

\* orderForRecipient.
Orders(S) == SetToSeqs(S \cap Weighted)

(***************************************************************************)
(* resolveSenderChainForRecipient.  (A from_email pin names a sender in    *)
(* the same way.)                                                          *)
(***************************************************************************)
Consulted(w) == IF Pin[w] # NoPin /\ Strict[w] THEN {} ELSE Senders \ {Pin[w]}

Available(w) == {s \in Consulted(w) : ~Parked(s)}

Chains(w) ==
  IF Pin[w] = NoPin THEN Orders(IF Available(w) = {} THEN Senders ELSE Available(w))
  ELSE IF Strict[w] THEN {<<Pin[w]>>} ELSE {<<Pin[w]>> \o q : q \in Orders(Available(w))}

Resolve(w) ==
  /\ left[w] # {}
  /\ Channel[w] = "whatsapp" => queue[w] = <<>>
  /\ \E r \in left[w], chain \in Chains(w) :
       /\ left' = [left EXCEPT ![w] = left[w] \ {r}]
       /\ queue' = IF chain = <<>> THEN queue
                   ELSE [queue EXCEPT ![w] = Append(queue[w], <<r, chain>>)]
       /\ unrouted' = IF chain = <<>> THEN unrouted \cup {<<w, r>>} ELSE unrouted
  /\ breaker' = HalfOpen(Consulted(w))
  /\ UNCHANGED <<failures, cooling, tries, flying, failed, asked, took, unclear, probes, wasted>>

-----------------------------------------------------------------------------
(***************************************************************************)
(* sendWithFailover: the provider call of the next sender of the chain.    *)
(* The breakers are not consulted again.                                   *)
(***************************************************************************)
Recipient(w) == Head(queue[w])[1]
Chain(w) == Head(queue[w])[2]
Limit(w) == IF Len(Chain(w)) < MaxAttempts THEN Len(Chain(w)) ELSE MaxAttempts
Current(w) == Chain(w)[tries[w] + 1]

Send(w) ==
  /\ queue[w] # <<>> /\ ~flying[w]
  /\ Channel[w] = "email" => left[w] = {}
  /\ flying' = [flying EXCEPT ![w] = TRUE]
  /\ asked' = asked \cup {<<w, Recipient(w), Current(w)>>}
  /\ probes' = IF breaker[Current(w)] = "half-open"
                 THEN [probes EXCEPT ![Current(w)] = @ + 1] ELSE probes
  /\ wasted' = IF /\ Pin[w] = NoPin /\ tries[w] = 0
                    /\ Parked(Current(w)) /\ \E s \in Weighted : ~Parked(s)
                 THEN wasted \cup {<<w, Recipient(w), Current(w)>>}
                 ELSE wasted
  /\ UNCHANGED <<breakers, left, queue, tries, failed, took, unclear, unrouted>>

Landed(w) ==
  /\ flying[w]
  /\ flying' = [flying EXCEPT ![w] = FALSE]
  /\ probes' = IF probes[Current(w)] > 0 THEN [probes EXCEPT ![Current(w)] = @ - 1] ELSE probes
  /\ UNCHANGED <<left, asked, wasted, unrouted>>

NextRecipient(w) ==
  /\ queue' = [queue EXCEPT ![w] = Tail(queue[w])]
  /\ tries' = [tries EXCEPT ![w] = 0]

\* The provider accepts; recordSuccess.
Succeed(w) ==
  /\ Landed(w)
  /\ took' = took \cup {<<w, Recipient(w), Current(w)>>}
  /\ breaker' = [breaker EXCEPT ![Current(w)] = "closed"]
  /\ failures' = [failures EXCEPT ![Current(w)] = 0]
  /\ NextRecipient(w)
  /\ UNCHANGED <<cooling, failed, unclear>>

(***************************************************************************)
(* classifyError.  Only a timeout and a reset leave it open whether the    *)
(* provider took the message.                                              *)
(*   timeout   network_timeout                                             *)
(*   reset     network_transient: ECONNRESET, socket hang up, fetch failed *)
(*   busy      rate_limited, provider_5xx, auth_failure                    *)
(*   identity  unverified_sender                                           *)
(*   terminal  anything else                                               *)
(***************************************************************************)
Errors == {"timeout", "reset", "busy", "identity", "terminal"}

\* Mutant of FailsOver: on_timeout is not asked.
FailsOverOnTimeout(error) ==
  \/ error \in {"reset", "busy", "timeout"}
  \/ error = "identity" /\ OnIdentityError

FailsOver(error) ==
  \/ error \in {"reset", "busy"}
  \/ error = "timeout" /\ OnTimeout
  \/ error = "identity" /\ OnIdentityError

\* Mutant of RecordFailure: the count starts again when the sender is parked, so
\* that a failed probe does not park it.
RecordFailureAfresh(s) ==
  LET n == failures[s] + 1
  IN  /\ failures' = [failures EXCEPT ![s] = IF n >= Threshold THEN 0 ELSE n]
      /\ cooling' = [cooling EXCEPT ![s] = Cooldown]
      /\ breaker' = IF n >= Threshold THEN [breaker EXCEPT ![s] = "open"] ELSE breaker

RecordFailure(s) ==
  LET n == failures[s] + 1
  IN  /\ failures' = [failures EXCEPT ![s] = n]
      /\ cooling' = [cooling EXCEPT ![s] = Cooldown]
      /\ breaker' = IF n >= Threshold THEN [breaker EXCEPT ![s] = "open"] ELSE breaker

\* Mutant of Fail: the same sender is tried again, without a count.
FailSameAgain(w, error) ==
  /\ Landed(w)
  /\ failed < MaxFailures
  /\ IF ~FailsOver(error) THEN NextRecipient(w) ELSE UNCHANGED <<queue, tries>>
  /\ UNCHANGED <<breakers, failed, took, unclear>>

Fail(w, error) ==
  /\ Landed(w)
  /\ failed < MaxFailures
  /\ failed' = failed + 1
  /\ \E accepted \in IF error \in {"timeout", "reset"} THEN BOOLEAN ELSE {FALSE} :
       took' = IF accepted THEN took \cup {<<w, Recipient(w), Current(w)>>} ELSE took
  /\ unclear' = IF error = "reset" THEN unclear \cup {<<w, Recipient(w)>>} ELSE unclear
  /\ IF error = "terminal" THEN UNCHANGED breakers ELSE RecordFailure(Current(w))
  /\ IF FailsOver(error) /\ tries[w] + 1 < Limit(w)
       THEN tries' = [tries EXCEPT ![w] = @ + 1] /\ UNCHANGED queue
       ELSE NextRecipient(w)

Tick ==
  /\ \E s \in Senders : cooling[s] > 0
  /\ cooling' = [s \in Senders |-> IF cooling[s] > 0 THEN cooling[s] - 1 ELSE 0]
  /\ UNCHANGED <<breaker, failures, left, queue, tries, flying, failed, history>>

Next ==
  \/ \E w \in Runs : Resolve(w)
  \/ \E w \in Runs : Send(w)
  \/ \E w \in Runs : Succeed(w)
  \/ \E w \in Runs, error \in Errors : Fail(w, error)
  \/ Tick

Spec == Init /\ [][Next]_vars

\* A run goes on: every provider call returns or throws.
Fairness ==
  \A w \in Runs : WF_vars(Resolve(w) \/ Send(w) \/ Succeed(w) \/ \E error \in Errors : Fail(w, error))

FairSpec == Spec /\ Fairness

-----------------------------------------------------------------------------
Messages == Runs \X Recipients
Attempts == Runs \X Recipients \X Senders

\* Every variable holds a value of its type.
TypeOK ==
  /\ breaker \in [Senders -> {"closed", "open", "half-open"}]
  /\ failures \in [Senders -> Nat] /\ cooling \in [Senders -> Nat]
  /\ left \in [Runs -> SUBSET Recipients]
  /\ queue \in [Runs -> Seq(Recipients \X Seq(Senders))]
  /\ tries \in [Runs -> Nat] /\ flying \in [Runs -> BOOLEAN]
  /\ failed \in Nat
  /\ asked \subseteq Attempts /\ took \subseteq Attempts /\ wasted \subseteq Attempts
  /\ unclear \subseteq Messages /\ unrouted \subseteq Messages
  /\ probes \in [Senders -> Nat]

\* A breaker is open or half-open exactly while its failure count stands at the
\* threshold, whatever overlapping runs record and in whatever order: so one failure
\* of a probe parks the sender again, and only a success makes it whole.
BreakerTracksFailures ==
  \A s \in Senders : breaker[s] # "closed" <=> failures[s] >= Threshold

\* With on_timeout off, a message that two providers took was resent after a reset
\* connection: a timeout alone never makes a duplicate.
TimeoutNeverResent ==
  ~OnTimeout =>
    \A a, b \in took : a[1] = b[1] /\ a[2] = b[2] /\ a[3] # b[3] => <<a[1], a[2]>> \in unclear

\* Failover keeps to the routing: a strictly pinned run asks its sender alone, and a
\* pin-only sender is asked by nobody who did not pin it.
RoutingHonoured ==
  \A a \in asked :
    /\ Pin[a[1]] # NoPin /\ Strict[a[1]] => a[3] = Pin[a[1]]
    /\ a[3] \notin Weighted => a[3] = Pin[a[1]]

\* Every recipient of every run gets an answer or has no sender: failover ends.
EveryoneAnswered == <>(\A w \in Runs : left[w] = {} /\ queue[w] = <<>>)

-----------------------------------------------------------------------------
(***************************************************************************)
(* Statements of comments and docs that the code does not meet.            *)
(***************************************************************************)
\* "half-open allows 1 probe"
OneProbe == \A s \in Senders : probes[s] <= 1

\* "How long it stays parked before being tried again": nobody's first choice is a
\* parked sender while another one could be asked.
ParkedIsNotTried == wasted = {}

\* "on_timeout: false -- never retry an unclear outcome, avoids duplicates"
UnclearNeverResent ==
  ~OnTimeout => \A a, b \in took : a[1] = b[1] /\ a[2] = b[2] => a[3] = b[3]

\* "Prefer healthy senders": a preference, so that a recipient some sender may
\* automatically serve is not left without one.
SomeSenderPreferred == Weighted # {} => unrouted = {}
=============================================================================
