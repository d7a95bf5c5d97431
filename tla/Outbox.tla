------------------------------- MODULE Outbox -------------------------------
(***************************************************************************)
(* The durable analytics outbox: src/events/outbox.ts over the table       *)
(* access of src/db/repos/outbox.ts, driven by the flusher timer           *)
(* (forward.mode batched) or by each caller (forward.mode sync) of         *)
(* src/events/index.ts, and swept by src/db/retention.ts.                  *)
(*                                                                         *)
(* A worker is one running call of deliverDueBatch.  Its awaits split it   *)
(* into the steps Select, Mark, Post and Settle; other workers, callers    *)
(* that enqueue, the retention sweep and a crash run between them.  The    *)
(* clock is relative: wait[r] is the time left until next_attempt_at and   *)
(* age[w] the time since the `now` its batch started with, so the model is *)
(* finite without bounding time.  The jitter of the backoff is below one   *)
(* tick.                                                                   *)
(***************************************************************************)
EXTENDS Integers, FiniteSets, FiniteSetsExt

CONSTANTS
  Rows,         \* the outbox rows, one per event
  Dests,        \* destinations: (callback url, campaign, organization)
  Dest,         \* Dest[r]: the destination of a row
  Workers,      \* calls of deliverDueBatch that may overlap in the process
  Mode,         \* forward.mode
  BatchLimit,   \* rows one call selects
  MaxAttempts,  \* DISPATCHER_OUTBOX_MAX_ATTEMPTS
  Lease,        \* DELIVERING_LEASE_MS, in ticks
  BackoffBase,  \* BACKOFF_BASE_MS, in ticks
  BackoffCap,   \* BACKOFF_CAP_MS, in ticks
  MaxFaults,    \* bound on crashes, database errors and lost answers
  AttemptBound  \* bound on the attempts column of a row that is selected

ASSUME DestAssumption == Dest \in [Rows -> Dests]
ASSUME ModeAssumption == Mode \in {"batched", "sync"}
ASSUME LimitAssumption == BatchLimit \in Nat \ {0} /\ MaxAttempts \in Nat \ {0}
ASSUME TimeAssumption ==
  Lease \in Nat \ {0} /\ BackoffBase \in Nat \ {0} /\ BackoffCap \in Nat \ {0}
ASSUME BoundAssumption == MaxFaults \in Nat /\ AttemptBound \in Nat

VARIABLES
  \* event_outbox
  status, attempts, wait, created,
  \* the local variables of each deliverDueBatch call
  pc, batch, snap, group, result, age,
  calls,     \* enqueue calls so far: created_at, as an order
  kicks,     \* sync mode: callers about to run deliverDueBatch
  faults,    \* crashes, database errors and lost answers so far
  \* history
  posted,    \* POSTs that carried the row
  received,  \* rows the receiver has
  repeated,  \* rows the receiver was given more than once
  terminal   \* rows a batch gave up on

table == <<status, attempts, wait, created>>
locals == <<pc, batch, snap, group, result, age>>
history == <<posted, received, repeated, terminal>>
vars == <<table, locals, calls, kicks, faults, history>>

-----------------------------------------------------------------------------
Present(r) == status[r] \notin {"absent", "gone"}

\* Mutants of Due: the stuck "delivering" rows forgotten; settled rows not excluded.
DuePendingOnly == {r \in Rows : status[r] = "pending" /\ wait[r] = 0}
DueWhateverStatus == {r \in Rows : status[r] \notin {"absent", "gone", "failed"} /\ wait[r] = 0}

\* `or(pending, delivering) and next_attempt_at <= now`
Due == {r \in Rows : status[r] \in {"pending", "delivering"} /\ wait[r] = 0}

\* What selectDueOutbox may return: the oldest BatchLimit due rows, a tie in
\* created_at broken by a random id.
DueBatch(S) ==
  /\ S \subseteq Due
  /\ Cardinality(S) <= BatchLimit
  /\ Cardinality(S) < BatchLimit => S = Due
  /\ \A r \in S, q \in Due \ S : created[r] <= created[q]

\* min(base * 2 ^ max(0, attempts - 1), cap)
Backoff(n) ==
  LET raw == BackoffBase * 2 ^ (n - 1)
  IN  IF raw \in 0 .. BackoffCap THEN raw ELSE BackoffCap

\* A deadline set `delay` after the start of w's batch, seen from the present.
Remaining(delay, w) == IF age[w] < delay THEN delay - age[w] ELSE 0

MaxAge == IF Lease < BackoffCap THEN BackoffCap ELSE Lease

Init ==
  /\ status = [r \in Rows |-> "absent"]
  /\ attempts = [r \in Rows |-> 0]
  /\ wait = [r \in Rows |-> 0]
  /\ created = [r \in Rows |-> 0]
  /\ pc = [w \in Workers |-> "idle"]
  /\ batch = [w \in Workers |-> {}]
  /\ snap = [w \in Workers |-> [r \in Rows |-> 0]]
  /\ group = [w \in Workers |-> {}]
  /\ result = [w \in Workers |-> "none"]
  /\ age = [w \in Workers |-> 0]
  /\ calls = 0 /\ kicks = 0 /\ faults = 0
  /\ posted = [r \in Rows |-> 0]
  /\ received = {} /\ repeated = {} /\ terminal = {}

-----------------------------------------------------------------------------
(***************************************************************************)
(* enqueueEvents: one insert of all the rows of a call, due at once.  In   *)
(* sync mode the caller then runs deliverDueBatch itself.                  *)
(***************************************************************************)
Enqueue(S) ==
  /\ S # {}
  /\ \A r \in S : status[r] = "absent"
  /\ status' = [r \in Rows |-> IF r \in S THEN "pending" ELSE status[r]]
  /\ created' = [r \in Rows |-> IF r \in S THEN calls + 1 ELSE created[r]]
  /\ calls' = calls + 1
  /\ kicks' = IF Mode = "sync" THEN kicks + 1 ELSE kicks
  /\ UNCHANGED <<attempts, wait, locals, faults, history>>

(***************************************************************************)
(* deliverDueBatch up to its first await: the timer (every tick of         *)
(* setInterval, whether or not the last batch has finished) or a caller    *)
(* starts a worker, which remembers the rows and their attempts.           *)
(***************************************************************************)
Select(w) ==
  /\ pc[w] = "idle"
  /\ Mode = "sync" => kicks > 0
  /\ kicks' = IF Mode = "sync" THEN kicks - 1 ELSE kicks
  /\ \E S \in SUBSET Due :
       /\ DueBatch(S)
       /\ \A r \in S : attempts[r] < AttemptBound
       /\ batch' = [batch EXCEPT ![w] = S]
       /\ snap' = [snap EXCEPT ![w] = [r \in Rows |-> IF r \in S THEN attempts[r] ELSE 0]]
       /\ pc' = [pc EXCEPT ![w] = IF S = {} THEN "idle" ELSE "mark"]
  /\ UNCHANGED <<table, group, result, age, calls, faults, history>>

\* Mutant of Mark: the attempt is not counted when the batch is claimed.
MarkUncounted(w) ==
  LET hit == {r \in batch[w] : Present(r)}
  IN  /\ pc[w] = "mark"
      /\ status' = [r \in Rows |-> IF r \in hit THEN "delivering" ELSE status[r]]
      /\ wait' = [r \in Rows |-> IF r \in hit THEN Remaining(Lease, w) ELSE wait[r]]
      /\ pc' = [pc EXCEPT ![w] = "post"]
      /\ UNCHANGED <<attempts, created, batch, snap, group, result, age, calls, kicks, faults, history>>

(***************************************************************************)
(* markOutboxDelivering: by id alone, whatever has become of the row since *)
(* it was selected.                                                        *)
(***************************************************************************)
Mark(w) ==
  LET hit == {r \in batch[w] : Present(r)}
  IN  /\ pc[w] = "mark"
      /\ status' = [r \in Rows |-> IF r \in hit THEN "delivering" ELSE status[r]]
      /\ wait' = [r \in Rows |-> IF r \in hit THEN Remaining(Lease, w) ELSE wait[r]]
      /\ attempts' = [r \in Rows |-> IF r \in hit THEN attempts[r] + 1 ELSE attempts[r]]
      /\ pc' = [pc EXCEPT ![w] = "post"]
      /\ UNCHANGED <<created, batch, snap, group, result, age, calls, kicks, faults, history>>

\* groupDueRows: the rows of one destination, the destination of the oldest
\* remaining row first.
NextGroup(w, G) ==
  \E first \in batch[w] :
    /\ \A r \in batch[w] : created[first] <= created[r]
    /\ G = {r \in batch[w] : Dest[r] = Dest[first]}

(***************************************************************************)
(* postAnalyticsWithRetry(..., 0): one signed POST of the whole group.     *)
(*   ok       the receiver has the events and its 2xx arrives              *)
(*   lost     the receiver has them, its answer does not arrive            *)
(*   refused  a 4xx other than 429                                         *)
(*   down     5xx, 429, network error, missing secret, untrusted URL       *)
(***************************************************************************)
Answers == {"ok", "lost", "refused", "down"}

Post(w) ==
  \E G \in SUBSET batch[w], answer \in Answers :
    /\ pc[w] = "post"
    /\ NextGroup(w, G)
    /\ answer = "lost" => faults < MaxFaults
    /\ faults' = IF answer = "lost" THEN faults + 1 ELSE faults
    /\ posted' = [r \in Rows |-> IF r \in G THEN posted[r] + 1 ELSE posted[r]]
    /\ IF answer \in {"ok", "lost"}
         THEN /\ received' = received \cup G
              /\ repeated' = repeated \cup (G \cap received)
         ELSE UNCHANGED <<received, repeated>>
    /\ group' = [group EXCEPT ![w] = G]
    /\ result' = [result EXCEPT ![w] = answer]
    /\ pc' = [pc EXCEPT ![w] = "settle"]
    /\ UNCHANGED <<table, batch, snap, age, calls, kicks, terminal>>

\* The next group of the batch, or the end of the call.
Advance(w, rest) ==
  /\ batch' = [batch EXCEPT ![w] = rest]
  /\ pc' = [pc EXCEPT ![w] = IF rest = {} THEN "idle" ELSE "post"]
  /\ snap' = [snap EXCEPT ![w] = [r \in Rows |-> IF r \in rest THEN snap[w][r] ELSE 0]]
  /\ age' = [age EXCEPT ![w] = IF rest = {} THEN 0 ELSE age[w]]
  /\ group' = [group EXCEPT ![w] = {}]
  /\ result' = [result EXCEPT ![w] = "none"]

\* Mutants of SettleDelivered: the rows are left "delivering"; a 4xx is settled
\* as if the receiver had taken the events.
SettleForgotten(w) ==
  /\ pc[w] = "settle"
  /\ result[w] = "ok"
  /\ Advance(w, batch[w] \ group[w])
  /\ UNCHANGED <<table, calls, kicks, faults, history>>

SettleRefusedAsDelivered(w) ==
  /\ pc[w] = "settle"
  /\ result[w] \in {"ok", "refused"}
  /\ status' = [r \in Rows |->
       IF r \in group[w] /\ Present(r) THEN "delivered" ELSE status[r]]
  /\ Advance(w, batch[w] \ group[w])
  /\ UNCHANGED <<attempts, wait, created, calls, kicks, faults, history>>

(***************************************************************************)
(* markOutboxDelivered: by id alone.                                       *)
(***************************************************************************)
SettleDelivered(w) ==
  /\ pc[w] = "settle"
  /\ result[w] = "ok"
  /\ status' = [r \in Rows |->
       IF r \in group[w] /\ Present(r) THEN "delivered" ELSE status[r]]
  /\ Advance(w, batch[w] \ group[w])
  /\ UNCHANGED <<attempts, wait, created, calls, kicks, faults, history>>

(***************************************************************************)
(* markOutboxFailedAttempt: the attempt count is the highest one among the *)
(* group's rows when the batch was selected, plus one; it decides for all  *)
(* of them, and counts the backoff from the start of the batch.            *)
(***************************************************************************)
GroupAttempts(w) == Max({snap[w][r] : r \in group[w]}) + 1

SettleFailed(w) ==
  LET hit == {r \in group[w] : Present(r)}
      giveUp == GroupAttempts(w) >= MaxAttempts
  IN  /\ pc[w] = "settle"
      /\ result[w] # "ok"
      /\ status' = [r \in Rows |->
           IF r \in hit THEN IF giveUp THEN "failed" ELSE "pending" ELSE status[r]]
      /\ wait' = [r \in Rows |->
           IF r \in hit THEN Remaining(Backoff(GroupAttempts(w)), w) ELSE wait[r]]
      /\ terminal' = IF giveUp THEN terminal \cup hit ELSE terminal
      /\ Advance(w, batch[w] \ group[w])
      /\ UNCHANGED <<attempts, created, calls, kicks, faults, posted, received, repeated>>

-----------------------------------------------------------------------------
(***************************************************************************)
(* A database call of a worker throws: deliverDueBatch rejects and the     *)
(* rest of its batch waits for the lease.  In sync mode the same may       *)
(* happen to a caller before it selects anything.                          *)
(***************************************************************************)
WorkerFails(w) ==
  /\ pc[w] \in {"mark", "settle"}
  /\ faults < MaxFaults
  /\ faults' = faults + 1
  /\ Advance(w, {})
  /\ UNCHANGED <<table, calls, kicks, history>>

CallerFails ==
  /\ kicks > 0
  /\ faults < MaxFaults
  /\ faults' = faults + 1
  /\ kicks' = kicks - 1
  /\ UNCHANGED <<table, locals, calls, history>>

(***************************************************************************)
(* The process dies and restarts: the table survives, every call does not. *)
(***************************************************************************)
Crash ==
  /\ faults < MaxFaults
  /\ faults' = faults + 1
  /\ kicks' = 0
  /\ pc' = [w \in Workers |-> "idle"]
  /\ batch' = [w \in Workers |-> {}]
  /\ snap' = [w \in Workers |-> [r \in Rows |-> 0]]
  /\ group' = [w \in Workers |-> {}]
  /\ result' = [w \in Workers |-> "none"]
  /\ age' = [w \in Workers |-> 0]
  /\ UNCHANGED <<table, calls, history>>

\* Mutant of Sweep: the status condition of the delete is dropped.
SweepAnyStatus(r) ==
  /\ Present(r)
  /\ status' = [status EXCEPT ![r] = "gone"]
  /\ wait' = [wait EXCEPT ![r] = 0]
  /\ UNCHANGED <<attempts, created, locals, calls, kicks, faults, history>>

(***************************************************************************)
(* runRetentionSweep: delivered and failed rows past their age.  The age   *)
(* is left open: any settled row may be old.                               *)
(***************************************************************************)
Sweep(r) ==
  /\ status[r] \in {"delivered", "failed"}
  /\ status' = [status EXCEPT ![r] = "gone"]
  /\ wait' = [wait EXCEPT ![r] = 0]
  /\ UNCHANGED <<attempts, created, locals, calls, kicks, faults, history>>

(***************************************************************************)
(* Time passes for the deadlines of the table and for running batches.     *)
(***************************************************************************)
Tick ==
  /\ wait' = [r \in Rows |-> IF wait[r] > 0 THEN wait[r] - 1 ELSE 0]
  /\ age' = [w \in Workers |->
       IF pc[w] # "idle" /\ age[w] < MaxAge THEN age[w] + 1 ELSE age[w]]
  /\ UNCHANGED <<status, attempts, created, pc, batch, snap, group, result,
                 calls, kicks, faults, history>>

Run(w) == Mark(w) \/ Post(w) \/ SettleDelivered(w) \/ SettleFailed(w)

Next ==
  \/ \E S \in SUBSET Rows : Enqueue(S)
  \/ \E w \in Workers : Select(w)
  \/ \E w \in Workers : Mark(w)
  \/ \E w \in Workers : Post(w)
  \/ \E w \in Workers : SettleDelivered(w)
  \/ \E w \in Workers : SettleFailed(w)
  \/ \E w \in Workers : WorkerFails(w)
  \/ CallerFails
  \/ Crash
  \/ \E r \in Rows : Sweep(r)
  \/ Tick

Spec == Init /\ [][Next]_vars

(***************************************************************************)
(* The clock advances, a started batch goes on (fetch gives up by itself   *)
(* in the end) and the timer, or a waiting caller, starts the next one.    *)
(* Nothing is assumed of the receiver, of crashes or of the sweep.         *)
(***************************************************************************)
Fairness ==
  /\ WF_vars(Tick)
  /\ \A w \in Workers : WF_vars(Run(w))
  /\ WF_vars(\E w \in Workers : Select(w))

FairSpec == Spec /\ Fairness

-----------------------------------------------------------------------------
Statuses == {"absent", "pending", "delivering", "delivered", "failed", "gone"}

\* Every variable holds a value of its type; no deadline is negative.
TypeOK ==
  /\ status \in [Rows -> Statuses]
  /\ attempts \in [Rows -> Nat] /\ wait \in [Rows -> Nat] /\ created \in [Rows -> Nat]
  /\ pc \in [Workers -> {"idle", "mark", "post", "settle"}]
  /\ batch \in [Workers -> SUBSET Rows] /\ group \in [Workers -> SUBSET Rows]
  /\ snap \in [Workers -> [Rows -> Nat]]
  /\ result \in [Workers -> Answers \cup {"none"}]
  /\ age \in [Workers -> Nat]
  /\ calls \in Nat /\ kicks \in Nat /\ faults \in Nat
  /\ posted \in [Rows -> Nat]
  /\ received \subseteq Rows /\ repeated \subseteq Rows /\ terminal \subseteq Rows

\* A row is marked delivered only if the receiver really has its event, however
\* batches, lease expiries and settlements interleave (markOutboxDelivered runs
\* by id, an await after the POST it reports).
DeliveredWasReceived == \A r \in Rows : status[r] = "delivered" => r \in received

\* Events are persisted before delivery, so a restart mid-flight loses nothing:
\* an accepted event the receiver lacks is still a live row, or was given up on
\* by a terminal attempt, and the retention sweep never takes a row of another
\* kind.
NothingLost ==
  \A r \in Rows :
    \/ status[r] \in {"absent", "pending", "delivering"}
    \/ r \in received
    \/ r \in terminal

\* The inductive invariant behind both: what a settled status means, that a 2xx
\* held by a worker is the receiver's own, and that batches and the receiver only
\* ever hold rows that were enqueued.
ReceiptInv ==
  /\ \A r \in Rows :
       /\ status[r] = "delivered" => r \in received
       /\ status[r] = "failed" => r \in terminal
       /\ status[r] = "gone" => r \in received \cup terminal
       /\ status[r] = "absent" => r \notin received
  /\ \A w \in Workers :
       /\ result[w] = "ok" => group[w] \subseteq received
       /\ pc[w] # "settle" => group[w] = {} /\ result[w] = "none"
       /\ group[w] \subseteq batch[w]
       /\ \A r \in batch[w] : status[r] # "absent"

\* The retry budget is honest: a row still in the table was never POSTed more
\* often than its attempts column says, whatever crashed, overlapped or timed
\* out, because every batch counts its attempt before its POST.
EveryPostCounted == \A r \in Rows : Present(r) => posted[r] <= attempts[r]

\* While batches do not overlap, the receiver is given an event twice only
\* after a fault: a crash, a database error or a lost answer.
RepeatedOnlyAfterFault == repeated # {} => faults > 0

\* While batches do not overlap, delivered is final: a settled row is only
\* swept, never retried.
DeliveredIsFinal ==
  [][\A r \in Rows : status[r] = "delivered" => status'[r] \in {"delivered", "gone"}]_vars

\* Every accepted event is received or given up on in the end (batched mode: the
\* timer keeps starting batches and a crash only costs the lease).
EventuallySettled ==
  \A r \in Rows :
    (status[r] = "pending") ~> (r \in received \/ r \in terminal)

\* The outbox implements the promise of AnalyticsDelivery: a live row the receiver
\* lacks is owed, a failed one (until and after it is swept) is abandoned, and no
\* step of any interleaving takes an event from one side to another unpromised.
Owed == {r \in Rows : status[r] \in {"pending", "delivering"} /\ r \notin received}
Abandoned ==
  {r \in Rows : /\ r \notin received
                /\ status[r] = "failed" \/ (status[r] = "gone" /\ r \in terminal)}

Promise == INSTANCE AnalyticsDelivery
  WITH Event <- Rows, owed <- Owed, received <- received, abandoned <- Abandoned

ImplementsPromise == Promise!Safety

-----------------------------------------------------------------------------
(***************************************************************************)
(* Statements of comments and docs that the code does not meet.            *)
(***************************************************************************)
\* "While a batch is in flight, don't re-pick it for this long."
Held(w) == IF pc[w] \in {"post", "settle"} /\ age[w] < Lease THEN batch[w] ELSE {}

NotRepickedWhileInFlight ==
  \A w, v \in Workers : w # v => Held(w) \cap Held(v) = {}

\* "delivery attempts before an event is marked failed": a row is given up on
\* only after MaxAttempts attempts of its own.
FailedOnlyAfterMaxAttempts ==
  \A r \in Rows : status[r] = "failed" => attempts[r] >= MaxAttempts

\* "4xx (except 429): Permanent. Not retried."
PermanentNotRetried ==
  [][\A w \in Workers :
       pc[w] = "settle" /\ result[w] = "refused" /\ pc'[w] # "settle" =>
         \A r \in group[w] : status'[r] = "pending" => status[r] = "pending"]_vars
=============================================================================
