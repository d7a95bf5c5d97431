-------------------------- MODULE IsolatingForward --------------------------
(***************************************************************************)
(* forwardFreshchatReceiptsIsolating of                                    *)
(* src/events/freshchat/receipt-forwarder.ts: one run over a list of       *)
(* receipts.  A batch the receiver refuses outright is split in halves     *)
(* until the refused receipts are on their own.  The call stack of the     *)
(* recursion is the sequence `todo` of intervals still to be forwarded,    *)
(* the next one first; every HTTP attempt of forwardFreshchatReceipts is a *)
(* step, because the receiver may change its mind between two of them.     *)
(***************************************************************************)
EXTENDS Integers, Sequences, FiniteSets, SequencesExt

CONSTANTS
  N,           \* number of receipts
  MaxRetries,  \* MAX_RETRIES
  MaxDown      \* bound on attempts that meet a passing failure

SizeAssumption == N \in Nat /\ MaxRetries \in Nat /\ MaxDown \in Nat

VARIABLES
  kind,      \* kind[i]: what the receiver has to say of receipt i
  endpoint,  \* how the receipts URL and secret are configured, for the whole run
  todo,      \* batches to forward: <<first, last>>
  attempt,   \* attempts made for the first of them
  down,      \* attempts so far that met a passing failure
  accepted,  \* out.accepted, in the order they were accepted
  rejected, failed,
  done

vars == <<kind, endpoint, todo, attempt, down, accepted, rejected, failed, done>>

Receipt == 1 .. N

\* "named": refused with an answer RECEIPT_REFUSAL matches; "unnamed": with another 4xx.
Kinds == {"good", "named", "unnamed"}

\* "wrong": a 4xx for every request; "forbidden": 401 or 403; "unset": no URL or secret.
Endpoints == {"right", "wrong", "forbidden", "unset"}

Init ==
  /\ kind \in [Receipt -> Kinds]
  /\ endpoint \in Endpoints
  /\ todo = IF N = 0 THEN <<>> ELSE << <<1, N>> >>
  /\ attempt = 0 /\ down = 0
  /\ accepted = <<>> /\ rejected = {} /\ failed = {}
  /\ done = FALSE

-----------------------------------------------------------------------------
Batch == Head(todo)[1] .. Head(todo)[2]

Sorted(lo, hi) == [i \in 1 .. (hi - lo + 1) |-> lo + i - 1]

Answered(rest) ==
  /\ todo' = rest
  /\ attempt' = 0
  /\ UNCHANGED <<kind, endpoint, down, done>>

Waiting == ~done /\ todo # <<>>

\* A 2xx: the receiver refuses a batch as a whole if any receipt in it is bad.
Accept ==
  /\ Waiting
  /\ endpoint = "right" /\ \A i \in Batch : kind[i] = "good"
  /\ accepted' = accepted \o Sorted(Head(todo)[1], Head(todo)[2])
  /\ Answered(Tail(todo))
  /\ UNCHANGED <<rejected, failed>>

Refused ==
  \/ endpoint = "wrong"
  \/ endpoint = "right" /\ \E i \in Batch : kind[i] # "good"

\* A 4xx other than 401, 403 and 429 for one receipt.
Isolate ==
  /\ Waiting
  /\ Refused
  /\ Cardinality(Batch) = 1
  /\ rejected' = rejected \cup Batch
  /\ Answered(Tail(todo))
  /\ UNCHANGED <<accepted, failed>>

\* Mutants of Split: the first "half" is the whole batch; the later half first; the
\* middle receipt in neither half.
SplitWhole ==
  /\ Waiting
  /\ Refused
  /\ Cardinality(Batch) > 1
  /\ Answered(todo)
  /\ UNCHANGED <<accepted, rejected, failed>>

SplitGap ==
  LET lo == Head(todo)[1]
      hi == Head(todo)[2]
      mid == lo + (hi - lo) \div 2
  IN  /\ Waiting
      /\ Refused
      /\ lo < hi
      /\ Answered((IF mid = lo THEN << <<mid + 1, hi>> >> ELSE << <<lo, mid - 1>>, <<mid + 1, hi>> >>) \o Tail(todo))
      /\ UNCHANGED <<accepted, rejected, failed>>

\* ... and for several: both halves, the earlier one first and the larger.
Split ==
  LET lo == Head(todo)[1]
      hi == Head(todo)[2]
      mid == lo + (hi - lo) \div 2
  IN  /\ Waiting
      /\ Refused
      /\ lo < hi
      /\ Answered(<< <<lo, mid>>, <<mid + 1, hi>> >> \o Tail(todo))
      /\ UNCHANGED <<accepted, rejected, failed>>

\* 401, 403, or nothing to send with: the batch fails without a retry.
Deny ==
  /\ Waiting
  /\ endpoint \in {"forbidden", "unset"}
  /\ failed' = failed \cup Batch
  /\ Answered(Tail(todo))
  /\ UNCHANGED <<accepted, rejected>>

\* 5xx, 429 or a network error: the same body again, MAX_RETRIES times.
Retry ==
  /\ Waiting
  /\ endpoint # "unset"
  /\ down < MaxDown /\ attempt < MaxRetries
  /\ down' = down + 1
  /\ attempt' = attempt + 1
  /\ UNCHANGED <<kind, endpoint, todo, accepted, rejected, failed, done>>

GiveUp ==
  /\ Waiting
  /\ endpoint # "unset"
  /\ down < MaxDown /\ attempt = MaxRetries
  /\ down' = down + 1
  /\ failed' = failed \cup Batch
  /\ todo' = Tail(todo)
  /\ attempt' = 0
  /\ UNCHANGED <<kind, endpoint, accepted, rejected, done>>

Unproven ==
  IF accepted = <<>>
    THEN {i \in rejected : ~(endpoint = "right" /\ kind[i] = "named")}
    ELSE {}

\* A refusal counts only with proof it is about the receipt.
Finish ==
  /\ ~done /\ todo = <<>>
  /\ done' = TRUE
  /\ rejected' = rejected \ Unproven
  /\ failed' = failed \cup Unproven
  /\ UNCHANGED <<kind, endpoint, todo, attempt, down, accepted>>

Next == Accept \/ Isolate \/ Split \/ Deny \/ Retry \/ GiveUp \/ Finish

Spec == Init /\ [][Next]_vars

\* fetch settles in the end and the loop goes on.
FairSpec == Spec /\ WF_vars(Next)

-----------------------------------------------------------------------------
Pending == UNION {b[1] .. b[2] : b \in ToSet(todo)}

\* Every receipt is in exactly one place, at any point of the recursion: none is
\* dropped by a split and none is sent in two halves.
Conserved ==
  /\ Receipt = Pending \cup ToSet(accepted) \cup rejected \cup failed
  /\ Pending \cap (ToSet(accepted) \cup rejected \cup failed) = {}
  /\ ToSet(accepted) \cap (rejected \cup failed) = {} /\ rejected \cap failed = {}
  /\ Cardinality(ToSet(accepted)) = Len(accepted)

\* "One bad receipt cannot sink the rest": without passing failures, and with the
\* endpoint configured right, exactly the good receipts are accepted.
OnlyRefusedAreLost ==
  done /\ down = 0 /\ endpoint = "right" => ToSet(accepted) = {i \in Receipt : kind[i] = "good"}

\* "Dropping every message because the endpoint is misconfigured would lose them
\* all": a good receipt is never dropped, only failed and retried.
GoodNeverRejected == done => \A i \in rejected : endpoint = "right" /\ kind[i] # "good"

\* "Everything else still goes through, in order", so that `delivered` precedes
\* `read` at the receiver.
AcceptedInOrder == \A i, j \in 1 .. Len(accepted) : i < j => accepted[i] < accepted[j]

\* The recursion ends, whatever the receiver answers.
Terminates == <>done
=============================================================================
