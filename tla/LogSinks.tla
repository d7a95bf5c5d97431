------------------------------ MODULE LogSinks ------------------------------
(***************************************************************************)
(* The two sinks behind the logger: DbLogSink (src/logging/db-sink.ts), a  *)
(* buffer of rows with one insert in flight, and LogWebhookSink            *)
(* (webhook-sink.ts) with at most MAX_INFLIGHT deliveries, whose settings  *)
(* are the snapshot of webhook-config.ts; and the ways the process ends    *)
(* (src/server-start.ts).  A line is its number; of its content the model  *)
(* keeps only whether the webhook's level filter lets it pass.             *)
(***************************************************************************)
EXTENDS Naturals, Sequences, FiniteSets, SequencesExt

CONSTANTS
  FlushRows, MaxPending, MaxInflight,  \* FLUSH_ROWS, MAX_PENDING, MAX_INFLIGHT
  MaxLines, MaxLogFaults               \* bounds: lines written, failed inserts

SinkAssumption ==
  /\ FlushRows \in Nat \ {0} /\ MaxPending \in Nat \ {0} /\ MaxInflight \in Nat
  /\ MaxLines \in Nat /\ MaxLogFaults \in Nat

VARIABLES
  dbUp,      \* isDbInitialized
  buffer,    \* rows not handed over yet
  flight,    \* the batch of the insert in flight: flushing, << >> for none
  timer,     \* the FLUSH_MS timer is set
  hook,      \* the snapshot: the webhook is enabled, with a url
  stored,    \* meta: what the table says of the webhook
  inflight, open,  \* the counter, and the deliveries it counts
  table,     \* app_logs
  phase,     \* of the process: "run", "ending" (flushed once, waits), "exited"
  awaited,   \* the promise the end waits for is that of the insert in flight
  written, logFaults,
  \* history
  lost,      \* line -> why it will never be stored
  endedAt,   \* the last line written before the end began, 0 before it
  quiet      \* no insert was in flight then

logVars == <<dbUp, buffer, flight, timer, hook, stored, inflight, open, table,
             phase, awaited, written, logFaults, lost, endedAt, quiet>>

ends == <<endedAt, quiet>>

Lines == 1..written

LogInit ==
  /\ dbUp = FALSE /\ buffer = << >> /\ flight = << >> /\ timer = FALSE
  /\ hook = FALSE /\ stored \in BOOLEAN
  /\ inflight = 0 /\ open = {}
  /\ table = {} /\ phase = "run" /\ awaited = FALSE
  /\ written = 0 /\ logFaults = 0 /\ lost = << >> /\ endedAt = 0 /\ quiet = TRUE

Losing(lines, why) == [l \in DOMAIN lost \cup lines |-> IF l \in lines THEN why ELSE lost[l]]

\* Mutant of HandOver: the batch is read and not taken out of the buffer.
HandOverCopy(rows) ==
  IF flight # << >> \/ ~dbUp \/ rows = << >>
    THEN buffer' = rows /\ flight' = flight
    ELSE buffer' = rows /\ flight' = rows

\* DbLogSink.flush: nothing while an insert is in flight, without a database or
\* without rows; else the whole buffer goes.
HandOver(rows) ==
  IF flight # << >> \/ ~dbUp \/ rows = << >>
    THEN buffer' = rows /\ flight' = flight
    ELSE buffer' = << >> /\ flight' = rows

\* The rows kept when the buffer grows past MAX_PENDING: the newest.
Capped(rows) == IF Len(rows) > MaxPending THEN SubSeq(rows, Len(rows) - MaxPending + 1, Len(rows)) ELSE rows

\* One log line reaches both sinks; the sinks take no line back.
Write(passes) ==
  LET line == written + 1
      rows == Append(buffer, line)
  IN
  /\ phase # "exited" /\ written < MaxLines
  /\ written' = line
  /\ IF Len(Capped(rows)) >= FlushRows
       THEN HandOver(Capped(rows)) /\ timer' = timer
       ELSE buffer' = Capped(rows) /\ flight' = flight /\ timer' = TRUE
  /\ lost' = Losing(ToSet(rows) \ ToSet(Capped(rows)), "overflow")
  /\ IF hook /\ passes /\ inflight < MaxInflight
       THEN inflight' = inflight + 1 /\ open' = open \cup {line}
       ELSE UNCHANGED <<inflight, open>>
  /\ UNCHANGED <<dbUp, hook, stored, table, phase, awaited, logFaults, ends>>

\* The timer clears itself and flushes, whether or not the flush does anything.
TimerFires ==
  /\ timer /\ phase # "exited"
  /\ timer' = FALSE
  /\ HandOver(buffer)
  /\ UNCHANGED <<dbUp, hook, stored, inflight, open, table, phase, awaited, written, logFaults, lost, ends>>

\* insertLogs ends; a failure is noted on stderr and the batch is gone.
InsertEnds(ok) ==
  /\ flight # << >> /\ phase # "exited"
  /\ ok \/ logFaults < MaxLogFaults
  /\ IF ok THEN table' = table \cup ToSet(flight) /\ UNCHANGED <<lost, logFaults>>
           ELSE lost' = Losing(ToSet(flight), "insert") /\ logFaults' = logFaults + 1 /\ UNCHANGED table
  /\ flight' = << >>
  /\ awaited' = FALSE
  /\ UNCHANGED <<dbUp, buffer, timer, hook, stored, inflight, open, phase, written, ends>>

\* initDispatcherDb: the database opens, then the webhook's settings are read.
DbOpens ==
  /\ ~dbUp /\ phase = "run"
  /\ dbUp' = TRUE /\ hook' = stored
  /\ UNCHANGED <<buffer, flight, timer, stored, inflight, open, table, phase, awaited, written, logFaults, lost, ends>>

\* saveLogWebhookConfig: the meta row, then the refresh that reads it back; two
\* saves may interleave, each refresh reads the row as it is.
SaveHook(on) ==
  /\ dbUp /\ phase = "run" /\ stored # on
  /\ stored' = on
  /\ UNCHANGED <<dbUp, buffer, flight, timer, hook, inflight, open, table, phase, awaited, written, logFaults, lost, ends>>

RefreshHook ==
  /\ dbUp /\ phase = "run" /\ hook # stored
  /\ hook' = stored
  /\ UNCHANGED <<dbUp, buffer, flight, timer, stored, inflight, open, table, phase, awaited, written, logFaults, lost, ends>>

\* deliverLogWebhook ends: an answer of either kind, an error or the abort after
\* TIMEOUT_MS; finally gives the slot back.
Delivered(line, ok) ==
  /\ line \in open /\ phase # "exited"
  /\ ok \in BOOLEAN
  /\ open' = open \ {line}
  /\ inflight' = inflight - 1
  /\ UNCHANGED <<dbUp, buffer, flight, timer, hook, stored, table, phase, awaited, written, logFaults, lost, ends>>

\* SIGTERM, or an uncaught exception once its line is written: flushLogSink gets
\* the earlier promise if there is one, and a new insert otherwise.
Ending ==
  /\ phase = "run"
  /\ phase' = "ending"
  /\ HandOver(buffer)
  /\ awaited' = (flight' # << >>)
  /\ endedAt' = written /\ quiet' = (flight = << >>)
  /\ UNCHANGED <<dbUp, timer, hook, stored, inflight, open, table, written, logFaults, lost>>

Settled == ~awaited

\* The promise settled: the database is closed and the process exits.
Exit ==
  /\ phase = "ending" /\ Settled
  /\ phase' = "exited"
  /\ lost' = Losing(ToSet(buffer) \cup ToSet(flight), "exit")
  /\ buffer' = << >> /\ flight' = << >>
  /\ UNCHANGED <<dbUp, timer, hook, stored, inflight, open, table, awaited, written, logFaults, ends>>

LogNext ==
  \/ \E passes \in BOOLEAN : Write(passes)
  \/ TimerFires
  \/ \E ok \in BOOLEAN : InsertEnds(ok)
  \/ DbOpens \/ (\E on \in BOOLEAN : SaveHook(on)) \/ RefreshHook
  \/ \E line \in open, ok \in BOOLEAN : Delivered(line, ok)
  \/ Ending \/ Exit

LogSpec == LogInit /\ [][LogNext]_logVars

-----------------------------------------------------------------------------
\* A line is in one place only: waiting, handed over, stored, or lost for a reason
\* the sink knows; so none is stored twice and none disappears, and a row waits
\* behind every row that was handed over before it (db-sink.ts: write, flush).
Places == [buffer |-> ToSet(buffer), flight |-> ToSet(flight), table |-> table, lost |-> DOMAIN lost]

EveryLineOnce ==
  /\ \A l \in Lines : Cardinality({p \in DOMAIN Places : l \in Places[p]}) = 1
  /\ \A i \in 1..Len(flight), j \in 1..Len(buffer) : flight[i] < buffer[j]

\* The webhook's counter is the number of its open deliveries, so that drop on
\* overflow ends when they do (webhook-sink.ts: finally).
SlotsReturned == inflight = Cardinality(open) /\ inflight <= MaxInflight

\* A shutdown that finds no insert in flight stores every line written before it:
\* it ends only when the insert it started has (server-start.ts: shutdown).
QuietEndKeepsLines ==
  phase = "exited" /\ dbUp /\ quiet =>
    \A l \in 1..endedAt : l \in table \/ (l \in DOMAIN lost /\ lost[l] \in {"overflow", "insert"})

SinksSound == EveryLineOnce /\ SlotsReturned /\ QuietEndKeepsLines

\* db-sink.ts: flushLogSink awaits outstanding rows, whatever it finds in flight.
EndKeepsLines ==
  phase = "exited" /\ dbUp =>
    \A l \in 1..endedAt : l \in table \/ (l \in DOMAIN lost /\ lost[l] \in {"overflow", "insert"})

\* FLUSH_MS: a row that waits has a timer, or an insert in flight before it.
WaitsForTimer == dbUp /\ phase = "run" /\ buffer # << >> => timer \/ flight # << >>
=============================================================================
