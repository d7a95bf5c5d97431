------------------------------ MODULE MCOnsite ------------------------------
(***************************************************************************)
(* The parts a person outside the dispatch reaches, in one instance: the   *)
(* onsite offer of a recipient (Onsite), the pages behind the links of an  *)
(* email (Links), the accounts and keys of the console (Accounts), and     *)
(* what they all leave in the logs (LogSinks).  They share no variable: a  *)
(* behaviour steps the part it chose at the start.                         *)
(***************************************************************************)
EXTENDS Onsite, TLC

CONSTANTS
  a1, a2, EachWindow, owner, guest, i1, rotate1, rotate2, revoke,
  Emails, Owner, Invites, To, Visitors, KeyOps, Rotates, MaxAccountFaults,
  FlushRows, MaxPending, MaxInflight, MaxLines, MaxLogFaults,
  Tabs, Categories, LinkSettings, DefaultReasons, LinkRetries, MaxTime, MaxPresses, MaxLinkFaults

VARIABLES
  part,
  users, orgUp, members, invites, boot, accept, key, keyOp, accountFaults, cut,
  removed,
  dbUp, buffer, flight, timer, hook, hookStored, inflight, open, logTable, phase, awaited,
  written, logFaults, lost, endedAt, quiet,
  settings, time, tab, eventRows, taken, linkFaults, picked, presses

MCWindow == [a \in Acts |-> EachWindow]

MCTo == (i1 :> guest)

A == INSTANCE Accounts WITH Browsers <- Visitors

L == INSTANCE LogSinks WITH stored <- hookStored, table <- logTable

MCSettings ==
  {[url |-> "valid", secret |-> TRUE, redirect |-> FALSE, reasons |-> {}],
   [url |-> "invalid", secret |-> TRUE, redirect |-> TRUE, reasons |-> {"own"}],
   [url |-> "unset", secret |-> FALSE, redirect |-> FALSE, reasons |-> {}]}

K == INSTANCE Links WITH stored <- eventRows

ASSUME VisitsAssumption == A!AccountAssumption /\ L!SinkAssumption /\ K!LinksAssumption

\* The offer links have one window, and nothing tells browsers, sessions or requests apart.
MCSymmetry ==
  Permutations(Acts) \cup Permutations(Browsers)
    \cup Permutations(Sessions) \cup Permutations(Requests)

account ==
  <<users, orgUp, members, invites, boot, accept, key, keyOp, accountFaults, cut, removed>>
logs == <<dbUp, buffer, flight, timer, hook, hookStored, inflight, open, logTable, phase, awaited,
          written, logFaults, lost, endedAt, quiet>>
links == <<settings, time, tab, eventRows, taken, linkFaults, picked, presses>>

\* A part that was not chosen has one initial state.
MCInit ==
  /\ part \in {"onsite", "accounts", "logs", "links"}
  /\ Init /\ A!AccountInit /\ L!LogInit /\ K!LinkInit
  /\ part # "logs" => ~hookStored
  /\ part # "links" => settings.url = "unset"

MCNext ==
  \/ part = "onsite" /\ Next /\ UNCHANGED <<part, account, logs, links>>
  \/ part = "accounts" /\ A!AccountNext /\ UNCHANGED <<part, vars, logs, links>>
  \/ part = "logs" /\ L!LogNext /\ UNCHANGED <<part, vars, account, links>>
  \/ part = "links" /\ K!LinkNext /\ UNCHANGED <<part, vars, account, logs>>

MCSpec == MCInit /\ [][MCNext]_<<part, vars, account, logs, links>>

\* Accounts are members, short of a sequence that was cut, and a revoked key stays
\* dead (auth/accept.ts, seed.ts, api-keys.ts).
AccountsHold == part = "accounts" => A!AccountsHold

\* No log line is stored twice or vanishes, slots are given back, and a quiet
\* shutdown loses nothing (logging/db-sink.ts, webhook-sink.ts).
SinksSound == part = "logs" => L!SinksSound

\* Nobody is stopped from more than they asked, a save is stored whole, and who is
\* told that mails stop has been reported (unsubscribe/link.ts, preferences/link.ts).
LinksHold == part = "links" => K!LinksHold
-----------------------------------------------------------------------------
(* Statements the code does not meet, each false in this instance (the       *)
(* README quotes them); so is OpenLinkHasItsOffer of Onsite.                 *)
EndKeepsLines == part = "logs" => L!EndKeepsLines
WaitsForTimer == part = "logs" => L!WaitsForTimer
UpIsUsable == part = "accounts" => A!UpIsUsable
CreatedCanJoin == part = "accounts" => A!CreatedCanJoin
ToldIsTrue == part = "links" => K!ToldIsTrue
SavedWithoutCampaign == part = "links" => K!SavedWithoutCampaign
=============================================================================
