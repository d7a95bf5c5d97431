-------------------------------- MODULE Links --------------------------------
(***************************************************************************)
(* The two pages behind the links of an email: the unsubscribe survey      *)
(* (src/unsubscribe/link.ts, reasons.ts) and the preferences               *)
(* (src/preferences/link.ts).  Nobody is signed in; the page itself        *)
(* carries the user and the campaign.  A press of a button stores its      *)
(* events (src/events/persist.ts), posts them to ScaleMargin without the   *)
(* outbox (postAnalyticsWithRetry of src/events/forwarder.ts) and answers. *)
(* Of ScaleMargin the model keeps the events it took.                      *)
(***************************************************************************)
EXTENDS Naturals, FiniteSets, Functions

CONSTANTS
  Tabs,            \* browser tabs of one recipient
  Categories,      \* PREFERENCE_CATEGORIES
  LinkSettings,    \* what the settings may be: [url, secret, redirect, reasons]
  DefaultReasons,  \* ids of DEFAULT_REASONS
  LinkRetries,     \* MAX_RETRIES
  MaxTime, MaxPresses, MaxLinkFaults   \* bounds

LinksAssumption ==
  /\ LinkRetries \in Nat /\ {MaxTime, MaxPresses, MaxLinkFaults} \subseteq Nat
  /\ Categories \cap {"all", "inferred"} = {}

VARIABLES
  settings,
  time,       \* Date.now()
  tab,        \* tab -> the page it shows and what became of the last press
  stored,     \* campaign_events: [key, event, stopped]
  taken,      \* events ScaleMargin took
  linkFaults,
  \* history
  picked,     \* what somebody asked to be stopped: boxes unticked, or "all"
  presses     \* the times of the presses so far, one element for each

linkVars == <<settings, time, tab, stored, taken, linkFaults, picked, presses>>

NoPage == [pc |-> "closed", page |-> "none", correlated |-> FALSE, off |-> {}, all |-> FALSE,
           reason |-> "none", at |-> 0, attempt |-> 0, told |-> "none", saved |-> FALSE, refused |-> FALSE]

\* getUnsubscribeReasons: what does not parse, or holds nothing, leaves the defaults.
OfferedReasons == IF settings.reasons = {} THEN DefaultReasons ELSE settings.reasons

-----------------------------------------------------------------------------
(* The events of a press. *)

\* The link leaves the scope to the backend, the page never does.
Scopes(p) ==
  IF p.page = "unsubscribe" THEN {"inferred"} ELSE IF p.all THEN {"all"} ELSE p.off

\* Mutant of MessageId: the category is not hashed.
MessageIdOfSave(p, scope) == <<p.page, p.at>>

\* provider_message_id of an unsubscribed event.
MessageId(p, scope) == <<p.page, IF p.page = "unsubscribe" THEN p.reason ELSE scope, p.at>>

\* computeDedupeKey: these events never carry an idempotency key.
Unsubscribed(p) ==
  {[event |-> "unsubscribed", key |-> <<MessageId(p, s), "unsubscribed", p.at>>, stopped |-> {s}] : s \in Scopes(p)}
PreferenceUpdate(p) ==
  [event |-> "preference_update", key |-> << <<p.page, p.at>>, "preference_update", p.at>>,
   stopped |-> IF p.all THEN Categories ELSE p.off]
Events(p) == Unsubscribed(p) \cup (IF p.page = "preferences" THEN {PreferenceUpdate(p)} ELSE {})

CanProxy(p) == settings.url # "unset" /\ settings.secret /\ p.correlated

\* The answer: a failed post changes nothing about it.
Message(p) ==
  CASE settings.redirect -> "redirected"
    [] ~settings.redirect /\ ~CanProxy(p) -> "received"
    [] ~settings.redirect /\ CanProxy(p) /\ (p.page = "unsubscribe" \/ p.all \/ p.off # {}) -> "stopped"
    [] OTHER -> "unchanged"
Answered(p) == [p EXCEPT !.pc = "answered", !.told = Message(p)]

-----------------------------------------------------------------------------
Show(t, p) == tab' = [tab EXCEPT ![t] = p]

LinkInit ==
  /\ settings \in LinkSettings
  /\ time = 1 /\ tab = [t \in Tabs |-> NoPage]
  /\ stored = {} /\ taken = {} /\ linkFaults = 0
  /\ picked = {} /\ presses = {}

\* GET: a form with every category ticked, whatever was saved before.
Follow(t, page, user, correlated) ==
  /\ tab[t].pc = "closed"
  /\ Show(t, [NoPage EXCEPT !.pc = IF user THEN "form" ELSE "answered", !.told = IF user THEN "none" ELSE "400",
                            !.page = page, !.correlated = correlated])
  /\ UNCHANGED <<settings, time, stored, taken, linkFaults, picked, presses>>

Untick(t, c) ==
  /\ tab[t].pc = "form" /\ tab[t].page = "preferences" /\ c \notin tab[t].off
  /\ Show(t, [tab[t] EXCEPT !.off = @ \cup {c}])
  /\ UNCHANGED <<settings, time, stored, taken, linkFaults, picked, presses>>

\* POST: a form without a reason the survey knows comes back; one without its
\* campaign is answered and leaves nothing; the other is stamped.
Press(t, all, reason) ==
  LET was == tab[t]
      p == [was EXCEPT !.all = all, !.off = IF all THEN {} ELSE @, !.reason = reason, !.at = time,
                       !.attempt = 0, !.saved = FALSE, !.refused = FALSE]
  IN  /\ was.pc = "form" /\ Cardinality(presses) < MaxPresses
      /\ IF was.page = "unsubscribe" THEN ~all ELSE reason = "none"
      /\ presses' = presses \cup {<<Cardinality(presses) + 1, time>>}
      /\ IF was.page = "unsubscribe" /\ reason \notin OfferedReasons
           THEN UNCHANGED <<tab, picked>>
           ELSE /\ picked' = picked \cup (IF all THEN {"all"} ELSE was.off)
                /\ Show(t, IF was.correlated THEN [p EXCEPT !.pc = "store"] ELSE Answered(p))
      /\ UNCHANGED <<settings, time, stored, taken, linkFaults>>

\* persistCampaignEvents: insert or skip by key; a failure is logged.
Store(t) ==
  LET p == tab[t]
      fresh == {e.key : e \in Events(p)} \ {e.key : e \in stored}
      after == IF CanProxy(p) THEN [p EXCEPT !.pc = "post"] ELSE Answered(p)
  IN  /\ p.pc = "store"
      /\ \/ /\ stored' = stored \cup {CHOOSE e \in Events(p) : e.key = k : k \in fresh}
            /\ Show(t, [after EXCEPT !.saved = TRUE])
            /\ UNCHANGED linkFaults
         \/ /\ linkFaults < MaxLinkFaults /\ linkFaults' = linkFaults + 1
            /\ Show(t, after)
            /\ UNCHANGED stored
      /\ UNCHANGED <<settings, time, taken, picked, presses>>

\* An attempt: taken; refused for good, or the url itself is no good; or a failure
\* in passing, after which ScaleMargin may have the batch all the same.
Taken(t) ==
  /\ tab[t].pc = "post" /\ settings.url = "valid"
  /\ taken' = taken \cup Events(tab[t])
  /\ Show(t, Answered(tab[t]))
  /\ UNCHANGED <<settings, time, stored, linkFaults, picked, presses>>

Refused(t) ==
  /\ tab[t].pc = "post"
  /\ IF settings.url = "valid"
       THEN linkFaults < MaxLinkFaults /\ linkFaults' = linkFaults + 1
       ELSE UNCHANGED linkFaults
  /\ Show(t, [Answered(tab[t]) EXCEPT !.refused = TRUE])
  /\ UNCHANGED <<settings, time, stored, taken, picked, presses>>

Failed(t) ==
  /\ tab[t].pc = "post" /\ settings.url = "valid"
  /\ linkFaults < MaxLinkFaults /\ linkFaults' = linkFaults + 1
  /\ taken' \in {taken, taken \cup Events(tab[t])}
  /\ Show(t, IF tab[t].attempt < LinkRetries
               THEN [tab[t] EXCEPT !.attempt = @ + 1]
               ELSE [Answered(tab[t]) EXCEPT !.refused = TRUE])
  /\ UNCHANGED <<settings, time, stored, picked, presses>>

\* The person goes back to the form as it was left, or closes the tab.
Back(t) ==
  /\ tab[t].pc = "answered" /\ tab[t].told # "400"
  /\ Show(t, [tab[t] EXCEPT !.pc = "form"])
  /\ UNCHANGED <<settings, time, stored, taken, linkFaults, picked, presses>>

\* The process restarts: the browser shows an error, and the form again on reload.
Restart ==
  /\ linkFaults < MaxLinkFaults /\ linkFaults' = linkFaults + 1
  /\ tab' = [t \in Tabs |-> IF tab[t].pc \in {"store", "post"} THEN [tab[t] EXCEPT !.pc = "form"] ELSE tab[t]]
  /\ UNCHANGED <<settings, time, stored, taken, picked, presses>>

Tick ==
  /\ time < MaxTime /\ time' = time + 1
  /\ UNCHANGED <<settings, tab, stored, taken, linkFaults, picked, presses>>

LinkNext ==
  \/ \E t \in Tabs :
       \/ \E page \in {"unsubscribe", "preferences"}, user, correlated \in BOOLEAN : Follow(t, page, user, correlated)
       \/ \E c \in Categories : Untick(t, c)
       \/ \E all \in BOOLEAN, reason \in OfferedReasons \cup {"none"} : Press(t, all, reason)
       \/ Store(t) \/ Taken(t) \/ Refused(t) \/ Failed(t) \/ Back(t)
  \/ Restart \/ Tick

LinkSpec == LinkInit /\ [][LinkNext]_linkVars

-----------------------------------------------------------------------------
\* Nobody is stopped from more than they asked: two boxes unticked are two scopes,
\* "never left for the backend to infer", however presses and retries overlap.
StopsOnlyWhatWasPicked ==
  \A e \in taken \cup stored :
    \/ e.event = "unsubscribed" /\ e.key[1][1] = "unsubscribe"
    \/ e.stopped \subseteq picked
    \/ "all" \in picked /\ e.event = "preference_update"

\* A press that was answered is in the console with all its events, unless its
\* statement failed or another press came in the same millisecond (persist.ts).
PressIsRecorded ==
  \A t \in Tabs : tab[t].pc = "answered" /\ tab[t].saved =>
    \/ Events(tab[t]) \subseteq stored
    \/ Cardinality({p \in presses : p[2] = tab[t].at}) > 1

\* Who is told that mails stop has been reported to ScaleMargin, unless ScaleMargin
\* refused or failed every attempt.
ToldUnlessRefused ==
  \A t \in Tabs :
    tab[t].pc = "answered" /\ tab[t].told = "stopped" /\ ~tab[t].refused => Events(tab[t]) \subseteq taken

LinksHold == StopsOnlyWhatWasPicked /\ PressIsRecorded /\ ToldUnlessRefused

\* link.ts: "Unsubscribe recorded. You will no longer receive these emails."
ToldIsTrue == \A t \in Tabs : tab[t].pc = "answered" /\ tab[t].told = "stopped" => Events(tab[t]) \subseteq taken

\* docs/message-ids-and-analytics.md: without campaign and organization the
\* unsubscribe is saved in the dispatcher's own database.
SavedWithoutCampaign ==
  \A t \in Tabs : tab[t].pc = "answered" /\ tab[t].page = "unsubscribe" /\ ~tab[t].correlated /\ tab[t].told # "400"
    => Unsubscribed(tab[t]) \subseteq stored
=============================================================================
