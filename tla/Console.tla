------------------------------ MODULE Console ------------------------------
(***************************************************************************)
(* What an operator reads while the dispatcher writes: the tabs of the     *)
(* campaign console, which walk a list by keyset cursors, and the data     *)
(* plane's lists, which are paged by number with a separately read total.  *)
(* A behaviour is about one list.  The table under it keeps changing: late *)
(* events, runs that finish, forwarding attempts, and the sweep.  A tab    *)
(* may have several requests under way, and they may be answered in any    *)
(* order.  Text searches match everything here.                            *)
(***************************************************************************)
EXTENDS FiniteSets, Integers, Sequences, Functions

CONSTANTS Lists,          \* the lists looked at, of TabLists \cup PageLists
          RowIds,         \* row ids; a new row takes any free one
          Owners,         \* users, programs or campaigns a row belongs to
          EventMarks,     \* the kinds of events that arrive
          PageLimit,      \* rows in a page
          TimelineLimit,  \* events in a recipient's timeline
          MaxNow,         \* bound on the clock
          MaxWrites,      \* bound on writes to the table
          MaxIssued       \* bound on the requests of a tab

TabLists == {"recipients", "events", "runs", "hub", "outbox", "lines"}
PageLists == {"sends", "logs", "rollup"}
All == "all"

(* Ids and users are strings that the database compares; only their order  *)
(* matters here.                                                           *)
ConsoleAssumption ==
  /\ Lists \subseteq TabLists \cup PageLists
  /\ RowIds \subseteq Nat /\ Owners \subseteq Nat
  /\ PageLimit \in Nat \ {0} /\ TimelineLimit \in Nat /\ MaxNow \in Nat

(* campaign-events.ts: the first raised flag names the recipient's status. *)
StatusOrder == <<"complained", "bounced", "failed", "unsubscribed", "clicked",
                 "opened", "read", "delivered", "dispatched">>
Statuses == Range(StatusOrder) \cup {"pending"}
Rank(s) == IF s = "pending" THEN Len(StatusOrder) + 1
           ELSE CHOOSE i \in DOMAIN StatusOrder : StatusOrder[i] = s

Levels == {"info", "error"}
OutboxStatuses == {"pending", "delivering", "delivered", "failed"}

VARIABLES
  list,     \* the list this behaviour is about
  now,      \* the clock rows are stamped with
  rows,     \* the table: [id, of, at, mark]
  view,     \* the tab: [filter, shown, cursor, loading, chips]
  timer,    \* the debounced search: the filter it was armed under, or none
  asked,    \* the tab's requests under way
  issued,   \* how many requests the tab has made
  pages,    \* the client of a numbered list: [page, total, read, got, over]
  written,  \* writes so far
  steady,   \* rows listed unchanged ever since the first page was read
  tangled,  \* requests overlapped, failed, or used an old filter since the last clean load
  torn,     \* a row was written between the total and its page, or moved down during the walk
  gone      \* ids, or owners where rows are grouped, whose rows were swept or moved down

vars == <<list, now, rows, view, timer, asked, issued, pages, written, steady, tangled, torn, gone>>

None == <<>>

-----------------------------------------------------------------------------
(***************************************************************************)
(* Lists over the table                                                    *)
(***************************************************************************)
Of(table, o) == {r \in table : r.of = o}
OwnersIn(table) == {r.of : r \in table}
Latest(mine) == CHOOSE t \in {r.at : r \in mine} : \A r \in mine : r.at <= t

Flag(mine, s) == \E r \in mine : r.mark = s
Raised(mine) == {s \in Range(StatusOrder) : Flag(mine, s)}

(* deriveRecipientStatus *)
Derived(flags) ==
  IF flags = {} THEN "pending" ELSE CHOOSE s \in flags : \A t \in flags : Rank(s) <= Rank(t)

(* Mutant of Having: the flag alone, whatever stands above it. *)
HavingOwnFlag(mine, s) == s = "pending" \/ Flag(mine, s)

(* statusHaving: the flag is raised and none above it is. *)
Having(mine, s) ==
  /\ \A i \in 1..(Rank(s) - 1) : ~Flag(mine, StatusOrder[i])
  /\ s # "pending" => Flag(mine, s)

(* Rows of a list under a filter.  Recipients and programs are groups,     *)
(* keyed by their latest row; the others are the table's own rows.         *)
RecipientRows(table, filter) ==
  {[key |-> <<Latest(Of(table, o)), o>>, mark |-> Derived(Raised(Of(table, o)))] :
     o \in {p \in OwnersIn(table) : filter = All \/ Having(Of(table, p), filter)}}
Programs(table) ==
  {[key |-> <<Latest(Of(table, o)), o>>, mark |-> All] : o \in OwnersIn(table)}
OwnRows(table, filter) ==
  {[key |-> <<r.at, r.id>>, mark |-> r.mark] : r \in {s \in table : filter = All \/ s.mark = filter}}
Listed(table, filter) ==
  CASE list = "recipients" -> RecipientRows(table, filter)
    [] list = "hub" -> Programs(table)
    [] OTHER -> OwnRows(table, filter)

(* Strictly after cursor l in the newest-first order. *)
Below(k, l) == k[1] < l[1] \/ (k[1] = l[1] /\ k[2] < l[2])

Newest(set) ==
  CHOOSE s \in [1..Cardinality(set) -> set] : \A i, j \in DOMAIN s : i < j => Below(s[j].key, s[i].key)

(* One keyset page: one row too many is fetched to learn of a next page.   *)
Page(table, filter, cursor) ==
  LET found == Newest({r \in Listed(table, filter) : cursor = None \/ Below(r.key, cursor)})
      page == SubSeq(found, 1, IF Len(found) > PageLimit THEN PageLimit ELSE Len(found))
  IN [rows |-> page, next |-> IF Len(found) > PageLimit THEN page[PageLimit].key ELSE None]

(* getRecipientStatusCounts: a recipient counts for the first raised flag. *)
Chip(table, s) ==
  Cardinality({o \in OwnersIn(table) :
    LET mine == Of(table, o)
        prior == {StatusOrder[i] : i \in 1..(Rank(s) - 1)}
    IN prior \cap Raised(mine) = {} /\ (s = "pending" \/ s \in Raised(mine))})

(* The chips a tab offers are those with a count. *)
Chips(table) ==
  CASE list = "recipients" -> {s \in Statuses : Chip(table, s) > 0}
    [] list = "outbox" -> {r.mark : r \in table}
    [] OTHER -> {}

(* One recipient's detail: the flags of the oldest events of the timeline, *)
(* `read` shown as an open, and the failures of the send log.              *)
TimelineFlags(table, o, refused) ==
  LET mine == Of(table, o)
      oldest == {r \in mine : Cardinality({s \in mine : Below(<<s.at, s.id>>, <<r.at, r.id>>)}) < TimelineLimit}
  IN ({IF r.mark = "read" THEN "opened" ELSE r.mark : r \in oldest} \cap Range(StatusOrder))
       \cup (IF o \in refused THEN {"failed"} ELSE {})

-----------------------------------------------------------------------------
(***************************************************************************)
(* The writers                                                             *)
(***************************************************************************)
(* Where rows are grouped, only their owners order the list; elsewhere     *)
(* only the ids of rows do, and no id is given twice.                      *)
Grouped == list \in {"recipients", "hub", "rollup"}
Name(r) == IF Grouped THEN r.of ELSE r.id
Free == LET free == RowIds \ {r.id : r \in rows}
        IN IF Grouped THEN {id \in free : \A other \in free : id <= other} ELSE free \ gone
Owning == IF Grouped THEN Owners ELSE {o \in Owners : \A p \in Owners : o <= p}
Halfway == (pages.total = None) # (pages.read = None)
Walking == ~pages.over /\ (pages.page > 1 \/ pages.total # None \/ pages.read # None)

(* The lists in which a row may give up its place, and whose rows do.      *)
Moving == Grouped \/ list = "runs"
Lowered(table) == {Name(r) : r \in {x \in rows : \E y \in table : y.id = x.id /\ y.at < x.at}}

Rewritten(table) ==
  /\ written < MaxWrites
  /\ rows' = table
  /\ written' = written + 1
  /\ steady' = steady \cap Listed(table, view.filter)
  /\ torn' = (torn \/ (Halfway /\ ~(table \subseteq rows)) \/ (Walking /\ Lowered(table) # {}))
  /\ gone' = gone \cup ({Name(r) : r \in rows} \ {Name(r) : r \in table}) \cup Lowered(table)
  /\ UNCHANGED <<list, now, view, timer, asked, issued, pages, tangled>>

(* insertCampaignEvents: an event carries its provider's time, so it may   *)
(* arrive late; a repeated one is ignored.                                 *)
Arrive ==
  /\ list \in {"recipients", "events"}
  /\ \E id \in Free, o \in Owning, t \in 1..MaxNow, m \in EventMarks :
       /\ ~\E r \in rows : r.of = o /\ r.at = t /\ r.mark = m
       /\ Rewritten(rows \cup {[id |-> id, of |-> o, at |-> t, mark |-> m]})

(* recordDispatchActivity upserts the run when it is accepted and when it  *)
(* ends, each time with the time it is called at and awaited by nobody:    *)
(* the two may be stored in either order, and the row moves down when the  *)
(* acceptance is stored last.  "ended": the acceptance is still to come.   *)
Accept ==
  /\ list \in {"runs", "hub"}
  /\ \E id \in Free, o \in Owning, t \in 1..now, m \in {"accepted", "ended"} :
       Rewritten(rows \cup {[id |-> id, of |-> o, at |-> t, mark |-> m]})
Settle ==
  /\ list \in {"runs", "hub"}
  /\ \E r \in rows, t \in 1..now :
       /\ r.mark = "accepted" /\ r.at <= t
       /\ Rewritten((rows \ {r}) \cup {[r EXCEPT !.at = t, !.mark = "settled"]})
AcceptLate ==
  /\ list \in {"runs", "hub"}
  /\ \E r \in rows, t \in 1..now :
       /\ r.mark = "ended" /\ t <= r.at
       /\ Rewritten((rows \ {r}) \cup {[r EXCEPT !.at = t, !.mark = "settled"]})

(* enqueueOutbox and the worker's updates, which keep created_at. *)
Queue ==
  /\ list = "outbox"
  /\ \E id \in Free, o \in Owning :
       Rewritten(rows \cup {[id |-> id, of |-> o, at |-> now, mark |-> "pending"]})
Work ==
  /\ list = "outbox"
  /\ \E r \in rows, m \in OutboxStatuses :
       /\ <<r.mark, m>> \in {<<"pending", "delivering">>, <<"delivering", "delivered">>,
                             <<"delivering", "pending">>, <<"delivering", "failed">>}
       /\ Rewritten((rows \ {r}) \cup {[r EXCEPT !.mark = m]})

(* insertSendLogs and insertLogs; a buffered line carries an earlier time. *)
Line ==
  /\ list \in {"sends", "logs", "lines"}
  /\ \E id \in Free, o \in Owning, t \in (IF list = "sends" THEN {now} ELSE 1..now), m \in Levels :
       Rewritten(rows \cup {[id |-> id, of |-> o, at |-> t, mark |-> m]})

(* The rollup of a program is replaced.  A refresh writes the last event   *)
(* it read, so one that overlapped another may move it back.               *)
Roll ==
  /\ list = "rollup"
  /\ \E o \in Owners, t \in 1..now :
       /\ \A r \in Of(rows, o) : r.at # t
       /\ Rewritten((rows \ Of(rows, o)) \cup {[id |-> o, of |-> o, at |-> t, mark |-> All]})

(* The sweep takes the oldest rows of a table, of the outbox settled ones; *)
(* the rollup is not swept.                                                *)
Prune ==
  /\ list # "rollup"
  /\ \E t \in 1..MaxNow :
       LET old == {r \in rows : r.at < t /\ (list = "outbox" => r.mark \in {"delivered", "failed"})}
       IN old # {} /\ Rewritten(rows \ old)

Clock ==
  /\ list \notin {"recipients", "events"} /\ now < MaxNow
  /\ now' = now + 1
  /\ UNCHANGED <<list, rows, view, timer, asked, issued, pages, written, steady, tangled, torn, gone>>

-----------------------------------------------------------------------------
(***************************************************************************)
(* A tab of the console                                                    *)
(***************************************************************************)
Ask(filter, append, stale) ==
  /\ list \in TabLists /\ issued < MaxIssued
  /\ issued' = issued + 1
  /\ asked' = asked \cup {[n |-> issued, filter |-> filter, append |-> append,
                           cursor |-> IF append THEN view.cursor ELSE None, page |-> None, chips |-> {}]}
  /\ tangled' = (asked # {} \/ stale \/ (append /\ tangled))
  /\ UNCHANGED <<list, now, rows, pages, written, steady, torn, gone>>

(* The tab is mounted, refreshed, or polled while the campaign is active.  *)
Reload ==
  /\ Ask(view.filter, FALSE, FALSE)
  /\ view' = [view EXCEPT !.loading = TRUE]
  /\ UNCHANGED timer

(* A filter is picked, of the chips with a count, the kinds or the levels: *)
(* nothing waits for the requests under way.                               *)
Pick ==
  \E f \in ({All} \cup (CASE list = "events" -> EventMarks
                        [] list = "lines" -> Levels
                        [] OTHER -> view.chips)) \ {view.filter} :
    /\ Ask(f, FALSE, FALSE)
    /\ view' = [view EXCEPT !.filter = f, !.loading = TRUE]
    /\ UNCHANGED timer

(* Load more: the button is disabled while the tab is loading. *)
More ==
  /\ view.cursor # None /\ ~view.loading
  /\ Ask(view.filter, TRUE, FALSE)
  /\ view' = [view EXCEPT !.loading = TRUE]
  /\ UNCHANGED timer

(* Typing arms a load that closes over the filter of that moment. *)
Type ==
  /\ list \in {"recipients", "events"} /\ issued < MaxIssued
  /\ timer' = <<view.filter>>
  /\ UNCHANGED <<list, now, rows, view, asked, issued, pages, written, steady, tangled, torn, gone>>
Typed ==
  /\ timer # None
  /\ Ask(timer[1], FALSE, timer[1] # view.filter)
  /\ view' = [view EXCEPT !.loading = TRUE]
  /\ timer' = None

(* The server reads the page.  The counts of the chips are read beside it; *)
(* nothing here compares them with the page, so they are read with it.     *)
Read ==
  \E q \in asked :
    /\ q.page = None
    /\ asked' = (asked \ {q}) \cup {[q EXCEPT !.page = <<Page(rows, q.filter, q.cursor)>>, !.chips = Chips(rows)]}
    /\ steady' = IF q.append THEN steady ELSE Listed(rows, q.filter)
    /\ UNCHANGED <<list, now, rows, view, timer, issued, pages, written, tangled, torn, gone>>

(* The rows an answer leaves in the tab. *)
Shown(q) == IF q.append THEN view.shown \o q.page[1].rows ELSE q.page[1].rows

(* An answer reaches the tab, in whatever order. *)
Answer ==
  \E q \in asked :
    /\ q.page # None
    /\ asked' = asked \ {q}
    /\ view' = [view EXCEPT !.shown = Shown(q), !.cursor = q.page[1].next, !.loading = FALSE,
                            !.chips = q.chips]
    /\ UNCHANGED <<list, now, rows, timer, issued, pages, written, steady, tangled, torn, gone>>

(* A request fails: a toast, and the list stays as it is. *)
Fail ==
  \E q \in asked :
    /\ asked' = asked \ {q}
    /\ view' = [view EXCEPT !.loading = FALSE]
    /\ tangled' = (tangled \/ ~q.append)
    /\ UNCHANGED <<list, now, rows, timer, issued, pages, written, steady, torn, gone>>

-----------------------------------------------------------------------------
(***************************************************************************)
(* A client of a numbered list of the data plane                           *)
(***************************************************************************)
Offset == (pages.page - 1) * PageLimit

(* The two statements of one request, in either order. *)
CountRows ==
  /\ list \in PageLists /\ ~pages.over /\ pages.total = None
  /\ pages' = [pages EXCEPT !.total = <<Cardinality(rows)>>]
  /\ steady' = IF pages.page = 1 /\ pages.read = None THEN Listed(rows, All) ELSE steady
  /\ UNCHANGED <<list, now, rows, view, timer, asked, issued, written, tangled, torn, gone>>
PageRows ==
  /\ list \in PageLists /\ ~pages.over /\ pages.read = None
  /\ LET found == Newest(Listed(rows, All))
     IN pages' = [pages EXCEPT !.read = <<SubSeq(found, Offset + 1,
                    IF Offset + PageLimit > Len(found) THEN Len(found) ELSE Offset + PageLimit)>>]
  /\ steady' = IF pages.page = 1 /\ pages.total = None THEN Listed(rows, All) ELSE steady
  /\ UNCHANGED <<list, now, rows, view, timer, asked, issued, written, tangled, torn, gone>>

(* pageMeta: whether the client is told of another page. *)
HasNext(total) == Offset + PageLimit < total

Turn ==
  /\ pages.total # None /\ pages.read # None
  /\ LET next == HasNext(pages.total[1])
     IN pages' = [page |-> IF next THEN pages.page + 1 ELSE pages.page, total |-> None, read |-> None,
                  got |-> pages.got \cup Range(pages.read[1]), over |-> ~next]
  /\ UNCHANGED <<list, now, rows, view, timer, asked, issued, written, steady, tangled, torn, gone>>

-----------------------------------------------------------------------------
ConsoleInit ==
  /\ list \in Lists
  /\ now = 1 /\ rows = {} /\ written = 0 /\ issued = 0
  /\ view = [filter |-> All, shown |-> <<>>, cursor |-> None, loading |-> FALSE, chips |-> {}]
  /\ timer = None /\ asked = {}
  /\ pages = [page |-> 1, total |-> None, read |-> None, got |-> {}, over |-> FALSE]
  /\ steady = {} /\ tangled = TRUE /\ torn = FALSE /\ gone = {}

ConsoleNext ==
  \/ Arrive \/ Accept \/ Settle \/ AcceptLate \/ Queue \/ Work \/ Line \/ Roll \/ Prune \/ Clock
  \/ Reload \/ Pick \/ More \/ Type \/ Typed \/ Read \/ Answer \/ Fail
  \/ CountRows \/ PageRows \/ Turn

ConsoleSpec == ConsoleInit /\ [][ConsoleNext]_vars

-----------------------------------------------------------------------------
(* Walking a tab page by page while its table changes loses and repeats    *)
(* nothing: once no request is under way, and none overlapped, failed or   *)
(* carried an old filter since the last reload, the rows shown are of the  *)
(* filter picked, in order, each once, and every row listed unchanged      *)
(* since the reload is shown down to the cursor (campaign-events.ts,       *)
(* activity.ts, outbox.ts listings and the tabs of CampaignDetail.tsx).    *)
(* Only what was swept or moved down, and came again with an older time,   *)
(* may come twice.                                                         *)
TabIsFaithful ==
  (list \in TabLists /\ asked = {} /\ ~tangled) =>
     LET shown == view.shown IN
     /\ \A i \in 1..(Len(shown) - 1) : Below(shown[i + 1].key, shown[i].key)
     /\ \A i, j \in DOMAIN shown : shown[i].key[2] = shown[j].key[2] => i = j \/ (Moving /\ shown[i].key[2] \in gone)
     /\ \A r \in steady : (view.cursor = None \/ ~Below(r.key, view.cursor)) => r \in Range(shown)
     /\ view.filter # All => \A i \in DOMAIN shown : shown[i].mark = view.filter

(* The three translations of a recipient's status agree: the count on each *)
(* chip is the number of rows the list shows under it, each row names that *)
(* status, and every recipient is under exactly one chip                   *)
(* (deriveRecipientStatus, statusHaving, getRecipientStatusCounts).  It    *)
(* and the next are about the table alone: issued = 0 says each once.      *)
ChipsAgree ==
  (list = "recipients" /\ issued = 0) =>
    /\ \A s \in Statuses : /\ Chip(rows, s) = Cardinality(Listed(rows, s))
                           /\ \A r \in Listed(rows, s) : r.mark = s
    /\ \A r \in Listed(rows, All) : Cardinality({s \in Statuses : r \in Listed(rows, s)}) = 1

(* A recipient's detail is never milder than the row it was opened from,   *)
(* as long as the timeline holds all of the recipient's events.            *)
DetailNeverMilder ==
  (list = "recipients" /\ issued = 0) =>
    \A o \in OwnersIn(rows), refused \in SUBSET Owners :
      Cardinality(Of(rows, o)) <= TimelineLimit =>
        Rank(Derived(TimelineFlags(rows, o, refused))) <= Rank(Derived(Raised(Of(rows, o))))

(* A client that turns the numbered pages until none is announced has been *)
(* given every row that was there all along, although rows were added and  *)
(* swept meanwhile; unless one was added between a total and its page, or  *)
(* a rollup moved down the list and drew the rows below it up              *)
(* (listCampaignSendsHandler, listLogsHandler, listCampaignsHandler).      *)
PagesMissNothing == (pages.over /\ ~torn) => steady \subseteq pages.got

ConsoleSound == TabIsFaithful /\ ChipsAgree /\ DetailNeverMilder

(* Not kept: a chip picked over a request under way is undone by its late  *)
(* answer.                                                                 *)
TabShowsWhatIsPicked ==
  (list \in TabLists /\ asked = {} /\ view.filter # All) =>
     \A i \in DOMAIN view.shown : view.shown[i].mark = view.filter

(* Not kept: `read` is an open in the detail and its own status in the     *)
(* list, and a refused send is a failure in the detail only.               *)
DetailAgrees ==
  list = "recipients" =>
    \A o \in OwnersIn(rows) : Derived(TimelineFlags(rows, o, {})) = Derived(Raised(Of(rows, o)))

(* Not kept: the total is read beside the page, and a row written between  *)
(* them hides the last page.                                               *)
PagesMissNothingEver == pages.over => steady \subseteq pages.got
=============================================================================
