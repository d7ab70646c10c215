------------------------------ MODULE EventsPage ------------------------------
(* The events page of the client (Events, EventList): the loads that fill its    *)
(* list, the day and the filters that narrow it, the live events that join it,   *)
(* the selection, and the three ways to delete, each behind a confirmation       *)
(* (lib/confirm).                                                                *)
(*                                                                               *)
(* Loads and deletes settle later, in any order, while the page goes on: another *)
(* day is chosen, an event arrives, the tab comes back. Which events a load       *)
(* answers is left open: it depends on the server and on the moment.             *)
EXTENDS Naturals, FiniteSets

CONSTANTS
  EventIds,     \* events the server may hold (lists stay below their caps)
  Passing,      \* those the active filters let through
  Days,
  FilterKinds,  \* the filters there are: "who", "type", "camera"
  MaxDeletes,   \* bound: confirmed deletes in flight
  None          \* no day, no event, no dialog

ASSUME EventsAssumption ==
  /\ Passing \subseteq EventIds /\ None \notin EventIds \cup Days
  /\ FilterKinds \subseteq {"who", "type", "camera"}
  /\ Days \cap EventIds = {} /\ MaxDeletes \in Nat

VARIABLES
  list,         \* events
  loading, error, hasMore,
  loads,        \* loads in flight; bound: one of each kind
  day,          \* selectedDay
  filters,      \* the filters that are set
  selectionMode, selectedIds, bulkDeleting,
  opened,       \* selectedEvent: the event in the clip viewer
  deepLink,     \* ?event= of the address, not yet resolved
  asked,        \* the confirmation on screen: its kind, the events or the day it is for,
                \* and the events its number counts
  requests      \* the deletes in flight

listVars == <<list, loading, error, hasMore, loads>>
choiceOfEvents == <<day, filters>>
selectionVars == <<selectionMode, selectedIds, bulkDeleting>>
deleteVars == <<asked, requests>>
eventsVars == <<listVars, choiceOfEvents, selectionVars, opened, deepLink, deleteVars>>

\* The mount's and the tab's refresh, a day query, all events, an older page.
LoadKinds == {"refresh", "day", "all", "more"}

Filtered == IF filters = {} THEN list ELSE list \cap Passing
ListShown == ~loading /\ ~error

\* The clip viewer and the confirmation cover the page.
PageReachable == opened = None /\ asked = None

-------------------------------------------------------------------------------
(* Loads *)

Begin(k) == k \notin loads /\ loads' = loads \cup {k}
Waits(more) == loading' = TRUE /\ error' = FALSE /\ hasMore' = more

\* _runDayQuery, for another day, other times of it or none: no further pages.
QueryDay(d) ==
  /\ Begin("day") /\ Waits(FALSE) /\ day' = d
  /\ UNCHANGED <<list, filters, selectionVars, opened, deepLink>>

SelectDay(d) == PageReachable /\ QueryDay(d) /\ UNCHANGED deleteVars

\* The banner of a selected day has its times.
TimesOffered == PageReachable /\ day # None

ChangeTimes == TimesOffered /\ QueryDay(day) /\ UNCHANGED deleteVars

\* clearDayFilter
ClearDayFilter ==
  /\ Begin("all") /\ Waits(TRUE) /\ day' = None
  /\ UNCHANGED list

ClearDay ==
  /\ PageReachable /\ day # None /\ ClearDayFilter
  /\ UNCHANGED <<filters, selectionVars, opened, deepLink, deleteVars>>

\* The error screen's Retry loads all events, whatever day is selected.
RetryLoad ==
  /\ PageReachable /\ ~loading /\ error
  /\ Begin("all") /\ Waits(TRUE)
  /\ UNCHANGED <<list, choiceOfEvents, selectionVars, opened, deepLink, deleteVars>>

\* The tab is visible again: the list is loaded behind what is shown.
TabVisible ==
  /\ Begin("refresh")
  /\ UNCHANGED <<list, loading, error, hasMore, choiceOfEvents, selectionVars, opened,
                 deepLink, deleteVars>>

\* Every load but the older page replaces the list, and ends the waiting whether or
\* not another load is under way.
ListAnswered(k, evs) ==
  /\ k # "more" /\ k \in loads /\ loads' = loads \ {k}
  /\ list' = evs /\ loading' = FALSE
  /\ UNCHANGED <<error, hasMore, choiceOfEvents, selectionVars, opened, deepLink,
                 deleteVars>>

\* Mutant of ListFails: a failed load leaves the skeleton.
ListFailsLoading(k) ==
  /\ k # "more" /\ k \in loads /\ loads' = loads \ {k}
  /\ error' = TRUE
  /\ UNCHANGED <<list, loading, hasMore, choiceOfEvents, selectionVars, opened, deepLink,
                 deleteVars>>

ListFails(k) ==
  /\ k # "more" /\ k \in loads /\ loads' = loads \ {k}
  /\ error' = TRUE /\ loading' = FALSE
  /\ UNCHANGED <<list, hasMore, choiceOfEvents, selectionVars, opened, deepLink,
                 deleteVars>>

LoadMoreOffered == PageReachable /\ ListShown /\ hasMore /\ list # {}

LoadMore ==
  /\ LoadMoreOffered
  /\ Begin("more")
  /\ UNCHANGED <<list, loading, error, hasMore, choiceOfEvents, selectionVars, opened,
                 deepLink, deleteVars>>

\* The page is appended to whatever list there is by then; a last or failed page
\* is the end.
MoreSettled(evs, last) ==
  /\ "more" \in loads /\ loads' = loads \ {"more"}
  /\ list' = list \cup evs
  /\ hasMore' = (hasMore /\ ~last)
  /\ UNCHANGED <<loading, error, choiceOfEvents, selectionVars, opened, deepLink,
                 deleteVars>>

\* A detection on the events socket is put in front.
EventArrives(e) ==
  /\ list' = list \cup {e}
  /\ UNCHANGED <<loading, error, hasMore, loads, choiceOfEvents, selectionVars, opened,
                 deepLink, deleteVars>>

\* The link of a notification opens its event once a list is there, or says that
\* the event is not in it.
DeepLinkResolves ==
  /\ deepLink # None /\ ListShown
  /\ deepLink' = None
  /\ opened' = IF deepLink \in list THEN deepLink ELSE opened
  /\ UNCHANGED <<listVars, choiceOfEvents, selectionVars, deleteVars>>

-------------------------------------------------------------------------------
(* The header: which controls are there *)

\* Chips for cameras, types and people; some kind may have nothing to offer.
FiltersOffered == PageReachable /\ ListShown
SelectOffered == PageReachable /\ ListShown /\ list # {} /\ ~selectionMode
DeleteDayOffered == PageReachable /\ day # None /\ list # {} /\ filters \subseteq {"camera"}

SetFilter(k) ==
  /\ FiltersOffered
  /\ \E chosen \in BOOLEAN : filters' = IF chosen THEN filters \cup {k} ELSE filters \ {k}
  /\ UNCHANGED <<listVars, day, selectionVars, opened, deepLink, deleteVars>>

EnterSelection ==
  /\ SelectOffered /\ selectionMode' = TRUE
  /\ UNCHANGED <<listVars, choiceOfEvents, selectedIds, bulkDeleting, opened, deepLink, deleteVars>>

\* The bar of the selection: its count, Cancel and Delete.
SelectionBar == PageReachable /\ ListShown /\ selectionMode /\ ~bulkDeleting

ExitSelection ==
  /\ SelectionBar
  /\ selectionMode' = FALSE /\ selectedIds' = {}
  /\ UNCHANGED <<listVars, choiceOfEvents, bulkDeleting, opened, deepLink, deleteVars>>

-------------------------------------------------------------------------------
(* The rows *)

\* A press selects or opens; opening posts the event as seen.
PressRow(e) ==
  /\ PageReachable /\ ListShown /\ e \in Filtered
  /\ IF selectionMode
       THEN /\ \/ e \in selectedIds /\ selectedIds' = selectedIds \ {e}
               \/ e \notin selectedIds /\ selectedIds' = selectedIds \cup {e}
            /\ UNCHANGED opened
       ELSE opened' = e /\ UNCHANGED selectedIds
  /\ UNCHANGED <<listVars, choiceOfEvents, selectionMode, bulkDeleting, deepLink,
                 deleteVars>>

CloseClip ==
  /\ opened # None /\ asked = None /\ opened' = None
  /\ UNCHANGED <<listVars, choiceOfEvents, selectionVars, deepLink, deleteVars>>

\* The clip viewer deleted the event itself.
ClipDeleted(e) ==
  /\ opened # None /\ opened' = None
  /\ list' = list \ {e}
  /\ UNCHANGED <<loading, error, hasMore, loads, choiceOfEvents, selectionVars, deepLink, deleteVars>>

\* What an empty list says, from the status and the filters.
EmptyReason(workerAlive, detectionActive) ==
  CASE ~workerAlive -> "camera offline"
    [] workerAlive /\ ~detectionActive -> "detection off"
    [] workerAlive /\ detectionActive /\ {"who", "type"} \subseteq filters -> "no match"
    [] OTHER -> "quiet"

-------------------------------------------------------------------------------
(* Deleting *)

\* confirm(): the dialog says how many will go, and the handler waits for its answer.
Ask(how, what, counted) ==
  /\ asked' = [how |-> how, what |-> what, counted |-> counted]
  /\ UNCHANGED <<listVars, choiceOfEvents, selectionVars, opened, deepLink, requests>>

\* The row's cross, or the button a horizontal swipe past the threshold latches
\* open; neither while rows are being selected.
RowDeleteOffered(e) == PageReachable /\ ListShown /\ e \in Filtered /\ ~selectionMode

\* onDeleteOne
AskDeleteOne(e) ==
  /\ RowDeleteOffered(e)
  /\ Ask("one", {e}, {e})

AskBulkDelete ==
  /\ SelectionBar /\ selectedIds # {}
  /\ Ask("bulk", selectedIds, selectedIds)

\* onDeleteDay counts the whole list, not the rows; the request names the day alone.
AskDeleteDay == DeleteDayOffered /\ Ask("day", {day}, list)

Declined ==
  /\ asked # None /\ asked' = None
  /\ UNCHANGED <<listVars, choiceOfEvents, selectionVars, opened, deepLink, requests>>

\* What the handler asks the server for: what it captured before the dialog.
Target == asked.what

\* Single and bulk deletes take the rows away at once and keep what there was.
Confirmed ==
  /\ asked # None /\ asked' = None
  /\ Cardinality(requests) < MaxDeletes
  /\ requests' = requests \cup {[how |-> asked.how, what |-> Target, snapshot |-> list]}
  /\ list' = list \ Target
  /\ opened' = IF opened \in Target THEN None ELSE opened
  /\ bulkDeleting' = (bulkDeleting \/ asked.how = "bulk")
  /\ UNCHANGED <<loading, error, hasMore, loads, choiceOfEvents, selectionMode, selectedIds,
                 deepLink>>

Settle(r, how) == r.how = how /\ requests' = requests \ {r} /\ UNCHANGED asked

\* A failure puts the old list back, over whatever arrived since.
OneSettled(r, ok) ==
  /\ Settle(r, "one")
  /\ list' = IF ok THEN list ELSE r.snapshot
  /\ UNCHANGED <<loading, error, hasMore, loads, choiceOfEvents, selectionVars, opened,
                 deepLink>>

\* All requests of a bulk delete are awaited; only if each failed does the list
\* come back. The selection ends in every case.
BulkSettled(r, failed) ==
  /\ Settle(r, "bulk")
  /\ list' = IF failed = r.what THEN r.snapshot ELSE list
  /\ selectionMode' = FALSE /\ selectedIds' = {} /\ bulkDeleting' = FALSE
  /\ UNCHANGED <<loading, error, hasMore, loads, choiceOfEvents, opened, deepLink>>

\* The day is gone: back to all events, whatever day is selected by now.
DaySettled(r, ok) ==
  /\ Settle(r, "day")
  /\ IF ok THEN ClearDayFilter ELSE UNCHANGED <<listVars, day>>
  /\ UNCHANGED <<filters, selectionVars, opened, deepLink>>

-------------------------------------------------------------------------------
EventsInit ==
  /\ list = {} /\ loading = TRUE /\ error = FALSE /\ hasMore = TRUE
  /\ loads = {"refresh"} /\ day = None /\ filters = {}
  /\ selectionMode = FALSE /\ selectedIds = {} /\ bulkDeleting = FALSE
  /\ opened = None /\ deepLink \in EventIds \cup {None}
  /\ asked = None /\ requests = {}

LoadStep ==
  \/ \E d \in Days : SelectDay(d)
  \/ ChangeTimes \/ ClearDay \/ RetryLoad \/ TabVisible \/ LoadMore
  \/ \E k \in LoadKinds : ListFails(k) \/ \E evs \in SUBSET EventIds : ListAnswered(k, evs)
  \/ \E evs \in SUBSET EventIds, last \in BOOLEAN : MoreSettled(evs, last)
  \/ \E e \in EventIds : EventArrives(e)
  \/ DeepLinkResolves

RowStep ==
  \/ \E k \in FilterKinds : SetFilter(k)
  \/ EnterSelection \/ ExitSelection \/ CloseClip
  \/ \E e \in EventIds : PressRow(e) \/ ClipDeleted(e)

DeleteStep ==
  \/ \E e \in EventIds : AskDeleteOne(e)
  \/ AskBulkDelete \/ AskDeleteDay \/ Declined \/ Confirmed
  \/ \E r \in requests :
       \/ \E ok \in BOOLEAN : OneSettled(r, ok) \/ DaySettled(r, ok)
       \/ \E failed \in SUBSET r.what : BulkSettled(r, failed)

EventsNext == LoadStep \/ RowStep \/ DeleteStep

EventsSpec == EventsInit /\ [][EventsNext]_eventsVars

-------------------------------------------------------------------------------
EventsTypeOK ==
  LET Nameable == EventIds \cup Days IN
  /\ {list, selectedIds} \subseteq SUBSET EventIds
  /\ {loading, error, hasMore, selectionMode, bulkDeleting} \subseteq BOOLEAN
  /\ loads \subseteq LoadKinds /\ filters \subseteq FilterKinds
  /\ day \in Days \cup {None} /\ {opened, deepLink} \subseteq EventIds \cup {None}
  /\ asked # None => /\ asked.how \in {"one", "bulk", "day"} /\ asked.what \subseteq Nameable
                     /\ asked.counted \subseteq EventIds
  /\ \A r \in requests : r.what \subseteq Nameable /\ r.snapshot \subseteq EventIds

\* Nothing spins for ever: the skeleton stands only while a load that ends it is in
\* flight, and the bulk delete's button only while its requests are, however loads
\* overlap and fail.
SpinnersEnd ==
  /\ loading => loads \ {"more"} # {}
  /\ bulkDeleting => \E r \in requests : r.how = "bulk"

===============================================================================
