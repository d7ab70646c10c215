----------------------------- MODULE AlertDelivery -----------------------------
(* An alert on the device: the service worker shows the pushed notification and  *)
(* answers a tap on it (sw.ts, lib/swPushHandler), and the open page keeps the   *)
(* count of unread events on the app's icon (lib/badge).                         *)
(*                                                                               *)
(* The service worker runs without the page; the page may be open elsewhere, at  *)
(* the alert's event or not at all. The reads of the count are answered in any   *)
(* order, each with the count of the moment it was sent.                         *)
EXTENDS Naturals, SequencesExt

CONSTANTS
  Named,        \* events an alert may name
  NoEvent,      \* an alert that names none: a test, a plain text, an empty push
  MaxUnread,    \* bound: unread events on the server
  MaxReads      \* bound: reads of the count in flight

ASSUME DeliveryAssumption ==
  /\ NoEvent \notin Named
  /\ MaxUnread \in Nat /\ MaxReads \in Nat \ {0}

VARIABLES
  tray,         \* the notifications on the device, by tag
  receipts,     \* pendingPushReceipts: the alert whose showNotification is running
  tapped,       \* the alert whose tap is being answered
  window,       \* the app's window: "none", "other", or the alert's page it shows
  unread,       \* the server's count
  count, icon,  \* the hook's count, the icon's
  reads         \* the reads in flight, oldest first

workerVars == <<tray, receipts, tapped>>
badgeVars == <<count, icon, reads>>
deliveryVars == <<workerVars, window, unread, badgeVars>>

Alerts == Named \cup {NoEvent}

\* buildNotification: the event's id is the tag, so a second alert of an event
\* replaces the first, and all alerts without one share a tag; only an event's
\* alert has buttons and stays until it is answered.
HasButtons(alert) == alert # NoEvent

-------------------------------------------------------------------------------
(* The service worker *)

\* parsePushData never throws: whatever arrived becomes an alert. (applyBadge asks
\* the registration for a badge; it has no such method, and nothing happens.)
PushArrives(alert) ==
  /\ receipts = {} /\ receipts' = {alert}
  /\ UNCHANGED <<tray, tapped, window, unread, badgeVars>>

\* The hook around showNotification takes the receipt and reports what happened.
NotificationShown(ok) ==
  /\ receipts # {} /\ receipts' = {}
  /\ tray' = IF ok THEN tray \cup receipts ELSE tray
  /\ UNCHANGED <<tapped, window, unread, badgeVars>>

\* Mark seen: the event is posted as seen, if the post arrives; no window moves.
MarkSeen(alert) ==
  /\ alert \in tray /\ HasButtons(alert)
  /\ tray' = tray \ {alert}
  /\ unread' \in {unread, IF unread > 0 THEN unread - 1 ELSE 0}
  /\ UNCHANGED <<receipts, tapped, window, badgeVars>>

\* Any other tap: the notification goes, and the windows are looked up.
Tap(alert) ==
  /\ alert \in tray /\ tapped = {}
  /\ tray' = tray \ {alert} /\ tapped' = {alert}
  /\ UNCHANGED <<receipts, window, unread, badgeVars>>

-------------------------------------------------------------------------------
(* The page and its badge *)

\* The hook is mounted with the shell: its count starts at zero, it reads the
\* server's, and what was in flight for the page before is ignored.
PageAt(w) ==
  /\ window' = w
  /\ IF w = "none" \/ window = "none"
       THEN /\ count' = 0
            /\ reads' = IF w = "none" THEN <<>> ELSE <<unread>>
       ELSE UNCHANGED <<count, reads>>

\* The first window that can be focused is brought to the alert's page unless it is
\* there, and a new one is opened if there is none; either may be refused.
WindowArrives ==
  /\ tapped # {} /\ tapped' = {}
  /\ \/ \E alert \in tapped : PageAt(alert)
     \/ UNCHANGED <<window, count, reads>>
  /\ UNCHANGED <<tray, receipts, unread, icon>>

UserMoves(w) ==
  /\ window # w /\ PageAt(w)
  /\ UNCHANGED <<workerVars, unread, icon>>

\* push(): the icon takes the hook's count.
Counts(n) == count' = n /\ icon' = n

\* A new event: a page whose socket is open hears of it.
Detected(told) ==
  /\ unread < MaxUnread /\ unread' = unread + 1
  /\ IF told /\ window # "none" /\ count < MaxUnread
       THEN Counts(count + 1)
       ELSE UNCHANGED <<count, icon>>
  /\ UNCHANGED <<workerVars, window, reads>>

\* The events page marks everything seen and asks for a new read.
AllSeen ==
  /\ window # "none" /\ unread' = 0
  /\ UNCHANGED <<workerVars, window, badgeVars>>

\* On becoming visible, and when the page marked events seen.
Reconcile ==
  /\ window # "none" /\ Len(reads) < MaxReads
  /\ reads' = Append(reads, unread)
  /\ UNCHANGED <<workerVars, window, unread, count, icon>>

\* An answer replaces the count, increments since its read included.
ReconcileAnswered(i) ==
  /\ reads' = RemoveAt(reads, i)
  /\ Counts(reads[i])
  /\ UNCHANGED <<workerVars, window, unread>>

ReconcileFails(i) ==
  /\ reads' = RemoveAt(reads, i)
  /\ UNCHANGED <<workerVars, window, unread, count, icon>>

-------------------------------------------------------------------------------
DeliveryInit ==
  /\ tray = {} /\ receipts = {} /\ tapped = {}
  /\ window = "none" /\ unread = 0
  /\ count = 0 /\ icon = 0 /\ reads = <<>>

DeliveryNext ==
  \/ \E alert \in Alerts : PushArrives(alert) \/ MarkSeen(alert) \/ Tap(alert)
  \/ \E yes \in BOOLEAN : NotificationShown(yes) \/ Detected(yes)
  \/ WindowArrives
  \/ \E w \in Alerts \cup {"none", "other"} : UserMoves(w)
  \/ AllSeen \/ Reconcile
  \/ \E i \in DOMAIN reads : ReconcileAnswered(i) \/ ReconcileFails(i)

DeliverySpec == DeliveryInit /\ [][DeliveryNext]_deliveryVars

DeliveryTypeOK ==
  /\ tray \subseteq Alerts /\ receipts \subseteq Alerts /\ tapped \subseteq Alerts
  /\ window \in Alerts \cup {"none", "other"}
  /\ {unread, count, icon} \subseteq 0..MaxUnread
  /\ reads \in BoundedSeq(0..MaxUnread, MaxReads)

================================================================================
