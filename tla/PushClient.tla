------------------------------ MODULE PushClient ------------------------------
(* Signing this device up for alerts: the switch and the filters of the          *)
(* notification settings (NotificationsSection) and the subscription they manage *)
(* in the browser and on the server (lib/push).                                  *)
(*                                                                               *)
(* Turning the switch is a sequence of awaits, each of which may fail: the       *)
(* permission prompt, the server's key, the browser's subscription, the server's *)
(* record. The permission is the browser's and changes under the page.           *)
EXTENDS Naturals

CONSTANT Absent       \* nothing read yet, nothing in flight

VARIABLES
  grant,               \* Notification.permission: "default", "granted", "denied"
  permissionDenied,    \* what the section knows of it
  subscribed,          \* the browser holds a subscription
  registered,          \* the server holds it
  toggle,              \* the await togglePush is in, or "idle" (busy is FALSE)
  pushEnabled,         \* the switch
  mountRead,           \* getPushState() of the mount: what it will answer, or Absent
  storedFilters,       \* the filters the server holds for the device
  filtersInput,        \* the form's, or Absent before the first load
  filterLoad,          \* the load in flight: what it will answer, or Absent
  filterSave,          \* the save in flight: what it stores, or Absent
  scheduleValid        \* both times or neither, and well formed

switchVars == <<toggle, pushEnabled, mountRead>>
deviceVars == <<grant, permissionDenied, subscribed, registered>>
filterVars == <<storedFilters, filtersInput, filterLoad, filterSave, scheduleValid>>
pushClientVars == <<deviceVars, switchVars, filterVars>>

Filters == {"none", "own"}     \* everything is let through; some filter is set
Enabling == {"permission", "key", "subscribe", "persist"}
Disabling == {"unsubscribe", "forget"}

-------------------------------------------------------------------------------
\* The effect on pushEnabled: turning on starts a load of the filters, turning off
\* cancels the one under way. Its answer is fixed when it is sent.
SwitchBecomes(on) ==
  /\ pushEnabled' = on
  /\ filterLoad' = CASE on /\ ~pushEnabled -> storedFilters
                     [] ~on -> Absent
                     [] OTHER -> filterLoad
  /\ UNCHANGED <<storedFilters, filtersInput, filterSave, scheduleValid>>

\* getPushState: the browser's own view, whatever the server holds.
MountReads ==
  /\ mountRead # Absent /\ mountRead' = Absent
  /\ SwitchBecomes(mountRead)
  /\ UNCHANGED <<deviceVars, toggle>>

\* The switch is disabled while it is busy and while the permission is denied; the
\* state it shows is off then.
SwitchOffered == toggle = "idle" /\ ~permissionDenied

TurnOn ==
  /\ SwitchOffered /\ ~pushEnabled
  /\ toggle' = "permission"
  /\ UNCHANGED <<deviceVars, pushEnabled, mountRead, filterVars>>

TurnOff ==
  /\ SwitchOffered /\ pushEnabled
  /\ toggle' = "unsubscribe"
  /\ UNCHANGED <<deviceVars, pushEnabled, mountRead, filterVars>>

\* A throw anywhere: the toast, and the switch stays as it was.
ToggleFails ==
  /\ toggle \in {"key", "subscribe", "persist", "unsubscribe"}
  /\ toggle' = "idle"
  /\ UNCHANGED <<deviceVars, pushEnabled, mountRead, filterVars>>

\* Mutant of PermissionAnswered: a subscription the browser has is enough.
PermissionAnsweredEarly ==
  /\ toggle = "permission"
  /\ grant' \in IF grant = "default" THEN {"default", "granted", "denied"} ELSE {grant}
  /\ IF grant' = "granted" /\ ~subscribed
       THEN toggle' = "key" /\ UNCHANGED <<pushEnabled, filterVars>>
       ELSE toggle' = "idle" /\ SwitchBecomes(grant' = "granted")
  /\ UNCHANGED <<permissionDenied, subscribed, registered, mountRead>>

\* requestPermission answers: anything but granted ends it with the switch off. An
\* existing subscription needs no key and no new one, only the server's record.
PermissionAnswered ==
  /\ toggle = "permission"
  /\ grant' \in IF grant = "default" THEN {"default", "granted", "denied"} ELSE {grant}
  /\ IF grant' = "granted"
       THEN /\ toggle' = IF subscribed THEN "persist" ELSE "key"
            /\ UNCHANGED <<pushEnabled, filterVars>>
       ELSE toggle' = "idle" /\ SwitchBecomes(FALSE)
  /\ UNCHANGED <<permissionDenied, subscribed, registered, mountRead>>

KeyAnswered ==
  /\ toggle = "key" /\ toggle' = "subscribe"
  /\ UNCHANGED <<deviceVars, pushEnabled, mountRead, filterVars>>

BrowserSubscribes ==
  /\ toggle = "subscribe" /\ grant = "granted"
  /\ toggle' = "persist" /\ subscribed' = TRUE
  /\ registered' = FALSE       \* a new endpoint
  /\ UNCHANGED <<grant, permissionDenied, pushEnabled, mountRead, filterVars>>

\* subscribePush stores the record, and the answer turns the switch on.
ServerPersists ==
  /\ toggle = "persist" /\ toggle' = "idle"
  /\ registered' = TRUE
  /\ SwitchBecomes(TRUE)
  /\ UNCHANGED <<grant, permissionDenied, subscribed, mountRead>>

\* disablePushSubscription without a subscription has nothing to do.
BrowserUnsubscribes ==
  /\ toggle = "unsubscribe"
  /\ subscribed' = FALSE
  /\ IF subscribed
       THEN toggle' = "forget" /\ UNCHANGED <<pushEnabled, filterVars>>
       ELSE toggle' = "idle" /\ SwitchBecomes(FALSE)
  /\ UNCHANGED <<grant, permissionDenied, registered, mountRead>>

\* The server's record goes too; that it may stay is logged and no more.
ServerForgets ==
  /\ toggle = "forget" /\ toggle' = "idle"
  /\ registered' \in {FALSE, registered}
  /\ SwitchBecomes(FALSE)
  /\ UNCHANGED <<grant, permissionDenied, subscribed, mountRead>>

\* The user changes the site's permission: taking it back ends the subscription.
\* The section hears of it, unless the Permissions API is missing.
PermissionChanged(p, heard) ==
  /\ p # grant /\ grant' = p
  /\ permissionDenied' = IF heard THEN p = "denied" ELSE permissionDenied
  /\ subscribed' = (subscribed /\ p = "granted")
  /\ UNCHANGED <<registered, switchVars, filterVars>>

\* A push to a dead endpoint prunes its record.
ServerPrunes ==
  /\ registered /\ ~subscribed /\ registered' = FALSE
  /\ UNCHANGED <<grant, permissionDenied, subscribed, switchVars, filterVars>>

-------------------------------------------------------------------------------
(* The filters *)

FormOffered == pushEnabled /\ filtersInput # Absent

\* A load that fails shows empty filters, ready to be saved.
FiltersLoaded(ok) ==
  /\ filterLoad # Absent /\ filterLoad' = Absent
  /\ filtersInput' = IF ok THEN filterLoad ELSE "none"
  /\ scheduleValid' = TRUE
  /\ UNCHANGED <<deviceVars, switchVars, storedFilters, filterSave>>

EditFilters(f, valid) ==
  /\ FormOffered /\ filterSave = Absent
  /\ filtersInput' = f /\ scheduleValid' = valid
  /\ UNCHANGED <<deviceVars, switchVars, storedFilters, filterLoad, filterSave>>

SaveFilters ==
  /\ FormOffered /\ filterSave = Absent /\ scheduleValid
  /\ filterSave' = filtersInput
  /\ UNCHANGED <<deviceVars, switchVars, storedFilters, filtersInput, filterLoad,
                 scheduleValid>>

SaveSettled(ok) ==
  /\ filterSave # Absent /\ filterSave' = Absent
  /\ storedFilters' = IF ok THEN filterSave ELSE storedFilters
  /\ UNCHANGED <<deviceVars, switchVars, filtersInput, filterLoad, scheduleValid>>

\* The helper under the switch: this device, the others, or nobody yet.
SubscribersLine(count) ==
  CASE count = 0 -> "nobody"
    [] count = 1 /\ pushEnabled -> "just this one"
    [] pushEnabled -> "this one and others"
    [] OTHER -> "others only"

-------------------------------------------------------------------------------
\* The section is mounted; its read of the browser is on its way.
OpenSection ==
  /\ permissionDenied = (grant = "denied")
  /\ toggle = "idle" /\ pushEnabled = FALSE
  /\ mountRead = subscribed
  /\ filtersInput = Absent /\ filterLoad = Absent /\ filterSave = Absent
  /\ scheduleValid = TRUE

PushClientInit ==
  /\ grant = "default" /\ subscribed = FALSE /\ registered = FALSE
  /\ storedFilters = "none"
  /\ OpenSection

\* Another visit of the settings, once nothing is under way in this one.
ReopenSection ==
  /\ toggle = "idle" /\ filterSave = Absent
  /\ permissionDenied' = (grant = "denied")
  /\ pushEnabled' = FALSE /\ mountRead' = subscribed
  /\ filtersInput' = Absent /\ filterLoad' = Absent /\ scheduleValid' = TRUE
  /\ UNCHANGED <<grant, subscribed, registered, toggle, storedFilters, filterSave>>

ToggleStep ==
  \/ MountReads \/ TurnOn \/ TurnOff \/ ToggleFails
  \/ PermissionAnswered \/ KeyAnswered \/ BrowserSubscribes \/ ServerPersists
  \/ BrowserUnsubscribes \/ ServerForgets

PushClientNext ==
  \/ ToggleStep
  \/ \E p \in {"default", "granted", "denied"}, heard \in BOOLEAN : PermissionChanged(p, heard)
  \/ ServerPrunes
  \/ \E ok \in BOOLEAN : FiltersLoaded(ok) \/ SaveSettled(ok)
  \/ \E f \in Filters, valid \in BOOLEAN : EditFilters(f, valid)
  \/ SaveFilters \/ ReopenSection

PushClientSpec == PushClientInit /\ [][PushClientNext]_pushClientVars

-------------------------------------------------------------------------------
PushClientTypeOK ==
  /\ grant \in {"default", "granted", "denied"}
  /\ {permissionDenied, subscribed, registered, pushEnabled, scheduleValid} \subseteq BOOLEAN
  /\ toggle \in Enabling \cup Disabling \cup {"idle"}
  /\ mountRead \in BOOLEAN \cup {Absent}
  /\ storedFilters \in Filters
  /\ {filtersInput, filterLoad, filterSave} \subseteq Filters \cup {Absent}

\* The switch tells the truth when the user turns it: a turn that ends with the
\* switch on leaves the server with this browser's subscription, also when it mends
\* an earlier turn that failed halfway, and one that ends with it off leaves the
\* browser without one or without permission. (The mount's read promises less.)
ToggleTellsTruth ==
  [][ toggle # "idle" /\ toggle' = "idle" =>
        /\ ~pushEnabled /\ pushEnabled' => registered'
        /\ pushEnabled /\ ~pushEnabled' => ~subscribed' \/ grant' # "granted" ]_pushClientVars

===============================================================================
