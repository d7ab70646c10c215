------------------------------- MODULE GodView --------------------------------
(* The page of the person who runs the host (pages/GodView): the recovery panel  *)
(* and the log panel, which both put a request into the server's one slot for    *)
(* host actions and poll for its end; the audit of a range of days; the list of      *)
(* signed-in devices.                                                            *)
(*                                                                               *)
(* The slot is the one of HostActions, here as the two panels see it: a press    *)
(* while a request is live is answered with that request, whatever its kind.     *)
EXTENDS Naturals, Sequences, FiniteSets

CONSTANTS
  MaxHostRequests,   \* bound: records the server ever makes
  MaxPolls,          \* bound: answers of polls under way at once, of both panels
  MaxAudits,         \* bound: loads of the audit
  Devices,           \* the signed-in devices that are not this one
  MaxSessionLists,   \* bound: loads of the devices
  MaxRevokes,        \* bound: revocations confirmed
  Blank              \* nothing shown, nothing asked, no answer yet

ASSUME GodViewAssumption ==
  {MaxHostRequests, MaxPolls, MaxAudits, MaxSessionLists, MaxRevokes} \subseteq Nat

VARIABLES
  records,           \* the server's host actions, oldest first; the last is the slot
  requestId,         \* per panel: the record it polls for, 0 for none
  hostStatus,        \* per panel: the status it shows (status, result), or Blank
  press,             \* per panel: the request of a press (`fetching`, busyAction)
  polls,             \* per panel: the answers under way to polls of its effect
  auditRange, nonce, \* the days chosen; presses of Refresh and of retry
  auditLoad,         \* the key of the load of the running effect, or Blank
  audit,             \* result: the key it is for and how it ended, or Blank
  ended,             \* devices whose session the server has revoked
  deviceList,        \* SessionsPanel's state: status and rows (the revoked ones)
  deviceLoads,       \* its loads under way: what each read, or Blank
  askedDevice,       \* the device the dialog asks about, or Blank
  revokingJti,       \* the device whose button says "Revoking", or Blank
  revokes            \* the revocations confirmed, in order, and how far each is

hostVars == <<records, requestId, hostStatus, press, polls>>
auditVars == <<auditRange, nonce, auditLoad, audit>>
deviceListVars == <<ended, deviceList, deviceLoads, askedDevice, revokingJti, revokes>>
godViewVars == <<hostVars, auditVars, deviceListVars>>

-------------------------------------------------------------------------------
\* The recovery panel and the log panel.
HostPanels == {"recovery", "logs"}
Live == {"pending", "running"}
Terminal == {"done", "failed"}     \* "expired" is one more wording of a failure

NoPress == [at |-> "no", id |-> 0, status |-> Blank]
Pressed == [at |-> "sent", id |-> 0, status |-> Blank]
PressEnds(id, status) == [at |-> "answered", id |-> id, status |-> status]

Slot == IF records = <<>> THEN [kind |-> "none", status |-> "done"] ELSE records[Len(records)]

\* `terminal` of a panel, and whether its effect runs: it polls at once and on a timer.
Finished(p) == hostStatus[p] \in Terminal
Polling(p) == requestId[p] # 0 /\ ~Finished(p)

\* What a panel shows and asks for next. The effect depends on the request and on
\* `terminal`: when either changes it is torn down, its answers under way with it.
PanelBecomes(p, id, status) ==
  /\ requestId' = [requestId EXCEPT ![p] = id]
  /\ hostStatus' = [hostStatus EXCEPT ![p] = status]
  /\ polls' = IF id # requestId[p] \/ (status \in Terminal) # Finished(p)
              THEN [polls EXCEPT ![p] = {}] ELSE polls

\* A recovery button and its dialog confirmed: the status shown stays. Refresh of the
\* logs clears the result, and the request of before is polled again meanwhile.
PressRecovery ==
  /\ press["recovery"] = NoPress
  /\ press' = [press EXCEPT !["recovery"] = Pressed]
  /\ UNCHANGED <<records, requestId, hostStatus, polls>>

RefreshLogs ==
  /\ press["logs"] = NoPress
  /\ hostStatus["logs"] = Blank \/ Finished("logs")
  /\ press' = [press EXCEPT !["logs"] = Pressed]
  /\ PanelBecomes("logs", requestId["logs"], Blank)
  /\ UNCHANGED records

\* The server's handlers: a live request is answered with itself, for either panel.
Enqueue(p) ==
  /\ press[p] = Pressed
  /\ IF Slot.status \in Live
     THEN /\ press' = [press EXCEPT ![p] = PressEnds(Len(records), Slot.status)]
          /\ UNCHANGED records
     ELSE /\ Len(records) < MaxHostRequests
          /\ records' = Append(records, [kind |-> p, status |-> "pending"])
          /\ press' = [press EXCEPT ![p] = PressEnds(Len(records) + 1, "pending")]
  /\ UNCHANGED <<requestId, hostStatus, polls>>

PressAnswered(p) ==
  /\ press[p].at = "answered"
  /\ PanelBecomes(p, press[p].id, press[p].status)
  /\ press' = [press EXCEPT ![p] = NoPress]
  /\ UNCHANGED records

\* The request or its answer is lost: an error line, and the status as it was.
PressFails(p) ==
  /\ press[p] # NoPress
  /\ press' = [press EXCEPT ![p] = NoPress]
  /\ UNCHANGED <<records, requestId, hostStatus, polls>>

\* The status handler knows every record, the log handler only those of logs.
AnswerTo(p, id) ==
  IF p = "logs" /\ records[id].kind # "logs" THEN "missing" ELSE records[id].status

HostPollTick(p) ==
  /\ Polling(p)
  /\ Cardinality(polls["recovery"]) + Cardinality(polls["logs"]) < MaxPolls
  /\ polls' = [polls EXCEPT ![p] = @ \cup {AnswerTo(p, requestId[p])}]
  /\ UNCHANGED <<records, requestId, hostStatus, press>>

\* Mutant of HostPollAnswered: answers under way outlive the effect that asked.
HostPollAnsweredLate(p) ==
  \E status \in polls[p] :
    /\ hostStatus' =
         IF status = "missing" THEN hostStatus ELSE [hostStatus EXCEPT ![p] = status]
    /\ polls' = [polls EXCEPT ![p] = @ \ {status}]
    /\ UNCHANGED <<records, requestId, press>>

\* A poll answered, or failed: "missing" is a 404, which only sets the error line.
HostPollAnswered(p) ==
  \E status \in polls[p] :
    /\ hostStatus' =
         IF status = "missing" THEN hostStatus ELSE [hostStatus EXCEPT ![p] = status]
    /\ polls' = [polls EXCEPT ![p] = IF status \in Terminal THEN {} ELSE @ \ {status}]
    /\ UNCHANGED <<records, requestId, press>>

\* The worker and the clock, as HostActions has them.
HostWorks ==
  /\ Slot.status \in Live
  /\ \E status \in (IF Slot.status = "pending" THEN {"running"} ELSE {}) \cup Terminal :
       records' = [records EXCEPT ![Len(records)] = [kind |-> Slot.kind, status |-> status]]
  /\ UNCHANGED <<requestId, hostStatus, press, polls>>

\* Leaving the page forgets both panels: a press on its way has reached the server, or
\* never will.
LeavePanels ==
  /\ requestId' = [p \in HostPanels |-> 0]
  /\ hostStatus' = [p \in HostPanels |-> Blank]
  /\ press' = [p \in HostPanels |-> NoPress]
  /\ polls' = [p \in HostPanels |-> {}]
  /\ UNCHANGED records

HostInit ==
  /\ records = <<>>
  /\ requestId = [p \in HostPanels |-> 0]
  /\ hostStatus = [p \in HostPanels |-> Blank]
  /\ press = [p \in HostPanels |-> NoPress]
  /\ polls = [p \in HostPanels |-> {}]

HostNext ==
  \/ PressRecovery \/ RefreshLogs \/ HostWorks \/ LeavePanels
  \/ \E p \in HostPanels :
       \/ Enqueue(p) \/ PressAnswered(p) \/ PressFails(p)
       \/ HostPollTick(p) \/ HostPollAnswered(p)

HostSpec == HostInit /\ [][HostNext]_hostVars

-------------------------------------------------------------------------------
\* The audit: a result belongs to the days and the press it was loaded for.
Ranges == 1..2
RequestKey == <<auditRange, nonce>>
AuditLoading == audit = Blank \/ audit.key # RequestKey
ShownAudit == IF AuditLoading THEN Blank ELSE audit.end

\* The effect runs again when the key changes and cancels the load it started.
ChooseRange(r) ==
  /\ r # auditRange
  /\ auditRange' = r
  /\ auditLoad' = <<r, nonce>>
  /\ UNCHANGED <<nonce, audit>>

ReloadAudit ==
  /\ nonce < MaxAudits
  /\ nonce' = nonce + 1
  /\ auditLoad' = <<auditRange, nonce + 1>>
  /\ UNCHANGED <<auditRange, audit>>

AuditAnswered ==
  /\ auditLoad # Blank
  /\ \E end \in {"audit", "error"} : audit' = [key |-> auditLoad, end |-> end]
  /\ auditLoad' = Blank
  /\ UNCHANGED <<auditRange, nonce>>

AuditInit == auditRange = 1 /\ nonce = 0 /\ auditLoad = <<1, 0>> /\ audit = Blank

AuditNext == (\E r \in Ranges : ChooseRange(r)) \/ ReloadAudit \/ AuditAnswered

-------------------------------------------------------------------------------
\* The signed-in devices.
Rows == deviceList.rows

\* load(): the rows stay on screen while it runs, and an earlier load still counts.
ReadDevices ==
  /\ Len(deviceLoads) < MaxSessionLists
  /\ deviceLoads' = Append(deviceLoads, Blank)

LoadDevices ==
  /\ ReadDevices
  /\ deviceList' = [deviceList EXCEPT !.status = "loading"]

RetryDevices ==
  /\ deviceList.status = "error"
  /\ LoadDevices
  /\ UNCHANGED <<ended, askedDevice, revokingJti, revokes>>

DevicesServed ==
  /\ \E i \in DOMAIN deviceLoads :
       /\ deviceLoads[i] = Blank
       /\ deviceLoads' = [deviceLoads EXCEPT ![i] = ended]
  /\ UNCHANGED <<ended, deviceList, askedDevice, revokingJti, revokes>>

Without(s, i) == SubSeq(s, 1, i - 1) \o SubSeq(s, i + 1, Len(s))

DevicesLoaded ==
  /\ \E i \in DOMAIN deviceLoads :
       /\ deviceLoads[i] # Blank
       /\ deviceList' = [status |-> "ready", rows |-> deviceLoads[i]]
       /\ deviceLoads' = Without(deviceLoads, i)
  /\ UNCHANGED <<ended, askedDevice, revokingJti, revokes>>

\* A failed load keeps the rows, under the error's own screen.
DevicesFail ==
  /\ \E i \in DOMAIN deviceLoads : deviceLoads' = Without(deviceLoads, i)
  /\ deviceList' = [deviceList EXCEPT !.status = "error"]
  /\ UNCHANGED <<ended, askedDevice, revokingJti, revokes>>

\* A row's button: there for a device read and not shown as revoked, and not while it
\* says "Revoking".
PressRevoke(device) ==
  /\ askedDevice = Blank /\ deviceList.status # "error"
  /\ Rows # Blank /\ device \notin Rows /\ revokingJti # device
  /\ askedDevice' = device
  /\ UNCHANGED <<ended, deviceList, deviceLoads, revokingJti, revokes>>

RevokeDialog(ok) ==
  /\ askedDevice # Blank
  /\ askedDevice' = Blank
  /\ IF ok
     THEN /\ Len(revokes) < MaxRevokes
          /\ revokes' = Append(revokes, [device |-> askedDevice, at |-> "sent"])
          /\ revokingJti' = askedDevice
     ELSE UNCHANGED <<revokes, revokingJti>>
  /\ UNCHANGED <<ended, deviceList, deviceLoads>>

\* Already revoked is a 404, like an unknown one.
RevokeServed ==
  /\ \E i \in DOMAIN revokes :
       /\ revokes[i].at = "sent"
       /\ revokes' =
            [revokes EXCEPT ![i].at = IF revokes[i].device \in ended THEN "refused"
                                      ELSE "done"]
       /\ ended' = ended \cup {revokes[i].device}
  /\ UNCHANGED <<deviceList, deviceLoads, askedDevice, revokingJti>>

\* The end of any revocation takes "Revoking" off, whichever row it stands on; one that
\* succeeded reads the devices again.
RevokeAnswered ==
  /\ \E i \in DOMAIN revokes :
       /\ revokes[i].at \in {"done", "refused"}
       /\ IF revokes[i].at = "done" THEN LoadDevices ELSE UNCHANGED <<deviceList, deviceLoads>>
       /\ revokes' = [revokes EXCEPT ![i].at = "over"]
  /\ revokingJti' = Blank
  /\ UNCHANGED <<ended, askedDevice>>

RevokeLost ==
  /\ \E i \in DOMAIN revokes :
       /\ revokes[i].at # "over"
       /\ revokes' = [revokes EXCEPT ![i].at = "over"]
  /\ revokingJti' = Blank
  /\ UNCHANGED <<ended, deviceList, deviceLoads, askedDevice>>

\* Another owner revokes a device meanwhile.
RevokedElsewhere ==
  /\ \E device \in Devices \ ended : ended' = ended \cup {device}
  /\ UNCHANGED <<deviceList, deviceLoads, askedDevice, revokingJti, revokes>>

DevicesInit ==
  /\ ended = {} /\ revokes = <<>>
  /\ deviceList = [status |-> "loading", rows |-> Blank]
  /\ deviceLoads = <<Blank>>
  /\ askedDevice = Blank /\ revokingJti = Blank

DevicesNext ==
  \/ RetryDevices \/ DevicesServed \/ DevicesLoaded \/ DevicesFail
  \/ \E device \in Devices : PressRevoke(device)
  \/ \E ok \in BOOLEAN : RevokeDialog(ok)
  \/ RevokeServed \/ RevokeAnswered \/ RevokeLost \/ RevokedElsewhere

-------------------------------------------------------------------------------
GodViewInit == HostInit /\ AuditInit /\ DevicesInit

\* What the panels hold fits the records: every id is that of a record, or 0.
Shows == Live \cup Terminal \cup {Blank}
HostTypeOK ==
  /\ records \in Seq([kind : HostPanels, status : Live \cup Terminal])
  /\ requestId \in [HostPanels -> 0..Len(records)]
  /\ hostStatus \in [HostPanels -> Shows]
  /\ press \in [HostPanels -> [at : {"no", "sent", "answered"}, id : 0..Len(records),
                               status : Shows]]
  /\ polls \in [HostPanels -> SUBSET (Live \cup Terminal \cup {"missing"})]

GodViewTypeOK ==
  /\ HostTypeOK
  /\ auditRange \in Ranges /\ nonce \in 0..MaxAudits
  /\ ended \subseteq Devices
  /\ deviceList.status \in {"loading", "ready", "error"}
  /\ Rows = Blank \/ Rows \subseteq Devices

(* A panel that shows the end of its request (done, failed, timed out) does not go *)
(* back to "queued" or "running" because an older poll answers late: only a new    *)
(* press changes what it shows. (GodView.tsx:120 and 242: two polls of the timer   *)
(* may be under way and answer in either order.)                                   *)
FinishedStays ==
  [][\A p \in HostPanels :
       Finished(p) /\ requestId'[p] # 0
         => hostStatus'[p] = hostStatus[p] \/ press'[p] # press[p]]_hostVars
===============================================================================
