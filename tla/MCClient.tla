------------------------------- MODULE MCClient -------------------------------
(* The parts of the browser client, side by side: a behaviour is one of one part, *)
(* which `part` names, the others standing at an initial state. The parts share   *)
(* no state, so nothing is lost by looking at each in turn.                       *)
EXTENDS ClientSession, ShellNotices, LiveVideo, PushClient, AlertDelivery, EventsPage,
        ClipViewer, WatchPage, DetectionSettings, FacePhotos, Maintenance, Timelapses,
        ManageUsers, FaceSettings, GodView

VARIABLE part

ClientCap == [month |-> 1, year_5 |-> 0]
ClientGuess == [p1 |-> "ann", p2 |-> NoPhoto]

\* What everybody has on screen, and what only an owner opens.
viewerVars == <<sessionVars, noticesVars, liveVars, pushClientVars, deliveryVars, eventsVars,
                clipVars, watchVars>>
ownerVars == <<settingsVars, photoVars, maintenanceVars, reelVars, userVars, faceVars,
               godViewVars>>

ClientVars == <<part, viewerVars, ownerVars>>

\* The parts with several initial states stand still at one of them.
ClientInit ==
  /\ part \in {"session", "notices", "live", "push", "delivery", "events", "clip", "watch",
               "settings", "photos", "maintenance", "timelapses", "users", "password",
               "capture", "consent", "people", "host", "audit", "devices"}
  /\ SessionInit /\ (part # "session" => access = "good" /\ route = "watch")
  /\ NoticesInit /\ LiveInit /\ PushClientInit /\ DeliveryInit
  /\ EventsInit /\ (part # "events" => deepLink = None)
  /\ ClipInit /\ (part # "clip" => onDisk = HasOwnClip /\ viewed = "e1")
  /\ WatchInit /\ SettingsInit /\ (part # "settings" => storedConfig.roll = 0)
  /\ FacePhotosInit /\ MaintenanceInit /\ TimelapsesInit
  /\ ManageUsersInit /\ FaceSettingsInit /\ GodViewInit

ClientNext ==
  \/ /\ part = "session"
     /\ UNCHANGED <<part, noticesVars, liveVars, pushClientVars, deliveryVars, eventsVars,
                    clipVars, watchVars, ownerVars>>
     /\ SessionNext
  \/ /\ part = "notices"
     /\ UNCHANGED <<part, sessionVars, liveVars, pushClientVars, deliveryVars, eventsVars,
                    clipVars, watchVars, ownerVars>>
     /\ NoticesNext
  \/ /\ part = "live"
     /\ UNCHANGED <<part, sessionVars, noticesVars, pushClientVars, deliveryVars, eventsVars,
                    clipVars, watchVars, ownerVars>>
     /\ LiveNext
  \/ /\ part = "push"
     /\ UNCHANGED <<part, sessionVars, noticesVars, liveVars, deliveryVars, eventsVars,
                    clipVars, watchVars, ownerVars>>
     /\ PushClientNext
  \/ /\ part = "delivery"
     /\ UNCHANGED <<part, sessionVars, noticesVars, liveVars, pushClientVars, eventsVars,
                    clipVars, watchVars, ownerVars>>
     /\ DeliveryNext
  \/ /\ part = "events"
     /\ UNCHANGED <<part, sessionVars, noticesVars, liveVars, pushClientVars, deliveryVars,
                    clipVars, watchVars, ownerVars>>
     /\ EventsNext
  \/ /\ part = "clip"
     /\ UNCHANGED <<part, sessionVars, noticesVars, liveVars, pushClientVars, deliveryVars,
                    eventsVars, watchVars, ownerVars>>
     /\ ClipNext
  \/ /\ part = "watch"
     /\ UNCHANGED <<part, sessionVars, noticesVars, liveVars, pushClientVars, deliveryVars,
                    eventsVars, clipVars, ownerVars>>
     /\ WatchNext
  \/ /\ part = "settings"
     /\ UNCHANGED <<part, viewerVars, photoVars, maintenanceVars, reelVars, userVars, faceVars, godViewVars>>
     /\ SettingsNext
  \/ /\ part = "photos"
     /\ UNCHANGED <<part, viewerVars, settingsVars, maintenanceVars, reelVars, userVars,
                    faceVars, godViewVars>>
     /\ FacePhotosNext
  \/ /\ part = "maintenance"
     /\ UNCHANGED <<part, viewerVars, settingsVars, photoVars, reelVars, userVars, faceVars, godViewVars>>
     /\ MaintenanceNext
  \/ /\ part = "timelapses"
     /\ UNCHANGED <<part, viewerVars, settingsVars, photoVars, maintenanceVars, userVars,
                    faceVars, godViewVars>>
     /\ TimelapsesNext
  \/ /\ part = "users"
     /\ UNCHANGED <<part, viewerVars, settingsVars, photoVars, maintenanceVars, reelVars,
                    faceVars, pwVars, godViewVars>>
     /\ UsersPanelNext
  \/ /\ part = "password"
     /\ UNCHANGED <<part, viewerVars, settingsVars, photoVars, maintenanceVars, reelVars,
                    faceVars, accounts, panelUserVars, godViewVars>>
     /\ PasswordNext
  \/ /\ part = "capture"
     /\ UNCHANGED <<part, viewerVars, settingsVars, photoVars, maintenanceVars, reelVars,
                    userVars, exporting, consentVars, peopleVars, godViewVars>>
     /\ CaptureNext
  \/ /\ part = "consent"
     /\ UNCHANGED <<part, viewerVars, settingsVars, photoVars, maintenanceVars, reelVars,
                    userVars, captureVars, peopleVars, godViewVars>>
     /\ ConsentNext
  \/ /\ part = "people"
     /\ UNCHANGED <<part, viewerVars, settingsVars, photoVars, maintenanceVars, reelVars,
                    userVars, trainVars, godViewVars>>
     /\ PeopleNext
  \/ /\ part = "host"
     /\ UNCHANGED <<part, viewerVars, settingsVars, photoVars, maintenanceVars, reelVars,
                    userVars, faceVars, auditVars, deviceListVars>>
     /\ HostNext
  \/ /\ part = "audit"
     /\ UNCHANGED <<part, viewerVars, settingsVars, photoVars, maintenanceVars, reelVars,
                    userVars, faceVars, hostVars, deviceListVars>>
     /\ AuditNext
  \/ /\ part = "devices"
     /\ UNCHANGED <<part, viewerVars, settingsVars, photoVars, maintenanceVars, reelVars,
                    userVars, faceVars, hostVars, auditVars>>
     /\ DevicesNext

ClientSpec == ClientInit /\ [][ClientNext]_ClientVars

ClientTypeOK ==
  CASE part = "session" -> SessionTypeOK
    [] part = "notices" -> NoticesTypeOK
    [] part = "live" -> LiveTypeOK
    [] part = "push" -> PushClientTypeOK
    [] part = "delivery" -> DeliveryTypeOK
    [] part = "events" -> EventsTypeOK
    [] part = "clip" -> ClipTypeOK
    [] part = "watch" -> WatchTypeOK
    [] part = "settings" -> SettingsTypeOK
    [] part = "photos" -> FacePhotosTypeOK
    [] part = "maintenance" -> MaintenanceTypeOK
    [] part = "timelapses" -> TimelapsesTypeOK
    [] part \in {"users", "password"} -> ManageUsersTypeOK
    [] part \in {"capture", "consent", "people"} -> FaceSettingsTypeOK
    [] part \in {"host", "audit", "devices"} -> GodViewTypeOK
===============================================================================
