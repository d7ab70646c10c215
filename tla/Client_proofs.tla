----------------------------- MODULE Client_proofs -----------------------------
(* Theorems about the client as a whole. What a part does in it is a behaviour of *)
(* that part's own specification, because no step of another part changes its      *)
(* state; what is proved of the parts is therefore true of the client.             *)
EXTENDS MCClient, ClientSession_proofs, ViewerPages_proofs, OwnerPages_proofs

PartsInit ==
  /\ SessionInit /\ NoticesInit /\ LiveInit /\ PushClientInit /\ DeliveryInit
  /\ EventsInit /\ ClipInit /\ WatchInit /\ SettingsInit /\ FacePhotosInit
  /\ MaintenanceInit /\ TimelapsesInit /\ ManageUsersInit /\ FaceSettingsInit
  /\ HostInit /\ AuditInit /\ DevicesInit

ViewerSteps ==
  /\ [SessionNext]_sessionVars /\ [NoticesNext]_noticesVars /\ [LiveNext]_liveVars
  /\ [PushClientNext]_pushClientVars /\ [DeliveryNext]_deliveryVars
  /\ [EventsNext]_eventsVars /\ [ClipNext]_clipVars /\ [WatchNext]_watchVars

OwnerSteps ==
  /\ [SettingsNext]_settingsVars /\ [FacePhotosNext]_photoVars
  /\ [MaintenanceNext]_maintenanceVars /\ [TimelapsesNext]_reelVars
  /\ [ManageUsersNext]_userVars /\ [FaceSettingsNext]_faceVars
  /\ [HostNext]_hostVars /\ [AuditNext]_auditVars /\ [DevicesNext]_deviceListVars

PartNames ==
  {"session", "notices", "live", "push", "delivery", "events", "clip", "watch",
   "settings", "photos", "maintenance", "timelapses", "users", "password",
   "capture", "consent", "people", "host", "audit", "devices"}

LEMMA ClientStarts == ClientInit => PartsInit /\ part \in PartNames
<1>1. ClientInit => part \in PartNames
  BY DEF ClientInit, PartNames
<1>2. ClientInit => PartsInit
  BY DEF ClientInit, PartsInit, GodViewInit
<1>. QED  BY <1>1, <1>2

LEMMA ClientSteps ==
  ASSUME [ClientNext]_ClientVars
  PROVE  ViewerSteps /\ OwnerSteps /\ part' = part
<1>1. CASE UNCHANGED ClientVars
  BY <1>1 DEF ClientVars, viewerVars, ownerVars, godViewVars, ViewerSteps, OwnerSteps
<1>2. CASE ClientNext
  <2>1. ViewerSteps
    BY <1>2 DEF ClientNext, viewerVars, ViewerSteps
  <2>2. OwnerSteps
    BY <1>2
    DEF ClientNext, viewerVars, ownerVars, godViewVars, OwnerSteps, ManageUsersNext,
        FaceSettingsNext
  <2>3. part' = part
    BY <1>2 DEF ClientNext
  <2>. QED  BY <2>1, <2>2, <2>3
<1>. QED  BY <1>1, <1>2

-------------------------------------------------------------------------------
\* What a part does in the client is a behaviour of the part: each of its steps is one of the
\* part's handlers or leaves all of the part's state alone (the components own their state,
\* App.tsx only mounts them).
THEOREM PartsBehave ==
  ClientSpec =>
    /\ SessionSpec /\ NoticesSpec /\ LiveSpec /\ PushClientSpec /\ DeliverySpec
    /\ EventsSpec /\ ClipSpec /\ WatchSpec /\ SettingsSpec /\ FacePhotosSpec
    /\ MaintenanceSpec /\ TimelapsesSpec /\ ManageUsersSpec /\ FaceSettingsSpec /\ HostSpec
<1>1. ClientInit => PartsInit
  BY ClientStarts
<1>2. [ClientNext]_ClientVars => ViewerSteps /\ OwnerSteps
  BY ClientSteps
<1>3. PartsInit =>
        /\ SessionInit /\ NoticesInit /\ LiveInit /\ PushClientInit /\ DeliveryInit
        /\ EventsInit /\ ClipInit /\ WatchInit /\ SettingsInit /\ FacePhotosInit
        /\ MaintenanceInit /\ TimelapsesInit /\ ManageUsersInit /\ FaceSettingsInit /\ HostInit
  BY DEF PartsInit
<1>4. ViewerSteps =>
        /\ [SessionNext]_sessionVars /\ [NoticesNext]_noticesVars /\ [LiveNext]_liveVars
        /\ [PushClientNext]_pushClientVars /\ [DeliveryNext]_deliveryVars
        /\ [EventsNext]_eventsVars /\ [ClipNext]_clipVars /\ [WatchNext]_watchVars
  BY DEF ViewerSteps
<1>5. OwnerSteps =>
        /\ [SettingsNext]_settingsVars /\ [FacePhotosNext]_photoVars
        /\ [MaintenanceNext]_maintenanceVars /\ [TimelapsesNext]_reelVars
        /\ [ManageUsersNext]_userVars /\ [FaceSettingsNext]_faceVars /\ [HostNext]_hostVars
  BY DEF OwnerSteps
<1>6. ClientSpec =>
        /\ SessionSpec /\ NoticesSpec /\ LiveSpec /\ PushClientSpec /\ DeliverySpec
        /\ EventsSpec /\ ClipSpec /\ WatchSpec
  BY <1>1, <1>2, <1>3, <1>4, PTL
  DEF ClientSpec, SessionSpec, NoticesSpec, LiveSpec, PushClientSpec, DeliverySpec, EventsSpec,
      ClipSpec, WatchSpec
<1>7. ClientSpec =>
        /\ SettingsSpec /\ FacePhotosSpec /\ MaintenanceSpec /\ TimelapsesSpec
        /\ ManageUsersSpec /\ FaceSettingsSpec /\ HostSpec
  BY <1>1, <1>2, <1>3, <1>5, PTL
  DEF ClientSpec, SettingsSpec, FacePhotosSpec, MaintenanceSpec, TimelapsesSpec,
      ManageUsersSpec, FaceSettingsSpec, HostSpec
<1>. QED  BY <1>6, <1>7

\* The types of each part, along its own inductive invariant.
ViewersTyped ==
  /\ SessionTypeOK /\ NoticesTypeOK /\ LiveTypeOK /\ PushClientTypeOK /\ DeliveryTypeOK
  /\ EventsTypeOK /\ ClipTypeOK /\ WatchTypeOK

OwnersTyped ==
  /\ SettingsTypeOK /\ FacePhotosTypeOK /\ MaintenanceTypeOK /\ TimelapsesTypeOK
  /\ ManageUsersTypeOK /\ FaceSettingsTypeOK /\ GodViewTypeOK

LEMMA ViewersAreTyped == ClientSpec => []ViewersTyped
<1>1. SessionSpec => []SessionTypeOK
  <2>1. SessionInv => SessionTypeOK
    BY DEF SessionInv
  <2>. QED  BY <2>1, SessionIsSound, PTL
<1>2. NoticesSpec => []NoticesTypeOK
  BY NoticesInitTyped, NoticesTypeKept, NoticesTypes, PTL DEF NoticesSpec
<1>3. LiveSpec => []LiveTypeOK
  <2>1. LiveInv => LiveTypeOK
    BY DEF LiveInv
  <2>. QED  BY <2>1, LiveIsSound, PTL
<1>4. PushClientSpec => []PushClientTypeOK
  BY SwitchInitTyped, SwitchTypeKept, PTL DEF PushClientSpec
<1>5. DeliverySpec => []DeliveryTypeOK
  BY DeliveryInitTyped, DeliveryStepKeeps, DeliveryImplies, PTL DEF DeliverySpec
<1>6. EventsSpec => []EventsTypeOK
  BY NothingSpinsForEver, PTL
<1>7. ClipSpec => []ClipTypeOK
  <2>1. ClipInv => ClipTypeOK
    BY DEF ClipInv
  <2>. QED  BY <2>1, ClipInitHolds, ClipStepKeeps, PTL DEF ClipSpec
<1>8. WatchSpec => []WatchTypeOK
  BY WatchIsSound, PTL
<1>. QED  BY <1>1, <1>2, <1>3, <1>4, <1>5, <1>6, <1>7, <1>8, PartsBehave, PTL
  DEF ViewersTyped

LEMMA OwnersAreTyped == ClientSpec => []OwnersTyped
<1>1. MaintenanceSpec => []MaintenanceTypeOK
  <2>1. RestoreInv => MaintenanceTypeOK
    BY DEF RestoreInv
  <2>. QED  BY <2>1, MaintenanceIsSound, PTL
<1>2. TimelapsesSpec => []TimelapsesTypeOK
  BY ReelsInitTyped, ReelsStepKeeps, ReelsImplies, PTL DEF TimelapsesSpec
<1>3. ManageUsersSpec => []ManageUsersTypeOK
  BY AccountsInitTyped, AccountsStepKeeps, AccountsTypes, PTL DEF ManageUsersSpec
<1>4. FaceSettingsSpec => []FaceSettingsTypeOK
  BY FacesInitTyped, FacesStepKeeps, FacesImplies, PTL DEF FaceSettingsSpec
<1>5. ClientSpec => []GodViewTypeOK
  <2>1. ClientInit => AuditTyped /\ DevicesTyped
    BY ClientStarts, AuditInitTyped, DevicesInitTyped DEF PartsInit
  <2>2. AuditTyped /\ DevicesTyped /\ [ClientNext]_ClientVars => AuditTyped' /\ DevicesTyped'
    BY ClientSteps, AuditStepKeeps, DevicesStepKeeps DEF OwnerSteps
  <2>3. HostInv => HostTypeOK
    BY DEF HostInv
  <2>. QED  BY <2>1, <2>2, <2>3, PanelsAreSound, PartsBehave, GodViewTypes, PTL DEF ClientSpec
<1>. QED
  BY <1>1, <1>2, <1>3, <1>4, <1>5, PartsBehave, ClipsFitTheirTier, PhotosAreUnlocked, PTL
  DEF OwnersTyped

\* The whole client is well typed: no handler of any page leaves its page's state outside what the
\* page can show, for every value of the constants.
THEOREM ClientIsTyped == ClientSpec => []ClientTypeOK
<1>1. ClientInit => part \in PartNames
  BY ClientStarts
<1>2. part \in PartNames /\ [ClientNext]_ClientVars => (part \in PartNames)'
  BY ClientSteps
<1>3. part \in PartNames /\ ViewersTyped /\ OwnersTyped => ClientTypeOK
  BY DEF ViewersTyped, OwnersTyped, ClientTypeOK, PartNames
<1>4. ClientSpec => [](part \in PartNames)
  BY <1>1, <1>2, PTL DEF ClientSpec
<1>. QED  BY <1>3, <1>4, ViewersAreTyped, OwnersAreTyped, PTL

\* Every safety property of a part holds of the client: nobody waits for a refresh that is over,
\* the socket comes back, no notice is early, no superseded attempt lives, a connecting picture
\* ends, no spinner turns for ever, a promised clip is asked for, a lock has its request, and what
\* is restored was named.
THEOREM ClientIsSafe ==
  ClientSpec =>
    [](/\ WaitersAreServed /\ NoLostReconnect /\ BannerIsNotEarly /\ SupersededIsGone
       /\ ConnectingEnds /\ SpinnersEnd /\ PromiseIsKept /\ LocksAreFreed
       /\ RestoresWhatWasNamed)
<1>. QED
  BY PartsBehave, WaitersServed, ReconnectIsNotLost, BannerWaits, NothingSuperseded,
     ConnectingHasAnEnd, NothingSpinsForEver, PromisesKept, PhotosAreUnlocked, RestoredAsNamed,
     PTL

\* And so does what a step of a part never does: a picture of the past does not replace a newer
\* one, the alerts switch tells the truth, and a request that is over stays over.
THEOREM ClientStepsAreSafe ==
  ClientSpec => NeverGoesBack /\ ToggleTellsTruth /\ FinishedStays
<1>. QED  BY PartsBehave, NoStepBack, SwitchTellsTruth, EndsAreKept

===============================================================================
