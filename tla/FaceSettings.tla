------------------------------- MODULE FaceSettings -------------------------------
(* What the owner decides about faces, and who is known: the sections of Training   *)
(* for capture and retention, exports and a name's consent, and the People page     *)
(* with its pages of names (and routes training_admin, training, events behind).    *)
EXTENDS Naturals, FiniteSets

CONSTANTS
  TypedDays,     \* the numbers the owner types for the retention
  LongestDays,   \* the longest retention (365 in the code), in the model's units
  DefaultDays,   \* face_capture_retention_days before anybody changed it
  MaxPatches,    \* bound: changes of the capture settings on their way
  PageCap,       \* the most pages of names list_people serves (500 names: 5 in the code)
  KnownPages,    \* pages the known names would fill
  NotYet         \* nothing loaded

ASSUME FaceSettingsAssumption ==
  /\ TypedDays \subseteq Nat /\ LongestDays \in Nat \ {0} /\ DefaultDays \in 1..LongestDays
  /\ MaxPatches \in Nat /\ {PageCap, KnownPages} \subseteq Nat \ {0}
  /\ NotYet \notin Nat

VARIABLES
  captureStored,   \* the server's switch and retention
  captureConfig,   \* config: the section's copy, with what is being typed in it
  captureLoading,
  capturePatches,  \* changes on their way: the patch, and the config it was answered
  exporting,       \* the archive being made, or "no"
  consent,         \* the name's consent, on the server
  consentShown,    \* record, NotYet before it is read
  consentJob,      \* busy: "no", the change on its way, or how it was answered
  consentDialog,   \* the confirmation of a revocation covers the page
  shownPages,      \* pages of people on screen, NotYet while there are none
  pageLimit,       \* pages asked for
  peopleLoading,   \* the request that is not cancelled is on its way
  moreFrom,        \* loadingMoreFromLength, NotYet for none; its timer runs as long
  peopleFailed     \* the error screen

captureVars == <<captureStored, captureConfig, captureLoading, capturePatches>>
consentVars == <<consent, consentShown, consentJob, consentDialog>>
trainVars == <<captureVars, exporting, consentVars>>
peopleVars == <<shownPages, pageLimit, peopleLoading, moreFrom, peopleFailed>>
faceVars == <<trainVars, peopleVars>>

CaptureConfigs == [on : BOOLEAN, days : Nat]
Clamped(days) == IF days > LongestDays THEN LongestDays ELSE days

-------------------------------------------------------------------------------
(* CaptureRetentionSection *)

\* A failed load leaves the section disabled.
CaptureLoaded ==
  /\ captureLoading /\ captureLoading' = FALSE
  /\ captureConfig' \in {captureStored, captureConfig}
  /\ UNCHANGED <<captureStored, capturePatches, exporting, consentVars, peopleVars>>

\* bound: changes on their way, and one of a kind
PatchCapture(field, value) ==
  LET patch == [field |-> field, value |-> value, answer |-> NotYet] IN
  /\ Cardinality(capturePatches) < MaxPatches /\ patch \notin capturePatches
  /\ capturePatches' = capturePatches \cup {patch}

\* The switch shows the stored value until the answer: a second tap sends the same again.
ToggleCapture ==
  /\ captureConfig # NotYet
  /\ PatchCapture("on", ~captureConfig.on)
  /\ UNCHANGED <<captureStored, captureConfig, captureLoading, exporting, consentVars, peopleVars>>

\* The number is in the section's copy as it is typed; an empty field counts as 1.
TypeDays(days) ==
  /\ captureConfig # NotYet
  /\ captureConfig' = [captureConfig EXCEPT !.days = IF days = 0 THEN 1 ELSE days]
  /\ captureConfig' # captureConfig
  /\ UNCHANGED <<captureStored, captureLoading, capturePatches, exporting, consentVars, peopleVars>>

LeaveDays ==
  /\ captureConfig # NotYet
  /\ PatchCapture("days", Clamped(captureConfig.days))
  /\ UNCHANGED <<captureStored, captureConfig, captureLoading, exporting, consentVars, peopleVars>>

CaptureServed(patch) ==
  /\ patch.answer = NotYet
  /\ captureStored' = IF patch.field = "on" THEN [captureStored EXCEPT !.on = patch.value]
                      ELSE [captureStored EXCEPT !.days = patch.value]
  /\ capturePatches' = (capturePatches \ {patch}) \cup {[patch EXCEPT !.answer = captureStored']}
  /\ UNCHANGED <<captureConfig, captureLoading, exporting, consentVars, peopleVars>>

\* The whole config of the answer replaces the copy, a number being typed included.
CaptureAnswered(patch) ==
  /\ patch.answer # NotYet
  /\ captureConfig' = patch.answer /\ capturePatches' = capturePatches \ {patch}
  /\ UNCHANGED <<captureStored, captureLoading, exporting, consentVars, peopleVars>>

\* A change that failed leaves what was typed on screen.
CaptureLost(patch) ==
  /\ capturePatches' = capturePatches \ {patch}
  /\ UNCHANGED <<captureStored, captureConfig, captureLoading, exporting, consentVars, peopleVars>>

-------------------------------------------------------------------------------
(* ExportSection, ConsentControl *)

\* One archive at a time; it ends with a download or an error, and so does the lock.
Export ==
  /\ IF exporting = "no" THEN ~consentDialog /\ exporting' \in {"face", "person"}
                         ELSE exporting' = "no"
  /\ UNCHANGED <<captureVars, consentVars, peopleVars>>

\* A record that cannot be read is shown as a refusal.
ConsentRead ==
  /\ consentShown = NotYet /\ consentShown' \in {consent, FALSE}
  /\ UNCHANGED <<captureVars, exporting, consent, consentJob, consentDialog, peopleVars>>

\* Only a revocation is confirmed first.
PressConsent ==
  /\ consentShown # NotYet /\ consentJob = "no" /\ ~consentDialog
  /\ consentDialog' = consentShown
  /\ consentJob' = IF consentShown THEN "no" ELSE "grant"
  /\ UNCHANGED <<captureVars, exporting, consent, consentShown, peopleVars>>

ConsentConfirmed(yes) ==
  /\ consentDialog /\ consentDialog' = FALSE
  /\ consentJob' = IF yes THEN "revoke" ELSE "no"
  /\ UNCHANGED <<captureVars, exporting, consent, consentShown, peopleVars>>

\* post_consent: written to the side and renamed.
ConsentServed ==
  /\ consentJob \in {"grant", "revoke"}
  /\ consent' = (consentJob = "grant")
  /\ consentJob' = IF consent' THEN "granted" ELSE "revoked"
  /\ UNCHANGED <<captureVars, exporting, consentShown, consentDialog, peopleVars>>

\* The answer comes, or is lost.
ConsentEnds ==
  /\ consentJob # "no" /\ consentJob' = "no"
  /\ \/ UNCHANGED consentShown
     \/ consentJob \in {"granted", "revoked"} /\ consentShown' = (consentJob = "granted")
  /\ UNCHANGED <<captureVars, exporting, consent, consentDialog, peopleVars>>

-------------------------------------------------------------------------------
(* People: a longer list is asked for in the place of the one there is. *)

\* loadingMore: until the list has grown, or for five seconds.
LoadingMore == moreFrom # NotYet /\ moreFrom = shownPages

\* The server refuses a limit above its own (422), and the limit never comes down: the
\* error screen's retry then asks for the same again.
PeopleEnd ==
  /\ peopleLoading /\ peopleLoading' = FALSE
  /\ \/ /\ pageLimit <= PageCap
        /\ shownPages' = IF pageLimit < KnownPages THEN pageLimit ELSE KnownPages
        /\ peopleFailed' = FALSE
     \/ peopleFailed' = TRUE /\ UNCHANGED shownPages
  /\ UNCHANGED <<trainVars, pageLimit, moreFrom>>

MorePeople ==
  /\ ~peopleFailed /\ shownPages # NotYet /\ shownPages < KnownPages /\ ~LoadingMore
  /\ pageLimit <= PageCap   \* bound: one page above the server's limit
  /\ moreFrom' = shownPages /\ pageLimit' = pageLimit + 1 /\ peopleLoading' = TRUE
  /\ UNCHANGED <<trainVars, shownPages, peopleFailed>>

SafetyTimer ==
  /\ moreFrom # NotYet /\ moreFrom' = NotYet
  /\ UNCHANGED <<trainVars, shownPages, pageLimit, peopleLoading, peopleFailed>>

RetryPeople ==
  /\ peopleFailed /\ peopleFailed' = FALSE
  /\ shownPages' = NotYet /\ peopleLoading' = TRUE
  /\ UNCHANGED <<trainVars, pageLimit, moreFrom>>

-------------------------------------------------------------------------------
TrainInit ==
  /\ captureStored = [on |-> FALSE, days |-> DefaultDays] /\ captureConfig = NotYet
  /\ captureLoading = TRUE /\ capturePatches = {}
  /\ exporting = "no"
  /\ consent = FALSE /\ consentShown = NotYet /\ consentJob = "no" /\ consentDialog = FALSE

PeopleInit ==
  /\ shownPages = NotYet /\ pageLimit = 1 /\ peopleLoading = TRUE
  /\ moreFrom = NotYet /\ peopleFailed = FALSE

FaceSettingsInit == TrainInit /\ PeopleInit

CaptureNext ==
  \/ CaptureLoaded \/ ToggleCapture \/ LeaveDays
  \/ \E days \in TypedDays : TypeDays(days)
  \/ \E patch \in capturePatches : CaptureServed(patch) \/ CaptureAnswered(patch) \/ CaptureLost(patch)

ConsentNext ==
  \/ Export \/ ConsentRead \/ PressConsent \/ ConsentServed \/ ConsentEnds
  \/ \E yes \in BOOLEAN : ConsentConfirmed(yes)

PeopleNext == PeopleEnd \/ MorePeople \/ SafetyTimer \/ RetryPeople

FaceSettingsNext == CaptureNext \/ ConsentNext \/ PeopleNext

FaceSettingsSpec == FaceSettingsInit /\ [][FaceSettingsNext]_faceVars

-------------------------------------------------------------------------------
FaceSettingsTypeOK ==
  LET Pages == 0..KnownPages IN
  /\ captureStored \in CaptureConfigs /\ captureConfig \in CaptureConfigs \cup {NotYet}
  /\ \A patch \in capturePatches :
       /\ \/ patch.field = "on" /\ patch.value \in BOOLEAN
          \/ patch.field = "days" /\ patch.value \in 1..LongestDays
       /\ patch.answer \in CaptureConfigs \cup {NotYet}
  /\ {captureLoading, consent, consentDialog, peopleLoading, peopleFailed} \subseteq BOOLEAN
  /\ exporting \in {"no", "face", "person"}
  /\ consentShown \in BOOLEAN \cup {NotYet}
  /\ consentJob \in {"no", "grant", "revoke", "granted", "revoked"}
  /\ {shownPages, moreFrom} \subseteq Pages \cup {NotYet} /\ pageLimit \in 1..(PageCap + 1)

===============================================================================
