--------------------------- MODULE OwnerPages_proofs ---------------------------
(* Theorems about what only an owner opens: the maintenance section, the host      *)
(* page, the accounts, the face photos with their settings, the time-lapses and    *)
(* the detection settings, each for every value of its constants. The parts share  *)
(* no variable; each has a section of its own here, with the invariant of its      *)
(* module.                                                                         *)
EXTENDS Maintenance, GodView, ManageUsers, FacePhotos, Timelapses, FaceSettings,
        DetectionSettings, SequenceTheorems, FiniteSetTheorems, WellFoundedInduction, TLAPS

-------------------------------------------------------------------------------
(* Maintenance. The lock of a restore and the request it is for.                   *)

\* The restores confirmed since the section was opened.
Restores == {job \in jobs : job.here /\ job.kind = "restore"}

\* What the restore's dialog waits for: none is under way while it is asked, because the
\* button was enabled, and no other dialog can be confirmed meanwhile.
AskedFresh == asking # Shut /\ asking.kind = "restore" => ~restoreSubmitting
AsNamed == \A job \in Restores : job.backup = restoreNamed
OneAtATime == \A job, other \in Restores : job = other
Locked == restoreSubmitting <=> Restores # {}

RestoreInv == MaintenanceTypeOK /\ AskedFresh /\ AsNamed /\ OneAtATime /\ Locked

-------------------------------------------------------------------------------
LEMMA MaintenanceConstants ==
  /\ MaxBackups \in Nat /\ 0 \in 0..MaxBackups /\ 0..MaxBackups \subseteq Nat
  /\ Shut \notin Nat
  BY MaintenanceAssumption

LEMMA StatusesTyped ==
  ASSUME NEW kind \in JobKinds
  PROVE  /\ "sent" \in Statuses /\ StatusesOfSuccess[kind] \in Statuses
         /\ StatusesOfFailure[kind] \subseteq Statuses
  BY DEF Statuses

LEMMA MaintenanceImplies == RestoreInv => RestoresWhatWasNamed
<1> SUFFICES ASSUME RestoreInv PROVE RestoresWhatWasNamed
  OBVIOUS
<1>1. Cardinality(Restores) <= 1
  <2>1. CASE Restores = {}
    BY <2>1, FS_EmptySet
  <2>2. ASSUME NEW job \in Restores PROVE Cardinality(Restores) <= 1
    <3>1. Restores = {job}
      BY <2>2 DEF RestoreInv, OneAtATime
    <3>2. Cardinality({job}) = 1
      BY FS_Singleton
    <3>. QED  BY <3>1, <3>2
  <2>. QED  BY <2>1, <2>2
<1>2. AsNamed /\ Locked
  BY DEF RestoreInv
<1>. QED  BY <1>1, <1>2 DEF RestoresWhatWasNamed, AsNamed, Locked, Restores

LEMMA MaintenanceInitHolds == MaintenanceInit => RestoreInv
  BY MaintenanceConstants
  DEF MaintenanceInit, RestoreInv, MaintenanceTypeOK, AskedFresh, AsNamed, OneAtATime, Locked,
      Restores

\* The panel: lists and selections come and go, the jobs and their lock stay.
LEMMA PanelKeeps ==
  ASSUME RestoreInv,
         UNCHANGED <<backups, restoreSubmitting, asking, restoreNamed, jobs, lastToast>>,
         backupLists' \subseteq 0..MaxBackups,
         {backupList', restorePath'} \subseteq 0..MaxBackups \cup {Shut}
  PROVE  RestoreInv'
  BY DEF RestoreInv, MaintenanceTypeOK, AskedFresh, AsNamed, OneAtATime, Locked, Restores

\* The four facts about restores follow from what becomes of the set of them.
LEMMA SameRestoresKeep ==
  ASSUME RestoreInv, Restores' = Restores, UNCHANGED <<restoreSubmitting, restoreNamed>>
  PROVE  AsNamed' /\ OneAtATime' /\ Locked'
  BY DEF RestoreInv, AsNamed, OneAtATime, Locked

LEMMA NoRestoreKeeps ==
  ASSUME Restores' = {}, restoreSubmitting' = FALSE
  PROVE  AsNamed' /\ OneAtATime' /\ Locked'
  BY DEF AsNamed, OneAtATime, Locked

LEMMA OneRestoreKeeps ==
  ASSUME NEW job, Restores' = {job}, restoreSubmitting' = TRUE, restoreNamed' = job.backup
  PROVE  AsNamed' /\ OneAtATime' /\ Locked'
  BY DEF AsNamed, OneAtATime, Locked

-------------------------------------------------------------------------------
LEMMA ConfirmKeeps ==
  ASSUME RestoreInv, NEW yes \in BOOLEAN, JobConfirmed(yes)
  PROVE  RestoreInv'
<1> USE DEF RestoreInv
<1>1. /\ asking' = Shut /\ asking # Shut
      /\ UNCHANGED <<backups, backupLists, backupList, restorePath, lastToast>>
      /\ asking.kind \in JobKinds /\ asking.backup \in 0..MaxBackups
  BY DEF JobConfirmed, Uncovered, MaintenanceTypeOK
<1>2. AskedFresh'
  BY <1>1 DEF AskedFresh
<1>3. CASE yes
  <2> DEFINE new == [kind |-> asking.kind, backup |-> asking.backup, status |-> "sent",
                     here |-> TRUE]
  <2>1. /\ jobs' = jobs \cup {new}
        /\ restoreSubmitting' = (restoreSubmitting \/ asking.kind = "restore")
        /\ restoreNamed' = IF asking.kind = "restore" THEN asking.backup ELSE restoreNamed
    BY <1>3 DEF JobConfirmed, JobSent
  <2>2. new \in Jobs
    BY <1>1, StatusesTyped DEF Jobs
  <2>3. MaintenanceTypeOK'
    BY <1>1, <2>1, <2>2 DEF MaintenanceTypeOK
  <2>4. CASE asking.kind = "restore"
    <3>1. Restores = {}
      BY <1>1, <2>4 DEF AskedFresh, Locked
    <3>2. Restores' = {new}
      BY <2>1, <2>4, <3>1 DEF Restores
    <3>. QED  BY <1>2, <2>1, <2>3, <2>4, <3>2, OneRestoreKeeps, new.backup = asking.backup
  <2>5. CASE asking.kind # "restore"
    <3>1. Restores' = Restores
      BY <2>1, <2>5 DEF Restores
    <3>. QED
      BY <1>2, <2>1, <2>3, <2>5, <3>1, SameRestoresKeep DEF MaintenanceTypeOK
  <2>. QED  BY <2>4, <2>5
<1>4. CASE ~yes
  <2>1. UNCHANGED <<jobs, restoreSubmitting, restoreNamed>>
    BY <1>4 DEF JobConfirmed
  <2>2. Restores' = Restores
    BY <2>1 DEF Restores
  <2>. QED  BY <1>1, <1>2, <2>1, <2>2, SameRestoresKeep DEF MaintenanceTypeOK
<1>. QED  BY <1>3, <1>4

\* The answer takes the job's place: a restore under way is still the same restore.
LEMMA ServedKeeps ==
  ASSUME RestoreInv, NEW job \in jobs, JobServed(job)
  PROVE  RestoreInv'
<1> USE DEF RestoreInv
<1>1. job \in Jobs /\ job.kind \in JobKinds /\ job.here \in BOOLEAN
  BY DEF MaintenanceTypeOK, Jobs
<1>2. PICK status \in Statuses : Answered(job, status)
  BY <1>1, StatusesTyped DEF JobServed
<1> DEFINE answered == [job EXCEPT !.status = status]
<1>3. jobs' = (jobs \ {job}) \cup {answered}
  BY <1>2 DEF Answered
<1>4. /\ answered \in Jobs /\ answered.kind = job.kind /\ answered.backup = job.backup
      /\ answered.here = job.here
  BY <1>1 DEF Jobs
<1> HIDE DEF answered
<1>5. UNCHANGED <<restorePanelVars, asking, restoreNamed, lastToast>>
  BY DEF JobServed
<1>6. backups' \in 0..MaxBackups
  <2>1. backups' = backups \/ (backups < MaxBackups /\ backups' = backups + 1)
    BY DEF JobServed
  <2>2. backups \in 0..MaxBackups /\ MaxBackups \in Nat
    BY MaintenanceConstants DEF MaintenanceTypeOK
  <2>. QED  BY <2>1, <2>2
<1>7. MaintenanceTypeOK' /\ AskedFresh'
  BY <1>3, <1>4, <1>5, <1>6 DEF MaintenanceTypeOK, AskedFresh, restorePanelVars
<1>8. CASE job \in Restores
  <2>1. Restores = {job}
    BY <1>8 DEF OneAtATime
  <2>2. Restores' = {answered}
    BY <1>3, <1>4, <2>1 DEF Restores
  <2>3. restoreSubmitting' = TRUE /\ restoreNamed' = answered.backup
    BY <1>4, <1>5, <1>8 DEF restorePanelVars, Locked, AsNamed, MaintenanceTypeOK
  <2>. QED  BY <1>7, <2>2, <2>3, OneRestoreKeeps
<1>9. CASE job \notin Restores
  <2>1. Restores' = Restores
    BY <1>3, <1>4, <1>9 DEF Restores
  <2>. QED  BY <1>5, <1>7, <2>1, SameRestoresKeep DEF restorePanelVars
<1>. QED  BY <1>8, <1>9

\* The end of a job unlocks the panel when it is the restore, and only then.
LEMMA EndsKeeps ==
  ASSUME RestoreInv, NEW job \in jobs, JobAnswered(job) \/ JobLost(job)
  PROVE  RestoreInv'
<1> USE DEF RestoreInv
<1>1. /\ jobs' = jobs \ {job} /\ UNCHANGED <<backups, backupLists, backupList, asking>>
      /\ IF job.here /\ job.kind = "restore"
         THEN restoreSubmitting' = FALSE /\ restoreNamed' = 0
         ELSE UNCHANGED <<restoreSubmitting, restoreNamed>>
  BY DEF JobAnswered, JobLost, JobEnds
<1>2. restorePath' \in {restorePath, Shut} /\ lastToast' \in {"none", "done", "not done", "denied"}
  BY DEF JobAnswered, JobLost, JobEnds, ToastFor
<1>3. MaintenanceTypeOK' /\ AskedFresh'
  BY <1>1, <1>2, MaintenanceConstants DEF MaintenanceTypeOK, AskedFresh
<1>4. CASE job \in Restores
  <2>1. Restores' = {} /\ restoreSubmitting' = FALSE
    BY <1>1, <1>4 DEF Restores, OneAtATime
  <2>. QED  BY <1>3, <2>1, NoRestoreKeeps
<1>5. CASE job \notin Restores
  <2>1. Restores' = Restores /\ UNCHANGED <<restoreSubmitting, restoreNamed>>
    BY <1>1, <1>5 DEF Restores
  <2>. QED  BY <1>3, <2>1, SameRestoresKeep
<1>. QED  BY <1>4, <1>5

LEMMA LeaveKeeps ==
  ASSUME RestoreInv, LeaveSection
  PROVE  RestoreInv'
<1> USE DEF RestoreInv
<1>1. /\ backupLists' = {} /\ backupList' = Shut /\ restorePath' = Shut
      /\ restoreSubmitting' = FALSE /\ restoreNamed' = 0
      /\ jobs' = {[job EXCEPT !.here = FALSE] : job \in jobs}
      /\ UNCHANGED <<backups, asking, lastToast>>
  BY DEF LeaveSection
<1>2. \A job \in Jobs : [job EXCEPT !.here = FALSE] \in Jobs /\ ~[job EXCEPT !.here = FALSE].here
  BY DEF Jobs
<1>3. jobs' \subseteq Jobs /\ Restores' = {}
  BY <1>1, <1>2 DEF MaintenanceTypeOK, Restores
<1>4. MaintenanceTypeOK' /\ AskedFresh'
  BY <1>1, <1>3, MaintenanceConstants DEF MaintenanceTypeOK, AskedFresh
<1>. QED  BY <1>1, <1>3, <1>4, NoRestoreKeeps

LEMMA MaintenanceStepKeeps == RestoreInv /\ [MaintenanceNext]_maintenanceVars => RestoreInv'
<1> SUFFICES ASSUME RestoreInv, [MaintenanceNext]_maintenanceVars PROVE RestoreInv'
  OBVIOUS
<1>1. CASE OpenRestore \/ CancelRestore
  <2>1. /\ UNCHANGED <<backups, restoreSubmitting, asking, restoreNamed, jobs, lastToast>>
        /\ backupLists' \subseteq 0..MaxBackups
        /\ {backupList', restorePath'} \subseteq 0..MaxBackups \cup {Shut}
    BY <1>1, MaintenanceConstants DEF OpenRestore, CancelRestore, RestoreInv, MaintenanceTypeOK
  <2>. QED  BY <2>1, PanelKeeps
<1>2. ASSUME NEW b \in Backups, SelectBackup(b) PROVE RestoreInv'
  <2>1. /\ UNCHANGED <<backups, restoreSubmitting, asking, restoreNamed, jobs, lastToast>>
        /\ backupLists' \subseteq 0..MaxBackups
        /\ {backupList', restorePath'} \subseteq 0..MaxBackups \cup {Shut}
    <3>1. b \in 0..MaxBackups
      BY MaintenanceConstants DEF Backups
    <3>2. /\ restorePath' = b
          /\ UNCHANGED <<backups, backupLists, backupList, restoreSubmitting, asking,
                         restoreNamed, jobs, lastToast>>
      BY <1>2 DEF SelectBackup
    <3>. QED  BY <3>1, <3>2 DEF RestoreInv, MaintenanceTypeOK
  <2>. QED  BY <2>1, PanelKeeps
<1>3. ASSUME NEW n \in backupLists, BackupsListed(n) \/ BackupsNotListed(n) PROVE RestoreInv'
  <2>1. /\ UNCHANGED <<backups, restoreSubmitting, asking, restoreNamed, jobs, lastToast>>
        /\ backupLists' \subseteq 0..MaxBackups
        /\ {backupList', restorePath'} \subseteq 0..MaxBackups \cup {Shut}
    BY <1>3, MaintenanceConstants
    DEF BackupsListed, BackupsNotListed, RestoreInv, MaintenanceTypeOK
  <2>. QED  BY <2>1, PanelKeeps
<1>4. ASSUME NEW kind \in JobKinds, AskJob(kind) PROVE RestoreInv'
  <2>1. /\ asking' = [kind |-> kind, backup |-> IF kind = "restore" THEN restorePath ELSE 0]
        /\ kind = "restore" => restorePath \notin {Shut, 0} /\ ~restoreSubmitting
        /\ UNCHANGED <<backups, restorePanelVars, restoreNamed, jobs, lastToast>>
    BY <1>4 DEF AskJob
  <2>2. asking' \in [kind : JobKinds, backup : 0..MaxBackups]
    BY <2>1, MaintenanceConstants DEF RestoreInv, MaintenanceTypeOK
  <2>3. Restores' = Restores
    BY <2>1 DEF Restores
  <2>4. AskedFresh'
    BY <2>1 DEF AskedFresh, restorePanelVars
  <2>. QED
    BY <2>1, <2>2, <2>3, <2>4, SameRestoresKeep DEF RestoreInv, MaintenanceTypeOK, restorePanelVars
<1>5. ASSUME NEW yes \in BOOLEAN, JobConfirmed(yes) PROVE RestoreInv'
  BY <1>5, ConfirmKeeps
<1>6. ASSUME NEW job \in jobs, JobServed(job) \/ JobAnswered(job) \/ JobLost(job) PROVE RestoreInv'
  BY <1>6, ServedKeeps, EndsKeeps
<1>7. CASE LeaveSection
  BY <1>7, LeaveKeeps
<1>8. CASE UNCHANGED maintenanceVars
  BY <1>8 DEF maintenanceVars, restorePanelVars, RestoreInv, MaintenanceTypeOK, AskedFresh, AsNamed,
              OneAtATime, Locked, Restores
<1>. QED
  BY <1>1, <1>2, <1>3, <1>4, <1>5, <1>6, <1>7, <1>8 DEF MaintenanceNext

-------------------------------------------------------------------------------
\* The section's state and the jobs under way are well typed. Of the restores confirmed since it
\* was opened there is at most one, it is of the backup its dialog named, none is under way while
\* another's dialog is on screen, and the panel is locked exactly as long as one is
\* (onRestoreSubmit's restoreSubmitting). Of reboots, backups and updates it says nothing more:
\* their buttons have no lock, and several may run.
THEOREM MaintenanceIsSound == MaintenanceSpec => []RestoreInv
<1>. QED  BY MaintenanceInitHolds, MaintenanceStepKeeps, PTL DEF MaintenanceSpec

\* While the section is open at most one restore is under way, it is of the backup its dialog
\* named, and the panel is locked exactly as long (DangerZone's onRestoreSubmit), for any
\* number of backups, late lists and jobs.
THEOREM RestoredAsNamed == MaintenanceSpec => []RestoresWhatWasNamed
<1>. QED  BY MaintenanceIsSound, MaintenanceImplies, PTL

-------------------------------------------------------------------------------
(* GodView, its host panels. *)

\* What makes a late poll harmless: the effect of a finished panel is torn down, and
\* the answers under way with it.
NothingLate == \A p \in HostPanels : Finished(p) => polls[p] = {}

HostInv == HostTypeOK /\ NothingLate

\* What a step of FinishedStays may not do.
KeepsItsEnd ==
  \A p \in HostPanels :
    Finished(p) /\ requestId'[p] # 0 => hostStatus'[p] = hostStatus[p] \/ press'[p] # press[p]

-------------------------------------------------------------------------------
LEMMA HostInitHolds == HostInit => HostInv
  BY DEF HostInit, HostInv, HostTypeOK, NothingLate, Finished, NoPress, Shows, Live, Terminal

\* A panel's effect that is torn down or goes on, whatever it shows next.
LEMMA PanelKeepsInv ==
  ASSUME HostInv, NEW p \in HostPanels, NEW id \in 0..Len(records), NEW status \in Shows,
         PanelBecomes(p, id, status)
  PROVE  /\ requestId' \in [HostPanels -> 0..Len(records)]
         /\ hostStatus' \in [HostPanels -> Shows]
         /\ polls' \in [HostPanels -> SUBSET (Live \cup Terminal \cup {"missing"})]
         /\ NothingLate'
  BY DEF HostInv, HostTypeOK, NothingLate, PanelBecomes, Finished, Shows

\* A record of the server has a kind and a status.
LEMMA RecordTyped ==
  ASSUME HostTypeOK, NEW id \in 1..Len(records)
  PROVE  /\ records[id] \in [kind : HostPanels, status : Live \cup Terminal]
         /\ records[id].kind \in HostPanels
         /\ records[id].status \in Live \cup Terminal
<1>1. records[id] \in [kind : HostPanels, status : Live \cup Terminal]
  <2>1. records \in Seq([kind : HostPanels, status : Live \cup Terminal])
    BY DEF HostTypeOK
  <2>. QED  BY <2>1, ElementOfSeq
<1>2. records[id].kind \in HostPanels
  BY <1>1
<1>3. records[id].status \in Live \cup Terminal
  BY <1>1
<1>. QED  BY <1>1, <1>2, <1>3

\* Every step keeps the invariant; only the panels' own actions touch what they show.
LEMMA HostStepKeeps ==
  ASSUME HostInv, [HostNext]_hostVars
  PROVE  HostInv'
<1> USE DEF HostInv
<1>1. CASE PressRecovery
  BY <1>1 DEF PressRecovery, HostTypeOK, NothingLate, Finished, Pressed, NoPress, Shows,
              HostPanels
<1>2. CASE RefreshLogs
  <2>1. /\ PanelBecomes("logs", requestId["logs"], Blank)
        /\ records' = records /\ press' = [press EXCEPT !["logs"] = Pressed]
        /\ "logs" \in HostPanels /\ requestId["logs"] \in 0..Len(records) /\ Blank \in Shows
    BY <1>2 DEF RefreshLogs, HostPanels, HostTypeOK, Shows
  <2>2. /\ NothingLate'
        /\ hostStatus' \in [HostPanels -> Shows]
        /\ requestId' \in [HostPanels -> 0..Len(records)]
        /\ polls' \in [HostPanels -> SUBSET (Live \cup Terminal \cup {"missing"})]
    BY <2>1, PanelKeepsInv
  <2>3. press' \in [HostPanels -> [at : {"no", "sent", "answered"}, id : 0..Len(records),
                                   status : Shows]]
    BY <2>1 DEF HostTypeOK, Pressed, NoPress, Shows
  <2>. QED  BY <2>1, <2>2, <2>3 DEF HostTypeOK
<1>3. CASE HostWorks
  <2>1. PICK status \in Live \cup Terminal :
          records' = [records EXCEPT ![Len(records)] = [kind |-> Slot.kind, status |-> status]]
    BY <1>3 DEF HostWorks, Live
  <2>2. Slot = records[Len(records)] /\ Len(records) \in 1..Len(records)
    BY <1>3 DEF HostWorks, HostTypeOK, Slot, Live
  <2>3. [kind |-> Slot.kind, status |-> status] \in [kind : HostPanels, status : Live \cup Terminal]
    BY <2>1, <2>2, RecordTyped
  <2>4. /\ records' \in Seq([kind : HostPanels, status : Live \cup Terminal])
        /\ Len(records') = Len(records)
    BY <2>1, <2>2, <2>3 DEF HostTypeOK
  <2>5. UNCHANGED <<requestId, hostStatus, press, polls>>
    BY <1>3 DEF HostWorks
  <2>. QED  BY <2>4, <2>5 DEF HostTypeOK, NothingLate, Finished
<1>4. CASE LeavePanels
  BY <1>4 DEF LeavePanels, HostTypeOK, NothingLate, Finished, NoPress, Shows
<1>5. ASSUME NEW p \in HostPanels, Enqueue(p) PROVE HostInv'
  <2>1. UNCHANGED <<requestId, hostStatus, polls>>
    BY <1>5 DEF Enqueue
  <2>2. CASE Slot.status \in Live
    <3>1. records' = records /\ Slot = records[Len(records)] /\ Len(records) \in 1..Len(records)
      BY <1>5, <2>2 DEF Enqueue, Slot, Live, HostTypeOK
    <3>2. press' = [press EXCEPT ![p] = [at |-> "answered", id |-> Len(records),
                                         status |-> records[Len(records)].status]]
      BY <1>5, <2>2, <3>1 DEF Enqueue, PressEnds
    <3>3. records[Len(records)].status \in Shows
      BY <3>1, RecordTyped DEF Shows
    <3>. QED  BY <2>1, <3>1, <3>2, <3>3 DEF HostTypeOK, NothingLate, Finished
  <2>3. CASE Slot.status \notin Live
    <3>1. /\ records' = Append(records, [kind |-> p, status |-> "pending"])
          /\ press' = [press EXCEPT ![p] = [at |-> "answered", id |-> Len(records) + 1,
                                            status |-> "pending"]]
      BY <1>5, <2>3 DEF Enqueue, PressEnds
    <3>2. /\ records' \in Seq([kind : HostPanels, status : Live \cup Terminal])
          /\ Len(records') = Len(records) + 1
      BY <3>1 DEF HostTypeOK, Live
    <3>. QED  BY <2>1, <3>1, <3>2 DEF HostTypeOK, NothingLate, Finished, Shows, Live
  <2>. QED  BY <2>2, <2>3
<1>6. ASSUME NEW p \in HostPanels, PressAnswered(p) PROVE HostInv'
  <2>1. /\ PanelBecomes(p, press[p].id, press[p].status)
        /\ records' = records /\ press' = [press EXCEPT ![p] = NoPress]
        /\ press[p].id \in 0..Len(records) /\ press[p].status \in Shows
    BY <1>6 DEF PressAnswered, HostTypeOK
  <2>2. /\ NothingLate'
        /\ hostStatus' \in [HostPanels -> Shows]
        /\ requestId' \in [HostPanels -> 0..Len(records)]
        /\ polls' \in [HostPanels -> SUBSET (Live \cup Terminal \cup {"missing"})]
    BY <2>1, PanelKeepsInv
  <2>3. press' \in [HostPanels -> [at : {"no", "sent", "answered"}, id : 0..Len(records),
                                   status : Shows]]
    BY <2>1 DEF HostTypeOK, NoPress, Shows
  <2>. QED  BY <2>1, <2>2, <2>3 DEF HostTypeOK
<1>7. ASSUME NEW p \in HostPanels, PressFails(p) PROVE HostInv'
  <2>1. /\ press' = [press EXCEPT ![p] = NoPress]
        /\ UNCHANGED <<records, requestId, hostStatus, polls>>
    BY <1>7 DEF PressFails
  <2>2. press' \in [HostPanels -> [at : {"no", "sent", "answered"}, id : 0..Len(records),
                                   status : Shows]]
    BY <2>1 DEF HostTypeOK, NoPress, Shows
  <2>. QED  BY <2>1, <2>2 DEF HostTypeOK, NothingLate, Finished
<1>8. ASSUME NEW p \in HostPanels, HostPollTick(p) PROVE HostInv'
  <2>1. /\ ~Finished(p) /\ requestId[p] \in 1..Len(records)
        /\ UNCHANGED <<records, requestId, hostStatus, press>>
        /\ polls' = [polls EXCEPT ![p] = @ \cup {AnswerTo(p, requestId[p])}]
    BY <1>8 DEF HostPollTick, Polling, HostTypeOK
  <2>2. AnswerTo(p, requestId[p]) \in Live \cup Terminal \cup {"missing"}
    <3>1. records[requestId[p]].status \in Live \cup Terminal
      BY <2>1, RecordTyped
    <3>. QED  BY <3>1 DEF AnswerTo
  <2>. QED  BY <2>1, <2>2 DEF HostTypeOK, NothingLate, Finished
<1>9. ASSUME NEW p \in HostPanels, HostPollAnswered(p) PROVE HostInv'
  <2>1. PICK status \in polls[p] :
          /\ hostStatus' =
               IF status = "missing" THEN hostStatus ELSE [hostStatus EXCEPT ![p] = status]
          /\ polls' = [polls EXCEPT ![p] = IF status \in Terminal THEN {} ELSE @ \ {status}]
          /\ UNCHANGED <<records, requestId, press>>
    BY <1>9 DEF HostPollAnswered
  <2>. QED  BY <2>1 DEF HostTypeOK, NothingLate, Finished, Shows
<1>10. CASE UNCHANGED hostVars
  BY <1>10 DEF hostVars, HostTypeOK, NothingLate, Finished
<1>. QED
  BY <1>1, <1>2, <1>3, <1>4, <1>5, <1>6, <1>7, <1>8, <1>9, <1>10 DEF HostNext

\* A press is taken off the panel by its answer, put on it by the button: a step of the
\* button or of the answer changes `press`, and no other writes a status over an end.
LEMMA HostKeepsEnds ==
  ASSUME HostInv, [HostNext]_hostVars
  PROVE  [KeepsItsEnd]_hostVars
<1> USE DEF HostInv
<1>1. CASE PressRecovery
  BY <1>1 DEF PressRecovery, KeepsItsEnd
<1>2. CASE RefreshLogs
  <2>1. press'["logs"] # press["logs"]
    BY <1>2 DEF RefreshLogs, HostTypeOK, Pressed, NoPress, HostPanels
  <2>2. hostStatus' = [hostStatus EXCEPT !["logs"] = Blank]
    BY <1>2 DEF RefreshLogs, PanelBecomes
  <2>. QED  BY <2>1, <2>2 DEF KeepsItsEnd, HostTypeOK
<1>3. CASE HostWorks
  BY <1>3 DEF HostWorks, KeepsItsEnd
<1>4. CASE LeavePanels
  BY <1>4 DEF LeavePanels, KeepsItsEnd
<1>5. ASSUME NEW p \in HostPanels, Enqueue(p) PROVE KeepsItsEnd
  BY <1>5 DEF Enqueue, KeepsItsEnd
<1>6. ASSUME NEW p \in HostPanels, PressAnswered(p) PROVE KeepsItsEnd
  <2>1. press'[p] # press[p]
    BY <1>6 DEF PressAnswered, HostTypeOK, NoPress
  <2>2. hostStatus' = [hostStatus EXCEPT ![p] = press[p].status]
    BY <1>6 DEF PressAnswered, PanelBecomes
  <2>. QED  BY <2>1, <2>2 DEF KeepsItsEnd, HostTypeOK
<1>7. ASSUME NEW p \in HostPanels, PressFails(p) PROVE KeepsItsEnd
  BY <1>7 DEF PressFails, KeepsItsEnd
<1>8. ASSUME NEW p \in HostPanels, HostPollTick(p) PROVE KeepsItsEnd
  BY <1>8 DEF HostPollTick, KeepsItsEnd
<1>9. ASSUME NEW p \in HostPanels, HostPollAnswered(p) PROVE KeepsItsEnd
  <2>1. ~Finished(p)
    BY <1>9 DEF HostPollAnswered, NothingLate
  <2>2. \A q \in HostPanels : q # p => hostStatus'[q] = hostStatus[q]
    BY <1>9 DEF HostPollAnswered, HostTypeOK
  <2>. QED  BY <2>1, <2>2 DEF KeepsItsEnd
<1>. QED
  BY <1>1, <1>2, <1>3, <1>4, <1>5, <1>6, <1>7, <1>8, <1>9 DEF HostNext

-------------------------------------------------------------------------------
\* The host panels are well typed and no poll outlives the effect that asked, for every
\* number of requests and polls (GodView.tsx:120-140 and 242-262).
THEOREM PanelsAreSound == HostSpec => []HostInv
<1>1. HostInit => HostInv
  BY HostInitHolds
<1>2. HostInv /\ [HostNext]_hostVars => HostInv'
  BY HostStepKeeps
<1>. QED  BY <1>1, <1>2, PTL DEF HostSpec

\* A panel that shows the end of its request does not go back to queued or running
\* because an older poll answers late.
THEOREM EndsAreKept == HostSpec => FinishedStays
<1>1. HostSpec => []HostInv
  BY PanelsAreSound
<1>2. HostInv /\ [HostNext]_hostVars => [KeepsItsEnd]_hostVars
  BY HostKeepsEnds
<1>3. HostSpec => [][KeepsItsEnd]_hostVars
  BY <1>1, <1>2, PTL DEF HostSpec
<1>. QED  BY <1>3 DEF FinishedStays, KeepsItsEnd

\* The audit's key and the devices' lists.
AuditTyped == auditRange \in Ranges /\ nonce \in 0..MaxAudits

DeviceReads == {Blank} \cup SUBSET Devices
Revocations == [device : Devices, at : {"sent", "done", "refused", "over"}]

DevicesTyped ==
  /\ ended \subseteq Devices /\ askedDevice \in Devices \cup {Blank}
  /\ deviceList \in [status : {"loading", "ready", "error"}, rows : DeviceReads]
  /\ deviceLoads \in Seq(DeviceReads) /\ revokes \in Seq(Revocations)

LEMMA AuditInitTyped == AuditInit => AuditTyped
  BY GodViewAssumption DEF AuditInit, AuditTyped, Ranges

LEMMA AuditStepKeeps == AuditTyped /\ [AuditNext]_auditVars => AuditTyped'
<1> SUFFICES ASSUME AuditTyped, [AuditNext]_auditVars PROVE AuditTyped'
  OBVIOUS
<1> USE GodViewAssumption DEF AuditTyped
<1>1. CASE \E r \in Ranges : ChooseRange(r)
  BY <1>1 DEF ChooseRange
<1>2. CASE ReloadAudit
  BY <1>2 DEF ReloadAudit
<1>3. CASE AuditAnswered \/ UNCHANGED auditVars
  BY <1>3 DEF AuditAnswered, auditVars
<1>. QED  BY <1>1, <1>2, <1>3 DEF AuditNext

LEMMA DevicesInitTyped == DevicesInit => DevicesTyped
  BY DEF DevicesInit, DevicesTyped, DeviceReads

LEMMA WithoutTyped ==
  ASSUME NEW S, NEW s \in Seq(S), NEW i \in DOMAIN s
  PROVE  Without(s, i) \in Seq(S)
<1>1. i \in 1..Len(s)
  OBVIOUS
<1>2. SubSeq(s, 1, i - 1) \in Seq(S) /\ SubSeq(s, i + 1, Len(s)) \in Seq(S)
  BY <1>1, SubSeqProperties
<1>. QED  BY <1>2, ConcatProperties DEF Without

LEMMA LoadDevicesTyped ==
  ASSUME DevicesTyped, LoadDevices
  PROVE  /\ deviceList' \in [status : {"loading", "ready", "error"}, rows : DeviceReads]
         /\ deviceLoads' \in Seq(DeviceReads)
<1>1. Blank \in DeviceReads
  BY DEF DeviceReads
<1>. QED  BY <1>1 DEF DevicesTyped, LoadDevices, ReadDevices

LEMMA DevicesStepKeeps == DevicesTyped /\ [DevicesNext]_deviceListVars => DevicesTyped'
<1> SUFFICES ASSUME DevicesTyped, [DevicesNext]_deviceListVars PROVE DevicesTyped'
  OBVIOUS
<1> USE DEF DevicesTyped
<1>1. CASE RetryDevices
  BY <1>1, LoadDevicesTyped DEF RetryDevices
<1>2. CASE DevicesServed
  <2>1. ended \in DeviceReads
    BY DEF DeviceReads
  <2>. QED  BY <1>2, <2>1 DEF DevicesServed
<1>3. CASE DevicesLoaded
  <2>1. PICK i \in DOMAIN deviceLoads :
          /\ deviceList' = [status |-> "ready", rows |-> deviceLoads[i]]
          /\ deviceLoads' = Without(deviceLoads, i)
    BY <1>3 DEF DevicesLoaded
  <2>2. deviceLoads[i] \in DeviceReads /\ deviceLoads' \in Seq(DeviceReads)
    BY <2>1, WithoutTyped
  <2>. QED  BY <1>3, <2>1, <2>2 DEF DevicesLoaded
<1>4. CASE DevicesFail
  <2>1. deviceLoads' \in Seq(DeviceReads)
    BY <1>4, WithoutTyped DEF DevicesFail
  <2>. QED  BY <1>4, <2>1 DEF DevicesFail
<1>5. ASSUME NEW device \in Devices, PressRevoke(device) PROVE DevicesTyped'
  BY <1>5 DEF PressRevoke
<1>6. ASSUME NEW ok \in BOOLEAN, RevokeDialog(ok) PROVE DevicesTyped'
  <2>1. [device |-> askedDevice, at |-> "sent"] \in Revocations
    BY <1>6 DEF RevokeDialog, Revocations
  <2>2. revokes' \in Seq(Revocations)
    BY <1>6, <2>1 DEF RevokeDialog
  <2>. QED  BY <1>6, <2>2 DEF RevokeDialog
<1>7. CASE RevokeServed
  <2>1. PICK i \in DOMAIN revokes :
          /\ revokes' =
               [revokes EXCEPT ![i].at = IF revokes[i].device \in ended THEN "refused"
                                         ELSE "done"]
          /\ ended' = ended \cup {revokes[i].device}
    BY <1>7 DEF RevokeServed
  <2>2. revokes[i] \in Revocations
    OBVIOUS
  <2>3. revokes' \in Seq(Revocations)
    BY <2>1, <2>2 DEF Revocations
  <2>. QED  BY <1>7, <2>1, <2>2, <2>3 DEF RevokeServed, Revocations
<1>8. ASSUME NEW i \in DOMAIN revokes, revokes' = [revokes EXCEPT ![i].at = "over"]
      PROVE  revokes' \in Seq(Revocations)
  <2>1. revokes[i] \in Revocations
    OBVIOUS
  <2>. QED  BY <1>8, <2>1 DEF Revocations
<1>9. CASE RevokeAnswered
  <2>1. revokes' \in Seq(Revocations)
    BY <1>8, <1>9 DEF RevokeAnswered
  <2>2. /\ deviceList' \in [status : {"loading", "ready", "error"}, rows : DeviceReads]
        /\ deviceLoads' \in Seq(DeviceReads)
    BY <1>9, LoadDevicesTyped DEF RevokeAnswered
  <2>. QED  BY <1>9, <2>1, <2>2 DEF RevokeAnswered
<1>10. CASE RevokeLost
  <2>1. revokes' \in Seq(Revocations)
    BY <1>8, <1>10 DEF RevokeLost
  <2>. QED  BY <1>10, <2>1 DEF RevokeLost
<1>11. CASE RevokedElsewhere \/ UNCHANGED deviceListVars
  BY <1>11 DEF RevokedElsewhere, deviceListVars
<1>. QED
  BY <1>1, <1>2, <1>3, <1>4, <1>5, <1>6, <1>7, <1>9, <1>10, <1>11 DEF DevicesNext

\* All of the page.
LEMMA GodViewTypes == HostTypeOK /\ AuditTyped /\ DevicesTyped => GodViewTypeOK
  BY DEF AuditTyped, DevicesTyped, DeviceReads, Rows, GodViewTypeOK

-------------------------------------------------------------------------------
(* ManageUsers. What the deletion of an owner's account runs into is the verdict of *)
(* the server, whatever the panel asks for.                                         *)

UserJobs ==
  [kind : {"create", "delete", "reset"}, name : Names, role : {"none", "member", "owner"},
   form : {"open", "gone", "closed"}, at : {"sent", "done", "refused", "missing"}]

ManageUsersInv ==
  /\ accounts \in Accounts /\ userReads \subseteq Accounts
  /\ users \in Accounts \cup {NoUser}
  /\ resetOpenFor \in Names \cup {NoUser} /\ userDialog \in Names \cup {NoUser}
  /\ userJobs \subseteq UserJobs

LEMMA ManageUsersInitHolds == ManageUsersInit => ManageUsersInv
  BY DEF ManageUsersInit, ManageUsersInv, Accounts

\* A form that leaves the screen changes nothing else about its request.
LEMMA FormsLeftTyped ==
  ASSUME NEW js \in SUBSET UserJobs, NEW a, NEW r
  PROVE  FormsLeft(js, a, r) \subseteq UserJobs
  BY DEF FormsLeft, UserJobs

LEMMA JobSentTyped ==
  ASSUME userJobs \subseteq UserJobs, NEW kind \in {"create", "delete", "reset"},
         NEW name \in Names, NEW role \in {"none", "member", "owner"},
         UserJobSent(kind, name, role)
  PROVE  userJobs' \subseteq UserJobs
  BY DEF UserJobSent, UserJobs

LEMMA RefreshTyped ==
  ASSUME ManageUsersInv, Refresh
  PROVE  userReads' \subseteq Accounts
  BY DEF ManageUsersInv, Refresh

LEMMA ManageUsersStepKeeps == ManageUsersInv /\ [ManageUsersNext]_userVars => ManageUsersInv'
<1> SUFFICES ASSUME ManageUsersInv, [ManageUsersNext]_userVars PROVE ManageUsersInv'
  OBVIOUS
<1> USE DEF ManageUsersInv
<1>1. ASSUME NEW read \in userReads, UsersListed(read) \/ UsersNotListed(read)
      PROVE  ManageUsersInv'
  <2>1. \E stays : userJobs' = FormsLeft(userJobs, TRUE, stays)
    BY <1>1, Zenon DEF UsersListed, UsersNotListed
  <2>2. userJobs' \subseteq UserJobs
    BY <2>1, FormsLeftTyped
  <2>. QED  BY <1>1, <2>2 DEF UsersListed, UsersNotListed
<1>2. CASE ReopenPanel
  <2>1. userJobs' \subseteq UserJobs
    BY <1>2 DEF ReopenPanel, UserJobs
  <2>. QED  BY <1>2, <2>1 DEF ReopenPanel
<1>3. CASE ToggleAdd
  BY <1>3, FormsLeftTyped DEF ToggleAdd
<1>4. ASSUME NEW name \in Names, NEW role \in {"member", "owner"}, CreateUser(name, role)
      PROVE  ManageUsersInv'
  <2>1. userJobs' \subseteq UserJobs
    BY <1>4, JobSentTyped DEF CreateUser
  <2>. QED  BY <1>4, <2>1 DEF CreateUser
<1>5. ASSUME NEW name \in Names, NEW role \in {"none", "member", "owner"},
             AnotherOwner(name, role)
      PROVE  ManageUsersInv'
  BY <1>5 DEF AnotherOwner, panelUserVars, Accounts
<1>6. ASSUME NEW name \in Names, ToggleReset(name) \/ AskDeleteUser(name)
      PROVE  ManageUsersInv'
  <2>1. userJobs' \subseteq UserJobs
    BY <1>6, FormsLeftTyped DEF ToggleReset, AskDeleteUser
  <2>. QED  BY <1>6, <2>1 DEF ToggleReset, AskDeleteUser
<1>7. ASSUME NEW name \in Names, ResetPassword(name) PROVE ManageUsersInv'
  <2>1. userJobs' \subseteq UserJobs
    BY <1>7, JobSentTyped DEF ResetPassword
  <2>. QED  BY <1>7, <2>1 DEF ResetPassword
<1>8. ASSUME NEW yes \in BOOLEAN, DeleteUserConfirmed(yes) PROVE ManageUsersInv'
  <2>1. userDialog \in Names
    BY <1>8 DEF DeleteUserConfirmed, Panel
  <2>2. userJobs' \subseteq UserJobs
    BY <1>8, <2>1, JobSentTyped DEF DeleteUserConfirmed
  <2>. QED  BY <1>8, <2>2 DEF DeleteUserConfirmed
<1>9. ASSUME NEW job \in userJobs, UserJobServed(job) PROVE ManageUsersInv'
  <2>1. job \in UserJobs /\ Verdict(job) \in {"refused", "missing", "done"}
    BY DEF Verdict
  <2>2. userJobs' \subseteq UserJobs
    BY <1>9, <2>1 DEF UserJobServed, UserJobs
  <2>3. accounts' \in Accounts
    BY <1>9, <2>1 DEF UserJobServed, UserJobs, Accounts
  <2>. QED  BY <1>9, <2>2, <2>3 DEF UserJobServed
<1>10. ASSUME NEW job \in userJobs, UserJobSucceeds(job) PROVE ManageUsersInv'
  <2>1. userJobs' \subseteq UserJobs
    BY <1>10, FormsLeftTyped DEF UserJobSucceeds
  <2>. QED  BY <1>10, <2>1, RefreshTyped DEF UserJobSucceeds
<1>11. ASSUME NEW job \in userJobs, UserJobEnds(job) PROVE ManageUsersInv'
  BY <1>11 DEF UserJobEnds
<1>12. CASE PasswordNext
  BY <1>12 DEF PasswordNext, TogglePassword, FillPassword, ChangePassword, PasswordAnswered,
               panelUserVars
<1>13. CASE UNCHANGED userVars
  BY <1>13 DEF userVars, panelUserVars
<1>. QED
  BY <1>1, <1>2, <1>3, <1>4, <1>5, <1>6, <1>7, <1>8, <1>9, <1>10, <1>11, <1>12, <1>13
  DEF ManageUsersNext, UsersPanelNext

\* The password row.
PasswordTyped == pwOpen \in BOOLEAN /\ pwFilled \in BOOLEAN /\ pwJob \in {"none", "sent"}
PanelBooleans == usersFailed \in BOOLEAN /\ addOpen \in BOOLEAN

LEMMA PasswordStepKeeps ==
  ASSUME PasswordTyped, PasswordNext \/ UNCHANGED pwVars
  PROVE  PasswordTyped'
<1> USE DEF PasswordTyped
<1>1. CASE TogglePassword
  <2>1. pwOpen' = ~pwOpen /\ pwFilled' = FALSE /\ pwJob' = pwJob
    BY <1>1 DEF TogglePassword
  <2>2. pwOpen' \in BOOLEAN
    BY <2>1, Zenon
  <2>. QED  BY <2>1, <2>2
<1>2. CASE FillPassword \/ ChangePassword
  BY <1>2 DEF FillPassword, ChangePassword
<1>3. ASSUME NEW ok \in BOOLEAN, PasswordAnswered(ok) PROVE PasswordTyped'
  BY <1>3 DEF PasswordAnswered
<1>4. CASE UNCHANGED pwVars
  BY <1>4 DEF pwVars
<1>. QED  BY <1>1, <1>2, <1>3, <1>4 DEF PasswordNext

LEMMA BooleansKept ==
  ASSUME PanelBooleans, UsersPanelNext \/ UNCHANGED panelUserVars
  PROVE  PanelBooleans'
<1> USE DEF PanelBooleans
<1>1. CASE ToggleAdd
  BY <1>1 DEF ToggleAdd
<1>2. ASSUME NEW job \in userJobs, UserJobSucceeds(job) PROVE PanelBooleans'
  BY <1>2 DEF UserJobSucceeds
<1>3. CASE UNCHANGED panelUserVars
  BY <1>3 DEF panelUserVars
<1>4. ASSUME NEW read \in userReads, UsersListed(read) \/ UsersNotListed(read)
      PROVE PanelBooleans'
  BY <1>4 DEF UsersListed, UsersNotListed
<1>5. CASE ReopenPanel
  BY <1>5 DEF ReopenPanel
<1>6. ASSUME UNCHANGED <<usersFailed, addOpen>> PROVE PanelBooleans'
  BY <1>6
<1>. QED
  BY <1>1, <1>2, <1>3, <1>4, <1>5, <1>6
  DEF UsersPanelNext, CreateUser, AnotherOwner, ToggleReset, ResetPassword, AskDeleteUser,
      DeleteUserConfirmed, UserJobServed, UserJobEnds, panelUserVars

\* The panel and the password row have no state in common.
LEMMA PanelOrPassword ==
  /\ UsersPanelNext => UNCHANGED pwVars
  /\ PasswordNext => UNCHANGED panelUserVars
<1>1. UsersPanelNext => UNCHANGED pwVars
  BY DEF UsersPanelNext, UsersListed, UsersNotListed, ReopenPanel, ToggleAdd, CreateUser,
         AnotherOwner, ToggleReset, ResetPassword, AskDeleteUser, DeleteUserConfirmed,
         UserJobServed, UserJobSucceeds, UserJobEnds
<1>2. PasswordNext => UNCHANGED panelUserVars
  BY DEF PasswordNext, TogglePassword, FillPassword, ChangePassword, PasswordAnswered
<1>. QED  BY <1>1, <1>2

AccountsTyped == ManageUsersInv /\ PasswordTyped /\ PanelBooleans

LEMMA AccountsTypes == AccountsTyped => ManageUsersTypeOK
  BY DEF AccountsTyped, ManageUsersInv, PasswordTyped, PanelBooleans, UserJobs,
         ManageUsersTypeOK

LEMMA AccountsInitTyped == ManageUsersInit => AccountsTyped
<1>1. ManageUsersInit => PasswordTyped /\ PanelBooleans
  BY DEF ManageUsersInit, PasswordTyped, PanelBooleans
<1>. QED  BY <1>1, ManageUsersInitHolds DEF AccountsTyped

LEMMA AccountsStepKeeps == AccountsTyped /\ [ManageUsersNext]_userVars => AccountsTyped'
<1> SUFFICES ASSUME AccountsTyped, [ManageUsersNext]_userVars PROVE AccountsTyped'
  OBVIOUS
<1>1. ManageUsersInv /\ PasswordTyped /\ PanelBooleans
  BY DEF AccountsTyped
<1>2. \/ UsersPanelNext /\ UNCHANGED pwVars
      \/ PasswordNext /\ UNCHANGED panelUserVars
      \/ UNCHANGED pwVars /\ UNCHANGED panelUserVars
  BY PanelOrPassword DEF ManageUsersNext, userVars
<1>3. PasswordTyped' /\ PanelBooleans'
  BY <1>1, <1>2, PasswordStepKeeps, BooleansKept
<1>. QED  BY <1>1, <1>3, ManageUsersStepKeeps DEF AccountsTyped

-------------------------------------------------------------------------------
(* FacePhotos. A page asks for nothing before its list is there, so a request of the *)
(* page on screen finds a list to act on; and each lock has its request.             *)

Places == [Photos -> Folders \cup {"deleted"}]
Listings == [for : {"page", "refill"}, read : Places]
PhotoRequests ==
  [photo : Photos \cup {NoPhoto}, dir : Folders, to : Folders \cup {"deleted"},
   by : {"review", "index", "gallery", "nobody"}, outcome : {"sent", "done", "failed"}]

ServerTyped ==
  filed \in Places /\ listings \subseteq Listings /\ photoRequests \subseteq PhotoRequests

PageTyped ==
  /\ desk \in {"review", "index", "gallery"}
  /\ photoDialog \in [photo : Photos \cup {NoPhoto}, dir : Folders] \cup {NoPhoto}
  /\ queue \in (SUBSET Items) \cup {NoPhoto} /\ busyKey \in Items \cup {NoPhoto}
  /\ folders \in (SUBSET Folders) \cup {NoPhoto} /\ folder \in Folders \cup {NoPhoto}
  /\ files \in (SUBSET Photos) \cup {NoPhoto} /\ openMenu \in Photos \cup {NoPhoto}
  /\ typing \in BOOLEAN /\ actionInflight \in BOOLEAN /\ listingFailed \in BOOLEAN

\* A request is of the page on screen, or of nobody's any more.
OwnRequests == \A r \in photoRequests : r.by \in {desk, "nobody"}

\* The page has no list yet, and will get one from the listing it sent or from Retry.
Waiting == listingFailed \/ \E l \in listings : l.for = "page"

WaitsAlone ==
  Waiting =>
    /\ listingFailed => listings = {}
    /\ \A l, m \in listings : l = m
    /\ \A r \in photoRequests : r.by = "nobody"
    /\ photoDialog = NoPhoto /\ files = NoPhoto
    /\ desk = "review" => queue = NoPhoto
    /\ desk = "index" => folders = NoPhoto

Loaded ==
  /\ ~Waiting => /\ desk = "review" => queue \in SUBSET Items
                 /\ desk = "index" => folders \in SUBSET Folders
                 /\ desk = "gallery" => files \in SUBSET Photos
  /\ desk = "gallery" => folder \in Folders /\ folders \in SUBSET Folders

\* While the dialog is up, the gallery has no request, and Review's names one photo.
DialogCovers ==
  photoDialog # NoPhoto =>
    /\ desk = "gallery" => ~actionInflight
    /\ desk = "review" => photoDialog \in Items

LockHasRequest ==
  /\ busyKey # NoPhoto =>
       \E r \in photoRequests :
         r.by = "review" /\ r.photo = busyKey.photo /\ r.dir = busyKey.dir
  /\ actionInflight <=> \E r \in photoRequests : r.by = "gallery"
  /\ \A r, q \in photoRequests : r.by = "gallery" /\ q.by = "gallery" => r = q

PhotosInv ==
  /\ ServerTyped /\ PageTyped
  /\ OwnRequests /\ WaitsAlone /\ Loaded /\ DialogCovers /\ LockHasRequest

LEMMA PhotosImplies == PhotosInv => FacePhotosTypeOK /\ LocksAreFreed
<1> SUFFICES ASSUME PhotosInv PROVE FacePhotosTypeOK /\ LocksAreFreed
  OBVIOUS
<1>1. FacePhotosTypeOK
  BY DEF PhotosInv, ServerTyped, PageTyped, FacePhotosTypeOK, Places, Listings, PhotoRequests
<1>2. LocksAreFreed
  <2> DEFINE By(page) == {r \in photoRequests : r.by = page}
  <2>1. Cardinality(By("gallery")) <= 1
    <3>1. CASE By("gallery") = {}
      BY <3>1, FS_EmptySet
    <3>2. ASSUME NEW r \in By("gallery") PROVE Cardinality(By("gallery")) <= 1
      <4>1. By("gallery") = {r}
        BY <3>2 DEF PhotosInv, LockHasRequest
      <4>2. Cardinality({r}) = 1
        BY FS_Singleton
      <4>. QED  BY <4>1, <4>2
    <3>. QED  BY <3>1, <3>2
  <2>2. actionInflight <=> By("gallery") # {}
    BY DEF PhotosInv, LockHasRequest
  <2>3. busyKey # NoPhoto =>
          \E r \in By("review") : r.photo = busyKey.photo /\ r.dir = busyKey.dir
    BY DEF PhotosInv, LockHasRequest
  <2>. QED  BY <2>1, <2>2, <2>3 DEF LocksAreFreed
<1>. QED  BY <1>1, <1>2

LEMMA PhotosInitHolds == FacePhotosInit => PhotosInv
<1> SUFFICES ASSUME FacePhotosInit PROVE PhotosInv
  OBVIOUS
<1> USE DEF FacePhotosInit
<1>1. ServerTyped
  BY DEF ServerTyped, Places, Listings, Folders
<1>2. PageTyped
  BY DEF PageTyped
<1>3. OwnRequests /\ WaitsAlone /\ Loaded /\ DialogCovers /\ LockHasRequest
  BY DEF OwnRequests, WaitsAlone, Waiting, Loaded, DialogCovers, LockHasRequest
<1>. QED  BY <1>1, <1>2, <1>3 DEF PhotosInv

-------------------------------------------------------------------------------
(* Listings *)

LEMMA ListingAnswerKeeps ==
  ASSUME PhotosInv, NEW l \in listings, ListingAnswered(l)
  PROVE  PhotosInv'
<1> USE DEF PhotosInv, ListingAnswered
<1>1. /\ ServerTyped' /\ OwnRequests' /\ DialogCovers' /\ LockHasRequest'
  BY DEF ServerTyped, OwnRequests, DialogCovers, LockHasRequest, serverPhotoVars
<1>2. ~Waiting'
  <2>1. CASE Waiting
    BY <2>1 DEF Waiting, WaitsAlone
  <2>2. CASE ~Waiting
    BY <2>2 DEF Waiting
  <2>. QED  BY <2>1, <2>2
<1>3. PageTyped' /\ Loaded'
  <2>1. ItemsIn(l.read) \subseteq Items /\ FoldersIn(l.read) \subseteq Folders
    BY DEF ItemsIn, FoldersIn
  <2>2. PageTyped'
    BY <2>1 DEF PageTyped
  <2>3. Loaded'
    BY <2>1 DEF PageTyped, Loaded
  <2>. QED  BY <2>2, <2>3
<1>. QED  BY <1>1, <1>2, <1>3 DEF WaitsAlone

LEMMA ListingFailureKeeps ==
  ASSUME PhotosInv, NEW l \in listings, ListingFails(l)
  PROVE  PhotosInv'
<1> USE DEF PhotosInv, ListingFails
<1>1. /\ UNCHANGED <<filed, photoRequests, desk, photoDialog, queue, busyKey, folders, folder,
                     files, openMenu, typing, actionInflight>>
      /\ listings' = listings \ {l} /\ listingFailed' = (listingFailed \/ l.for = "page")
  BY DEF serverPhotoVars, reviewVars, trainingVars
<1>2. ServerTyped' /\ OwnRequests' /\ DialogCovers' /\ LockHasRequest'
  BY <1>1 DEF ServerTyped, OwnRequests, DialogCovers, LockHasRequest
<1>3. PageTyped'
  BY <1>1 DEF PageTyped
<1>4. Waiting' <=> Waiting
  BY <1>1 DEF Waiting, WaitsAlone
<1>5. WaitsAlone' /\ Loaded'
  BY <1>1, <1>4 DEF Waiting, WaitsAlone, Loaded
<1>. QED  BY <1>2, <1>3, <1>5

LEMMA RetryKeeps ==
  ASSUME PhotosInv, RetryListing
  PROVE  PhotosInv'
<1> USE DEF PhotosInv, RetryListing
<1>1. Waiting /\ Waiting'
  <2>1. [for |-> "page", read |-> filed] \in listings'
    BY DEF ListingBegun
  <2>. QED  BY <2>1 DEF Waiting
<1>2. listings' = {[for |-> "page", read |-> filed]}
  BY <1>1 DEF WaitsAlone, ListingBegun
<1>3. UNCHANGED <<filed, photoRequests, desk, photoDialog, busyKey, folder, actionInflight>>
  BY DEF serverPhotoVars
<1>4. ServerTyped' /\ OwnRequests' /\ DialogCovers' /\ LockHasRequest'
  BY <1>2, <1>3 DEF ServerTyped, Listings, OwnRequests, DialogCovers, LockHasRequest
<1>5. PageTyped'
  BY <1>3 DEF PageTyped
<1>6. WaitsAlone' /\ Loaded'
  BY <1>1, <1>2, <1>3 DEF WaitsAlone, Loaded
<1>. QED  BY <1>4, <1>5, <1>6

\* Another page begins with nothing of its own.
LEMMA OpenDeskKeeps ==
  ASSUME PhotosInv, NEW page \in {"review", "index", "gallery"},
         NEW dir \in Folders \cup {NoPhoto}, page = "gallery" => dir \in Folders,
         OpenDesk(page, dir)
  PROVE  PhotosInv'
<1> USE DEF PhotosInv, OpenDesk
<1>1. listings' = {[for |-> "page", read |-> filed]} /\ filed' = filed /\ photoDialog' = NoPhoto
  BY DEF ListingBegun
<1>2. photoRequests' \subseteq PhotoRequests /\ \A r \in photoRequests' : r.by = "nobody"
  BY DEF ServerTyped, PhotoRequests
<1>3. ServerTyped'
  BY <1>1, <1>2 DEF ServerTyped, Listings
<1>4. PageTyped'
  BY <1>1 DEF PageTyped
<1>5. OwnRequests' /\ DialogCovers' /\ LockHasRequest'
  BY <1>1, <1>2 DEF OwnRequests, DialogCovers, LockHasRequest
<1>6. WaitsAlone' /\ Loaded'
  BY <1>1, <1>2 DEF Waiting, WaitsAlone, Loaded
<1>. QED  BY <1>3, <1>4, <1>5, <1>6

LEMMA VisitKeeps == PhotosInv /\ Visit => PhotosInv'
<1> SUFFICES ASSUME PhotosInv, Visit PROVE PhotosInv'
  OBVIOUS
<1>1. CASE OpenDesk("review", NoPhoto) \/ OpenDesk("index", NoPhoto)
  BY <1>1, OpenDeskKeeps
<1>2. ASSUME NEW dir \in folders, folders # NoPhoto, OpenDesk("gallery", dir) PROVE PhotosInv'
  <2>1. dir \in Folders
    BY <1>2 DEF PhotosInv, PageTyped
  <2>. QED  BY <1>2, <2>1, OpenDeskKeeps
<1>. QED  BY <1>1, <1>2 DEF Visit

-------------------------------------------------------------------------------
(* Requests *)

\* A request that is served or lost is answered, unless nobody waits for it any more.
LEMMA RequestOutcomeKeeps ==
  ASSUME PhotosInv, NEW r \in photoRequests, NEW o \in {"done", "failed"}, Outcome(r, o),
         filed' \in Places,
         UNCHANGED <<desk, listings, photoDialog, reviewVars, trainingVars, listingFailed>>
  PROVE  PhotosInv'
<1> DEFINE q == [r EXCEPT !.outcome = o]
<1> USE DEF PhotosInv
<1>1. /\ r \in PhotoRequests /\ q \in PhotoRequests
      /\ q.by = r.by /\ q.photo = r.photo /\ q.dir = r.dir
  BY DEF ServerTyped, PhotoRequests
<1>2. /\ photoRequests' \subseteq (photoRequests \ {r}) \cup {q}
      /\ r.by # "nobody" => photoRequests' = (photoRequests \ {r}) \cup {q}
      /\ r.by = "nobody" => photoRequests' = photoRequests \ {r}
  BY DEF Outcome
<1> HIDE DEF q
<1>3. UNCHANGED <<desk, listings, photoDialog, queue, busyKey, folders, folder, files, openMenu,
                  typing, actionInflight, listingFailed>>
  BY DEF reviewVars, trainingVars
<1>4. ServerTyped' /\ OwnRequests'
  BY <1>1, <1>2, <1>3 DEF ServerTyped, OwnRequests
<1>5. PageTyped' /\ DialogCovers'
  BY <1>3 DEF PageTyped, DialogCovers
<1>6. WaitsAlone' /\ Loaded'
  <2>1. Waiting' = Waiting
    BY <1>3 DEF Waiting
  <2>. QED  BY <1>1, <1>2, <1>3, <2>1 DEF WaitsAlone, Loaded
<1>7. LockHasRequest'
  BY <1>1, <1>2, <1>3 DEF LockHasRequest
<1>. QED  BY <1>4, <1>5, <1>6, <1>7

LEMMA RequestServedKeeps ==
  ASSUME PhotosInv, NEW r \in photoRequests, RequestServed(r)
  PROVE  PhotosInv'
<1> DEFINE there == {p \in Photos : filed[p] = r.dir /\ r.photo \in {p, NoPhoto}}
<1>1. filed' \in Places
  <2>1. PICK moved : filed' = [p \in Photos |-> IF p \in moved THEN r.to ELSE filed[p]]
    BY DEF RequestServed
  <2>2. filed \in Places /\ r.to \in Folders \cup {"deleted"}
    BY DEF PhotosInv, ServerTyped, PhotoRequests
  <2>. QED  BY <2>1, <2>2 DEF Places
<1>2. \E o \in {"done", "failed"} : Outcome(r, o)
  BY DEF RequestServed
<1>3. UNCHANGED <<desk, listings, photoDialog, reviewVars, trainingVars, listingFailed>>
  BY DEF RequestServed
<1>. QED  BY <1>1, <1>2, <1>3, RequestOutcomeKeeps

LEMMA RequestLostKeeps ==
  ASSUME PhotosInv, NEW r \in photoRequests, RequestLost(r)
  PROVE  PhotosInv'
<1>1. filed' \in Places
  BY DEF RequestLost, PhotosInv, ServerTyped
<1>. QED  BY <1>1, RequestOutcomeKeeps DEF RequestLost

\* A refill is read behind a list that is there.
LEMMA RefillKeeps ==
  ASSUME PhotosInv, ~Waiting, listings' = listings \cup {[for |-> "refill", read |-> filed]},
         listingFailed' = listingFailed
  PROVE  listings' \subseteq Listings /\ ~Waiting'
<1>1. listings' \subseteq Listings
  BY DEF PhotosInv, ServerTyped, Listings
<1>2. ~Waiting'
  BY DEF Waiting
<1>. QED  BY <1>1, <1>2

\* Whichever request ends, the lock of its page goes free: the gallery had no other, and
\* Review's other cards lose theirs, which holds them back from nothing.
LEMMA RequestSettledKeeps ==
  ASSUME PhotosInv, NEW r \in photoRequests, RequestSettled(r)
  PROVE  PhotosInv'
<1> USE DEF PhotosInv
<1>1. /\ photoRequests' = photoRequests \ {r}
      /\ busyKey' = (IF r.by = "review" THEN NoPhoto ELSE busyKey)
      /\ actionInflight' = (actionInflight /\ r.by # "gallery")
      /\ UNCHANGED <<filed, desk, photoDialog, folder, listingFailed>>
  BY DEF RequestSettled
<1>2. r \in PhotoRequests /\ r.by \in {desk, "nobody"} /\ (r.by # "nobody" => ~Waiting)
  BY DEF ServerTyped, OwnRequests, WaitsAlone
<1>3. LockHasRequest'
  <2>1. busyKey' # NoPhoto =>
          \E q \in photoRequests' :
            q.by = "review" /\ q.photo = busyKey'.photo /\ q.dir = busyKey'.dir
    BY <1>1 DEF LockHasRequest
  <2>2. actionInflight' <=> \E q \in photoRequests' : q.by = "gallery"
    BY <1>1 DEF LockHasRequest, PageTyped
  <2>3. \A q1, q2 \in photoRequests' : q1.by = "gallery" /\ q2.by = "gallery" => q1 = q2
    BY <1>1 DEF LockHasRequest
  <2>. QED  BY <2>1, <2>2, <2>3 DEF LockHasRequest
<1>4. OwnRequests' /\ DialogCovers'
  BY <1>1 DEF OwnRequests, DialogCovers
<1>5. CASE r.by = "review" /\ r.outcome = "done"
  <2>1. /\ queue' = queue \ {[photo |-> r.photo, dir |-> r.dir]}
        /\ listings' = listings \cup {[for |-> "refill", read |-> filed]}
        /\ UNCHANGED <<files, openMenu, typing, folders>>
    BY <1>5 DEF RequestSettled, CardGone, ListingBegun
  <2>2. desk = "review" /\ ~Waiting /\ queue \in SUBSET Items
    BY <1>2, <1>5 DEF Loaded
  <2>3. listings' \subseteq Listings /\ ~Waiting'
    BY <1>1, <2>1, <2>2, RefillKeeps
  <2>4. ServerTyped'
    BY <1>1, <2>3 DEF ServerTyped
  <2>5. PageTyped'
    BY <1>1, <2>1, <2>2 DEF PageTyped
  <2>6. WaitsAlone' /\ Loaded'
    BY <1>1, <2>1, <2>2, <2>3 DEF WaitsAlone, Loaded
  <2>. QED  BY <1>3, <1>4, <2>4, <2>5, <2>6
<1>6. CASE r.by = "gallery" /\ r.outcome = "done"
  <2>1. /\ files' = files \ {r.photo} /\ openMenu' = NoPhoto /\ typing' = FALSE
        /\ UNCHANGED <<queue, listings, folders>>
    BY <1>6 DEF RequestSettled, CloseMenu
  <2>2. desk = "gallery" /\ ~Waiting /\ files \in SUBSET Photos
    BY <1>2, <1>6 DEF Loaded
  <2>3. ~Waiting'
    BY <1>1, <2>1, <2>2 DEF Waiting
  <2>4. ServerTyped'
    BY <1>1, <2>1 DEF ServerTyped
  <2>5. PageTyped'
    BY <1>1, <2>1, <2>2 DEF PageTyped
  <2>6. WaitsAlone' /\ Loaded'
    BY <1>1, <2>1, <2>2, <2>3 DEF WaitsAlone, Loaded
  <2>. QED  BY <1>3, <1>4, <2>4, <2>5, <2>6
<1>7. CASE r.by = "index" /\ r.outcome = "done"
  <2>1. /\ folders' = folders \ {r.dir}
        /\ UNCHANGED <<queue, listings, files, openMenu, typing>>
    BY <1>7 DEF RequestSettled
  <2>2. desk = "index" /\ ~Waiting /\ folders \in SUBSET Folders
    BY <1>2, <1>7 DEF Loaded
  <2>3. ~Waiting'
    BY <1>1, <2>1, <2>2 DEF Waiting
  <2>4. ServerTyped'
    BY <1>1, <2>1 DEF ServerTyped
  <2>5. PageTyped'
    BY <1>1, <2>1, <2>2 DEF PageTyped
  <2>6. WaitsAlone' /\ Loaded'
    BY <1>1, <2>1, <2>2, <2>3 DEF WaitsAlone, Loaded
  <2>. QED  BY <1>3, <1>4, <2>4, <2>5, <2>6
<1>8. CASE r.by = "nobody" \/ r.outcome # "done"
  <2>1. UNCHANGED <<queue, listings, folders, files, openMenu, typing>>
    BY <1>8 DEF RequestSettled
  <2>2. Waiting' = Waiting
    BY <1>1, <2>1 DEF Waiting
  <2>3. ServerTyped'
    BY <1>1, <2>1 DEF ServerTyped
  <2>4. PageTyped'
    BY <1>1, <2>1 DEF PageTyped
  <2>5. WaitsAlone' /\ Loaded'
    BY <1>1, <2>1, <2>2 DEF WaitsAlone, Loaded
  <2>. QED  BY <1>3, <1>4, <2>3, <2>4, <2>5
<1>. QED
  BY <1>2, <1>5, <1>6, <1>7, <1>8 DEF PhotoRequests

-------------------------------------------------------------------------------
(* The pages *)

\* A request is sent by a page that has its list, and takes its page's lock, which in the
\* gallery was free.
LEMMA RequestSentKeeps ==
  ASSUME PhotosInv, ~Waiting, NEW photo \in Photos \cup {NoPhoto}, NEW dir \in Folders,
         NEW to \in Folders \cup {"deleted"}, Request(photo, dir, to),
         desk = "review" => photo \in Photos,
         desk = "gallery" => ~actionInflight,
         busyKey' = (IF desk = "review" THEN [photo |-> photo, dir |-> dir] ELSE busyKey),
         actionInflight' = (actionInflight \/ desk = "gallery"),
         photoDialog' = NoPhoto,
         UNCHANGED <<desk, listings, queue, folders, folder, files, openMenu, typing,
                     listingFailed>>
  PROVE  PhotosInv'
<1> DEFINE r == [photo |-> photo, dir |-> dir, to |-> to, by |-> desk, outcome |-> "sent"]
<1> USE DEF PhotosInv
<1>1. photoRequests' = photoRequests \cup {r} /\ filed' = filed
  BY DEF Request
<1>2. r \in PhotoRequests /\ r.by = desk /\ r.photo = photo /\ r.dir = dir
  BY DEF PageTyped, PhotoRequests
<1> HIDE DEF r
<1>3. ServerTyped' /\ OwnRequests'
  BY <1>1, <1>2 DEF ServerTyped, OwnRequests
<1>4. PageTyped'
  BY DEF PageTyped, Items
<1>5. WaitsAlone' /\ Loaded'
  <2>1. ~Waiting'
    BY DEF Waiting
  <2>. QED  BY <2>1 DEF WaitsAlone, Loaded
<1>6. DialogCovers'
  BY DEF DialogCovers
<1>7. LockHasRequest'
  <2>1. busyKey' # NoPhoto =>
          \E q \in photoRequests' :
            q.by = "review" /\ q.photo = busyKey'.photo /\ q.dir = busyKey'.dir
    <3>1. CASE desk = "review"
      BY <1>1, <1>2, <3>1
    <3>2. CASE desk # "review"
      BY <1>1, <3>2 DEF LockHasRequest
    <3>. QED  BY <3>1, <3>2
  <2>2. actionInflight' <=> \E q \in photoRequests' : q.by = "gallery"
    BY <1>1, <1>2 DEF LockHasRequest, PageTyped
  <2>3. \A q1, q2 \in photoRequests' : q1.by = "gallery" /\ q2.by = "gallery" => q1 = q2
    BY <1>1, <1>2 DEF LockHasRequest
  <2>. QED  BY <2>1, <2>2, <2>3 DEF LockHasRequest
<1>. QED  BY <1>3, <1>4, <1>5, <1>6, <1>7

LEMMA ReviewKeeps ==
  ASSUME PhotosInv, NEW item \in Items, Review(item)
  PROVE  PhotosInv'
<1> USE DEF PhotosInv
<1>1. /\ desk = "review" /\ photoDialog = NoPhoto /\ queue # NoPhoto
      /\ UNCHANGED <<desk, photoDialog, folders, folder, files, openMenu, typing, actionInflight,
                     listingFailed>>
  BY DEF Review, CardOffered, AtDesk, trainingVars
<1>2. ~Waiting /\ queue \in SUBSET Items
  BY <1>1 DEF WaitsAlone, Loaded
<1>3. PICK dir \in Folders : FileCard(item, dir)
  <2>1. Guess[item.photo] # NoPhoto => Guess[item.photo] \in Folders
    BY PhotosAssumption DEF Items, Folders
  <2>. QED  BY <2>1 DEF Review, Folders
<1>4. CASE item.dir = dir
  <2>1. /\ queue' = queue \ {item}
        /\ listings' = listings \cup {[for |-> "refill", read |-> filed]}
        /\ UNCHANGED <<filed, photoRequests, busyKey>>
    BY <1>3, <1>4 DEF FileCard, CardGone, ListingBegun, serverPhotoVars
  <2>2. listings' \subseteq Listings /\ ~Waiting'
    BY <1>1, <1>2, <2>1, RefillKeeps
  <2>3. ServerTyped' /\ OwnRequests'
    BY <1>1, <2>1, <2>2 DEF ServerTyped, OwnRequests
  <2>4. PageTyped'
    BY <1>1, <1>2, <2>1 DEF PageTyped
  <2>5. WaitsAlone' /\ Loaded'
    BY <1>1, <1>2, <2>1, <2>2 DEF WaitsAlone, Loaded
  <2>6. DialogCovers' /\ LockHasRequest'
    BY <1>1, <2>1 DEF DialogCovers, LockHasRequest
  <2>. QED  BY <2>3, <2>4, <2>5, <2>6
<1>5. CASE item.dir # dir
  <2>1. /\ item = [photo |-> item.photo, dir |-> item.dir]
        /\ item.photo \in Photos /\ item.dir \in Folders
    BY DEF Items
  <2>2. busyKey' = item /\ Request(item.photo, item.dir, dir) /\ UNCHANGED <<queue, listings>>
    BY <1>3, <1>5 DEF FileCard
  <2>. QED  BY <1>1, <1>2, <2>1, <2>2, RequestSentKeeps DEF PageTyped
<1>. QED  BY <1>4, <1>5

LEMMA MoveKeeps ==
  ASSUME PhotosInv, NEW photo \in Photos, NEW dir \in Folders, MoveTo(photo, dir)
  PROVE  PhotosInv'
<1> USE DEF PhotosInv
<1>1. /\ desk = "gallery" /\ photoDialog = NoPhoto /\ files # NoPhoto /\ ~actionInflight
      /\ actionInflight' = TRUE /\ Request(photo, folder, dir)
      /\ UNCHANGED <<desk, listings, photoDialog, queue, busyKey, folders, folder, files, openMenu,
                     typing, listingFailed>>
  BY DEF MoveTo, PanelOpen, AtDesk, reviewVars
<1>2. ~Waiting /\ folder \in Folders
  BY <1>1 DEF WaitsAlone, Loaded
<1>. QED  BY <1>1, <1>2, RequestSentKeeps

\* Panels and dialogs that open and close in front of requests.
LEMMA MenuKeeps ==
  ASSUME PhotosInv, openMenu' \in Photos \cup {NoPhoto}, typing' \in BOOLEAN,
         UNCHANGED <<serverPhotoVars, desk, listings, photoDialog, reviewVars, folders, folder,
                     files, actionInflight, listingFailed>>
  PROVE  PhotosInv'
<1>1. UNCHANGED <<filed, photoRequests, desk, listings, photoDialog, queue, busyKey, folders,
                  folder, files, actionInflight, listingFailed>>
  BY DEF serverPhotoVars, reviewVars
<1> USE DEF PhotosInv
<1>2. ServerTyped' /\ OwnRequests' /\ DialogCovers' /\ LockHasRequest'
  BY <1>1 DEF ServerTyped, OwnRequests, DialogCovers, LockHasRequest
<1>3. PageTyped'
  BY <1>1 DEF PageTyped
<1>4. Waiting' = Waiting
  BY <1>1 DEF Waiting
<1>5. WaitsAlone' /\ Loaded'
  BY <1>1, <1>4 DEF WaitsAlone, Loaded
<1>. QED  BY <1>2, <1>3, <1>5

LEMMA AskDeleteKeeps == PhotosInv /\ AskDelete => PhotosInv'
<1> SUFFICES ASSUME PhotosInv, AskDelete PROVE PhotosInv'
  OBVIOUS
<1> USE DEF PhotosInv
<1>1. UNCHANGED <<filed, photoRequests, desk, listings, queue, busyKey, folders, folder, files,
                  openMenu, typing, actionInflight, listingFailed>>
  BY DEF AskDelete, serverPhotoVars, reviewVars, trainingVars
<1> DEFINE Asked ==
         /\ photoDialog' \in [photo : Photos \cup {NoPhoto}, dir : Folders]
         /\ ~Waiting
         /\ desk = "gallery" => ~actionInflight
         /\ desk = "review" => photoDialog' \in Items
<1>2. Asked
  <2>1. ASSUME NEW item \in Items, CardOffered(item), photoDialog' = item PROVE Asked
    <3>1. ~Waiting /\ desk = "review"
      BY <2>1 DEF CardOffered, AtDesk, WaitsAlone
    <3>2. item \in [photo : Photos \cup {NoPhoto}, dir : Folders]
      BY DEF Items
    <3>. QED  BY <2>1, <3>1, <3>2
  <2>2. ASSUME NEW photo \in Photos, PanelOpen(photo), ~actionInflight,
               photoDialog' = [photo |-> photo, dir |-> folder]
        PROVE  Asked
    <3>1. ~Waiting /\ desk = "gallery" /\ folder \in Folders
      BY <2>2 DEF PanelOpen, AtDesk, WaitsAlone, Loaded
    <3>. QED  BY <2>2, <3>1
  <2>3. ASSUME AtDesk("index"), folders # NoPhoto, NEW dir \in folders,
               photoDialog' = [photo |-> NoPhoto, dir |-> dir]
        PROVE  Asked
    <3>1. ~Waiting /\ desk = "index"
      BY <2>3 DEF AtDesk, WaitsAlone
    <3>2. dir \in Folders
      BY <2>3 DEF PageTyped
    <3>. QED  BY <2>3, <3>1, <3>2
  <2>. HIDE DEF Asked
  <2>. QED  BY <2>1, <2>2, <2>3 DEF AskDelete
<1>3. ServerTyped' /\ OwnRequests' /\ LockHasRequest'
  BY <1>1 DEF ServerTyped, OwnRequests, LockHasRequest
<1>4. PageTyped' /\ DialogCovers'
  BY <1>1, <1>2 DEF PageTyped, DialogCovers
<1>5. ~Waiting'
  BY <1>1, <1>2 DEF Waiting
<1>6. WaitsAlone' /\ Loaded'
  BY <1>1, <1>2, <1>5 DEF WaitsAlone, Loaded
<1>. QED  BY <1>3, <1>4, <1>6

LEMMA AnswerKeeps ==
  ASSUME PhotosInv, NEW yes \in BOOLEAN, DialogAnswered(yes)
  PROVE  PhotosInv'
<1> USE DEF PhotosInv
<1>1. /\ photoDialog # NoPhoto /\ photoDialog' = NoPhoto
      /\ UNCHANGED <<desk, listings, queue, folders, folder, files, openMenu, typing,
                     listingFailed>>
  BY DEF DialogAnswered
<1>2. /\ ~Waiting /\ photoDialog \in [photo : Photos \cup {NoPhoto}, dir : Folders]
      /\ desk = "gallery" => ~actionInflight
      /\ desk = "review" => photoDialog.photo \in Photos
      /\ photoDialog = [photo |-> photoDialog.photo, dir |-> photoDialog.dir]
      /\ photoDialog.photo \in Photos \cup {NoPhoto} /\ photoDialog.dir \in Folders
  BY <1>1 DEF WaitsAlone, PageTyped, DialogCovers, Items
<1>3. CASE yes
  <2>1. /\ Request(photoDialog.photo, photoDialog.dir, "deleted")
        /\ busyKey' = IF desk = "review" THEN photoDialog ELSE busyKey
        /\ actionInflight' = (actionInflight \/ desk = "gallery")
    BY <1>3 DEF DialogAnswered
  <2>. QED  BY <1>1, <1>2, <2>1, RequestSentKeeps
<1>4. CASE ~yes
  <2>1. UNCHANGED <<filed, photoRequests, busyKey, actionInflight>>
    BY <1>4 DEF DialogAnswered, serverPhotoVars
  <2>2. ServerTyped' /\ OwnRequests' /\ LockHasRequest'
    BY <1>1, <2>1 DEF ServerTyped, OwnRequests, LockHasRequest
  <2>3. PageTyped' /\ DialogCovers'
    BY <1>1, <2>1 DEF PageTyped, DialogCovers
  <2>4. ~Waiting'
    BY <1>1, <1>2 DEF Waiting
  <2>5. WaitsAlone' /\ Loaded'
    BY <1>1, <1>2, <2>1, <2>4 DEF WaitsAlone, Loaded
  <2>. QED  BY <2>2, <2>3, <2>5
<1>. QED  BY <1>3, <1>4

LEMMA PhotosStepKeeps == PhotosInv /\ [FacePhotosNext]_photoVars => PhotosInv'
<1> SUFFICES ASSUME PhotosInv, [FacePhotosNext]_photoVars PROVE PhotosInv'
  OBVIOUS
<1>1. CASE ListingStep
  BY <1>1, ListingAnswerKeeps, ListingFailureKeeps, RetryKeeps, VisitKeeps DEF ListingStep
<1>2. ASSUME NEW r \in photoRequests, RequestServed(r) \/ RequestLost(r) \/ RequestSettled(r)
      PROVE  PhotosInv'
  BY <1>2, RequestServedKeeps, RequestLostKeeps, RequestSettledKeeps
<1>3. ASSUME NEW item \in Items, Review(item) PROVE PhotosInv'
  BY <1>3, ReviewKeeps
<1>4. ASSUME NEW photo \in Photos, NEW dir \in Folders, MoveTo(photo, dir) PROVE PhotosInv'
  BY <1>4, MoveKeeps
<1>5. ASSUME NEW photo \in Photos, OpenMenu(photo) \/ TypePerson(photo) PROVE PhotosInv'
  <2>1. openMenu \in Photos \cup {NoPhoto}
    BY DEF PhotosInv, PageTyped
  <2>. QED  BY <1>5, <2>1, MenuKeeps DEF OpenMenu, TypePerson
<1>6. CASE CancelMenu
  BY <1>6, MenuKeeps DEF CancelMenu, CloseMenu
<1>7. CASE AskDelete
  BY <1>7, AskDeleteKeeps
<1>8. ASSUME NEW yes \in BOOLEAN, DialogAnswered(yes) PROVE PhotosInv'
  BY <1>8, AnswerKeeps
<1>9. CASE UNCHANGED photoVars
  <2>1. /\ openMenu' \in Photos \cup {NoPhoto} /\ typing' \in BOOLEAN
        /\ UNCHANGED <<serverPhotoVars, desk, listings, photoDialog, reviewVars, folders, folder,
                       files, actionInflight, listingFailed>>
    BY <1>9 DEF photoVars, serverPhotoVars, reviewVars, trainingVars, PhotosInv, PageTyped
  <2>. QED  BY <2>1, MenuKeeps
<1>. QED
  BY <1>1, <1>2, <1>3, <1>4, <1>5, <1>6, <1>7, <1>8, <1>9 DEF FacePhotosNext, PhotoStep

\* No photo stays locked and the gallery never has two requests (Review's busyKey, Training's
\* actionInflight), for any photos and folders and any number of requests and listings on
\* their way; the pages' state is well typed.
THEOREM PhotosAreUnlocked == FacePhotosSpec => [](FacePhotosTypeOK /\ LocksAreFreed)
<1>. QED  BY PhotosInitHolds, PhotosStepKeeps, PhotosImplies, PTL DEF FacePhotosSpec

-------------------------------------------------------------------------------
(* Timelapses. What the page lists, plays and deletes are days the form can name.   *)

ReelLists == SUBSET Reels
BuildStates == {"none", "building", "ready", "failed"}

ReelsTyped ==
  /\ reels \in ReelLists /\ builds \in [Reels -> BuildStates]
  /\ reelList \in ReelLists \cup {NoReel} /\ firstList \in ReelLists \cup {NoReel}
  /\ reelDate \in Reels \cup {NoReel}
  /\ buildLoop \in
       [at : {"trigger", "polling", "listing"}, date : Reels, read : ReelLists] \cup {NoReel}
  /\ reelDialog \in [date : Reels, snapshot : ReelLists] \cup {NoReel}
  /\ deletions \subseteq [date : Reels, snapshot : ReelLists, at : {"sent", "served"}]
  /\ manifests \in [Reels -> {"unasked", "asked", "clock", "none"}]

LEMMA ReelsImplies == ReelsTyped => TimelapsesTypeOK
  BY DEF ReelsTyped, TimelapsesTypeOK, ReelLists, BuildStates

LEMMA ReelsInitTyped == TimelapsesInit => ReelsTyped
  BY DEF TimelapsesInit, ReelsTyped, ReelLists, BuildStates

LEMMA ReelsShownTyped ==
  ASSUME ReelsTyped, NEW list \in ReelLists \cup {NoReel}, ReelsShown(list)
  PROVE  /\ reelList' \in ReelLists \cup {NoReel}
         /\ manifests' \in [Reels -> {"unasked", "asked", "clock", "none"}]
  BY DEF ReelsShown, ReelsTyped

LEMMA ReelsStepKeeps == ReelsTyped /\ [TimelapsesNext]_reelVars => ReelsTyped'
<1> SUFFICES ASSUME ReelsTyped, [TimelapsesNext]_reelVars PROVE ReelsTyped'
  OBVIOUS
<1> USE DEF ReelsTyped
<1>1. CASE TriggerServed
  <2>1. buildLoop.date \in Reels /\ "building" \in BuildStates
    BY <1>1 DEF TriggerServed, Generating, BuildStates
  <2>2. builds' \in [Reels -> BuildStates]
    BY <1>1, <2>1 DEF TriggerServed
  <2>3. buildLoop' \in [at : {"trigger", "polling", "listing"}, date : Reels, read : ReelLists]
    BY <1>1 DEF TriggerServed, Generating
  <2>. QED  BY <1>1, <2>2, <2>3 DEF TriggerServed
<1>2. ASSUME NEW date \in Reels, NEW made \in BOOLEAN, BuildEnds(date, made) PROVE ReelsTyped'
  BY <1>2 DEF BuildEnds, BuildStates, ReelLists
<1>3. CASE ServerRestarted
  BY <1>3 DEF ServerRestarted, BuildStates
<1>4. CASE FirstListEnds
  <2>1. firstList \in ReelLists \cup {NoReel} /\ {} \in ReelLists
    BY DEF ReelLists
  <2>2. /\ reelList' \in ReelLists \cup {NoReel}
        /\ manifests' \in [Reels -> {"unasked", "asked", "clock", "none"}]
    BY <1>4, <2>1, ReelsShownTyped DEF FirstListEnds
  <2>. QED  BY <1>4, <2>2 DEF FirstListEnds, reelServerVars
<1>5. CASE Generate
  <2>1. {} \in ReelLists
    BY DEF ReelLists
  <2>. QED  BY <1>5, <2>1 DEF Generate, reelServerVars
<1>6. CASE BuildPolled
  <2>1. buildLoop' \in
          [at : {"trigger", "polling", "listing"}, date : Reels, read : ReelLists] \cup {NoReel}
    BY <1>6 DEF BuildPolled, Generating
  <2>. QED  BY <1>6, <2>1 DEF BuildPolled, reelServerVars
<1>7. CASE LoopEndsWithoutList
  <2>1. builds' \in [Reels -> BuildStates]
    BY <1>7 DEF LoopEndsWithoutList, BuildStates
  <2>. QED  BY <1>7, <2>1 DEF LoopEndsWithoutList
<1>8. CASE ReadyListed
  <2>1. buildLoop.read \in ReelLists
    BY <1>8 DEF ReadyListed, Generating
  <2>2. /\ reelList' \in ReelLists \cup {NoReel}
        /\ manifests' \in [Reels -> {"unasked", "asked", "clock", "none"}]
    BY <1>8, <2>1, ReelsShownTyped DEF ReadyListed
  <2>. QED  BY <1>8, <2>2 DEF ReadyListed, reelServerVars
<1>9. CASE ReopenTimelapses
  <2>1. builds' \in [Reels -> BuildStates]
    BY <1>9 DEF ReopenTimelapses, BuildStates
  <2>2. reels' \in ReelLists /\ firstList' \in ReelLists
    BY <1>9 DEF ReopenTimelapses, ReelLists
  <2>3. /\ reelList' \in ReelLists \cup {NoReel}
        /\ manifests' \in [Reels -> {"unasked", "asked", "clock", "none"}]
    BY <1>9, ReelsShownTyped DEF ReopenTimelapses
  <2>. QED  BY <1>9, <2>1, <2>2, <2>3 DEF ReopenTimelapses
<1>10. ASSUME NEW date \in Reels, AskDeleteReel(date) PROVE ReelsTyped'
  BY <1>10 DEF AskDeleteReel, reelServerVars
<1>11. ASSUME NEW date \in Reels, PlayReel(date) \/ ManifestEnds(date) PROVE ReelsTyped'
  BY <1>11 DEF PlayReel, ManifestEnds, reelServerVars
<1>12. ASSUME NEW date \in Reels \cup {NoReel}, PickDate(date) PROVE ReelsTyped'
  BY <1>12 DEF PickDate, reelServerVars
<1>13. ASSUME NEW yes \in BOOLEAN, DeleteReelConfirmed(yes) PROVE ReelsTyped'
  <2>1. reelDialog \in [date : Reels, snapshot : ReelLists]
    BY <1>13 DEF DeleteReelConfirmed, Section
  <2> DEFINE d == [date |-> reelDialog.date, snapshot |-> reelDialog.snapshot, at |-> "sent"]
             left == IF reelList = NoReel THEN NoReel ELSE reelList \ {d.date}
  <2>2. d \in [date : Reels, snapshot : ReelLists, at : {"sent", "served"}]
    BY <2>1
  <2>3. left \in ReelLists \cup {NoReel}
    BY DEF ReelLists
  <2>4. CASE yes
    <3>1. deletions' = deletions \cup {d} /\ ReelsShown(left)
      BY <1>13, <2>4 DEF DeleteReelConfirmed
    <3> HIDE DEF d, left
    <3>2. /\ reelList' \in ReelLists \cup {NoReel}
          /\ manifests' \in [Reels -> {"unasked", "asked", "clock", "none"}]
      BY <2>3, <3>1, ReelsShownTyped
    <3>. QED  BY <1>13, <2>2, <3>1, <3>2 DEF DeleteReelConfirmed, reelServerVars
  <2>5. CASE ~yes
    BY <1>13, <2>5 DEF DeleteReelConfirmed, reelServerVars
  <2>. QED  BY <2>4, <2>5
<1>14. ASSUME NEW d \in deletions, DeleteServed(d) PROVE ReelsTyped'
  <2>1. [d EXCEPT !.at = "served"] \in
          [date : Reels, snapshot : ReelLists, at : {"sent", "served"}]
    OBVIOUS
  <2>. QED  BY <1>14, <2>1 DEF DeleteServed, ReelLists
<1>15. ASSUME NEW d \in deletions, DeletionAnswered(d) PROVE ReelsTyped'
  BY <1>15 DEF DeletionAnswered, reelServerVars
<1>16. ASSUME NEW d \in deletions, DeletionLost(d) PROVE ReelsTyped'
  <2>1. d.snapshot \in ReelLists
    OBVIOUS
  <2>2. /\ reelList' \in ReelLists \cup {NoReel}
        /\ manifests' \in [Reels -> {"unasked", "asked", "clock", "none"}]
    BY <1>16, <2>1, ReelsShownTyped DEF DeletionLost
  <2>. QED  BY <1>16, <2>2 DEF DeletionLost, reelServerVars
<1>17. CASE UNCHANGED reelVars
  BY <1>17 DEF reelVars, reelServerVars
<1>. QED
  BY <1>1, <1>2, <1>3, <1>4, <1>5, <1>6, <1>7, <1>8, <1>9, <1>10, <1>11, <1>12, <1>13, <1>14,
     <1>15, <1>16, <1>17
  DEF TimelapsesNext

-------------------------------------------------------------------------------
(* FaceSettings. The retention is never zero, in the section, on the wire or on the *)
(* server: an empty field counts as one day.                                        *)

Retained == {c \in CaptureConfigs : c.days >= 1}

PatchTyped(patch) ==
  /\ \/ patch.field = "on" /\ patch.value \in BOOLEAN
     \/ patch.field = "days" /\ patch.value \in 1..LongestDays
  /\ patch.answer \in Retained \cup {NotYet}

CaptureTyped ==
  /\ captureStored \in Retained /\ captureConfig \in Retained \cup {NotYet}
  /\ captureLoading \in BOOLEAN
  /\ \A patch \in capturePatches :
       /\ patch = [field |-> patch.field, value |-> patch.value, answer |-> patch.answer]
       /\ PatchTyped(patch)

ConsentTyped ==
  /\ exporting \in {"no", "face", "person"}
  /\ consent \in BOOLEAN /\ consentDialog \in BOOLEAN
  /\ consentShown \in BOOLEAN \cup {NotYet}
  /\ consentJob \in {"no", "grant", "revoke", "granted", "revoked"}

PeopleTyped ==
  /\ peopleLoading \in BOOLEAN /\ peopleFailed \in BOOLEAN
  /\ shownPages \in 0..KnownPages \cup {NotYet} /\ moreFrom \in 0..KnownPages \cup {NotYet}
  /\ pageLimit \in 1..(PageCap + 1)

FacesTyped == CaptureTyped /\ ConsentTyped /\ PeopleTyped

LEMMA FacesImplies == FacesTyped => FaceSettingsTypeOK
  BY DEF FacesTyped, CaptureTyped, ConsentTyped, PeopleTyped, Retained, PatchTyped,
         FaceSettingsTypeOK

LEMMA PagesAre ==
  /\ PageCap \in Nat /\ PageCap >= 1 /\ KnownPages \in Nat /\ KnownPages >= 1
  /\ NotYet \notin Nat /\ 1 \in 1..(PageCap + 1)
  BY FaceSettingsAssumption

LEMMA FacesInitTyped == FaceSettingsInit => FacesTyped
<1> SUFFICES ASSUME FaceSettingsInit PROVE FacesTyped
  OBVIOUS
<1> USE FaceSettingsAssumption DEF FaceSettingsInit
<1>1. CaptureTyped
  BY DEF TrainInit, CaptureTyped, Retained, CaptureConfigs
<1>2. ConsentTyped
  BY DEF TrainInit, ConsentTyped
<1>3. PeopleTyped
  BY PagesAre DEF PeopleInit, PeopleTyped
<1>. QED  BY <1>1, <1>2, <1>3 DEF FacesTyped

LEMMA ClampedIs ==
  ASSUME NEW days \in Nat, days >= 1
  PROVE  Clamped(days) \in 1..LongestDays
  BY FaceSettingsAssumption DEF Clamped

\* A patch that is sent.
LEMMA PatchSent ==
  ASSUME CaptureTyped, NEW field, NEW value, PatchCapture(field, value),
         \/ field = "on" /\ value \in BOOLEAN
         \/ field = "days" /\ value \in 1..LongestDays,
         UNCHANGED <<captureStored, captureConfig, captureLoading>>
  PROVE  CaptureTyped'
<1> DEFINE sent == [field |-> field, value |-> value, answer |-> NotYet]
<1>1. /\ sent = [field |-> sent.field, value |-> sent.value, answer |-> sent.answer]
      /\ PatchTyped(sent)
  BY DEF PatchTyped
<1>2. capturePatches' = capturePatches \cup {sent}
  BY DEF PatchCapture
<1> HIDE DEF sent
<1>. QED  BY <1>1, <1>2 DEF CaptureTyped

LEMMA CaptureStepKeeps ==
  ASSUME CaptureTyped, CaptureNext
  PROVE  CaptureTyped' /\ UNCHANGED <<exporting, consentVars, peopleVars>>
<1> USE DEF CaptureTyped
<1>1. CASE CaptureLoaded
  BY <1>1 DEF CaptureLoaded
<1>2. CASE ToggleCapture
  <2>1. captureConfig \in Retained /\ captureConfig.on \in BOOLEAN
    BY <1>2 DEF ToggleCapture, Retained, CaptureConfigs
  <2>2. (~captureConfig.on) \in BOOLEAN
    BY <2>1, Zenon
  <2>. QED  BY <1>2, <2>2, PatchSent DEF ToggleCapture
<1>3. CASE LeaveDays
  <2>1. captureConfig.days \in Nat /\ captureConfig.days >= 1
    BY <1>3 DEF LeaveDays, Retained, CaptureConfigs
  <2>2. Clamped(captureConfig.days) \in 1..LongestDays
    BY <2>1, ClampedIs
  <2>. QED  BY <1>3, <2>2, PatchSent DEF LeaveDays
<1>4. ASSUME NEW days \in TypedDays, TypeDays(days)
      PROVE  CaptureTyped' /\ UNCHANGED <<exporting, consentVars, peopleVars>>
  <2>1. days \in Nat /\ captureConfig \in Retained
    BY <1>4, FaceSettingsAssumption DEF TypeDays
  <2>2. captureConfig' \in Retained
    BY <1>4, <2>1 DEF TypeDays, Retained, CaptureConfigs
  <2>. QED  BY <1>4, <2>2 DEF TypeDays
<1>5. ASSUME NEW patch \in capturePatches, CaptureServed(patch)
      PROVE  CaptureTyped' /\ UNCHANGED <<exporting, consentVars, peopleVars>>
  <2>1. PatchTyped(patch)
    OBVIOUS
  <2>2. captureStored' \in Retained
    <3>1. CASE patch.field = "on"
      <4>1. patch.value \in BOOLEAN
        BY <2>1, <3>1 DEF PatchTyped
      <4>2. captureStored' = [captureStored EXCEPT !.on = patch.value]
        BY <1>5, <3>1 DEF CaptureServed
      <4>. QED  BY <4>1, <4>2 DEF Retained, CaptureConfigs
    <3>2. CASE patch.field # "on"
      <4>1. patch.value \in 1..LongestDays
        BY <2>1, <3>2 DEF PatchTyped
      <4>2. captureStored' = [captureStored EXCEPT !.days = patch.value]
        BY <1>5, <3>2 DEF CaptureServed
      <4>. QED  BY <4>1, <4>2, FaceSettingsAssumption DEF Retained, CaptureConfigs
    <3>. QED  BY <3>1, <3>2
  <2> DEFINE served == [patch EXCEPT !.answer = captureStored']
  <2>3. /\ served = [field |-> served.field, value |-> served.value, answer |-> served.answer]
        /\ PatchTyped(served)
    <3>1. /\ patch = [field |-> patch.field, value |-> patch.value, answer |-> patch.answer]
      OBVIOUS
    <3>2. served = [field |-> patch.field, value |-> patch.value, answer |-> captureStored']
      BY <3>1
    <3>. QED  BY <2>1, <2>2, <3>2 DEF PatchTyped
  <2>4. capturePatches' = (capturePatches \ {patch}) \cup {served}
    BY <1>5 DEF CaptureServed
  <2> HIDE DEF served
  <2>. QED  BY <1>5, <2>2, <2>3, <2>4 DEF CaptureServed
<1>6. ASSUME NEW patch \in capturePatches, CaptureAnswered(patch) \/ CaptureLost(patch)
      PROVE  CaptureTyped' /\ UNCHANGED <<exporting, consentVars, peopleVars>>
  BY <1>6 DEF CaptureAnswered, CaptureLost, PatchTyped
<1>. QED  BY <1>1, <1>2, <1>3, <1>4, <1>5, <1>6 DEF CaptureNext

LEMMA ConsentStepKeeps ==
  ASSUME ConsentTyped, ConsentNext
  PROVE  ConsentTyped' /\ UNCHANGED <<captureVars, peopleVars>>
<1> USE DEF ConsentTyped
<1>1. CASE Export
  BY <1>1 DEF Export, consentVars
<1>2. CASE ConsentRead
  BY <1>2 DEF ConsentRead
<1>3. CASE PressConsent
  <2>1. consentShown \in BOOLEAN /\ consentDialog' = consentShown
    BY <1>3 DEF PressConsent
  <2>2. consentDialog' \in BOOLEAN
    BY <2>1, Zenon
  <2>3. consentJob' \in {"no", "grant"}
    BY <1>3 DEF PressConsent
  <2>. QED  BY <1>3, <2>2, <2>3 DEF PressConsent
<1>4. CASE ConsentServed
  <2>1. consent' \in BOOLEAN
    BY <1>4 DEF ConsentServed
  <2>2. consentJob' \in {"granted", "revoked"}
    BY <1>4 DEF ConsentServed
  <2>. QED  BY <1>4, <2>1, <2>2 DEF ConsentServed
<1>5. CASE ConsentEnds
  <2>1. consentShown' \in BOOLEAN \cup {NotYet}
    BY <1>5 DEF ConsentEnds
  <2>. QED  BY <1>5, <2>1 DEF ConsentEnds
<1>6. ASSUME NEW yes \in BOOLEAN, ConsentConfirmed(yes)
      PROVE  ConsentTyped' /\ UNCHANGED <<captureVars, peopleVars>>
  BY <1>6 DEF ConsentConfirmed
<1>. QED  BY <1>1, <1>2, <1>3, <1>4, <1>5, <1>6 DEF ConsentNext

LEMMA PeopleStepKeeps ==
  ASSUME PeopleTyped, PeopleNext
  PROVE  PeopleTyped' /\ UNCHANGED trainVars
<1> USE PagesAre DEF PeopleTyped
<1>1. CASE PeopleEnd
  <2>1. /\ peopleLoading' \in BOOLEAN /\ peopleFailed' \in BOOLEAN
        /\ UNCHANGED <<trainVars, pageLimit, moreFrom>>
    BY <1>1 DEF PeopleEnd
  <2>2. shownPages' \in 0..KnownPages \cup {NotYet}
    <3>1. (IF pageLimit < KnownPages THEN pageLimit ELSE KnownPages) \in 0..KnownPages
      OBVIOUS
    <3>. QED  BY <1>1, <3>1 DEF PeopleEnd
  <2>. QED  BY <2>1, <2>2
<1>2. CASE MorePeople
  BY <1>2 DEF MorePeople
<1>3. CASE SafetyTimer
  BY <1>3 DEF SafetyTimer
<1>4. CASE RetryPeople
  BY <1>4 DEF RetryPeople
<1>. QED  BY <1>1, <1>2, <1>3, <1>4 DEF PeopleNext

LEMMA FacesStepKeeps == FacesTyped /\ [FaceSettingsNext]_faceVars => FacesTyped'
<1> SUFFICES ASSUME FacesTyped, [FaceSettingsNext]_faceVars PROVE FacesTyped'
  OBVIOUS
<1> USE DEF FacesTyped
<1>1. UNCHANGED captureVars => CaptureTyped'
  BY DEF captureVars, CaptureTyped, PatchTyped
<1>2. UNCHANGED <<exporting, consentVars>> => ConsentTyped'
  BY DEF consentVars, ConsentTyped
<1>3. UNCHANGED peopleVars => PeopleTyped'
  BY DEF peopleVars, PeopleTyped
<1>4. CASE CaptureNext
  BY <1>2, <1>3, <1>4, CaptureStepKeeps
<1>5. CASE ConsentNext
  BY <1>1, <1>3, <1>5, ConsentStepKeeps
<1>6. CASE PeopleNext
  BY <1>1, <1>2, <1>6, PeopleStepKeeps DEF trainVars
<1>7. CASE UNCHANGED faceVars
  BY <1>1, <1>2, <1>3, <1>7 DEF faceVars, trainVars
<1>. QED  BY <1>4, <1>5, <1>6, <1>7 DEF FaceSettingsNext

-------------------------------------------------------------------------------
(* DetectionSettings. A clip length is within the cap of the tier it stands with:   *)
(* the form shows no other, and the server clamps to the tier it stores.            *)

Fits(c) == c.roll <= Cap[c.preset]
Configs == {c \in [preset : Presets, roll : Rolls, zones : 0..MaxZones] : Fits(c)}
ConfigPatches ==
  [preset : Presets \cup {Unset}, roll : Rolls \cup {Unset}, zones : 0..MaxZones \cup {Unset}]

SettingsTyped ==
  /\ storedConfig \in Configs
  /\ config \in Configs \cup {Unset} /\ configLoad \in Configs \cup {Unset}
  /\ loadError \in BOOLEAN
  /\ patches \subseteq ConfigPatches /\ replies \subseteq Configs
  /\ inProgress \in 0..EnoughPoints
  /\ selectedZone \in 1..MaxZones \cup {Unset} /\ drag \in BOOLEAN

LEMMA SettingsImplies == SettingsTyped => SettingsTypeOK
  BY DEF SettingsTyped, SettingsTypeOK, Configs, ConfigPatches, Fits

\* Of the first n tiers one allows the longest clips; the least n for which none did
\* would be a counterexample to its own predecessor.
LEMMA LongestExists ==
  ASSUME NEW n \in Nat, n # 0, NEW f \in [1..n -> Nat]
  PROVE  \E k \in 1..n : \A j \in 1..n : f[j] <= f[k]
<1> DEFINE Longest(m) == \E k \in 1..m : \A j \in 1..m : f[j] <= f[k]
           Bad == {m \in 1..n : ~Longest(m)}
<1>1. SUFFICES ASSUME Bad # {} PROVE FALSE
  <2>1. n \in 1..n
    OBVIOUS
  <2>. QED  BY <2>1, Zenon
<1>2. PICK m \in Bad : \A j \in Bad : m <= j
  <2>1. Bad \in SUBSET Nat
    OBVIOUS
  <2> HIDE DEF Bad
  <2>2. PICK m \in Bad : \A j \in Bad : ~(<<j, m>> \in OpToRel(<, Nat))
    BY <1>1, <2>1, NatLessThanWellFounded, WFMin
  <2>3. \A j \in Bad : ~(j < m)
    BY <2>1, <2>2 DEF OpToRel
  <2>. QED  BY <2>1, <2>3
<1>3. m # 1
  <2>1. Longest(1)
    BY DEF Longest
  <2>. QED  BY <1>2, <2>1
<1>4. m - 1 \in 1..n /\ m - 1 \notin Bad
  <2>1. m \in 1..n
    BY <1>2
  <2> HIDE DEF Bad
  <2>. QED  BY <1>2, <1>3, <2>1
<1>5. PICK k \in 1..(m - 1) : \A j \in 1..(m - 1) : f[j] <= f[k]
  BY <1>4
<1>6. m \in 1..n /\ k \in 1..n /\ f[m] \in Nat /\ f[k] \in Nat /\ 1..m = 1..(m - 1) \cup {m}
  BY <1>2, <1>5
<1>7. Longest(m)
  <2>1. CASE f[m] <= f[k]
    BY <1>5, <1>6, <2>1
  <2>2. CASE f[k] < f[m]
    <3>1. \A j \in 1..m : f[j] <= f[m]
      <4>1. \A j \in 1..(m - 1) : f[j] \in Nat
        BY <1>6
      <4>. QED  BY <1>5, <1>6, <2>2, <4>1
    <3>. QED  BY <1>6, <3>1
  <2>. QED  BY <1>6, <2>1, <2>2
<1>. QED  BY <1>2, <1>7

\* Every tier allows a roll of 0, and none a longer one than Rolls has.
LEMMA CapsAre ==
  /\ "month" \in Presets /\ Unset \notin Presets /\ Unset \notin Nat
  /\ MaxZones \in Nat
  /\ \A p \in Presets : Cap[p] \in Nat /\ 0..Cap[p] \subseteq Rolls
  /\ Rolls \subseteq Nat
<1>1. /\ IsFiniteSet(Presets) /\ "month" \in Presets /\ Cap \in [Presets -> Nat]
      /\ Unset \notin Presets \cup Nat /\ {MaxZones, MaxCommits} \subseteq Nat
  BY SettingsAssumption
<1> DEFINE Caps == {Cap[p] : p \in Presets}
           longest == CHOOSE m \in Caps : \A p \in Presets : Cap[p] <= m
<1>2. \E m \in Caps : \A p \in Presets : Cap[p] <= m
  <2>1. PICK n \in Nat : ExistsBijection(1..n, Presets)
    BY <1>1, FS_NatBijection
  <2>2. PICK g \in Bijection(1..n, Presets) : TRUE
    BY <2>1 DEF ExistsBijection
  <2>3. g \in [1..n -> Presets] /\ \A p \in Presets : \E j \in 1..n : g[j] = p
    BY <2>2 DEF Bijection, Surjection, Injection
  <2> DEFINE f == [j \in 1..n |-> Cap[g[j]]]
  <2>4. f \in [1..n -> Nat] /\ n # 0
    BY <1>1, <2>3
  <2>5. PICK k \in 1..n : \A j \in 1..n : f[j] <= f[k]
    <3> HIDE DEF f
    <3>. QED  BY <2>4, LongestExists
  <2>6. f[k] \in Caps /\ \A p \in Presets : Cap[p] <= f[k]
    BY <2>3, <2>5
  <2>. QED  BY <2>6
<1>3. longest \in Caps /\ \A p \in Presets : Cap[p] <= longest
  BY <1>2
<1>4. longest \in Nat
  BY <1>1, <1>3
<1>5. Rolls = 0..longest
  BY DEF Rolls
<1> HIDE DEF longest
<1>. QED  BY <1>1, <1>3, <1>4, <1>5

LEMMA SettingsInitTyped == SettingsInit => SettingsTyped
<1> SUFFICES ASSUME SettingsInit PROVE SettingsTyped
  OBVIOUS
<1>1. 0..Cap["month"] \subseteq Rolls /\ 0 \in 0..MaxZones /\ "month" \in Presets
  BY CapsAre
<1>2. storedConfig \in Configs
  BY <1>1 DEF SettingsInit, Configs, Fits
<1>3. /\ config \in Configs \cup {Unset} /\ configLoad \in Configs \cup {Unset}
      /\ loadError \in BOOLEAN /\ selectedZone \in 1..MaxZones \cup {Unset} /\ drag \in BOOLEAN
  BY <1>2 DEF SettingsInit
<1>4. patches \subseteq ConfigPatches /\ replies \subseteq Configs /\ inProgress \in 0..EnoughPoints
  BY DEF SettingsInit, EnoughPoints
<1>. QED  BY <1>2, <1>3, <1>4 DEF SettingsTyped

LEMMA ShorterRoll ==
  ASSUME NEW r \in Rolls, NEW p \in Presets
  PROVE  Shorter(r, Cap[p]) \in Rolls /\ Shorter(r, Cap[p]) <= Cap[p]
<1>1. Cap[p] \in Nat /\ Cap[p] \in 0..Cap[p] /\ r \in Nat
  BY CapsAre
<1>2. Cap[p] \in Rolls
  BY <1>1, CapsAre
<1>. QED  BY <1>1, <1>2 DEF Shorter

LEMMA ConfigFields ==
  ASSUME NEW c \in Configs
  PROVE  /\ c.preset \in Presets /\ c.roll \in Rolls /\ c.zones \in 0..MaxZones
         /\ c.roll <= Cap[c.preset]
         /\ c = [preset |-> c.preset, roll |-> c.roll, zones |-> c.zones]
         /\ c # Unset => c \in Configs
  BY DEF Configs, Fits

\* The server's clamp comes after the tier, given or not.
LEMMA UpdatedFits ==
  ASSUME NEW c \in Configs, NEW patch \in ConfigPatches
  PROVE  Updated(c, patch) \in Configs
<1> DEFINE preset == Given(patch.preset, c.preset)
           roll == Given(patch.roll, c.roll)
           zones == Given(patch.zones, c.zones)
<1>1. preset \in Presets /\ roll \in Rolls /\ zones \in 0..MaxZones
  BY ConfigFields DEF Given, ConfigPatches
<1>2. Updated(c, patch) =
        [preset |-> preset, roll |-> Shorter(roll, Cap[preset]), zones |-> zones]
  BY DEF Updated
<1> HIDE DEF preset, roll, zones
<1>. QED  BY <1>1, <1>2, ShorterRoll DEF Configs, Fits

\* A patch of one field is sent.
LEMMA CommitTyped ==
  ASSUME SettingsTyped, NEW patch \in ConfigPatches, Commit(patch)
  PROVE  patches' \subseteq ConfigPatches /\ UNCHANGED <<storedConfig, replies>>
  BY DEF Commit, SettingsTyped

LEMMA OneField ==
  /\ Unchanged \in ConfigPatches
  /\ \A p \in Presets : [Unchanged EXCEPT !.preset = p] \in ConfigPatches
  /\ \A r \in Rolls : [Unchanged EXCEPT !.roll = r] \in ConfigPatches
  /\ \A n \in 0..MaxZones : [Unchanged EXCEPT !.zones = n] \in ConfigPatches
  BY DEF Unchanged, ConfigPatches

LEMMA ZonesAre == SettingsTyped => Zones \in 0..MaxZones
  BY CapsAre, ConfigFields DEF SettingsTyped, Zones

LEMMA FormStepKeeps == SettingsTyped /\ FormStep => SettingsTyped'
<1> SUFFICES ASSUME SettingsTyped, FormStep PROVE SettingsTyped'
  OBVIOUS
<1> USE DEF SettingsTyped
<1>1. ASSUME NEW preset \in Presets, SelectPreset(preset) PROVE SettingsTyped'
  <2>1. config \in Configs
    BY <1>1 DEF SelectPreset, Editable
  <2>2. config' = [preset |-> preset, roll |-> Shorter(config.roll, Cap[preset]),
                   zones |-> config.zones]
    <3>1. config' = [config EXCEPT !.preset = preset, !.roll = Shorter(config.roll, Cap[preset])]
      BY <1>1 DEF SelectPreset
    <3>2. config = [preset |-> config.preset, roll |-> config.roll, zones |-> config.zones]
      BY <2>1, ConfigFields
    <3>. QED  BY <3>1, <3>2
  <2>3. config' \in Configs
    BY <2>1, <2>2, ConfigFields, ShorterRoll DEF Configs, Fits
  <2>4. patches' \subseteq ConfigPatches /\ UNCHANGED <<storedConfig, replies>>
    BY <1>1, OneField, CommitTyped DEF SelectPreset
  <2>. QED  BY <1>1, <2>3, <2>4 DEF SelectPreset, editorVars
<1>2. ASSUME NEW roll \in Rolls, MoveRoll(roll) PROVE SettingsTyped'
  <2>1. config \in Configs /\ roll <= Cap[config.preset]
    BY <1>2 DEF MoveRoll, SliderShown, Editable
  <2>2. config' = [preset |-> config.preset, roll |-> roll, zones |-> config.zones]
    BY <1>2, <2>1, ConfigFields DEF MoveRoll, SliderShown
  <2>3. config' \in Configs
    BY <2>1, <2>2, ConfigFields DEF Configs, Fits
  <2>. QED  BY <1>2, <2>3 DEF MoveRoll, SliderShown, wireVars, editorVars
<1>3. CASE CommitRoll
  <2>1. config.roll \in Rolls
    BY <1>3, ConfigFields DEF CommitRoll, SliderShown, Editable
  <2>2. patches' \subseteq ConfigPatches /\ UNCHANGED <<storedConfig, replies>>
    BY <1>3, <2>1, OneField, CommitTyped DEF CommitRoll, SliderShown
  <2>. QED  BY <1>3, <2>2 DEF CommitRoll, SliderShown, sectionVars, editorVars
<1>4. ASSUME NEW panel \in Panels, CommitPanel(panel) PROVE SettingsTyped'
  <2>1. patches' \subseteq ConfigPatches /\ UNCHANGED <<storedConfig, replies>>
    BY <1>4, OneField, CommitTyped DEF CommitPanel
  <2>. QED  BY <1>4, <2>1 DEF CommitPanel, sectionVars, editorVars
<1>5. ASSUME NEW ok \in BOOLEAN, LoadSettled(ok) PROVE SettingsTyped'
  <2>1. /\ config' \in Configs \cup {Unset} /\ configLoad' = Unset
        /\ UNCHANGED <<storedConfig, patches, replies>>
    BY <1>5 DEF LoadSettled, wireVars
  <2>2. loadError' \in BOOLEAN
    BY <1>5 DEF LoadSettled
  <2>3. /\ inProgress' \in 0..EnoughPoints /\ drag' \in BOOLEAN
        /\ selectedZone' \in 1..MaxZones \cup {Unset}
    <3>1. CASE ok
      BY <1>5, <3>1 DEF LoadSettled, editorVars
    <3>2. CASE ~ok
      <4>1. inProgress' = 0 /\ selectedZone' = Unset /\ drag' = FALSE
        BY <1>5, <3>2, Zenon DEF LoadSettled
      <4>2. drag' \in BOOLEAN
        BY <4>1, Zenon
      <4>3. selectedZone' \in 1..MaxZones \cup {Unset}
        BY <4>1, Zenon
      <4>4. inProgress' \in 0..EnoughPoints
        BY <4>1, SMT DEF EnoughPoints
      <4>. QED  BY <4>2, <4>3, <4>4
    <3>. QED  BY <3>1, <3>2
  <2>. QED  BY <2>1, <2>2, <2>3
<1>6. CASE RetryConfig
  BY <1>6 DEF RetryConfig, wireVars, editorVars
<1>. QED  BY <1>1, <1>2, <1>3, <1>4, <1>5, <1>6 DEF FormStep

LEMMA EditorStepKeeps == SettingsTyped /\ EditorStep => SettingsTyped'
<1> SUFFICES ASSUME SettingsTyped, EditorStep PROVE SettingsTyped'
  OBVIOUS
<1> USE DEF SettingsTyped
<1>1. ASSUME NEW n \in 0..MaxZones, CommitZones(n)
      PROVE  patches' \subseteq ConfigPatches /\ UNCHANGED <<storedConfig, replies>>
  BY <1>1, OneField, CommitTyped DEF CommitZones
<1>2. Zones \in 0..MaxZones /\ MaxZones \in Nat
  BY ZonesAre, CapsAre
<1>3. CASE AddVertex
  BY <1>3 DEF AddVertex, sectionVars, wireVars, EnoughPoints
<1>4. CASE UndoLastVertex
  BY <1>4 DEF UndoLastVertex, Drawing, sectionVars, wireVars, EnoughPoints
<1>5. CASE CancelInProgress
  BY <1>5 DEF CancelInProgress, sectionVars, wireVars, EnoughPoints
<1>6. CASE FinishPolygon
  <2>1. Zones + 1 \in 0..MaxZones /\ CommitZones(Zones + 1)
    BY <1>2, <1>6 DEF FinishPolygon
  <2>. QED  BY <1>1, <1>6, <2>1 DEF FinishPolygon, sectionVars, EnoughPoints
<1>7. ASSUME NEW zone \in 1..MaxZones, SelectZone(zone) PROVE SettingsTyped'
  <2>1. selectedZone' \in 1..MaxZones \cup {Unset}
    BY <1>7 DEF SelectZone
  <2>. QED  BY <1>7, <2>1 DEF SelectZone, sectionVars, wireVars
<1>8. ASSUME NEW zone \in 1..MaxZones, DeleteZone(zone) PROVE SettingsTyped'
  <2> DEFINE left == IF zone <= Zones THEN Zones - 1 ELSE Zones
  <2>1. left \in 0..MaxZones /\ CommitZones(left)
    BY <1>2, <1>8 DEF DeleteZone
  <2>2. patches' \subseteq ConfigPatches /\ UNCHANGED <<storedConfig, replies>>
    <3> HIDE DEF left
    <3>. QED  BY <1>1, <2>1
  <2>3. selectedZone' \in 1..MaxZones \cup {Unset}
    BY <1>8 DEF DeleteZone
  <2>. QED  BY <1>8, <2>2, <2>3 DEF DeleteZone, sectionVars
<1>9. CASE StartDrag \/ DragEnds
  BY <1>9 DEF StartDrag, DragEnds, sectionVars, wireVars
<1>10. CASE DragMoves
  BY <1>1, <1>2, <1>10 DEF DragMoves, sectionVars, editorVars
<1>. QED
  BY <1>3, <1>4, <1>5, <1>6, <1>7, <1>8, <1>9, <1>10 DEF EditorStep

LEMMA SettingsStepKeeps == SettingsTyped /\ [SettingsNext]_settingsVars => SettingsTyped'
<1> SUFFICES ASSUME SettingsTyped, [SettingsNext]_settingsVars PROVE SettingsTyped'
  OBVIOUS
<1> USE DEF SettingsTyped
<1>1. ASSUME NEW patch \in patches, PatchServed(patch) PROVE SettingsTyped'
  <2>1. storedConfig' \in Configs
    BY <1>1, UpdatedFits DEF PatchServed
  <2>. QED  BY <1>1, <2>1 DEF PatchServed, sectionVars, editorVars
<1>2. ASSUME NEW reply \in replies, ReplyArrives(reply) PROVE SettingsTyped'
  BY <1>2 DEF ReplyArrives, editorVars
<1>3. CASE PatchLost
  BY <1>3 DEF PatchLost, sectionVars, editorVars
<1>4. CASE UNCHANGED settingsVars
  BY <1>4 DEF settingsVars, sectionVars, wireVars, editorVars
<1>. QED
  BY <1>1, <1>2, <1>3, <1>4, FormStepKeeps, EditorStepKeeps DEF SettingsNext

\* Every configuration, stored, shown or on its way, has a clip length within its tier
\* (DetectionConfigStore.update clamps, the sliders end at the cap), for any tiers and caps and
\* any number of patches and answers that overtake each other.
THEOREM ClipsFitTheirTier == SettingsSpec => []SettingsTypeOK
<1>. QED  BY SettingsInitTyped, SettingsStepKeeps, SettingsImplies, PTL DEF SettingsSpec

===============================================================================
