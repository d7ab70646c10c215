------------------------------ MODULE Maintenance ------------------------------
(* The owner's maintenance section of the settings (DangerZone): restart, back up, *)
(* install updates, and the restore panel with its list of backups; and what the   *)
(* server's routes (control) make of each request and answer.                      *)
(*                                                                                 *)
(* A job waits for a confirmation and for nothing else: several may be under way,  *)
(* and the lists of backups asked for meanwhile may arrive at any moment.          *)
EXTENDS Naturals, FiniteSets

CONSTANTS
  MaxBackups,      \* bound: backups made
  MaxJobs,         \* bound: jobs under way
  MaxBackupLists,  \* bound: lists of backups on their way
  Shut             \* the panel is closed; there is no list, no dialog

ASSUME MaintenanceAssumption ==
  {MaxBackups, MaxJobs, MaxBackupLists} \subseteq Nat /\ Shut \notin Nat

\* A backup is its age: the newest has the highest number. 0 is none.
Backups == 1..MaxBackups
JobKinds == {"reboot", "backup", "update", "restore"}

VARIABLES
  backups,            \* how many the server has
  backupLists,        \* answers to listBackups on their way: how many they name
  backupList,         \* the panel's list: the backups up to this one, or Shut
  restorePath,        \* the selection; 0 for none yet; Shut when the panel is closed
  restoreSubmitting,
  asking,             \* the job whose confirmation covers the page
  restoreNamed,       \* history: what the dialog of the restore under way named, or 0
  jobs,               \* confirmed jobs, with the status of their answer once there is one
  lastToast           \* history: what the last toast was: green, of a job that was "done" or
                      \* "not done"; a denial ("nothing changed") of a job that was started,
                      \* "denied"; or one that told the truth of a failure, "none"

restorePanelVars == <<backupLists, backupList, restorePath, restoreSubmitting>>
maintenanceVars == <<backups, restorePanelVars, asking, restoreNamed, jobs,
                     lastToast>>

Uncovered == asking = Shut

-------------------------------------------------------------------------------
(* The restore panel *)

\* listBackups is not cancelled, whatever becomes of the panel.
OpenRestore ==
  /\ Uncovered /\ restorePath = Shut
  /\ Cardinality(backupLists) < MaxBackupLists
  /\ restorePath' = 0 /\ backupLists' = backupLists \cup {backups}
  /\ UNCHANGED <<backups, backupList, restoreSubmitting, asking, restoreNamed,
                 jobs, lastToast>>

CancelRestore ==
  /\ Uncovered /\ restorePath # Shut /\ ~restoreSubmitting
  /\ restorePath' = Shut /\ backupList' = Shut
  /\ UNCHANGED <<backups, backupLists, restoreSubmitting, asking, restoreNamed,
                 jobs, lastToast>>

SelectBackup(b) ==
  /\ Uncovered /\ restorePath # Shut /\ ~restoreSubmitting
  /\ backupList # Shut /\ b \in 1..backupList \ {restorePath}
  /\ restorePath' = b
  /\ UNCHANGED <<backups, backupLists, backupList, restoreSubmitting, asking,
                 restoreNamed, jobs, lastToast>>

\* The newest is selected, over any choice made, and the panel opened if it was closed.
BackupsListed(n) ==
  /\ n \in backupLists /\ backupLists' = backupLists \ {n}
  /\ backupList' = n
  /\ restorePath' = IF n > 0 THEN n ELSE restorePath
  /\ UNCHANGED <<backups, restoreSubmitting, asking, restoreNamed, jobs,
                 lastToast>>

BackupsNotListed(n) ==
  /\ n \in backupLists /\ backupLists' = backupLists \ {n}
  /\ backupList' = 0
  /\ UNCHANGED <<backups, restorePath, restoreSubmitting, asking, restoreNamed,
                 jobs, lastToast>>

-------------------------------------------------------------------------------
(* Jobs: pressed, confirmed, served, answered. *)

\* Only the restore has a button that its own job disables.
AskJob(kind) ==
  /\ Uncovered
  /\ kind = "restore" =>
       restorePath \notin {Shut, 0} /\ backupList \notin {Shut, 0} /\ ~restoreSubmitting
  /\ asking' = [kind |-> kind, backup |-> IF kind = "restore" THEN restorePath ELSE 0]
  /\ UNCHANGED <<backups, restorePanelVars, restoreNamed, jobs, lastToast>>

JobSent(kind, b) ==
  /\ Cardinality(jobs) < MaxJobs
  /\ jobs' = jobs \cup {[kind |-> kind, backup |-> b, status |-> "sent", here |-> TRUE]}
  /\ Cardinality(jobs') > Cardinality(jobs)   \* bound: one of a kind, and of a backup

\* Mutant of JobConfirmed: the selection is read after the dialog, not before it.
JobConfirmedAsSelected(yes) ==
  /\ ~Uncovered /\ asking' = Shut
  /\ IF yes
       THEN /\ JobSent(asking.kind, IF asking.kind = "restore" THEN restorePath ELSE 0)
            /\ restoreSubmitting' = (restoreSubmitting \/ asking.kind = "restore")
            /\ restoreNamed' = IF asking.kind = "restore" THEN asking.backup ELSE restoreNamed
       ELSE UNCHANGED <<jobs, restoreSubmitting, restoreNamed>>
  /\ UNCHANGED <<backups, backupLists, backupList, restorePath, lastToast>>

\* The dialog's answer: onRestoreSubmit goes on with the path it had read before it.
JobConfirmed(yes) ==
  /\ ~Uncovered /\ asking' = Shut
  /\ IF yes
       THEN /\ JobSent(asking.kind, asking.backup)
            /\ restoreSubmitting' = (restoreSubmitting \/ asking.kind = "restore")
            /\ restoreNamed' = IF asking.kind = "restore" THEN asking.backup ELSE restoreNamed
       ELSE UNCHANGED <<jobs, restoreSubmitting, restoreNamed>>
  /\ UNCHANGED <<backups, backupLists, backupList, restorePath, lastToast>>

Answered(job, status) == jobs' = (jobs \ {job}) \cup {[job EXCEPT !.status = status]}

\* What did the work. Every failure the orchestrators know is answered with 200 too:
\* a blocked backup or restore, an update the preflight rejects or that is rolled back.
StatusesOfSuccess ==
  [reboot |-> "queued", backup |-> "published", update |-> "applied", restore |-> "restored"]
StatusesOfFailure ==
  [reboot |-> {}, backup |-> {"not_backed_up"}, restore |-> {"not_restored"},
   update |-> {"rejected", "rolled_back", "no_manifest"}]

JobServed(job) ==
  /\ job.status = "sent"
  /\ \/ /\ job.kind = "backup" => backups < MaxBackups   \* bound
        /\ Answered(job, StatusesOfSuccess[job.kind])
        /\ backups' = IF job.kind = "backup" THEN backups + 1 ELSE backups
     \/ \E status \in StatusesOfFailure[job.kind] :
          Answered(job, status) /\ UNCHANGED backups
  /\ UNCHANGED <<restorePanelVars, asking, restoreNamed, lastToast>>

\* updateToastFor, restoreToastFor, and the tests of `note`, which the answer to a reboot
\* always has (_recover_note): a status they do not name is announced as a success.
NamedByToast == {"rolled_back", "no_manifest"}
ToastFor(job) ==
  CASE job.status \in NamedByToast -> "none"
    [] job.status = "queued" -> "denied"
    [] job.status = StatusesOfSuccess[job.kind] -> "done"
    [] OTHER -> "not done"

\* The toast outlives the section; its state does not.
JobEnds(job, rest) ==
  /\ jobs' = jobs \ {job}
  /\ IF job.here /\ job.kind = "restore"
       THEN restoreSubmitting' = FALSE /\ restoreNamed' = 0
       ELSE UNCHANGED <<restoreSubmitting, restoreNamed>>
  /\ rest
  /\ UNCHANGED <<backups, backupLists, backupList, asking>>

JobAnswered(job) ==
  /\ job.status # "sent"
  /\ JobEnds(job,
       /\ lastToast' = ToastFor(job)
       /\ restorePath' = IF job.here /\ job.kind = "restore" THEN Shut ELSE restorePath)

\* The request is refused or its answer lost; the panel stays for another try.
JobLost(job) ==
  JobEnds(job, lastToast' = "none" /\ UNCHANGED restorePath)

\* Another page and back: what is under way belongs to a section that is gone.
LeaveSection ==
  /\ Uncovered
  /\ backupLists' = {} /\ backupList' = Shut /\ restorePath' = Shut
  /\ restoreSubmitting' = FALSE /\ restoreNamed' = 0
  /\ jobs' = {[job EXCEPT !.here = FALSE] : job \in jobs}
  /\ UNCHANGED <<backups, asking, lastToast>>

-------------------------------------------------------------------------------
MaintenanceInit ==
  /\ backups = 0
  /\ backupLists = {} /\ backupList = Shut /\ restorePath = Shut
  /\ restoreSubmitting = FALSE
  /\ asking = Shut /\ restoreNamed = 0 /\ jobs = {} /\ lastToast = "none"

MaintenanceNext ==
  \/ OpenRestore \/ CancelRestore \/ LeaveSection
  \/ \E b \in Backups : SelectBackup(b)
  \/ \E n \in backupLists : BackupsListed(n) \/ BackupsNotListed(n)
  \/ \E kind \in JobKinds : AskJob(kind)
  \/ \E yes \in BOOLEAN : JobConfirmed(yes)
  \/ \E job \in jobs : JobServed(job) \/ JobAnswered(job) \/ JobLost(job)

MaintenanceSpec == MaintenanceInit /\ [][MaintenanceNext]_maintenanceVars

-------------------------------------------------------------------------------
Statuses == {"sent"} \cup UNION {{StatusesOfSuccess[k]} \cup StatusesOfFailure[k] : k \in JobKinds}
Jobs == [kind : JobKinds, backup : 0..MaxBackups, status : Statuses, here : BOOLEAN]

MaintenanceTypeOK ==
  /\ {backups, restoreNamed} \subseteq 0..MaxBackups
  /\ backupLists \subseteq 0..MaxBackups
  /\ {backupList, restorePath} \subseteq 0..MaxBackups \cup {Shut}
  /\ restoreSubmitting \in BOOLEAN /\ jobs \subseteq Jobs
  /\ asking \in [kind : JobKinds, backup : 0..MaxBackups] \cup {Shut}
  /\ lastToast \in {"none", "done", "not done", "denied"}

\* While the section stays open there is at most one restore under way, it is of the
\* backup its dialog named, though a late list may change the selection behind the
\* dialog, and the panel is locked for as long as it lasts and no longer.
RestoresWhatWasNamed ==
  LET restores == {job \in jobs : job.here /\ job.kind = "restore"} IN
  /\ \A job \in restores : job.backup = restoreNamed
  /\ Cardinality(restores) <= 1
  /\ restoreSubmitting <=> restores # {}

\* The claim of DangerZone's header (the toast is honest, no "fake green-checkmark
\* success") and of api.ts ("the UI reports actual success"): a green toast says that
\* the server did what was asked.
SuccessIsReal == lastToast # "not done"

===============================================================================
