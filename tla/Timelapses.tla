------------------------------- MODULE Timelapses -------------------------------
(* The day videos: the settings section that builds, lists, plays and deletes them *)
(* (TimelapsesSection), and the server's one build per day behind it (control).    *)
(*                                                                                 *)
(* A build is asked for, then polled for until its status is final; the list is    *)
(* read when the section opens and when a build is ready, and a deletion takes its *)
(* row away before the server has agreed.                                          *)
EXTENDS Naturals, FiniteSets

CONSTANTS
  Reels,        \* the days, each with at most one video
  MaxDeletions, \* bound: deletions on their way
  NoReel        \* no day; nothing loaded; no loop; no dialog

ASSUME TimelapsesAssumption == NoReel \notin Reels /\ MaxDeletions \in Nat

VARIABLES
  reels,         \* the videos the server has
  builds,        \* _TIMELAPSE_STATUS: for each day "none", "building", "ready", "failed"
  reelList,      \* timelapses, or NoReel
  firstList,     \* the answer to the list asked for at the mount, or NoReel
  reelDate,      \* the day in the form, NoReel for an empty field
  buildLoop,     \* the run of onGenerateTimelapse: where it is; timelapseGenerating is
                 \* set for as long as there is one
  reelDialog,    \* the deletion a dialog asks about, with the list as it was then
  deletions,     \* deletions on their way
  manifests      \* for each row, whether its video's map was asked for, and came

reelServerVars == <<reels, builds>>
reelVars == <<reelServerVars, reelList, firstList, reelDate, buildLoop, reelDialog,
              deletions, manifests>>

Section == reelDialog = NoReel
Generating == buildLoop # NoReel

\* A row that goes takes its player along.
ReelsShown(list) ==
  /\ reelList' = list
  /\ manifests' = [r \in Reels |->
       IF list # NoReel /\ r \in list THEN manifests[r] ELSE "unasked"]

-------------------------------------------------------------------------------
(* The server *)

\* A day that is being built is not built twice.
TriggerServed ==
  /\ Generating /\ buildLoop.at = "trigger"
  /\ builds' = [builds EXCEPT ![buildLoop.date] = "building"]
  /\ buildLoop' = [buildLoop EXCEPT !.at = "polling"]
  /\ UNCHANGED <<reels, reelList, firstList, reelDate, reelDialog, deletions, manifests>>

\* _run_timelapse_build: the file takes its name when it is whole.
BuildEnds(date, made) ==
  /\ builds[date] = "building"
  /\ builds' = [builds EXCEPT ![date] = IF made THEN "ready" ELSE "failed"]
  /\ reels' = IF made THEN reels \cup {date} ELSE reels
  /\ UNCHANGED <<reelList, firstList, reelDate, buildLoop, reelDialog, deletions, manifests>>

\* The statuses are kept in memory only.
ServerRestarted ==
  /\ builds' = [r \in Reels |-> "none"] /\ builds' # builds
  /\ UNCHANGED <<reels, reelList, firstList, reelDate, buildLoop, reelDialog, deletions,
                 manifests>>

\* A day nobody is known to have built is ready when its file is there.
StatusOf(date) ==
  IF builds[date] # "none" THEN builds[date]
  ELSE IF date \in reels THEN "ready" ELSE "failed"

\* A file that is not there is answered 200 too.
DeleteServed(d) ==
  /\ d.at = "sent"
  /\ reels' = reels \ {d.date}
  /\ deletions' = (deletions \ {d}) \cup {[d EXCEPT !.at = "served"]}
  /\ UNCHANGED <<builds, reelList, firstList, reelDate, buildLoop, reelDialog, manifests>>

-------------------------------------------------------------------------------
(* The list *)

FirstListEnds ==
  /\ firstList # NoReel /\ firstList' = NoReel
  /\ ReelsShown(firstList) \/ ReelsShown({})    \* the latter when it fails
  /\ UNCHANGED <<reelServerVars, reelDate, buildLoop, reelDialog, deletions>>

\* Delete: the closure keeps the list of the moment it was pressed.
AskDeleteReel(date) ==
  /\ Section /\ reelList # NoReel /\ date \in reelList
  /\ reelDialog' = [date |-> date, snapshot |-> reelList]
  /\ UNCHANGED <<reelServerVars, reelList, firstList, reelDate, buildLoop, deletions,
                 manifests>>

DeleteReelConfirmed(yes) ==
  /\ ~Section /\ reelDialog' = NoReel
  /\ IF yes
       THEN LET d == [date |-> reelDialog.date, snapshot |-> reelDialog.snapshot, at |-> "sent"] IN
            /\ Cardinality(deletions) < MaxDeletions
            /\ d \notin deletions   \* bound: one of a kind
            /\ deletions' = deletions \cup {d}
            /\ ReelsShown(IF reelList = NoReel THEN NoReel ELSE reelList \ {d.date})
       ELSE UNCHANGED <<deletions, reelList, manifests>>
  /\ UNCHANGED <<reelServerVars, firstList, reelDate, buildLoop>>

DeletionAnswered(d) ==
  /\ d.at = "served" /\ deletions' = deletions \ {d}
  /\ UNCHANGED <<reelServerVars, reelList, firstList, reelDate, buildLoop, reelDialog,
                 manifests>>

\* The request or its answer is lost: the list of the press is put back, whatever has
\* been listed or deleted since.
DeletionLost(d) ==
  /\ deletions' = deletions \ {d}
  /\ ReelsShown(d.snapshot)
  /\ UNCHANGED <<reelServerVars, firstList, reelDate, buildLoop, reelDialog>>

\* onPlay: the map is asked for once in the life of a row, and its failure is final.
PlayReel(r) ==
  /\ Section /\ reelList # NoReel /\ r \in reelList
  /\ manifests[r] = "unasked" /\ manifests' = [manifests EXCEPT ![r] = "asked"]
  /\ UNCHANGED <<reelServerVars, reelList, firstList, reelDate, buildLoop, reelDialog,
                 deletions>>

ManifestEnds(r) ==
  /\ manifests[r] = "asked"
  /\ \/ manifests' = [manifests EXCEPT ![r] = "none"]
     \/ r \in reels /\ manifests' = [manifests EXCEPT ![r] = "clock"]
  /\ UNCHANGED <<reelServerVars, reelList, firstList, reelDate, buildLoop, reelDialog,
                 deletions>>

-------------------------------------------------------------------------------
(* Build video *)

\* Yesterday, Today, the field and its clearing.
PickDate(date) ==
  /\ Section /\ ~Generating /\ date # reelDate
  /\ reelDate' = date
  /\ UNCHANGED <<reelServerVars, reelList, firstList, buildLoop, reelDialog, deletions,
                 manifests>>

Generate ==
  /\ Section /\ ~Generating /\ reelDate # NoReel
  /\ buildLoop' = [at |-> "trigger", date |-> reelDate, read |-> {}]
  /\ UNCHANGED <<reelServerVars, reelList, firstList, reelDate, reelDialog, deletions,
                 manifests>>

\* Ready, the list is read, and the loop waits for it; failed, the loop is done. While
\* it builds, and when the status cannot be read, the loop goes on.
BuildPolled ==
  /\ Generating /\ buildLoop.at = "polling" /\ StatusOf(buildLoop.date) # "building"
  /\ buildLoop' = IF StatusOf(buildLoop.date) = "ready"
                    THEN [buildLoop EXCEPT !.at = "listing", !.read = reels] ELSE NoReel
  /\ UNCHANGED <<reelServerVars, reelList, firstList, reelDate, reelDialog, deletions,
                 manifests>>

\* The trigger fails, before or after the server acted on it; or the last of
\* _POLL_MAX_ATTEMPTS polls has passed; or the refresh failed, which says nothing.
LoopEndsWithoutList ==
  /\ Generating /\ buildLoop' = NoReel
  /\ \/ UNCHANGED builds
     \/ /\ buildLoop.at = "trigger"
        /\ builds' = [builds EXCEPT ![buildLoop.date] = "building"]
  /\ UNCHANGED <<reels, reelList, firstList, reelDate, reelDialog, deletions, manifests>>

ReadyListed ==
  /\ Generating /\ buildLoop.at = "listing"
  /\ buildLoop' = NoReel /\ ReelsShown(buildLoop.read)
  /\ UNCHANGED <<reelServerVars, firstList, reelDate, reelDialog, deletions>>

\* Another page and back: pollAbortRef and `cancelled` keep every old answer out.
ReopenTimelapses ==
  /\ Section
  /\ \/ UNCHANGED builds
     \/ /\ Generating /\ buildLoop.at = "trigger"
        /\ builds' = [builds EXCEPT ![buildLoop.date] = "building"]
  /\ reels' \in {reels \ gone : gone \in SUBSET {d.date : d \in {e \in deletions : e.at = "sent"}}}
  /\ firstList' = reels'
  /\ ReelsShown(NoReel)
  /\ reelDate' \in Reels /\ buildLoop' = NoReel /\ deletions' = {}
  /\ UNCHANGED reelDialog

-------------------------------------------------------------------------------
TimelapsesInit ==
  /\ reels = {} /\ builds = [r \in Reels |-> "none"]
  /\ reelList = NoReel /\ firstList = {} /\ reelDate \in Reels
  /\ buildLoop = NoReel /\ reelDialog = NoReel
  /\ deletions = {} /\ manifests = [r \in Reels |-> "unasked"]

TimelapsesNext ==
  \/ TriggerServed \/ ServerRestarted
  \/ \E date \in Reels, made \in BOOLEAN : BuildEnds(date, made)
  \/ FirstListEnds \/ Generate \/ BuildPolled \/ LoopEndsWithoutList \/ ReadyListed
  \/ ReopenTimelapses
  \/ \E date \in Reels : AskDeleteReel(date) \/ PlayReel(date) \/ ManifestEnds(date)
  \/ \E date \in Reels \cup {NoReel} : PickDate(date)
  \/ \E yes \in BOOLEAN : DeleteReelConfirmed(yes)
  \/ \E d \in deletions : DeleteServed(d) \/ DeletionAnswered(d) \/ DeletionLost(d)

TimelapsesSpec == TimelapsesInit /\ [][TimelapsesNext]_reelVars

-------------------------------------------------------------------------------
TimelapsesTypeOK ==
  LET Lists == SUBSET Reels IN
  /\ reels \in Lists
  /\ builds \in [Reels -> {"none", "building", "ready", "failed"}]
  /\ {reelList, firstList} \subseteq Lists \cup {NoReel}
  /\ reelDate \in Reels \cup {NoReel}
  /\ buildLoop \in
       [at : {"trigger", "polling", "listing"}, date : Reels, read : Lists] \cup {NoReel}
  /\ reelDialog \in [date : Reels, snapshot : Lists] \cup {NoReel}
  /\ deletions \subseteq [date : Reels, snapshot : Lists, at : {"sent", "served"}]
  /\ manifests \in [Reels -> {"unasked", "asked", "clock", "none"}]

===============================================================================
