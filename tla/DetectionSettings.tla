--------------------------- MODULE DetectionSettings ---------------------------
(* The detection settings of the client (DetectionSection) with the zone editor  *)
(* they contain (ZoneEditor), and the server's record of them.                   *)
(*                                                                               *)
(* Every control sends a patch of its own field and does not wait; the answer is *)
(* the whole record, and replaces the whole form, other controls' drafts         *)
(* included. Patches are served, and their answers arrive, in any order.         *)
EXTENDS Naturals, FiniteSets

CONSTANTS
  Presets,      \* the retention tiers
  Cap,          \* for each tier, the longest clip roll it allows
  MaxZones,     \* bound: zones drawn
  MaxCommits,   \* bound: patches and answers on their way at the same time
  Unset         \* a field a patch leaves out; a form not loaded; no zone

ASSUME SettingsAssumption ==
  /\ IsFiniteSet(Presets) /\ "month" \in Presets
  /\ Cap \in [Presets -> Nat] /\ Unset \notin Presets \cup Nat
  /\ {MaxZones, MaxCommits} \subseteq Nat

VARIABLES
  storedConfig,    \* the server's record
  config,          \* the form's, or Unset before the first answer
  loadError,       \* the page shows the error screen
  configLoad,      \* the GET that counts: the record it brings, or Unset
  patches,         \* PATCH requests on their way
  replies,         \* their answers on their way
  inProgress,      \* points drawn, EnoughPoints for that many or more
  selectedZone,    \* the zone being edited, by its position, or Unset
  drag             \* a vertex of the selected zone is being dragged

sectionVars == <<config, loadError, configLoad>>
wireVars == <<storedConfig, patches, replies>>
editorVars == <<inProgress, selectedZone, drag>>
settingsVars == <<sectionVars, wireVars, editorVars>>

EnoughPoints == 3

\* roll stands for the post-roll and for the pre-roll, each with its own caps: a tier may
\* leave no pre-roll at all.
Shorter(a, b) == IF a < b THEN a ELSE b
Rolls == 0..(CHOOSE m \in {Cap[p] : p \in Presets} : \A p \in Presets : Cap[p] <= m)

Unchanged == [preset |-> Unset, roll |-> Unset, zones |-> Unset]

-------------------------------------------------------------------------------
(* The wire *)

\* DetectionConfigStore.update: the tier first, then the rolls, given or not,
\* clamped to it.
Given(new, old) == IF new = Unset THEN old ELSE new

Updated(c, patch) ==
  LET preset == Given(patch.preset, c.preset) IN
  [preset |-> preset,
   roll   |-> Shorter(Given(patch.roll, c.roll), Cap[preset]),
   zones  |-> Given(patch.zones, c.zones)]

\* commitConfig
Commit(patch) ==
  /\ Cardinality(patches) + Cardinality(replies) < MaxCommits
  /\ patches' = patches \cup {patch}
  /\ UNCHANGED <<storedConfig, replies>>

PatchServed(patch) ==
  /\ patches' = patches \ {patch}
  /\ storedConfig' = Updated(storedConfig, patch)
  /\ replies' = replies \cup {storedConfig'}
  /\ UNCHANGED <<sectionVars, editorVars>>

\* Lost on the way there or back: a toast, and the form keeps what it shows.
PatchLost ==
  /\ \/ \E patch \in patches : patches' = patches \ {patch} /\ UNCHANGED replies
     \/ \E reply \in replies : replies' = replies \ {reply} /\ UNCHANGED patches
  /\ UNCHANGED <<storedConfig, sectionVars, editorVars>>

ReplyArrives(reply) ==
  /\ replies' = replies \ {reply} /\ config' = reply
  /\ UNCHANGED <<storedConfig, patches, loadError, configLoad, editorVars>>

\* getDetectionConfig: a failure replaces the page, and with it the zone editor.
LoadSettled(ok) ==
  /\ configLoad # Unset /\ configLoad' = Unset
  /\ config' = IF ok THEN configLoad ELSE config
  /\ loadError' = ~ok
  /\ IF ok THEN UNCHANGED editorVars
           ELSE inProgress' = 0 /\ selectedZone' = Unset /\ drag' = FALSE
  /\ UNCHANGED wireVars

RetryConfig ==
  /\ loadError /\ loadError' = FALSE /\ configLoad' = storedConfig
  /\ UNCHANGED <<config, wireVars, editorVars>>

-------------------------------------------------------------------------------
(* The form. Its controls wait for the first record; the classes and the zone    *)
(* editor do not: they show, and patch, an empty list until then.                *)

Editable == ~loadError /\ config # Unset

\* A tier is shown at once, with the rolls it allows.
SelectPreset(preset) ==
  /\ Editable
  /\ config' = [config EXCEPT !.preset = preset, !.roll = Shorter(@, Cap[preset])]
  /\ Commit([Unchanged EXCEPT !.preset = preset])
  /\ UNCHANGED <<loadError, configLoad, editorVars>>

\* The sliders of the rolls end at the shown tier's cap; a cap of 0 has no slider. Moving
\* one is a draft, and letting go commits what it shows.
SliderShown == Editable /\ Cap[config.preset] > 0

MoveRoll(roll) ==
  /\ SliderShown /\ roll <= Cap[config.preset]
  /\ config' = [config EXCEPT !.roll = roll]
  /\ UNCHANGED <<loadError, configLoad, wireVars, editorVars>>

CommitRoll ==
  /\ SliderShown
  /\ Commit([Unchanged EXCEPT !.roll = config.roll])
  /\ UNCHANGED <<sectionVars, editorVars>>

\* The camera's name, sensitivity, quiet time; one clip per visit with its two
\* sliders; the schedule; the classes: nothing else bounds or depends on them.
Panels == {"name", "watching", "continuous", "classes", "schedule"}
PanelOffered(panel) == ~loadError /\ (panel = "classes" \/ config # Unset)

CommitPanel(panel) ==
  /\ PanelOffered(panel)
  /\ Commit(Unchanged)
  /\ UNCHANGED <<sectionVars, editorVars>>

-------------------------------------------------------------------------------
(* ZoneEditor: it holds no zones of its own, and what it commits is computed from *)
(* the ones it was last given.                                                    *)

Zones == IF config = Unset THEN 0 ELSE config.zones
Drawing == inProgress > 0
CommitZones(n) == ~loadError /\ Commit([Unchanged EXCEPT !.zones = n])

\* A tap on empty space, or the keyboard form.
AddVertex ==
  /\ ~loadError /\ ~drag
  /\ inProgress' = IF inProgress < EnoughPoints THEN inProgress + 1 ELSE inProgress
  /\ selectedZone' = Unset
  /\ UNCHANGED <<sectionVars, wireVars, drag>>

UndoLastVertex ==
  /\ Drawing
  /\ inProgress' \in IF inProgress = EnoughPoints THEN {inProgress, inProgress - 1}
                                                  ELSE {inProgress - 1}
  /\ UNCHANGED <<sectionVars, wireVars, selectedZone, drag>>

CancelInProgress ==
  /\ Drawing /\ inProgress' = 0
  /\ UNCHANGED <<sectionVars, wireVars, selectedZone, drag>>

FinishPolygon ==
  /\ inProgress = EnoughPoints /\ Zones < MaxZones
  /\ inProgress' = 0
  /\ CommitZones(Zones + 1)
  /\ UNCHANGED <<sectionVars, selectedZone, drag>>

\* A polygon of the frame, or its row, which also deselects.
SelectZone(zone) ==
  /\ ~loadError /\ ~Drawing /\ zone <= Zones
  /\ selectedZone' \in IF selectedZone = zone THEN {zone, Unset} ELSE {zone}
  /\ UNCHANGED <<sectionVars, wireVars, inProgress, drag>>

\* "Delete this zone" or a row's cross. A selected zone behind it keeps its old
\* position.
DeleteZone(zone) ==
  /\ zone <= Zones \/ (zone = selectedZone /\ ~Drawing)
  /\ CommitZones(IF zone <= Zones THEN Zones - 1 ELSE Zones)
  /\ selectedZone' = IF selectedZone = zone THEN Unset ELSE selectedZone
  /\ UNCHANGED <<sectionVars, inProgress, drag>>

\* The vertices of the selected zone can be dragged while nothing is drawn. (So can
\* the points of a drawing, which changes nothing but where they are.)
StartDrag ==
  /\ ~drag /\ ~Drawing /\ selectedZone # Unset /\ selectedZone <= Zones
  /\ drag' = TRUE
  /\ UNCHANGED <<sectionVars, wireVars, inProgress, selectedZone>>

\* Every move of a committed vertex is a patch.
DragMoves ==
  /\ drag /\ CommitZones(Zones)
  /\ UNCHANGED <<sectionVars, editorVars>>

DragEnds ==
  /\ drag /\ drag' = FALSE
  /\ UNCHANGED <<sectionVars, wireVars, inProgress, selectedZone>>

-------------------------------------------------------------------------------
SettingsInit ==
  /\ storedConfig \in [preset : {"month"}, roll : 0..Cap["month"], zones : {0}]
  /\ config = Unset /\ loadError = FALSE /\ configLoad = storedConfig
  /\ patches = {} /\ replies = {}
  /\ inProgress = 0 /\ selectedZone = Unset /\ drag = FALSE

FormStep ==
  \/ \E preset \in Presets : SelectPreset(preset)
  \/ \E roll \in Rolls : MoveRoll(roll)
  \/ CommitRoll
  \/ \E panel \in Panels : CommitPanel(panel)
  \/ \E ok \in BOOLEAN : LoadSettled(ok)
  \/ RetryConfig

EditorStep ==
  \/ AddVertex \/ UndoLastVertex \/ CancelInProgress \/ FinishPolygon
  \/ \E zone \in 1..MaxZones : SelectZone(zone) \/ DeleteZone(zone)
  \/ StartDrag \/ DragMoves \/ DragEnds

SettingsNext ==
  \/ FormStep \/ EditorStep
  \/ \E patch \in patches : PatchServed(patch)
  \/ \E reply \in replies : ReplyArrives(reply)
  \/ PatchLost

SettingsSpec == SettingsInit /\ [][SettingsNext]_settingsVars

-------------------------------------------------------------------------------
\* Every configuration, stored, shown or on its way, has a clip length within its tier,
\* although tier and length are patched by controls that do not wait for each other.
SettingsTypeOK ==
  LET Records == {c \in [preset : Presets, roll : Rolls, zones : 0..MaxZones] :
                    c.roll <= Cap[c.preset]}
  IN
  /\ storedConfig \in Records /\ {config, configLoad} \subseteq Records \cup {Unset}
  /\ loadError \in BOOLEAN
  /\ patches \subseteq [preset : Presets \cup {Unset}, roll : Rolls \cup {Unset},
                        zones : 0..MaxZones \cup {Unset}]
  /\ replies \subseteq Records
  /\ inProgress \in 0..EnoughPoints
  /\ selectedZone \in 1..MaxZones \cup {Unset} /\ drag \in BOOLEAN
================================================================================
