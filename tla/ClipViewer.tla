------------------------------ MODULE ClipViewer ------------------------------
(* The clip viewer of the client (ClipModal, VideoPlayer): which event it shows, *)
(* whether that event has a video, and what it says when there is none.          *)
(*                                                                               *)
(* A clip file appears when its visit is finalized and goes when space is needed *)
(* or the event is deleted. The viewer learns of it from probes and from the     *)
(* player's own error; both may speak of an event the viewer has left. A render  *)
(* runs the effects whose dependencies changed before anything else happens.     *)
EXTENDS Naturals

CONSTANTS
  Clips,       \* events the viewer can show, one after the other
  HasOwnClip,  \* those whose record names a clip of their own
  NoClip       \* no event

ASSUME ClipAssumption == HasOwnClip \subseteq Clips /\ NoClip \notin Clips

VARIABLES
  viewed,          \* event
  onDisk,          \* the server's clip files
  aged,            \* events past CLIP_STILL_WRITING_WINDOW_S
  missingFor,      \* missingClipUrl
  erroredFor,      \* erroredClipUrl
  readyFor,        \* readyClipUrl
  element,         \* the <video>: "none", "loading", "loaded"
  heard,           \* its readiness listeners are on that element
  firstProbes,     \* probes sent when an event was opened; only the viewed one's counts
  polling,         \* the event the interval probes, or NoClip
  pollProbes,      \* probes the interval sent
  tracks,          \* the event whose tracks are painted, or NoClip
  told             \* history: events a probe or the player found without video

serverVars == <<onDisk, aged>>
verdictVars == <<missingFor, erroredFor, told>>
playerVars == <<readyFor, element, heard, tracks>>
probeVars == <<firstProbes, polling, pollProbes>>
clipVars == <<viewed, serverVars, verdictVars, playerVars, probeVars>>

\* clipMissing, clipGone: the flags name the event they were set for.
Missing(e, m) == e \notin HasOwnClip \/ m = e
Gone(e, m, err) == Missing(e, m) \/ err = e
ClipGone == Gone(viewed, missingFor, erroredFor)

-------------------------------------------------------------------------------
(* Effects of a render that shows e with the flags m and err *)

\* The interval runs for an event that is gone, has a clip of its own and is young;
\* its effect depends on the event and on whether the clip is gone.
PollingFor(e, m, err) ==
  IF Gone(e, m, err) /\ e \in HasOwnClip \ aged THEN e ELSE NoClip

\* Mutant of Poll: the interval's effect does not depend on the event.
PollForWhoeverWas(e, m, err) ==
  polling' = IF Gone(e, m, err) # ClipGone THEN PollingFor(e, m, err) ELSE polling

Poll(e, m, err) ==
  polling' = IF e # viewed \/ Gone(e, m, err) # ClipGone
               THEN PollingFor(e, m, err) ELSE polling

\* The player is mounted unless the clip is gone, a new one for each event. The
\* listeners are attached by an effect that depends on the event alone.
Player(e, m, err) ==
  LET mounted == ~Gone(e, m, err) IN
  /\ element' = CASE ~mounted -> "none"
                  [] mounted /\ (e # viewed \/ element = "none") -> "loading"
                  [] OTHER -> element
  /\ heard' = IF e # viewed THEN mounted ELSE heard /\ mounted

\* All of them, with the render's flags.
Render(e, m, err) ==
  /\ missingFor' = m /\ erroredFor' = err
  /\ Poll(e, m, err) /\ Player(e, m, err)

\* setEvent: a swipe, a row of "More from tonight", or another event of the page
\* below. A fresh first probe is sent, the neighbours are asked for anew.
Show(e) ==
  /\ viewed' = e
  /\ Render(e, missingFor, erroredFor)
  /\ firstProbes' = IF e \in HasOwnClip THEN firstProbes \cup {e} ELSE firstProbes
  /\ UNCHANGED <<serverVars, told, readyFor, tracks, pollProbes>>

-------------------------------------------------------------------------------
(* Probes and the player *)

\* The answer for an event the viewer has left is dropped; a file that is there
\* changes nothing.
ProbeAnswered(e) ==
  /\ e \in firstProbes /\ firstProbes' = firstProbes \ {e}
  /\ told' = IF e \in onDisk THEN told ELSE told \cup {e}
  /\ IF e = viewed /\ e \notin onDisk
       THEN Render(viewed, e, erroredFor)
       ELSE UNCHANGED <<missingFor, erroredFor, polling, element, heard>>
  /\ UNCHANGED <<viewed, serverVars, readyFor, tracks, pollProbes>>

ProbeFails(e) ==
  /\ e \in firstProbes /\ firstProbes' = firstProbes \ {e}
  /\ UNCHANGED <<viewed, serverVars, verdictVars, playerVars, polling, pollProbes>>

\* The interval ends itself once the event is too old.
PollTick ==
  /\ polling # NoClip
  /\ IF polling \in aged
       THEN polling' = NoClip /\ UNCHANGED pollProbes
       ELSE pollProbes' = pollProbes \cup {polling} /\ UNCHANGED polling
  /\ UNCHANGED <<viewed, serverVars, verdictVars, playerVars, firstProbes>>

\* A file that is there by now clears both flags, and the player comes back.
PollAnswered(e) ==
  /\ e \in pollProbes /\ pollProbes' = pollProbes \ {e}
  /\ IF e = viewed /\ ClipGone /\ e \in onDisk
       THEN Render(viewed, NoClip, NoClip)
       ELSE UNCHANGED <<missingFor, erroredFor, polling, element, heard>>
  /\ UNCHANGED <<viewed, serverVars, told, readyFor, tracks, firstProbes>>

\* loadeddata or canplay: the overlay goes if somebody listens.
PlayerLoads ==
  /\ element = "loading" /\ viewed \in onDisk
  /\ element' = "loaded"
  /\ readyFor' = IF heard THEN viewed ELSE readyFor
  /\ UNCHANGED <<viewed, serverVars, verdictVars, heard, tracks, probeVars>>

\* A 404, a broken file, a lost connection.
PlayerErrors ==
  /\ element # "none"
  /\ told' = told \cup {viewed}
  /\ Render(viewed, missingFor, viewed)
  /\ UNCHANGED <<viewed, serverVars, readyFor, tracks, firstProbes, pollProbes>>

-------------------------------------------------------------------------------
(* What else the viewer loads and does *)

\* The tracks of the event on view; those of the one before stay until then.
TracksAnswered(ok) ==
  /\ erroredFor # viewed
  /\ tracks' = IF ok THEN viewed ELSE NoClip
  /\ UNCHANGED <<viewed, serverVars, verdictVars, readyFor, element, heard,
                 probeVars>>

\* The boxes painted over the video: the stored track near the playhead, or the
\* event's own boxes when it has none.
BoxesShown(visible) ==
  CASE ~visible \/ element = "none" -> "none"
    [] visible /\ element # "none" /\ tracks = NoClip -> "event"
    [] OTHER -> "tracks"

\* What the search around the event's time may answer, without the event itself.
Neighbours == Clips \ {viewed}

\* A horizontal swipe far enough, on a pane that is not zoomed; with no neighbour on
\* that side it springs back. Two fingers zoom, one pans a zoomed pane.
SwipeTo(e) == e \in Neighbours /\ Show(e)

\* A row of "More from tonight".
OpenRow(e) == e \in Neighbours /\ Show(e)

\* The viewer is mounted anew for e: nothing is left of the one before.
Mounted(e) ==
  /\ viewed' = e
  /\ missingFor' = NoClip /\ erroredFor' = NoClip /\ readyFor' = NoClip
  /\ element' = IF e \in HasOwnClip THEN "loading" ELSE "none"
  /\ heard' = (e \in HasOwnClip)
  /\ firstProbes' = {e} \cap HasOwnClip
  /\ polling' = NoClip /\ pollProbes' = {} /\ tracks' = NoClip
  /\ told' = {}

\* onDelete, confirmed, for d, which was on view then: success closes the viewer,
\* whatever it shows by now (a failure changes nothing); it is opened again for e.
DeleteSucceeds(d, e) ==
  /\ onDisk' = onDisk \ {d}
  /\ Mounted(e)
  /\ UNCHANGED aged

Reopened(e) == Mounted(e) /\ UNCHANGED serverVars

-------------------------------------------------------------------------------
(* The server and the clock *)

ClipFinalized(e) ==
  /\ e \in HasOwnClip \ onDisk /\ onDisk' = onDisk \cup {e}
  /\ UNCHANGED <<viewed, aged, verdictVars, playerVars, probeVars>>

ClipPruned(e) ==
  /\ e \in onDisk /\ onDisk' = onDisk \ {e}
  /\ UNCHANGED <<viewed, aged, verdictVars, playerVars, probeVars>>

WindowPasses(e) ==
  /\ e \notin aged /\ aged' = aged \cup {e}
  /\ UNCHANGED <<viewed, onDisk, verdictVars, playerVars, probeVars>>

\* What the pane says; its clock ticks every 5 s and lags behind the window.
BodyText ==
  CASE ~ClipGone -> IF readyFor = viewed THEN "player" ELSE "player, loading"
    [] ClipGone /\ viewed \notin HasOwnClip -> "in a nearby event"
    [] ClipGone /\ viewed \in HasOwnClip \ aged -> "still recording, comes by itself"
    [] OTHER -> "no video was saved"

-------------------------------------------------------------------------------
ClipInit ==
  /\ onDisk \in SUBSET HasOwnClip /\ aged = {}
  /\ viewed \in Clips
  /\ missingFor = NoClip /\ erroredFor = NoClip /\ readyFor = NoClip
  /\ element = IF viewed \in HasOwnClip THEN "loading" ELSE "none"
  /\ heard = (viewed \in HasOwnClip)
  /\ firstProbes = {viewed} \cap HasOwnClip
  /\ polling = NoClip /\ pollProbes = {} /\ tracks = NoClip
  /\ told = {}

ClipNext ==
  \/ \E e \in Clips :
       \/ SwipeTo(e) \/ OpenRow(e) \/ Reopened(e)
       \/ ProbeAnswered(e) \/ ProbeFails(e) \/ PollAnswered(e)
       \/ \E d \in Clips : DeleteSucceeds(d, e)
       \/ ClipFinalized(e) \/ ClipPruned(e) \/ WindowPasses(e)
  \/ PollTick \/ PlayerLoads \/ PlayerErrors
  \/ \E ok \in BOOLEAN : TracksAnswered(ok)

ClipSpec == ClipInit /\ [][ClipNext]_clipVars

-------------------------------------------------------------------------------
ClipTypeOK ==
  /\ viewed \in Clips /\ told \subseteq Clips
  /\ onDisk \subseteq HasOwnClip /\ aged \subseteq Clips
  /\ {missingFor, erroredFor, readyFor, polling, tracks} \subseteq Clips \cup {NoClip}
  /\ element \in {"none", "loading", "loaded"} /\ heard \in BOOLEAN
  /\ firstProbes \subseteq HasOwnClip /\ pollProbes \subseteq HasOwnClip

\* What the viewer says of a missing video is about this event and is kept: it calls
\* a clip gone only after a probe or the player said so of that very event, whatever
\* was in flight for the events before, and while it promises that the video will
\* appear by itself it is asking for it (until the window is over).
PromiseIsKept ==
  viewed \in HasOwnClip /\ ClipGone =>
    /\ viewed \in told
    /\ viewed \notin aged => polling = viewed

===============================================================================
