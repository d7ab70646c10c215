------------------------------ MODULE FacePhotos ------------------------------
(* The owner sorts the photos the camera took of faces: the review queue (Review), *)
(* the list of folders and one folder's gallery (Training), each in its turn on    *)
(* screen, and the server's folders behind them (routes/face, training_admin).     *)
(*                                                                                 *)
(* A press sends a request and the page goes on; requests are served, and their    *)
(* answers and those of the listings arrive, in any order.                         *)
EXTENDS Naturals, FiniteSets

CONSTANTS
  Photos,      \* photos the recogniser was not sure of
  Persons,     \* the names a photo can be filed under, "__unknown__" apart
  Guess,       \* for each photo, the name it predicted, or NoPhoto for none
  MaxPending,  \* bound: moves and deletions on their way
  MaxListings, \* bound: listings on their way
  NoPhoto      \* no photo, no folder, no list yet

Folders == Persons \cup {"__unknown__"}

ASSUME PhotosAssumption ==
  /\ Guess \in [Photos -> Persons \cup {NoPhoto}] /\ NoPhoto \notin Photos \cup Folders
  /\ "deleted" \notin Folders /\ {MaxPending, MaxListings} \subseteq Nat

VARIABLES
  filed,           \* the server's folder of each photo, or "deleted"
  desk,            \* the page on screen: "review", "index", "gallery"
  listings,        \* listings on their way: what they are for and what they read
  photoRequests,   \* moves and deletions on their way
  photoDialog,     \* what the confirmation on screen would delete
  queue,           \* Review: items
  busyKey,         \* Review: the item whose card is busy
  folders,         \* Training: dirs, or the gallery's allDirs
  folder,          \* Training: activeName
  files,           \* the gallery's photos
  openMenu, typing,    \* the photo whose panel is open; its "New person" input shows
  actionInflight,
  listingFailed    \* the page shows the error screen

serverPhotoVars == <<filed, photoRequests>>
reviewVars == <<queue, busyKey>>
trainingVars == <<folders, folder, files, openMenu, typing, actionInflight>>
photoVars == <<serverPhotoVars, desk, listings, photoDialog, reviewVars, trainingVars,
               listingFailed>>

Items == [photo : Photos, dir : Folders]
ItemsIn(read) == {item \in Items : read[item.photo] = item.dir}
FoldersIn(read) == {dir \in Folders : \E photo \in Photos : read[photo] = dir}

\* The panel, the cards and the rows, unless the confirmation covers them.
AtDesk(page) == desk = page /\ photoDialog = NoPhoto

-------------------------------------------------------------------------------
(* Listings, read when they are asked for, and perhaps stale when they arrive. The  *)
(* review queue is every photo the recogniser was unsure of, wherever it is filed:  *)
(* a move takes the sidecar with the confidence along.                              *)

ListingBegun(for, rest) == listings' = rest \cup {[for |-> for, read |-> filed]}

\* A refill replaces the queue, whatever was settled since it was read.
ListingAnswered(listing) ==
  /\ listings' = listings \ {listing}
  /\ IF desk = "review" THEN queue' = ItemsIn(listing.read) /\ UNCHANGED <<folders, files>>
     ELSE /\ folders' = FoldersIn(listing.read)
          /\ files' = IF desk = "gallery" THEN {p \in Photos : listing.read[p] = folder}
                                          ELSE files
          /\ UNCHANGED queue
  /\ UNCHANGED <<serverPhotoVars, desk, photoDialog, busyKey, folder, openMenu, typing,
                 actionInflight, listingFailed>>

\* A refill fails silently.
ListingFails(listing) ==
  /\ listings' = listings \ {listing}
  /\ listingFailed' = (listingFailed \/ listing.for = "page")
  /\ UNCHANGED <<serverPhotoVars, desk, photoDialog, reviewVars, trainingVars>>

RetryListing ==
  /\ listingFailed /\ AtDesk(desk)
  /\ listingFailed' = FALSE /\ queue' = NoPhoto /\ files' = NoPhoto
  /\ folders' = IF desk = "index" THEN NoPhoto ELSE folders
  /\ ListingBegun("page", listings)
  /\ UNCHANGED <<serverPhotoVars, desk, photoDialog, busyKey, folder, openMenu, typing,
                 actionInflight>>

\* Another page: its state is new, and requests under way answer nobody.
OpenDesk(page, dir) ==
  /\ photoDialog = NoPhoto
  /\ desk' = page /\ folder' = dir
  /\ queue' = NoPhoto /\ busyKey' = NoPhoto /\ files' = NoPhoto
  /\ folders' = IF page = "gallery" THEN {} ELSE NoPhoto
  /\ openMenu' = NoPhoto /\ typing' = FALSE /\ actionInflight' = FALSE
  /\ listingFailed' = FALSE
  /\ ListingBegun("page", {})
  /\ photoRequests' =
       {[r EXCEPT !.by = "nobody"] : r \in {q \in photoRequests : q.outcome = "sent"}}
  /\ UNCHANGED <<filed, photoDialog>>

Visit ==
  \/ desk = "index" /\ OpenDesk("review", NoPhoto)
  \/ desk # "index" /\ OpenDesk("index", NoPhoto)
  \/ /\ desk = "index" /\ ~listingFailed /\ folders # NoPhoto
     /\ \E dir \in folders : OpenDesk("gallery", dir)

-------------------------------------------------------------------------------
(* Requests: of one photo, or (NoPhoto) of all of a folder. *)

\* bound: requests on their way, and one of a kind for a photo
Request(photo, dir, to) ==
  LET r == [photo |-> photo, dir |-> dir, to |-> to, by |-> desk, outcome |-> "sent"] IN
  /\ Cardinality(photoRequests) < MaxPending /\ r \notin photoRequests
  /\ photoRequests' = photoRequests \cup {r} /\ UNCHANGED filed

Outcome(r, o) ==
  photoRequests' = (photoRequests \ {r}) \cup
    (IF r.by = "nobody" THEN {} ELSE {[r EXCEPT !.outcome = o]})

\* move_capture, delete_capture: a photo not in that folder is answered 404.
\* delete_training_captures: best effort, photo by photo, and always answered ok.
RequestServed(r) ==
  LET there == {p \in Photos : filed[p] = r.dir /\ r.photo \in {p, NoPhoto}} IN
  /\ r.outcome = "sent"
  /\ \E moved \in IF r.photo = NoPhoto THEN SUBSET there ELSE {there} :
       filed' = [p \in Photos |-> IF p \in moved THEN r.to ELSE filed[p]]
  /\ Outcome(r, IF there = {} THEN "failed" ELSE "done")
  /\ UNCHANGED <<desk, listings, photoDialog, reviewVars, trainingVars, listingFailed>>

RequestLost(r) ==
  /\ r.outcome # "failed" /\ Outcome(r, "failed")
  /\ UNCHANGED <<filed, desk, listings, photoDialog, reviewVars, trainingVars,
                 listingFailed>>

\* removeFromList, maybeRefill: the queue is below its window, so it is read again.
CardGone(item) ==
  /\ queue' = queue \ {item}
  /\ Cardinality(listings) < MaxListings /\ ListingBegun("refill", listings)

CloseMenu == openMenu' = NoPhoto /\ typing' = FALSE

\* Mutant of RequestSettled: a failed request leaves its card busy, its panel disabled.
RequestSettledBusy(r) ==
  /\ r.outcome # "sent" /\ photoRequests' = photoRequests \ {r}
  /\ busyKey' = IF r.by = "review" /\ r.outcome = "done" THEN NoPhoto ELSE busyKey
  /\ actionInflight' = (actionInflight /\ ~(r.by = "gallery" /\ r.outcome = "done"))
  /\ UNCHANGED <<filed, desk, photoDialog, queue, listings, folders, folder, files,
                 openMenu, typing, listingFailed>>

\* The end of whichever request frees the one busyKey and the one actionInflight. A
\* success takes the photo off its list, and closes whatever panel is open by then.
RequestSettled(r) ==
  /\ r.outcome # "sent" /\ photoRequests' = photoRequests \ {r}
  /\ busyKey' = IF r.by = "review" THEN NoPhoto ELSE busyKey
  /\ actionInflight' = (actionInflight /\ r.by # "gallery")
  /\ IF r.by = "review" /\ r.outcome = "done"
       THEN CardGone([photo |-> r.photo, dir |-> r.dir])
       ELSE UNCHANGED <<queue, listings>>
  /\ IF r.by = "gallery" /\ r.outcome = "done"
       THEN files' = files \ {r.photo} /\ CloseMenu
       ELSE UNCHANGED <<files, openMenu, typing>>
  /\ folders' = IF r.by = "index" /\ r.outcome = "done" THEN folders \ {r.dir} ELSE folders
  /\ UNCHANGED <<filed, desk, photoDialog, folder, listingFailed>>

-------------------------------------------------------------------------------
(* Review *)

CardOffered(item) ==
  AtDesk("review") /\ ~listingFailed /\ queue # NoPhoto /\ item \in queue /\ busyKey # item

\* A photo that is there already is taken off the list, and comes back with the refill.
FileCard(item, dir) ==
  IF item.dir = dir THEN CardGone(item) /\ UNCHANGED <<serverPhotoVars, busyKey>>
  ELSE /\ busyKey' = item /\ Request(item.photo, item.dir, dir)
       /\ UNCHANGED <<queue, listings>>

\* handleApprove, handleReject
Review(item) ==
  /\ CardOffered(item)
  /\ \/ Guess[item.photo] # NoPhoto /\ FileCard(item, Guess[item.photo])
     \/ FileCard(item, "__unknown__")
  /\ UNCHANGED <<desk, photoDialog, trainingVars, listingFailed>>

-------------------------------------------------------------------------------
(* The gallery *)

PanelOpen(photo) ==
  AtDesk("gallery") /\ ~listingFailed /\ files # NoPhoto /\ photo \in files
  /\ openMenu = photo

\* The other photos keep their button while one's panel is open, or busy.
OpenMenu(photo) ==
  /\ AtDesk("gallery") /\ ~listingFailed /\ files # NoPhoto /\ photo \in files \ {openMenu}
  /\ openMenu' = photo /\ typing' = FALSE
  /\ UNCHANGED <<serverPhotoVars, desk, listings, photoDialog, reviewVars, folders, folder,
                 files, actionInflight, listingFailed>>

CancelMenu ==
  /\ AtDesk("gallery") /\ openMenu # NoPhoto /\ ~actionInflight /\ CloseMenu
  /\ UNCHANGED <<serverPhotoVars, desk, listings, photoDialog, reviewVars, folders, folder,
                 files, actionInflight, listingFailed>>

OtherFolders == folders \ {folder}

\* "+ New person", shown at once when there is no other folder.
TypePerson(photo) ==
  /\ PanelOpen(photo) /\ ~actionInflight /\ ~typing /\ OtherFolders # {}
  /\ typing' = TRUE
  /\ UNCHANGED <<serverPhotoVars, desk, listings, photoDialog, reviewVars, folders, folder,
                 files, openMenu, actionInflight, listingFailed>>

\* A chip, or a name that was typed, the folder's own included.
MoveTo(photo, dir) ==
  /\ PanelOpen(photo) /\ ~actionInflight
  /\ dir \in OtherFolders \/ typing \/ OtherFolders = {}
  /\ actionInflight' = TRUE /\ Request(photo, folder, dir)
  /\ UNCHANGED <<desk, listings, photoDialog, reviewVars, folders, folder, files, openMenu,
                 typing, listingFailed>>

-------------------------------------------------------------------------------
(* Deletions, behind a confirmation (lib/confirm) that names what it deletes. *)

AskDelete ==
  /\ \/ \E item \in Items : CardOffered(item) /\ photoDialog' = item
     \/ \E photo \in Photos : /\ PanelOpen(photo) /\ ~actionInflight
                              /\ photoDialog' = [photo |-> photo, dir |-> folder]
     \/ /\ AtDesk("index") /\ ~listingFailed /\ folders # NoPhoto
        /\ \E dir \in folders : photoDialog' = [photo |-> NoPhoto, dir |-> dir]
  /\ UNCHANGED <<serverPhotoVars, desk, listings, reviewVars, trainingVars, listingFailed>>

DialogAnswered(yes) ==
  /\ photoDialog # NoPhoto /\ photoDialog' = NoPhoto
  /\ IF yes
       THEN /\ Request(photoDialog.photo, photoDialog.dir, "deleted")
            /\ busyKey' = IF desk = "review" THEN photoDialog ELSE busyKey
            /\ actionInflight' = (actionInflight \/ desk = "gallery")
       ELSE UNCHANGED <<serverPhotoVars, busyKey, actionInflight>>
  /\ UNCHANGED <<desk, listings, queue, folders, folder, files, openMenu, typing,
                 listingFailed>>

-------------------------------------------------------------------------------
FacePhotosInit ==
  /\ filed = [p \in Photos |-> "__unknown__"]
  /\ desk = "index" /\ listings = {[for |-> "page", read |-> filed]}
  /\ photoRequests = {} /\ photoDialog = NoPhoto
  /\ queue = NoPhoto /\ busyKey = NoPhoto
  /\ folders = NoPhoto /\ folder = NoPhoto /\ files = NoPhoto
  /\ openMenu = NoPhoto /\ typing = FALSE /\ actionInflight = FALSE
  /\ listingFailed = FALSE

ListingStep ==
  \/ \E listing \in listings : ListingAnswered(listing) \/ ListingFails(listing)
  \/ RetryListing \/ Visit

PhotoStep ==
  \/ \E item \in Items : Review(item)
  \/ \E photo \in Photos : OpenMenu(photo) \/ TypePerson(photo)
  \/ \E photo \in Photos, dir \in Folders : MoveTo(photo, dir)
  \/ CancelMenu \/ AskDelete
  \/ \E yes \in BOOLEAN : DialogAnswered(yes)

FacePhotosNext ==
  \/ ListingStep \/ PhotoStep
  \/ \E r \in photoRequests : RequestServed(r) \/ RequestLost(r) \/ RequestSettled(r)

FacePhotosSpec == FacePhotosInit /\ [][FacePhotosNext]_photoVars

-------------------------------------------------------------------------------
FacePhotosTypeOK ==
  LET Maybe(S) == S \cup {NoPhoto} IN
  /\ filed \in [Photos -> Folders \cup {"deleted"}]
  /\ desk \in {"review", "index", "gallery"}
  /\ \A l \in listings : l.for \in {"page", "refill"} /\ DOMAIN l.read = Photos
  /\ photoRequests \subseteq
       [photo : Maybe(Photos), dir : Folders, to : Folders \cup {"deleted"},
        by : {"review", "index", "gallery", "nobody"}, outcome : {"sent", "done", "failed"}]
  /\ photoDialog \in Maybe([photo : Maybe(Photos), dir : Folders])
  /\ queue \in Maybe(SUBSET Items) /\ busyKey \in Maybe(Items)
  /\ folders \in Maybe(SUBSET Folders) /\ folder \in Maybe(Folders)
  /\ files \in Maybe(SUBSET Photos) /\ openMenu \in Maybe(Photos)
  /\ {typing, actionInflight, listingFailed} \subseteq BOOLEAN

\* No photo stays locked: while a card is busy or the panel disabled, a request whose
\* end will free it is on its way, though one slot serves all the cards and any answer
\* clears it. And the gallery's one flag does keep its requests apart: there is never a
\* second one for a photo.
LocksAreFreed ==
  LET By(page) == {r \in photoRequests : r.by = page} IN
  /\ busyKey # NoPhoto =>
       \E r \in By("review") : r.photo = busyKey.photo /\ r.dir = busyKey.dir
  /\ actionInflight <=> By("gallery") # {}
  /\ Cardinality(By("gallery")) <= 1

===============================================================================
