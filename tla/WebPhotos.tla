----------------------------- MODULE WebPhotos -----------------------------
(***************************************************************************)
(* The photo tab: apps/web/src/hooks/usePhotos.ts and                      *)
(* app/main/components/PhotosTab.tsx, with the paging of                   *)
(* apps/api/src/gallery/gallery.service.ts (findMany).  Uploads and        *)
(* deletions are single steps of the server here; Gallery looks into them. *)
(*                                                                         *)
(* Photos are numbered in the order of createdAt, which is taken to be     *)
(* different for each.  An upload has several files, whose rows are        *)
(* created concurrently: their numbers may be in any order.                *)
(***************************************************************************)
EXTENDS Lists, SequencesExt

CONSTANTS
  MaxPhotos,  \* bound on the photos that are ever uploaded, ...
  MaxFiles,   \* ... and on those of one upload
  PageSize,   \* PAGE_SIZE
  Deletion,   \* deletions that may overlap
  None

Photo == 1 .. MaxPhotos

VARIABLES
  rows,         \* the GalleryPhoto rows of the couple
  next,         \* the number of the next photo
  starts,       \* history: the first number of every upload
  photos, hasMore, cursor,
  page,         \* the fetch under way: its cursor and its answer
  upload,       \* the upload under way: << >>, then its answer
  deletion,     \* deletion[d]: the ids a DELETE names and whether it has run
  left,         \* the requests of a tab that is gone and that have not run yet
  selectMode, selectedIds, activePhoto,
  mishap        \* history: the first thing that set photos and rows apart

server == <<rows, next, starts>>
list == <<photos, hasMore, cursor>>
choice == <<selectMode, selectedIds, activePhoto>>
vars == <<server, list, page, upload, deletion, left, choice, mishap>>

NewestFirst(S) == Reverse(Sorted(S))

FirstPage == [cursor |-> None, data |-> None]

Init ==
  /\ \E n \in 0 .. MaxPhotos : rows = 1 .. n /\ next = n + 1 /\ starts = 1 .. n
  /\ photos = << >> /\ hasMore = TRUE /\ cursor = None
  /\ page = FirstPage  \* the effect of the mount
  /\ upload = None
  /\ deletion = [d \in Deletion |-> None]
  /\ left = [upload |-> FALSE, ids |-> {}]
  /\ selectMode = FALSE /\ selectedIds = {} /\ activePhoto = None
  /\ mishap = None

Loading == page # None

Note(reason, happens) == mishap' = IF mishap = None /\ happens THEN reason ELSE mishap

\* findMany.  With a cursor that is no longer a row it finds nothing.
Found(c) ==
  LET older == IF c = None THEN rows ELSE {x \in rows : c \in rows /\ x < c}
      all == NewestFirst(older)
  IN  SubSeq(all, 1, IF Len(all) < PageSize THEN Len(all) ELSE PageSize)

\* Older photos exist, but the cursor was deleted: the page is the last one.
CutOff(c) == c # None /\ c \notin rows /\ \E x \in rows : x < c

FindMany ==
  /\ Loading /\ page.data = None
  /\ page' = [page EXCEPT !.data = Found(page.cursor)]
  /\ Note("cursor", CutOff(page.cursor))
  /\ UNCHANGED <<server, list, upload, deletion, left, choice>>

\* loadMore asks for a page only then.
CanLoadMore == ~Loading /\ hasMore /\ cursor # None

\* The sentinel comes into view.
LoadMore ==
  /\ CanLoadMore
  /\ page' = [cursor |-> cursor, data |-> None]
  /\ UNCHANGED <<server, list, upload, deletion, left, choice, mishap>>

\* The upload has run, and its answer is on the way.
Uploaded == upload # None /\ upload # << >>

\* The first page replaces the photos, what an upload has put there included.
PageArrives ==
  /\ Loading /\ page.data # None
  /\ photos' = IF page.cursor = None THEN page.data ELSE photos \o page.data
  /\ hasMore' = (hasMore /\ Len(page.data) >= PageSize)
  /\ cursor' = IF page.data = << >> THEN cursor ELSE Last(page.data)
  /\ page' = None
  /\ Note("first", page.cursor = None /\ Uploaded)
  /\ UNCHANGED <<server, upload, deletion, left, choice>>

PageFails ==
  /\ Loading
  /\ page' = None
  /\ Note("first", page.cursor = None)
  /\ UNCHANGED <<server, list, upload, deletion, left, choice>>

\* The header offers an upload while none is under way and none are selected; the
\* open photo covers it.
UploadEnabled == upload = None /\ ~selectMode /\ activePhoto = None

\* handleUploadChange
StartUpload ==
  /\ UploadEnabled
  /\ upload' = << >>
  /\ UNCHANGED <<server, list, page, deletion, left, choice, mishap>>

\* The rows of n files, in the order of the files
Batches(n) ==
  {files \in [1 .. n -> next .. next + n - 1] :
     \A i, j \in 1 .. n : files[i] = files[j] => i = j}

Create(n) ==
  /\ next + n - 1 \in Photo
  /\ rows' = rows \cup next .. next + n - 1 /\ next' = next + n
  /\ starts' = starts \cup {next}

RunUpload(n) ==
  /\ upload = << >>
  /\ Create(n)
  /\ \E files \in Batches(n) : upload' = files
  /\ UNCHANGED <<list, page, deletion, left, choice, mishap>>

\* Mutant: the photos are added after those that are there.
UploadArrivesLast ==
  /\ Uploaded
  /\ photos' = photos \o upload
  /\ upload' = None
  /\ Note("first", Loading /\ page.cursor = None)
  /\ UNCHANGED <<server, hasMore, cursor, page, deletion, left, choice>>
UploadArrives ==
  /\ Uploaded
  /\ photos' = upload \o photos
  /\ upload' = None
  /\ Note("first", Loading /\ page.cursor = None)
  /\ UNCHANGED <<server, hasMore, cursor, page, deletion, left, choice>>

\* The upload fails, for some of its files perhaps after others have got their
\* rows, or its answer is lost.
UploadFails ==
  /\ upload # None
  /\ upload' = None
  /\ Note("lost", Uploaded)
  /\ UNCHANGED <<server, list, page, deletion, left, choice>>

\* handleGridClick, and the select button
Click(x) ==
  /\ x \in Range(photos) /\ activePhoto = None
  /\ IF selectMode
     THEN /\ selectedIds' = (selectedIds \ {x}) \cup ({x} \ selectedIds)
          /\ UNCHANGED activePhoto
     ELSE activePhoto' = x /\ UNCHANGED selectedIds
  /\ UNCHANGED <<server, list, page, upload, deletion, left, selectMode, mishap>>

EnterSelect ==
  /\ ~selectMode /\ activePhoto = None /\ photos # << >>
  /\ selectMode' = TRUE
  /\ UNCHANGED <<server, list, page, upload, deletion, left, selectedIds, activePhoto, mishap>>

\* handleExitSelect, and the way back from the open photo
ExitSelect ==
  /\ selectMode
  /\ selectMode' = FALSE /\ selectedIds' = {}
  /\ UNCHANGED <<server, list, page, upload, deletion, left, activePhoto, mishap>>

Back ==
  /\ activePhoto # None
  /\ activePhoto' = None
  /\ UNCHANGED <<server, list, page, upload, deletion, left, selectMode, selectedIds, mishap>>

Delete(d, ids) ==
  /\ deletion[d] = None
  /\ deletion' = [deletion EXCEPT ![d] = [ids |-> ids, run |-> FALSE]]
  /\ UNCHANGED <<server, list, page, upload, left, mishap>>

\* handleDeleteSelected and handleDeleteActive: the selection, and the open photo,
\* are gone before the answer.
DeleteSelected(d) ==
  /\ selectMode /\ selectedIds # {}
  /\ Delete(d, selectedIds)
  /\ selectMode' = FALSE /\ selectedIds' = {}
  /\ UNCHANGED activePhoto

DeleteActive(d) ==
  /\ activePhoto # None
  /\ Delete(d, {activePhoto})
  /\ activePhoto' = None
  /\ UNCHANGED <<selectMode, selectedIds>>

RunDeletion(d) ==
  /\ deletion[d] # None /\ ~deletion[d].run
  /\ rows' = rows \ deletion[d].ids
  /\ deletion' = [deletion EXCEPT ![d].run = TRUE]
  /\ UNCHANGED <<next, starts, list, page, upload, left, choice, mishap>>

DeletionArrives(d) ==
  /\ deletion[d] # None /\ deletion[d].run
  /\ photos' = Kept(photos, {i \in DOMAIN photos : photos[i] \notin deletion[d].ids})
  /\ deletion' = [deletion EXCEPT ![d] = None]
  /\ UNCHANGED <<server, hasMore, cursor, page, upload, left, choice, mishap>>

DeletionFails(d) ==
  /\ deletion[d] # None
  /\ Note("lost", deletion[d].run)
  /\ deletion' = [deletion EXCEPT ![d] = None]
  /\ UNCHANGED <<server, list, page, upload, left, choice>>

\* The partner uploads or deletes: nothing tells this tab.
PartnerUploads(n) ==
  /\ Create(n)
  /\ Note("partner", TRUE)
  /\ UNCHANGED <<list, page, upload, deletion, left, choice>>

PartnerDeletes(x) ==
  /\ x \in rows
  /\ rows' = rows \ {x}
  /\ Note("partner", TRUE)
  /\ UNCHANGED <<next, starts, list, page, upload, deletion, left, choice>>

-----------------------------------------------------------------------------
\* Another tab of the page is chosen and then this one again: all state and every
\* answer on its way are lost, but not the requests that have not yet run.  Of
\* these one upload, and the ids of one deletion, are followed.
Remount ==
  LET waiting == {d \in Deletion : deletion[d] # None /\ ~deletion[d].run}
  IN  /\ ~(left.upload /\ upload = << >>)
      /\ waiting # {} => left.ids = {}
      /\ \E ids \in IF waiting = {} THEN {left.ids} ELSE {deletion[d].ids : d \in waiting} :
           left' = [upload |-> left.upload \/ upload = << >>, ids |-> ids]
      /\ photos' = << >> /\ hasMore' = TRUE /\ cursor' = None
      /\ page' = FirstPage
      /\ upload' = None
      /\ deletion' = [d \in Deletion |-> None]
      /\ selectMode' = FALSE /\ selectedIds' = {} /\ activePhoto' = None
      /\ mishap' = None
      /\ UNCHANGED server

\* They run: too late for the list, once its first page has been read.
FirstRead == page # FirstPage

RunLeftUpload(n) ==
  /\ left.upload
  /\ Create(n)
  /\ left' = [left EXCEPT !.upload = FALSE]
  /\ Note("left", FirstRead)
  /\ UNCHANGED <<list, page, upload, deletion, choice>>

RunLeftDeletion ==
  /\ left.ids # {}
  /\ rows' = rows \ left.ids
  /\ left' = [left EXCEPT !.ids = {}]
  /\ Note("left", FirstRead /\ rows' # rows)
  /\ UNCHANGED <<next, starts, list, page, upload, deletion, choice>>

Next ==
  \/ FindMany \/ LoadMore \/ PageArrives \/ PageFails
  \/ StartUpload \/ UploadArrives \/ UploadFails
  \/ \E n \in 1 .. MaxFiles : RunUpload(n) \/ PartnerUploads(n) \/ RunLeftUpload(n)
  \/ \E x \in Photo : Click(x) \/ PartnerDeletes(x)
  \/ EnterSelect \/ ExitSelect \/ Back \/ Remount \/ RunLeftDeletion
  \/ \E d \in Deletion :
       \/ DeleteSelected(d) \/ DeleteActive(d)
       \/ RunDeletion(d) \/ DeletionArrives(d) \/ DeletionFails(d)

Spec == Init /\ [][Next]_vars

-----------------------------------------------------------------------------
Fetch == [cursor : Photo \cup {None}, data : Seq(Photo) \cup {None}]
Removal == [ids : SUBSET Photo, run : BOOLEAN]

Reason == {"cursor", "first", "lost", "partner", "left"}

\* None is none of the things that it stands in for.
NoneIsApart ==
  /\ None \notin Photo /\ None \notin Seq(Photo)
  /\ None \notin Fetch /\ None \notin Removal /\ None \notin Reason

TypeOK ==
  /\ rows \subseteq Photo /\ next \in 1 .. MaxPhotos + 1 /\ starts \subseteq Photo
  /\ photos \in Seq(Photo) /\ hasMore \in BOOLEAN /\ cursor \in Photo \cup {None}
  /\ page \in Fetch \cup {None}
  /\ upload \in Seq(Photo) \cup {None}
  /\ deletion \in [Deletion -> Removal \cup {None}]
  /\ left \in [upload : BOOLEAN, ids : SUBSET Photo]
  /\ selectMode \in BOOLEAN /\ selectedIds \subseteq Photo
  /\ activePhoto \in Photo \cup {None}
  /\ mishap \in Reason \cup {None}
  /\ selectedIds # {} => selectMode

\* x was uploaded before y: an upload began in between.
Earlier(x, y) == \E s \in starts : x < s /\ s <= y

\* When nothing is under way the tab shows the rows down to the cursor, each
\* once and no photo before one of a later upload, and all of them when it says
\* that there are no more -- also after the user has left the tab and come back,
\* and unless one of these happened: the partner changed the gallery, an answer
\* was lost, the first page failed or crossed an upload, a page was asked for
\* after the photo at the cursor had been deleted while there were older ones, or
\* a request of the tab that was left ran after the first page had been read.
PhotosAreRows ==
  /\ page = None /\ upload = None /\ deletion = [d \in Deletion |-> None]
  /\ mishap = None
  => /\ Range(photos) = {x \in rows : cursor = None \/ x >= cursor}
     /\ \A i, j \in DOMAIN photos :
          i < j => photos[i] # photos[j] /\ ~Earlier(photos[i], photos[j])
     /\ ~hasMore => Range(photos) = rows
=============================================================================
