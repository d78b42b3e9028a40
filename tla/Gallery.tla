------------------------------- MODULE Gallery -------------------------------
(***************************************************************************)
(* Photos: the GalleryPhoto rows and the files in uploads/photos, as       *)
(* gallery.service.ts (upload, remove, removeBatch) and the photo part of  *)
(* CoupleService.breakUp change them.                                      *)
(*                                                                         *)
(* A file is named by the SHA-256 of its bytes, so a file IS its content:  *)
(* two photos with equal bytes share one file.  File operations are        *)
(* synchronous: all of those between two awaits are one step.  Database    *)
(* calls are awaited, so requests interleave between them.                 *)
(*                                                                         *)
(* The two members of a couple may do exactly the same here, so a request  *)
(* is made by a couple; breakUp takes its membership away.                 *)
(***************************************************************************)
EXTENDS Naturals, FiniteSets

CONSTANTS
  Couple,     \* couples, all of them active at the start
  Photo,      \* identifiers of GalleryPhoto rows (bounds the uploads)
  Content,    \* distinct file contents
  Request,    \* requests that can be in progress at the same time
  MaxBatch,   \* the largest number of files or ids in one request
  Reuse,      \* whether content that was uploaded before may come again
  MayFail,    \* whether unlinking fails and requests die half way
  None

ASSUME NoneAssumption == None \notin Couple \union Content
ASSUME FlagAssumption == Reuse \in BOOLEAN /\ MayFail \in BOOLEAN

VARIABLES
  alive,        \* couples that exist
  photoCouple,  \* GalleryPhoto.coupleId, None: no such row
  photoFile,    \* the content GalleryPhoto.url names
  fresh,        \* photo ids not used yet
  files,        \* the content stored in uploads/photos
  origin,       \* origin[f]: who uploaded f last, None: nobody (history)
  damaged,      \* contents a failed unlink or a request that died between
                \* its file and its row operations leaves behind (history)
  pc,           \* the await a request is suspended at
  caller,       \* the couple whose member makes the request
  todo,         \* upload: contents whose rows are still to be inserted
  ids,          \* remove: the photo ids of the request
  found         \* remove, breakUp: the rows read from the database

rows == <<alive, photoCouple, photoFile, fresh>>
locals == <<pc, caller, todo, ids, found>>
history == <<origin, damaged>>
vars == <<alive, photoCouple, photoFile, fresh, files, origin, damaged,
          pc, caller, todo, ids, found>>

PC == {"idle", "uploadWrite", "uploadInsert", "removeCheck", "removeUnlink",
       "removeDelete", "breakUpList", "breakUpUnlink", "breakUpDelete"}

TypeOK ==
  /\ alive \subseteq Couple
  /\ photoCouple \in [Photo -> Couple \union {None}]
  /\ photoFile \in [Photo -> Content \union {None}]
  /\ fresh \subseteq Photo
  /\ files \subseteq Content
  /\ origin \in [Content -> Couple \union {None}]
  /\ damaged \subseteq Content
  /\ pc \in [Request -> PC]
  /\ caller \in [Request -> Couple \union {None}]
  /\ todo \in [Request -> SUBSET Content]
  /\ ids \in [Request -> SUBSET Photo]
  /\ found \in [Request -> SUBSET (Couple \X Content)]

Init ==
  /\ alive = Couple
  /\ photoCouple = [p \in Photo |-> None]
  /\ photoFile = [p \in Photo |-> None]
  /\ fresh = Photo
  /\ files = {}
  /\ origin = [f \in Content |-> None]
  /\ damaged = {}
  /\ pc = [r \in Request |-> "idle"]
  /\ caller = [r \in Request |-> None]
  /\ todo = [r \in Request |-> {}]
  /\ ids = [r \in Request |-> {}]
  /\ found = [r \in Request |-> {}]

-----------------------------------------------------------------------------
Exists(p) == photoCouple[p] # None

Start(r, to, c) ==
  /\ pc[r] = "idle"
  /\ pc' = [pc EXCEPT ![r] = to]
  /\ caller' = [caller EXCEPT ![r] = c]

Goto(r, to) ==
  /\ pc' = [pc EXCEPT ![r] = to]
  /\ UNCHANGED <<caller, todo, ids, found>>

Finish(r) ==
  /\ pc' = [pc EXCEPT ![r] = "idle"]
  /\ caller' = [caller EXCEPT ![r] = None]
  /\ todo' = [todo EXCEPT ![r] = {}]
  /\ ids' = [ids EXCEPT ![r] = {}]
  /\ found' = [found EXCEPT ![r] = {}]

(* Mutant: a soft delete. *)
MarkRows(ps) ==
  /\ photoCouple' =
       [p \in Photo |-> IF p \in ps THEN "deleted" ELSE photoCouple[p]]
  /\ UNCHANGED photoFile

(* The rows of the photos ps disappear. *)
DeleteRows(ps) ==
  /\ photoCouple' = [p \in Photo |-> IF p \in ps THEN None ELSE photoCouple[p]]
  /\ photoFile' = [p \in Photo |-> IF p \in ps THEN None ELSE photoFile[p]]

(* The contents of the rows a request has read, or is going to insert. *)
InHand(r) == todo[r] \union {w[2] : w \in found[r]}

(* existsSync / unlinkSync for every row read; an error is logged and the  *)
(* request goes on, so with failures any of the files may stay.            *)
UnlinkFound(r) ==
  \E kept \in SUBSET (files \intersect InHand(r)) :
    /\ MayFail \/ kept = {}
    /\ files' = (files \ InHand(r)) \union kept
    /\ damaged' = damaged \union kept

-----------------------------------------------------------------------------
(* upload *)

(* ensureCoupleMember(coupleId, userId), for 1 to MaxBatch files. *)
UploadBegin(r, c, fs) ==
  /\ fs # {} /\ Cardinality(fs) <= MaxBatch
  /\ c \in alive
  /\ Reuse \/ \A f \in fs : origin[f] = None
  /\ Start(r, "uploadWrite", c)
  /\ todo' = [todo EXCEPT ![r] = fs]
  /\ origin' = [f \in Content |-> IF f \in fs THEN c ELSE origin[f]]
  /\ UNCHANGED <<rows, files, damaged, ids, found>>

(* The map callbacks run up to their first await: each file is written     *)
(* unless one of that name exists, then the inserts are issued.            *)
UploadWrite(r) ==
  /\ pc[r] = "uploadWrite"
  /\ files' = files \union todo[r]
  /\ Goto(r, "uploadInsert")
  /\ UNCHANGED <<rows, history>>

(* One insert of the Promise.all arrives; the foreign key needs the couple.*)
UploadInsert(r, f) ==
  /\ pc[r] = "uploadInsert"
  /\ f \in todo[r]
  /\ caller[r] \in alive
  /\ \E p \in fresh :
       /\ photoCouple' = [photoCouple EXCEPT ![p] = caller[r]]
       /\ photoFile' = [photoFile EXCEPT ![p] = f]
       /\ fresh' = fresh \ {p}
  /\ IF todo[r] = {f} THEN Finish(r)
     ELSE /\ todo' = [todo EXCEPT ![r] = @ \ {f}]
          /\ UNCHANGED <<pc, caller, ids, found>>
  /\ UNCHANGED <<alive, files, history>>

(* The couple is gone: every remaining insert fails, and so does upload. *)
UploadFail(r) ==
  /\ pc[r] = "uploadInsert"
  /\ caller[r] \notin alive
  /\ Finish(r)
  /\ UNCHANGED <<rows, files, history>>

-----------------------------------------------------------------------------
(* remove (one id) and removeBatch (several) *)

(* The rows are read; the request ends if there are none, or if they       *)
(* belong to more than one couple.  A caller names ids it has seen, never  *)
(* one that will be generated later.                                       *)
RemoveBegin(r, c, ps) ==
  LET there == {p \in ps : Exists(p)} IN
  /\ there # {} /\ Cardinality(ps) <= MaxBatch
  /\ ps \intersect fresh = {}
  /\ \A p, q \in there : photoCouple[p] = photoCouple[q]
  /\ Start(r, "removeCheck", c)
  /\ ids' = [ids EXCEPT ![r] = ps]
  /\ found' = [found EXCEPT ![r] =
                 {<<photoCouple[p], photoFile[p]>> : p \in there}]
  /\ UNCHANGED <<rows, files, history, todo>>

(* Mutant: ensureCoupleMember left out. *)
RemoveCheckNothing(r) ==
  /\ pc[r] = "removeCheck"
  /\ Goto(r, "removeUnlink")
  /\ UNCHANGED <<rows, files, history>>

(* ensureCoupleMember(photo.coupleId, userId) *)
RemoveCheck(r) ==
  /\ pc[r] = "removeCheck"
  /\ IF caller[r] \in alive /\ \A w \in found[r] : w[1] = caller[r]
       THEN Goto(r, "removeUnlink") ELSE Finish(r)
  /\ UNCHANGED <<rows, files, history>>

(* Mutant: the files are not unlinked. *)
RemoveUnlinkNothing(r) ==
  /\ pc[r] = "removeUnlink"
  /\ Goto(r, "removeDelete")
  /\ UNCHANGED <<rows, files, history>>

RemoveUnlink(r) ==
  /\ pc[r] = "removeUnlink"
  /\ UnlinkFound(r)
  /\ Goto(r, "removeDelete")
  /\ UNCHANGED <<rows, origin>>

(* Mutant: the rows stay. *)
RemoveDeleteForgotten(r) ==
  /\ pc[r] = "removeDelete"
  /\ Finish(r)
  /\ UNCHANGED <<rows, files, history>>

(* deleteMany by the ids of the request (remove: delete, which throws when *)
(* the row is gone: nothing changes either way).                           *)
RemoveDelete(r) ==
  /\ pc[r] = "removeDelete"
  /\ DeleteRows(ids[r])
  /\ Finish(r)
  /\ UNCHANGED <<alive, fresh, files, history>>

-----------------------------------------------------------------------------
(* CoupleService.breakUp *)

BreakUpBegin(r, c) ==
  /\ c \in alive
  /\ Start(r, "breakUpList", c)
  /\ UNCHANGED <<rows, files, history, todo, ids, found>>

(* galleryPhoto.findMany({ where: { coupleId } }) *)
BreakUpList(r) ==
  /\ pc[r] = "breakUpList"
  /\ found' = [found EXCEPT ![r] =
       {<<photoCouple[p], photoFile[p]>> :
          p \in {q \in Photo : photoCouple[q] = caller[r]}}]
  /\ pc' = [pc EXCEPT ![r] = "breakUpUnlink"]
  /\ UNCHANGED <<rows, files, history, caller, todo, ids>>

BreakUpUnlink(r) ==
  /\ pc[r] = "breakUpUnlink"
  /\ UnlinkFound(r)
  /\ Goto(r, "breakUpDelete")
  /\ UNCHANGED <<rows, origin>>

(* Mutant: photos are not cascaded. *)
BreakUpKeepsRows(r) ==
  /\ pc[r] = "breakUpDelete"
  /\ alive' = alive \ {caller[r]}
  /\ Finish(r)
  /\ UNCHANGED <<photoCouple, photoFile, fresh, files, history>>

(* couple.delete cascades to the photo rows; the partner may have been     *)
(* faster, then it throws.                                                 *)
BreakUpDelete(r) ==
  /\ pc[r] = "breakUpDelete"
  /\ alive' = alive \ {caller[r]}
  /\ DeleteRows({p \in Photo : photoCouple[p] = caller[r]})
  /\ Finish(r)
  /\ UNCHANGED <<fresh, files, history>>

-----------------------------------------------------------------------------
(* The request dies at an await, or one of its database calls fails (an    *)
(* insert of upload that fails leaves the others running: they come first).*)
Abandon(r) ==
  /\ MayFail
  /\ pc[r] # "idle"
  /\ damaged' = IF pc[r] \in {"uploadInsert", "removeDelete", "breakUpDelete"}
                  THEN damaged \union InHand(r) ELSE damaged
  /\ Finish(r)
  /\ UNCHANGED <<rows, files, origin>>

Next ==
  \E r \in Request :
    \/ \E c \in Couple : \/ \E fs \in SUBSET Content : UploadBegin(r, c, fs)
                         \/ \E ps \in SUBSET Photo : RemoveBegin(r, c, ps)
                         \/ BreakUpBegin(r, c)
    \/ UploadWrite(r) \/ UploadFail(r)
    \/ \E f \in Content : UploadInsert(r, f)
    \/ RemoveCheck(r) \/ RemoveUnlink(r) \/ RemoveDelete(r)
    \/ BreakUpList(r) \/ BreakUpUnlink(r) \/ BreakUpDelete(r)
    \/ Abandon(r)

Spec == Init /\ [][Next]_vars

-----------------------------------------------------------------------------
(* Request r will delete the row of photo p when it goes on. *)
Doomed(p) ==
  \E r \in Request :
    \/ pc[r] = "removeDelete" /\ p \in ids[r]
    \/ pc[r] = "breakUpDelete" /\ photoCouple[p] = caller[r]

(* A photo in the database belongs to a couple that exists, whichever of   *)
(* upload's inserts and breakUp's cascade comes first.                     *)
PhotoHasCouple == \A p \in Photo : Exists(p) => photoCouple[p] \in alive

(* A listed photo can be served: its file is missing only between unlink   *)
(* and the row's deletion by the same request (remove, removeBatch and     *)
(* breakUp delete the file first) - unless that request died just there.   *)
(* Needs that no two photos have the same bytes.                           *)
MissingFileIsDoomed ==
  \A p \in Photo :
    Exists(p) => photoFile[p] \in files \union damaged \/ Doomed(p)

(* While its couple exists, a stored file has a row, or an upload that is  *)
(* still in progress is about to insert one: nothing is left behind by     *)
(* removals, whole batches and repeated ones included, but the files whose *)
(* unlink failed or whose upload died before the insert.                   *)
OrphanIsTransient ==
  \A f \in files :
    \/ \E p \in Photo : photoFile[p] = f
    \/ \E r \in Request : pc[r] = "uploadInsert" /\ f \in todo[r]
    \/ origin[f] \notin alive
    \/ f \in damaged

(* No step removes the photos of a couple but one of its own requests. *)
RemovedByOwner ==
  \A p \in Photo :
    (Exists(p) /\ photoCouple'[p] = None) =>
      \E r \in Request : /\ pc[r] # "idle" /\ pc'[r] = "idle"
                         /\ caller[r] = photoCouple[p]
OnlyOwnersRemove == [][RemovedByOwner]_vars

(* A file is unlinked only in a step of a request of the couple whose      *)
(* upload it is.                                                           *)
UnlinkedByOwner ==
  \A f \in files \ files' :
    \E r \in Request : /\ pc[r] \in {"removeUnlink", "breakUpUnlink"}
                       /\ pc'[r] # pc[r]
                       /\ caller[r] = origin[f]
OnlyOwnersUnlink == [][UnlinkedByOwner]_vars

(* When nothing is in progress every photo of the gallery has its file and *)
(* can be served.                                                          *)
EveryPhotoServed ==
  (\A r \in Request : pc[r] = "idle") =>
    \A p \in Photo : Exists(p) => photoFile[p] \in files
=============================================================================
