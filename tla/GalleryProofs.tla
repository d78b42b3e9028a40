--------------------------- MODULE GalleryProofs ---------------------------
(***************************************************************************)
(* Rows and files of the gallery agree, and only the owners of photos      *)
(* remove them, for any numbers of couples, photos and requests.           *)
(***************************************************************************)
EXTENDS Gallery, TLAPS

InUpload(r) == pc[r] \in {"uploadWrite", "uploadInsert"}
InRemove(r) == pc[r] \in {"removeCheck", "removeUnlink", "removeDelete"}
Checked(r) == pc[r] \in {"removeUnlink", "removeDelete"}
InBreakUp(r) == pc[r] \in {"breakUpList", "breakUpUnlink", "breakUpDelete"}
Unlinked(r) == pc[r] \in {"removeDelete", "breakUpDelete"}

\* A row is there or it is not, and an identifier that was not generated yet
\* has none.
Rows ==
  /\ \A p \in Photo : photoCouple[p] = None <=> photoFile[p] = None
  /\ \A p \in fresh : ~Exists(p)

\* What a removal has read is what is there, as far as it is still there; after
\* its check it is the caller's.
RemoveKnows(r) ==
  /\ InRemove(r) =>
       /\ ids[r] \intersect fresh = {}
       /\ \A p \in ids[r] : Exists(p) => <<photoCouple[p], photoFile[p]>> \in found[r]
  /\ Checked(r) => \A w \in found[r] : w[1] = caller[r]

BreakUpKnows(r) ==
  /\ pc[r] = "idle" => found[r] = {}
  /\ InBreakUp(r) => /\ caller[r] \in Couple
                     /\ \A w \in found[r] : w[1] = caller[r]

Inv ==
  /\ TypeOK
  /\ Rows
  /\ PhotoHasCouple
  /\ \A r \in Request : RemoveKnows(r) /\ BreakUpKnows(r)

LEMMA InvInit == Init => Inv
BY DEF Init, Inv, TypeOK, PC, Rows, Exists, PhotoHasCouple, RemoveKnows, BreakUpKnows,
       InRemove, Checked, InBreakUp

\* The variables of one request, and none of another's, have changed.
Only(r) ==
  \A s \in Request : s # r =>
    /\ pc'[s] = pc[s] /\ caller'[s] = caller[s]
    /\ todo'[s] = todo[s] /\ ids'[s] = ids[s] /\ found'[s] = found[s]

\* A row that is there is one that was there, or a new one.
\* What the others know survives a step that changes rows in no other way than
\* to delete some, or to use a fresh identifier.
RowsOnlyGo ==
  /\ fresh' \subseteq fresh
  /\ \A p \in Photo \ fresh : Exists(p)' =>
       photoCouple'[p] = photoCouple[p] /\ photoFile'[p] = photoFile[p] /\ Exists(p)

LEMMA OthersKnow ==
  ASSUME Inv, NEW r \in Request, Only(r), RowsOnlyGo
  PROVE  \A s \in Request : s # r => RemoveKnows(s)' /\ BreakUpKnows(s)'
<1> SUFFICES ASSUME NEW s \in Request, s # r
             PROVE  RemoveKnows(s)' /\ BreakUpKnows(s)'
  OBVIOUS
<1>1. /\ pc'[s] = pc[s] /\ caller'[s] = caller[s]
      /\ ids'[s] = ids[s] /\ found'[s] = found[s]
      /\ ids[s] \subseteq Photo
  BY DEF Only, Inv, TypeOK
<1>2. RemoveKnows(s)'
  BY <1>1 DEF Inv, RowsOnlyGo, RemoveKnows, InRemove, Checked
<1>3. BreakUpKnows(s)'
  BY <1>1 DEF Inv, BreakUpKnows, InBreakUp
<1> QED
  BY <1>2, <1>3

LEMMA FinishFacts ==
  ASSUME Inv, NEW r \in Request, Finish(r)
  PROVE  /\ pc'[r] = "idle" /\ caller'[r] = None
         /\ todo'[r] = {} /\ ids'[r] = {} /\ found'[r] = {}
         /\ Only(r)
         /\ pc' \in [Request -> PC] /\ caller' \in [Request -> Couple \union {None}]
         /\ todo' \in [Request -> SUBSET Content] /\ ids' \in [Request -> SUBSET Photo]
         /\ found' \in [Request -> SUBSET (Couple \X Content)]
         /\ RemoveKnows(r)' /\ BreakUpKnows(r)'
<1>1. /\ pc'[r] = "idle" /\ caller'[r] = None
      /\ todo'[r] = {} /\ ids'[r] = {} /\ found'[r] = {}
      /\ Only(r)
  BY DEF Finish, Inv, TypeOK, Only
<1>2. /\ pc' \in [Request -> PC] /\ caller' \in [Request -> Couple \union {None}]
      /\ todo' \in [Request -> SUBSET Content] /\ ids' \in [Request -> SUBSET Photo]
      /\ found' \in [Request -> SUBSET (Couple \X Content)]
  BY DEF Finish, Inv, TypeOK, PC
<1>3. RemoveKnows(r)' /\ BreakUpKnows(r)'
  BY <1>1 DEF RemoveKnows, BreakUpKnows, InRemove, Checked, InBreakUp
<1> QED
  BY <1>1, <1>2, <1>3

LEMMA GotoFacts ==
  ASSUME Inv, NEW r \in Request, NEW to \in PC, Goto(r, to)
  PROVE  /\ pc'[r] = to /\ UNCHANGED <<caller, todo, ids, found>>
         /\ Only(r)
         /\ pc' \in [Request -> PC]
BY DEF Goto, Inv, TypeOK, Only

LEMMA UnlinkType ==
  ASSUME TypeOK, NEW r \in Request, UnlinkFound(r)
  PROVE  files' \subseteq Content /\ damaged' \subseteq Content
BY DEF TypeOK, UnlinkFound

LEMMA DeleteFacts ==
  ASSUME Inv, NEW ps, DeleteRows(ps), fresh' = fresh
  PROVE  /\ photoCouple' \in [Photo -> Couple \union {None}]
         /\ photoFile' \in [Photo -> Content \union {None}]
         /\ Rows' /\ RowsOnlyGo
         /\ \A p \in Photo : Exists(p)' <=> Exists(p) /\ p \notin ps
         /\ \A p \in Photo : p \notin ps =>
              photoCouple'[p] = photoCouple[p] /\ photoFile'[p] = photoFile[p]
BY DEF DeleteRows, Inv, TypeOK, Rows, RowsOnlyGo, Exists

\* A step that leaves rows alone.
LEMMA SameRows ==
  ASSUME Inv, UNCHANGED rows
  PROVE  Rows' /\ PhotoHasCouple' /\ RowsOnlyGo
BY DEF rows, Inv, Rows, RowsOnlyGo, Exists, PhotoHasCouple

LEMMA UploadBeginKeeps ==
  ASSUME Inv, NEW r \in Request, NEW c \in Couple, NEW fs \in SUBSET Content,
         UploadBegin(r, c, fs)
  PROVE  Inv'
<1>1. /\ pc[r] = "idle" /\ pc' = [pc EXCEPT ![r] = "uploadWrite"]
      /\ caller' = [caller EXCEPT ![r] = c] /\ todo' = [todo EXCEPT ![r] = fs]
      /\ origin' = [f \in Content |-> IF f \in fs THEN c ELSE origin[f]]
      /\ UNCHANGED <<rows, files, damaged, ids, found>>
  BY DEF UploadBegin, Start
<1>2. Only(r) /\ pc'[r] = "uploadWrite"
  BY <1>1 DEF Inv, TypeOK, Only
<1>3. TypeOK'
  BY <1>1 DEF Inv, TypeOK, PC, rows
<1>4. RemoveKnows(r)' /\ BreakUpKnows(r)'
  BY <1>2 DEF RemoveKnows, BreakUpKnows, InRemove, Checked, InBreakUp
<1> QED
  BY <1>1, <1>2, <1>3, <1>4, SameRows, OthersKnow DEF Inv

LEMMA UploadWriteKeeps ==
  ASSUME Inv, NEW r \in Request, UploadWrite(r)
  PROVE  Inv'
<1>1. /\ files' = files \union todo[r] /\ Goto(r, "uploadInsert")
      /\ UNCHANGED <<rows, history>>
  BY DEF UploadWrite
<1>2. "uploadInsert" \in PC
  BY DEF PC
<1>3. TypeOK'
  BY <1>1, <1>2, GotoFacts DEF Inv, TypeOK, rows, history
<1>4. RemoveKnows(r)' /\ BreakUpKnows(r)'
  BY <1>1, <1>2, GotoFacts DEF RemoveKnows, BreakUpKnows, InRemove, Checked, InBreakUp
<1> QED
  BY <1>1, <1>2, <1>3, <1>4, GotoFacts, SameRows, OthersKnow DEF Inv

LEMMA UploadInsertKeeps ==
  ASSUME Inv, NEW r \in Request, NEW f \in Content, UploadInsert(r, f)
  PROVE  Inv'
<1>1. PICK p \in fresh :
        /\ photoCouple' = [photoCouple EXCEPT ![p] = caller[r]]
        /\ photoFile' = [photoFile EXCEPT ![p] = f]
        /\ fresh' = fresh \ {p}
  BY DEF UploadInsert
<1>2. /\ pc[r] = "uploadInsert" /\ f \in todo[r] /\ caller[r] \in alive
      /\ UNCHANGED <<alive, files, history>>
  BY DEF UploadInsert
<1>3. /\ p \in Photo /\ caller[r] \in Couple /\ caller[r] # None /\ f # None
  BY <1>1, <1>2, NoneAssumption DEF Inv, TypeOK
<1>4. \/ Finish(r)
      \/ /\ todo' = [todo EXCEPT ![r] = @ \ {f}]
         /\ UNCHANGED <<pc, caller, ids, found>>
  BY DEF UploadInsert
<1>5. Only(r)
  BY <1>4, FinishFacts DEF Inv, TypeOK, Only
<1>6. Rows' /\ PhotoHasCouple' /\ RowsOnlyGo
  BY <1>1, <1>2, <1>3 DEF Inv, TypeOK, Rows, RowsOnlyGo, Exists, PhotoHasCouple
<1>7. TypeOK'
  <2>1. /\ photoCouple' \in [Photo -> Couple \union {None}]
        /\ photoFile' \in [Photo -> Content \union {None}]
        /\ fresh' \subseteq Photo
    BY <1>1, <1>3 DEF Inv, TypeOK
  <2>2. /\ pc' \in [Request -> PC] /\ caller' \in [Request -> Couple \union {None}]
        /\ todo' \in [Request -> SUBSET Content] /\ ids' \in [Request -> SUBSET Photo]
        /\ found' \in [Request -> SUBSET (Couple \X Content)]
    <3>1. CASE Finish(r)
      BY <3>1, FinishFacts
    <3>2. CASE /\ todo' = [todo EXCEPT ![r] = @ \ {f}]
               /\ UNCHANGED <<pc, caller, ids, found>>
      BY <3>2 DEF Inv, TypeOK
    <3> QED
      BY <1>4, <3>1, <3>2
  <2> QED
    BY <1>2, <2>1, <2>2 DEF Inv, TypeOK, history
<1>8. RemoveKnows(r)' /\ BreakUpKnows(r)'
  <2>1. CASE Finish(r)
    BY <2>1, FinishFacts
  <2>2. CASE UNCHANGED pc
    BY <1>2, <2>2 DEF RemoveKnows, BreakUpKnows, InRemove, Checked, InBreakUp
  <2> QED
    BY <1>4, <2>1, <2>2
<1> QED
  BY <1>5, <1>6, <1>7, <1>8, OthersKnow DEF Inv

\* A request is over, and has changed neither rows nor files.
LEMMA FinishKeeps ==
  ASSUME Inv, NEW r \in Request, Finish(r), UNCHANGED <<rows, files, origin>>,
         damaged' \subseteq Content
  PROVE  Inv'
<1>1. TypeOK'
  BY FinishFacts DEF Inv, TypeOK, rows
<1> QED
  BY <1>1, FinishFacts, SameRows, OthersKnow DEF Inv

LEMMA RemoveBeginKeeps ==
  ASSUME Inv, NEW r \in Request, NEW c \in Couple, NEW ps \in SUBSET Photo,
         RemoveBegin(r, c, ps)
  PROVE  Inv'
<1> DEFINE there == {p \in ps : Exists(p)}
           read == {<<photoCouple[p], photoFile[p]>> : p \in there}
<1>1. /\ ps \intersect fresh = {}
      /\ pc[r] = "idle" /\ pc' = [pc EXCEPT ![r] = "removeCheck"]
      /\ caller' = [caller EXCEPT ![r] = c] /\ ids' = [ids EXCEPT ![r] = ps]
      /\ found' = [found EXCEPT ![r] = read]
      /\ UNCHANGED <<rows, files, history, todo>>
  BY DEF RemoveBegin, Start
<1>2. /\ Only(r) /\ pc'[r] = "removeCheck" /\ ids'[r] = ps /\ found'[r] = read
  BY <1>1 DEF Inv, TypeOK, Only
<1>3. read \in SUBSET (Couple \X Content)
  BY DEF Inv, TypeOK, Rows, Exists
<1>4. TypeOK'
  BY <1>1, <1>3 DEF Inv, TypeOK, PC, rows, history
<1>5. RemoveKnows(r)' /\ BreakUpKnows(r)'
  BY <1>1, <1>2 DEF RemoveKnows, BreakUpKnows, InRemove, Checked, InBreakUp, Exists, rows
<1> QED
  BY <1>1, <1>2, <1>4, <1>5, SameRows, OthersKnow DEF Inv

LEMMA RemoveCheckKeeps ==
  ASSUME Inv, NEW r \in Request, RemoveCheck(r)
  PROVE  Inv'
<1>1. UNCHANGED <<rows, files, history>> /\ pc[r] = "removeCheck"
  BY DEF RemoveCheck
<1>2. CASE Finish(r)
  BY <1>1, <1>2, FinishKeeps DEF history, Inv, TypeOK
<1>3. CASE /\ \A w \in found[r] : w[1] = caller[r]
           /\ Goto(r, "removeUnlink")
  <2>1. "removeUnlink" \in PC
    BY DEF PC
  <2>2. TypeOK'
    BY <1>1, <1>3, <2>1, GotoFacts DEF Inv, TypeOK, rows, history
  <2>3. /\ pc'[r] = "removeUnlink"
        /\ ids' = ids /\ found' = found /\ caller' = caller /\ Only(r)
    BY <1>3, <2>1, GotoFacts
  <2>4. RemoveKnows(r)
    BY DEF Inv
  <2>5. RemoveKnows(r)' /\ BreakUpKnows(r)'
    BY <1>1, <1>3, <2>3, <2>4
       DEF RemoveKnows, BreakUpKnows, InRemove, Checked, InBreakUp, rows, Exists
  <2> QED
    BY <1>1, <2>2, <2>3, <2>5, SameRows, OthersKnow DEF Inv
<1> QED
  BY <1>2, <1>3 DEF RemoveCheck

\* removeUnlink and breakUpUnlink
LEMMA UnlinkKeeps ==
  ASSUME Inv, NEW r \in Request, NEW to \in PC, UnlinkFound(r), Goto(r, to),
         UNCHANGED <<rows, origin>>,
         \/ pc[r] = "removeUnlink" /\ to = "removeDelete"
         \/ pc[r] = "breakUpUnlink" /\ to = "breakUpDelete"
  PROVE  Inv'
<1>1. TypeOK'
  BY GotoFacts, UnlinkType DEF Inv, TypeOK, rows
<1>2. /\ pc'[r] = to /\ ids' = ids /\ found' = found /\ caller' = caller /\ Only(r)
  BY GotoFacts
<1>3. RemoveKnows(r) /\ BreakUpKnows(r)
  BY DEF Inv
<1>4. RemoveKnows(r)' /\ BreakUpKnows(r)'
  BY <1>2, <1>3 DEF RemoveKnows, BreakUpKnows, InRemove, Checked, InBreakUp, rows, Exists
<1> QED
  BY <1>1, <1>2, <1>4, SameRows, OthersKnow DEF Inv

LEMMA RemoveDeleteKeeps ==
  ASSUME Inv, NEW r \in Request, RemoveDelete(r)
  PROVE  Inv'
<1>1. DeleteRows(ids[r]) /\ Finish(r) /\ UNCHANGED <<alive, fresh, files, history>>
  BY DEF RemoveDelete
<1>2. TypeOK'
  BY <1>1, FinishFacts, DeleteFacts DEF Inv, TypeOK, history
<1>3. PhotoHasCouple'
  BY <1>1, DeleteFacts DEF Inv, PhotoHasCouple
<1> QED
  BY <1>1, <1>2, <1>3, FinishFacts, DeleteFacts, OthersKnow DEF Inv

LEMMA BreakUpBeginKeeps ==
  ASSUME Inv, NEW r \in Request, NEW c \in Couple, BreakUpBegin(r, c)
  PROVE  Inv'
<1>1. /\ pc[r] = "idle" /\ pc' = [pc EXCEPT ![r] = "breakUpList"]
      /\ caller' = [caller EXCEPT ![r] = c]
      /\ UNCHANGED <<rows, files, history, todo, ids, found>>
  BY DEF BreakUpBegin, Start
<1>2. Only(r) /\ pc'[r] = "breakUpList" /\ caller'[r] = c /\ found' = found
  BY <1>1 DEF Inv, TypeOK, Only
<1>3. TypeOK'
  BY <1>1 DEF Inv, TypeOK, PC, rows, history
<1>4. found[r] = {}
  BY <1>1 DEF Inv, BreakUpKnows
<1>5. RemoveKnows(r)' /\ BreakUpKnows(r)'
  BY <1>2, <1>4 DEF RemoveKnows, BreakUpKnows, InRemove, Checked, InBreakUp
<1> QED
  BY <1>1, <1>2, <1>3, <1>5, SameRows, OthersKnow DEF Inv

LEMMA BreakUpListKeeps ==
  ASSUME Inv, NEW r \in Request, BreakUpList(r)
  PROVE  Inv'
<1> DEFINE read == {<<photoCouple[p], photoFile[p]>> :
                      p \in {q \in Photo : photoCouple[q] = caller[r]}}
<1>1. /\ pc[r] = "breakUpList" /\ pc' = [pc EXCEPT ![r] = "breakUpUnlink"]
      /\ found' = [found EXCEPT ![r] = read]
      /\ UNCHANGED <<rows, files, history, caller, todo, ids>>
  BY DEF BreakUpList
<1>2. Only(r) /\ pc'[r] = "breakUpUnlink" /\ caller' = caller /\ found'[r] = read
  BY <1>1 DEF Inv, TypeOK, Only
<1>3. caller[r] \in Couple /\ caller[r] # None
  BY <1>1, NoneAssumption DEF Inv, BreakUpKnows, InBreakUp
<1>4. read \in SUBSET (Couple \X Content)
  <2>1. \A p \in Photo : photoCouple[p] = caller[r] => photoFile[p] \in Content
    BY <1>3 DEF Inv, TypeOK, Rows
  <2> QED
    BY <1>3, <2>1
<1>5. TypeOK'
  BY <1>1, <1>4 DEF Inv, TypeOK, PC, rows, history
<1>6. RemoveKnows(r)' /\ BreakUpKnows(r)'
  BY <1>2, <1>3 DEF RemoveKnows, BreakUpKnows, InRemove, Checked, InBreakUp
<1> QED
  BY <1>1, <1>2, <1>5, <1>6, SameRows, OthersKnow DEF Inv

LEMMA BreakUpDeleteKeeps ==
  ASSUME Inv, NEW r \in Request, BreakUpDelete(r)
  PROVE  Inv'
<1> DEFINE theirs == {p \in Photo : photoCouple[p] = caller[r]}
<1>1. /\ DeleteRows(theirs) /\ Finish(r) /\ alive' = alive \ {caller[r]}
      /\ UNCHANGED <<fresh, files, history>>
  BY DEF BreakUpDelete
<1>2. TypeOK'
  BY <1>1, FinishFacts, DeleteFacts DEF Inv, TypeOK, history
<1>3. PhotoHasCouple'
  BY <1>1, DeleteFacts DEF Inv, PhotoHasCouple
<1> QED
  BY <1>1, <1>2, <1>3, FinishFacts, DeleteFacts, OthersKnow DEF Inv

LEMMA AbandonKeeps ==
  ASSUME Inv, NEW r \in Request, Abandon(r)
  PROVE  Inv'
<1>1. InHand(r) \subseteq Content
  BY DEF Inv, TypeOK, InHand
<1>2. damaged' \subseteq Content
  BY <1>1 DEF Abandon, Inv, TypeOK
<1> QED
  BY <1>2, FinishKeeps DEF Abandon

LEMMA InvNext == Inv /\ [Next]_vars => Inv'
<1> SUFFICES ASSUME Inv, [Next]_vars PROVE Inv'
  OBVIOUS
<1>1. ASSUME NEW r \in Request, UploadFail(r) PROVE Inv'
  BY <1>1, FinishKeeps DEF UploadFail, history, Inv, TypeOK
<1>2. ASSUME NEW r \in Request, RemoveUnlink(r) PROVE Inv'
  BY <1>2, UnlinkKeeps DEF RemoveUnlink, PC
<1>3. ASSUME NEW r \in Request, BreakUpUnlink(r) PROVE Inv'
  BY <1>3, UnlinkKeeps DEF BreakUpUnlink, PC
<1>4. CASE UNCHANGED vars
  BY <1>4 DEF vars, Inv, TypeOK, Rows, Exists, PhotoHasCouple, RemoveKnows, BreakUpKnows,
              InRemove, Checked, InBreakUp
<1> QED
  BY <1>1, <1>2, <1>3, <1>4, UploadBeginKeeps, UploadWriteKeeps, UploadInsertKeeps,
     RemoveBeginKeeps, RemoveCheckKeeps, RemoveDeleteKeeps, BreakUpBeginKeeps,
     BreakUpListKeeps, BreakUpDeleteKeeps, AbandonKeeps DEF Next

LEMMA Invariance == Spec => []Inv
BY InvInit, InvNext, PTL DEF Spec

\* The state of the gallery has its type.
THEOREM TypeCorrect == Spec => []TypeOK
<1>1. Inv => TypeOK
  BY DEF Inv
<1> QED
  BY <1>1, Invariance, PTL

\* No row outlives its couple, whichever of insert and cascade comes first.
THEOREM PhotosHaveCouples == Spec => []PhotoHasCouple
<1>1. Inv => PhotoHasCouple
  BY DEF Inv
<1> QED
  BY <1>1, Invariance, PTL

\* Photos are removed by the requests of their couple only: what a request has
\* checked is still true of the rows it deletes two awaits later.
THEOREM OwnersRemove == Spec => OnlyOwnersRemove
<1>1. ASSUME Inv, [Next]_vars PROVE RemovedByOwner \/ UNCHANGED vars
  <2> SUFFICES ASSUME Next, NEW p \in Photo, Exists(p), photoCouple'[p] = None
               PROVE  \E r \in Request : /\ pc[r] # "idle" /\ pc'[r] = "idle"
                                         /\ caller[r] = photoCouple[p]
    BY <1>1 DEF RemovedByOwner
  <2>1. ~UNCHANGED rows
    BY DEF rows, Exists
  <2>2. ASSUME NEW r \in Request, NEW f \in Content, UploadInsert(r, f) PROVE FALSE
    <3>1. PICK q \in fresh : /\ photoCouple' = [photoCouple EXCEPT ![q] = caller[r]]
                             /\ caller[r] \in Couple
      BY <2>2, <1>1 DEF UploadInsert, Inv, TypeOK
    <3> QED
      BY <3>1, <1>1, NoneAssumption DEF Inv, TypeOK, Exists
  <2>3. ASSUME NEW r \in Request, RemoveDelete(r)
        PROVE  pc[r] # "idle" /\ pc'[r] = "idle" /\ caller[r] = photoCouple[p]
    <3>1. pc[r] = "removeDelete" /\ p \in ids[r] /\ Finish(r)
      BY <2>3, <1>1 DEF RemoveDelete, DeleteRows, Inv, TypeOK, Exists
    <3>2. <<photoCouple[p], photoFile[p]>> \in found[r] /\ \A w \in found[r] : w[1] = caller[r]
      BY <3>1, <1>1 DEF Inv, RemoveKnows, InRemove, Checked
    <3> QED
      BY <3>1, <3>2, <1>1, FinishFacts
  <2>4. ASSUME NEW r \in Request, BreakUpDelete(r)
        PROVE  pc[r] # "idle" /\ pc'[r] = "idle" /\ caller[r] = photoCouple[p]
    <3>1. pc[r] = "breakUpDelete" /\ photoCouple[p] = caller[r] /\ Finish(r)
      BY <2>4, <1>1 DEF BreakUpDelete, DeleteRows, Inv, TypeOK, Exists
    <3> QED
      BY <3>1, <1>1, FinishFacts
  <2> QED
    BY <2>1, <2>2, <2>3, <2>4
       DEF Next, UploadBegin, UploadWrite, UploadFail, RemoveBegin, RemoveCheck,
           RemoveUnlink, BreakUpBegin, BreakUpList, BreakUpUnlink, Abandon
<1> QED
  BY <1>1, Invariance, PTL DEF Spec, OnlyOwnersRemove

-----------------------------------------------------------------------------
\* What holds besides if no bytes are uploaded twice.

FoundFiles(r) == {w[2] : w \in found[r]}

\* Each content has one uploader, one row, and one request that uploads it.
RowsOwned ==
  /\ \A p \in Photo : Exists(p) => origin[photoFile[p]] = photoCouple[p]
  /\ \A p, q \in Photo : Exists(p) /\ photoFile[p] = photoFile[q] => p = q
FilesKnown == \A f \in files : origin[f] # None
FoundOwned == \A r \in Request : \A w \in found[r] : origin[w[2]] = w[1]
TodoIsNew ==
  \A r \in Request : \A f \in todo[r] :
    /\ origin[f] = caller[r] /\ caller[r] # None
    /\ \A p \in Photo : photoFile[p] # f
    /\ \A s \in Request : f \notin FoundFiles(s) /\ (f \in todo[s] => s = r)

\* The stages of a request.
Stages ==
  \A r \in Request :
    /\ ~InUpload(r) => todo[r] = {}
    /\ InUpload(r) \/ pc[r] = "idle" => found[r] = {}
    /\ pc[r] = "uploadInsert" => todo[r] \subseteq files
    /\ Unlinked(r) => FoundFiles(r) \intersect files \subseteq damaged

\* A removal removes each photo whose file it unlinks.
RemoveNames ==
  \A r \in Request : InRemove(r) =>
    \A p \in Photo : photoFile[p] \in FoundFiles(r) => p \in ids[r]

\* Who has unlinked the file of a photo that is still listed has it in hand.
MissingIsInHand ==
  \A p \in Photo : Exists(p) =>
    \/ photoFile[p] \in files \union damaged
    \/ \E r \in Request : Unlinked(r) /\ photoFile[p] \in FoundFiles(r)

OnceInv ==
  /\ RowsOwned /\ FilesKnown /\ FoundOwned /\ TodoIsNew /\ Stages /\ RemoveNames
  /\ MissingIsInHand
  /\ OrphanIsTransient

LEMMA OnceInit == Init => OnceInv
BY DEF Init, OnceInv, RowsOwned, FilesKnown, FoundOwned, TodoIsNew, Stages, RemoveNames,
       MissingIsInHand, OrphanIsTransient, Exists, InUpload, InRemove, Unlinked, FoundFiles

LEMMA FoundFilesType ==
  ASSUME TypeOK
  PROVE  \A r \in Request : FoundFiles(r) \subseteq Content
BY DEF TypeOK, FoundFiles

\* What another request has read, and where it is, stays.
LEMMA OthersSame ==
  ASSUME NEW r \in Request, Only(r)
  PROVE  \A s \in Request : s # r =>
           /\ FoundFiles(s)' = FoundFiles(s) /\ InUpload(s)' = InUpload(s)
           /\ InRemove(s)' = InRemove(s) /\ Unlinked(s)' = Unlinked(s)
BY DEF Only, FoundFiles, InUpload, InRemove, Unlinked

\* A content that nobody has uploaded is nowhere.
LEMMA NewIsNowhere ==
  ASSUME Inv, OnceInv, NEW f \in Content, origin[f] = None
  PROVE  /\ f \notin files
         /\ \A p \in Photo : photoFile[p] # f
         /\ \A s \in Request : f \notin FoundFiles(s) /\ f \notin todo[s]
<1>1. f # None
  BY NoneAssumption
<1>2. f \notin files
  BY DEF OnceInv, FilesKnown
<1>3. \A p \in Photo : photoFile[p] # f
  BY <1>1 DEF Inv, Rows, OnceInv, RowsOwned, Exists
<1>4. ASSUME NEW s \in Request, f \in FoundFiles(s) PROVE FALSE
  <2>1. PICK w \in found[s] : w[2] = f
    BY <1>4 DEF FoundFiles
  <2>2. w[1] \in Couple /\ origin[f] = w[1]
    BY <2>1 DEF Inv, TypeOK, OnceInv, FoundOwned
  <2> QED
    BY <2>2, NoneAssumption
<1>5. \A s \in Request : f \notin todo[s]
  BY DEF OnceInv, TodoIsNew
<1> QED
  BY <1>2, <1>3, <1>4, <1>5

LEMMA UploadBeginOnce ==
  ASSUME Inv, OnceInv, ~Reuse, NEW r \in Request, NEW c \in Couple,
         NEW fs \in SUBSET Content, UploadBegin(r, c, fs)
  PROVE  OnceInv'
<1>1. /\ \A f \in fs : origin[f] = None
      /\ pc[r] = "idle" /\ pc' = [pc EXCEPT ![r] = "uploadWrite"]
      /\ caller' = [caller EXCEPT ![r] = c] /\ todo' = [todo EXCEPT ![r] = fs]
      /\ origin' = [f \in Content |-> IF f \in fs THEN c ELSE origin[f]]
      /\ UNCHANGED <<rows, files, damaged, ids, found>>
  BY DEF UploadBegin, Start
<1>2. /\ Only(r) /\ pc'[r] = "uploadWrite" /\ caller'[r] = c /\ todo'[r] = fs
      /\ found' = found /\ files' = files /\ damaged' = damaged /\ ids' = ids
      /\ photoCouple' = photoCouple /\ photoFile' = photoFile /\ alive' = alive
  BY <1>1 DEF Inv, TypeOK, Only, rows
<1>3. \A s \in Request : FoundFiles(s)' = FoundFiles(s)
  BY <1>2 DEF FoundFiles
<1>4. \A f \in fs : /\ f \notin files
                    /\ \A p \in Photo : photoFile[p] # f
                    /\ \A s \in Request : f \notin FoundFiles(s) /\ f \notin todo[s]
  BY <1>1, NewIsNowhere
<1>5. \A f \in Content : f \notin fs => origin'[f] = origin[f]
  BY <1>1
<1>6. \A f \in fs : origin'[f] = c /\ c # None
  BY <1>1, NoneAssumption
<1>7. RowsOwned'
  <2>1. \A p \in Photo : Exists(p) => photoFile[p] \in Content
    BY DEF Inv, TypeOK, Rows, Exists
  <2> QED
    BY <1>2, <1>4, <1>5, <2>1 DEF OnceInv, RowsOwned, Exists
<1>8. FilesKnown'
  BY <1>2, <1>4, <1>5 DEF Inv, TypeOK, OnceInv, FilesKnown
<1>9. FoundOwned'
  <2>1. \A s \in Request : \A w \in found[s] : w[2] \in Content /\ w[2] \in FoundFiles(s)
    BY DEF Inv, TypeOK, FoundFiles
  <2> QED
    BY <1>2, <1>4, <1>5, <2>1 DEF OnceInv, FoundOwned
<1>10. TodoIsNew'
  <2>1. \A s \in Request : s # r => todo'[s] = todo[s] /\ caller'[s] = caller[s]
    BY <1>2 DEF Only
  <2>2. \A s \in Request : todo[s] \subseteq Content
    BY DEF Inv, TypeOK
  <2> QED
    BY <1>2, <1>3, <1>4, <1>5, <1>6, <2>1, <2>2 DEF OnceInv, TodoIsNew
<1>11. Stages'
  <2>1. found[r] = {}
    BY <1>1 DEF OnceInv, Stages
  <2> QED
    BY <1>2, <1>3, <2>1, OthersSame DEF OnceInv, Stages, InUpload, Unlinked, Only
<1>12. RemoveNames'
  BY <1>2, <1>3, OthersSame DEF OnceInv, RemoveNames, InRemove
<1>13. MissingIsInHand'
  <2>1. ~Unlinked(r)
    BY <1>1 DEF Unlinked
  <2> QED
    BY <1>2, <1>3, <2>1, OthersSame DEF OnceInv, MissingIsInHand, Exists
<1>14. OrphanIsTransient'
  <2>1. \A s \in Request : pc[s] = "uploadInsert" => pc'[s] = pc[s] /\ todo'[s] = todo[s]
    BY <1>1, <1>2 DEF Only
  <2>2. \A f \in files : origin'[f] = origin[f]
    BY <1>4, <1>5 DEF Inv, TypeOK
  <2> QED
    BY <1>2, <2>1, <2>2 DEF OnceInv, OrphanIsTransient
<1> QED
  BY <1>7, <1>8, <1>9, <1>10, <1>11, <1>12, <1>13, <1>14 DEF OnceInv

LEMMA UploadWriteOnce ==
  ASSUME Inv, OnceInv, NEW r \in Request, UploadWrite(r)
  PROVE  OnceInv'
<1>1. /\ pc[r] = "uploadWrite" /\ pc'[r] = "uploadInsert"
      /\ files' = files \union todo[r] /\ Only(r)
      /\ UNCHANGED <<alive, photoCouple, photoFile, fresh, origin, damaged,
                     caller, todo, ids, found>>
  BY GotoFacts DEF UploadWrite, PC, rows, history
<1>2. \A s \in Request : FoundFiles(s)' = FoundFiles(s)
  BY <1>1 DEF FoundFiles
<1>3. \A s \in Request : \A f \in todo[r] : f \notin FoundFiles(s) /\ origin[f] # None
  BY DEF OnceInv, TodoIsNew
<1>4. RowsOwned' /\ FilesKnown' /\ FoundOwned'
  BY <1>1, <1>3 DEF OnceInv, RowsOwned, FilesKnown, FoundOwned, Exists
<1>5. TodoIsNew'
  BY <1>1, <1>2 DEF OnceInv, TodoIsNew
<1>6. Stages'
  BY <1>1, <1>2, <1>3, OthersSame DEF OnceInv, Stages, InUpload, Unlinked, Only
<1>7. RemoveNames'
  BY <1>1, <1>2, OthersSame DEF OnceInv, RemoveNames, InRemove
<1>8. MissingIsInHand'
  <2>1. ~Unlinked(r)
    BY <1>1 DEF Unlinked
  <2> QED
    BY <1>1, <1>2, <2>1, OthersSame DEF OnceInv, MissingIsInHand, Exists
<1>9. OrphanIsTransient'
  BY <1>1 DEF OnceInv, OrphanIsTransient, Only
<1> QED
  BY <1>4, <1>5, <1>6, <1>7, <1>8, <1>9 DEF OnceInv

LEMMA UploadInsertOnce ==
  ASSUME Inv, OnceInv, NEW r \in Request, NEW f \in Content, UploadInsert(r, f)
  PROVE  OnceInv'
<1>1. PICK p \in fresh :
        /\ photoCouple' = [photoCouple EXCEPT ![p] = caller[r]]
        /\ photoFile' = [photoFile EXCEPT ![p] = f]
        /\ fresh' = fresh \ {p}
  BY DEF UploadInsert
<1>2. /\ pc[r] = "uploadInsert" /\ f \in todo[r]
      /\ UNCHANGED <<alive, files, origin, damaged>>
  BY DEF UploadInsert, history
<1>3. \/ Finish(r) /\ todo[r] = {f}
      \/ /\ todo' = [todo EXCEPT ![r] = @ \ {f}]
         /\ UNCHANGED <<pc, caller, ids, found>>
  BY DEF UploadInsert
<1>4. /\ p \in Photo /\ ~Exists(p) /\ photoFile[p] = None /\ f # None
      /\ photoCouple'[p] = caller[r] /\ photoFile'[p] = f
      /\ \A q \in Photo : q # p => photoCouple'[q] = photoCouple[q] /\ photoFile'[q] = photoFile[q]
  BY <1>1, NoneAssumption DEF Inv, TypeOK, Rows, Exists
<1>5. /\ origin[f] = caller[r] /\ caller[r] # None
      /\ \A q \in Photo : photoFile[q] # f
      /\ \A s \in Request : f \notin FoundFiles(s) /\ (f \in todo[s] => s = r)
      /\ todo[r] \subseteq files /\ found[r] = {}
  BY <1>2 DEF OnceInv, TodoIsNew, Stages, InUpload
<1>6. /\ Only(r) /\ found' = found /\ ids' \in [Request -> SUBSET Photo]
      /\ todo'[r] = todo[r] \ {f}
      /\ pc'[r] \in {"idle", "uploadInsert"}
      /\ pc'[r] = "idle" => todo'[r] = {}
      /\ todo'[r] # {} => caller'[r] = caller[r]
  <2>1. CASE Finish(r) /\ todo[r] = {f}
    <3>1. found' = found
      BY <1>5, <2>1 DEF Finish, Inv, TypeOK
    <3> QED
      BY <2>1, <3>1, FinishFacts
  <2>2. CASE /\ todo' = [todo EXCEPT ![r] = @ \ {f}]
             /\ UNCHANGED <<pc, caller, ids, found>>
    BY <1>2, <2>2 DEF Inv, TypeOK, Only
  <2> QED
    BY <1>3, <2>1, <2>2
<1>7. \A s \in Request : FoundFiles(s)' = FoundFiles(s)
  BY <1>6 DEF FoundFiles
<1>8. RowsOwned'
  BY <1>2, <1>4, <1>5 DEF OnceInv, RowsOwned, Exists
<1>9. FilesKnown' /\ FoundOwned'
  BY <1>2, <1>6 DEF OnceInv, FilesKnown, FoundOwned
<1>10. TodoIsNew'
  <2> SUFFICES ASSUME NEW s \in Request, NEW g \in todo'[s]
               PROVE  /\ origin[g] = caller'[s] /\ caller'[s] # None
                      /\ \A q \in Photo : photoFile'[q] # g
                      /\ \A u \in Request : g \notin FoundFiles(u) /\ (g \in todo'[u] => u = s)
    BY <1>2, <1>7 DEF TodoIsNew
  <2>1. g \in todo[s] /\ g # f /\ caller'[s] = caller[s]
    BY <1>5, <1>6 DEF Only
  <2>2. \A u \in Request : todo'[u] \subseteq todo[u]
    BY <1>6 DEF Only
  <2> QED
    BY <1>4, <2>1, <2>2 DEF OnceInv, TodoIsNew
<1>11. Stages'
  BY <1>2, <1>5, <1>6, <1>7, OthersSame DEF OnceInv, Stages, InUpload, Unlinked, Only
<1>12. RemoveNames'
  <2> SUFFICES ASSUME NEW s \in Request, InRemove(s)', NEW q \in Photo,
                      photoFile'[q] \in FoundFiles(s)
               PROVE  q \in ids'[s]
    BY <1>7 DEF RemoveNames
  <2>1. s # r
    BY <1>6 DEF InRemove
  <2>2. InRemove(s) /\ ids'[s] = ids[s]
    BY <1>6, <2>1 DEF InRemove, Only
  <2> QED
    BY <1>4, <1>5, <2>2 DEF OnceInv, RemoveNames
<1>13. MissingIsInHand'
  <2> SUFFICES ASSUME NEW q \in Photo, Exists(q)', photoFile'[q] \notin files \union damaged
               PROVE  \E s \in Request : Unlinked(s)' /\ photoFile'[q] \in FoundFiles(s)'
    BY <1>2 DEF MissingIsInHand
  <2>1. q # p
    BY <1>2, <1>4, <1>5
  <2>2. PICK s \in Request : Unlinked(s) /\ photoFile[q] \in FoundFiles(s)
    BY <1>4, <2>1 DEF OnceInv, MissingIsInHand, Exists
  <2>3. s # r
    BY <1>2, <2>2 DEF Unlinked
  <2> QED
    BY <1>4, <1>6, <2>1, <2>2, <2>3, OthersSame
<1>14. OrphanIsTransient'
  <2> SUFFICES ASSUME NEW g \in files, g \notin damaged, origin[g] \in alive
               PROVE  \/ \E q \in Photo : photoFile'[q] = g
                      \/ \E s \in Request : pc'[s] = "uploadInsert" /\ g \in todo'[s]
    BY <1>2 DEF OrphanIsTransient
  <2>1. CASE \E q \in Photo : photoFile[q] = g
    <3>1. g # None
      BY NoneAssumption DEF Inv, TypeOK
    <3> QED
      BY <1>4, <2>1, <3>1
  <2>2. ASSUME NEW s \in Request, pc[s] = "uploadInsert", g \in todo[s]
        PROVE  \/ \E q \in Photo : photoFile'[q] = g
               \/ \E u \in Request : pc'[u] = "uploadInsert" /\ g \in todo'[u]
    <3>1. CASE g = f
      BY <1>4, <3>1
    <3>2. CASE g # f /\ s = r
      BY <1>6, <2>2, <3>2
    <3>3. CASE s # r
      BY <1>6, <2>2, <3>3 DEF Only
    <3> QED
      BY <3>1, <3>2, <3>3
  <2> QED
    BY <2>1, <2>2 DEF OnceInv, OrphanIsTransient
<1> QED
  BY <1>8, <1>9, <1>10, <1>11, <1>12, <1>13, <1>14 DEF OnceInv

\* A request ends without touching rows or files.
LEMMA FinishOnce ==
  ASSUME Inv, OnceInv, NEW r \in Request, Finish(r), UNCHANGED <<rows, files, origin>>,
         damaged \subseteq damaged',
         Unlinked(r) => FoundFiles(r) \subseteq damaged',
         pc[r] = "uploadInsert" => todo[r] \subseteq damaged' \/ caller[r] \notin alive
  PROVE  OnceInv'
<1>1. /\ pc'[r] = "idle" /\ todo'[r] = {} /\ found'[r] = {} /\ Only(r)
      /\ UNCHANGED <<alive, photoCouple, photoFile, files, origin>>
  BY FinishFacts DEF rows
<1>2. FoundFiles(r)' = {}
  BY <1>1 DEF FoundFiles
<1>3. ~InUpload(r)' /\ ~InRemove(r)' /\ ~Unlinked(r)'
  BY <1>1 DEF InUpload, InRemove, Unlinked
<1>4. RowsOwned' /\ FilesKnown'
  BY <1>1 DEF OnceInv, RowsOwned, FilesKnown, Exists
<1>5. FoundOwned'
  BY <1>1 DEF OnceInv, FoundOwned, Only
<1>6. TodoIsNew'
  BY <1>1, <1>2, OthersSame DEF OnceInv, TodoIsNew, Only
<1>7. Stages'
  BY <1>1, <1>2, <1>3, OthersSame DEF OnceInv, Stages, Only
<1>8. RemoveNames'
  BY <1>1, <1>2, <1>3, OthersSame DEF OnceInv, RemoveNames, Only
<1>9. MissingIsInHand'
  BY <1>1, <1>2, <1>3, OthersSame DEF OnceInv, MissingIsInHand, Exists
<1>10. OrphanIsTransient'
  <2> SUFFICES ASSUME NEW f \in files, f \notin damaged', origin[f] \in alive,
                      \A p \in Photo : photoFile[p] # f
               PROVE  \E s \in Request : pc'[s] = "uploadInsert" /\ f \in todo'[s]
    BY <1>1 DEF OrphanIsTransient
  <2>1. PICK s \in Request : pc[s] = "uploadInsert" /\ f \in todo[s]
    BY DEF OnceInv, OrphanIsTransient
  <2>2. origin[f] = caller[s]
    BY <2>1 DEF OnceInv, TodoIsNew
  <2> QED
    BY <1>1, <2>1, <2>2 DEF Only
<1> QED
  BY <1>4, <1>5, <1>6, <1>7, <1>8, <1>9, <1>10 DEF OnceInv

\* A request has read rows, to remove them or to end their couple.
LEMMA ReadOnce ==
  ASSUME Inv, OnceInv, NEW r \in Request, NEW ps \in SUBSET Photo,
         \A p \in ps : Exists(p),
         found'[r] = {<<photoCouple[p], photoFile[p]>> : p \in ps},
         Only(r), UNCHANGED <<rows, files, history>>, todo[r] = {}, todo'[r] = {},
         ~Unlinked(r), ~Unlinked(r)', ~InUpload(r), ~InUpload(r)', pc'[r] # "idle",
         InRemove(r)' => ps \subseteq ids'[r]
  PROVE  OnceInv'
<1>1. UNCHANGED <<alive, photoCouple, photoFile, files, origin, damaged>>
  BY DEF rows, history
<1>2. \A f \in FoundFiles(r)' : \E p \in ps : photoFile[p] = f
  BY DEF FoundFiles
<1>3. RowsOwned' /\ FilesKnown'
  BY <1>1 DEF OnceInv, RowsOwned, FilesKnown, Exists
<1>4. FoundOwned'
  <2>1. \A w \in found'[r] : origin[w[2]] = w[1]
    BY DEF OnceInv, RowsOwned
  <2> QED
    BY <1>1, <2>1 DEF OnceInv, FoundOwned, Only
<1>5. TodoIsNew'
  <2> SUFFICES ASSUME NEW s \in Request, NEW f \in todo'[s]
               PROVE  /\ origin[f] = caller'[s] /\ caller'[s] # None
                      /\ \A p \in Photo : photoFile[p] # f
                      /\ \A u \in Request : f \notin FoundFiles(u)' /\ (f \in todo'[u] => u = s)
    BY <1>1 DEF TodoIsNew
  <2>1. s # r /\ f \in todo[s] /\ caller'[s] = caller[s]
    BY DEF Only
  <2>2. \A p \in Photo : photoFile[p] # f
    BY <2>1 DEF OnceInv, TodoIsNew
  <2>3. \A u \in Request : f \notin FoundFiles(u)'
    BY <1>2, <2>1, <2>2, OthersSame DEF OnceInv, TodoIsNew
  <2> QED
    BY <2>1, <2>2, <2>3 DEF OnceInv, TodoIsNew, Only
<1>6. Stages'
  <2>1. pc'[r] # "uploadInsert"
    BY DEF InUpload
  <2> QED
    BY <1>1, <2>1, OthersSame DEF OnceInv, Stages, Only
<1>7. RemoveNames'
  <2> SUFFICES ASSUME NEW s \in Request, InRemove(s)', NEW p \in Photo,
                      photoFile[p] \in FoundFiles(s)'
               PROVE  p \in ids'[s]
    BY <1>1 DEF RemoveNames
  <2>1. CASE s = r
    <3>1. PICK q \in ps : photoFile[q] = photoFile[p]
      BY <1>2, <2>1
    <3>2. q = p
      BY <3>1 DEF OnceInv, RowsOwned
    <3> QED
      BY <2>1, <3>2
  <2>2. CASE s # r
    BY <2>2, OthersSame DEF OnceInv, RemoveNames, Only
  <2> QED
    BY <2>1, <2>2
<1>8. MissingIsInHand'
  BY <1>1, OthersSame DEF OnceInv, MissingIsInHand, Exists
<1>9. OrphanIsTransient'
  <2>1. pc[r] # "uploadInsert"
    BY DEF InUpload
  <2> QED
    BY <1>1, <2>1 DEF OnceInv, OrphanIsTransient, Only
<1> QED
  BY <1>3, <1>4, <1>5, <1>6, <1>7, <1>8, <1>9 DEF OnceInv

LEMMA RemoveBeginOnce ==
  ASSUME Inv, OnceInv, NEW r \in Request, NEW c \in Couple, NEW ps \in SUBSET Photo,
         RemoveBegin(r, c, ps)
  PROVE  OnceInv'
<1> DEFINE there == {p \in ps : Exists(p)}
           read == {<<photoCouple[p], photoFile[p]>> : p \in there}
<1>1. /\ pc[r] = "idle" /\ pc' = [pc EXCEPT ![r] = "removeCheck"]
      /\ caller' = [caller EXCEPT ![r] = c] /\ ids' = [ids EXCEPT ![r] = ps]
      /\ found' = [found EXCEPT ![r] = read]
      /\ UNCHANGED <<rows, files, history, todo>>
  BY DEF RemoveBegin, Start
<1>2. /\ Only(r) /\ pc'[r] = "removeCheck" /\ ids'[r] = ps /\ found'[r] = read
  BY <1>1 DEF Inv, TypeOK, Only
<1>3. todo[r] = {} /\ todo'[r] = {}
  BY <1>1 DEF OnceInv, Stages, InUpload
<1>4. ~Unlinked(r) /\ ~Unlinked(r)' /\ ~InUpload(r) /\ ~InUpload(r)'
  BY <1>1, <1>2 DEF Unlinked, InUpload
<1>5. there \in SUBSET Photo
  OBVIOUS
<1> HIDE DEF there
<1>6. \A p \in there : Exists(p)
  BY DEF there
<1>7. there \subseteq ids'[r]
  BY <1>2 DEF there
<1> QED
  BY <1>1, <1>2, <1>3, <1>4, <1>5, <1>6, <1>7, ReadOnce

LEMMA BreakUpListOnce ==
  ASSUME Inv, OnceInv, NEW r \in Request, BreakUpList(r)
  PROVE  OnceInv'
<1> DEFINE theirs == {q \in Photo : photoCouple[q] = caller[r]}
           read == {<<photoCouple[p], photoFile[p]>> : p \in theirs}
<1>1. /\ pc[r] = "breakUpList" /\ pc' = [pc EXCEPT ![r] = "breakUpUnlink"]
      /\ found' = [found EXCEPT ![r] = read]
      /\ UNCHANGED <<rows, files, history, caller, todo, ids>>
  BY DEF BreakUpList
<1>2. Only(r) /\ pc'[r] = "breakUpUnlink" /\ found'[r] = read
  BY <1>1 DEF Inv, TypeOK, Only
<1>3. todo[r] = {} /\ todo'[r] = {}
  BY <1>1 DEF OnceInv, Stages, InUpload
<1>4. ~Unlinked(r) /\ ~Unlinked(r)' /\ ~InUpload(r) /\ ~InUpload(r)' /\ ~InRemove(r)'
  BY <1>1, <1>2 DEF Unlinked, InUpload, InRemove
<1>5. caller[r] # None
  BY <1>1, NoneAssumption DEF Inv, BreakUpKnows, InBreakUp
<1>6. theirs \in SUBSET Photo /\ \A p \in theirs : Exists(p)
  BY <1>5 DEF Exists
<1> HIDE DEF theirs
<1> QED
  BY <1>1, <1>2, <1>3, <1>4, <1>6, ReadOnce

\* A request goes on to a stage that makes no difference.
LEMMA GotoOnce ==
  ASSUME Inv, OnceInv, NEW r \in Request, NEW to \in PC, Goto(r, to),
         UNCHANGED <<rows, files, history>>,
         pc[r] = "removeCheck", to = "removeUnlink"
  PROVE  OnceInv'
<1>1. /\ pc'[r] = to /\ Only(r)
      /\ UNCHANGED <<alive, photoCouple, photoFile, files, origin, damaged,
                     caller, todo, ids, found>>
  BY GotoFacts DEF rows, history
<1>2. \A s \in Request : FoundFiles(s)' = FoundFiles(s)
  BY <1>1 DEF FoundFiles
<1>3. \A s \in Request : /\ InUpload(s)' = InUpload(s) /\ InRemove(s)' = InRemove(s)
                         /\ Unlinked(s)' = Unlinked(s) /\ (pc'[s] = "idle" <=> pc[s] = "idle")
                         /\ pc'[s] = "uploadInsert" <=> pc[s] = "uploadInsert"
  BY <1>1 DEF Only, InUpload, InRemove, Unlinked
<1> QED
  BY <1>1, <1>2, <1>3 DEF OnceInv, RowsOwned, FilesKnown, FoundOwned, TodoIsNew, Stages,
                          RemoveNames, MissingIsInHand, OrphanIsTransient, Exists

LEMMA BreakUpBeginOnce ==
  ASSUME Inv, OnceInv, NEW r \in Request, NEW c \in Couple, BreakUpBegin(r, c)
  PROVE  OnceInv'
<1>1. /\ pc[r] = "idle" /\ pc' = [pc EXCEPT ![r] = "breakUpList"]
      /\ UNCHANGED <<rows, files, history, todo, ids, found>>
  BY DEF BreakUpBegin, Start
<1>2. Only(r) /\ pc'[r] = "breakUpList"
  BY <1>1 DEF BreakUpBegin, Start, Inv, TypeOK, Only
<1>3. found[r] = {} /\ todo[r] = {} /\ found' = found /\ todo' = todo
  BY <1>1 DEF OnceInv, Stages, InUpload
<1>4. found'[r] = {<<photoCouple[p], photoFile[p]>> : p \in {}}
  BY <1>3
<1>5. ~Unlinked(r) /\ ~Unlinked(r)' /\ ~InUpload(r) /\ ~InUpload(r)' /\ ~InRemove(r)'
  BY <1>1, <1>2 DEF Unlinked, InUpload, InRemove
<1>6. {} \in SUBSET Photo /\ \A p \in {} : Exists(p)
  OBVIOUS
<1> QED
  BY <1>1, <1>2, <1>3, <1>4, <1>5, <1>6, ReadOnce

LEMMA UnlinkOnce ==
  ASSUME Inv, OnceInv, NEW r \in Request, NEW to \in PC, UnlinkFound(r), Goto(r, to),
         UNCHANGED <<rows, origin>>,
         \/ pc[r] = "removeUnlink" /\ to = "removeDelete"
         \/ pc[r] = "breakUpUnlink" /\ to = "breakUpDelete"
  PROVE  OnceInv'
<1>1. /\ pc'[r] = to /\ Only(r)
      /\ UNCHANGED <<alive, photoCouple, photoFile, origin, caller, todo, ids, found>>
  BY GotoFacts DEF rows
<1>2. todo[r] = {} /\ InHand(r) = FoundFiles(r)
  BY DEF OnceInv, Stages, InUpload, InHand, FoundFiles
<1>3. PICK kept \in SUBSET (files \intersect FoundFiles(r)) :
        /\ files' = (files \ FoundFiles(r)) \union kept
        /\ damaged' = damaged \union kept
  BY <1>2 DEF UnlinkFound
<1>4. \A s \in Request : FoundFiles(s)' = FoundFiles(s)
  BY <1>1 DEF FoundFiles
<1>5. /\ Unlinked(r)' /\ ~Unlinked(r) /\ ~InUpload(r)' /\ pc'[r] # "idle" /\ pc[r] # "idle"
      /\ InRemove(r)' = InRemove(r) /\ pc[r] # "uploadInsert" /\ ~InUpload(r)
  BY <1>1 DEF Unlinked, InUpload, InRemove
<1>6. files' \subseteq files /\ damaged \subseteq damaged'
  BY <1>3
<1>7. RowsOwned' /\ FilesKnown' /\ FoundOwned'
  BY <1>1, <1>6 DEF OnceInv, RowsOwned, FilesKnown, FoundOwned, Exists
<1>8. TodoIsNew'
  BY <1>1, <1>4 DEF OnceInv, TodoIsNew
<1>9. Stages'
  <2>1. ASSUME NEW s \in Request, pc'[s] = "uploadInsert" PROVE todo[s] \subseteq files'
    <3>1. s # r /\ pc[s] = "uploadInsert"
      BY <1>5, <2>1, <1>1 DEF Only, InUpload
    <3>2. todo[s] \subseteq files /\ \A f \in todo[s] : f \notin FoundFiles(r)
      BY <3>1 DEF OnceInv, Stages, TodoIsNew
    <3> QED
      BY <1>3, <3>2
  <2>2. ASSUME NEW s \in Request, Unlinked(s)'
        PROVE  FoundFiles(s) \intersect files' \subseteq damaged'
    <3>1. CASE s = r
      BY <1>3, <3>1
    <3>2. CASE s # r
      BY <1>1, <1>6, <2>2, <3>2, OthersSame DEF OnceInv, Stages
    <3> QED
      BY <3>1, <3>2
  <2>3. \A s \in Request : /\ ~InUpload(s)' => todo[s] = {}
                           /\ InUpload(s)' \/ pc'[s] = "idle" => found[s] = {}
    BY <1>1, <1>2, <1>5, OthersSame DEF OnceInv, Stages, Only
  <2> QED
    BY <1>1, <1>4, <2>1, <2>2, <2>3 DEF Stages
<1>10. RemoveNames'
  BY <1>1, <1>4, <1>5, OthersSame DEF OnceInv, RemoveNames
<1>11. MissingIsInHand'
  <2> SUFFICES ASSUME NEW p \in Photo, Exists(p), photoFile[p] \notin files' \union damaged'
               PROVE  \E s \in Request : Unlinked(s)' /\ photoFile[p] \in FoundFiles(s)
    BY <1>1, <1>4 DEF MissingIsInHand, Exists
  <2>1. CASE photoFile[p] \in files
    BY <1>3, <1>5, <2>1
  <2>2. CASE photoFile[p] \notin files
    <3>1. PICK s \in Request : Unlinked(s) /\ photoFile[p] \in FoundFiles(s)
      BY <1>6, <2>2 DEF OnceInv, MissingIsInHand
    <3> QED
      BY <1>1, <1>5, <3>1, OthersSame
  <2> QED
    BY <2>1, <2>2
<1>12. OrphanIsTransient'
  <2>1. \A s \in Request : pc[s] = "uploadInsert" => pc'[s] = "uploadInsert"
    BY <1>1, <1>5 DEF Only
  <2> QED
    BY <1>1, <1>6, <2>1 DEF OnceInv, OrphanIsTransient
<1> QED
  BY <1>7, <1>8, <1>9, <1>10, <1>11, <1>12 DEF OnceInv

\* Rows are deleted by a request that has unlinked what it had found.
LEMMA DeleteOnce ==
  ASSUME Inv, OnceInv, NEW r \in Request, NEW ps \in SUBSET Photo, DeleteRows(ps), Finish(r),
         Unlinked(r), alive' \subseteq alive, UNCHANGED <<files, origin, damaged>>,
         \A p \in Photo : photoFile[p] \in FoundFiles(r) => p \in ps,
         \A p \in ps : Exists(p) =>
           photoFile[p] \in FoundFiles(r) \/ photoCouple[p] \notin alive'
  PROVE  OnceInv'
<1>1. /\ pc'[r] = "idle" /\ todo'[r] = {} /\ found'[r] = {} /\ Only(r)
  BY FinishFacts
<1>2. FoundFiles(r)' = {}
  BY <1>1 DEF FoundFiles
<1>3. ~InUpload(r)' /\ ~InRemove(r)' /\ ~Unlinked(r)' /\ pc[r] # "uploadInsert"
  BY <1>1 DEF InUpload, InRemove, Unlinked
<1>4. /\ \A p \in ps : photoCouple'[p] = None /\ photoFile'[p] = None
      /\ \A p \in Photo : p \notin ps =>
           photoCouple'[p] = photoCouple[p] /\ photoFile'[p] = photoFile[p]
  BY DEF DeleteRows
<1>5. \A f \in Content : f # None
  BY NoneAssumption
<1>6. \A s \in Request : FoundFiles(s) \subseteq Content /\ todo[s] \subseteq Content
  BY FoundFilesType DEF Inv, TypeOK
<1>7. RowsOwned'
  BY <1>4 DEF Inv, Rows, OnceInv, RowsOwned, Exists
<1>8. FilesKnown' /\ FoundOwned'
  BY <1>1 DEF OnceInv, FilesKnown, FoundOwned, Only
<1>9. TodoIsNew'
  <2> SUFFICES ASSUME NEW s \in Request, NEW f \in todo'[s]
               PROVE  /\ origin[f] = caller'[s] /\ caller'[s] # None
                      /\ \A p \in Photo : photoFile'[p] # f
                      /\ \A u \in Request : f \notin FoundFiles(u)' /\ (f \in todo'[u] => u = s)
    BY DEF TodoIsNew
  <2>1. s # r /\ f \in todo[s] /\ caller'[s] = caller[s] /\ f # None
    BY <1>1, <1>5, <1>6 DEF Only
  <2>2. \A p \in Photo : photoFile'[p] # f
    BY <1>4, <2>1 DEF OnceInv, TodoIsNew
  <2> QED
    BY <1>1, <1>2, <2>1, <2>2, OthersSame DEF OnceInv, TodoIsNew, Only
<1>10. Stages'
  BY <1>1, <1>2, <1>3, OthersSame DEF OnceInv, Stages, Only
<1>11. RemoveNames'
  <2> SUFFICES ASSUME NEW s \in Request, InRemove(s)', NEW p \in Photo,
                      photoFile'[p] \in FoundFiles(s)'
               PROVE  p \in ids'[s]
    BY DEF RemoveNames
  <2>1. s # r /\ InRemove(s) /\ photoFile'[p] \in FoundFiles(s) /\ ids'[s] = ids[s]
    BY <1>1, <1>3, OthersSame DEF Only
  <2>2. photoFile'[p] = photoFile[p]
    BY <1>4, <1>5, <1>6, <2>1
  <2> QED
    BY <2>1, <2>2 DEF OnceInv, RemoveNames
<1>12. MissingIsInHand'
  <2> SUFFICES ASSUME NEW p \in Photo, Exists(p)', photoFile'[p] \notin files \union damaged
               PROVE  \E s \in Request : Unlinked(s)' /\ photoFile'[p] \in FoundFiles(s)'
    BY DEF MissingIsInHand
  <2>1. p \notin ps /\ Exists(p) /\ photoFile'[p] = photoFile[p]
    BY <1>4 DEF Exists
  <2>2. PICK s \in Request : Unlinked(s) /\ photoFile[p] \in FoundFiles(s)
    BY <2>1 DEF OnceInv, MissingIsInHand
  <2>3. s # r
    BY <2>1, <2>2
  <2> QED
    BY <1>1, <2>1, <2>2, <2>3, OthersSame
<1>13. OrphanIsTransient'
  <2> SUFFICES ASSUME NEW f \in files, f \notin damaged, origin[f] \in alive'
               PROVE  \/ \E p \in Photo : photoFile'[p] = f
                      \/ \E s \in Request : pc'[s] = "uploadInsert" /\ f \in todo'[s]
    BY DEF OrphanIsTransient
  <2>1. CASE \E p \in Photo : photoFile[p] = f
    <3>1. PICK p \in Photo : photoFile[p] = f
      BY <2>1
    <3>2. Exists(p) /\ origin[f] = photoCouple[p]
      BY <1>5, <3>1 DEF Inv, TypeOK, Rows, OnceInv, RowsOwned, Exists
    <3>3. f \notin FoundFiles(r)
      BY DEF OnceInv, Stages
    <3>4. p \notin ps
      BY <3>1, <3>2, <3>3
    <3> QED
      BY <1>4, <3>1, <3>4
  <2>2. CASE \E s \in Request : pc[s] = "uploadInsert" /\ f \in todo[s]
    BY <1>1, <1>3, <2>2 DEF Only
  <2> QED
    BY <2>1, <2>2 DEF OnceInv, OrphanIsTransient
<1> QED
  BY <1>7, <1>8, <1>9, <1>10, <1>11, <1>12, <1>13 DEF OnceInv

LEMMA RemoveDeleteOnce ==
  ASSUME Inv, OnceInv, NEW r \in Request, RemoveDelete(r)
  PROVE  OnceInv'
<1>1. /\ pc[r] = "removeDelete" /\ DeleteRows(ids[r]) /\ Finish(r)
      /\ alive' = alive /\ UNCHANGED <<files, origin, damaged>>
  BY DEF RemoveDelete, history
<1>2. Unlinked(r) /\ InRemove(r)
  BY <1>1 DEF Unlinked, InRemove
<1>3. ids[r] \in SUBSET Photo
  BY DEF Inv, TypeOK
<1>4. \A p \in Photo : photoFile[p] \in FoundFiles(r) => p \in ids[r]
  BY <1>2 DEF OnceInv, RemoveNames
<1>5. ASSUME NEW p \in ids[r], Exists(p) PROVE photoFile[p] \in FoundFiles(r)
  <2>1. <<photoCouple[p], photoFile[p]>> \in found[r]
    BY <1>2, <1>5 DEF Inv, RemoveKnows
  <2> QED
    BY <2>1 DEF FoundFiles
<1> QED
  BY <1>1, <1>2, <1>3, <1>4, <1>5, DeleteOnce

LEMMA BreakUpDeleteOnce ==
  ASSUME Inv, OnceInv, NEW r \in Request, BreakUpDelete(r)
  PROVE  OnceInv'
<1> DEFINE theirs == {p \in Photo : photoCouple[p] = caller[r]}
<1>1. /\ pc[r] = "breakUpDelete" /\ DeleteRows(theirs) /\ Finish(r)
      /\ alive' = alive \ {caller[r]} /\ UNCHANGED <<files, origin, damaged>>
  BY DEF BreakUpDelete, history
<1>2. Unlinked(r) /\ InBreakUp(r)
  BY <1>1 DEF Unlinked, InBreakUp
<1>3. ASSUME NEW p \in Photo, photoFile[p] \in FoundFiles(r) PROVE p \in theirs
  <2>1. PICK w \in found[r] : w[2] = photoFile[p]
    BY <1>3 DEF FoundFiles
  <2>2. w[1] = caller[r] /\ origin[photoFile[p]] = caller[r]
    BY <1>2, <2>1 DEF Inv, BreakUpKnows, OnceInv, FoundOwned
  <2>3. photoFile[p] # None
    BY <1>3, FoundFilesType, NoneAssumption DEF Inv
  <2> QED
    BY <2>2, <2>3 DEF Inv, Rows, OnceInv, RowsOwned, Exists
<1>4. theirs \in SUBSET Photo /\ \A p \in theirs : photoCouple[p] \notin alive'
  BY <1>1
<1>5. alive' \subseteq alive
  BY <1>1
<1> HIDE DEF theirs
<1> QED
  BY <1>1, <1>2, <1>3, <1>4, <1>5, DeleteOnce

LEMMA AbandonOnce ==
  ASSUME Inv, OnceInv, NEW r \in Request, Abandon(r)
  PROVE  OnceInv'
<1>1. /\ Finish(r) /\ UNCHANGED <<rows, files, origin>>
      /\ damaged' = IF pc[r] \in {"uploadInsert", "removeDelete", "breakUpDelete"}
                    THEN damaged \union InHand(r) ELSE damaged
  BY DEF Abandon
<1>2. InHand(r) = todo[r] \union FoundFiles(r)
  BY DEF InHand, FoundFiles
<1> QED
  BY <1>1, <1>2, FinishOnce DEF Unlinked

LEMMA OnceNext == Inv /\ OnceInv /\ ~Reuse /\ [Next]_vars => OnceInv'
<1> SUFFICES ASSUME Inv, OnceInv, ~Reuse, [Next]_vars PROVE OnceInv'
  OBVIOUS
<1>1. ASSUME NEW r \in Request, UploadFail(r) PROVE OnceInv'
  BY <1>1, FinishOnce DEF UploadFail, history, Unlinked
<1>2. ASSUME NEW r \in Request, RemoveCheck(r) PROVE OnceInv'
  <2>1. UNCHANGED <<rows, files, history>> /\ pc[r] = "removeCheck"
    BY <1>2 DEF RemoveCheck
  <2>2. CASE Finish(r)
    BY <2>1, <2>2, FinishOnce DEF history, Unlinked
  <2>3. CASE Goto(r, "removeUnlink")
    BY <2>1, <2>3, GotoOnce DEF PC
  <2> QED
    BY <1>2, <2>2, <2>3 DEF RemoveCheck
<1>3. ASSUME NEW r \in Request, RemoveUnlink(r) PROVE OnceInv'
  BY <1>3, UnlinkOnce DEF RemoveUnlink, PC
<1>4. ASSUME NEW r \in Request, BreakUpUnlink(r) PROVE OnceInv'
  BY <1>4, UnlinkOnce DEF BreakUpUnlink, PC
<1>5. CASE UNCHANGED vars
  BY <1>5 DEF vars, OnceInv, RowsOwned, FilesKnown, FoundOwned, TodoIsNew, Stages,
              RemoveNames, MissingIsInHand, OrphanIsTransient, Exists, FoundFiles,
              InUpload, InRemove, Unlinked
<1> QED
  BY <1>1, <1>2, <1>3, <1>4, <1>5, UploadBeginOnce, UploadWriteOnce, UploadInsertOnce,
     RemoveBeginOnce, RemoveDeleteOnce, BreakUpBeginOnce, BreakUpListOnce,
     BreakUpDeleteOnce, AbandonOnce DEF Next

LEMMA OnceInvariance ==
  ASSUME ~Reuse
  PROVE  Spec => []OnceInv
<1>1. Inv /\ OnceInv /\ [Next]_vars => OnceInv'
  BY OnceNext
<1> QED
  BY <1>1, OnceInit, Invariance, PTL DEF Spec

\* If no bytes are uploaded twice, a listed photo lacks its file only until the
\* request that has unlinked it deletes its row, or for a failure.
THEOREM MissingFilesAreDoomed ==
  ASSUME ~Reuse
  PROVE  Spec => []MissingFileIsDoomed
<1>1. Inv /\ OnceInv => MissingFileIsDoomed
  <2> SUFFICES ASSUME Inv, OnceInv, NEW p \in Photo, Exists(p),
                      photoFile[p] \notin files \union damaged
               PROVE  Doomed(p)
    BY DEF MissingFileIsDoomed
  <2>1. PICK r \in Request : Unlinked(r) /\ photoFile[p] \in FoundFiles(r)
    BY DEF OnceInv, MissingIsInHand
  <2>2. CASE pc[r] = "removeDelete"
    BY <2>1, <2>2 DEF OnceInv, RemoveNames, InRemove, Doomed
  <2>3. CASE pc[r] = "breakUpDelete"
    <3>1. PICK w \in found[r] : w[2] = photoFile[p]
      BY <2>1 DEF FoundFiles
    <3>2. w[1] = caller[r] /\ origin[w[2]] = w[1]
      BY <2>3 DEF Inv, BreakUpKnows, InBreakUp, OnceInv, FoundOwned
    <3>3. photoCouple[p] = caller[r]
      BY <3>1, <3>2 DEF OnceInv, RowsOwned
    <3> QED
      BY <2>3, <3>3 DEF Doomed
  <2> QED
    BY <2>1, <2>2, <2>3 DEF Unlinked
<1> QED
  BY <1>1, Invariance, OnceInvariance, PTL

\* If no bytes are uploaded twice, a stored file has a row or is about to get
\* one, or its couple is gone, but for failures.
THEOREM OrphansAreTransient ==
  ASSUME ~Reuse
  PROVE  Spec => []OrphanIsTransient
<1>1. OnceInv => OrphanIsTransient
  BY DEF OnceInv
<1> QED
  BY <1>1, OnceInvariance, PTL

\* If no bytes are uploaded twice, only the couple that uploaded a file unlinks
\* it.
THEOREM OwnersUnlink ==
  ASSUME ~Reuse
  PROVE  Spec => OnlyOwnersUnlink
<1>1. ASSUME Inv, OnceInv, [Next]_vars PROVE UnlinkedByOwner \/ UNCHANGED vars
  <2> SUFFICES ASSUME Next, NEW f \in files, f \notin files'
               PROVE  \E r \in Request : /\ pc[r] \in {"removeUnlink", "breakUpUnlink"}
                                         /\ pc'[r] # pc[r]
                                         /\ caller[r] = origin[f]
    BY <1>1 DEF UnlinkedByOwner
  <2>1. ASSUME NEW r \in Request, NEW to \in PC, UnlinkFound(r), Goto(r, to), to # pc[r],
               pc[r] \in {"removeUnlink", "breakUpUnlink"}
        PROVE  pc'[r] # pc[r] /\ caller[r] = origin[f]
    <3>1. f \in InHand(r) /\ todo[r] = {}
      BY <1>1, <2>1 DEF UnlinkFound, OnceInv, Stages, InUpload
    <3>2. PICK w \in found[r] : w[2] = f
      BY <3>1 DEF InHand
    <3>3. w[1] = caller[r]
      BY <1>1, <2>1, <3>2 DEF Inv, RemoveKnows, BreakUpKnows, Checked, InBreakUp
    <3>4. origin[f] = w[1]
      BY <1>1, <3>2 DEF OnceInv, FoundOwned
    <3> QED
      BY <1>1, <2>1, <3>3, <3>4, GotoFacts
  <2>2. \A r \in Request :
          RemoveUnlink(r) => caller[r] = origin[f] /\ pc'[r] # pc[r] /\ pc[r] = "removeUnlink"
    BY <2>1 DEF RemoveUnlink, PC
  <2>3. \A r \in Request :
          BreakUpUnlink(r) => caller[r] = origin[f] /\ pc'[r] # pc[r] /\ pc[r] = "breakUpUnlink"
    BY <2>1 DEF BreakUpUnlink, PC
  <2> QED
    BY <2>2, <2>3
       DEF Next, UploadBegin, UploadWrite, UploadInsert, UploadFail, RemoveBegin, RemoveCheck,
           RemoveDelete, BreakUpBegin, BreakUpList, BreakUpDelete, Abandon
<1> QED
  BY <1>1, Invariance, OnceInvariance, PTL DEF Spec, OnlyOwnersUnlink
=============================================================================
