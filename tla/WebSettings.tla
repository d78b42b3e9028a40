---------------------------- MODULE WebSettings ----------------------------
(***************************************************************************)
(* The settings tab: apps/web/src/hooks/useCouple.ts and useUserProfile.ts *)
(* with app/main/components/SettingsTab.tsx, and the requests they make of *)
(* couple.service.ts (findCoupleInfo, updateCouple) and user.service.ts    *)
(* (findMe, updateMe).  Each field has an editor of its own, so saves      *)
(* overlap, and the answer to any of them replaces its whole card.         *)
(*                                                                         *)
(* The couple's card shows the user's display name where the user has no   *)
(* nickname.  Its copies of birthdays and home addresses, which it does    *)
(* not edit, are left out, and so is the partner's display name: for an    *)
(* empty nickname of the partner Blank stands for what is shown.           *)
(***************************************************************************)
EXTENDS Naturals, FiniteSets

CONSTANTS
  CoupleField,   \* the nicknames and the anniversary, ...
  Nickname,      \* ... of them the user's own nickname
  ProfileField,  \* the name and the birthday, ...
  DisplayName,   \* ... of them the name
  Home,          \* the home address: a search, not an editor
  Value,
  Blank,         \* the value of an empty draft, stored as null
  Request,       \* calls that may overlap
  MaxLeft,       \* bound on the requests that a tab leaves behind
  None

Card == {"couple", "profile"}
Field(card) == IF card = "couple" THEN CoupleField ELSE ProfileField \cup {Home}
Edited == CoupleField \cup ProfileField

VARIABLES
  db,       \* db[card]: the rows; None: the couple is deleted
  shown,    \* couple and profile of the hooks
  editor,   \* editor[f]: "view", "edit" or "saving"
  confirm,  \* the break-up dialog: "no", "asked", "breaking", "done";
            \* "away": the page has replaced the tab
  call,     \* call[r]: what r is for, how far it is, its answer, the calls read before it
  left,     \* the requests of a tab that is gone and that have not run yet
  mishap    \* history: why a card may differ from its rows

vars == <<db, shown, editor, confirm, call, left, mishap>>

CardOf(f) == IF f \in CoupleField THEN "couple" ELSE "profile"

NewCall(kind, card, f, v) ==
  [kind |-> kind, card |-> card, field |-> f, value |-> v,
   at |-> "sent", data |-> None, before |-> {}, since |-> None]

NoCard == [card \in Card |-> None]
NoEditor == [f \in Edited |-> "view"]

\* The effects of the mount
Fetches(r, q) ==
  [x \in Request |-> CASE x = r -> NewCall("fetch", "couple", None, None)
                        [] x = q -> NewCall("fetch", "profile", None, None)
                        [] OTHER -> None]

Init ==
  /\ db \in [Card -> UNION {[Field(card) -> Value] : card \in Card}]
  /\ \A card \in Card : DOMAIN db[card] = Field(card)
  /\ shown = NoCard /\ editor = NoEditor /\ confirm = "no"
  /\ \E r, q \in Request : r # q /\ call = Fetches(r, q)
  /\ left = {}
  /\ mishap = NoCard

\* The calls of the card whose answer is on its way
Read(card) == {r \in Request : call[r] # None /\ call[r].card = card /\ call[r].at = "read"}

\* A mishap also counts for the answers that are on their way.
Note(S, reason) ==
  [r \in Request |-> IF r \in S THEN [call[r] EXCEPT !.since = reason] ELSE call[r]]

Without(cs, r) ==
  [q \in Request |-> IF q = r \/ cs[q] = None THEN None
                     ELSE [cs[q] EXCEPT !.before = @ \ {r}]]

-----------------------------------------------------------------------------
\* The page: the cards are there when both fetches were answered, and behind
\* the dialog while it is open.  The tabs of the page lie above both.
Loading == \E r \in Request : call[r] # None /\ call[r].kind = "fetch"
Ready == ~Loading /\ confirm = "no" /\ \A card \in Card : shown[card] # None

CanEdit(f) == Ready /\ editor[f] = "view"
CanSave(f) == Ready /\ editor[f] = "edit"

\* handleEdit
Edit(f) ==
  /\ CanEdit(f)
  /\ editor' = [editor EXCEPT ![f] = "edit"]
  /\ UNCHANGED <<db, shown, confirm, call, left, mishap>>

\* handleCancel, and handleSave of a draft that was not changed
Cancel(f) ==
  /\ CanSave(f)
  /\ editor' = [editor EXCEPT ![f] = "view"]
  /\ UNCHANGED <<db, shown, confirm, call, left, mishap>>

\* handleSave
Save(r, f, v) ==
  /\ CanSave(f) /\ call[r] = None
  /\ v # shown[CardOf(f)][f]
  /\ editor' = [editor EXCEPT ![f] = "saving"]
  /\ call' = [call EXCEPT ![r] = NewCall("save", CardOf(f), f, v)]
  /\ UNCHANGED <<db, shown, confirm, left, mishap>>

\* handleHomeSelect does not wait for the home selected before.
HomeSelect(r, v) ==
  /\ Ready /\ call[r] = None
  /\ call' = [call EXCEPT ![r] = NewCall("save", "profile", Home, v)]
  /\ UNCHANGED <<db, shown, editor, confirm, left, mishap>>

AskBreakUp ==
  /\ Ready
  /\ confirm' = "asked"
  /\ UNCHANGED <<db, shown, editor, call, left, mishap>>

KeepCouple ==
  /\ confirm = "asked"
  /\ confirm' = "no"
  /\ UNCHANGED <<db, shown, editor, call, left, mishap>>

\* handleBreakUp
BreakUp(r) ==
  /\ confirm = "asked" /\ call[r] = None
  /\ confirm' = "breaking"
  /\ call' = [call EXCEPT ![r] = NewCall("delete", "couple", None, None)]
  /\ UNCHANGED <<db, shown, editor, left, mishap>>

\* The page asks for the status after a break-up (onBreakUp), from a tab that is
\* gone too, and when it is loaded; without a couple it replaces the tab.
Leave ==
  /\ db["couple"] = None /\ confirm # "away"
  /\ confirm' = "away"
  /\ call' = [r \in Request |-> None]
  /\ shown' = NoCard /\ editor' = NoEditor
  /\ UNCHANGED <<db, left, mishap>>

\* Another tab of the page is chosen and then this one again: all state and every
\* answer on its way are lost, but not the requests that have not yet run.  Of
\* equal ones left behind one is followed.
Remount ==
  LET waiting == {r \in Request : call[r] # None /\ call[r].kind # "fetch" /\ call[r].at = "sent"}
  IN  /\ confirm # "away"
      /\ left' = left \cup {call[r] : r \in waiting}
      /\ Cardinality(left') <= MaxLeft
      /\ shown' = NoCard /\ editor' = NoEditor /\ confirm' = "no"
      /\ \E r, q \in Request : r # q /\ call' = Fetches(r, q)
      /\ mishap' = NoCard
      /\ UNCHANGED db

-----------------------------------------------------------------------------
\* The server
Sent(r, kind, card) ==
  call[r] # None /\ call[r].kind = kind /\ call[r].card = card /\ call[r].at = "sent"

\* What findCoupleInfo answers: nickname ?? displayName, null being Blank
Info(rows) ==
  LET couple == rows["couple"]
  IN  IF couple = None THEN None
      ELSE IF couple[Nickname] # Blank THEN couple
      ELSE [couple EXCEPT ![Nickname] = rows["profile"][DisplayName]]

Answers(rows) == [card \in Card |-> IF card = "couple" THEN Info(rows) ELSE rows[card]]

Answered(cs, r, rows) ==
  [cs EXCEPT ![r].at = "read", ![r].data = Answers(rows)[call[r].card],
             ![r].before = Read(call[r].card)]

Stored(c) == [db EXCEPT ![c.card][c.field] = c.value]

\* A new name of the user's also leaves the old one on the couple's card.
Renamed(rows) == Info(rows) # Info(db)
OldName(rows) ==
  {q \in Read("couple") : Renamed(rows) /\ call[q].since = None}
CardOfOldName(rows) ==
  IF Renamed(rows) /\ mishap["couple"] = None
  THEN [mishap EXCEPT !["couple"] = "name"] ELSE mishap

\* updateMe answers with the row that it wrote; ...
UpdateMe(r) ==
  /\ Sent(r, "save", "profile")
  /\ db' = Stored(call[r])
  /\ call' = Answered(Note(OldName(db'), "name"), r, db')
  /\ mishap' = CardOfOldName(db')
  /\ UNCHANGED <<shown, editor, confirm, left>>

\* ... updateCouple writes, and then reads the couple again.
UpdateCouple(r) ==
  /\ Sent(r, "save", "couple") /\ db["couple"] # None
  /\ db' = Stored(call[r])
  /\ call' = [call EXCEPT ![r].at = "written", ![r].before = Read("couple")]
  /\ UNCHANGED <<shown, editor, confirm, left, mishap>>

FindMe(r) ==
  /\ Sent(r, "fetch", "profile")
  /\ call' = Answered(call, r, db)
  /\ UNCHANGED <<db, shown, editor, confirm, left, mishap>>

\* findCoupleInfo is asked.
InfoAsked(r) ==
  /\ call[r] # None
  /\ Sent(r, "fetch", "couple") \/ call[r].at = "written"

\* Mutant: the couple is answered as it was shown, with the change.
FindInfoShown(r) ==
  /\ InfoAsked(r) /\ db["couple"] # None
  /\ call' = [Answered(call, r, db) EXCEPT ![r].data =
               IF shown["couple"] = None THEN @
               ELSE [shown["couple"] EXCEPT ![call[r].field] = call[r].value]]
  /\ UNCHANGED <<db, shown, editor, confirm, left, mishap>>
FindInfo(r) ==
  /\ InfoAsked(r) /\ db["couple"] # None
  /\ call' = Answered(call, r, db)
  /\ UNCHANGED <<db, shown, editor, confirm, left, mishap>>

RunBreakUp(r) ==
  /\ Sent(r, "delete", "couple") /\ db["couple"] # None
  /\ db' = [db EXCEPT !["couple"] = None]
  /\ call' = Answered(call, r, db')
  /\ UNCHANGED <<shown, editor, confirm, left, mishap>>

\* The tab does not hear of a change of the rows.
Changed(rows) == {card \in Card : Answers(rows)[card] # Answers(db)[card]}
Unheard(rows, reason) ==
  /\ db' = rows
  /\ call' = Note(UNION {Read(card) : card \in Changed(rows)}, reason)
  /\ mishap' = [card \in Card |-> IF card \in Changed(rows) THEN reason ELSE mishap[card]]
  /\ UNCHANGED <<shown, editor, confirm>>

\* The partner changes the couple's fields, or breaks up.
PartnerWrites(row) ==
  /\ db["couple"] # None /\ row # db["couple"]
  /\ Unheard([db EXCEPT !["couple"] = row], "partner")
  /\ UNCHANGED left

\* A request runs that was left behind; one that fails is never run.
RunLeft(c) ==
  /\ c \in left /\ db[c.card] # None
  /\ Unheard(IF c.kind = "save" THEN Stored(c) ELSE [db EXCEPT !["couple"] = None], "left")
  /\ left' = left \ {c}

-----------------------------------------------------------------------------
\* Back in the page
Answer(r, kind) == call[r] # None /\ call[r].at = "read" /\ call[r].kind = kind

\* setCouple, setProfile: the card is replaced, whatever has been put there
\* meanwhile.
Replace(r) ==
  /\ shown' = [shown EXCEPT ![call[r].card] = call[r].data]
  /\ mishap' = [mishap EXCEPT ![call[r].card] = call[r].since]
  /\ call' = Without(Note(call[r].before, "overtaken"), r)

FetchArrives(r) ==
  /\ Answer(r, "fetch")
  /\ Replace(r)
  /\ UNCHANGED <<db, editor, confirm, left>>

\* The editor is closed after the answer; the home has none.
SaveArrives(r) ==
  /\ Answer(r, "save")
  /\ Replace(r)
  /\ editor' = [f \in Edited |-> IF f = call[r].field THEN "view" ELSE editor[f]]
  /\ UNCHANGED <<db, confirm, left>>

BreakUpArrives(r) ==
  /\ Answer(r, "delete")
  /\ Replace(r)
  /\ confirm' = "done"
  /\ UNCHANGED <<db, editor, left>>

\* The request is refused, or its answer is lost when it has run already.
Drop(r) ==
  IF call[r].at = "sent" \/ call[r].kind = "fetch"
  THEN call' = Without(call, r) /\ UNCHANGED mishap
  ELSE /\ mishap' = [mishap EXCEPT ![call[r].card] = "lost"]
       /\ call' = Without(Note(call[r].before, "lost"), r)

FetchFails(r) ==
  /\ call[r] # None /\ call[r].kind = "fetch"
  /\ Drop(r)
  /\ UNCHANGED <<db, shown, editor, confirm, left>>

\* The editor stays open.
SaveFails(r) ==
  /\ call[r] # None /\ call[r].kind = "save"
  /\ Drop(r)
  /\ editor' = [f \in Edited |-> IF f = call[r].field THEN "edit" ELSE editor[f]]
  /\ UNCHANGED <<db, shown, confirm, left>>

BreakUpFails(r) ==
  /\ call[r] # None /\ call[r].kind = "delete"
  /\ Drop(r)
  /\ confirm' = "asked"
  /\ UNCHANGED <<db, shown, editor, left>>

Next ==
  \/ \E f \in Edited : Edit(f) \/ Cancel(f)
  \/ \E r \in Request :
       \/ \E f \in Edited, v \in Value : Save(r, f, v)
       \/ \E v \in Value : HomeSelect(r, v)
       \/ BreakUp(r)
       \/ UpdateMe(r) \/ UpdateCouple(r) \/ FindMe(r) \/ FindInfo(r) \/ RunBreakUp(r)
       \/ FetchArrives(r) \/ SaveArrives(r) \/ BreakUpArrives(r)
       \/ FetchFails(r) \/ SaveFails(r) \/ BreakUpFails(r)
  \/ AskBreakUp \/ KeepCouple \/ Leave \/ Remount
  \/ \E c \in left : RunLeft(c)
  \/ \E row \in [CoupleField -> Value] \cup {None} : PartnerWrites(row)

Spec == Init /\ [][Next]_vars

-----------------------------------------------------------------------------
Row(card) == [Field(card) -> Value]
Reason == {None, "name", "partner", "left", "lost", "overtaken"}
PageCall ==
  [kind : {"fetch", "save", "delete"}, card : Card, field : Edited \cup {Home, None},
   value : Value \cup {None}, at : {"sent", "written", "read"},
   data : (UNION {Row(card) : card \in Card}) \cup {None}, before : SUBSET Request,
   since : Reason]

\* None is none of the things that it stands in for, and the names are fields.
NoneIsApart ==
  /\ None \notin PageCall
  /\ \A card \in Card : None \notin Row(card)
  /\ None \notin {"name", "partner", "left", "lost", "overtaken"}
  /\ Nickname \in CoupleField /\ DisplayName \in ProfileField

TypeOK ==
  /\ \A card \in Card :
       /\ db[card] \in Row(card) \cup {None} /\ shown[card] \in Row(card) \cup {None}
       /\ mishap[card] \in Reason
  /\ editor \in [Edited -> {"view", "edit", "saving"}]
  /\ confirm \in {"no", "asked", "breaking", "done", "away"}
  /\ call \in [Request -> PageCall \cup {None}]
  /\ \A r \in Request : call[r] # None => call[r].before \subseteq Read(call[r].card) \ {r}
  /\ left \subseteq PageCall
  /\ db["profile"] # None

Unnamed(row) == IF row = None THEN None ELSE [row EXCEPT ![Nickname] = None]

\* The row x is the answer a, but for a name that has changed.
Agrees(x, a, why) == IF why = "name" THEN Unnamed(x) = Unnamed(a) ELSE x = a

\* When no request is under way, a card shows what the server would answer --
\* what a save of another field has changed included, and also after the user has
\* left the tab and come back -- unless since its last answer the partner, or a
\* request of the tab that was left, has changed it, or an answer was lost, or the
\* last answer had been read before one that came in earlier.  The user's name on
\* the couple's card is the current one, too, unless it has been saved on the
\* profile's card since the last answer.
CardShowsDb ==
  \A card \in Card :
    /\ \A r \in Request : call[r] = None
    /\ shown[card] # None /\ mishap[card] \in {None, "name"}
    => Agrees(shown[card], Answers(db)[card], mishap[card])

\* A field says "saving" only while a call is under way for it; and so does the
\* dialog, until the break-up is done.
SpinnerEnds ==
  /\ \A f \in Edited :
       editor[f] = "saving" => \E r \in Request : call[r] # None /\ call[r].field = f
  /\ confirm = "breaking" => \E r \in Request : call[r] # None /\ call[r].kind = "delete"
=============================================================================
