--------------------------- MODULE SettingsProofs ---------------------------
(***************************************************************************)
(* A card of the settings that is at rest shows what the server would      *)
(* answer, for any fields, values and number of overlapping calls.         *)
(*                                                                         *)
(* While calls are under way a card may be behind.  What makes up for it   *)
(* is a call that has run and whose answer has not come in, or failed:     *)
(* CardIsFresh for the card, AnswerIsFresh for an answer that is itself    *)
(* behind.  The call that is the last to end leaves nothing behind.        *)
(***************************************************************************)
EXTENDS WebSettings, TLAPS

\* The tables have an entry for each card and no other.
Maps ==
  /\ db = [card \in Card |-> db[card]]
  /\ shown = [card \in Card |-> shown[card]]
  /\ mishap = [card \in Card |-> mishap[card]]

\* What a call of each kind is about, and how far it can be.
Kinds ==
  \A r \in Request : call[r] # None =>
    /\ call[r].kind = "save" => call[r].field \in Field(call[r].card) /\ call[r].value \in Value
    /\ call[r].kind = "delete" => call[r].card = "couple"
    /\ call[r].at = "written" => call[r].kind = "save" /\ call[r].card = "couple"
    /\ call[r].at = "read" =>
         call[r].data \in Row(call[r].card) \cup {None}

\* What is left behind is a save or a break-up.
Behind ==
  \A c \in left :
    /\ c.kind \in {"save", "delete"}
    /\ c.kind = "save" => c.field \in Field(c.card) /\ c.value \in Value
    /\ c.kind = "delete" => c.card = "couple"

\* A card is fetched before anything else is asked about it.
FetchIsAlone ==
  /\ confirm # "no" => \A r \in Request : call[r] # None => call[r].kind # "fetch"
  /\ \A r \in Request : call[r] # None /\ call[r].kind = "fetch" =>
       /\ shown[call[r].card] = None
       /\ \A q \in Request : call[q] # None /\ call[q].card = call[r].card => q = r

\* Call q has changed rows, and the page does not know it yet.
Under(q) == call[q] # None /\ call[q].kind # "fetch" /\ call[q].at # "sent"

\* No mishap, or that of the name only
Sound == {None, "name"}

\* A card that does not agree with the server awaits an answer, ...
CardIsFresh ==
  \A card \in Card :
    /\ mishap[card] \in Sound /\ shown[card] # None
    /\ ~Agrees(shown[card], Answers(db)[card], mishap[card])
    => \E q \in Request : Under(q) /\ call[q].card = card

\* ... and so does an answer that does not: it had been read before that call ran.
AnswerIsFresh ==
  \A r \in Request :
    /\ call[r] # None /\ call[r].at = "read" /\ call[r].since \in Sound
    /\ ~Agrees(call[r].data, Answers(db)[call[r].card], call[r].since)
    => \E q \in Request : Under(q) /\ r \in call[q].before

\* SpinnerEnds, with the kind of the call that ends it.
Spinners ==
  /\ \A f \in Edited : editor[f] = "saving" =>
       \E r \in Request : call[r] # None /\ call[r].kind = "save" /\ call[r].field = f
  /\ confirm = "breaking" => \E r \in Request : call[r] # None /\ call[r].kind = "delete"
  /\ \A r \in Request : call[r] # None /\ call[r].kind = "delete" =>
       /\ confirm = "breaking"
       /\ \A q \in Request : call[q] # None /\ call[q].kind = "delete" => q = r

Inv ==
  /\ TypeOK /\ Maps /\ Kinds /\ Behind /\ FetchIsAlone
  /\ CardIsFresh /\ AnswerIsFresh /\ Spinners

-----------------------------------------------------------------------------
\* The tables of rows that the server can have
Rows(rows) ==
  /\ rows = [card \in Card |-> rows[card]]
  /\ \A card \in Card : rows[card] \in Row(card) \cup {None}
  /\ rows["profile"] # None

\* What the server answers of them has the type of a row.
LEMMA AnswersAreRows ==
  ASSUME NoneIsApart, NEW rows, Rows(rows)
  PROVE  /\ \A card \in Card : Answers(rows)[card] \in Row(card) \cup {None}
         /\ Answers(rows)["profile"] = rows["profile"]
         /\ rows["couple"] = None => Answers(rows)["couple"] = None
<1>1. /\ rows["couple"] \in Row("couple") \cup {None}
      /\ rows["profile"] \in Row("profile")
      /\ Card = {"couple", "profile"}
  BY DEF Rows, Card
<1>2. /\ Answers(rows)["couple"] = Info(rows)
      /\ Answers(rows)["profile"] = rows["profile"]
  BY <1>1 DEF Answers
<1>3. rows["profile"][DisplayName] \in Value
  BY <1>1 DEF Row, Field, NoneIsApart
<1>4. Info(rows) \in Row("couple") \cup {None}
  BY <1>1, <1>3 DEF Info, Row
<1>5. rows["couple"] = None => Info(rows) = None
  BY DEF Info
<1> QED
  BY <1>1, <1>2, <1>4, <1>5

\* The profile's row has no part in the couple's but for the name.
LEMMA NameOnly ==
  ASSUME NoneIsApart, NEW rows, NEW ds, Rows(rows), Rows(ds), rows["couple"] = ds["couple"]
  PROVE  Unnamed(Info(rows)) = Unnamed(Info(ds))
<1> DEFINE couple == ds["couple"]
           name(d) == [couple EXCEPT ![Nickname] = d["profile"][DisplayName]]
<1>1. couple \in Row("couple") \cup {None}
  BY DEF Rows, Card
<1>2. CASE couple = None \/ couple[Nickname] # Blank
  BY <1>2 DEF Info
<1>3. CASE couple # None /\ couple[Nickname] = Blank
  <2>1. couple \in [CoupleField -> Value] /\ Nickname \in CoupleField
    BY <1>1, <1>3 DEF Row, Field, NoneIsApart
  <2>2. /\ rows["profile"][DisplayName] \in Value /\ ds["profile"][DisplayName] \in Value
    BY DEF Rows, Card, Row, Field, NoneIsApart
  <2>3. Info(rows) = name(rows) /\ Info(ds) = name(ds)
    BY <1>3 DEF Info
  <2>4. name(rows) \in Row("couple") /\ name(ds) \in Row("couple")
    BY <2>1, <2>2 DEF Row, Field
  <2>5. name(rows) # None /\ name(ds) # None
    BY <2>4 DEF NoneIsApart, Card
  <2>6. [name(rows) EXCEPT ![Nickname] = None] = [name(ds) EXCEPT ![Nickname] = None]
    BY <2>1
  <2> HIDE DEF name
  <2> QED
    BY <2>3, <2>5, <2>6 DEF Unnamed
<1> QED
  BY <1>2, <1>3

LEMMA NameOrLess ==
  ASSUME NEW x, NEW a, NEW why, Agrees(x, a, why)
  PROVE  Agrees(x, a, "name")
BY DEF Agrees

-----------------------------------------------------------------------------
LEMMA NewCallType ==
  ASSUME NoneIsApart, NEW kind \in {"fetch", "save", "delete"}, NEW card \in Card,
         NEW f \in Edited \cup {Home, None}, NEW v \in Value \cup {None}
  PROVE  LET c == NewCall(kind, card, f, v) IN
         /\ c \in PageCall /\ c # None
         /\ c.kind = kind /\ c.card = card /\ c.field = f /\ c.value = v
         /\ c.at = "sent" /\ c.before = {} /\ c.since = None /\ c.data = None
<1>1. NewCall(kind, card, f, v) \in PageCall
  BY DEF NewCall, PageCall, Reason
<1> QED
  BY <1>1 DEF NewCall, NoneIsApart

LEMMA CallFields ==
  ASSUME NoneIsApart, NEW c \in PageCall
  PROVE  /\ c.kind \in {"fetch", "save", "delete"} /\ c.card \in Card
         /\ c.field \in Edited \cup {Home, None} /\ c.value \in Value \cup {None}
         /\ c.at \in {"sent", "written", "read"} /\ c.before \subseteq Request
         /\ c.since \in Reason /\ c # None
         /\ c.data \in (UNION {Row(card) : card \in Card}) \cup {None}
BY DEF PageCall, NoneIsApart

\* What remains of a call that has changed in some fields.
Same(c, d) ==
  /\ d.kind = c.kind /\ d.card = c.card /\ d.field = c.field /\ d.value = c.value

\* The part of the types that the lemmas about calls need.
Typed == call \in [Request -> PageCall \cup {None}]

LEMMA AnsweredFields ==
  ASSUME NoneIsApart, Typed, NEW r \in Request, call[r] # None, NEW rows,
         NEW ds \in [Request -> PageCall \cup {None}], ds[r] = call[r],
         Answers(rows)[call[r].card] \in (UNION {Row(card) : card \in Card}) \cup {None}
  PROVE  LET cs == Answered(ds, r, rows) IN
         /\ cs \in [Request -> PageCall \cup {None}]
         /\ \A q \in Request \ {r} : cs[q] = ds[q]
         /\ cs[r] # None /\ Same(call[r], cs[r])
         /\ cs[r].at = "read" /\ cs[r].data = Answers(rows)[call[r].card]
         /\ cs[r].before = Read(call[r].card) /\ cs[r].since = call[r].since
<1> DEFINE c == call[r]
           a == Answers(rows)[c.card]
           d == [c EXCEPT !.at = "read", !.data = a, !.before = Read(c.card)]
<1>1. c \in PageCall
  BY DEF Typed
<1>2. Read(c.card) \in SUBSET Request
  BY DEF Read
<1> HIDE DEF a
<1>3. d \in PageCall
  BY <1>1, <1>2 DEF PageCall, a
<1>4. /\ d.kind = c.kind /\ d.card = c.card /\ d.field = c.field /\ d.value = c.value
      /\ d.at = "read" /\ d.data = a /\ d.before = Read(c.card) /\ d.since = c.since
  BY <1>1 DEF PageCall
<1>5. Answered(ds, r, rows) = [ds EXCEPT ![r] = d]
  BY DEF Answered, a
<1> HIDE DEF d
<1> QED
  BY <1>3, <1>4, <1>5 DEF Typed, Same, NoneIsApart, a

\* All that a call is about but what the page may know of other answers
Rest(c, d) == Same(c, d) /\ d.at = c.at /\ d.data = c.data

\* cs is call when r is over and the reason is noted for the calls in S; ...
Gone(cs, r, S, reason) ==
  /\ cs \in [Request -> PageCall \cup {None}]
  /\ cs[r] = None
  /\ \A q \in Request \ {r} :
       /\ cs[q] = None <=> call[q] = None
       /\ call[q] # None =>
            /\ Rest(call[q], cs[q])
            /\ cs[q].before = call[q].before \ {r}
            /\ cs[q].since = IF q \in S THEN reason ELSE call[q].since

\* ... and when the reason is noted only.
Marked(cs, S, reason) ==
  /\ cs \in [Request -> PageCall \cup {None}]
  /\ \A q \in Request :
       /\ cs[q] = None <=> call[q] = None
       /\ call[q] # None =>
            /\ Rest(call[q], cs[q])
            /\ cs[q].before = call[q].before
            /\ cs[q].since = IF q \in S THEN reason ELSE call[q].since

LEMMA NoteFields ==
  ASSUME NoneIsApart, Typed, NEW S, \A q \in S : q \in Request /\ call[q] # None, NEW reason \in Reason
  PROVE  Marked(Note(S, reason), S, reason)
<1> DEFINE cs == Note(S, reason)
<1>1. ASSUME NEW q \in Request
      PROVE  /\ cs[q] \in PageCall \cup {None}
             /\ cs[q] = None <=> call[q] = None
             /\ call[q] # None =>
                  /\ Rest(call[q], cs[q])
                  /\ cs[q].before = call[q].before
                  /\ cs[q].since = IF q \in S THEN reason ELSE call[q].since
  <2>1. CASE q \in S
    <3> DEFINE d == [call[q] EXCEPT !.since = reason]
    <3>1. call[q] \in PageCall
      BY <2>1 DEF Typed
    <3>2. cs[q] = d
      BY <2>1 DEF Note
    <3>3. d \in PageCall
      BY <3>1 DEF PageCall
    <3>4. /\ d.kind = call[q].kind /\ d.card = call[q].card /\ d.field = call[q].field
          /\ d.value = call[q].value /\ d.at = call[q].at /\ d.data = call[q].data
          /\ d.before = call[q].before /\ d.since = reason
      BY <3>1 DEF PageCall
    <3> HIDE DEF d, cs
    <3> QED
      BY <2>1, <3>1, <3>2, <3>3, <3>4 DEF Rest, Same, NoneIsApart
  <2>2. CASE q \notin S
    <3>1. cs[q] = call[q]
      BY <2>2 DEF Note
    <3> HIDE DEF cs
    <3> QED
      BY <2>2, <3>1 DEF Rest, Same, Typed
  <2> QED
    BY <2>1, <2>2
<1>2. cs \in [Request -> PageCall \cup {None}]
  <2>1. cs = [q \in Request |-> cs[q]]
    BY DEF Note
  <2> HIDE DEF cs
  <2> QED
    BY <1>1, <2>1
<1> HIDE DEF cs
<1>3. Marked(cs, S, reason)
  BY <1>1, <1>2 DEF Marked
<1> QED
  BY <1>3 DEF cs

LEMMA WithoutFields ==
  ASSUME NoneIsApart, Typed, NEW r \in Request, NEW cs, NEW S, NEW reason, Marked(cs, S, reason)
  PROVE  Gone(Without(cs, r), r, S, reason)
<1> DEFINE ds == Without(cs, r)
<1>1. ASSUME NEW q \in Request
      PROVE  /\ ds[q] \in PageCall \cup {None}
             /\ q = r => ds[q] = None
             /\ q # r =>
                  /\ ds[q] = None <=> call[q] = None
                  /\ call[q] # None =>
                       /\ Rest(call[q], ds[q])
                       /\ ds[q].before = call[q].before \ {r}
                       /\ ds[q].since = IF q \in S THEN reason ELSE call[q].since
  <2>1. CASE q = r \/ cs[q] = None
    BY <2>1 DEF Without, Marked
  <2>2. CASE ~(q = r \/ cs[q] = None)
    <3> DEFINE c == cs[q]
               d == [c EXCEPT !.before = @ \ {r}]
    <3>1. c \in PageCall
      BY <2>2 DEF Marked
    <3>2. ds[q] = d
      BY <2>2 DEF Without
    <3>3. d \in PageCall
      BY <3>1 DEF PageCall
    <3>4. /\ d.kind = c.kind /\ d.card = c.card /\ d.field = c.field
          /\ d.value = c.value /\ d.at = c.at /\ d.data = c.data
          /\ d.before = c.before \ {r} /\ d.since = c.since
      BY <3>1 DEF PageCall
    <3>5. /\ call[q] # None /\ Rest(call[q], c)
          /\ c.before = call[q].before
          /\ c.since = IF q \in S THEN reason ELSE call[q].since
      BY <2>2 DEF Marked
    <3> HIDE DEF c, d, ds
    <3> QED
      BY <2>2, <3>2, <3>3, <3>4, <3>5 DEF Rest, Same, NoneIsApart
  <2> QED
    BY <2>1, <2>2
<1>2. ds \in [Request -> PageCall \cup {None}]
  <2>1. ds = [q \in Request |-> ds[q]]
    BY DEF Without
  <2> HIDE DEF ds
  <2> QED
    BY <1>1, <2>1
<1> HIDE DEF ds
<1>3. Gone(ds, r, S, reason)
  BY <1>1, <1>2 DEF Gone
<1> QED
  BY <1>3 DEF ds

\* A call is over: what is left of the others keeps the rules.
LEMMA GoneKeepsCalls ==
  ASSUME NoneIsApart, Inv, NEW r \in Request, call[r] # None, NEW S, NEW reason, Gone(call', r, S, reason),
         UNCHANGED <<db, left>>
  PROVE  /\ (\A q \in Request : call[q] # None =>
               call[q].before \subseteq Read(call[q].card) \ {q})'
         /\ Kinds'
<1> USE DEF Inv, TypeOK
<1>1. \A q \in Request : call'[q] # None =>
        /\ q # r /\ call[q] # None /\ Same(call[q], call'[q])
        /\ call'[q].at = call[q].at /\ call'[q].data = call[q].data
        /\ call'[q].before = call[q].before \ {r}
  BY DEF Gone, Rest
<1>2. \A card \in Card : Read(card)' = Read(card) \ {r}
  BY DEF Gone, Rest, Same, Read
<1>3. \A q \in Request : call[q] # None => call[q].card \in Card
  BY DEF PageCall
<1>4. Kinds'
  BY <1>1 DEF Kinds, Same
<1>5. ASSUME NEW q \in Request, call'[q] # None
      PROVE  call'[q].before \subseteq (Read(call[q].card) \ {q})'
  <2>1. call'[q].before \subseteq Read(call[q].card) \ {q, r}
    BY <1>1, <1>5
  <2>2. call'[q].card = call[q].card /\ call[q].card \in Card
    BY <1>1, <1>3, <1>5 DEF Same
  <2> QED
    BY <1>2, <2>1, <2>2
<1> QED
  BY <1>4, <1>5

LEMMA GoneKeepsAnswers ==
  ASSUME NoneIsApart, Inv, NEW r \in Request, call[r] # None, NEW S, NEW reason \in Reason \ Sound,
         Gone(call', r, S, reason), Under(r) => call[r].before \subseteq S, UNCHANGED <<db, left>>
  PROVE  AnswerIsFresh'
<1> SUFFICES ASSUME NEW q \in Request, call'[q] # None, call'[q].at = "read",
                    call'[q].since \in Sound,
                    ~Agrees(call'[q].data, Answers(db)[call'[q].card], call'[q].since)
             PROVE  \E p \in Request : Under(p)' /\ q \in call'[p].before
  BY DEF AnswerIsFresh
<1>1. /\ q # r /\ call[q] # None /\ Rest(call[q], call'[q]) /\ q \notin S
      /\ call[q].since = call'[q].since
  BY DEF Gone
<1>2. PICK p \in Request : Under(p) /\ q \in call[p].before
  BY <1>1 DEF Inv, AnswerIsFresh, Rest, Same
<1>3. p # r
  BY <1>1, <1>2
<1>4. call'[p] # None /\ Rest(call[p], call'[p]) /\ call'[p].before = call[p].before \ {r}
  BY <1>2, <1>3 DEF Gone, Under
<1>5. Under(p)'
  BY <1>2, <1>4 DEF Under, Rest, Same
<1> QED
  BY <1>1, <1>2, <1>4, <1>5

\* An answer comes in.
LEMMA ReplaceKeeps ==
  ASSUME NoneIsApart, Inv, NEW r \in Request, call[r] # None, call[r].at = "read", Replace(r), UNCHANGED <<db, left>>,
         confirm' = confirm \/ confirm # "no",
         editor' \in [Edited -> {"view", "edit", "saving"}], 
         confirm' \in {"no", "asked", "breaking", "done", "away"}
  PROVE  TypeOK' /\ Maps' /\ Kinds' /\ Behind' /\ FetchIsAlone' /\ CardIsFresh' /\ AnswerIsFresh'
         /\ Gone(call', r, call[r].before, "overtaken")
<1> DEFINE c == call[r]
<1>1. /\ Typed /\ c \in PageCall /\ c.card \in Card /\ c.before \subseteq Read(c.card) \ {r}
      /\ c.data \in Row(c.card) \cup {None} /\ c.since \in Reason
  BY DEF Inv, TypeOK, Typed, PageCall, Kinds
<1>2. \A q \in c.before : q \in Request /\ call[q] # None
  BY <1>1 DEF Read
<1>3. Marked(Note(c.before, "overtaken"), c.before, "overtaken")
  BY <1>1, <1>2, NoteFields DEF Reason
<1>4. Gone(call', r, c.before, "overtaken")
  BY <1>1, <1>3, WithoutFields DEF Replace
<1>5. /\ shown' = [shown EXCEPT ![c.card] = c.data]
      /\ mishap' = [mishap EXCEPT ![c.card] = c.since]
  BY DEF Replace
<1> HIDE DEF c
<1>6. /\ \A card \in Card \ {c.card} : shown'[card] = shown[card] /\ mishap'[card] = mishap[card]
      /\ shown'[c.card] = c.data /\ mishap'[c.card] = c.since
  BY <1>1, <1>5 DEF Inv, Maps
<1>7. Maps'
  BY <1>5 DEF Inv, Maps
<1>8. c = call[r]
  BY DEF c
<1>9. /\ (\A q \in Request : call[q] # None =>
               call[q].before \subseteq Read(call[q].card) \ {q})'
      /\ Kinds'
  BY <1>4, <1>8, GoneKeepsCalls
<1>10. TypeOK'
  <2>1. \A card \in Card :
          shown'[card] \in Row(card) \cup {None} /\ mishap'[card] \in Reason
    BY <1>1, <1>6 DEF Inv, TypeOK
  <2>2. Typed'
    BY <1>4 DEF Gone, Typed
  <2> QED
    BY <1>9, <2>1, <2>2 DEF Inv, TypeOK, Typed
<1>11. AnswerIsFresh'
  <2>1. "overtaken" \in Reason \ Sound
    BY DEF Reason, Sound, NoneIsApart
  <2> QED
    BY <1>4, <1>8, <2>1, GoneKeepsAnswers
<1>12. FetchIsAlone'
  <2>1. \A q \in Request : call'[q] # None => 
          q # r /\ call[q] # None /\ call'[q].kind = call[q].kind /\ call'[q].card = call[q].card
    BY <1>4 DEF Gone, Rest, Same
  <2>2. \A q \in Request : call[q] # None => call[q].card \in Card
    BY DEF Inv, TypeOK, PageCall
  <2>3. confirm' # "no" => \A q \in Request : call'[q] # None => call'[q].kind # "fetch"
    BY <2>1 DEF Inv, FetchIsAlone
  <2> QED
    BY <1>6, <1>8, <2>1, <2>2, <2>3 DEF Inv, FetchIsAlone
<1>13. CardIsFresh'
  <2> SUFFICES ASSUME NEW card \in Card, mishap'[card] \in Sound, shown'[card] # None,
                      ~Agrees(shown'[card], Answers(db)[card], mishap'[card])
               PROVE  \E q \in Request : Under(q)' /\ call'[q].card = card
    BY DEF CardIsFresh
  <2>1. PICK q \in Request \ {r} : Under(q) /\ call[q].card = card
    <3>1. CASE card = c.card
      <4>1. PICK q \in Request : Under(q) /\ r \in call[q].before
        BY <1>6, <1>8, <3>1 DEF Inv, AnswerIsFresh
      <4>2. call[q].before \subseteq Read(call[q].card) \ {q}
        BY <4>1 DEF Inv, TypeOK, Under
      <4> QED
        BY <1>8, <3>1, <4>1, <4>2 DEF Read
    <3>2. CASE card # c.card
      BY <1>6, <1>8, <3>2 DEF Inv, CardIsFresh
    <3> QED
      BY <3>1, <3>2
  <2> QED
    BY <1>4, <2>1 DEF Under, Gone, Rest, Same
<1>14. Behind'
  BY DEF Inv, Behind
<1> QED
  BY <1>4, <1>7, <1>8, <1>9, <1>10, <1>11, <1>12, <1>13, <1>14

\* A call fails.
LEMMA DropKeeps ==
  ASSUME NoneIsApart, Inv, NEW r \in Request, call[r] # None, Drop(r), UNCHANGED <<db, shown, left>>,
         confirm' = confirm \/ confirm # "no",
         editor' \in [Edited -> {"view", "edit", "saving"}],
         confirm' \in {"no", "asked", "breaking", "done", "away"}
  PROVE  /\ TypeOK' /\ Maps' /\ Kinds' /\ Behind' /\ FetchIsAlone' /\ CardIsFresh' /\ AnswerIsFresh'
         /\ \E S : Gone(call', r, S, "lost")
<1> DEFINE c == call[r]
           quiet == c.at = "sent" \/ c.kind = "fetch"
           S == IF quiet THEN {} ELSE c.before
<1>1. /\ Typed /\ c \in PageCall /\ c.card \in Card /\ c.before \subseteq Read(c.card) \ {r}
  BY DEF Inv, TypeOK, Typed, PageCall
<1>2. \A q \in S : q \in Request /\ call[q] # None
  BY <1>1 DEF Read
<1>3. Marked(Note(S, "lost"), S, "lost")
  <2>1. "lost" \in Reason
    BY DEF Reason
  <2> HIDE DEF S
  <2> QED
    BY <1>1, <1>2, <2>1, NoteFields
<1>4. Gone(call', r, S, "lost")
  <2>1. CASE quiet
    <3>1. Marked(call, S, "lost")
      BY <1>1, <2>1 DEF Marked, Typed, Rest, Same
    <3>2. call' = Without(call, r)
      BY <2>1 DEF Drop
    <3> HIDE DEF S, quiet
    <3> QED
      BY <1>1, <3>1, <3>2, WithoutFields
  <2>2. CASE ~quiet
    <3>1. call' = Without(Note(S, "lost"), r)
      BY <2>2 DEF Drop
    <3> HIDE DEF S, quiet
    <3> QED
      BY <1>1, <1>3, <3>1, WithoutFields
  <2> QED
    BY <2>1, <2>2
<1>5. /\ quiet => mishap' = mishap
      /\ ~quiet => mishap' = [mishap EXCEPT ![c.card] = "lost"]
  BY DEF Drop
<1>6. Under(r) => ~quiet /\ S = c.before
  BY DEF Under
<1>7. c = call[r]
  OBVIOUS
<1> HIDE DEF c, quiet, S
<1>8. Maps'
  BY <1>5 DEF Inv, Maps
<1>9. \A card \in Card : mishap'[card] \in {mishap[card], "lost"}
                         /\ (mishap'[card] = mishap[card] \/ card = c.card)
  BY <1>1, <1>5 DEF Inv, Maps
<1>10. /\ (\A q \in Request : call[q] # None =>
               call[q].before \subseteq Read(call[q].card) \ {q})'
       /\ Kinds'
  BY <1>4, <1>7, GoneKeepsCalls
<1>11. TypeOK'
  <2>1. \A card \in Card : mishap'[card] \in Reason
    BY <1>9 DEF Inv, TypeOK, Reason
  <2>2. Typed'
    BY <1>4 DEF Gone, Typed
  <2> QED
    BY <1>10, <2>1, <2>2 DEF Inv, TypeOK, Typed
<1>12. AnswerIsFresh'
  <2>1. "lost" \in Reason \ Sound
    BY DEF Reason, Sound, NoneIsApart
  <2> QED
    BY <1>4, <1>6, <1>7, <2>1, GoneKeepsAnswers
<1>13. FetchIsAlone'
  <2>1. \A q \in Request : call'[q] # None =>
          q # r /\ call[q] # None /\ call'[q].kind = call[q].kind /\ call'[q].card = call[q].card
    BY <1>4 DEF Gone, Rest, Same
  <2>2. confirm' # "no" => \A q \in Request : call'[q] # None => call'[q].kind # "fetch"
    BY <2>1 DEF Inv, FetchIsAlone
  <2> QED
    BY <2>1, <2>2 DEF Inv, FetchIsAlone
<1>14. CardIsFresh'
  <2> SUFFICES ASSUME NEW card \in Card, mishap'[card] \in Sound, shown'[card] # None,
                      ~Agrees(shown'[card], Answers(db)[card], mishap'[card])
               PROVE  \E q \in Request : Under(q)' /\ call'[q].card = card
    BY DEF CardIsFresh
  <2>1. PICK q \in Request : Under(q) /\ call[q].card = card
    <3>1. mishap'[card] = mishap[card]
      BY <1>9 DEF Sound, NoneIsApart
    <3> QED
      BY <3>1 DEF Inv, CardIsFresh
  <2>2. q # r
    <3>1. CASE q = r
      <4>1. mishap'[card] = "lost"
        BY <1>1, <1>5, <1>6, <1>7, <2>1, <3>1 DEF Inv, Maps
      <4> QED
        BY <4>1 DEF Sound, NoneIsApart
    <3> QED
      BY <3>1
  <2> QED
    BY <1>4, <2>1, <2>2 DEF Under, Gone, Rest, Same
<1>15. Behind'
  BY DEF Inv, Behind
<1> QED
  BY <1>4, <1>8, <1>10, <1>11, <1>12, <1>13, <1>14, <1>15

\* What the end of call r does to the editors and to the dialog
Ends(r) ==
  \/ call[r].kind = "fetch" /\ UNCHANGED <<editor, confirm>>
  \/ /\ call[r].kind = "save" /\ UNCHANGED confirm
     /\ \E mode \in {"view", "edit"} :
          editor' = [f \in Edited |-> IF f = call[r].field THEN mode ELSE editor[f]]
  \/ call[r].kind = "delete" /\ UNCHANGED editor /\ confirm' \in {"asked", "done"}

LEMMA EndsWell ==
  ASSUME NoneIsApart, Inv, NEW r \in Request, call[r] # None, Ends(r)
  PROVE  /\ editor' \in [Edited -> {"view", "edit", "saving"}]
         /\ confirm' \in {"no", "asked", "breaking", "done", "away"}
         /\ confirm' = confirm \/ confirm # "no"
         /\ \A f \in Edited : editor'[f] = "saving" =>
              editor[f] = "saving" /\ (call[r].kind = "save" => call[r].field # f)
         /\ confirm' = "breaking" => confirm = "breaking" /\ call[r].kind # "delete"
         /\ confirm' = confirm \/ call[r].kind = "delete"
<1>1. editor \in [Edited -> {"view", "edit", "saving"}] /\ confirm \in {"no", "asked", "breaking", "done", "away"}
  BY DEF Inv, TypeOK
<1>2. CASE call[r].kind = "fetch" /\ UNCHANGED <<editor, confirm>>
  BY <1>1, <1>2
<1>3. ASSUME call[r].kind = "save", UNCHANGED confirm, NEW mode \in {"view", "edit"},
             editor' = [f \in Edited |-> IF f = call[r].field THEN mode ELSE editor[f]]
      PROVE  /\ editor' \in [Edited -> {"view", "edit", "saving"}]
             /\ \A f \in Edited : editor'[f] = "saving" =>
                  editor[f] = "saving" /\ call[r].field # f
  BY <1>1, <1>3
<1>4. CASE call[r].kind = "delete" /\ UNCHANGED editor /\ confirm' \in {"asked", "done"}
  BY <1>1, <1>4 DEF Inv, Spinners
<1> QED
  BY <1>1, <1>2, <1>3, <1>4 DEF Ends

\* What ends for the spinners when call r is over
LEMMA GoneKeepsSpinners ==
  ASSUME NoneIsApart, Inv, NEW r \in Request, call[r] # None, NEW S, NEW reason, Gone(call', r, S, reason),
         \A f \in Edited : editor'[f] = "saving" =>
           editor[f] = "saving" /\ (call[r].kind = "save" => call[r].field # f),
         confirm' = "breaking" => confirm = "breaking" /\ call[r].kind # "delete",
         confirm' = confirm \/ call[r].kind = "delete"
  PROVE  Spinners'
<1>1. \A q \in Request : call[q] # None /\ q # r =>
        call'[q] # None /\ call'[q].kind = call[q].kind /\ call'[q].field = call[q].field
  BY DEF Gone, Rest, Same
<1>2. ASSUME NEW f \in Edited, editor'[f] = "saving"
      PROVE  \E q \in Request : call'[q] # None /\ call'[q].kind = "save" /\ call'[q].field = f
  BY <1>1, <1>2 DEF Inv, Spinners
<1>3. confirm' = "breaking" => \E q \in Request : call'[q] # None /\ call'[q].kind = "delete"
  BY <1>1 DEF Inv, Spinners
<1>4. \A q \in Request : call'[q] # None =>
        q # r /\ call[q] # None /\ call'[q].kind = call[q].kind
  BY DEF Gone, Rest, Same
<1>5. \A q \in Request : call'[q] # None /\ call'[q].kind = "delete" =>
        /\ confirm' = "breaking"
        /\ \A p \in Request : call'[p] # None /\ call'[p].kind = "delete" => p = q
  BY <1>4 DEF Inv, Spinners
<1> QED
  BY <1>2, <1>3, <1>5 DEF Spinners

\* A request is sent: it has touched nothing yet.
LEMMA SendKeeps ==
  ASSUME NoneIsApart, Inv, NEW r \in Request, call[r] = None,
         NEW kind \in {"save", "delete"}, NEW card \in Card,
         NEW f \in Edited \cup {Home, None}, NEW v \in Value \cup {None},
         kind = "save" => f \in Field(card) /\ v \in Value,
         kind = "delete" => card = "couple",
         call' = [call EXCEPT ![r] = NewCall(kind, card, f, v)],
         \A q \in Request : call[q] # None => call[q].kind # "fetch",
         UNCHANGED <<db, shown, left, mishap>>,
         editor' \in [Edited -> {"view", "edit", "saving"}],
         confirm' \in {"no", "asked", "breaking", "done", "away"},
         \A g \in Edited : editor'[g] = "saving" => editor[g] = "saving" \/ (kind = "save" /\ g = f),
         confirm' = confirm \/ confirm # "breaking",
         confirm' = "breaking" => confirm = "breaking" \/ kind = "delete",
         kind = "delete" => confirm' = "breaking" /\ confirm # "breaking"
  PROVE  Inv'
<1> DEFINE c == NewCall(kind, card, f, v)
<1>1. /\ c \in PageCall /\ c # None
      /\ c.kind = kind /\ c.card = card /\ c.field = f /\ c.value = v
      /\ c.at = "sent" /\ c.before = {} /\ c.since = None /\ c.data = None
  <2>1. kind \in {"fetch", "save", "delete"}
    OBVIOUS
  <2> QED
    BY <2>1, NewCallType
<1> HIDE DEF c
<1>2. Typed
  BY DEF Inv, TypeOK, Typed
<1>3. call' \in [Request -> PageCall \cup {None}] /\ call'[r] = c
      /\ \A q \in Request \ {r} : call'[q] = call[q]
  BY <1>1, <1>2 DEF c, Typed
<1>4. \A x : Read(x)' = Read(x)
  BY <1>1, <1>3 DEF Read
<1>5. (\A q \in Request : call[q] # None =>
               call[q].before \subseteq Read(call[q].card) \ {q})'
  <2>1. \A x : Read(x) \subseteq Request
    BY DEF Read
  <2> SUFFICES ASSUME NEW q \in Request, call'[q] # None
               PROVE  (call[q].before \subseteq Read(call[q].card) \ {q})'
    OBVIOUS
  <2> QED
    BY <1>1, <1>3, <1>4 DEF Inv, TypeOK
<1>6. TypeOK'
  BY <1>3, <1>5 DEF Inv, TypeOK
<1>7. Kinds'
  BY <1>1, <1>3 DEF Inv, Kinds
<1>8. FetchIsAlone'
  BY <1>1, <1>3 DEF FetchIsAlone
<1>9. \A q \in Request : Under(q)' = Under(q)
  BY <1>1, <1>3 DEF Under
<1>10. \A q \in Request : Under(q) => q # r
  BY DEF Under
<1>11. CardIsFresh'
  BY <1>3, <1>9, <1>10 DEF Inv, CardIsFresh
<1>12. AnswerIsFresh'
  BY <1>1, <1>3, <1>9, <1>10 DEF Inv, AnswerIsFresh
<1>13. Spinners'
  BY <1>1, <1>3 DEF Inv, Spinners
<1>14. Maps' /\ Behind'
  BY DEF Inv, Maps, Behind
<1> QED
  BY <1>6, <1>7, <1>8, <1>11, <1>12, <1>13, <1>14 DEF Inv

\* A call runs on the server, and all that it read before is in its "before".  In
\* the calls of S the old name is noted.
LEMMA RunKeeps ==
  ASSUME NoneIsApart, Inv, NEW r \in Request, call[r] # None, call[r].at # "read",
         NEW S \in SUBSET Read("couple"), \A q \in S : call[q].since = None,
         UNCHANGED <<shown, editor, confirm, left>>, Maps', Rows(db'),
         call' \in [Request -> PageCall \cup {None}],
         \A q \in Request \ {r} :
           /\ call'[q] = None <=> call[q] = None
           /\ call[q] # None =>
                /\ Rest(call[q], call'[q])
                /\ call'[q].before = call[q].before
                /\ call'[q].since = IF q \in S THEN "name" ELSE call[q].since,
         call'[r] # None, Same(call[r], call'[r]),
         call'[r].before = Read(call[r].card), call'[r].since = call[r].since,
         \/ call'[r].at = "read" /\ call'[r].data = Answers(db')[call[r].card]
         \/ call'[r].at = "written" /\ call[r].kind = "save" /\ call[r].card = "couple",
         \A card \in Card :
           \/ mishap'[card] = mishap[card]
           \/ mishap[card] = None /\ mishap'[card] = "name",
         \A card \in Card \ {call[r].card} :
           \/ Answers(db')[card] = Answers(db)[card]
           \/ /\ card = "couple" /\ mishap'[card] # None
              /\ Unnamed(Answers(db')[card]) = Unnamed(Answers(db)[card])
              /\ \A q \in Read("couple") : call[q].since = None => q \in S,
         call[r].kind = "fetch" => db' = db
  PROVE  Inv'
<1> DEFINE c == call[r]
<1>1. c.card \in Card /\ c \in PageCall /\ c.kind \in {"fetch", "save", "delete"}
  BY DEF Inv, TypeOK, PageCall
<1>2. \A q \in Request \ {r} : call'[q] # None => call[q] # None /\ Rest(call[q], call'[q])
  OBVIOUS
<1>3. \A q \in Request \ {r} : call[q] # None => call'[q] # None /\ Rest(call[q], call'[q])
  OBVIOUS
<1>4. \A x : Read(x) \subseteq Read(x)' \ {r}
  BY <1>3 DEF Read, Rest, Same
<1>5. \A q \in Request : call[q] # None => call[q].before \subseteq Read(call[q].card) \ {q}
  BY DEF Inv, TypeOK
<1>6. (\A q \in Request : call[q] # None => call[q].before \subseteq Read(call[q].card) \ {q})'
  <2> SUFFICES ASSUME NEW q \in Request, call'[q] # None
               PROVE  (call[q].before \subseteq Read(call[q].card) \ {q})'
    OBVIOUS
  <2>1. CASE q = r
    BY <1>4, <2>1 DEF Same
  <2>2. CASE q # r
    <3>1. call[q] # None /\ call'[q].before = call[q].before /\ call'[q].card = call[q].card
      BY <1>2, <2>2 DEF Rest, Same
    <3>2. call[q].before \subseteq Read(call[q].card) \ {q}
      BY <1>5, <3>1
    <3>3. \A x : Read(x) \subseteq Read(x)'
      BY <1>4
    <3> QED
      BY <3>1, <3>2, <3>3
  <2> QED
    BY <2>1, <2>2
<1>7. TypeOK'
  <2>1. \A card \in Card : mishap'[card] \in Reason
    BY DEF Inv, TypeOK, Reason
  <2> QED
    BY <1>6, <2>1 DEF Inv, TypeOK, Rows
<1>8. Kinds'
  <2>1. \A card \in Card : Answers(db')[card] \in Row(card) \cup {None}
    BY AnswersAreRows
  <2> SUFFICES ASSUME NEW q \in Request, call'[q] # None
               PROVE  /\ call'[q].kind = "save" =>
                           call'[q].field \in Field(call'[q].card) /\ call'[q].value \in Value
                      /\ call'[q].kind = "delete" => call'[q].card = "couple"
                      /\ call'[q].at = "written" => call'[q].kind = "save" /\ call'[q].card = "couple"
                      /\ call'[q].at = "read" => call'[q].data \in Row(call'[q].card) \cup {None}
    BY DEF Kinds
  <2>2. CASE q = r
    BY <1>1, <2>1, <2>2 DEF Inv, Kinds, Same
  <2>3. CASE q # r
    BY <1>2, <2>3 DEF Inv, Kinds, Rest, Same
  <2> QED
    BY <2>2, <2>3
<1>9. FetchIsAlone'
  <2>1. \A q \in Request : call'[q] # None => call[q] # None /\ Same(call[q], call'[q])
    BY <1>2 DEF Rest
  <2> QED
    BY <2>1 DEF Inv, FetchIsAlone, Same
<1>10. c.kind # "fetch" => Under(r)'
  BY DEF Under, Same
<1>11. \A q \in Request : Under(q) => Under(q)' /\ call'[q].card = call[q].card
  <2> SUFFICES ASSUME NEW q \in Request, Under(q)
               PROVE  Under(q)' /\ call'[q].card = call[q].card
    OBVIOUS
  <2>1. CASE q = r
    BY <1>10, <2>1 DEF Under, Same
  <2>2. CASE q # r
    BY <1>3, <2>2 DEF Under, Rest, Same
  <2> QED
    BY <2>1, <2>2
<1>12. CardIsFresh'
  <2> SUFFICES ASSUME NEW card \in Card, mishap'[card] \in Sound, shown[card] # None,
                      ~Agrees(shown[card], Answers(db')[card], mishap'[card])
               PROVE  \E q \in Request : Under(q)' /\ call'[q].card = card
    BY DEF CardIsFresh
  <2>1. CASE card = c.card
    <3>1. CASE c.kind = "fetch"
      BY <2>1, <3>1 DEF Inv, FetchIsAlone
    <3>2. CASE c.kind # "fetch"
      BY <1>10, <2>1, <3>2 DEF Same
    <3> QED
      BY <3>1, <3>2
  <2>2. CASE card # c.card
    <3>1. ~Agrees(shown[card], Answers(db)[card], mishap[card]) /\ mishap[card] \in Sound
      <4>1. CASE Answers(db')[card] = Answers(db)[card]
        BY <4>1 DEF Agrees, Sound
      <4>2. CASE Answers(db')[card] # Answers(db)[card]
        BY <2>2, <4>2 DEF Agrees, Sound
      <4> QED
        BY <4>1, <4>2
    <3> QED
      BY <1>11, <3>1 DEF Inv, CardIsFresh
  <2> QED
    BY <2>1, <2>2
<1>13. AnswerIsFresh'
  <2> SUFFICES ASSUME NEW q \in Request, call'[q] # None, call'[q].at = "read",
                      call'[q].since \in Sound,
                      ~Agrees(call'[q].data, Answers(db')[call'[q].card], call'[q].since)
               PROVE  \E p \in Request : Under(p)' /\ q \in call'[p].before
    BY DEF AnswerIsFresh
  <2>1. q # r
    <3>1. CASE q = r
      <4>1. Agrees(call'[q].data, Answers(db')[call'[q].card], call'[q].since)
        BY <3>1 DEF Same, Agrees
      <4> QED
        BY <4>1
    <3> QED
      BY <3>1
  <2>2. call[q] # None /\ Rest(call[q], call'[q]) /\ call[q].card \in Card
    BY <1>2, <2>1 DEF Inv, TypeOK, PageCall
  <2>3. CASE call[q].card = c.card /\ c.kind # "fetch"
    <3>1. q \in Read(c.card)
      BY <2>2, <2>3 DEF Read, Rest, Same
    <3> QED
      BY <1>10, <2>3, <3>1
  <2>4. CASE call[q].card # c.card \/ db' = db
    <3> DEFINE card == call[q].card
    <3>1. ~Agrees(call[q].data, Answers(db)[card], call[q].since) /\ call[q].since \in Sound
      <4>1. call'[q].data = call[q].data /\ call'[q].card = card
        BY <2>2 DEF Rest, Same
      <4>2. call'[q].since = IF q \in S THEN "name" ELSE call[q].since
        BY <2>1, <2>2
      <4>3. CASE Answers(db')[card] = Answers(db)[card]
        BY <4>1, <4>2, <4>3 DEF Agrees, Sound
      <4>4. CASE Answers(db')[card] # Answers(db)[card]
        <5>1. /\ card = "couple"
              /\ Unnamed(Answers(db')[card]) = Unnamed(Answers(db)[card])
              /\ \A p \in Read("couple") : call[p].since = None => p \in S
          BY <2>2, <2>4, <4>4
        <5>2. q \in Read("couple")
          BY <2>2, <5>1 DEF Read, Rest, Same
        <5>3. call'[q].since = "name" /\ call[q].since \in Sound
          BY <4>2, <5>1, <5>2 DEF Sound, NoneIsApart
        <5> QED
          BY <4>1, <5>1, <5>3 DEF Agrees, Sound
      <4> QED
        BY <4>3, <4>4
    <3>2. PICK p \in Request : Under(p) /\ q \in call[p].before
      BY <2>2, <3>1 DEF Inv, AnswerIsFresh, Rest, Same
    <3>3. Under(p)' /\ call[p] # None
      BY <1>11, <3>2 DEF Under
    <3>4. q \in call'[p].before
      <4>1. CASE p = r
        <5>1. call[p].before \subseteq Read(call[p].card)
          BY <1>5, <3>3
        <5> QED
          BY <3>2, <4>1, <5>1
      <4>2. CASE p # r
        BY <3>2, <3>3, <4>2
      <4> QED
        BY <4>1, <4>2
    <3> QED
      BY <3>3, <3>4
  <2> QED
    BY <2>3, <2>4
<1>14. Spinners'
  <2>1. \A q \in Request : (call'[q] # None <=> call[q] # None)
                           /\ (call[q] # None => Same(call[q], call'[q]))
    BY <1>3 DEF Rest
  <2> QED
    BY <2>1 DEF Inv, Spinners, Same
<1>15. Behind'
  BY DEF Inv, Behind
<1> QED
  BY <1>7, <1>8, <1>9, <1>12, <1>13, <1>14, <1>15 DEF Inv

\* The tab is mounted: nothing is shown, and both cards are fetched.
Mounted ==
  /\ NoneIsApart /\ Rows(db) /\ left \subseteq PageCall /\ Behind
  /\ shown = NoCard /\ editor = NoEditor /\ confirm = "no" /\ mishap = NoCard
  /\ \E r, q \in Request : r # q /\ call = Fetches(r, q)

LEMMA FetchType ==
  ASSUME NoneIsApart, NEW card \in Card
  PROVE  LET c == NewCall("fetch", card, None, None) IN
         /\ c \in PageCall /\ c # None /\ c.kind = "fetch" /\ c.card = card
         /\ c.at = "sent" /\ c.before = {}
<1>1. /\ "fetch" \in {"fetch", "save", "delete"}
      /\ None \in Edited \cup {Home, None} /\ None \in Value \cup {None}
  OBVIOUS
<1> QED
  BY <1>1, NewCallType

LEMMA MountKeeps == Mounted => Inv
<1> SUFFICES ASSUME Mounted PROVE Inv
  OBVIOUS
<1>1. PICK r \in Request, q \in Request : r # q /\ call = Fetches(r, q)
  BY DEF Mounted
<1> DEFINE c == NewCall("fetch", "couple", None, None)
           d == NewCall("fetch", "profile", None, None)
<1>2. /\ c \in PageCall /\ c # None /\ c.kind = "fetch" /\ c.card = "couple"
      /\ c.at = "sent" /\ c.before = {}
  BY FetchType DEF Card, Mounted
<1>3. /\ d \in PageCall /\ d # None /\ d.kind = "fetch" /\ d.card = "profile"
      /\ d.at = "sent" /\ d.before = {}
  BY FetchType DEF Card, Mounted
<1> HIDE DEF c, d
<1>4. /\ call \in [Request -> PageCall \cup {None}]
      /\ call[r] = c /\ call[q] = d
      /\ \A x \in Request \ {r, q} : call[x] = None
  BY <1>1, <1>2, <1>3 DEF c, d, Fetches
<1>5. \A x \in Request : call[x] # None => x \in {r, q} /\ call[x].before = {}
  BY <1>2, <1>3, <1>4
<1>6. TypeOK
  BY <1>4, <1>5 DEF Mounted, TypeOK, Rows, Reason, NoneIsApart, NoCard, NoEditor
<1>7. Maps /\ Behind
  BY DEF Mounted, Rows, Maps, NoCard
<1>8. Kinds /\ FetchIsAlone
  BY <1>2, <1>3, <1>4, <1>5 DEF Mounted, Kinds, FetchIsAlone, NoCard, Card
<1>9. CardIsFresh /\ AnswerIsFresh /\ Spinners
  BY <1>2, <1>3, <1>4, <1>5 DEF Mounted, CardIsFresh, AnswerIsFresh, Spinners, NoCard, NoEditor
<1> QED
  BY <1>6, <1>7, <1>8, <1>9 DEF Inv

LEMMA InvInit ==
  ASSUME NoneIsApart
  PROVE  Init => Inv
<1> SUFFICES ASSUME Init PROVE Inv
  OBVIOUS
<1>1. \E r, q \in Request : r # q /\ call = Fetches(r, q)
  BY DEF Init
<1>2. \A card \in Card : db[card] \in Row(card)
  BY DEF Init, Row
<1>3. db = [card \in Card |-> db[card]] /\ db["profile"] # None
  BY <1>2 DEF Init, Card, NoneIsApart
<1>4. Rows(db)
  BY <1>2, <1>3 DEF Rows
<1>5. left \subseteq PageCall /\ Behind
  BY DEF Init, Behind
<1> QED
  BY <1>1, <1>4, <1>5, MountKeeps DEF Init, Mounted

LEMMA FieldsOfCards ==
  ASSUME NoneIsApart PROVE \A f \in Edited : CardOf(f) \in Card /\ f \in Field(CardOf(f))
BY DEF Edited, CardOf, Card, Field

\* The rows that a call stores
LEMMA StoredRows ==
  ASSUME NoneIsApart, Inv, NEW c, c.card \in Card, c.field \in Field(c.card), c.value \in Value,
         db[c.card] # None
  PROVE  Rows(Stored(c)) /\ \A card \in Card \ {c.card} : Stored(c)[card] = db[card]
<1> DEFINE row == [db[c.card] EXCEPT ![c.field] = c.value]
<1>1. db[c.card] \in Row(c.card)
  BY DEF Inv, TypeOK
<1>2. row \in Row(c.card)
  BY <1>1 DEF Row
<1>3. Stored(c) = [db EXCEPT ![c.card] = row]
  BY DEF Stored
<1> HIDE DEF row
<1>4. /\ Stored(c) = [card \in Card |-> Stored(c)[card]]
      /\ Stored(c)[c.card] = row
      /\ \A card \in Card \ {c.card} : Stored(c)[card] = db[card]
  BY <1>3 DEF Inv, Maps
<1>5. Stored(c)["profile"] # None
  BY <1>2, <1>4 DEF Inv, TypeOK, NoneIsApart, Card
<1> QED
  BY <1>2, <1>4, <1>5 DEF Inv, TypeOK, Rows

LEMMA RowsNow == ASSUME Inv PROVE Rows(db)
BY DEF Inv, TypeOK, Maps, Rows

\* The rows without the couple
LEMMA CoupleGone ==
  ASSUME NoneIsApart, Inv, NEW row \in Row("couple") \cup {None}
  PROVE  LET rows == [db EXCEPT !["couple"] = row] IN
         /\ Rows(rows) /\ rows["couple"] = row
         /\ \A card \in Card \ {"couple"} : rows[card] = db[card]
<1> DEFINE rows == [db EXCEPT !["couple"] = row]
<1>1. /\ rows = [card \in Card |-> rows[card]]
      /\ rows["couple"] = row
      /\ \A card \in Card \ {"couple"} : rows[card] = db[card]
  BY DEF Inv, Maps, Card
<1> HIDE DEF rows
<1>2. Rows(rows)
  BY <1>1 DEF Rows, Inv, TypeOK, Card
<1> QED
  BY <1>1, <1>2 DEF rows

\* Rows change behind the tab's back: what they make out of date is marked.
LEMMA UnheardKeeps ==
  ASSUME NoneIsApart, Inv, NEW rows, Rows(rows), NEW reason \in {"partner", "left"},
         Unheard(rows, reason), left' \subseteq left
  PROVE  Inv'
<1> DEFINE S == UNION {Read(card) : card \in Changed(rows)}
<1>1. /\ db' = rows /\ call' = Note(S, reason)
      /\ mishap' = [card \in Card |-> IF card \in Changed(rows) THEN reason ELSE mishap[card]]
      /\ UNCHANGED <<shown, editor, confirm>>
  BY DEF Unheard
<1>2. Typed
  BY DEF Inv, TypeOK, Typed
<1>3. \A q \in S : q \in Request /\ call[q] # None
  BY DEF Read
<1>4. \A q \in Request : call[q] # None /\ call[q].at = "read" /\ q \notin S =>
        Answers(db')[call[q].card] = Answers(db)[call[q].card]
  <2> SUFFICES ASSUME NEW q \in Request, call[q] # None, call[q].at = "read", q \notin S
               PROVE  Answers(db')[call[q].card] = Answers(db)[call[q].card]
    OBVIOUS
  <2>1. call[q].card \in Card /\ q \in Read(call[q].card)
    BY DEF Read, Inv, TypeOK, PageCall
  <2>2. call[q].card \notin Changed(rows)
    BY <2>1
  <2> QED
    BY <1>1, <2>1, <2>2 DEF Changed
<1> HIDE DEF S
<1>5. Marked(call', S, reason)
  <2>1. reason \in Reason
    BY DEF Reason
  <2> QED
    BY <1>1, <1>2, <1>3, <2>1, NoteFields
<1>6. \A card \in Card :
        /\ mishap'[card] \in {mishap[card], reason}
        /\ Answers(db')[card] # Answers(db)[card] => mishap'[card] = reason
  BY <1>1 DEF Changed
<1>7. reason \notin Sound
  BY DEF Sound, NoneIsApart
<1>8. \A x : Read(x)' = Read(x)
  BY <1>5 DEF Read, Marked, Rest, Same
<1>9. (\A q \in Request : call[q] # None => call[q].before \subseteq Read(call[q].card) \ {q})'
  <2> SUFFICES ASSUME NEW q \in Request, call'[q] # None
               PROVE  (call[q].before \subseteq Read(call[q].card) \ {q})'
    OBVIOUS
  <2>1. call[q] # None /\ call'[q].before = call[q].before /\ call'[q].card = call[q].card
    BY <1>5 DEF Marked, Rest, Same
  <2>2. call[q].before \subseteq Read(call[q].card) \ {q}
    BY <2>1 DEF Inv, TypeOK
  <2> QED
    BY <1>8, <2>1, <2>2
<1>10. TypeOK'
  <2>1. \A card \in Card : db'[card] \in Row(card) \cup {None} /\ mishap'[card] \in Reason
    BY <1>1, <1>6 DEF Inv, TypeOK, Reason, Rows
  <2>2. call' \in [Request -> PageCall \cup {None}]
    BY <1>5 DEF Marked
  <2>3. db'["profile"] # None
    BY <1>1 DEF Rows
  <2>4. left' \subseteq PageCall
    BY DEF Inv, TypeOK
  <2> QED
    BY <1>1, <1>9, <2>1, <2>2, <2>3, <2>4 DEF Inv, TypeOK
<1>11. Maps' /\ Behind'
  <2>1. Maps'
    BY <1>1 DEF Inv, Maps, Rows
  <2>2. Behind'
    BY DEF Inv, Behind
  <2> QED
    BY <2>1, <2>2
<1>12. \A q \in Request : call'[q] # None => call[q] # None /\ Rest(call[q], call'[q])
  BY <1>5 DEF Marked
<1>13. Kinds' /\ FetchIsAlone'
  BY <1>1, <1>12 DEF Inv, Kinds, FetchIsAlone, Rest, Same
<1>14. \A q \in Request : Under(q) => Under(q)' /\ call'[q].card = call[q].card
                                      /\ call'[q].before = call[q].before
  BY <1>5 DEF Under, Marked, Rest, Same
<1>15. CardIsFresh'
  <2> SUFFICES ASSUME NEW card \in Card, mishap'[card] \in Sound, shown[card] # None,
                      ~Agrees(shown[card], Answers(db')[card], mishap'[card])
               PROVE  \E q \in Request : Under(q)' /\ call'[q].card = card
    BY <1>1 DEF CardIsFresh
  <2>1. mishap'[card] = mishap[card] /\ Answers(db')[card] = Answers(db)[card]
    BY <1>6, <1>7
  <2> QED
    BY <1>14, <2>1 DEF Inv, CardIsFresh
<1>16. AnswerIsFresh'
  <2> SUFFICES ASSUME NEW q \in Request, call'[q] # None, call'[q].at = "read",
                      call'[q].since \in Sound,
                      ~Agrees(call'[q].data, Answers(db')[call'[q].card], call'[q].since)
               PROVE  \E p \in Request : Under(p)' /\ q \in call'[p].before
    BY DEF AnswerIsFresh
  <2>1. call[q] # None /\ Rest(call[q], call'[q]) /\ q \notin S /\ call[q].since = call'[q].since
    BY <1>5, <1>7 DEF Marked
  <2>2. Answers(db')[call[q].card] = Answers(db)[call[q].card]
    BY <1>4, <2>1 DEF Rest
  <2> QED
    BY <1>14, <2>1, <2>2 DEF Inv, AnswerIsFresh, Rest, Same
<1>17. Spinners'
  <2>1. \A q \in Request : call[q] # None => call'[q] # None /\ Same(call[q], call'[q])
    BY <1>5 DEF Marked, Rest
  <2>2. \A q \in Request : call'[q] # None => call[q] # None
    BY <1>12
  <2> QED
    BY <1>1, <2>1, <2>2 DEF Inv, Spinners, Same
<1> QED
  BY <1>10, <1>11, <1>13, <1>15, <1>16, <1>17 DEF Inv

\* updateMe: a new name is noted where the old one stands.
LEMMA UpdateMeKeeps ==
  ASSUME NoneIsApart, Inv, NEW r \in Request, UpdateMe(r)
  PROVE  Inv'
<1> DEFINE S == OldName(db')
<1>1. /\ call[r] # None /\ call[r].kind = "save" /\ call[r].card = "profile"
      /\ call[r].at = "sent"
      /\ db' = Stored(call[r]) /\ call' = Answered(Note(S, "name"), r, db')
      /\ mishap' = CardOfOldName(db') /\ UNCHANGED <<shown, editor, confirm, left>>
  BY DEF UpdateMe, Sent
<1>2. Typed /\ "profile" \in Card /\ "couple" \in Card /\ db["profile"] # None
  BY DEF Inv, TypeOK, Typed, Card
<1>3. Rows(db') /\ \A card \in Card \ {"profile"} : db'[card] = db[card]
  <2>1. call[r].field \in Field("profile") /\ call[r].value \in Value
    BY <1>1 DEF Inv, Kinds
  <2> QED
    BY <1>1, <1>2, <2>1, StoredRows
<1>4. S \in SUBSET Read("couple") /\ \A q \in S : call[q].since = None
  BY DEF OldName
<1>5. \A q \in S : q \in Request /\ call[q] # None /\ q # r
  BY <1>1, <1>4 DEF Read
<1>6. Answers(db')["couple"] = Info(db') /\ Answers(db)["couple"] = Info(db)
  BY <1>2 DEF Answers
<1>7. /\ Info(db') # Info(db) =>
           \A q \in Read("couple") : call[q].since = None => q \in S
      /\ Unnamed(Info(db')) = Unnamed(Info(db))
  <2>1. Unnamed(Info(db')) = Unnamed(Info(db))
    BY <1>2, <1>3, NameOnly, RowsNow
  <2> QED
    BY <2>1 DEF OldName, Renamed
<1>8. /\ \A card \in Card : \/ mishap'[card] = mishap[card]
                            \/ mishap[card] = None /\ mishap'[card] = "name"
      /\ Info(db') # Info(db) => mishap'["couple"] # None
      /\ mishap' = [card \in Card |-> mishap'[card]]
  BY <1>1, <1>2 DEF CardOfOldName, Renamed, Inv, Maps, NoneIsApart
<1> HIDE DEF S
<1>9. Marked(Note(S, "name"), S, "name")
  <2>1. "name" \in Reason
    BY DEF Reason
  <2> QED
    BY <1>2, <1>5, <2>1, NoteFields
<1> DEFINE cs == Note(S, "name")
<1>10. cs \in [Request -> PageCall \cup {None}] /\ cs[r] = call[r]
  <2>1. cs[r] = call[r]
    BY <1>5 DEF Note
  <2> QED
    BY <1>9, <2>1 DEF Marked
<1>11. Answers(db')[call[r].card] \in (UNION {Row(card) : card \in Card}) \cup {None}
  BY <1>1, <1>2, <1>3, AnswersAreRows
<1> HIDE DEF cs
<1>12. /\ call' \in [Request -> PageCall \cup {None}]
       /\ \A q \in Request \ {r} : call'[q] = cs[q]
       /\ call'[r] # None /\ Same(call[r], call'[r])
       /\ call'[r].at = "read" /\ call'[r].data = Answers(db')[call[r].card]
       /\ call'[r].before = Read(call[r].card) /\ call'[r].since = call[r].since
  BY <1>1, <1>2, <1>10, <1>11, AnsweredFields DEF cs
<1>13. \A q \in Request \ {r} :
         /\ call'[q] = None <=> call[q] = None
         /\ call[q] # None =>
              /\ Rest(call[q], call'[q])
              /\ call'[q].before = call[q].before
              /\ call'[q].since = IF q \in S THEN "name" ELSE call[q].since
  BY <1>9, <1>12 DEF Marked, cs
<1>14. Maps'
  BY <1>1, <1>3, <1>8 DEF Inv, Maps, Rows
<1>15. \A card \in Card \ {call[r].card} :
         \/ Answers(db')[card] = Answers(db)[card]
         \/ /\ card = "couple" /\ mishap'[card] # None
            /\ Unnamed(Answers(db')[card]) = Unnamed(Answers(db)[card])
            /\ \A q \in Read("couple") : call[q].since = None => q \in S
  BY <1>1, <1>6, <1>7, <1>8 DEF Card
<1> QED
  BY <1>1, <1>3, <1>4, <1>8, <1>12, <1>13, <1>14, <1>15, RunKeeps

\* The other requests of the tab change their own card only.
LEMMA RunAlone ==
  ASSUME NoneIsApart, Inv, NEW r \in Request, call[r] # None, call[r].at # "read",
         UNCHANGED <<shown, editor, confirm, left, mishap>>, Rows(db'),
         call' \in [Request -> PageCall \cup {None}],
         \A q \in Request \ {r} : call'[q] = call[q],
         call'[r] # None, Same(call[r], call'[r]),
         call'[r].before = Read(call[r].card), call'[r].since = call[r].since,
         \/ call'[r].at = "read" /\ call'[r].data = Answers(db')[call[r].card]
         \/ call'[r].at = "written" /\ call[r].kind = "save" /\ call[r].card = "couple",
         \/ db' = db
         \/ call[r].card = "couple" /\ call[r].kind # "fetch" /\ db'["profile"] = db["profile"]
  PROVE  Inv'
<1> DEFINE S == {}
<1>1. S \in SUBSET Read("couple") /\ \A q \in S : call[q].since = None
  OBVIOUS
<1>2. Maps'
  BY DEF Inv, Maps, Rows
<1>3. \A q \in Request \ {r} :
        /\ call'[q] = None <=> call[q] = None
        /\ call[q] # None =>
             /\ Rest(call[q], call'[q])
             /\ call'[q].before = call[q].before
             /\ call'[q].since = IF q \in S THEN "name" ELSE call[q].since
  BY DEF Rest, Same
<1>4. \A card \in Card \ {call[r].card} : Answers(db')[card] = Answers(db)[card]
  <2>1. CASE db' = db
    BY <2>1
  <2>2. CASE call[r].card = "couple" /\ db'["profile"] = db["profile"]
    BY <2>2, AnswersAreRows, RowsNow DEF Card
  <2> QED
    BY <2>1, <2>2
<1> HIDE DEF S
<1>5. \A card \in Card : \/ mishap'[card] = mishap[card]
                         \/ mishap[card] = None /\ mishap'[card] = "name"
  OBVIOUS
<1>6. call[r].kind = "fetch" => db' = db
  OBVIOUS
<1> QED
  BY <1>1, <1>2, <1>3, <1>4, <1>5, <1>6, RunKeeps

\* Another tab is chosen and this one again.
LEMMA RemountKeeps ==
  ASSUME NoneIsApart, Inv, Remount
  PROVE  Inv'
<1>1. \E r, q \in Request : r # q /\ call' = Fetches(r, q)
  BY DEF Remount
<1>2. ASSUME NEW c \in left'
      PROVE  \/ c \in left
             \/ \E p \in Request : /\ call[p] # None /\ call[p].kind # "fetch"
                                   /\ c = call[p]
  BY DEF Remount
<1>3. left' \subseteq PageCall
  BY <1>2 DEF Inv, TypeOK
<1>4. Behind'
  <2>1. \A p \in Request : call[p] # None => call[p].kind \in {"fetch", "save", "delete"}
    BY DEF Inv, TypeOK, PageCall
  <2> SUFFICES ASSUME NEW c \in left'
               PROVE  /\ c.kind \in {"save", "delete"}
                      /\ c.kind = "save" => c.field \in Field(c.card) /\ c.value \in Value
                      /\ c.kind = "delete" => c.card = "couple"
    BY DEF Behind
  <2> QED
    BY <1>2, <2>1 DEF Inv, Behind, Kinds
<1>5. /\ shown' = NoCard /\ editor' = NoEditor /\ confirm' = "no" /\ mishap' = NoCard
      /\ db' = db
  BY DEF Remount
<1>6. Rows(db)'
  BY <1>5, RowsNow DEF Rows
<1>7. Mounted'
  BY <1>1, <1>3, <1>4, <1>5, <1>6 DEF Mounted
<1>8. (Mounted => Inv)'
  BY MountKeeps, PTL
<1> QED
  BY <1>7, <1>8

LEMMA InvNext ==
  ASSUME NoneIsApart
  PROVE  Inv /\ [Next]_vars => Inv'
<1> SUFFICES ASSUME Inv, [Next]_vars PROVE Inv'
  OBVIOUS
<1>1. ASSUME UNCHANGED <<db, shown, call, left, mishap>>,
             editor' \in [Edited -> {"view", "edit", "saving"}],
             confirm' \in {"no", "asked", "breaking", "done", "away"},
             \A f \in Edited : editor'[f] = "saving" => editor[f] = "saving",
             confirm' = "breaking" => confirm = "breaking",
             confirm' = confirm \/ confirm # "breaking",
             confirm' # "no" => confirm # "no" \/ ~Loading
      PROVE  Inv'
  <2>1. \A x : Read(x)' = Read(x)
    BY <1>1 DEF Read
  <2>2. (\A q \in Request : call[q] # None => call[q].before \subseteq Read(call[q].card) \ {q})'
    BY <1>1, <2>1 DEF Inv, TypeOK
  <2>3. TypeOK'
    BY <1>1, <2>2 DEF Inv, TypeOK
  <2>4. \A q : Under(q)' = Under(q)
    BY <1>1 DEF Under
  <2>5. Maps' /\ Kinds' /\ Behind' /\ FetchIsAlone' /\ CardIsFresh' /\ AnswerIsFresh' /\ Spinners'
    BY <1>1, <2>4 DEF Inv, Maps, Kinds, Behind, FetchIsAlone, CardIsFresh, AnswerIsFresh, Spinners, Loading
  <2> QED
    BY <2>3, <2>5 DEF Inv
<1>2. ASSUME NEW f \in Edited, Edit(f) \/ Cancel(f) PROVE Inv'
  BY <1>1, <1>2 DEF Edit, Cancel, Inv, TypeOK
<1>3. CASE AskBreakUp \/ KeepCouple \/ UNCHANGED vars
  BY <1>1, <1>3 DEF AskBreakUp, KeepCouple, Ready, vars, Inv, TypeOK
<1>4. ASSUME NEW r \in Request, NEW f \in Edited, NEW v \in Value, Save(r, f, v) PROVE Inv'
  <2>1. /\ call[r] = None /\ call' = [call EXCEPT ![r] = NewCall("save", CardOf(f), f, v)]
        /\ UNCHANGED <<db, shown, confirm, left, mishap>>
        /\ editor' = [editor EXCEPT ![f] = "saving"]
        /\ \A q \in Request : call[q] # None => call[q].kind # "fetch"
    BY <1>4 DEF Save, CanSave, Ready, Loading
  <2>2. CardOf(f) \in Card /\ f \in Field(CardOf(f))
    BY FieldsOfCards
  <2>3. /\ editor' \in [Edited -> {"view", "edit", "saving"}]
        /\ confirm' \in {"no", "asked", "breaking", "done", "away"}
        /\ \A g \in Edited : editor'[g] = "saving" => editor[g] = "saving" \/ g = f
    BY <2>1 DEF Inv, TypeOK
  <2> QED
    BY <2>1, <2>2, <2>3, SendKeeps
<1>5. ASSUME NEW r \in Request, NEW v \in Value, HomeSelect(r, v) PROVE Inv'
  <2>1. /\ call[r] = None /\ call' = [call EXCEPT ![r] = NewCall("save", "profile", Home, v)]
        /\ UNCHANGED <<db, shown, editor, confirm, left, mishap>>
        /\ \A q \in Request : call[q] # None => call[q].kind # "fetch"
    BY <1>5 DEF HomeSelect, Ready, Loading
  <2>2. "profile" \in Card /\ Home \in Field("profile")
    BY DEF Card, Field
  <2>3. /\ editor' \in [Edited -> {"view", "edit", "saving"}]
        /\ confirm' \in {"no", "asked", "breaking", "done", "away"}
    BY <2>1 DEF Inv, TypeOK
  <2> QED
    BY <2>1, <2>2, <2>3, SendKeeps
<1>6. ASSUME NEW r \in Request, BreakUp(r) PROVE Inv'
  <2>1. /\ call[r] = None /\ call' = [call EXCEPT ![r] = NewCall("delete", "couple", None, None)]
        /\ UNCHANGED <<db, shown, editor, left, mishap>>
        /\ confirm = "asked" /\ confirm' = "breaking"
        /\ \A q \in Request : call[q] # None => call[q].kind # "fetch"
    BY <1>6 DEF BreakUp, Inv, FetchIsAlone
  <2>2. "couple" \in Card
    BY DEF Card
  <2>3. /\ editor' \in [Edited -> {"view", "edit", "saving"}]
        /\ confirm' \in {"no", "asked", "breaking", "done", "away"}
    BY <2>1 DEF Inv, TypeOK
  <2> QED
    BY <2>1, <2>2, <2>3, SendKeeps
<1>7. ASSUME NEW r \in Request, UpdateMe(r) PROVE Inv'
  BY <1>7, UpdateMeKeeps
<1>8. ASSUME NEW r \in Request, UpdateCouple(r) PROVE Inv'
  <2>1. /\ call[r] # None /\ call[r].kind = "save" /\ call[r].card = "couple" /\ call[r].at = "sent"
        /\ db' = Stored(call[r]) /\ db["couple"] # None
        /\ UNCHANGED <<shown, editor, confirm, left, mishap>>
    BY <1>8 DEF UpdateCouple, Sent
  <2>2. Typed /\ "profile" \in Card /\ "couple" \in Card
    BY DEF Inv, TypeOK, Typed, Card
  <2>3. Rows(db') /\ db'["profile"] = db["profile"]
    <3>1. call[r].field \in Field("couple") /\ call[r].value \in Value
      BY <2>1 DEF Inv, Kinds
    <3> QED
      BY <2>1, <2>2, <3>1, StoredRows
  <2> DEFINE c == call[r]
             d == [c EXCEPT !.at = "written", !.before = Read("couple")]
  <2>4. c \in PageCall /\ Read("couple") \subseteq Request
    BY <2>1, <2>2 DEF Typed, Read
  <2>5. /\ d \in PageCall
        /\ d.kind = c.kind /\ d.card = c.card /\ d.field = c.field /\ d.value = c.value
        /\ d.at = "written" /\ d.before = Read("couple") /\ d.since = c.since
    BY <2>4 DEF PageCall
  <2>6. call' = [call EXCEPT ![r] = d]
    BY <1>8 DEF UpdateCouple
  <2> HIDE DEF d
  <2>7. /\ call' \in [Request -> PageCall \cup {None}]
        /\ \A q \in Request \ {r} : call'[q] = call[q]
        /\ call'[r] # None /\ Same(call[r], call'[r])
        /\ call'[r].at = "written"
        /\ call'[r].before = Read(call[r].card) /\ call'[r].since = call[r].since
    BY <2>1, <2>2, <2>5, <2>6 DEF Typed, Same, NoneIsApart
  <2> QED
    BY <2>1, <2>3, <2>7, RunAlone
<1>9. ASSUME NEW r \in Request, FindMe(r) \/ FindInfo(r) PROVE Inv'
  <2>1. /\ call[r] # None /\ call[r].at # "read" /\ call' = Answered(call, r, db)
        /\ UNCHANGED <<db, shown, editor, confirm, left, mishap>>
    BY <1>9 DEF FindMe, FindInfo, InfoAsked, Sent
  <2>2. Typed /\ call[r].card \in Card /\ Rows(db)
    BY <2>1, RowsNow DEF Inv, TypeOK, Typed, PageCall
  <2>3. Rows(db')
    BY <2>1, <2>2
  <2>4. Answers(db)[call[r].card] \in (UNION {Row(card) : card \in Card}) \cup {None}
    BY <2>2, AnswersAreRows
  <2>5. /\ call' \in [Request -> PageCall \cup {None}]
        /\ \A q \in Request \ {r} : call'[q] = call[q]
        /\ call'[r] # None /\ Same(call[r], call'[r])
        /\ call'[r].at = "read" /\ call'[r].data = Answers(db)[call[r].card]
        /\ call'[r].before = Read(call[r].card) /\ call'[r].since = call[r].since
    BY <2>1, <2>2, <2>4, AnsweredFields DEF Typed
  <2>6. /\ call[r] # None /\ call[r].at # "read" /\ db' = db
        /\ UNCHANGED <<shown, editor, confirm, left, mishap>>
        /\ call'[r].data = Answers(db')[call[r].card]
    BY <2>1, <2>5
  <2> QED
    BY <2>3, <2>5, <2>6, RunAlone
<1>10. ASSUME NEW r \in Request, RunBreakUp(r) PROVE Inv'
  <2>1. /\ call[r] # None /\ call[r].kind = "delete" /\ call[r].card = "couple" /\ call[r].at = "sent"
        /\ db' = [db EXCEPT !["couple"] = None]
        /\ call' = Answered(call, r, db') /\ UNCHANGED <<shown, editor, confirm, left, mishap>>
    BY <1>10 DEF RunBreakUp, Sent
  <2>2. Typed /\ "couple" \in Card /\ "profile" \in Card
    BY DEF Inv, TypeOK, Typed, Card
  <2>3. Rows(db') /\ db'["profile"] = db["profile"]
    BY <2>1, <2>2, CoupleGone
  <2>4. Answers(db')[call[r].card] \in (UNION {Row(card) : card \in Card}) \cup {None}
    BY <2>1, <2>2, <2>3, AnswersAreRows
  <2>5. /\ call' \in [Request -> PageCall \cup {None}]
        /\ \A q \in Request \ {r} : call'[q] = call[q]
        /\ call'[r] # None /\ Same(call[r], call'[r])
        /\ call'[r].at = "read" /\ call'[r].data = Answers(db')[call[r].card]
        /\ call'[r].before = Read(call[r].card) /\ call'[r].since = call[r].since
    <3>1. call[r] # None /\ call' = Answered(call, r, db') /\ Typed
      BY <2>1, <2>2
    <3> QED
      BY <2>4, <3>1, AnsweredFields DEF Typed
  <2> QED
    BY <2>1, <2>3, <2>5, RunAlone
<1>11. ASSUME NEW row \in [CoupleField -> Value] \cup {None}, PartnerWrites(row) PROVE Inv'
  <2>1. row \in Row("couple") \cup {None}
    BY DEF Row, Field
  <2>2. Rows([db EXCEPT !["couple"] = row])
    BY <2>1, CoupleGone
  <2> QED
    BY <1>11, <2>2, UnheardKeeps DEF PartnerWrites
<1>15. ASSUME NEW c \in left, RunLeft(c) PROVE Inv'
  <2> DEFINE rows == IF c.kind = "save" THEN Stored(c) ELSE [db EXCEPT !["couple"] = None]
  <2>1. Unheard(rows, "left") /\ left' \subseteq left /\ db[c.card] # None
    BY <1>15 DEF RunLeft
  <2>2. c.card \in Card
    BY DEF Inv, TypeOK, PageCall
  <2>3. Rows(rows)
    <3>1. CASE c.kind = "save"
      BY <2>1, <2>2, <3>1, StoredRows DEF Inv, Behind
    <3>2. CASE c.kind # "save"
      BY <3>2, CoupleGone
    <3> QED
      BY <3>1, <3>2
  <2> HIDE DEF rows
  <2> QED
    BY <2>1, <2>3, UnheardKeeps
<1>16. CASE Remount
  BY <1>16, RemountKeeps
<1>12. ASSUME NEW r \in Request, FetchArrives(r) \/ SaveArrives(r) \/ BreakUpArrives(r)
       PROVE  Inv'
  <2>1. call[r] # None /\ call[r].at = "read" /\ Replace(r) /\ UNCHANGED <<db, left>>
    BY <1>12 DEF FetchArrives, SaveArrives, BreakUpArrives, Answer
  <2>2. Ends(r)
    BY <1>12 DEF FetchArrives, SaveArrives, BreakUpArrives, Answer, Ends
  <2>3. TypeOK' /\ Maps' /\ Kinds' /\ Behind' /\ FetchIsAlone' /\ CardIsFresh' /\ AnswerIsFresh'
         /\ Gone(call', r, call[r].before, "overtaken")
    BY <2>1, <2>2, EndsWell, ReplaceKeeps
  <2>4. Spinners'
    BY <2>1, <2>2, <2>3, EndsWell, GoneKeepsSpinners
  <2> QED
    BY <2>3, <2>4 DEF Inv
<1>13. ASSUME NEW r \in Request, FetchFails(r) \/ SaveFails(r) \/ BreakUpFails(r)
       PROVE  Inv'
  <2>1. call[r] # None /\ Drop(r) /\ UNCHANGED <<db, shown, left>>
    BY <1>13 DEF FetchFails, SaveFails, BreakUpFails
  <2>2. Ends(r)
    BY <1>13 DEF FetchFails, SaveFails, BreakUpFails, Ends
  <2>3. TypeOK' /\ Maps' /\ Kinds' /\ Behind' /\ FetchIsAlone' /\ CardIsFresh' /\ AnswerIsFresh'
        /\ \E S : Gone(call', r, S, "lost")
    BY <2>1, <2>2, EndsWell, DropKeeps
  <2>4. Spinners'
    BY <2>1, <2>2, <2>3, EndsWell, GoneKeepsSpinners
  <2> QED
    BY <2>3, <2>4 DEF Inv
<1>14. CASE Leave
  <2>1. \A r \in Request : call'[r] = None
    BY <1>14 DEF Leave
  <2>2. /\ call' \in [Request -> PageCall \cup {None}]
        /\ shown' = NoCard /\ editor' = NoEditor /\ confirm' = "away"
        /\ UNCHANGED <<db, left, mishap>>
    BY <1>14 DEF Leave
  <2>3. TypeOK' /\ Maps' /\ Behind'
    BY <2>1, <2>2 DEF Inv, TypeOK, Maps, Behind, NoCard, NoEditor
  <2> QED
    BY <2>1, <2>2, <2>3 DEF Inv, Kinds, FetchIsAlone, CardIsFresh, AnswerIsFresh, Spinners,
                            NoCard, NoEditor
<1> QED
  BY <1>2, <1>3, <1>4, <1>5, <1>6, <1>7, <1>8, <1>9, <1>10, <1>11, <1>12, <1>13, <1>14, <1>15, <1>16 DEF Next

LEMMA InvShows ==
  ASSUME NoneIsApart, Inv
  PROVE  TypeOK /\ CardShowsDb /\ SpinnerEnds
<1>1. CardShowsDb
  BY DEF Inv, CardIsFresh, Under, CardShowsDb, Sound
<1>2. SpinnerEnds
  BY DEF Inv, Spinners, SpinnerEnds
<1> QED
  BY <1>1, <1>2 DEF Inv
=============================================================================
