---------------------------- MODULE InvitesProofs ----------------------------
(***************************************************************************)
(* The page of a user without a couple shows the invite that is pending    *)
(* once it is at rest, for any users and number of overlapping calls.      *)
(*                                                                         *)
(* While calls are under way the page may be behind the rows.  What makes  *)
(* up for it is an answer on its way: PageIsFresh for the page, and        *)
(* AnswerIsFresh for an answer that is itself behind.                      *)
(***************************************************************************)
EXTENDS WebInvites, TLAPS

\* The part of the types that the lemmas about calls need.
Typed == call \in [Request -> PageCall \cup {None}]

\* What a call of each kind is about, and how far it can be.
Kinds ==
  \A r \in Request : call[r] # None =>
    /\ call[r].kind \in {"accept", "decline", "send"} => call[r].who \in Person
    /\ call[r].kind = "search" => call[r].who \in Person \cup {Unknown} /\ call[r].at = "sent"
    /\ call[r].kind = "accept" /\ call[r].at = "run" => member
    /\ call[r].kind = "fetch" /\ call[r].at = "run" => call[r].sent # None /\ call[r].received # None
    /\ call[r].before \subseteq OnTheWay \ {r}

\* The page waits for its fetch before it shows anything.
FetchIsAlone ==
  \A r \in Request : call[r] # None /\ call[r].kind = "fetch" =>
    /\ loading /\ call[r].before = {}
    /\ \A q \in Request : call[q] # None => q = r
    /\ call[r].sent # None /\ call[r].since = None /\ ~member => call[r].sent = <<pending>>

\* The invite that the answer to r puts on the page
Says(r) == IF call[r].kind = "send" THEN call[r].who ELSE None

\* A page that differs from the row without a mishap awaits an answer, ...
PageIsFresh ==
  ~member /\ mishap = None /\ sentInvite # pending =>
    \E q \in Request : q \in OnTheWay \/ (call[q] # None /\ call[q].kind = "fetch")

\* ... and so does an answer that does: it was given before that call ran.
AnswerIsFresh ==
  \A r \in OnTheWay : ~member /\ call[r].kind # "fetch" /\ call[r].since = None /\ Says(r) # pending =>
    \E q \in OnTheWay : r \in call[q].before

\* A call of the tab that is shown
HereAre(kinds) == \E r \in Request : call[r] # None /\ call[r].kind \in kinds /\ call[r].here

\* SpinnerEnds, with the tab in which the call began: another one would not
\* reset the flag.
Spinners ==
  /\ loading => \E r \in Request : call[r] # None /\ call[r].kind = "fetch"
  /\ sending => HereAre({"search", "send"})
  /\ canceling => HereAre({"cancel"})
  /\ processingId # None => HereAre({"accept", "decline"}) \/ (member /\ status \in {"couple", None})

Inv == TypeOK /\ Kinds /\ FetchIsAlone /\ PageIsFresh /\ AnswerIsFresh /\ Spinners

-----------------------------------------------------------------------------
LEMMA NewCallType ==
  ASSUME NoneIsApart, NEW kind \in {"fetch", "accept", "decline", "search", "send", "cancel"},
         NEW p \in Person \cup {Unknown, None}
  PROVE  LET c == NewCall(kind, p) IN
         /\ c \in PageCall /\ c # None
         /\ c.kind = kind /\ c.who = p /\ c.at = "sent" /\ c.here = TRUE
         /\ c.before = {} /\ c.sent = None /\ c.received = None /\ c.since = None
<1>1. NewCall(kind, p) \in PageCall
  BY DEF NewCall, PageCall, Reason
<1> QED
  BY <1>1 DEF NewCall, NoneIsApart

\* All that a call is about but what the page may know of other answers
Rest(c, d) ==
  /\ d.kind = c.kind /\ d.who = c.who /\ d.at = c.at /\ d.here = c.here
  /\ d.sent = c.sent /\ d.received = c.received

\* cs is call with the reason noted for the calls in S.
Marked(cs, S, reason) ==
  /\ cs \in [Request -> PageCall \cup {None}]
  /\ \A q \in Request :
       /\ cs[q] = None <=> call[q] = None
       /\ call[q] # None =>
            /\ Rest(call[q], cs[q])
            /\ cs[q].before = call[q].before
            /\ cs[q].since = IF q \in S THEN reason ELSE call[q].since

\* cs is call when r is over and the reason is noted for the calls in S.
Gone(cs, r, S, reason) ==
  /\ cs \in [Request -> PageCall \cup {None}]
  /\ cs[r] = None
  /\ \A q \in Request \ {r} :
       /\ cs[q] = None <=> call[q] = None
       /\ call[q] # None =>
            /\ Rest(call[q], cs[q])
            /\ cs[q].before = call[q].before \ {r}
            /\ cs[q].since = IF q \in S THEN reason ELSE call[q].since

LEMMA NoteFields ==
  ASSUME NoneIsApart, Typed, NEW S, \A q \in S : q \in Request /\ call[q] # None, NEW reason \in Reason
  PROVE  Marked(Note(S, reason), S, reason)
<1> DEFINE cs == Note(S, reason)
<1>1. ASSUME NEW q \in Request
      PROVE  /\ cs[q] \in PageCall \cup {None}
             /\ cs[q] = None <=> call[q] = None
             /\ call[q] # None =>
                  /\ Rest(call[q], cs[q])
                  /\ cs[q].before = call[q].before
                  /\ cs[q].since = IF q \in S THEN reason ELSE call[q].since
  <2>1. CASE q \in S
    <3> DEFINE d == [call[q] EXCEPT !.since = reason]
    <3>1. call[q] \in PageCall
      BY <2>1 DEF Typed
    <3>2. cs[q] = d
      BY <2>1 DEF Note
    <3>3. d \in PageCall
      BY <3>1 DEF PageCall
    <3>4. /\ d.kind = call[q].kind /\ d.who = call[q].who /\ d.at = call[q].at
          /\ d.here = call[q].here /\ d.sent = call[q].sent /\ d.received = call[q].received
          /\ d.before = call[q].before /\ d.since = reason
      BY <3>1 DEF PageCall
    <3> HIDE DEF d, cs
    <3> QED
      BY <2>1, <3>1, <3>2, <3>3, <3>4 DEF Rest, NoneIsApart
  <2>2. CASE q \notin S
    <3>1. cs[q] = call[q]
      BY <2>2 DEF Note
    <3> HIDE DEF cs
    <3> QED
      BY <2>2, <3>1 DEF Rest, Typed
  <2> QED
    BY <2>1, <2>2
<1>2. cs \in [Request -> PageCall \cup {None}]
  <2>1. cs = [q \in Request |-> cs[q]]
    BY DEF Note
  <2> HIDE DEF cs
  <2> QED
    BY <1>1, <2>1
<1> HIDE DEF cs
<1>3. Marked(cs, S, reason)
  BY <1>1, <1>2 DEF Marked
<1> QED
  BY <1>3 DEF cs

LEMMA WithoutFields ==
  ASSUME NoneIsApart, Typed, NEW r \in Request, NEW cs, NEW S, NEW reason, Marked(cs, S, reason)
  PROVE  Gone(Without(cs, r), r, S, reason)
<1> DEFINE ds == Without(cs, r)
<1>1. ASSUME NEW q \in Request
      PROVE  /\ ds[q] \in PageCall \cup {None}
             /\ q = r => ds[q] = None
             /\ q # r =>
                  /\ ds[q] = None <=> call[q] = None
                  /\ call[q] # None =>
                       /\ Rest(call[q], ds[q])
                       /\ ds[q].before = call[q].before \ {r}
                       /\ ds[q].since = IF q \in S THEN reason ELSE call[q].since
  <2>1. CASE q = r \/ cs[q] = None
    BY <2>1 DEF Without, Marked
  <2>2. CASE ~(q = r \/ cs[q] = None)
    <3> DEFINE c == cs[q]
               d == [c EXCEPT !.before = @ \ {r}]
    <3>1. c \in PageCall
      BY <2>2 DEF Marked
    <3>2. ds[q] = d
      BY <2>2 DEF Without
    <3>3. d \in PageCall
      BY <3>1 DEF PageCall
    <3>4. /\ d.kind = c.kind /\ d.who = c.who /\ d.at = c.at /\ d.here = c.here
          /\ d.sent = c.sent /\ d.received = c.received
          /\ d.before = c.before \ {r} /\ d.since = c.since
      BY <3>1 DEF PageCall
    <3>5. /\ call[q] # None /\ Rest(call[q], c)
          /\ c.before = call[q].before
          /\ c.since = IF q \in S THEN reason ELSE call[q].since
      BY <2>2 DEF Marked
    <3> HIDE DEF c, d, ds
    <3> QED
      BY <2>2, <3>2, <3>3, <3>4, <3>5 DEF Rest, NoneIsApart
  <2> QED
    BY <2>1, <2>2
<1>2. ds \in [Request -> PageCall \cup {None}]
  <2>1. ds = [q \in Request |-> ds[q]]
    BY DEF Without
  <2> HIDE DEF ds
  <2> QED
    BY <1>1, <2>1
<1> HIDE DEF ds
<1>3. Gone(ds, r, S, reason)
  BY <1>1, <1>2 DEF Gone
<1> QED
  BY <1>3 DEF ds

LEMMA Waiting ==
  ASSUME NoneIsApart, NEW r
  PROVE  r \in OnTheWay <=> /\ r \in Request /\ call[r] # None
                            /\ call[r].kind \in {"fetch", "send", "cancel"} /\ call[r].at = "run"
BY DEF OnTheWay, Active

\* A call is over.
LEMMA GoneKeeps ==
  ASSUME NoneIsApart, Inv, NEW r \in Request, call[r] # None, NEW S, NEW reason \in Reason \ {None},
         Gone(call', r, S, reason), UNCHANGED <<pending, member>>, 
         r \in OnTheWay => call[r].before \subseteq S
  PROVE  /\ Kinds' /\ AnswerIsFresh'
         /\ OnTheWay' = OnTheWay \ {r}
         /\ \A q \in Request : call'[q] # None => 
              q # r /\ call[q] # None /\ call'[q].kind = call[q].kind /\ call'[q].here = call[q].here
<1>1. \A q \in Request : call'[q] # None =>
        /\ q # r /\ call[q] # None /\ Rest(call[q], call'[q])
        /\ call'[q].before = call[q].before \ {r}
        /\ call'[q].since = IF q \in S THEN reason ELSE call[q].since
  BY DEF Gone
<1>2. OnTheWay' = OnTheWay \ {r}
  BY DEF Gone, Rest, OnTheWay, Active
<1>3. Kinds'
  BY <1>1, <1>2 DEF Inv, Kinds, Rest
<1>4. AnswerIsFresh'
  <2> SUFFICES ASSUME NEW q \in OnTheWay', ~member, call'[q].kind # "fetch",
                      call'[q].since = None, Says(q)' # pending
               PROVE  \E p \in OnTheWay' : q \in call'[p].before
    BY DEF AnswerIsFresh
  <2>1. q \in Request /\ q # r /\ q \in OnTheWay /\ call'[q] # None
    BY <1>2, Waiting DEF Gone, OnTheWay, Active
  <2>2. q \notin S /\ call[q].since = None /\ call[q].kind # "fetch" /\ Says(q) # pending
    BY <1>1, <2>1 DEF Rest, Says
  <2>3. PICK p \in OnTheWay : q \in call[p].before
    BY <2>1, <2>2 DEF Inv, AnswerIsFresh
  <2>4. p # r
    BY <2>2, <2>3
  <2>5. p \in OnTheWay' /\ call'[p] # None /\ p \in Request
    BY <1>2, <2>3, <2>4, Waiting DEF Gone
  <2> QED
    BY <1>1, <2>1, <2>3, <2>5
<1> QED
  BY <1>1, <1>2, <1>3, <1>4 DEF Rest

Kind == {"fetch", "accept", "decline", "search", "send", "cancel"}

LEMMA CallFields ==
  ASSUME NoneIsApart, Inv, NEW r \in Request, call[r] # None
  PROVE  /\ call[r] \in PageCall /\ call[r].kind \in Kind /\ call[r].at \in {"sent", "run"}
         /\ call[r].who \in Person \cup {Unknown, None} /\ call[r].here \in BOOLEAN
         /\ call[r].sent \in Answer(Person \cup {None}) \cup {None}
         /\ call[r].received \in Answer(SUBSET Person) \cup {None}
         /\ call[r].since \in Reason /\ call[r].before \subseteq OnTheWay \ {r}
<1>1. call[r] \in PageCall
  BY DEF Inv, TypeOK
<1> QED
  BY <1>1 DEF PageCall, Kind, Inv, Kinds

\* The call of a button: nothing has been asked of the server yet.
LEMMA PressKeeps ==
  ASSUME NoneIsApart, Inv, NEW r \in Request, call[r] = None, ~loading,
         NEW kind \in {"accept", "decline", "search", "cancel"},
         NEW p \in Person \cup {Unknown, None},
         kind \in {"accept", "decline"} => p \in Person,
         kind = "search" => p \in Person \cup {Unknown},
         call' = [call EXCEPT ![r] = NewCall(kind, p)],
         UNCHANGED <<rows, status, hook, loading, mishap>>,
         activeTab' \in {"received", "send"}, processingId' \in Person \cup {None},
         sending' \in BOOLEAN, canceling' \in BOOLEAN, errorModal' \in BOOLEAN,
         sending' => sending \/ kind = "search",
         canceling' => canceling \/ kind = "cancel",
         processingId' # None => processingId # None \/ kind \in {"accept", "decline"}
  PROVE  Inv'
<1> DEFINE c == NewCall(kind, p)
<1>1. /\ c \in PageCall /\ c # None
      /\ c.kind = kind /\ c.who = p /\ c.at = "sent" /\ c.here = TRUE
      /\ c.before = {} /\ c.sent = None /\ c.received = None /\ c.since = None
  <2>1. kind \in {"fetch", "accept", "decline", "search", "send", "cancel"}
    OBVIOUS
  <2>2. NewCall(kind, p) \in PageCall
    BY <2>1 DEF NewCall, PageCall, Reason
  <2> QED
    BY <2>2 DEF NewCall, NoneIsApart
<1> HIDE DEF c
<1>2. call' \in [Request -> PageCall \cup {None}] /\ call'[r] = c
      /\ \A q \in Request \ {r} : call'[q] = call[q]
  BY <1>1 DEF c, Inv, TypeOK
<1>3. OnTheWay' = OnTheWay
  BY <1>1, <1>2 DEF OnTheWay, Active
<1>4. UNCHANGED <<pending, inbox, member, taken, status, sentInvite, receivedInvites, loading, mishap>>
  BY DEF rows, hook
<1>5. TypeOK'
  BY <1>2, <1>4 DEF Inv, TypeOK
<1>6. Kinds'
  <2>1. \A q \in Request : call'[q] # None =>
          /\ call'[q].kind \in {"accept", "decline", "send"} => call'[q].who \in Person
          /\ call'[q].kind = "search" => call'[q].who \in Person \cup {Unknown} /\ call'[q].at = "sent"
          /\ call'[q].kind = "accept" /\ call'[q].at = "run" => member
          /\ call'[q].kind = "fetch" /\ call'[q].at = "run" => call'[q].sent # None /\ call'[q].received # None
          /\ call'[q].before \subseteq OnTheWay \ {q}
    BY <1>1, <1>2 DEF Inv, Kinds
  <2> QED
    BY <1>3, <1>4, <2>1 DEF Kinds
<1>7. \A q \in Request : call'[q] # None => call'[q].kind # "fetch"
  BY <1>1, <1>2 DEF Inv, FetchIsAlone
<1>8. FetchIsAlone'
  BY <1>7 DEF FetchIsAlone
<1>9. PageIsFresh'
  BY <1>2, <1>3, <1>4 DEF Inv, PageIsFresh, FetchIsAlone
<1>10. \A q \in OnTheWay : q \in Request /\ q # r
  BY DEF OnTheWay, Active
<1>11. AnswerIsFresh'
  <2> SUFFICES ASSUME NEW q \in OnTheWay', ~member', call'[q].kind # "fetch",
                      call'[q].since = None, Says(q)' # pending'
               PROVE  \E o \in OnTheWay' : q \in call'[o].before
    BY DEF AnswerIsFresh
  <2>1. q \in OnTheWay /\ call'[q] = call[q] /\ Says(q)' = Says(q)
    BY <1>2, <1>3, <1>10 DEF Says
  <2>2. PICK o \in OnTheWay : q \in call[o].before
    BY <1>4, <2>1 DEF Inv, AnswerIsFresh
  <2> QED
    BY <1>2, <1>3, <1>10, <2>2
<1>12. \A kinds : HereAre(kinds) => HereAre(kinds)'
  BY <1>2 DEF HereAre
<1>13. \A kinds : kind \in kinds => HereAre(kinds)'
  BY <1>1, <1>2 DEF HereAre
<1>14. Spinners'
  BY <1>4, <1>12, <1>13 DEF Inv, Spinners
<1> QED
  BY <1>5, <1>6, <1>8, <1>9, <1>11, <1>14 DEF Inv

LEMMA SwitchKeeps ==
  ASSUME NoneIsApart, Inv, SwitchTab
  PROVE  Inv'
<1>1. /\ ~loading /\ activeTab' \in {"received", "send"}
      /\ processingId' = None /\ sending' = FALSE /\ canceling' = FALSE /\ errorModal' = FALSE
      /\ call' = [r \in Request |-> IF call[r] = None THEN None ELSE [call[r] EXCEPT !.here = FALSE]]
      /\ UNCHANGED <<pending, inbox, member, taken, status, sentInvite, receivedInvites, loading, mishap>>
  BY DEF SwitchTab, Shows, rows, hook
<1>2. ASSUME NEW q \in Request
      PROVE  /\ call'[q] \in PageCall \cup {None}
             /\ call'[q] = None <=> call[q] = None
             /\ call[q] # None =>
                  /\ call'[q].kind = call[q].kind /\ call'[q].who = call[q].who
                  /\ call'[q].at = call[q].at /\ call'[q].sent = call[q].sent
                  /\ call'[q].received = call[q].received
                  /\ call'[q].before = call[q].before /\ call'[q].since = call[q].since
  <2>1. CASE call[q] = None
    BY <1>1, <2>1
  <2>2. CASE call[q] # None
    <3> DEFINE d == [call[q] EXCEPT !.here = FALSE]
    <3>1. call[q] \in PageCall
      BY <2>2 DEF Inv, TypeOK
    <3>2. call'[q] = d
      BY <1>1, <2>2
    <3>3. d \in PageCall
      BY <3>1 DEF PageCall
    <3>4. /\ d.kind = call[q].kind /\ d.who = call[q].who /\ d.at = call[q].at
          /\ d.sent = call[q].sent /\ d.received = call[q].received
          /\ d.before = call[q].before /\ d.since = call[q].since
      BY <3>1 DEF PageCall
    <3> HIDE DEF d
    <3> QED
      BY <2>2, <3>2, <3>3, <3>4 DEF NoneIsApart
  <2> QED
    BY <2>1, <2>2
<1>3. call' \in [Request -> PageCall \cup {None}]
  <2>1. call' = [q \in Request |-> call'[q]]
    BY <1>1
  <2> QED
    BY <1>2, <2>1
<1>4. OnTheWay' = OnTheWay
  BY <1>2 DEF OnTheWay, Active
<1>5. TypeOK'
  BY <1>1, <1>3 DEF Inv, TypeOK
<1>6. Kinds'
  BY <1>1, <1>2, <1>4 DEF Inv, Kinds
<1>7. FetchIsAlone' /\ PageIsFresh'
  BY <1>1, <1>2, <1>4 DEF Inv, FetchIsAlone, PageIsFresh
<1>8. \A q \in OnTheWay : q \in Request /\ call[q] # None
  BY DEF OnTheWay, Active
<1>9. AnswerIsFresh'
  <2> SUFFICES ASSUME NEW q \in OnTheWay', ~member', call'[q].kind # "fetch",
                      call'[q].since = None, Says(q)' # pending'
               PROVE  \E o \in OnTheWay' : q \in call'[o].before
    BY DEF AnswerIsFresh
  <2>1. q \in OnTheWay /\ q \in Request /\ call[q] # None
    BY <1>4, <1>8
  <2>2. Says(q)' = Says(q) /\ call[q].kind # "fetch" /\ call[q].since = None
    BY <1>2, <2>1 DEF Says
  <2>3. PICK o \in OnTheWay : q \in call[o].before
    BY <1>1, <2>1, <2>2 DEF Inv, AnswerIsFresh
  <2> QED
    BY <1>2, <1>4, <1>8, <2>3
<1>10. Spinners'
  BY <1>1 DEF Spinners
<1> QED
  BY <1>5, <1>6, <1>7, <1>9, <1>10 DEF Inv

\* The server runs a request that changes the invite sent: all answers on their
\* way are in its "before".
LEMMA RanKeeps ==
  ASSUME NoneIsApart, Inv, NEW r \in Request, RunSend(r) \/ RunCancel(r),
         UNCHANGED <<status, hook, loading, tabs, mishap>>
  PROVE  Inv'
<1> DEFINE c == call[r]
           d == [c EXCEPT !.at = "run", !.before = OnTheWay]
<1>1. /\ c # None /\ c.kind \in {"send", "cancel"} /\ c.at = "sent"
      /\ call' = [call EXCEPT ![r] = d]
      /\ pending' = IF c.kind = "send" THEN c.who ELSE None
      /\ UNCHANGED <<inbox, member, taken, status, sentInvite, receivedInvites, loading, mishap,
                     activeTab, processingId, sending, canceling, errorModal>>
      /\ c.kind = "send" => ~member
  BY DEF RunSend, RunCancel, Active, Ran, hook, tabs
<1>2. c \in PageCall /\ OnTheWay \in SUBSET Request
  BY <1>1 DEF Inv, TypeOK, OnTheWay, Active
<1>3. d \in PageCall
  BY <1>2 DEF PageCall
<1>4. /\ d.kind = c.kind /\ d.who = c.who /\ d.here = c.here /\ d.sent = c.sent
      /\ d.received = c.received /\ d.since = c.since /\ d.at = "run" /\ d.before = OnTheWay
  BY <1>2 DEF PageCall
<1> HIDE DEF d
<1>5. /\ call' \in [Request -> PageCall \cup {None}] /\ call'[r] = d /\ d # None
      /\ \A q \in Request \ {r} : call'[q] = call[q]
  BY <1>1, <1>3 DEF Inv, TypeOK, NoneIsApart
<1>6. r \notin OnTheWay
  BY <1>1 DEF OnTheWay, Active
<1>7. OnTheWay' = OnTheWay \cup {r}
  BY <1>1, <1>4, <1>5 DEF OnTheWay, Active
<1>8. c.kind = "send" => c.who \in Person
  BY <1>1 DEF Inv, Kinds
<1>9. TypeOK'
  BY <1>1, <1>5, <1>8 DEF Inv, TypeOK
<1>10. Kinds'
  <2>1. \A q \in Request : call'[q] # None =>
          /\ call'[q].kind \in {"accept", "decline", "send"} => call'[q].who \in Person
          /\ call'[q].kind = "search" => call'[q].who \in Person \cup {Unknown} /\ call'[q].at = "sent"
          /\ call'[q].kind = "accept" /\ call'[q].at = "run" => member
          /\ call'[q].kind = "fetch" /\ call'[q].at = "run" => call'[q].sent # None /\ call'[q].received # None
          /\ call'[q].before \subseteq OnTheWay \ {q}
    BY <1>1, <1>4, <1>5, <1>6 DEF Inv, Kinds
  <2> QED
    BY <1>1, <1>7, <2>1 DEF Kinds
<1>11. \A q \in Request : call'[q] # None => call[q] # None /\ call'[q].kind = call[q].kind /\ call'[q].here = call[q].here
  BY <1>1, <1>4, <1>5
<1>12. \A q \in Request : call'[q] # None => call'[q].kind # "fetch"
  BY <1>1, <1>11 DEF Inv, FetchIsAlone
<1>13. FetchIsAlone' /\ PageIsFresh'
  BY <1>7, <1>12 DEF FetchIsAlone, PageIsFresh
<1>14. AnswerIsFresh'
  <2> SUFFICES ASSUME NEW q \in OnTheWay', Says(q)' # pending'
               PROVE  \E p \in OnTheWay' : q \in call'[p].before
    BY DEF AnswerIsFresh
  <2>1. q # r
    BY <1>1, <1>4, <1>5 DEF Says
  <2> QED
    BY <1>4, <1>5, <1>7, <2>1
<1>15. \A kinds : HereAre(kinds) => HereAre(kinds)'
  BY <1>1, <1>4, <1>5 DEF HereAre
<1>16. Spinners'
  <2>1. loading => \E q \in Request : call'[q] # None /\ call'[q].kind = "fetch"
    BY <1>1, <1>4, <1>5 DEF Inv, Spinners
  <2> QED
    BY <1>1, <1>15, <2>1 DEF Inv, Spinners
<1> QED
  BY <1>9, <1>10, <1>13, <1>14, <1>16 DEF Inv

\* The server answers half of a fetch.
LEMMA HalfKeeps ==
  ASSUME NoneIsApart, Inv, NEW r \in Request, GetSentInvite(r) \/ GetReceivedInvites(r),
         UNCHANGED <<status, hook, loading, tabs, mishap>>
  PROVE  Inv'
<1> DEFINE c == call[r]
<1>1. /\ c # None /\ c.kind = "fetch" /\ c \in PageCall /\ call \in [Request -> PageCall \cup {None}]
      /\ UNCHANGED <<pending, inbox, member, taken, status, sentInvite, receivedInvites, loading, mishap,
                     activeTab, processingId, sending, canceling, errorModal>>
      /\ pending \in Person \cup {None} /\ inbox \in SUBSET Person
  BY DEF GetSentInvite, GetReceivedInvites, Active, Inv, TypeOK, rows, hook, tabs
<1>2. \E d : /\ call' = [call EXCEPT ![r] = d]
             /\ d \in PageCall /\ d.kind = "fetch" /\ d.before = c.before /\ d.since = c.since
             /\ d.here = c.here
             /\ d.sent = c.sent \/ (c.sent = None /\ d.sent = <<pending>>)
             /\ d.at = "run" => d.sent # None /\ d.received # None
  <2>1. CASE GetSentInvite(r)
    <3> DEFINE at == IF c.received = None THEN "sent" ELSE "run"
               d == [c EXCEPT !.sent = <<pending>>, !.at = at]
    <3>1. c.sent = None /\ call' = [call EXCEPT ![r] = d]
      BY <2>1 DEF GetSentInvite
    <3>2. <<pending>> \in Answer(Person \cup {None})
      BY <1>1 DEF Answer
    <3>3. d \in PageCall
      BY <1>1, <3>2 DEF PageCall
    <3>4. /\ d.kind = "fetch" /\ d.before = c.before /\ d.since = c.since /\ d.here = c.here
          /\ d.sent = <<pending>> /\ d.at = at /\ d.received = c.received
      BY <1>1 DEF PageCall
    <3> HIDE DEF d
    <3>5. d.at = "run" => d.sent # None /\ d.received # None
      BY <3>2, <3>4 DEF NoneIsApart
    <3> QED
      BY <3>1, <3>3, <3>4, <3>5
  <2>2. CASE GetReceivedInvites(r)
    <3> DEFINE at == IF c.sent = None THEN "sent" ELSE "run"
               d == [c EXCEPT !.received = <<inbox>>, !.at = at]
    <3>1. c.received = None /\ call' = [call EXCEPT ![r] = d]
      BY <2>2 DEF GetReceivedInvites
    <3>2. <<inbox>> \in Answer(SUBSET Person)
      BY <1>1 DEF Answer
    <3>3. d \in PageCall
      BY <1>1, <3>2 DEF PageCall
    <3>4. /\ d.kind = "fetch" /\ d.before = c.before /\ d.since = c.since /\ d.here = c.here
          /\ d.sent = c.sent /\ d.at = at /\ d.received = <<inbox>>
      BY <1>1 DEF PageCall
    <3> HIDE DEF d
    <3>5. d.at = "run" => d.sent # None /\ d.received # None
      BY <3>2, <3>4 DEF NoneIsApart
    <3> QED
      BY <3>1, <3>3, <3>4, <3>5
  <2> QED
    BY <2>1, <2>2
<1>3. PICK d : /\ call' = [call EXCEPT ![r] = d]
               /\ d \in PageCall /\ d.kind = "fetch" /\ d.before = c.before /\ d.since = c.since
               /\ d.here = c.here
               /\ d.sent = c.sent \/ (c.sent = None /\ d.sent = <<pending>>)
               /\ d.at = "run" => d.sent # None /\ d.received # None
  BY <1>2
<1>4. /\ call' \in [Request -> PageCall \cup {None}] /\ call'[r] = d /\ d # None
      /\ \A q \in Request \ {r} : call'[q] = call[q]
  BY <1>1, <1>3 DEF NoneIsApart
<1>5. /\ \A q \in Request \ {r} : call[q] = None
      /\ loading /\ c.before = {}
      /\ c.sent # None /\ c.since = None /\ ~member => c.sent = <<pending>>
  BY <1>1 DEF Inv, FetchIsAlone
<1>6. TypeOK'
  BY <1>1, <1>4 DEF Inv, TypeOK
<1>7. Kinds'
  BY <1>3, <1>4, <1>5 DEF Kinds
<1>8. FetchIsAlone'
  BY <1>1, <1>3, <1>4, <1>5 DEF FetchIsAlone
<1>9. PageIsFresh'
  BY <1>3, <1>4 DEF PageIsFresh
<1>10. AnswerIsFresh'
  BY <1>3, <1>4, <1>5 DEF AnswerIsFresh, OnTheWay, Active
<1>11. Spinners'
  BY <1>1, <1>3, <1>4 DEF Inv, Spinners, HereAre
<1> QED
  BY <1>6, <1>7, <1>8, <1>9, <1>10, <1>11 DEF Inv

\* The server runs an answer to an invite received.
LEMMA ProcessedKeeps ==
  ASSUME NoneIsApart, Inv, NEW r \in Request, RunAccept(r) \/ RunDecline(r),
         UNCHANGED <<status, hook, loading, tabs, mishap>>
  PROVE  Inv'
<1> DEFINE c == call[r]
           d == [c EXCEPT !.at = "run"]
<1>1. /\ c # None /\ c.kind \in {"accept", "decline"} /\ c.at = "sent"
      /\ call' = [call EXCEPT ![r] = d] /\ c.who \in inbox
      /\ UNCHANGED <<status, sentInvite, receivedInvites, loading, mishap,
                     activeTab, processingId, sending, canceling, errorModal>>
      /\ member' = (member \/ c.kind = "accept")
      /\ inbox' \subseteq inbox /\ taken' \subseteq taken \cup {c.who}
      /\ c.kind = "decline" => pending' = pending
      /\ c.kind = "accept" => pending' = None /\ inbox' = {}
  BY DEF RunAccept, RunDecline, Active, hook, tabs, Inv, TypeOK
<1>2. c \in PageCall
  BY <1>1 DEF Inv, TypeOK
<1>3. d \in PageCall
  BY <1>2 DEF PageCall
<1>4. /\ d.kind = c.kind /\ d.who = c.who /\ d.here = c.here /\ d.sent = c.sent
      /\ d.received = c.received /\ d.since = c.since /\ d.at = "run" /\ d.before = c.before
  BY <1>2 DEF PageCall
<1> HIDE DEF d
<1>5. /\ call' \in [Request -> PageCall \cup {None}] /\ call'[r] = d /\ d # None
      /\ \A q \in Request \ {r} : call'[q] = call[q]
  BY <1>1, <1>3 DEF Inv, TypeOK, NoneIsApart
<1>6. OnTheWay' = OnTheWay
  BY <1>1, <1>4, <1>5 DEF OnTheWay, Active
<1>7. TypeOK'
  BY <1>1, <1>5 DEF Inv, TypeOK
<1>8. Kinds'
  BY <1>1, <1>4, <1>5, <1>6 DEF Inv, Kinds
<1>9. \A q \in Request : call'[q] # None => call'[q].kind # "fetch"
  BY <1>1, <1>4, <1>5 DEF Inv, FetchIsAlone
<1>10. FetchIsAlone'
  BY <1>9 DEF FetchIsAlone
<1>11. PageIsFresh'
  BY <1>1, <1>6 DEF Inv, PageIsFresh, FetchIsAlone
<1>12. AnswerIsFresh'
  <2> SUFFICES ASSUME NEW q \in OnTheWay', ~member', call'[q].kind # "fetch",
                      call'[q].since = None, Says(q)' # pending'
               PROVE  \E o \in OnTheWay' : q \in call'[o].before
    BY DEF AnswerIsFresh
  <2>1. q \in OnTheWay /\ q \in Request /\ q # r
    BY <1>1, <1>6, Waiting
  <2>2. call'[q] = call[q] /\ Says(q)' = Says(q)
    BY <1>5, <2>1 DEF Says
  <2>3. PICK o \in OnTheWay : q \in call[o].before
    BY <1>1, <2>1, <2>2 DEF Inv, AnswerIsFresh
  <2>4. call'[o].before = call[o].before
    BY <1>1, <1>5, <2>3, Waiting
  <2> QED
    BY <1>6, <2>3, <2>4
<1>13. \A kinds : HereAre(kinds) => HereAre(kinds)'
  BY <1>1, <1>4, <1>5 DEF HereAre
<1>14. Spinners'
  <2>1. loading => \E q \in Request : call'[q] # None /\ call'[q].kind = "fetch"
    BY <1>1, <1>4, <1>5 DEF Inv, Spinners
  <2>2. processingId # None => HereAre({"accept", "decline"})'
                               \/ (member' /\ status \in {"couple", None})
    BY <1>1, <1>13 DEF Inv, Spinners
  <2>3. (sending => HereAre({"search", "send"})') /\ (canceling => HereAre({"cancel"})')
    BY <1>13 DEF Inv, Spinners
  <2> QED
    BY <1>1, <2>1, <2>2, <2>3 DEF Spinners
<1> QED
  BY <1>7, <1>8, <1>10, <1>11, <1>12, <1>14 DEF Inv

\* Other users change what the page shows.
LEMMA OthersKeep ==
  ASSUME NoneIsApart, Inv, NEW p \in Person, Other(p)
  PROVE  Inv'
<1> USE DEF hook, tabs
<1>1. CASE OtherInvites(p)
  <2>1. /\ UNCHANGED <<pending, member, taken, call, mishap, status, sentInvite, receivedInvites,
                       loading, activeTab, processingId, sending, canceling, errorModal>>
        /\ ~member /\ inbox' \subseteq inbox \cup {p}
    BY <1>1 DEF Other, OtherInvites
  <2>2. OnTheWay' = OnTheWay
    BY <2>1 DEF OnTheWay, Active
  <2>3. TypeOK' /\ Kinds'
    BY <2>1, <2>2 DEF Inv, TypeOK, Kinds
  <2>4. FetchIsAlone' /\ PageIsFresh' /\ AnswerIsFresh' /\ Spinners'
    BY <2>1, <2>2 DEF Inv, FetchIsAlone, PageIsFresh, AnswerIsFresh, Says, Spinners, HereAre
  <2> QED
    BY <2>3, <2>4 DEF Inv
<1>2. CASE OtherAnswers(p)
  <2> DEFINE S == OnTheWay \cup Active({"fetch"})
  <2>1. /\ call' = Note(S, "other") /\ mishap' = "other"
        /\ UNCHANGED <<status, sentInvite, receivedInvites,
                       loading, activeTab, processingId, sending, canceling, errorModal>>
        /\ member' => pending' = None /\ inbox' = {}
        /\ member' \in BOOLEAN /\ pending' \in Person \cup {None}
        /\ inbox' \subseteq Person /\ taken' \subseteq Person
        /\ member => member'
    <3>1. /\ pending \in Person \cup {None} /\ inbox \subseteq Person /\ taken \subseteq Person
          /\ member \in BOOLEAN /\ (member => pending = None /\ inbox = {})
      BY DEF Inv, TypeOK
    <3> HIDE DEF S
    <3>2. \/ pending' = None /\ UNCHANGED <<inbox, member, taken>>
          \/ pending' = None /\ member' = TRUE /\ inbox' = {} /\ taken' = taken \cup {p}
          \/ /\ taken' = taken \cup {p} /\ inbox' = inbox \ {p} /\ UNCHANGED member
             /\ pending' \in {None, pending}
      BY <1>2 DEF OtherAnswers
    <3>3. /\ call' = Note(S, "other") /\ mishap' = "other"
          /\ UNCHANGED <<status, sentInvite, receivedInvites,
                         loading, activeTab, processingId, sending, canceling, errorModal>>
      BY <1>2 DEF Other, OtherAnswers, S
    <3>4. CASE pending' = None /\ UNCHANGED <<inbox, member, taken>>
      BY <3>1, <3>3, <3>4
    <3>5. CASE pending' = None /\ member' = TRUE /\ inbox' = {} /\ taken' = taken \cup {p}
      BY <3>1, <3>3, <3>5
    <3>6. CASE /\ taken' = taken \cup {p} /\ inbox' = inbox \ {p} /\ UNCHANGED member
               /\ pending' \in {None, pending}
      BY <3>1, <3>3, <3>6
    <3> QED
      BY <3>2, <3>4, <3>5, <3>6
  <2>2. \A q \in S : q \in Request /\ call[q] # None
    BY DEF OnTheWay, Active
  <2>3. Marked(call', S, "other")
    <3>1. Typed /\ "other" \in Reason
      BY DEF Typed, Inv, TypeOK, Reason
    <3> HIDE DEF S
    <3> QED
      BY <2>1, <2>2, <3>1, NoteFields
  <2>4. \A q \in Request : call'[q] # None =>
          /\ call[q] # None /\ Rest(call[q], call'[q])
          /\ call'[q].before = call[q].before
          /\ q \in S => call'[q].since = "other"
    BY <2>3 DEF Marked
  <2>5. OnTheWay' = OnTheWay
    BY <2>3 DEF OnTheWay, Active, Marked, Rest
  <2>6. TypeOK'
    BY <2>1, <2>3 DEF Inv, TypeOK, Marked, Reason
  <2>7. Kinds'
    <3> SUFFICES ASSUME NEW q \in Request, call'[q] # None
                 PROVE  (/\ call[q].kind \in {"accept", "decline", "send"} => call[q].who \in Person
                         /\ call[q].kind = "search" => call[q].who \in Person \cup {Unknown} /\ call[q].at = "sent"
                         /\ call[q].kind = "accept" /\ call[q].at = "run" => member
                         /\ call[q].kind = "fetch" /\ call[q].at = "run" =>
                              call[q].sent # None /\ call[q].received # None
                         /\ call[q].before \subseteq OnTheWay \ {q})'
      BY DEF Kinds
    <3>1. call[q] # None /\ Rest(call[q], call'[q]) /\ call'[q].before = call[q].before
      BY <2>4
    <3> HIDE DEF S
    <3> QED
      BY <2>1, <2>5, <3>1 DEF Inv, Kinds, Rest
  <2>8. FetchIsAlone'
    BY <2>1, <2>4 DEF Inv, FetchIsAlone, Active, Rest, NoneIsApart
  <2>9. PageIsFresh'
    BY <2>1 DEF PageIsFresh, NoneIsApart
  <2>10. AnswerIsFresh'
    BY <2>4, <2>5 DEF AnswerIsFresh, OnTheWay, Active, NoneIsApart
  <2>11. \A kinds : HereAre(kinds) => HereAre(kinds)'
    BY <2>3 DEF HereAre, Marked, Rest
  <2>12. loading => \E q \in Request : call'[q] # None /\ call'[q].kind = "fetch"
    BY <2>3 DEF Inv, Spinners, Marked, Rest
  <2>13. Spinners'
    BY <2>1, <2>11, <2>12 DEF Inv, Spinners
  <2> QED
    BY <2>6, <2>7, <2>8, <2>9, <2>10, <2>13 DEF Inv
<1> QED
  BY <1>1, <1>2 DEF Other

\* A call ends whose answer does not say what the sent invite is, or fails.
LEMMA EndKeeps ==
  ASSUME NoneIsApart, Inv, NEW r \in Request, call[r] # None, NEW S, NEW reason \in Reason \ {None},
         Gone(call', r, S, reason), UNCHANGED rows,
         r \in OnTheWay => call[r].before \subseteq S,
         \/ UNCHANGED <<sentInvite, mishap>> /\ r \notin OnTheWay /\ call[r].kind # "fetch"
         \/ mishap' \in Reason /\ sentInvite' \in Person \cup {None}
            /\ (~member /\ mishap' = None /\ sentInvite' # pending =>
                  \E q \in OnTheWay \ {r} : TRUE),
         receivedInvites' \subseteq Person, status' \in {"single", "couple", None},
         activeTab' \in {"received", "send"}, processingId' \in Person \cup {None},
         sending' \in BOOLEAN, canceling' \in BOOLEAN, errorModal' \in BOOLEAN,
         loading' \in BOOLEAN,
         call[r].kind = "fetch" => ~loading',
         call[r].kind # "fetch" => loading' = loading,
         sending' => sending /\ ~(call[r].kind \in {"search", "send"} /\ call[r].here),
         canceling' => canceling /\ ~(call[r].kind = "cancel" /\ call[r].here),
         processingId' # None => 
           \/ processingId # None /\ ~(call[r].kind \in {"accept", "decline"} /\ call[r].here)
           \/ member /\ status' \in {"couple", None},
         member /\ status \in {"couple", None} => status' \in {"couple", None}
  PROVE  Inv'
<1>1. UNCHANGED <<pending, inbox, member, taken>>
  BY DEF rows
<1>2. /\ Kinds' /\ AnswerIsFresh'
      /\ OnTheWay' = OnTheWay \ {r}
      /\ \A q \in Request : call'[q] # None => 
           q # r /\ call[q] # None /\ call'[q].kind = call[q].kind /\ call'[q].here = call[q].here
  BY <1>1, GoneKeeps
<1>3. TypeOK'
  <2>1. call' \in [Request -> PageCall \cup {None}]
    BY DEF Gone
  <2>2. sentInvite' \in Person \cup {None} /\ mishap' \in Reason
    BY DEF Inv, TypeOK
  <2> QED
    BY <1>1, <2>1, <2>2 DEF Inv, TypeOK
<1>4. \A q \in Request \ {r} : call[q] # None =>
        call'[q] # None /\ call'[q].kind = call[q].kind /\ call'[q].here = call[q].here
  BY DEF Gone, Rest
<1>5. \A q \in Request : call'[q] # None => call'[q].kind # "fetch"
  BY <1>2 DEF Inv, FetchIsAlone
<1>6. FetchIsAlone'
  BY <1>5 DEF FetchIsAlone
<1>7. \A q \in OnTheWay : q \in Request
  BY DEF OnTheWay, Active
<1>8. PageIsFresh'
  <2> SUFFICES ASSUME ~member, mishap' = None, sentInvite' # pending
               PROVE  \E q \in Request : q \in OnTheWay'
    BY <1>1 DEF PageIsFresh
  <2>1. PICK q \in Request : q \in OnTheWay \ {r}
    <3>1. CASE UNCHANGED <<sentInvite, mishap>> /\ r \notin OnTheWay /\ call[r].kind # "fetch"
      <4>1. PICK q \in Request : q \in OnTheWay \/ (call[q] # None /\ call[q].kind = "fetch")
        BY <3>1 DEF Inv, PageIsFresh
      <4>2. call[q] # None /\ call[q].kind = "fetch" => q = r
        BY DEF Inv, FetchIsAlone
      <4> QED
        BY <3>1, <4>1, <4>2
    <3>2. CASE \E q \in OnTheWay \ {r} : TRUE
      BY <1>7, <3>2
    <3> QED
      BY <3>1, <3>2
  <2> QED
    BY <1>2, <2>1
<1>9. Spinners'
  <2>1. loading' => \E q \in Request : call'[q] # None /\ call'[q].kind = "fetch"
    BY <1>4 DEF Inv, Spinners
  <2>2. (sending => HereAre({"search", "send"}))'
    BY <1>4 DEF Inv, Spinners, HereAre
  <2>3. (canceling => HereAre({"cancel"}))'
    BY <1>4 DEF Inv, Spinners, HereAre
  <2>4. processingId' # None => HereAre({"accept", "decline"})'
                                \/ (member' /\ status' \in {"couple", None})
    BY <1>1, <1>4 DEF Inv, Spinners, HereAre
  <2> QED
    BY <2>1, <2>2, <2>3, <2>4 DEF Spinners
<1> QED
  BY <1>2, <1>3, <1>6, <1>8, <1>9 DEF Inv

\* Note and Without, as the page uses them when call r is over
LEMMA Ending ==
  ASSUME NoneIsApart, Inv, NEW r \in Request, call[r] # None, NEW reason \in Reason
  PROVE  /\ Gone(Without(call, r), r, {}, reason)
         /\ Gone(Without(Note(call[r].before, reason), r), r, call[r].before, reason)
<1>1. Typed /\ \A q \in call[r].before : q \in Request /\ call[q] # None
  BY DEF Inv, TypeOK, Typed, Kinds, OnTheWay, Active
<1>2. Marked(Note(call[r].before, reason), call[r].before, reason)
  BY <1>1, NoteFields
<1>3. Marked(call, {}, reason)
  BY <1>1 DEF Marked, Typed, Rest
<1> QED
  BY <1>1, <1>2, <1>3, WithoutFields

LEMMA Reasons ==
  ASSUME NoneIsApart
  PROVE  {"other", "lost", "overtaken"} \subseteq Reason \ {None}
BY DEF Reason, NoneIsApart

\* The search has found somebody: its call goes on as the invite.
LEMMA FoundKeeps ==
  ASSUME NoneIsApart, Inv, NEW r \in Request, SearchArrives(r), call[r].who # Unknown
  PROVE  Inv'
<1> DEFINE c == call[r]
           d == [c EXCEPT !.kind = "send"]
<1>1. /\ c # None /\ c.kind = "search" /\ c.at = "sent" /\ c.who \in Person
      /\ call' = [call EXCEPT ![r] = d]
      /\ UNCHANGED <<pending, inbox, member, taken, status, sentInvite, receivedInvites, loading,
                     activeTab, processingId, sending, canceling, errorModal, mishap>>
  BY DEF SearchArrives, Active, rows, hook, Inv, Kinds
<1>2. c \in PageCall
  BY <1>1 DEF Inv, TypeOK
<1>3. d \in PageCall
  BY <1>2 DEF PageCall
<1>4. /\ d.kind = "send" /\ d.who = c.who /\ d.here = c.here /\ d.sent = c.sent
      /\ d.received = c.received /\ d.since = c.since /\ d.at = c.at /\ d.before = c.before
  BY <1>2 DEF PageCall
<1> HIDE DEF d
<1>5. /\ call' \in [Request -> PageCall \cup {None}] /\ call'[r] = d /\ d # None
      /\ \A q \in Request \ {r} : call'[q] = call[q]
  BY <1>1, <1>3 DEF Inv, TypeOK, NoneIsApart
<1>6. OnTheWay' = OnTheWay /\ r \notin OnTheWay
  BY <1>1, <1>4, <1>5 DEF OnTheWay, Active
<1>7. TypeOK'
  BY <1>1, <1>5 DEF Inv, TypeOK
<1>8. Kinds'
  <2>1. \A q \in Request : call'[q] # None =>
          /\ call'[q].kind \in {"accept", "decline", "send"} => call'[q].who \in Person
          /\ call'[q].kind = "search" => call'[q].who \in Person \cup {Unknown} /\ call'[q].at = "sent"
          /\ call'[q].kind = "accept" /\ call'[q].at = "run" => member
          /\ call'[q].kind = "fetch" /\ call'[q].at = "run" => call'[q].sent # None /\ call'[q].received # None
          /\ call'[q].before \subseteq OnTheWay \ {q}
    BY <1>1, <1>4, <1>5 DEF Inv, Kinds
  <2> QED
    BY <1>1, <1>6, <2>1 DEF Kinds
<1>9. \A q \in Request : call'[q] # None => call'[q].kind # "fetch"
  BY <1>1, <1>4, <1>5 DEF Inv, FetchIsAlone
<1>10. FetchIsAlone'
  BY <1>9 DEF FetchIsAlone
<1>11. PageIsFresh'
  BY <1>1, <1>6 DEF Inv, PageIsFresh, FetchIsAlone
<1>12. AnswerIsFresh'
  <2> SUFFICES ASSUME NEW q \in OnTheWay', ~member', call'[q].kind # "fetch",
                      call'[q].since = None, Says(q)' # pending'
               PROVE  \E o \in OnTheWay' : q \in call'[o].before
    BY DEF AnswerIsFresh
  <2>1. q \in OnTheWay /\ q \in Request /\ q # r
    BY <1>6, Waiting
  <2>2. call'[q] = call[q] /\ Says(q)' = Says(q)
    BY <1>5, <2>1 DEF Says
  <2>3. PICK o \in OnTheWay : q \in call[o].before
    BY <1>1, <2>1, <2>2 DEF Inv, AnswerIsFresh
  <2>4. call'[o].before = call[o].before
    BY <1>5, <1>6, <2>3, Waiting
  <2> QED
    BY <1>6, <2>3, <2>4
<1>13. Spinners'
  <2>1. loading => \E q \in Request : call'[q] # None /\ call'[q].kind = "fetch"
    BY <1>1, <1>4, <1>5 DEF Inv, Spinners
  <2>2. (sending => HereAre({"search", "send"}))' /\ (canceling => HereAre({"cancel"}))'
    BY <1>1, <1>4, <1>5 DEF Inv, Spinners, HereAre
  <2>3. processingId' # None => HereAre({"accept", "decline"})'
                                \/ (member' /\ status' \in {"couple", None})
    BY <1>1, <1>4, <1>5 DEF Inv, Spinners, HereAre
  <2> QED
    BY <1>1, <2>1, <2>2, <2>3 DEF Spinners
<1> QED
  BY <1>7, <1>8, <1>10, <1>11, <1>12, <1>13 DEF Inv

LEMMA FetchArrivesKeeps ==
  ASSUME NoneIsApart, Inv, NEW r \in Request, FetchArrives(r)
  PROVE  Inv'
<1> DEFINE c == call[r]
<1>1. /\ c # None /\ c.kind = "fetch" /\ c.at = "run"
      /\ (sentInvite' = c.sent[1] /\ mishap' = c.since) \/ (UNCHANGED sentInvite /\ mishap' = "lost")
      /\ receivedInvites' \in {c.received[1], receivedInvites}
      /\ loading' = FALSE /\ call' = Without(call, r)
      /\ UNCHANGED <<rows, status, activeTab, processingId, sending, canceling, errorModal>>
  BY DEF FetchArrives, Active, tabs
<1>2. c.sent # None /\ c.received # None /\ c.before = {} /\ c.since \in Reason
      /\ (c.since = None /\ ~member => c.sent = <<pending>>)
  BY <1>1, CallFields DEF Inv, Kinds, FetchIsAlone
<1>3. c.sent \in Answer(Person \cup {None}) /\ c.received \in Answer(SUBSET Person)
  BY <1>1, <1>2, CallFields
<1>4. c.sent[1] \in Person \cup {None} /\ c.received[1] \subseteq Person
  BY <1>3 DEF Answer
<1>5. c.since = None /\ ~member => c.sent[1] = pending
  BY <1>2
<1>6. Gone(call', r, {}, "lost")
  BY <1>1, Reasons, Ending
<1> HIDE DEF c
<1>7. c = call[r]
  BY DEF c
<1>8. mishap' \in Reason /\ sentInvite' \in Person \cup {None} /\ receivedInvites' \subseteq Person
      /\ ~(~member /\ mishap' = None /\ sentInvite' # pending)
  BY <1>1, <1>2, <1>4, <1>5, Reasons DEF Inv, TypeOK
<1>9. /\ status \in {"single", "couple", None} /\ activeTab \in {"received", "send"} /\ processingId \in Person \cup {None}
      /\ sending \in BOOLEAN /\ canceling \in BOOLEAN /\ errorModal \in BOOLEAN
  BY DEF Inv, TypeOK
<1>10. \A q \in Request : call[q] # None => q = r
  BY <1>1, <1>7 DEF Inv, FetchIsAlone
<1>11. /\ ~sending /\ ~canceling /\ (processingId # None => member /\ status \in {"couple", None})
  BY <1>1, <1>7, <1>10 DEF Inv, Spinners, HereAre
<1> QED
  BY <1>1, <1>2, <1>6, <1>7, <1>8, <1>9, <1>11, Reasons, EndKeeps

\* SendArrives and CancelArrives
LEMMA SaidKeeps ==
  ASSUME NoneIsApart, Inv, NEW r \in Request, SendArrives(r) \/ CancelArrives(r)
  PROVE  Inv'
<1> DEFINE c == call[r]
<1>1. /\ c # None /\ c.kind \in {"send", "cancel"} /\ c.at = "run" /\ sentInvite' = Says(r)
      /\ mishap' = c.since /\ call' = Without(Note(c.before, "overtaken"), r)
      /\ UNCHANGED <<rows, status, receivedInvites, loading, activeTab, processingId, errorModal>>
      /\ sending' = IF c.kind = "send" /\ c.here THEN FALSE ELSE sending
      /\ canceling' = IF c.kind = "cancel" /\ c.here THEN FALSE ELSE canceling
  BY DEF SendArrives, CancelArrives, Active, Says, Reset
<1>2. Gone(call', r, c.before, "overtaken")
  BY <1>1, Reasons, Ending
<1>3. /\ status \in {"single", "couple", None} /\ activeTab \in {"received", "send"} /\ processingId \in Person \cup {None}
      /\ sending \in BOOLEAN /\ canceling \in BOOLEAN /\ errorModal \in BOOLEAN /\ loading \in BOOLEAN
      /\ receivedInvites \subseteq Person
  BY DEF Inv, TypeOK
<1>4. sending' \in BOOLEAN /\ canceling' \in BOOLEAN
      /\ (sending' => sending /\ ~(c.kind \in {"search", "send"} /\ c.here))
      /\ (canceling' => canceling /\ ~(c.kind = "cancel" /\ c.here))
  BY <1>1, <1>3
<1>5. Says(r) \in Person \cup {None}
  BY <1>1 DEF Says, Inv, Kinds
<1>6. c.since \in Reason
  BY <1>1, CallFields
<1>7. r \in OnTheWay
  BY <1>1, Waiting
<1>8. c.since = None /\ ~member /\ Says(r) # pending => \E q \in OnTheWay \ {r} : TRUE
  <2> SUFFICES ASSUME c.since = None, ~member, Says(r) # pending
               PROVE  \E q \in OnTheWay \ {r} : TRUE
    OBVIOUS
  <2>1. PICK q \in OnTheWay : r \in call[q].before
    BY <1>1, <1>7 DEF Inv, AnswerIsFresh
  <2>2. call[q].before \subseteq OnTheWay \ {q}
    BY <2>1, Waiting DEF Inv, Kinds
  <2> QED
    BY <2>1, <2>2
<1>9. processingId # None => ~(c.kind \in {"accept", "decline"} /\ c.here)
  BY <1>1
<1> DEFINE S == c.before
<1>10. /\ UNCHANGED <<rows, status, receivedInvites, loading, activeTab, processingId>>
       /\ mishap' \in Reason /\ sentInvite' \in Person \cup {None}
       /\ (~member /\ mishap' = None /\ sentInvite' # pending => \E q \in OnTheWay \ {r} : TRUE)
       /\ errorModal' \in BOOLEAN
  BY <1>1, <1>3, <1>5, <1>6, <1>8
<1>11. /\ Gone(call', r, S, "overtaken") /\ call[r].before \subseteq S
       /\ call[r].kind = c.kind /\ call[r].here = c.here /\ call[r] # None /\ c.kind # "fetch"
  BY <1>1, <1>2
<1> HIDE DEF S, c
<1> QED
  BY <1>3, <1>4, <1>9, <1>10, <1>11, Reasons, EndKeeps

LEMMA ProcessArrivesKeeps ==
  ASSUME NoneIsApart, Inv, NEW r \in Request, AcceptArrives(r) \/ DeclineArrives(r)
  PROVE  Inv'
<1> DEFINE c == call[r]
<1>1. /\ c # None /\ c.kind \in {"accept", "decline"} /\ c.at = "run"
      /\ call' = Without(call, r)
      /\ UNCHANGED <<rows, sentInvite, loading, activeTab, sending, canceling, errorModal, mishap>>
      /\ c.kind = "accept" => /\ status' = IF status = None THEN None ELSE "couple"
                              /\ UNCHANGED <<receivedInvites, processingId>>
      /\ c.kind = "decline" => /\ UNCHANGED status /\ receivedInvites' = receivedInvites \ {c.who}
                               /\ processingId' = IF c.here THEN None ELSE processingId
  BY DEF AcceptArrives, DeclineArrives, Active, hook, tabs
<1>2. Gone(call', r, {}, "lost")
  BY <1>1, Reasons, Ending
<1>3. /\ status \in {"single", "couple", None} /\ activeTab \in {"received", "send"} /\ processingId \in Person \cup {None}
      /\ sending \in BOOLEAN /\ canceling \in BOOLEAN /\ errorModal \in BOOLEAN /\ loading \in BOOLEAN
      /\ receivedInvites \subseteq Person
  BY DEF Inv, TypeOK
<1>4. c.kind = "accept" => member
  BY <1>1 DEF Inv, Kinds
<1>5. r \notin OnTheWay
  BY <1>1, Waiting
<1>6. status' \in {"single", "couple", None} /\ receivedInvites' \subseteq Person
      /\ processingId' \in Person \cup {None}
      /\ (status \in {"couple", None} => status' \in {"couple", None})
      /\ (processingId' # None => \/ processingId # None /\ ~(c.kind \in {"accept", "decline"} /\ c.here)
                                  \/ member /\ status' \in {"couple", None})
  BY <1>1, <1>3, <1>4
<1>7. /\ UNCHANGED <<rows, sentInvite, mishap>> /\ c.kind \notin {"fetch", "search", "send", "cancel"}
      /\ activeTab' \in {"received", "send"} /\ loading' = loading
      /\ sending' = sending /\ canceling' = canceling
      /\ sending' \in BOOLEAN /\ canceling' \in BOOLEAN /\ errorModal' \in BOOLEAN
      /\ loading' \in BOOLEAN
  BY <1>1, <1>3
<1>8. call[r].kind = c.kind /\ call[r].here = c.here /\ call[r] # None
  BY <1>1
<1> HIDE DEF c
<1> QED
  BY <1>2, <1>5, <1>6, <1>7, <1>8, Reasons, EndKeeps

LEMMA NotFoundKeeps ==
  ASSUME NoneIsApart, Inv, NEW r \in Request, SearchArrives(r), call[r].who = Unknown
  PROVE  Inv'
<1> DEFINE c == call[r]
           S == {}
<1>1. /\ c # None /\ c.kind = "search" /\ c.at = "sent"
      /\ call' = Without(call, r)
      /\ sending' = IF c.here THEN FALSE ELSE sending
      /\ errorModal' = (errorModal \/ c.here)
      /\ UNCHANGED <<rows, status, sentInvite, receivedInvites, loading, activeTab, processingId, canceling, mishap>>
  BY DEF SearchArrives, Active, hook, Reset, Inv, Kinds
<1>2. Gone(call', r, S, "lost")
  BY <1>1, Reasons, Ending
<1>3. /\ status \in {"single", "couple", None} /\ activeTab \in {"received", "send"} /\ processingId \in Person \cup {None}
      /\ sending \in BOOLEAN /\ canceling \in BOOLEAN /\ errorModal \in BOOLEAN /\ loading \in BOOLEAN
      /\ receivedInvites \subseteq Person /\ c.here \in BOOLEAN
  BY <1>1, CallFields DEF Inv, TypeOK
<1>4. r \notin OnTheWay
  BY <1>1, Waiting
<1>5. sending' \in BOOLEAN /\ errorModal' \in BOOLEAN
      /\ (sending' => sending /\ ~(c.kind \in {"search", "send"} /\ c.here))
  BY <1>1, <1>3
<1>6. /\ call[r].kind = c.kind /\ call[r].here = c.here /\ call[r] # None
      /\ c.kind \notin {"fetch", "cancel", "accept", "decline"}
  BY <1>1
<1> HIDE DEF c, S
<1> QED
  BY <1>1, <1>2, <1>3, <1>4, <1>5, <1>6, Reasons, EndKeeps

LEMMA FailKeeps ==
  ASSUME NoneIsApart, Inv, NEW r \in Request,
         \/ FetchFails(r) \/ SendFails(r) \/ CancelFails(r) \/ AcceptFails(r) \/ DeclineFails(r)
  PROVE  Inv'
<1> DEFINE c == call[r]
           doubt == c.kind = "fetch" \/ r \in OnTheWay
           S == IF doubt THEN c.before ELSE {}
<1>1. c # None /\ Failed(r)
  BY DEF FetchFails, SendFails, CancelFails, AcceptFails, DeclineFails, ProcessFails, Active
<1>2. /\ mishap' = IF doubt THEN "lost" ELSE mishap
      /\ call' = Without(IF doubt THEN Note(c.before, "lost") ELSE call, r)
      /\ UNCHANGED <<rows, status, sentInvite, receivedInvites, activeTab>>
  BY <1>1 DEF Failed, hook
<1>3. Gone(call', r, S, "lost")
  <2>1. CASE doubt
    <3>1. call' = Without(Note(c.before, "lost"), r)
      BY <1>2, <2>1
    <3>2. S = c.before
      BY <2>1
    <3> HIDE DEF S, doubt
    <3> QED
      BY <1>1, <3>1, <3>2, Reasons, Ending
  <2>2. CASE ~doubt
    <3>1. call' = Without(call, r)
      BY <1>2, <2>2
    <3>2. S = {}
      BY <2>2
    <3> HIDE DEF S, doubt
    <3> QED
      BY <1>1, <3>1, <3>2, Reasons, Ending
  <2> QED
    BY <2>1, <2>2
<1>4. /\ status \in {"single", "couple", None} /\ activeTab \in {"received", "send"} /\ processingId \in Person \cup {None}
      /\ sending \in BOOLEAN /\ canceling \in BOOLEAN /\ errorModal \in BOOLEAN /\ loading \in BOOLEAN
      /\ receivedInvites \subseteq Person /\ sentInvite \in Person \cup {None} /\ mishap \in Reason
      /\ c.here \in BOOLEAN
  BY <1>1, CallFields DEF Inv, TypeOK
<1>5. /\ c.kind = "fetch" => loading' = FALSE
      /\ c.kind # "fetch" => loading' = loading
      /\ sending' = IF c.kind \in {"search", "send"} /\ c.here THEN FALSE ELSE sending
      /\ canceling' = IF c.kind = "cancel" /\ c.here THEN FALSE ELSE canceling
      /\ processingId' = IF c.kind \in {"accept", "decline"} /\ c.here THEN None ELSE processingId
      /\ errorModal' \in {errorModal, errorModal \/ c.here}
  BY DEF FetchFails, SendFails, CancelFails, AcceptFails, DeclineFails, ProcessFails, Active, Reset
<1>6. /\ loading' \in BOOLEAN /\ sending' \in BOOLEAN /\ canceling' \in BOOLEAN /\ errorModal' \in BOOLEAN
      /\ processingId' \in Person \cup {None}
      /\ (sending' => sending /\ ~(c.kind \in {"search", "send"} /\ c.here))
      /\ (canceling' => canceling /\ ~(c.kind = "cancel" /\ c.here))
      /\ (processingId' # None => processingId # None /\ ~(c.kind \in {"accept", "decline"} /\ c.here))
  BY <1>4, <1>5
<1>7. r \in OnTheWay => c.before \subseteq S
  OBVIOUS
<1>8. \/ UNCHANGED <<sentInvite, mishap>> /\ r \notin OnTheWay /\ c.kind # "fetch"
      \/ mishap' = "lost" /\ UNCHANGED sentInvite
  BY <1>2
<1>9. call[r].kind = c.kind /\ call[r].here = c.here /\ call[r] # None /\ call[r].before = c.before
  BY <1>1
<1> HIDE DEF c, S, doubt
<1>10. UNCHANGED <<rows, status, receivedInvites, activeTab>>
  BY <1>2
<1>11. /\ c.kind = "fetch" => ~loading'
       /\ c.kind # "fetch" => loading' = loading
  BY <1>5
<1>12. \/ UNCHANGED <<sentInvite, mishap>> /\ r \notin OnTheWay /\ c.kind # "fetch"
       \/ mishap' \in Reason /\ sentInvite' \in Person \cup {None} /\ mishap' # None
  BY <1>4, <1>8, Reasons
<1> QED
  BY <1>3, <1>4, <1>6, <1>7, <1>9, <1>10, <1>11, <1>12, Reasons, EndKeeps

LEMMA InvInit ==
  ASSUME NoneIsApart
  PROVE  Init => Inv
<1> SUFFICES ASSUME Init PROVE Inv
  OBVIOUS
<1>1. PICK r \in Request :
        call = [q \in Request |-> IF q = r THEN NewCall("fetch", None) ELSE None]
  BY DEF Init
<1> DEFINE c == NewCall("fetch", None)
<1>2. /\ c \in PageCall /\ c # None /\ c.kind = "fetch" /\ c.who = None /\ c.at = "sent"
      /\ c.here = TRUE /\ c.before = {} /\ c.sent = None /\ c.received = None /\ c.since = None
  BY NewCallType
<1> HIDE DEF c
<1>3. /\ call \in [Request -> PageCall \cup {None}] /\ call[r] = c
      /\ \A q \in Request \ {r} : call[q] = None
  BY <1>1, <1>2 DEF c
<1>4. TypeOK
  BY <1>3 DEF Init, TypeOK, Reason
<1>5. Kinds /\ FetchIsAlone /\ Spinners
  BY <1>2, <1>3 DEF Init, Kinds, FetchIsAlone, Spinners
<1>6. PageIsFresh /\ AnswerIsFresh
  BY <1>2, <1>3 DEF PageIsFresh, AnswerIsFresh, OnTheWay, Active
<1> QED
  BY <1>4, <1>5, <1>6 DEF Inv

LEMMA QuietKeeps ==
  ASSUME NoneIsApart, Inv, DismissError \/ UNCHANGED vars
  PROVE  Inv'
<1>1. /\ UNCHANGED <<pending, inbox, member, taken, status, sentInvite, receivedInvites, loading,
                     activeTab, processingId, sending, canceling, call, mishap>>
      /\ errorModal' \in BOOLEAN
  BY DEF DismissError, vars, rows, hook, tabs, Inv, TypeOK
<1>2. OnTheWay' = OnTheWay
  BY <1>1 DEF OnTheWay, Active
<1>3. TypeOK' /\ Kinds'
  BY <1>1, <1>2 DEF Inv, TypeOK, Kinds
<1>4. FetchIsAlone' /\ PageIsFresh' /\ AnswerIsFresh' /\ Spinners'
  BY <1>1, <1>2 DEF Inv, FetchIsAlone, PageIsFresh, AnswerIsFresh, Says, Spinners, HereAre
<1> QED
  BY <1>3, <1>4 DEF Inv

LEMMA ButtonKeeps ==
  ASSUME NoneIsApart, Inv, NEW r \in Request,
         \/ \E p \in Person : HandleAccept(r, p) \/ HandleDecline(r, p)
         \/ \E p \in Person \cup {Unknown} : HandleSend(r, p)
         \/ HandleCancel(r)
  PROVE  Inv'
<1>1. /\ status \in {"single", "couple", None} /\ activeTab \in {"received", "send"} /\ processingId \in Person \cup {None}
      /\ sending \in BOOLEAN /\ canceling \in BOOLEAN /\ errorModal \in BOOLEAN /\ loading \in BOOLEAN
  BY DEF Inv, TypeOK
<1>2. ASSUME NEW p \in Person, NEW kind \in {"accept", "decline"}, Process(r, kind, p) PROVE Inv'
  <2>1. /\ ~loading /\ call[r] = None /\ processingId' = p
        /\ call' = [call EXCEPT ![r] = NewCall(kind, p)]
        /\ UNCHANGED <<rows, status, hook, loading, activeTab, sending, canceling, errorModal, mishap>>
    BY <1>2 DEF Process, Shows
  <2>2. kind \in {"accept", "decline", "search", "cancel"} /\ kind # "search"
    OBVIOUS
  <2> QED
    BY <1>1, <2>1, <2>2, PressKeeps
<1>3. ASSUME NEW p \in Person \cup {Unknown}, HandleSend(r, p) PROVE Inv'
  <2>1. /\ ~loading /\ call[r] = None /\ sending' = TRUE
        /\ call' = [call EXCEPT ![r] = NewCall("search", p)]
        /\ UNCHANGED <<rows, status, hook, loading, activeTab, processingId, canceling, errorModal, mishap>>
    BY <1>3 DEF HandleSend, Shows
  <2> QED
    BY <1>1, <2>1, PressKeeps
<1>4. CASE HandleCancel(r)
  <2>1. /\ ~loading /\ call[r] = None /\ canceling' = TRUE
        /\ call' = [call EXCEPT ![r] = NewCall("cancel", None)]
        /\ UNCHANGED <<rows, status, hook, loading, activeTab, processingId, sending, errorModal, mishap>>
    BY <1>4 DEF HandleCancel, Shows
  <2> QED
    BY <1>1, <2>1, PressKeeps
<1> QED
  BY <1>2, <1>3, <1>4 DEF HandleAccept, HandleDecline

LEMMA InvNext ==
  ASSUME NoneIsApart
  PROVE  Inv /\ [Next]_vars => Inv'
<1> SUFFICES ASSUME Inv, [Next]_vars PROVE Inv'
  OBVIOUS
<1>1. CASE SwitchTab \/ DismissError \/ UNCHANGED vars
  BY <1>1, SwitchKeeps, QuietKeeps
<1>2. ASSUME NEW r \in Request,
             \/ \E p \in Person : HandleAccept(r, p) \/ HandleDecline(r, p)
             \/ \E p \in Person \cup {Unknown} : HandleSend(r, p)
             \/ HandleCancel(r)
      PROVE  Inv'
  BY <1>2, ButtonKeeps
<1>3. ASSUME NEW r \in Request, Run(r) PROVE Inv'
  BY <1>3, HalfKeeps, RanKeeps, ProcessedKeeps DEF Run
<1>4. ASSUME NEW r \in Request,
             \/ FetchArrives(r) \/ SearchArrives(r) \/ SendArrives(r) \/ CancelArrives(r)
             \/ AcceptArrives(r) \/ DeclineArrives(r)
      PROVE  Inv'
  BY <1>4, FetchArrivesKeeps, FoundKeeps, NotFoundKeeps, SaidKeeps, ProcessArrivesKeeps
<1>5. ASSUME NEW r \in Request,
             \/ FetchFails(r) \/ SendFails(r) \/ CancelFails(r) \/ AcceptFails(r) \/ DeclineFails(r)
      PROVE  Inv'
  BY <1>5, FailKeeps
<1>6. ASSUME NEW p \in Person, Other(p) PROVE Inv'
  BY <1>6, OthersKeep
<1> QED
  BY <1>1, <1>2, <1>3, <1>4, <1>5, <1>6 DEF Next

LEMMA InvShows ==
  ASSUME NoneIsApart, Inv
  PROVE  TypeOK /\ SentIsPending /\ SpinnerEnds
<1>1. SentIsPending
  BY DEF Inv, SentIsPending, PageIsFresh, OnTheWay, Active
<1>2. SpinnerEnds
  BY DEF Inv, SpinnerEnds, Spinners, HereAre, Active
<1> QED
  BY <1>1, <1>2 DEF Inv
=============================================================================
