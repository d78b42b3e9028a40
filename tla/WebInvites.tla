----------------------------- MODULE WebInvites -----------------------------
(***************************************************************************)
(* The page of a user who has no couple:                                   *)
(* apps/web/src/hooks/useCoupleInvite.ts, app/main/components/             *)
(* CoupleSetup.tsx, and handleCoupleReady of app/main/page.tsx.  A request *)
(* is one step of the server; CoupleInvites looks into it.  An invite is   *)
(* represented by the other person.                                        *)
(***************************************************************************)
EXTENDS Naturals

CONSTANTS
  Person,   \* the other users
  Unknown,  \* an address that is nobody's
  Request,  \* calls that may overlap
  None

VARIABLES
  pending, inbox, member,  \* the user's rows: invite sent, invites received, in a couple?
  taken,                   \* others that are in a couple
  status,                  \* of the page: None if it could not be loaded
  sentInvite, receivedInvites, loading,
  activeTab, processingId, sending, canceling, errorModal,
  call,    \* call[r]: what r is for, how far it is, whether the tab it began in is still there
  mishap   \* history: why sentInvite may differ from the row

rows == <<pending, inbox, member, taken>>
hook == <<sentInvite, receivedInvites>>
tabs == <<activeTab, processingId, sending, canceling, errorModal>>
vars == <<rows, status, hook, loading, tabs, call, mishap>>

NewCall(kind, person) ==
  [kind |-> kind, who |-> person, at |-> "sent", here |-> TRUE, before |-> {},
   sent |-> None, received |-> None, since |-> None]

Active(kinds) == {r \in Request : call[r] # None /\ call[r].kind \in kinds}

\* Answers on their way that say what the sent invite is
OnTheWay == {r \in Active({"fetch", "send", "cancel"}) : call[r].at = "run"}
Note(S, reason) ==
  [r \in Request |-> IF r \in S THEN [call[r] EXCEPT !.since = reason] ELSE call[r]]
Without(cs, r) ==
  [q \in Request |-> IF q = r \/ cs[q] = None THEN None
                     ELSE [cs[q] EXCEPT !.before = @ \ {r}]]

Init ==
  /\ pending \in Person \cup {None} /\ inbox \in SUBSET Person /\ member = FALSE
  /\ taken = {}
  /\ status \in {"single", None}
  /\ sentInvite = None /\ receivedInvites = {} /\ loading = TRUE
  /\ activeTab = "received" /\ processingId = None
  /\ sending = FALSE /\ canceling = FALSE /\ errorModal = FALSE
  /\ \E r \in Request : call = [q \in Request |-> IF q = r THEN NewCall("fetch", None) ELSE None]
  /\ mishap = None

-----------------------------------------------------------------------------
\* The page
Shows(tab) == ~loading /\ status # "couple" /\ activeTab = tab

\* The tab that is left is unmounted: what it remembers is lost, its calls go on.
SwitchTab ==
  /\ Shows(activeTab)
  /\ activeTab' = IF activeTab = "received" THEN "send" ELSE "received"
  /\ processingId' = None /\ sending' = FALSE /\ canceling' = FALSE
  /\ errorModal' = FALSE
  /\ call' = [r \in Request |-> IF call[r] = None THEN None ELSE [call[r] EXCEPT !.here = FALSE]]
  /\ UNCHANGED <<rows, status, hook, loading, mishap>>

\* Both buttons of every invite are disabled while one is processed.
Process(r, kind, p) ==
  /\ Shows("received") /\ processingId = None /\ call[r] = None
  /\ p \in receivedInvites
  /\ processingId' = p
  /\ call' = [call EXCEPT ![r] = NewCall(kind, p)]
  /\ UNCHANGED <<rows, status, hook, loading, activeTab, sending, canceling, errorModal, mishap>>

HandleAccept(r, p) == Process(r, "accept", p)
HandleDecline(r, p) == Process(r, "decline", p)

\* handleSend begins with a search.
HandleSend(r, p) ==
  /\ Shows("send") /\ ~sending /\ call[r] = None
  /\ sending' = TRUE
  /\ call' = [call EXCEPT ![r] = NewCall("search", p)]
  /\ UNCHANGED <<rows, status, hook, loading, activeTab, processingId, canceling, errorModal, mishap>>

CanCancel == sentInvite # None /\ ~canceling
HandleCancel(r) ==
  /\ Shows("send") /\ CanCancel /\ call[r] = None
  /\ canceling' = TRUE
  /\ call' = [call EXCEPT ![r] = NewCall("cancel", None)]
  /\ UNCHANGED <<rows, status, hook, loading, activeTab, processingId, sending, errorModal, mishap>>

DismissError ==
  /\ errorModal
  /\ errorModal' = FALSE
  /\ UNCHANGED <<rows, status, hook, loading, activeTab, processingId, sending, canceling, call, mishap>>

-----------------------------------------------------------------------------
\* The server
Ran(r) == [call EXCEPT ![r].at = "run", ![r].before = OnTheWay]

\* The two requests of a fetch.  The later one completes it.
GetSentInvite(r) ==
  /\ r \in Active({"fetch"}) /\ call[r].sent = None
  /\ call' = [call EXCEPT ![r].sent = <<pending>>,
                          ![r].at = IF call[r].received = None THEN "sent" ELSE "run"]
  /\ UNCHANGED rows

GetReceivedInvites(r) ==
  /\ r \in Active({"fetch"}) /\ call[r].received = None
  /\ call' = [call EXCEPT ![r].received = <<inbox>>,
                          ![r].at = IF call[r].sent = None THEN "sent" ELSE "run"]
  /\ UNCHANGED rows

RunSend(r) ==
  /\ r \in Active({"send"}) /\ call[r].at = "sent"
  /\ ~member /\ call[r].who \notin taken
  /\ pending' = call[r].who
  /\ call' = Ran(r)
  /\ UNCHANGED <<inbox, member, taken>>

RunCancel(r) ==
  /\ r \in Active({"cancel"}) /\ call[r].at = "sent"
  /\ pending' = None
  /\ call' = Ran(r)
  /\ UNCHANGED <<inbox, member, taken>>

\* Mutant: the other invites stay pending.
RunAcceptOnly(r) ==
  /\ r \in Active({"accept"}) /\ call[r].at = "sent"
  /\ call[r].who \in inbox \ taken /\ ~member
  /\ member' = TRUE /\ taken' = taken \cup {call[r].who}
  /\ inbox' = inbox \ {call[r].who}
  /\ call' = [call EXCEPT ![r].at = "run"]
  /\ UNCHANGED pending
RunAccept(r) ==
  /\ r \in Active({"accept"}) /\ call[r].at = "sent"
  /\ call[r].who \in inbox \ taken /\ ~member
  /\ member' = TRUE /\ taken' = taken \cup {call[r].who}
  /\ pending' = None /\ inbox' = {}
  /\ call' = [call EXCEPT ![r].at = "run"]

RunDecline(r) ==
  /\ r \in Active({"decline"}) /\ call[r].at = "sent"
  /\ call[r].who \in inbox
  /\ inbox' = inbox \ {call[r].who}
  /\ call' = [call EXCEPT ![r].at = "run"]
  /\ UNCHANGED <<pending, member, taken>>

Run(r) ==
  /\ \/ GetSentInvite(r) \/ GetReceivedInvites(r) \/ RunSend(r)
     \/ RunCancel(r) \/ RunAccept(r) \/ RunDecline(r)
  /\ UNCHANGED <<status, hook, loading, tabs, mishap>>

\* Another user invites this one or withdraws it; answers the invite of this
\* one, or is in a couple with somebody else, which cancels their invites.
OtherInvites(p) ==
  /\ p \notin taken /\ ~member
  /\ \/ p \notin inbox /\ inbox' = inbox \cup {p}
     \/ p \in inbox /\ inbox' = inbox \ {p}
  /\ UNCHANGED <<pending, member, taken, call, mishap>>

OtherAnswers(p) ==
  /\ \/ pending = p /\ pending' = None /\ UNCHANGED <<inbox, member, taken>>
     \/ /\ pending = p /\ pending' = None
        /\ member' = TRUE /\ inbox' = {} /\ taken' = taken \cup {p}
     \/ /\ p \notin taken /\ taken' = taken \cup {p}
        /\ inbox' = inbox \ {p} /\ UNCHANGED member
        /\ pending' = IF pending = p THEN None ELSE pending
  /\ call' = Note(OnTheWay \cup Active({"fetch"}), "other")
  /\ mishap' = "other"

Other(p) ==
  /\ OtherInvites(p) \/ OtherAnswers(p)
  /\ UNCHANGED <<status, hook, loading, tabs>>

-----------------------------------------------------------------------------
\* Back in the page.  Promise.all: what was sent and received is set together,
\* except a half that was refused.  When no invite is pending the server's null
\* may come as an empty body, which json() refuses: FetchFails then.
FetchArrives(r) ==
  /\ r \in Active({"fetch"}) /\ call[r].at = "run"
  /\ \/ sentInvite' = call[r].sent[1] /\ mishap' = call[r].since
     \/ UNCHANGED sentInvite /\ mishap' = "lost"
  /\ receivedInvites' \in {call[r].received[1], receivedInvites}
  /\ loading' = FALSE
  /\ call' = Without(call, r)
  /\ UNCHANGED <<rows, status, tabs>>

\* A call that began in this tab resets its flag.
Reset(c, flag) == IF c.here THEN FALSE ELSE flag

\* The search has found somebody, and the invite is sent.
SearchArrives(r) ==
  /\ r \in Active({"search"})
  /\ IF call[r].who # Unknown
     THEN /\ call' = [call EXCEPT ![r].kind = "send"]
          /\ UNCHANGED <<sending, errorModal>>
     ELSE /\ call' = Without(call, r)
          /\ sending' = Reset(call[r], sending)
          /\ errorModal' = (errorModal \/ call[r].here)
  /\ UNCHANGED <<rows, status, hook, loading, activeTab, processingId, canceling, mishap>>

\* Mutant: the answer of sendInvite is not kept.
SendArrivesForgotten(r) ==
  /\ r \in Active({"send"}) /\ call[r].at = "run"
  /\ sending' = Reset(call[r], sending)
  /\ mishap' = call[r].since
  /\ call' = Without(Note(call[r].before, "overtaken"), r)
  /\ UNCHANGED <<rows, status, sentInvite, receivedInvites, loading, activeTab, processingId, canceling, errorModal>>
SendArrives(r) ==
  /\ r \in Active({"send"}) /\ call[r].at = "run"
  /\ sentInvite' = call[r].who
  /\ sending' = Reset(call[r], sending)
  /\ mishap' = call[r].since
  /\ call' = Without(Note(call[r].before, "overtaken"), r)
  /\ UNCHANGED <<rows, status, receivedInvites, loading, activeTab, processingId, canceling, errorModal>>

CancelArrives(r) ==
  /\ r \in Active({"cancel"}) /\ call[r].at = "run"
  /\ sentInvite' = None
  /\ canceling' = Reset(call[r], canceling)
  /\ mishap' = call[r].since
  /\ call' = Without(Note(call[r].before, "overtaken"), r)
  /\ UNCHANGED <<rows, status, receivedInvites, loading, activeTab, processingId, sending, errorModal>>

\* handleCoupleReady updates the status only if there is one.
AcceptArrives(r) ==
  /\ r \in Active({"accept"}) /\ call[r].at = "run"
  /\ status' = IF status = None THEN None ELSE "couple"
  /\ call' = Without(call, r)
  /\ UNCHANGED <<rows, hook, loading, tabs, mishap>>

DeclineArrives(r) ==
  /\ r \in Active({"decline"}) /\ call[r].at = "run"
  /\ receivedInvites' = receivedInvites \ {call[r].who}
  /\ processingId' = IF call[r].here THEN None ELSE processingId
  /\ call' = Without(call, r)
  /\ UNCHANGED <<rows, status, sentInvite, loading, activeTab, sending, canceling, errorModal, mishap>>

\* A request is refused, or its answer is lost: whether the server ran it is
\* not known.
Failed(r) ==
  LET doubt == call[r].kind = "fetch" \/ r \in OnTheWay
  IN  /\ mishap' = IF doubt THEN "lost" ELSE mishap
      /\ call' = Without(IF doubt THEN Note(call[r].before, "lost") ELSE call, r)
      /\ UNCHANGED <<rows, status, hook, activeTab>>

FetchFails(r) ==
  /\ r \in Active({"fetch"}) /\ Failed(r)
  /\ loading' = FALSE
  /\ UNCHANGED <<processingId, sending, canceling, errorModal>>

\* The search or the invite: the reason is shown.
SendFails(r) ==
  /\ r \in Active({"search", "send"}) /\ Failed(r)
  /\ sending' = Reset(call[r], sending)
  /\ errorModal' = (errorModal \/ call[r].here)
  /\ UNCHANGED <<loading, processingId, canceling>>

CancelFails(r) ==
  /\ r \in Active({"cancel"}) /\ Failed(r)
  /\ canceling' = Reset(call[r], canceling)
  /\ UNCHANGED <<loading, processingId, sending, errorModal>>

ProcessFails(r, kind) ==
  /\ r \in Active({kind}) /\ Failed(r)
  /\ processingId' = IF call[r].here THEN None ELSE processingId
  /\ UNCHANGED <<loading, sending, canceling, errorModal>>

AcceptFails(r) == ProcessFails(r, "accept")
DeclineFails(r) == ProcessFails(r, "decline")

Next ==
  \/ SwitchTab \/ DismissError
  \/ \E r \in Request, p \in Person : HandleAccept(r, p) \/ HandleDecline(r, p)
  \/ \E r \in Request, p \in Person \cup {Unknown} : HandleSend(r, p)
  \/ \E r \in Request :
       \/ HandleCancel(r) \/ Run(r)
       \/ FetchArrives(r) \/ SearchArrives(r) \/ SendArrives(r) \/ CancelArrives(r)
       \/ AcceptArrives(r) \/ DeclineArrives(r)
       \/ FetchFails(r) \/ SendFails(r) \/ CancelFails(r) \/ AcceptFails(r) \/ DeclineFails(r)
  \/ \E p \in Person : Other(p)

Spec == Init /\ [][Next]_vars

-----------------------------------------------------------------------------
Reason == {None, "other", "lost", "overtaken"}
Answer(values) == {<<x>> : x \in values}
PageCall ==
  [kind : {"fetch", "accept", "decline", "search", "send", "cancel"},
   who : Person \cup {Unknown, None}, at : {"sent", "run"}, here : BOOLEAN,
   before : SUBSET Request, sent : Answer(Person \cup {None}) \cup {None},
   received : Answer(SUBSET Person) \cup {None}, since : Reason]

\* None is none of the things that it stands in for.
NoneIsApart ==
  /\ None \notin PageCall
  /\ None \notin Answer(Person \cup {None}) \cup Answer(SUBSET Person)
  /\ None \notin {"other", "lost", "overtaken"}

TypeOK ==
  /\ pending \in Person \cup {None} /\ inbox \subseteq Person /\ taken \subseteq Person
  /\ sentInvite \in Person \cup {None} /\ receivedInvites \subseteq Person
  /\ status \in {"single", "couple", None} /\ activeTab \in {"received", "send"}
  /\ processingId \in Person \cup {None}
  /\ loading \in BOOLEAN /\ sending \in BOOLEAN /\ canceling \in BOOLEAN
  /\ errorModal \in BOOLEAN /\ member \in BOOLEAN
  /\ call \in [Request -> PageCall \cup {None}] /\ mishap \in Reason
  /\ member => pending = None /\ inbox = {}

\* When nothing is under way the invite on the page is the one that is pending
\* -- unless, since the last answer about it, somebody else has answered it or
\* found a partner, an answer was lost, or the last answer was to a request that
\* the server ran before one whose answer came in earlier.  A user who has just
\* joined a couple is on the way out of this page.
SentIsPending ==
  (\A r \in Request : call[r] = None) /\ mishap = None /\ ~member => sentInvite = pending

\* A button is dead only while a call is under way -- or for good, when an invite
\* was accepted and the page, which never got its status, does not notice.
SpinnerEnds ==
  /\ loading => Active({"fetch"}) # {}
  /\ sending => Active({"search", "send"}) # {}
  /\ canceling => Active({"cancel"}) # {}
  /\ processingId # None =>
       \/ Active({"accept", "decline"}) # {}
       \/ member /\ status \in {"couple", None}
=============================================================================
