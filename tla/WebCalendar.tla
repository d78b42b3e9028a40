---------------------------- MODULE WebCalendar ----------------------------
(***************************************************************************)
(* The calendar tab: apps/web/src/hooks/useEvents.ts and                   *)
(* app/main/components/CalendarTab.tsx and EventModal.tsx, with the part   *)
(* of apps/api/src/event/event.service.ts they talk to.  A handler, or     *)
(* the continuation of a call, is a step, with the effects it triggers;    *)
(* the server answers in a step of its own.  The route in the form is      *)
(* WebRoute's.                                                             *)
(*                                                                         *)
(* Times are hours, months and days are numbered.  The server's clock and  *)
(* the strings it sends are in UTC, the form's time is the browser's.      *)
(* Title, place and memo of an event are one text.  What the user has      *)
(* typed is chosen when the form is submitted.                             *)
(***************************************************************************)
EXTENDS Lists, SequencesExt

CONSTANTS
  Event,        \* event ids
  Hours,        \* bound on the times: 0 .. Hours - 1
  DayHours, MonthHours,
  Offset,       \* the browser's zone is this much ahead of UTC
  Text,
  Request,      \* calls that may overlap
  None, Gone    \* a row that is not there yet, and one that was deleted

Time == 0 .. Hours - 1
Month(t) == t \div MonthHours
Day(t) == t \div DayHours

VARIABLES
  rows,           \* the CalendarEvent rows
  currentMonth, events,
  selectedDate, selectedEvent, modalView,
  call,           \* call[r]: what r asks, whether it has run, its answer
  mishap          \* history: why events may differ from the rows of the month

hook == <<currentMonth, events>>
modal == <<selectedDate, selectedEvent, modalView>>
vars == <<rows, hook, modal, call, mishap>>

\* toFormData slices the UTC string; toISOString takes the form's time as local.
ToFormTime(t) == t
ToISO(t) == t - Offset

IsRow(id) == rows[id] \notin {None, Gone}

\* findByMonth orders them by appointmentAt, those at the same time in any order.
RowsOf(m) == {[id |-> e, at |-> rows[e].at, text |-> rows[e].text] :
                e \in {e \in Event : IsRow(e) /\ Month(rows[e].at) = m}}
FindByMonth(m) ==
  {s \in SetToSeqs(RowsOf(m)) : \A i, j \in DOMAIN s : i < j => s[i].at <= s[j].at}

Fetch(m) == [kind |-> "fetch", month |-> m, run |-> FALSE, data |-> << >>, since |-> None]
Write(k, e) == [kind |-> k, event |-> e, run |-> FALSE, since |-> None]

Pending(kinds) == {r \in Request : call[r] # None /\ call[r].kind \in kinds}
Changes == {"create", "update", "delete"}

\* A mishap also counts for the answers that are on their way.
Note(cs, S, reason) ==
  [r \in Request |-> IF r \in S /\ cs[r] # None /\ cs[r].run
                     THEN [cs[r] EXCEPT !.since = reason] ELSE cs[r]]

Init ==
  /\ rows \in [Event -> [at : Time, text : Text] \cup {None}]
  /\ currentMonth = 0 /\ events = << >>
  /\ selectedDate = None /\ selectedEvent = None /\ modalView = "closed"
  /\ \E r \in Request : call = [q \in Request |-> IF q = r THEN Fetch(0) ELSE None]
  /\ mishap = None

Close == selectedDate' = None /\ selectedEvent' = None /\ modalView' = "closed"
View(view, e) == modalView' = view /\ selectedEvent' = e

\* handleDatesSet
DatesSet(m, r) ==
  /\ modalView = "closed" /\ m # currentMonth /\ call[r] = None
  /\ currentMonth' = m
  /\ call' = [call EXCEPT ![r] = Fetch(m)]
  /\ UNCHANGED <<rows, events, modal, mishap>>

\* dayEvents
OnDay(d) == Kept(events, {i \in DOMAIN events : Day(events[i].at) = d})

DateClick(d) ==
  /\ modalView = "closed"
  /\ selectedDate' = d
  /\ CASE OnDay(d) = << >> -> View("create", None)
       [] Len(OnDay(d)) = 1 -> View("edit", OnDay(d)[1])
       [] OTHER -> View("list", None)
  /\ UNCHANGED <<rows, hook, call, mishap>>

SelectEvent(e) ==
  /\ modalView = "list" /\ e \in Range(OnDay(selectedDate))
  /\ View("edit", e)
  /\ UNCHANGED <<rows, hook, selectedDate, call, mishap>>

NewEvent ==
  /\ modalView = "list"
  /\ View("create", None)
  /\ UNCHANGED <<rows, hook, selectedDate, call, mishap>>

BackToList == View("list", None) /\ UNCHANGED selectedDate

\* onClose, by Escape, the button or a click beside the form: handleFormClose goes
\* back to a list of two or more.
CloseForm ==
  /\ modalView # "closed"
  /\ IF modalView # "list" /\ Len(OnDay(selectedDate)) > 1 THEN BackToList ELSE Close
  /\ UNCHANGED <<rows, hook, call, mishap>>

IsDirty(at, text) ==
  /\ selectedEvent # None
  /\ at # ToFormTime(selectedEvent.at) \/ text # selectedEvent.text

Entry(id, at, text) == [id |-> id, at |-> ToISO(at), text |-> text]

\* handleCreate and handleUpdate of the tab
Create(r, at, text) ==
  /\ modalView = "create"
  /\ call' = [call EXCEPT ![r] = Write("create", Entry(None, at, text))]

Update(r, at, text) ==
  /\ modalView = "edit" /\ IsDirty(at, text)
  /\ call' = [call EXCEPT ![r] = Write("update", Entry(selectedEvent.id, at, text))]

\* The form is submitted with what has been typed; the modal stays open until the
\* answer.  Nothing keeps it from being submitted again.
Submit(r, at, text) ==
  /\ call[r] = None
  /\ Create(r, at, text) \/ Update(r, at, text)
  /\ UNCHANGED <<rows, hook, modal, mishap>>

Delete(r) ==
  /\ modalView = "edit" /\ call[r] = None
  /\ call' = [call EXCEPT ![r] = Write("delete", selectedEvent)]
  /\ UNCHANGED <<rows, hook, modal, mishap>>

-----------------------------------------------------------------------------
\* The server
RunFetch(r) ==
  /\ call[r].kind = "fetch" /\ ~call[r].run
  /\ \E data \in FindByMonth(call[r].month) :
       call' = [call EXCEPT ![r].run = TRUE, ![r].data = data]
  /\ UNCHANGED rows

Row(e) == [at |-> e.at, text |-> e.text]
Unused == {id \in Event : rows[id] = None /\ \A r \in Pending(Changes) : call[r].event.id # id}

RunCreate(r) ==
  /\ call[r].kind = "create" /\ ~call[r].run
  /\ call[r].event.at \in Time
  /\ \E id \in Unused :
       /\ rows' = [rows EXCEPT ![id] = Row(call[r].event)]
       /\ call' = [call EXCEPT ![r].run = TRUE, ![r].event.id = id]

\* Other writes of the same event that have run already will be answered later or
\* earlier than this one.
Overtake(r, id) ==
  call' = [Note(call, {w \in Pending(Changes) : call[w].event.id = id}, "overtaken")
             EXCEPT ![r].run = TRUE]

RunUpdate(r) ==
  /\ call[r].kind = "update" /\ ~call[r].run
  /\ LET e == call[r].event
     IN  /\ IsRow(e.id) /\ e.at \in Time
         /\ rows' = [rows EXCEPT ![e.id] = Row(e)]
         /\ Overtake(r, e.id)

RunRemove(r) ==
  /\ call[r].kind = "delete" /\ ~call[r].run
  /\ LET id == call[r].event.id
     IN  /\ IsRow(id)
         /\ rows' = [rows EXCEPT ![id] = Gone]
         /\ Overtake(r, id)

Run(r) ==
  /\ call[r] # None
  /\ \/ RunFetch(r)
     \/ RunCreate(r) \/ RunUpdate(r) \/ RunRemove(r)
  /\ UNCHANGED <<hook, modal, mishap>>

\* The partner changes, adds or removes an event.
PartnerWrites(id, row) ==
  /\ rows[id] # row /\ rows[id] # Gone
  /\ row = Gone => IsRow(id)
  /\ rows' = [rows EXCEPT ![id] = row]
  /\ call' = Note(call, Request, "partner")
  /\ mishap' = "partner"
  /\ UNCHANGED <<hook, modal>>

-----------------------------------------------------------------------------
\* setEvents(data), whatever month is shown by now.
FetchArrives(r) ==
  /\ r \in Pending({"fetch"}) /\ call[r].run
  /\ events' = call[r].data
  /\ mishap' =
       CASE call[r].month # currentMonth -> "overtaken"
         [] \E w \in Pending({"create"}) : call[w].run /\ call[w].event \in Range(call[r].data)
              -> "twice"
         [] OTHER -> call[r].since
  /\ call' = [call EXCEPT ![r] = None]
  /\ UNCHANGED <<rows, currentMonth, modal>>

\* What createEvent, updateEvent and deleteEvent do to the list
\* Mutant: an updated event is appended to the list.
ChangedAppended(k, e) ==
  CASE k \in {"create", "update"} -> Append(events, e)
    [] k = "delete" -> Kept(events, {i \in DOMAIN events : events[i].id # e.id})
Changed(k, e) ==
  CASE k = "create" -> Append(events, e)
    [] k = "update" -> [i \in DOMAIN events |-> IF events[i].id = e.id THEN e ELSE events[i]]
    [] k = "delete" -> Kept(events, {i \in DOMAIN events : events[i].id # e.id})

Listed(id) == \E i \in DOMAIN events : events[i].id = id

\* A write is answered: the list changes, and whatever modal is open is closed.
WriteArrives(r) ==
  /\ r \in Pending(Changes) /\ call[r].run
  /\ events' = Changed(call[r].kind, call[r].event)
  /\ call' = [Note(call, Pending({"fetch"}), "undone") EXCEPT ![r] = None]
  /\ mishap' = CASE call[r].since # None -> call[r].since
                 [] call[r].kind = "update" /\ ~Listed(call[r].event.id) -> "unlisted"
                 [] OTHER -> mishap
  /\ Close
  /\ UNCHANGED <<rows, currentMonth>>

FetchFails(r) ==
  /\ r \in Pending({"fetch"})
  /\ call' = [call EXCEPT ![r] = None]
  /\ mishap' = IF call[r].month = currentMonth THEN "failed" ELSE mishap
  /\ UNCHANGED <<rows, hook, modal>>

\* The write is refused, or its answer is lost; the modal is closed all the same.
WriteFails(r) ==
  /\ r \in Pending(Changes)
  /\ call' = [Note(call, IF call[r].run THEN Request ELSE {}, "lost") EXCEPT ![r] = None]
  /\ mishap' = IF call[r].run THEN "lost" ELSE mishap
  /\ Close
  /\ UNCHANGED <<rows, hook>>

Days == {Day(t) : t \in Time}
Months == {Month(t) : t \in Time}

Next ==
  \/ \E r \in Request :
       \/ \E m \in Months : DatesSet(m, r)
       \/ \E at \in Time, text \in Text : Submit(r, at, text)
       \/ Delete(r)
       \/ Run(r) \/ FetchArrives(r) \/ WriteArrives(r) \/ FetchFails(r) \/ WriteFails(r)
  \/ \E d \in Days : DateClick(d)
  \/ \E e \in Range(events) : SelectEvent(e)
  \/ NewEvent \/ CloseForm
  \/ \E id \in Event, row \in [at : Time, text : Text] \cup {Gone} : PartnerWrites(id, row)

Spec == Init /\ [][Next]_vars

-----------------------------------------------------------------------------
Content == [at : Time, text : Text]
Shown == [id : Event, at : Time, text : Text]
Reasons == {"partner", "lost", "failed", "overtaken", "twice", "undone", "unlisted"}
Mishap == Reasons \cup {None}
FetchCall ==
  [kind : {"fetch"}, month : Months, run : BOOLEAN, data : Seq(Shown), since : Mishap]
WriteCall ==
  [kind : Changes, event : [id : Event \cup {None}, at : Int, text : Text],
   run : BOOLEAN, since : Mishap]

\* None and Gone are none of the things that they stand in for.
NoneIsApart ==
  /\ None # Gone /\ {None, Gone} \cap Content = {}
  /\ None \notin Event /\ None \notin Days /\ None \notin Shown
  /\ None \notin FetchCall /\ None \notin WriteCall /\ None \notin Reasons

\* The modal views go with what is selected, however late a modal is closed by
\* the answer to a form that was left long ago.
TypeOK ==
  /\ rows \in [Event -> Content \cup {None, Gone}]
  /\ currentMonth \in Months /\ events \in Seq(Shown)
  /\ selectedDate \in Days \cup {None} /\ selectedEvent \in Shown \cup {None}
  /\ modalView \in {"closed", "list", "create", "edit"}
  /\ call \in [Request -> FetchCall \cup WriteCall \cup {None}]
  /\ mishap \in Mishap
  /\ modalView = "closed" <=> selectedDate = None
  /\ modalView = "edit" <=> selectedEvent # None

\* When no request is under way, the events of the month shown are in the list
\* as they are in the database, each once -- unless, since the last fetch that
\* went undisturbed: the partner changed something, an answer was lost or a
\* fetch failed, a fetch of another month came in last, one ran while an own
\* change was on its way, two changes of one event came back in the other order,
\* or one came back when its event was not listed.
CalendarIsCurrent ==
  call = [r \in Request |-> None] /\ mishap = None =>
    /\ {e \in Range(events) : Month(e.at) = currentMonth} = RowsOf(currentMonth)
    /\ \A i, j \in DOMAIN events : events[i].id = events[j].id => i = j

\* EventFormData declares its appointmentAt to be a datetime-local value.  So a
\* form submitted without touching the time should leave it what it is.
UntouchedTimeStays ==
  [][\A r \in Request, text \in Text :
       modalView = "edit" /\ Submit(r, ToFormTime(selectedEvent.at), text)
         => call'[r].event.at = selectedEvent.at]_vars
=============================================================================
