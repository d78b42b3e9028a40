------------------------------- MODULE Parts -------------------------------
(***************************************************************************)
(* The components that share no state with any other: a behaviour is one   *)
(* of one of them, chosen at the start, and the others stay as they are.   *)
(***************************************************************************)
EXTENDS PartsState

Transit == INSTANCE Transit
Overlap == INSTANCE RouteOverlap
Keys == INSTANCE KeyRing
Search == INSTANCE PoiSearch WITH loading <- searching
Route == INSTANCE WebRoute WITH route <- shownRoute, loading <- routeLoading
Settings == INSTANCE WebSettings
              WITH db <- settings, call <- settingsCall, left <- settingsLeft,
                   mishap <- settingsMishap
Invites == INSTANCE WebInvites
             WITH loading <- invitesLoading, call <- inviteCall, mishap <- invitesMishap
Session == INSTANCE WebSession

\* Null is none of the things that it stands in for.
ASSUME PartsAssumption ==
  /\ MaxAborted \in Nat /\ MaxCalls \in Nat
  /\ None \notin Keyword
  /\ Settings!NoneIsApart /\ Invites!NoneIsApart

Parts == {"transit", "overlap", "keys", "search", "photos", "calendar", "route",
          "settings", "invites", "session"}

\* A part that is not chosen has no state, or rests in its initial one.
NoOverlap == Overlap!Init /\ \A p \in Person : stations[p] = << >>
NoKeys == Keys!Init /\ list = Unset /\ legacy = Unset /\ chosen = Unset
NoSearch ==
  /\ inputValue = 0 /\ isOpen = 0 /\ value = 0 /\ timer = 0 /\ live = 0
  /\ aborted = 0 /\ results = 0 /\ searching = 0 /\ latest = 0
NoPhotos ==
  /\ photoRows = 0 /\ next = 0 /\ starts = 0 /\ photos = 0 /\ hasMore = 0
  /\ cursor = 0 /\ page = 0 /\ upload = 0 /\ deletion = 0 /\ photosLeft = 0
  /\ selectMode = 0 /\ selectedIds = 0 /\ activePhoto = 0 /\ photosMishap = 0
NoCalendar ==
  /\ rows = 0 /\ currentMonth = 0 /\ events = 0 /\ selectedDate = 0
  /\ selectedEvent = 0 /\ modalView = 0 /\ eventCall = 0 /\ eventsMishap = 0
NoRoute ==
  /\ routeEventId = 0 /\ showRouteDetail = 0 /\ shownRoute = 0 /\ routeLoading = 0
  /\ error = 0 /\ calls = 0 /\ crossed = 0
NoSettings ==
  /\ settings = 0 /\ shown = 0 /\ editor = 0 /\ confirm = 0
  /\ settingsCall = 0 /\ settingsLeft = 0 /\ settingsMishap = 0
NoInvites ==
  /\ pending = 0 /\ inbox = 0 /\ member = 0 /\ taken = 0 /\ status = 0
  /\ sentInvite = 0 /\ receivedInvites = 0 /\ invitesLoading = 0 /\ activeTab = 0
  /\ processingId = 0 /\ sending = 0 /\ canceling = 0 /\ errorModal = 0
  /\ inviteCall = 0 /\ invitesMishap = 0

Init ==
  /\ part \in Parts
  /\ Transit!Init
  /\ IF part = "overlap" THEN Overlap!Init ELSE NoOverlap
  /\ IF part = "keys" THEN Keys!Init ELSE NoKeys
  /\ IF part = "search" THEN Search!Init ELSE NoSearch
  /\ IF part = "photos" THEN Photos!Init ELSE NoPhotos
  /\ IF part = "calendar" THEN Calendar!Init ELSE NoCalendar
  /\ IF part = "route" THEN Route!Init ELSE NoRoute
  /\ IF part = "settings" THEN Settings!Init ELSE NoSettings
  /\ IF part = "invites" THEN Invites!Init ELSE NoInvites
  /\ Session!Init

Next ==
  /\ UNCHANGED part
  /\ IF part = "transit" THEN Transit!Next ELSE UNCHANGED transit
  /\ IF part = "overlap" THEN Overlap!Next ELSE UNCHANGED overlap
  /\ IF part = "keys" THEN Keys!Next ELSE UNCHANGED keys
  /\ IF part = "search" THEN Search!Next ELSE UNCHANGED search
  /\ IF part = "photos" THEN Photos!Next ELSE UNCHANGED photoTab
  /\ IF part = "calendar" THEN Calendar!Next ELSE UNCHANGED calendar
  /\ IF part = "route" THEN Route!Next ELSE UNCHANGED routeForm
  /\ IF part = "settings" THEN Settings!Next ELSE UNCHANGED settingsTab
  /\ IF part = "invites" THEN Invites!Next ELSE UNCHANGED invites
  /\ IF part = "session" THEN Session!Next ELSE UNCHANGED session

vars ==
  <<part, transit, overlap, keys, search, photoTab, calendar, routeForm,
    settingsTab, invites, session>>

Spec == Init /\ [][Next]_vars

-----------------------------------------------------------------------------
\* The type of each component's state, as its module states it.
TypeOK ==
  /\ part = "transit" => Transit!TypeOK
  /\ part = "overlap" => Overlap!TypeOK
  /\ part = "keys" => Keys!TypeOK
  /\ part = "search" => Search!TypeOK
  /\ part = "photos" => Photos!TypeOK
  /\ part = "calendar" => Calendar!TypeOK
  /\ part = "route" => Route!TypeOK
  /\ part = "settings" => Settings!TypeOK
  /\ part = "invites" => Invites!TypeOK
  /\ part = "session" => Session!TypeOK

\* No spinner turns and no button is dead without a call under way that ends it,
\* but for the pages that the modules name.
NoSpinnerHangs ==
  /\ part = "search" => Search!SpinnerEnds
  /\ part = "route" => Route!SpinnerEnds
  /\ part = "settings" => Settings!SpinnerEnds
  /\ part = "invites" => Invites!SpinnerEnds
  /\ part = "session" => Session!SpinnerEnds

\* usePoiSearch shows what the last keyword finds, or nothing.
FoundForLatest == part = "search" => Search!FoundForLatest

\* usePhotos shows the rows down to its cursor.
PhotosAreRows == part = "photos" => Photos!PhotosAreRows

\* useEvents shows the rows of the month.
CalendarIsCurrent == part = "calendar" => Calendar!CalendarIsCurrent

\* useCoupleRoute shows the route of the event in the form.
RouteIsForSelected == part = "route" => Route!RouteIsForSelected

\* The cards of the settings show the rows.
CardShowsDb == part = "settings" => Settings!CardShowsDb

\* useCoupleInvite shows the invite that is pending.
SentIsPending == part = "invites" => Invites!SentIsPending
=============================================================================
