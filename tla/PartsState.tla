----------------------------- MODULE PartsState -----------------------------
(***************************************************************************)
(* The parameters and the state of Parts, and the two of its components    *)
(* that TabsProofs is about.                                               *)
(***************************************************************************)
EXTENDS TransitState, RouteOverlapState, KeyRingState, SessionState

CONSTANTS
  Keyword, MaxAborted,                    \* the search
  MaxPhotos, MaxFiles, PageSize, Deletion, \* the photos
  Event, Gone, Text, Request,             \* the calendar
  Hours, DayHours, MonthHours, Offset,
  MaxCalls,                               \* the route of an event
  CoupleField, Nickname, ProfileField, DisplayName, \* the settings
  Home, Value, Blank, MaxLeft,
  Unknown                                 \* the invites

VARIABLES
  part,
  inputValue, isOpen, value, timer, live, aborted, results, searching, latest,
  photoRows, next, starts, photos, hasMore, cursor, page, upload, deletion,
  photosLeft, selectMode, selectedIds, activePhoto, photosMishap,
  rows, currentMonth, events, selectedDate, selectedEvent, modalView,
  eventCall, eventsMishap,
  routeEventId, showRouteDetail, shownRoute, routeLoading, error, calls, crossed,
  settings, shown, editor, confirm, settingsCall, settingsLeft, settingsMishap,
  pending, inbox, member, taken, status, sentInvite, receivedInvites, invitesLoading,
  activeTab, processingId, sending, canceling, errorModal, inviteCall, invitesMishap

transit == <<now, cache, query, base, pc, route>>
overlap == <<stations, match, loop, index, meetup>>
keys == <<list, legacy, chosen, up, ring, active, db, failed, lost>>
search == <<inputValue, isOpen, value, timer, live, aborted, results, searching,
  latest>>
photoTab == <<photoRows, next, starts, photos, hasMore, cursor, page, upload,
  deletion, photosLeft, selectMode, selectedIds, activePhoto, photosMishap>>
calendar == <<rows, currentMonth, events, selectedDate, selectedEvent, modalView,
  eventCall, eventsMishap>>
routeForm == <<routeEventId, showRouteDetail, shownRoute, routeLoading, error,
  calls, crossed>>
settingsTab == <<settings, shown, editor, confirm, settingsCall, settingsLeft,
  settingsMishap>>
invites == <<pending, inbox, member, taken, status, sentInvite, receivedInvites,
  invitesLoading, activeTab, processingId, sending, canceling, errorModal,
  inviteCall, invitesMishap>>
session == <<accounts, issued, valid, stored, tab, touched>>

Photos == INSTANCE WebPhotos
            WITH rows <- photoRows, left <- photosLeft, mishap <- photosMishap
Calendar == INSTANCE WebCalendar WITH call <- eventCall, mishap <- eventsMishap

\* Null is none of the things that it stands in for.
ASSUME TabsAssumption ==
  /\ MaxPhotos \in Nat /\ MaxFiles \in Nat /\ PageSize \in Nat \ {0}
  /\ IsFiniteSet(Event) /\ Offset \in Int
  /\ Hours \in Nat \ {0} /\ DayHours \in Nat \ {0} /\ MonthHours \in Nat \ {0}
  /\ Photos!NoneIsApart /\ Calendar!NoneIsApart
=============================================================================
