------------------------------ MODULE WebRoute ------------------------------
(***************************************************************************)
(* The route in the form of an appointment:                                *)
(* apps/web/src/hooks/useCoupleRoute.ts and the route section of           *)
(* app/main/components/CalendarTab.tsx.  A call is never aborted, and its  *)
(* answer is taken whatever the form shows by then.  A route is            *)
(* represented by the event it is for.                                     *)
(***************************************************************************)
EXTENDS Naturals

CONSTANTS
  Event,     \* ids of events with a place
  MaxCalls,  \* bound on the calls under way for one event
  None

VARIABLES
  routeEventId,
  showRouteDetail,
  route, loading, error,
  calls,    \* calls[e]: how many calls for e are under way
  crossed   \* history: the last call was sent while another was under way

vars == <<routeEventId, showRouteDetail, route, loading, error, calls, crossed>>

Init ==
  /\ routeEventId = None /\ showRouteDetail = FALSE
  /\ route = None /\ loading = FALSE /\ error = FALSE
  /\ calls = [e \in Event |-> 0]
  /\ crossed = FALSE

Idle == \A e \in Event : calls[e] = 0

\* fetchRoute up to its first await
FetchRoute(e) ==
  /\ calls[e] < MaxCalls
  /\ loading' = TRUE /\ error' = FALSE
  /\ calls' = [calls EXCEPT ![e] = @ + 1]
  /\ crossed' = ~Idle
  /\ UNCHANGED route

\* The form of e opens, and the effect asks for its route.
\* Mutant: the effect asks only if there is no route yet.
SelectOnce(e) ==
  /\ routeEventId = None
  /\ routeEventId' = e /\ showRouteDetail' = FALSE
  /\ IF route = None THEN FetchRoute(e)
     ELSE UNCHANGED <<route, loading, error, calls, crossed>>
Select(e) ==
  /\ routeEventId = None
  /\ routeEventId' = e /\ showRouteDetail' = FALSE
  /\ FetchRoute(e)

\* The form is closed; the route stays.
Close ==
  /\ routeEventId # None
  /\ routeEventId' = None /\ showRouteDetail' = FALSE
  /\ UNCHANGED <<route, loading, error, calls, crossed>>

\* The route section of the form
Showing == routeEventId # None /\ ~loading /\ ~error /\ route # None

ToggleDetail ==
  /\ Showing
  /\ showRouteDetail' = ~showRouteDetail
  /\ UNCHANGED <<routeEventId, route, loading, error, calls, crossed>>

Refresh ==
  /\ Showing /\ ~showRouteDetail
  /\ FetchRoute(routeEventId)
  /\ UNCHANGED <<routeEventId, showRouteDetail>>

\* A call for e is over: with a route, or failing.
Over(e) ==
  /\ calls[e] > 0
  /\ calls' = [calls EXCEPT ![e] = @ - 1]
  /\ loading' = FALSE
  /\ UNCHANGED <<routeEventId, showRouteDetail, crossed>>

Answer(e) == Over(e) /\ route' = e /\ UNCHANGED error
Fail(e) == Over(e) /\ route' = None /\ error' = TRUE

Next ==
  \/ \E e \in Event : Select(e) \/ Answer(e) \/ Fail(e)
  \/ Close \/ ToggleDetail \/ Refresh

Spec == Init /\ [][Next]_vars

-----------------------------------------------------------------------------
TypeOK ==
  /\ routeEventId \in Event \cup {None} /\ route \in Event \cup {None}
  /\ showRouteDetail \in BOOLEAN /\ loading \in BOOLEAN /\ error \in BOOLEAN
  /\ calls \in [Event -> 0 .. MaxCalls] /\ crossed \in BOOLEAN

\* Unless two calls have crossed: once the spinner is gone, the form shows an
\* error or the route of its own event -- never one that was loaded for another
\* event before, although closing a form does not clear the route; and the
\* spinner does not stop before the answer.
RouteIsForSelected ==
  routeEventId # None /\ ~crossed /\ ~loading =>
    /\ Idle
    /\ error \/ route = routeEventId

\* The spinner turns only while a call is under way.
SpinnerEnds == loading => ~Idle
=============================================================================
