------------------------------ MODULE RouteCache ------------------------------
(***************************************************************************)
(* The cache of couple routes for one event: CoupleRouteService.analyze,   *)
(* which fills a Redis entry and a RouteCache row, and the three changes   *)
(* that invalidate them: EventService.update and remove, and               *)
(* UserService.updateMe.                                                   *)
(*                                                                         *)
(* Every Redis and database call is awaited: one step each, with values    *)
(* read before it kept in the request.  A place and an appointment time    *)
(* together are a plan; a route is represented by what it was computed     *)
(* from, which is all that the properties tell apart: the plan of its      *)
(* departure times, and the plan and the home of either journey.  They may *)
(* differ in the plan, because the journeys come through the cache of      *)
(* TransitService (module Transit), whose key has the time in a bucket.    *)
(***************************************************************************)
EXTENDS Naturals

CONSTANTS
  User,     \* the two members of the couple
  Slot,     \* the event's places and times, by place and bucket of the time
  Home,     \* home locations
  Request,  \* requests that can be in progress at the same time
  Arrivals, \* how many requests ever arrive (bounds the behaviours)
  MayFail,  \* whether Redis and database calls fail
  None

Plan == UNION Slot

ASSUME UserAssumption == \E u, v \in User : u # v /\ User = {u, v}
ASSUME ArrivalsAssumption == Arrivals \in Nat
ASSUME FlagAssumption == MayFail \in BOOLEAN

VARIABLES
  exists,  \* the CalendarEvent row exists
  plan,    \* its place and time
  home,    \* User.homeLat/homeLng
  redis,   \* redis[k]: the route stored under cache key k, or None
  db,      \* db[k]: the RouteCache row with cacheKey k, or None
  left,    \* requests still to arrive
  pc,      \* the await a request is suspended at
  user,    \* its authenticated user
  read,    \* the plan analyze has read, or the new value to be written
  input,   \* analyze: plan, my home and partner's home as it read them
  got,     \* analyze: the route it will answer with
  keys,    \* invalidation: the cache keys it has read
  after,   \* where an invalidation returns to
  during   \* analyze: the inputs that were current since it began (history)

store == <<exists, plan, home, redis, db>>
locals == <<pc, user, read, input, got, keys, after, during>>
vars == <<exists, plan, home, redis, db, left,
          pc, user, read, input, got, keys, after, during>>

Inputs == Plan \X Home \X Home
Route == [plan : Plan, mine : Plan \X Home, theirs : Plan \X Home]

ASSUME NoneAssumption == None \notin User \union Plan \union Inputs \union Route

(* The times that TransitService does not tell apart, for one place *)
Bucket(p) == UNION {s \in Slot : p \in s}

(* Mutant: the partner's home is not part of the key. *)
CacheKeyNoPartner(i) == <<i[1], i[2], i[2]>>

(* buildCacheKey(eventId, time, my home, partner's home, place): SHA-256   *)
(* of all inputs; the user's id is not among them.                         *)
CacheKey(i) == i

CacheRow == [route : Route, user : User]

AnalyzePC == {"readHomes", "getRedis", "getDb", "refill", "compute",
              "setRedis", "upsert", "answer"}
ChangePC == {"updateEvent", "updateHome", "findEvents", "findCaches",
             "delRedis", "deleteRows", "deleteEvent"}

TypeOK ==
  /\ exists \in BOOLEAN
  /\ plan \in Plan
  /\ home \in [User -> Home]
  /\ redis \in [Inputs -> Route \union {None}]
  /\ db \in [Inputs -> CacheRow \union {None}]
  /\ pc \in [Request -> {"idle"} \union AnalyzePC \union ChangePC]
  /\ user \in [Request -> User \union {None}]
  /\ read \in [Request -> Plan \union Home \union {None}]
  /\ input \in [Request -> Inputs \union {None}]
  /\ got \in [Request -> Route \union {None}]
  /\ keys \in [Request -> SUBSET Inputs]
  /\ after \in [Request -> {"idle", "deleteEvent"}]
  /\ during \in [Request -> SUBSET Inputs]
  /\ left \in 0..Arrivals

Init ==
  /\ exists = TRUE
  /\ plan \in Plan
  /\ home \in [User -> Home]
  /\ redis = [k \in Inputs |-> None]
  /\ db = [k \in Inputs |-> None]
  /\ left = Arrivals
  /\ pc = [r \in Request |-> "idle"]
  /\ user = [r \in Request |-> None]
  /\ read = [r \in Request |-> None]
  /\ input = [r \in Request |-> None]
  /\ got = [r \in Request |-> None]
  /\ keys = [r \in Request |-> {}]
  /\ after = [r \in Request |-> "idle"]
  /\ during = [r \in Request |-> {}]

-----------------------------------------------------------------------------
Partner(u) == CHOOSE v \in User : v # u

Current(u) == <<plan, home[u], home[Partner(u)]>>

Goto(r, to) == pc' = [pc EXCEPT ![r] = to]

Arrive(r, to) ==
  /\ pc[r] = "idle"
  /\ left > 0
  /\ left' = left - 1
  /\ Goto(r, to)

Finish(r) ==
  /\ Goto(r, "idle")
  /\ user' = [user EXCEPT ![r] = None]
  /\ read' = [read EXCEPT ![r] = None]
  /\ input' = [input EXCEPT ![r] = None]
  /\ got' = [got EXCEPT ![r] = None]
  /\ keys' = [keys EXCEPT ![r] = {}]
  /\ after' = [after EXCEPT ![r] = "idle"]
  /\ during' = [during EXCEPT ![r] = {}]

(* A plan or a home changes under the analyses in progress. *)
Witness ==
  during' = [r \in Request |->
               IF pc[r] \in AnalyzePC
                 THEN during[r] \union {Current(user[r])'} ELSE during[r]]

-----------------------------------------------------------------------------
(* CoupleRouteService.analyze *)

(* The event exists and has a place and a time. *)
AnalyzeBegin(r, u) ==
  /\ exists
  /\ Arrive(r, "readHomes")
  /\ user' = [user EXCEPT ![r] = u]
  /\ read' = [read EXCEPT ![r] = plan]
  /\ during' = [during EXCEPT ![r] = {Current(u)}]
  /\ UNCHANGED <<store, input, got, keys, after>>

(* The members are read later than the event: the homes of that moment,    *)
(* even if the event is gone by then.  forceRefresh skips the cache.       *)
AnalyzeReadHomes(r, forceRefresh) ==
  /\ pc[r] = "readHomes"
  /\ input' = [input EXCEPT ![r] =
                 <<read[r], home[user[r]], home[Partner(user[r])]>>]
  /\ read' = [read EXCEPT ![r] = None]
  /\ Goto(r, IF forceRefresh THEN "compute" ELSE "getRedis")
  /\ UNCHANGED <<store, user, got, keys, after, during>>

(* checkCache: Redis first; an error there is a miss. *)
AnalyzeGetRedis(r) ==
  /\ pc[r] = "getRedis"
  /\ LET hit == redis[CacheKey(input[r])] IN
       \/ /\ hit # None
          /\ got' = [got EXCEPT ![r] = hit]
          /\ Goto(r, "answer")
       \/ /\ hit = None \/ MayFail
          /\ Goto(r, "getDb")
          /\ UNCHANGED got
  /\ UNCHANGED <<store, user, read, input, keys, after, during>>

(* Then the caller's own row.  A row older than 24 hours stays where it is *)
(* and only ceases to be a hit, so any row may fail to be one.             *)
AnalyzeGetDb(r) ==
  /\ pc[r] = "getDb"
  /\ LET row == db[CacheKey(input[r])]
         hit == row # None /\ row.user = user[r]
     IN \/ /\ hit
           /\ got' = [got EXCEPT ![r] = row.route]
           /\ Goto(r, "refill")
        \/ /\ Goto(r, "compute")
           /\ UNCHANGED got
  /\ UNCHANGED <<store, user, read, input, keys, after, during>>

(* redis.set, whose failure is ignored. *)
SetRedis(r, from, to) ==
  /\ pc[r] = from
  /\ \/ redis' = [redis EXCEPT ![CacheKey(input[r])] = got[r]]
     \/ MayFail /\ UNCHANGED redis
  /\ Goto(r, to)
  /\ UNCHANGED <<exists, plan, home, db>>
  /\ UNCHANGED <<user, read, input, got, keys, after, during>>

AnalyzeRefill(r) == SetRedis(r, "refill", "answer")

(* The departure times are those for the plan as read, p and q the times   *)
(* the two journeys were asked for.                                        *)
RouteFor(i, p, q) ==
  [plan |-> i[1], mine |-> <<p, i[2]>>, theirs |-> <<q, i[3]>>]

(* Mutant: the result of computeRoute is lost. *)
AnalyzeComputeNothing(r) ==
  /\ pc[r] = "compute"
  /\ Goto(r, "setRedis")
  /\ UNCHANGED <<store, user, read, input, got, keys, after, during>>

(* computeRoute, for both: it may answer with what anybody has asked for,  *)
(* between the same two places and in the same bucket; forceRefresh does   *)
(* not get past that.  The meeting station is a function of the two.       *)
AnalyzeCompute(r) ==
  /\ pc[r] = "compute"
  /\ \E p, q \in Bucket(input[r][1]) :
       got' = [got EXCEPT ![r] = RouteFor(input[r], p, q)]
  /\ Goto(r, "setRedis")
  /\ UNCHANGED <<store, user, read, input, keys, after, during>>

AnalyzeSetRedis(r) == SetRedis(r, "setRedis", "upsert")

(* Mutant: RouteCache.eventId without its foreign key. *)
UpsertUnchecked(k) == TRUE

(* upsert by cacheKey: creating needs the event, updating needs the row. *)
UpsertSucceeds(k) == exists \/ db[k] # None

AnalyzeUpsert(r) ==
  LET k == CacheKey(input[r]) IN
  /\ pc[r] = "upsert"
  /\ \/ /\ UpsertSucceeds(k)
        /\ db' = [db EXCEPT ![k] =
             [route |-> got[r],
              user |-> IF db[k] = None THEN user[r] ELSE db[k].user]]
     \/ /\ MayFail \/ ~ UpsertSucceeds(k)
        /\ UNCHANGED db
  /\ Goto(r, "answer")
  /\ UNCHANGED <<exists, plan, home, redis>>
  /\ UNCHANGED <<user, read, input, got, keys, after, during>>

AnalyzeAnswer(r) ==
  /\ pc[r] = "answer"
  /\ Finish(r)
  /\ UNCHANGED store

-----------------------------------------------------------------------------
(* EventService.update and remove, UserService.updateMe: read first. *)

UpdateBegin(r, p) ==
  /\ exists
  /\ Arrive(r, "updateEvent")
  /\ read' = [read EXCEPT ![r] = p]
  /\ UNCHANGED <<store, user, input, got, keys, after, during>>

(* calendarEvent.update throws when the row is gone. *)
UpdateEvent(r) ==
  /\ pc[r] = "updateEvent"
  /\ exists
  /\ plan' = read[r]
  /\ read' = [read EXCEPT ![r] = None]
  /\ Goto(r, "findCaches")
  /\ UNCHANGED <<exists, home, redis, db, user, input, got, keys, after>>
  /\ Witness

UpdateThrows(r) ==
  /\ pc[r] = "updateEvent"
  /\ ~ exists
  /\ Finish(r)
  /\ UNCHANGED store

RemoveBegin(r) ==
  /\ exists
  /\ Arrive(r, "findCaches")
  /\ after' = [after EXCEPT ![r] = "deleteEvent"]
  /\ UNCHANGED <<store, user, read, input, got, keys, during>>

UpdateMeBegin(r, u, h) ==
  /\ Arrive(r, "updateHome")
  /\ user' = [user EXCEPT ![r] = u]
  /\ read' = [read EXCEPT ![r] = h]
  /\ UNCHANGED <<store, input, got, keys, after, during>>

UpdateHome(r) ==
  /\ pc[r] = "updateHome"
  /\ home' = [home EXCEPT ![user[r]] = read[r]]
  /\ read' = [read EXCEPT ![r] = None]
  /\ Goto(r, "findEvents")
  /\ UNCHANGED <<exists, plan, redis, db, user, input, got, keys, after>>
  /\ Witness

(* The memberships of the user and the events of his couple. *)
FindEvents(r) ==
  /\ pc[r] = "findEvents"
  /\ IF exists
       THEN /\ Goto(r, "findCaches")
            /\ UNCHANGED <<user, read, input, got, keys, after, during>>
       ELSE Finish(r)
  /\ UNCHANGED store

-----------------------------------------------------------------------------
(* invalidateRouteCaches and invalidateCoupleRouteCaches *)

(* The invalidation is over: remove goes on, the others return. *)
Leave(r) ==
  IF after[r] = "deleteEvent"
    THEN /\ Goto(r, "deleteEvent")
         /\ UNCHANGED <<user, read, input, got, keys, after, during>>
    ELSE Finish(r)

(* The keys of all rows of the event; there may be none.  A database error *)
(* here or in DeleteRows is logged and ends the invalidation.              *)
FindCaches(r) ==
  /\ pc[r] = "findCaches"
  /\ LET there == {k \in Inputs : db[k] # None} IN
       \/ /\ there # {}
          /\ keys' = [keys EXCEPT ![r] = there]
          /\ Goto(r, "delRedis")
          /\ UNCHANGED <<user, read, input, got, after, during>>
       \/ /\ there = {} \/ MayFail
          /\ Leave(r)
  /\ UNCHANGED store

(* redis.del(...keys), whose failure is ignored. *)
DelRedis(r) ==
  /\ pc[r] = "delRedis"
  /\ \/ redis' = [k \in Inputs |-> IF k \in keys[r] THEN None ELSE redis[k]]
     \/ MayFail /\ UNCHANGED redis
  /\ Goto(r, "deleteRows")
  /\ UNCHANGED <<exists, plan, home, db>>
  /\ UNCHANGED <<user, read, input, got, keys, after, during>>

(* deleteMany({ where: { eventId } }): all rows, not only those read. *)
DeleteRows(r) ==
  /\ pc[r] = "deleteRows"
  /\ \/ db' = [k \in Inputs |-> None]
     \/ MayFail /\ UNCHANGED db
  /\ Leave(r)
  /\ UNCHANGED <<exists, plan, home, redis>>

(* calendarEvent.delete, which cascades to the cache rows; it throws when  *)
(* the row is gone.                                                        *)
DeleteEvent(r) ==
  /\ pc[r] = "deleteEvent"
  /\ exists' = FALSE
  /\ db' = [k \in Inputs |-> None]
  /\ Finish(r)
  /\ UNCHANGED <<plan, home, redis>>

-----------------------------------------------------------------------------
(* An hour ends a Redis entry. *)

RedisExpires(k) ==
  /\ redis[k] # None
  /\ redis' = [redis EXCEPT ![k] = None]
  /\ UNCHANGED <<exists, plan, home, db>>
  /\ UNCHANGED locals

(* No route, a failed call outside a try block, a restart. *)
Abandon(r) ==
  /\ MayFail
  /\ pc[r] # "idle"
  /\ Finish(r)
  /\ UNCHANGED store

Begin(r) ==
  \/ \E u \in User : AnalyzeBegin(r, u)
  \/ \E p \in Plan : UpdateBegin(r, p)
  \/ RemoveBegin(r)
  \/ \E u \in User, h \in Home : UpdateMeBegin(r, u, h)

Continue(r) ==
  \/ \E forceRefresh \in BOOLEAN : AnalyzeReadHomes(r, forceRefresh)
  \/ AnalyzeGetRedis(r) \/ AnalyzeGetDb(r) \/ AnalyzeRefill(r)
  \/ AnalyzeCompute(r) \/ AnalyzeSetRedis(r) \/ AnalyzeUpsert(r)
  \/ AnalyzeAnswer(r)
  \/ UpdateEvent(r) \/ UpdateThrows(r) \/ DeleteEvent(r)
  \/ UpdateHome(r) \/ FindEvents(r)
  \/ FindCaches(r) \/ DelRedis(r) \/ DeleteRows(r)

Next ==
  \/ \E r \in Request : Begin(r)
  \/ UNCHANGED left /\ \E r \in Request : Continue(r) \/ Abandon(r)
  \/ UNCHANGED left /\ \E k \in Inputs : RedisExpires(k)

Spec == Init /\ [][Next]_vars

-----------------------------------------------------------------------------
(* No stale answer, whatever invalidations analyze overlaps and whatever   *)
(* an invalidation missed.  The departure times it answers with are for a  *)
(* place and time that the event had at some moment of the request, and    *)
(* the journeys lead to that place and were asked for a time in the bucket *)
(* of that time: after a change within a bucket they may be those for the  *)
(* old time.  The homes they start from were those of the couple at some   *)
(* moment of the request, both at once -- but not necessarily at the       *)
(* moment of the plan: event and members are read apart.                   *)
FreshAnswer ==
  \A r \in Request : pc[r] = "answer" =>
    /\ \E i \in during[r] :
         /\ got[r].plan = i[1]
         /\ got[r].mine[1] \in Bucket(i[1]) /\ got[r].theirs[1] \in Bucket(i[1])
    /\ \E i \in during[r] : <<got[r].mine[2], got[r].theirs[2]>> = <<i[2], i[3]>>

(* A deleted event leaves no cache row, also when an analysis that read    *)
(* the event before saves its result after the delete.                     *)
RowNeedsEvent == exists \/ \A k \in Inputs : db[k] = None
=============================================================================
