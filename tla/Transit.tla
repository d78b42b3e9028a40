------------------------------ MODULE Transit ------------------------------
(***************************************************************************)
(* The transit client of apps/api/src/transit/transit.service.ts: routes   *)
(* are asked of Tmap and kept in Redis for the time bucket in which the    *)
(* traveller wants to arrive.  One step is one awaited call of             *)
(* fetchWithCache with the synchronous code that follows it.               *)
(*                                                                         *)
(* A trip is everything Tmap is asked but the time: the scope ("route",    *)
(* "departures:A", "departures:B"), the origin and the destination.  Time  *)
(* is in minutes.  A route is represented by what it was computed for.     *)
(***************************************************************************)
EXTENDS TransitState

vars == <<now, cache, query, base, pc, route>>

\* buildCacheKey.  It has no arrival time, only its bucket.
\* Mutant: the size of the bucket is left out as well.
CacheKeyAnySize(q, time) ==
  [trip |-> q.trip, minutes |-> None, size |-> 0,
   start |-> BucketStart(time, BucketMinutes(q.minutes))]
CacheKey(q, time) ==
  LET n == BucketMinutes(q.minutes)
  IN  [trip |-> q.trip, minutes |-> q.minutes, size |-> n, start |-> BucketStart(time, n)]

Init ==
  /\ now = 0
  /\ cache = {}
  /\ query = [c \in Call |-> None]
  /\ base = [c \in Call |-> 0]
  /\ pc = [c \in Call |-> "idle"]
  /\ route = [c \in Call |-> None]

\* extractRequestTime: the arrival time, or the clock when none was asked for.
RequestTime(arrival) == IF arrival = None THEN now ELSE arrival

\* computeRoute makes one call, computeDepartures and the couple's analysis two
\* at once, which share nothing but their arguments.
Begin(c, t, arrival, minutes) ==
  /\ pc[c] = "idle"
  /\ ValidMinutes(minutes)
  /\ query' = [query EXCEPT ![c] = [trip |-> t, arrival |-> arrival, minutes |-> minutes]]
  /\ base' = [base EXCEPT ![c] = RequestTime(arrival)]
  /\ pc' = [pc EXCEPT ![c] = "get"]
  /\ UNCHANGED <<now, cache, route>>

KeyOf(c) == CacheKey(query[c], base[c])

Goto(c, from, to) == pc[c] = from /\ pc' = [pc EXCEPT ![c] = to]

\* getCache finds the key.
Hit(c) ==
  /\ Goto(c, "get", "served")
  /\ \E e \in cache : /\ e.key = KeyOf(c)
                      /\ route' = [route EXCEPT ![c] = e.route]
  /\ UNCHANGED <<now, cache, query, base>>

\* It finds nothing, or Redis fails, which getCache does not tell apart.
Miss(c) ==
  /\ Goto(c, "get", "call")
  /\ UNCHANGED <<now, cache, query, base, route>>

\* callTmap: a route for the time asked for, or one that leaves now.
CallTmap(c) ==
  /\ Goto(c, "call", "set")
  /\ LET leaves == query[c].arrival = None
     IN  route' = [route EXCEPT ![c] =
           [trip |-> query[c].trip, leaves |-> leaves,
            at |-> IF leaves THEN now ELSE query[c].arrival]]
  /\ UNCHANGED <<now, cache, query, base>>

\* setCache; a failing write is logged, and the route is answered all the same.
SetCache(c) ==
  /\ Goto(c, "set", "served")
  /\ \/ cache' = {e \in cache : e.key # KeyOf(c)} \cup {[key |-> KeyOf(c), route |-> route[c]]}
     \/ cache' = cache
  /\ Cardinality(cache') <= MaxEntries
  /\ UNCHANGED <<now, query, base, route>>

\* The call is over: answered, or Tmap failed, was not ok, or timed out.
Finish(c) ==
  /\ pc[c] \in {"call", "served"}
  /\ query' = [query EXCEPT ![c] = None]
  /\ base' = [base EXCEPT ![c] = 0]
  /\ pc' = [pc EXCEPT ![c] = "idle"]
  /\ route' = [route EXCEPT ![c] = None]
  /\ UNCHANGED <<now, cache>>

\* The TTL of an entry ends, two to five minutes after it was written.
Expire(e) ==
  /\ cache' = cache \ {e}
  /\ UNCHANGED <<now, query, base, pc, route>>

\* A minute passes.  With a timeout of 12 s a call does not hang for minutes.
Tick ==
  /\ now < Horizon
  /\ \A c \in Call : pc[c] \in {"get", "call"} /\ query[c].arrival = None
                      => now < base[c] + Later
  /\ now' = now + 1
  /\ UNCHANGED <<cache, query, base, pc, route>>

Next ==
  \/ \E c \in Call, t \in Trip, arrival \in Time \cup {None}, minutes \in Minutes \cup {None} :
       Begin(c, t, arrival, minutes)
  \/ \E c \in Call : Hit(c) \/ Miss(c) \/ CallTmap(c) \/ SetCache(c) \/ Finish(c)
  \/ \E e \in cache : Expire(e)
  \/ Tick

Spec == Init /\ [][Next]_vars

-----------------------------------------------------------------------------
Route == [trip : Trip, leaves : BOOLEAN, at : Time]
Query == [trip : Trip, arrival : Time \cup {None}, minutes : Minutes \cup {None}]
BucketKey == [trip : Trip, minutes : Minutes \cup {None}, size : Int, start : Int]

TypeOK ==
  /\ now \in Time
  /\ cache \subseteq [key : BucketKey, route : Route]
  /\ query \in [Call -> Query \cup {None}]
  /\ base \in [Call -> Time]
  /\ pc \in [Call -> {"idle", "get", "call", "set", "served"}]
  /\ route \in [Call -> Route \cup {None}]
=============================================================================
