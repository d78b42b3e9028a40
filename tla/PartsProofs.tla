---------------------------- MODULE PartsProofs ----------------------------
(***************************************************************************)
(* What the components of Parts promise, for any values of the constants.  *)
(* Each has an invariant of its own, which a section below shows inductive *)
(* (TabsProofs that of the photos and that of the calendar, SettingsProofs *)
(* and InvitesProofs theirs); the last section puts them together and      *)
(* states the theorems.                                                    *)
(***************************************************************************)
EXTENDS Parts, TabsProofs

-----------------------------------------------------------------------------
\* The transit client
\* What a call knows while it is under way: its bucket size is valid, its
\* bucket is that of its arrival time, or of a time not long before the clock.
CallKnows(c) ==
  /\ query[c] \in Transit!Query
  /\ Transit!ValidMinutes(query[c].minutes)
  /\ query[c].arrival # None => base[c] = query[c].arrival
  /\ query[c].arrival = None /\ pc[c] \in {"get", "call"} =>
       base[c] <= now /\ now <= base[c] + Later

\* A route that is kept under, or in hand for, key k is for the bucket of k.
Fits(x, k) == x \in Transit!Route /\ x.trip = k.trip /\ Transit!InBucket(x, k.start, k.size)

TransitInv ==
  /\ Transit!TypeOK
  /\ \A e \in cache : Fits(e.route, e.key)
  /\ \A c \in Call : pc[c] # "idle" => CallKnows(c)
  /\ \A c \in Call : pc[c] \in {"set", "served"} => Fits(route[c], Transit!KeyOf(c))

\* A bucket contains the time that chose it.
LEMMA BucketContains ==
  ASSUME NEW time \in Nat, NEW n \in Int, n >= 1
  PROVE  /\ Transit!BucketStart(time, n) \in Int
         /\ Transit!BucketStart(time, n) <= time
         /\ time < Transit!BucketStart(time, n) + n
<1> DEFINE q == time \div n
           r == time % n
<1>1. q \in Int /\ r \in 0 .. n - 1 /\ time = n * q + r
  OBVIOUS
<1>2. Transit!BucketStart(time, n) = n * q
  BY <1>1 DEF Transit!BucketStart
<1>3. n * q \in Int
  BY <1>1
<1> QED
  BY <1>1, <1>2, <1>3

\* A valid query has a proper key: its bucket contains the time that chose it.
LEMMA KeyIsProper ==
  ASSUME NEW q \in Transit!Query, NEW time \in Transit!Time, Transit!ValidMinutes(q.minutes)
  PROVE  /\ Transit!CacheKey(q, time) \in Transit!BucketKey
         /\ Transit!CacheKey(q, time).trip = q.trip
         /\ Transit!CacheKey(q, time).start <= time
         /\ time < Transit!CacheKey(q, time).start + Transit!CacheKey(q, time).size
<1> DEFINE n == Transit!BucketMinutes(q.minutes)
<1>1. q.trip \in Trip /\ q.minutes \in Minutes \cup {None}
  BY DEF Transit!Query
<1>2. n \in Int /\ n >= 1
  BY <1>1, TransitAssumption DEF Transit!BucketMinutes, Transit!ValidMinutes
<1>3. time \in Nat
  BY TransitAssumption DEF Transit!Time
<1>4. /\ Transit!BucketStart(time, n) \in Int
      /\ Transit!BucketStart(time, n) <= time
      /\ time < Transit!BucketStart(time, n) + n
  BY <1>2, <1>3, BucketContains
<1>5. Transit!CacheKey(q, time) = [trip |-> q.trip, minutes |-> q.minutes, size |-> n,
                           start |-> Transit!BucketStart(time, n)]
  BY DEF Transit!CacheKey
<1> QED
  BY <1>1, <1>2, <1>4, <1>5 DEF Transit!BucketKey

LEMMA TransitInit == Transit!Init => TransitInv
BY TransitAssumption DEF Transit!Init, TransitInv, Transit!TypeOK, Transit!Time

LEMMA TransitNext == TransitInv /\ [Transit!Next]_(Transit!vars) => TransitInv'
<1> SUFFICES ASSUME TransitInv, [Transit!Next]_(Transit!vars) PROVE TransitInv'
  OBVIOUS
<1> USE DEF TransitInv, Transit!TypeOK
<1>1. ASSUME NEW c \in Call, NEW t \in Trip, NEW arrival \in Transit!Time \cup {None},
             NEW minutes \in Minutes \cup {None}, Transit!Begin(c, t, arrival, minutes)
      PROVE  TransitInv'
  <2> DEFINE q == [trip |-> t, arrival |-> arrival, minutes |-> minutes]
  <2>1. /\ q \in Transit!Query /\ query' = [query EXCEPT ![c] = q]
        /\ base' = [base EXCEPT ![c] = IF arrival = None THEN now ELSE arrival]
        /\ pc' = [pc EXCEPT ![c] = "get"]
        /\ Transit!ValidMinutes(minutes) /\ UNCHANGED <<now, cache, route>>
    BY <1>1 DEF Transit!Begin, Transit!RequestTime, Transit!Query
  <2>2. Transit!TypeOK'
    BY <2>1
  <2>3. CallKnows(c)'
    BY <2>1, <2>2, TransitAssumption DEF CallKnows, Transit!Time
  <2>4. \A d \in Call \ {c} : pc'[d] = pc[d] /\ query'[d] = query[d] /\ base'[d] = base[d]
    BY <2>1
  <2>5. \A d \in Call : (pc[d] # "idle" => CallKnows(d))'
    BY <2>1, <2>3, <2>4 DEF CallKnows
  <2>6. \A d \in Call : (pc[d] \in {"set", "served"} => Fits(route[d], Transit!KeyOf(d)))'
    BY <2>1, <2>4 DEF Transit!KeyOf
  <2> QED
    BY <2>1, <2>2, <2>5, <2>6
<1>2. ASSUME NEW c \in Call, Transit!Hit(c) PROVE TransitInv'
  <2>1. PICK e \in cache : e.key = Transit!KeyOf(c) /\ route' = [route EXCEPT ![c] = e.route]
    BY <1>2 DEF Transit!Hit
  <2>2. /\ pc[c] = "get" /\ pc' = [pc EXCEPT ![c] = "served"]
        /\ UNCHANGED <<now, cache, query, base>>
    BY <1>2 DEF Transit!Hit, Transit!Goto
  <2>3. Fits(e.route, Transit!KeyOf(c))
    BY <2>1
  <2> QED
    BY <2>1, <2>2, <2>3 DEF Fits, CallKnows, Transit!KeyOf
<1>3. ASSUME NEW c \in Call, Transit!Miss(c) PROVE TransitInv'
  BY <1>3 DEF Transit!Miss, Transit!Goto, CallKnows, Transit!KeyOf
<1>4. ASSUME NEW c \in Call, Transit!CallTmap(c) PROVE TransitInv'
  <2> DEFINE leaves == query[c].arrival = None
             x == [trip |-> query[c].trip, leaves |-> leaves,
                   at |-> IF leaves THEN now ELSE query[c].arrival]
  <2>1. /\ pc[c] = "call" /\ pc' = [pc EXCEPT ![c] = "set"]
        /\ route' = [route EXCEPT ![c] = x]
        /\ UNCHANGED <<now, cache, query, base>>
    BY <1>4 DEF Transit!CallTmap, Transit!Goto
  <2>2. CallKnows(c)
    BY <2>1
  <2>3. x \in Transit!Route
    BY <2>2 DEF CallKnows, Transit!Query, Transit!Route
  <2>4. /\ Transit!KeyOf(c) \in Transit!BucketKey /\ Transit!KeyOf(c).trip = query[c].trip
        /\ Transit!KeyOf(c).start <= base[c]
        /\ base[c] < Transit!KeyOf(c).start + Transit!KeyOf(c).size
    BY <2>2, KeyIsProper DEF CallKnows, Transit!KeyOf
  <2>5. Transit!InBucket(x, Transit!KeyOf(c).start, Transit!KeyOf(c).size)
    <3>1. CASE leaves
      <4>1. x.at = now /\ x.leaves
        BY <3>1
      <4>2. base[c] <= now /\ now <= base[c] + Later
        BY <3>1, <2>1, <2>2 DEF CallKnows
      <4>3. /\ Transit!KeyOf(c).start \in Int /\ Transit!KeyOf(c).size \in Int
            /\ base[c] \in Int /\ now \in Int /\ Later \in Nat
        BY <2>4, TransitAssumption DEF Transit!BucketKey, Transit!Time
      <4> QED
        BY <4>1, <4>2, <4>3, <2>4 DEF Transit!InBucket
    <3>2. CASE ~leaves
      BY <3>2, <2>1, <2>2, <2>4, TransitAssumption DEF CallKnows, Transit!InBucket,
                                                       Transit!BucketKey, Transit!Time
    <3> QED
      BY <3>1, <3>2
  <2>6. Fits(x, Transit!KeyOf(c))
    BY <2>3, <2>4, <2>5 DEF Fits
  <2> QED
    BY <2>1, <2>3, <2>6 DEF CallKnows, Transit!KeyOf
<1>5. ASSUME NEW c \in Call, Transit!SetCache(c) PROVE TransitInv'
  <2> DEFINE new == [key |-> Transit!KeyOf(c), route |-> route[c]]
  <2>1. /\ pc[c] = "set" /\ pc' = [pc EXCEPT ![c] = "served"]
        /\ UNCHANGED <<now, query, base, route>>
        /\ cache' \subseteq cache \cup {new}
    BY <1>5 DEF Transit!SetCache, Transit!Goto
  <2>2. Fits(route[c], Transit!KeyOf(c)) /\ Transit!KeyOf(c) \in Transit!BucketKey
    BY <2>1, KeyIsProper DEF CallKnows, Transit!KeyOf
  <2> QED
    BY <2>1, <2>2 DEF Fits, CallKnows, Transit!KeyOf
<1>6. ASSUME NEW c \in Call, Transit!Finish(c) PROVE TransitInv'
  <2>1. 0 \in Transit!Time
    BY TransitAssumption DEF Transit!Time
  <2> QED
    BY <1>6, <2>1 DEF Transit!Finish, CallKnows, Transit!KeyOf
<1>7. ASSUME NEW e \in cache, Transit!Expire(e) PROVE TransitInv'
  BY <1>7 DEF Transit!Expire, CallKnows, Transit!KeyOf
<1>8. CASE Transit!Tick
  <2>1. now' = now + 1 /\ now' \in Transit!Time /\ UNCHANGED <<cache, query, base, pc, route>>
    BY <1>8, TransitAssumption DEF Transit!Tick, Transit!Time
  <2>2. \A c \in Call : pc[c] \in {"get", "call"} /\ query[c].arrival = None
                          => now' <= base[c] + Later
    BY <1>8, <2>1, TransitAssumption DEF Transit!Tick, Transit!Time
  <2>3. \A c \in Call : (pc[c] # "idle" => CallKnows(c))'
    BY <2>1, <2>2, TransitAssumption DEF CallKnows, Transit!Time
  <2> QED
    BY <2>1, <2>3 DEF Transit!KeyOf
<1>9. CASE UNCHANGED Transit!vars
  BY <1>9 DEF Transit!vars, CallKnows, Transit!KeyOf
<1> QED
  BY <1>1, <1>2, <1>3, <1>4, <1>5, <1>6, <1>7, <1>8, <1>9, Zenon DEF Transit!Next

LEMMA InBucketThen == TransitInv => AnswerInBucket
<1> SUFFICES ASSUME TransitInv, NEW c \in Call, pc[c] = "served"
             PROVE  LET n == BucketMinutes(query[c].minutes)
                    IN  /\ route[c].trip = query[c].trip
                        /\ InBucket(route[c], BucketStart(base[c], n), n)
  BY DEF AnswerInBucket
<1> QED
  BY DEF TransitInv, Fits, Transit!KeyOf, Transit!CacheKey, Transit!BucketMinutes,
         BucketMinutes, Transit!InBucket, InBucket, Transit!BucketStart, BucketStart

-----------------------------------------------------------------------------
\* The overlap of two routes
\* What is paired so far, and what has been looked at, loop by loop.
Taken(p, j) == \E k \in Overlap!Stops(p) : match[p][k] = j

Settled(p, i) ==
  \A j \in 1 .. Len(Overlap!Theirs(p)) : Overlap!Alike(p, i, j) =>
    match[p][i] # 0 \/ Taken(p, j)

Progress(p) ==
  /\ loop[p] = "overlap" =>
       /\ meetup[p] = 0
       /\ \A i \in Overlap!Stops(p) : index[p] <= i => match[p][i] = 0
       /\ \A i \in Overlap!Stops(p) : i < index[p] => Settled(p, i)
  /\ loop[p] # "overlap" => \A i \in Overlap!Stops(p) : Settled(p, i)

\* The best of the stations before n.
Best(p, n) ==
  /\ meetup[p] = 0 => \A i \in Overlap!Stops(p) : i < n => match[p][i] = 0
  /\ meetup[p] # 0 =>
       /\ meetup[p] < n /\ match[p][meetup[p]] # 0
       /\ \A i \in Overlap!Stops(p) : i < n /\ match[p][i] # 0 =>
            \/ Overlap!Order(p, meetup[p]) < Overlap!Order(p, i)
            \/ Overlap!Order(p, meetup[p]) = Overlap!Order(p, i) /\ meetup[p] <= i

OverlapInv ==
  /\ Overlap!TypeOK
  /\ Overlap!OverlapIsMatching
  /\ Overlap!NamesFirst
  /\ \A p \in Person : Progress(p)
  /\ \A p \in Person : loop[p] = "meetup" => Best(p, index[p])
  /\ \A p \in Person : loop[p] = "done" => Best(p, Len(Overlap!Mine(p)) + 1)

LEMMA PartnerFacts ==
  ASSUME NEW p \in Person
  PROVE  /\ Overlap!Partner(p) \in Person /\ Overlap!Partner(p) # p
         /\ Overlap!Partner(Overlap!Partner(p)) = p
         /\ \A q \in Person : q = p \/ q = Overlap!Partner(p)
<1>1. PICK q \in Person : Person = {p, q} /\ p # q
  BY OverlapAssumption
<1>2. Overlap!Partner(p) = q
  BY <1>1 DEF Overlap!Partner
<1>3. Overlap!Partner(q) = p
  BY <1>1 DEF Overlap!Partner
<1> QED
  BY <1>1, <1>2, <1>3

\* The lengths are natural numbers, which the arithmetic below needs.
LEMMA Lengths ==
  ASSUME Overlap!TypeOK, NEW p \in Person
  PROVE  /\ Len(Overlap!Mine(p)) \in Nat /\ Len(Overlap!Theirs(p)) \in Nat
         /\ Overlap!Stops(p) = 1 .. Len(Overlap!Mine(p))
         /\ Overlap!Theirs(p) = Overlap!Mine(Overlap!Partner(p))
         /\ index[p] \in Nat /\ meetup[p] \in Nat
BY PartnerFacts DEF Overlap!TypeOK, Overlap!Mine, Overlap!Theirs, Overlap!Stops

LEMMA OverlapInit == Overlap!Init => OverlapInv
<1> SUFFICES ASSUME Overlap!Init PROVE OverlapInv
  OBVIOUS
<1>1. stations \in [Person -> Seq(Overlap!Station)]
  BY OverlapAssumption DEF Overlap!Init, Overlap!Station, Station
<1>2. \A p \in Person : /\ match[p] = [i \in Overlap!Stops(p) |-> 0]
                        /\ Len(Overlap!Mine(p)) \in Nat /\ Len(Overlap!Theirs(p)) \in Nat
  <2>1. \A p \in Person : match[p] = [i \in Overlap!Stops(p) |-> 0]
    BY DEF Overlap!Init
  <2>2. \A p \in Person : Len(stations[p]) \in Nat
    BY <1>1
  <2>3. \A p \in Person : Len(Overlap!Mine(p)) \in Nat /\ Len(Overlap!Theirs(p)) \in Nat
    BY <2>2, PartnerFacts DEF Overlap!Mine, Overlap!Theirs
  <2> QED
    BY <2>1, <2>3
<1>3. Overlap!TypeOK
  BY <1>1, <1>2 DEF Overlap!Init, Overlap!TypeOK
<1>4. \A p \in Person : \A i \in Overlap!Stops(p) : match[p][i] = 0 /\ i >= 1
  <2>1. \A p \in Person : \A i \in Overlap!Stops(p) : match[p][i] = 0
    BY <1>2
  <2>2. \A p \in Person : \A i \in Overlap!Stops(p) : i >= 1
    BY <1>2 DEF Overlap!Stops
  <2> QED
    BY <2>1, <2>2
<1>5. \A p \in Person : Progress(p)
  BY <1>4, <1>2 DEF Progress, Overlap!Init, Overlap!Stops
<1> QED
  BY <1>3, <1>4, <1>5 DEF OverlapInv, Overlap!Init, Overlap!OverlapIsMatching,
                          Overlap!NamesFirst

\* One iteration of the loop over the own stations, whatever it finds.
LEMMA OverlapStep ==
  ASSUME OverlapInv, NEW p \in Person, Overlap!InLoop(p, "overlap"),
         NEW j \in 0 .. Len(Overlap!Theirs(p)),
         match' = [match EXCEPT ![p][index[p]] = j],
         Overlap!Advance(p), UNCHANGED meetup,
         j # 0 => /\ j \in Overlap!Free(p) /\ Overlap!Alike(p, index[p], j)
                  /\ Overlap!SameName(p, index[p], j) \/ Overlap!Namesakes(p, index[p]) = {},
         j = 0 => Overlap!Namesakes(p, index[p]) = {} /\ Overlap!Neighbours(p, index[p]) = {}
  PROVE  OverlapInv'
<1> DEFINE i == index[p]
<1> USE DEF OverlapInv
<1>1. /\ i \in Overlap!Stops(p) /\ i \in Nat /\ Len(Overlap!Mine(p)) \in Nat
      /\ Len(Overlap!Theirs(p)) \in Nat
      /\ loop[p] = "overlap" /\ match[p][i] = 0 /\ i \in 1 .. Len(Overlap!Mine(p))
  BY Lengths DEF Overlap!InLoop, Progress
<1>2. /\ stations' = stations /\ loop' = loop /\ meetup' = meetup
      /\ index' = [index EXCEPT ![p] = i + 1]
  BY DEF Overlap!Advance
<1>3. \A q \in Person : /\ Overlap!Mine(q)' = Overlap!Mine(q)
                        /\ Overlap!Theirs(q)' = Overlap!Theirs(q)
                        /\ Overlap!Stops(q)' = Overlap!Stops(q)
  BY <1>2 DEF Overlap!Mine, Overlap!Theirs, Overlap!Stops
<1>4. /\ match'[p] = [match[p] EXCEPT ![i] = j]
      /\ \A q \in Person \ {p} : match'[q] = match[q] /\ index'[q] = index[q]
      /\ index'[p] = i + 1
  BY <1>1, <1>2 DEF Overlap!TypeOK
<1>5. /\ match'[p][i] = j
      /\ \A k \in Overlap!Stops(p) : k # i => match'[p][k] = match[p][k]
  BY <1>1, <1>4 DEF Overlap!TypeOK
<1>6. Overlap!TypeOK'
  <2>1. match'[p] \in [Overlap!Stops(p) -> 0 .. Len(Overlap!Theirs(p))]
    BY <1>1, <1>4 DEF Overlap!TypeOK
  <2>2. match' = [q \in Person |-> match'[q]]
    BY DEF Overlap!TypeOK
  <2>3. \A q \in Person : match'[q] \in [Overlap!Stops(q)' -> 0 .. Len(Overlap!Theirs(q))']
    BY <1>3, <1>4, <2>1 DEF Overlap!TypeOK
  <2>4. index' \in [Person -> Nat] /\ index'[p] \in 1 .. Len(Overlap!Mine(p)) + 1
    BY <1>1, <1>2 DEF Overlap!TypeOK
  <2> QED
    BY <1>2, <1>3, <1>4, <2>2, <2>3, <2>4 DEF Overlap!TypeOK
<1>7. \A q \in Person : \A k, l : /\ Overlap!SameName(q, k, l)' = Overlap!SameName(q, k, l)
                              /\ Overlap!Alike(q, k, l)' = Overlap!Alike(q, k, l)
  BY <1>3 DEF Overlap!SameName, Overlap!Close, Overlap!Alike
<1>8. Overlap!OverlapIsMatching'
  <2> SUFFICES ASSUME NEW q \in Person, NEW k \in Overlap!Stops(q), match'[q][k] # 0
               PROVE  /\ Overlap!Alike(q, k, match'[q][k])
                      /\ \A l \in Overlap!Stops(q) : match'[q][l] = match'[q][k] => l = k
    BY <1>3, <1>7 DEF Overlap!OverlapIsMatching
  <2>1. CASE q # p
    BY <2>1, <1>4 DEF Overlap!OverlapIsMatching
  <2>2. CASE q = p /\ k = i
    BY <2>2, <1>5, <1>1 DEF Overlap!Free
  <2>3. CASE q = p /\ k # i
    BY <2>3, <1>5, <1>1 DEF Overlap!Free, Overlap!OverlapIsMatching
  <2> QED
    BY <2>1, <2>2, <2>3
<1>9. \A l \in 1 .. Len(Overlap!Theirs(p)) : Taken(p, l) =>
        \E k \in Overlap!Stops(p) : match'[p][k] = l
  BY <1>1, <1>5 DEF Taken
<1>10. Overlap!NamesFirst'
  <2> SUFFICES ASSUME NEW q \in Person, NEW k \in Overlap!Stops(q),
                      NEW l \in 1 .. Len(Overlap!Theirs(q)),
                      match'[q][k] # 0, ~Overlap!SameName(q, k, match'[q][k]),
                      Overlap!SameName(q, k, l)
               PROVE  \E m \in Overlap!Stops(q) : m < k /\ match'[q][m] = l
    BY <1>3, <1>7 DEF Overlap!NamesFirst
  <2>1. CASE q # p
    BY <2>1, <1>4 DEF Overlap!NamesFirst
  <2>2. CASE q = p /\ k = i
    <3>1. l \notin Overlap!Free(p)
      BY <2>2, <1>5 DEF Overlap!Namesakes
    <3>2. PICK m \in Overlap!Stops(p) : match[p][m] = l
      BY <3>1, <2>2 DEF Overlap!Free
    <3>3. m < i
      BY <3>2, <1>1, <2>2 DEF Progress, Overlap!Stops
    <3> QED
      BY <3>2, <3>3, <2>2, <1>5, <1>1
  <2>3. CASE q = p /\ k # i
    <3>1. match[p][k] # 0 /\ match'[p][k] = match[p][k]
      BY <2>3, <1>5
    <3>2. PICK m \in Overlap!Stops(p) : m < k /\ match[p][m] = l
      BY <3>1, <2>3 DEF Overlap!NamesFirst
    <3>3. m # i
      BY <3>2, <1>1, <2>3
    <3> QED
      BY <3>2, <3>3, <2>3, <1>5
  <2> QED
    BY <2>1, <2>2, <2>3
<1>11. \A q \in Person : Progress(q)'
  <2>1. ASSUME NEW q \in Person, q # p PROVE Progress(q)'
    BY <2>1, <1>2, <1>3, <1>4, <1>7 DEF Progress, Settled, Taken
  <2>2. \A k \in Overlap!Stops(p) : i + 1 <= k => match'[p][k] = 0
    BY <1>1, <1>5 DEF Progress, Overlap!Stops
  <2>3. ASSUME NEW k \in Overlap!Stops(p), k < i + 1 PROVE Settled(p, k)'
    <3> SUFFICES ASSUME NEW l \in 1 .. Len(Overlap!Theirs(p)), Overlap!Alike(p, k, l),
                        match'[p][k] = 0
                 PROVE  \E m \in Overlap!Stops(p) : match'[p][m] = l
      BY <1>3, <1>7 DEF Settled, Taken
    <3>1. CASE k = i
      <4>1. l \notin Overlap!Free(p)
        BY <3>1, <1>5 DEF Overlap!Alike, Overlap!Namesakes, Overlap!Neighbours
      <4>2. Taken(p, l)
        BY <4>1 DEF Overlap!Free, Taken
      <4> QED
        BY <4>2, <1>9
    <3>2. CASE k # i
      <4>1. k < i
        BY <3>2, <2>3, <1>1 DEF Overlap!Stops
      <4>2. Settled(p, k) /\ match[p][k] = 0
        BY <4>1, <3>2, <1>1, <1>5 DEF Progress
      <4> QED
        BY <4>2, <1>9 DEF Settled
    <3> QED
      BY <3>1, <3>2
  <2>4. Progress(p)'
    BY <1>1, <1>2, <1>3, <1>4, <2>2, <2>3 DEF Progress
  <2> QED
    BY <2>1, <2>4
<1>12. \A q \in Person \ {p} : \A n : Best(q, n)' = Best(q, n)
  BY <1>2, <1>3, <1>4 DEF Best, Overlap!Order
<1> QED
  BY <1>1, <1>2, <1>3, <1>4, <1>6, <1>8, <1>10, <1>11, <1>12

\* A step of p within the second loop, or from one loop to the next, leaves the
\* matching alone.
LEMMA KeepsMatching ==
  ASSUME OverlapInv, UNCHANGED <<stations, match>>
  PROVE  /\ Overlap!OverlapIsMatching' /\ Overlap!NamesFirst'
         /\ \A p \in Person : /\ Overlap!Mine(p)' = Overlap!Mine(p)
                              /\ Overlap!Theirs(p)' = Overlap!Theirs(p)
                              /\ Overlap!Stops(p)' = Overlap!Stops(p)
         /\ \A p \in Person : \A i : /\ Settled(p, i)' = Settled(p, i)
                                     /\ Overlap!Order(p, i)' = Overlap!Order(p, i)
<1>1. /\ \A p \in Person : /\ Overlap!Mine(p)' = Overlap!Mine(p)
                           /\ Overlap!Theirs(p)' = Overlap!Theirs(p)
                           /\ Overlap!Stops(p)' = Overlap!Stops(p)
      /\ \A p, i, j : /\ Overlap!Alike(p, i, j)' = Overlap!Alike(p, i, j)
                      /\ Overlap!SameName(p, i, j)' = Overlap!SameName(p, i, j)
  BY DEF Overlap!Mine, Overlap!Theirs, Overlap!Stops, Overlap!Alike, Overlap!SameName,
         Overlap!Close
<1>2. Overlap!OverlapIsMatching' /\ Overlap!NamesFirst'
  BY <1>1 DEF OverlapInv, Overlap!OverlapIsMatching, Overlap!NamesFirst
<1>3. \A p \in Person : \A i : /\ Settled(p, i)' = Settled(p, i)
                               /\ Overlap!Order(p, i)' = Overlap!Order(p, i)
  BY <1>1 DEF Settled, Taken, Overlap!Order
<1> QED
  BY <1>1, <1>2, <1>3

LEMMA OverlapNext == OverlapInv /\ [Overlap!Next]_(Overlap!vars) => OverlapInv'
<1> SUFFICES ASSUME OverlapInv, [Overlap!Next]_(Overlap!vars) PROVE OverlapInv'
  OBVIOUS
<1>1. ASSUME NEW p \in Person, Overlap!MatchByName(p) PROVE OverlapInv'
  <2>1. PICK j \in Overlap!Namesakes(p, index[p]) : match' = [match EXCEPT ![p][index[p]] = j]
    BY <1>1 DEF Overlap!MatchByName
  <2>2. /\ Overlap!InLoop(p, "overlap") /\ Overlap!Advance(p) /\ UNCHANGED meetup
    BY <1>1 DEF Overlap!MatchByName
  <2>3. /\ j \in Overlap!Free(p) /\ Overlap!SameName(p, index[p], j)
        /\ Overlap!Alike(p, index[p], j)
        /\ j \in 1 .. Len(Overlap!Theirs(p)) /\ Len(Overlap!Theirs(p)) \in Nat
    BY Lengths DEF Overlap!Namesakes, Overlap!Free, Overlap!Alike, OverlapInv
  <2>4. j \in 0 .. Len(Overlap!Theirs(p)) /\ j # 0
    BY <2>3
  <2> QED
    BY <2>1, <2>2, <2>3, <2>4, OverlapStep
<1>2. ASSUME NEW p \in Person, Overlap!MatchByPlace(p) PROVE OverlapInv'
  <2>1. PICK j \in Overlap!Neighbours(p, index[p]) :
             match' = [match EXCEPT ![p][index[p]] = j]
    BY <1>2 DEF Overlap!MatchByPlace
  <2>2. /\ Overlap!InLoop(p, "overlap") /\ Overlap!Advance(p) /\ UNCHANGED meetup
        /\ Overlap!Namesakes(p, index[p]) = {}
    BY <1>2 DEF Overlap!MatchByPlace
  <2>3. /\ j \in Overlap!Free(p) /\ Overlap!Alike(p, index[p], j)
        /\ j \in 1 .. Len(Overlap!Theirs(p)) /\ Len(Overlap!Theirs(p)) \in Nat
    BY Lengths DEF Overlap!Neighbours, Overlap!Free, Overlap!Alike, OverlapInv
  <2>4. j \in 0 .. Len(Overlap!Theirs(p)) /\ j # 0
    BY <2>3
  <2> QED
    BY <2>1, <2>2, <2>3, <2>4, OverlapStep
<1>3. ASSUME NEW p \in Person, Overlap!NoMatch(p) PROVE OverlapInv'
  <2>1. /\ Overlap!InLoop(p, "overlap") /\ Overlap!Advance(p) /\ match' = match
        /\ UNCHANGED meetup
        /\ Overlap!Namesakes(p, index[p]) = {} /\ Overlap!Neighbours(p, index[p]) = {}
    BY <1>3 DEF Overlap!NoMatch
  <2>2. match[p][index[p]] = 0 /\ index[p] \in Overlap!Stops(p)
    BY <2>1, Lengths DEF OverlapInv, Progress, Overlap!InLoop
  <2>3. match = [match EXCEPT ![p][index[p]] = 0]
    BY <2>2 DEF OverlapInv, Overlap!TypeOK
  <2>4. 0 \in 0 .. Len(Overlap!Theirs(p))
    BY Lengths DEF OverlapInv
  <2> QED
    BY <2>1, <2>3, <2>4, OverlapStep
<1>4. ASSUME NEW p \in Person, Overlap!StartReduce(p) PROVE OverlapInv'
  <2>1. /\ loop[p] = "overlap" /\ index[p] \notin Overlap!Stops(p)
        /\ loop' = [loop EXCEPT ![p] = "meetup"] /\ index' = [index EXCEPT ![p] = 1]
        /\ UNCHANGED <<stations, match, meetup>>
    BY <1>4 DEF Overlap!StartReduce
  <2>2. /\ Overlap!OverlapIsMatching' /\ Overlap!NamesFirst'
        /\ \A q \in Person : /\ Overlap!Mine(q)' = Overlap!Mine(q)
                             /\ Overlap!Theirs(q)' = Overlap!Theirs(q)
                             /\ Overlap!Stops(q)' = Overlap!Stops(q)
        /\ \A q \in Person : \A i : /\ Settled(q, i)' = Settled(q, i)
                                    /\ Overlap!Order(q, i)' = Overlap!Order(q, i)
    BY <2>1, KeepsMatching
  <2>3. /\ Len(Overlap!Mine(p)) \in Nat /\ index[p] \in 1 .. Len(Overlap!Mine(p)) + 1
        /\ index[p] \notin 1 .. Len(Overlap!Mine(p))
        /\ Overlap!Stops(p) = 1 .. Len(Overlap!Mine(p))
    BY <2>1, Lengths DEF OverlapInv, Overlap!TypeOK
  <2>4. Overlap!TypeOK'
    BY <2>1, <2>2, <2>3 DEF OverlapInv, Overlap!TypeOK
  <2>5. \A i \in Overlap!Stops(p) : Settled(p, i)
    BY <2>1, <2>3 DEF OverlapInv, Progress
  <2>6. \A q \in Person : Progress(q)'
    BY <2>1, <2>2, <2>5 DEF OverlapInv, Progress, Overlap!TypeOK
  <2>7. loop'[p] = "meetup" /\ index'[p] = 1 /\ meetup[p] = 0
    BY <2>1 DEF OverlapInv, Overlap!TypeOK, Progress
  <2>8. Best(p, 1)'
    BY <2>1, <2>2, <2>3, <2>7 DEF Best
  <2>9. \A q \in Person : \A n : q # p => Best(q, n)' = Best(q, n)
    BY <2>1, <2>2 DEF Best
  <2>10. \A q \in Person : q # p => loop'[q] = loop[q] /\ index'[q] = index[q]
    BY <2>1 DEF OverlapInv, Overlap!TypeOK
  <2> QED
    BY <2>2, <2>4, <2>6, <2>7, <2>8, <2>9, <2>10 DEF OverlapInv
<1>5. ASSUME NEW p \in Person, Overlap!Compare(p) PROVE OverlapInv'
  <2>0. PICK n \in Nat : n = index[p]
    BY Lengths DEF OverlapInv
  <2>1. /\ loop[p] = "meetup" /\ n \in Overlap!Stops(p)
        /\ meetup' = [meetup EXCEPT ![p] = IF Overlap!Better(p, n) THEN n ELSE meetup[p]]
        /\ index' = [index EXCEPT ![p] = n + 1]
        /\ UNCHANGED <<stations, match, loop>>
    BY <1>5, <2>0 DEF Overlap!Compare, Overlap!InLoop, Overlap!Advance
  <2>2. /\ Overlap!OverlapIsMatching' /\ Overlap!NamesFirst'
        /\ \A q \in Person : /\ Overlap!Mine(q)' = Overlap!Mine(q)
                             /\ Overlap!Theirs(q)' = Overlap!Theirs(q)
                             /\ Overlap!Stops(q)' = Overlap!Stops(q)
        /\ \A q \in Person : \A k : /\ Settled(q, k)' = Settled(q, k)
                                    /\ Overlap!Order(q, k)' = Overlap!Order(q, k)
    BY <2>1, KeepsMatching
  <2>3. /\ Len(Overlap!Mine(p)) \in Nat /\ Overlap!Stops(p) = 1 .. Len(Overlap!Mine(p))
        /\ n \in 1 .. Len(Overlap!Mine(p))
        /\ n \in Nat /\ meetup[p] \in 0 .. Len(Overlap!Mine(p))
        /\ index'[p] = n + 1 /\ meetup'[p] = IF Overlap!Better(p, n) THEN n ELSE meetup[p]
    BY <2>1, Lengths DEF OverlapInv, Overlap!TypeOK
  <2>4. Overlap!TypeOK'
    BY <2>1, <2>2, <2>3 DEF OverlapInv, Overlap!TypeOK
  <2>5. \A q \in Person : q # p => index'[q] = index[q] /\ meetup'[q] = meetup[q]
    BY <2>1 DEF OverlapInv, Overlap!TypeOK
  <2>6. ASSUME NEW q \in Person PROVE Progress(q)'
    <3>1. Progress(q)
      BY DEF OverlapInv
    <3>2. CASE q = p
      BY <3>1, <3>2, <2>1, <2>2 DEF Progress
    <3>3. CASE q # p
      BY <3>1, <3>3, <2>1, <2>2, <2>5 DEF Progress
    <3> QED
      BY <3>2, <3>3
  <2>7. ASSUME NEW k \in Overlap!Stops(p)
        PROVE  Overlap!Order(p, k) \in Nat /\ match[p][k] \in Nat
    <3>1. match[p][k] \in Nat
      BY <2>3, Lengths DEF OverlapInv, Overlap!TypeOK
    <3>2. k \in Nat
      BY <2>3
    <3> QED  BY <3>1, <3>2 DEF Overlap!Order
  <2>8. Best(p, n)
    BY <2>0, <2>1 DEF OverlapInv
  <2>9. Best(p, n + 1)'
    <3>1. CASE Overlap!Better(p, n)
      <4>1. meetup'[p] = n /\ match[p][n] # 0 /\ n # 0
        BY <3>1, <2>3 DEF Overlap!Better
      <4>2. ASSUME NEW k \in Overlap!Stops(p), k < n + 1, match[p][k] # 0
            PROVE  \/ Overlap!Order(p, n) < Overlap!Order(p, k)
                   \/ Overlap!Order(p, n) = Overlap!Order(p, k) /\ n <= k
        <5>1. CASE k = n
          BY <5>1, <2>3, <2>7
        <5>2. CASE k # n
          <6>1. k < n /\ k \in Nat
            BY <5>2, <4>2, <2>3
          <6>2. /\ meetup[p] # 0 /\ Overlap!Order(p, n) < Overlap!Order(p, meetup[p])
                /\ meetup[p] \in Overlap!Stops(p)
            BY <6>1, <4>2, <3>1, <2>3, <2>8 DEF Overlap!Better, Best
          <6>3. \/ Overlap!Order(p, meetup[p]) < Overlap!Order(p, k)
                \/ Overlap!Order(p, meetup[p]) = Overlap!Order(p, k)
            BY <6>1, <6>2, <4>2, <2>8 DEF Best
          <6>4. /\ Overlap!Order(p, n) \in Nat /\ Overlap!Order(p, meetup[p]) \in Nat
                /\ Overlap!Order(p, k) \in Nat
            BY <6>2, <2>1, <2>7
          <6> QED
            BY <6>2, <6>3, <6>4
        <5> QED
          BY <5>1, <5>2
      <4> QED
        BY <4>1, <4>2, <2>1, <2>2, <2>3 DEF Best
    <3>2. CASE ~Overlap!Better(p, n)
      <4>1. meetup'[p] = meetup[p]
        BY <3>2, <2>3
      <4>2. CASE meetup[p] = 0
        <5>1. match[p][n] = 0
          BY <4>2, <3>2 DEF Overlap!Better
        <5>2. \A k \in Overlap!Stops(p) : k < n + 1 => match[p][k] = 0
          BY <5>1, <4>2, <2>3, <2>8 DEF Best
        <5> QED
          BY <5>2, <4>1, <4>2, <2>1, <2>2 DEF Best
      <4>3. CASE meetup[p] # 0
        <5>1. meetup[p] < n /\ match[p][meetup[p]] # 0 /\ meetup[p] \in Overlap!Stops(p)
          BY <4>3, <2>3, <2>8 DEF Best
        <5>2. match[p][n] # 0 => Overlap!Order(p, meetup[p]) <= Overlap!Order(p, n)
          <6>1. match[p][n] # 0 => ~(Overlap!Order(p, n) < Overlap!Order(p, meetup[p]))
            BY <4>3, <3>2 DEF Overlap!Better
          <6>2. Overlap!Order(p, n) \in Nat /\ Overlap!Order(p, meetup[p]) \in Nat
            BY <5>1, <2>1, <2>7
          <6> QED
            BY <6>1, <6>2
        <5>3. ASSUME NEW k \in Overlap!Stops(p), k < n + 1, match[p][k] # 0
              PROVE  \/ Overlap!Order(p, meetup[p]) < Overlap!Order(p, k)
                     \/ Overlap!Order(p, meetup[p]) = Overlap!Order(p, k) /\ meetup[p] <= k
          <6>1. CASE k = n
            BY <6>1, <5>1, <5>2, <5>3, <2>3, <2>7
          <6>2. CASE k # n
            BY <6>2, <5>3, <4>3, <2>3, <2>8 DEF Best
          <6> QED
            BY <6>1, <6>2
        <5>4. meetup[p] < n + 1
          BY <5>1, <2>3
        <5> QED
          BY <5>1, <5>3, <5>4, <4>1, <4>3, <2>1, <2>2 DEF Best
      <4> QED
        BY <4>2, <4>3
    <3> QED
      BY <3>1, <3>2
  <2>10. ASSUME NEW q \in Person, NEW l, q # p PROVE Best(q, l)' = Best(q, l)
    <3>1. meetup'[q] = meetup[q] /\ match' = match /\ Overlap!Stops(q)' = Overlap!Stops(q)
      BY <2>1, <2>2, <2>5, <2>10
    <3>2. \A k : Overlap!Order(q, k)' = Overlap!Order(q, k)
      BY <2>2
    <3> QED
      BY <3>1, <3>2 DEF Best
  <2>11. \A q \in Person : loop'[q] = "meetup" => Best(q, index[q])'
    BY <2>1, <2>3, <2>5, <2>9, <2>10 DEF OverlapInv
  <2>12. \A q \in Person : loop'[q] = "done" => Best(q, Len(Overlap!Mine(q)) + 1)'
    BY <2>1, <2>2, <2>10 DEF OverlapInv
  <2> QED
    BY <2>2, <2>4, <2>6, <2>11, <2>12 DEF OverlapInv
<1>6. ASSUME NEW p \in Person, Overlap!Finish(p) PROVE OverlapInv'
  <2>1. /\ loop[p] = "meetup" /\ index[p] \notin Overlap!Stops(p)
        /\ loop' = [loop EXCEPT ![p] = "done"]
        /\ UNCHANGED <<stations, match, index, meetup>>
    BY <1>6 DEF Overlap!Finish
  <2>2. /\ Overlap!OverlapIsMatching' /\ Overlap!NamesFirst'
        /\ \A q \in Person : /\ Overlap!Mine(q)' = Overlap!Mine(q)
                             /\ Overlap!Theirs(q)' = Overlap!Theirs(q)
                             /\ Overlap!Stops(q)' = Overlap!Stops(q)
        /\ \A q \in Person : \A i : /\ Settled(q, i)' = Settled(q, i)
                                    /\ Overlap!Order(q, i)' = Overlap!Order(q, i)
    BY <2>1, KeepsMatching
  <2>3. index[p] = Len(Overlap!Mine(p)) + 1
    BY <2>1, Lengths DEF OverlapInv, Overlap!TypeOK
  <2>4. Overlap!TypeOK'
    BY <2>1, <2>2 DEF OverlapInv, Overlap!TypeOK
  <2>5. \A q \in Person : Progress(q)'
    BY <2>1, <2>2 DEF OverlapInv, Progress, Overlap!TypeOK
  <2>6. \A q \in Person : \A n : Best(q, n)' = Best(q, n)
    BY <2>1, <2>2 DEF Best
  <2>7. \A q \in Person : q # p => loop'[q] = loop[q]
    BY <2>1 DEF OverlapInv, Overlap!TypeOK
  <2>8. Best(p, Len(Overlap!Mine(p)) + 1)'
    BY <2>1, <2>2, <2>3, <2>6 DEF OverlapInv
  <2> QED
    BY <2>1, <2>2, <2>4, <2>5, <2>6, <2>7, <2>8 DEF OverlapInv, Overlap!TypeOK
<1>7. CASE UNCHANGED Overlap!vars
  <2>1. UNCHANGED <<stations, match, loop, index, meetup>>
    BY <1>7 DEF Overlap!vars
  <2>2. /\ Overlap!OverlapIsMatching' /\ Overlap!NamesFirst'
        /\ \A q \in Person : /\ Overlap!Mine(q)' = Overlap!Mine(q)
                             /\ Overlap!Theirs(q)' = Overlap!Theirs(q)
                             /\ Overlap!Stops(q)' = Overlap!Stops(q)
        /\ \A q \in Person : \A i : /\ Settled(q, i)' = Settled(q, i)
                                    /\ Overlap!Order(q, i)' = Overlap!Order(q, i)
    BY <2>1, KeepsMatching
  <2> QED
    BY <2>1, <2>2 DEF OverlapInv, Overlap!TypeOK, Progress, Best
<1> QED
  BY <1>1, <1>2, <1>3, <1>4, <1>5, <1>6, <1>7 DEF Overlap!Next

LEMMA Maximal == OverlapInv => Overlap!OverlapIsMaximal
BY DEF OverlapInv, Progress, Settled, Taken, Overlap!OverlapIsMaximal

LEMMA Soonest == OverlapInv => Overlap!MeetupIsSoonest
<1> SUFFICES ASSUME OverlapInv, NEW p \in Person, loop[p] = "done"
             PROVE  /\ meetup[p] = 0 => \A i \in Overlap!Stops(p) : match[p][i] = 0
                    /\ meetup[p] # 0 =>
                         /\ match[p][meetup[p]] # 0
                         /\ \A i \in Overlap!Stops(p) : match[p][i] # 0 =>
                              \/ Overlap!Order(p, meetup[p]) < Overlap!Order(p, i)
                              \/ /\ Overlap!Order(p, meetup[p]) = Overlap!Order(p, i)
                                 /\ meetup[p] <= i
  BY DEF Overlap!MeetupIsSoonest
<1>1. Best(p, Len(Overlap!Mine(p)) + 1)
  BY DEF OverlapInv
<1>2. \A i \in Overlap!Stops(p) : i < Len(Overlap!Mine(p)) + 1
  BY Lengths DEF OverlapInv
<1> QED
  BY <1>1, <1>2 DEF Best

LEMMA SoonestThen == Overlap!MeetupIsSoonest => MeetupIsSoonest
BY DEF Overlap!MeetupIsSoonest, MeetupIsSoonest, Overlap!Stops, Stops, Overlap!Mine, Mine,
       Overlap!Order, Order

\* The two analyses of a couple agree on whether there is a meetup: the pairs
\* of the one are alike for the other, whose overlap is maximal.
LEMMA Agreement == OverlapInv => AgreeToMeet
<1>1. ASSUME OverlapInv, NEW p \in Person, NEW q \in Person,
             loop[p] = "done", loop[q] = "done", meetup[p] # 0
      PROVE  meetup[q] # 0
  <2>1. CASE q = p
    BY <2>1, <1>1
  <2>2. CASE q # p
    <3>1. /\ q = Overlap!Partner(p) /\ p = Overlap!Partner(q)
          /\ Overlap!Mine(q) = Overlap!Theirs(p) /\ Overlap!Theirs(q) = Overlap!Mine(p)
      BY <2>2, PartnerFacts DEF Overlap!Mine, Overlap!Theirs
    <3> DEFINE i == meetup[p]
               j == match[p][i]
    <3>2. i \in Overlap!Stops(p) /\ Len(Overlap!Mine(p)) \in Nat
      BY <1>1, Lengths DEF OverlapInv, Overlap!TypeOK
    <3>3. j # 0 /\ j \in 1 .. Len(Overlap!Theirs(p)) /\ Overlap!Alike(p, i, j)
      <4>1. j # 0
        BY <1>1, Soonest DEF Overlap!MeetupIsSoonest
      <4>2. j \in 0 .. Len(Overlap!Theirs(p)) /\ Len(Overlap!Theirs(p)) \in Nat
        BY <1>1, <3>2, Lengths DEF OverlapInv, Overlap!TypeOK
      <4>3. Overlap!Alike(p, i, j)
        BY <1>1, <3>2, <4>1 DEF OverlapInv, Overlap!OverlapIsMatching
      <4> QED
        BY <4>1, <4>2, <4>3
    <3>4. j \in Overlap!Stops(q) /\ i \in 1 .. Len(Overlap!Theirs(q))
      BY <3>1, <3>2, <3>3, Lengths, <1>1 DEF Overlap!Stops, OverlapInv
    <3>5. Overlap!Mine(p)[i].at \in Place /\ Overlap!Theirs(p)[j].at \in Place
      <4>1. /\ Overlap!Mine(p) \in Seq(Overlap!Station)
            /\ Overlap!Theirs(p) \in Seq(Overlap!Station)
        BY <1>1, PartnerFacts DEF OverlapInv, Overlap!TypeOK, Overlap!Mine, Overlap!Theirs
      <4>2. Overlap!Mine(p)[i] \in Overlap!Station /\ Overlap!Theirs(p)[j] \in Overlap!Station
        BY <4>1, <3>2, <3>3 DEF Overlap!Stops
      <4> QED
        BY <4>2 DEF Overlap!Station
    <3>6. Overlap!Alike(q, j, i)
      BY <3>1, <3>3, <3>5, OverlapAssumption DEF Overlap!Alike, Overlap!SameName,
                                                 Overlap!Close
    <3>7. match[q][j] # 0 \/ \E k \in Overlap!Stops(q) : match[q][k] = i
      BY <1>1, <3>4, <3>6, Maximal DEF Overlap!OverlapIsMaximal
    <3>8. \E k \in Overlap!Stops(q) : match[q][k] # 0
      BY <3>2, <3>4, <3>7 DEF Overlap!Stops
    <3> QED
      BY <1>1, <3>8, Soonest DEF Overlap!MeetupIsSoonest
  <2> QED
    BY <2>1, <2>2
<1> QED
  BY <1>1 DEF AgreeToMeet

-----------------------------------------------------------------------------
\* The keys of the chat
\* A process runs with keys, and as long as no edit has taken them away they are
\* those that a process started now would run with.
RunningKnows ==
  up => /\ ring[active] # Unset
        /\ \A v \in Keys!Version :
             /\ ring[v] # Malformed
             /\ v \notin lost /\ ring[v] # Unset => Keys!Ring[v] = ring[v]

\* Message i opens with what the environment has, and with what the process has
\* taken from it.
Readable(i) ==
  LET m == db[i]
  IN  /\ Keys!Ring[m.version] = m.key
      /\ up => ring[m.version] = m.key

KeysInv ==
  /\ Keys!TypeOK
  /\ Keys!SealedWithAKey
  /\ RunningKnows
  /\ \A i \in DOMAIN db : db[i].version \notin lost => Readable(i)
  /\ Keys!PageFailsForLostKeyOnly

LEMMA RingType ==
  ASSUME Keys!TypeOK
  PROVE  Keys!Ring \in [Keys!Version -> Keys!Entry] /\ Keys!ActiveVersion \in Keys!Version
<1>1. 1 \in Keys!Version
  BY KeyRingAssumption DEF Keys!Version
<1>2. Keys!ActiveVersion \in Keys!Version
  BY <1>1 DEF Keys!TypeOK, Keys!ActiveVersion
<1>3. Unset \in Keys!Entry
  BY DEF Keys!Entry
<1> QED
  BY <1>2, <1>3 DEF Keys!TypeOK, Keys!Ring

LEMMA KeysInit == Keys!Init => KeysInv
<1> SUFFICES ASSUME Keys!Init PROVE KeysInv
  OBVIOUS
<1>1. 1 \in Keys!Version /\ Unset \in Keys!Entry
  BY KeyRingAssumption DEF Keys!Version, Keys!Entry
<1>2. db = << >> /\ DOMAIN db = {}
  BY DEF Keys!Init
<1>3. Keys!TypeOK
  <2>1. list \in {Unset} \cup [Keys!Version -> Keys!Entry] /\ legacy \in Keys!Entry
        /\ chosen \in Keys!Version \cup {Unset}
    BY DEF Keys!Init
  <2>2. ring \in [Keys!Version -> Keys!Entry] /\ active \in Keys!Version
    BY <1>1 DEF Keys!Init
  <2>3. db \in Seq([version : Keys!Version, key : Keys!Entry])
    BY <1>2
  <2>4. up \in BOOLEAN /\ failed \in BOOLEAN /\ lost \subseteq Keys!Version
    BY DEF Keys!Init
  <2> QED
    BY <2>1, <2>2, <2>3, <2>4 DEF Keys!TypeOK
<1> QED
  BY <1>2, <1>3 DEF Keys!Init, KeysInv, Keys!SealedWithAKey, RunningKnows,
                    Keys!PageFailsForLostKeyOnly

\* The variables that an operator edits.
environment == <<list, legacy, chosen>>

\* Without an edit the environment has the same keys.
LEMMA SameRing ==
  ASSUME UNCHANGED environment
  PROVE  Keys!Ring' = Keys!Ring /\ Keys!ActiveVersion' = Keys!ActiveVersion
BY DEF environment, Keys!Ring, Keys!ActiveVersion

LEMMA EditKeeps ==
  ASSUME KeysInv, Keys!Edit
  PROVE  KeysInv'
<1>1. /\ UNCHANGED <<up, ring, active, db, failed>>
      /\ lost' = lost \cup Keys!TakenAway
  BY DEF Keys!Edit
<1>2. Keys!TypeOK'
  <2>1. Unset \in Keys!Entry
    BY DEF Keys!Entry
  <2>2. list' \in {Unset} \cup [Keys!Version -> Keys!Entry]
    <3>1. ASSUME NEW v \in Keys!Version, NEW e \in Keys!Entry, list # Unset,
                 list' = [list EXCEPT ![v] = e]
          PROVE  list' \in [Keys!Version -> Keys!Entry]
      BY <3>1 DEF KeysInv, Keys!TypeOK
    <3>2. ASSUME NEW v \in Keys!Version, NEW k \in Key,
                 list' = [w \in Keys!Version |-> IF w = v THEN k ELSE Unset]
          PROVE  list' \in [Keys!Version -> Keys!Entry]
      BY <3>2, <2>1 DEF Keys!Entry
    <3> QED
      BY <3>1, <3>2 DEF Keys!Edit, KeysInv, Keys!TypeOK
  <2>3. legacy' \in Keys!Entry /\ chosen' \in Keys!Version \cup {Unset}
    BY DEF Keys!Edit, KeysInv, Keys!TypeOK
  <2>4. lost' \subseteq Keys!Version
    BY <1>1 DEF KeysInv, Keys!TypeOK, Keys!TakenAway
  <2> QED
    BY <1>1, <2>2, <2>3, <2>4 DEF KeysInv, Keys!TypeOK
<1>3. \A v \in Keys!Version :
        v \notin lost' => /\ v \notin lost
                          /\ Keys!Ring[v] # Unset => Keys!Ring'[v] = Keys!Ring[v]
  BY <1>1 DEF Keys!TakenAway
<1>4. RunningKnows'
  BY <1>1, <1>3 DEF KeysInv, RunningKnows
<1>5. ASSUME NEW i \in DOMAIN db, db[i].version \notin lost'
      PROVE  Readable(i)'
  <2>1. db[i].version \in Keys!Version /\ db[i].key \in Key
    <3> DEFINE Message == [version : Keys!Version, key : Keys!Entry]
    <3>1. db \in Seq(Message)
      BY DEF KeysInv, Keys!TypeOK
    <3>2. db[i] \in Message
      <4> HIDE DEF Message
      <4> QED
        BY <3>1
    <3> QED
      BY <3>2 DEF KeysInv, Keys!SealedWithAKey
  <2>2. Readable(i)
    BY <1>3, <1>5, <2>1 DEF KeysInv
  <2>3. Keys!Ring[db[i].version] # Unset
    BY <2>1, <2>2, KeyRingAssumption DEF Readable
  <2> QED
    BY <1>1, <1>3, <1>5, <2>1, <2>2, <2>3 DEF Readable
<1> QED
  BY <1>1, <1>2, <1>4, <1>5 DEF KeysInv, Keys!SealedWithAKey, Keys!PageFailsForLostKeyOnly

LEMMA StartKeeps ==
  ASSUME KeysInv, Keys!Start
  PROVE  KeysInv'
<1>1. /\ Keys!Startable /\ up' = TRUE /\ ring' = Keys!Ring /\ active' = Keys!ActiveVersion
      /\ UNCHANGED <<list, legacy, chosen, db, failed, lost>>
  BY DEF Keys!Start
<1>2. /\ Keys!Ring' = Keys!Ring /\ Keys!Ring \in [Keys!Version -> Keys!Entry]
      /\ Keys!ActiveVersion \in Keys!Version
  BY <1>1, SameRing, RingType DEF KeysInv, environment
<1>3. Keys!TypeOK'
  BY <1>1, <1>2 DEF KeysInv, Keys!TypeOK
<1>4. RunningKnows'
  BY <1>1, <1>2 DEF RunningKnows, Keys!Startable, Keys!Decodes
<1>5. \A i \in DOMAIN db : db[i].version \notin lost => Readable(i)'
  BY <1>1, <1>2 DEF KeysInv, Readable
<1> QED
  BY <1>1, <1>3, <1>4, <1>5 DEF KeysInv, Keys!SealedWithAKey, Keys!PageFailsForLostKeyOnly

LEMMA StopKeeps ==
  ASSUME KeysInv, Keys!Stop
  PROVE  KeysInv'
<1>1. /\ up' = FALSE /\ failed' = FALSE
      /\ UNCHANGED <<list, legacy, chosen, ring, active, db, lost>>
  BY DEF Keys!Stop
<1>2. Keys!Ring' = Keys!Ring
  BY <1>1, SameRing DEF environment
<1> QED
  BY <1>1, <1>2 DEF KeysInv, Keys!TypeOK, Keys!SealedWithAKey, RunningKnows, Readable,
                    Keys!PageFailsForLostKeyOnly

LEMMA CreateKeeps ==
  ASSUME KeysInv, Keys!Create
  PROVE  KeysInv'
<1> DEFINE m == [version |-> active, key |-> ring[active]]
<1>1. /\ up /\ db' = Append(db, m)
      /\ UNCHANGED <<list, legacy, chosen, up, ring, active, failed, lost>>
  BY DEF Keys!Create
<1>2. Keys!Ring' = Keys!Ring
  BY <1>1, SameRing DEF environment
<1>3. active \in Keys!Version /\ ring[active] \in Key
  BY <1>1 DEF KeysInv, Keys!TypeOK, RunningKnows, Keys!Entry
<1>4. m \in [version : Keys!Version, key : Keys!Entry]
  BY <1>3 DEF Keys!Entry
<1>5. /\ db' \in Seq([version : Keys!Version, key : Keys!Entry])
      /\ DOMAIN db' = DOMAIN db \cup {Len(db) + 1}
      /\ \A i \in DOMAIN db : db'[i] = db[i]
      /\ db'[Len(db) + 1] = m
  BY <1>1, <1>4 DEF KeysInv, Keys!TypeOK
<1>6. Keys!TypeOK'
  BY <1>1, <1>5 DEF KeysInv, Keys!TypeOK
<1>7. Keys!SealedWithAKey'
  BY <1>3, <1>5 DEF KeysInv, Keys!SealedWithAKey
<1>8. RunningKnows'
  BY <1>1, <1>2 DEF KeysInv, RunningKnows
<1>9. ASSUME NEW i \in DOMAIN db', db'[i].version \notin lost
      PROVE  Readable(i)'
  <2>1. CASE i \in DOMAIN db
    BY <1>1, <1>2, <1>5, <1>9, <2>1 DEF KeysInv, Readable
  <2>2. CASE i = Len(db) + 1
    <3>1. Keys!Ring[active] = ring[active]
      BY <1>1, <1>3, <1>5, <1>9, <2>2 DEF KeysInv, RunningKnows
    <3> QED
      BY <1>1, <1>2, <1>5, <2>2, <3>1 DEF Readable
  <2> QED
    BY <1>5, <1>9, <2>1, <2>2
<1>10. Keys!PageFailsForLostKeyOnly'
  BY <1>1, <1>5 DEF KeysInv, Keys!PageFailsForLostKeyOnly
<1> QED
  BY <1>1, <1>6, <1>7, <1>8, <1>9, <1>10 DEF KeysInv

LEMMA FetchKeeps ==
  ASSUME KeysInv, NEW i \in DOMAIN db, NEW j \in DOMAIN db, Keys!Fetch(i, j)
  PROVE  KeysInv'
<1>1. /\ up /\ failed' = \E k \in i .. j : ~Keys!Opens(db[k])
      /\ UNCHANGED <<list, legacy, chosen, up, ring, active, db, lost>>
  BY DEF Keys!Fetch
<1>2. Keys!Ring' = Keys!Ring
  BY <1>1, SameRing DEF environment
<1>3. i .. j \subseteq DOMAIN db
  BY DEF KeysInv, Keys!TypeOK
<1>4. Keys!PageFailsForLostKeyOnly'
  <2> SUFFICES ASSUME failed' PROVE \E k \in DOMAIN db : db[k].version \in lost
    BY <1>1 DEF Keys!PageFailsForLostKeyOnly
  <2>1. PICK k \in i .. j : ~Keys!Opens(db[k])
    BY <1>1
  <2>2. k \in DOMAIN db /\ ~Readable(k)
    BY <1>1, <1>3, <2>1 DEF Keys!Opens, Readable
  <2> QED
    BY <2>2 DEF KeysInv
<1>5. failed' \in BOOLEAN
  BY <1>1
<1> QED
  BY <1>1, <1>2, <1>4, <1>5 DEF KeysInv, Keys!TypeOK, Keys!SealedWithAKey, RunningKnows,
                                Readable

LEMMA KeysNext == KeysInv /\ [Keys!Next]_(Keys!vars) => KeysInv'
<1> SUFFICES ASSUME KeysInv, [Keys!Next]_(Keys!vars) PROVE KeysInv'
  OBVIOUS
<1>1. CASE UNCHANGED Keys!vars
  <2>1. Keys!Ring' = Keys!Ring
    BY <1>1, SameRing DEF environment, Keys!vars
  <2> QED
    BY <1>1, <2>1 DEF Keys!vars, KeysInv, Keys!TypeOK, Keys!SealedWithAKey, RunningKnows,
                      Readable, Keys!PageFailsForLostKeyOnly
<1> QED
  BY <1>1, EditKeeps, StartKeeps, StopKeeps, CreateKeeps, FetchKeeps DEF Keys!Next

-----------------------------------------------------------------------------
\* The search: what waits for the timer, or is on its way without having been
\* aborted, is the last keyword.
SearchInv ==
  /\ Search!TypeOK /\ Search!FoundForLatest /\ Search!SpinnerEnds
  /\ timer \in {None, latest}
  /\ live \subseteq {latest} \ {None}

LEMMA SearchBounds == MaxAborted \in Nat /\ None \notin Keyword
BY PartsAssumption

LEMMA SearchInit == Search!Init => SearchInv
<1> SUFFICES ASSUME Search!Init PROVE SearchInv
  OBVIOUS
<1>1. isOpen \in BOOLEAN /\ searching \in BOOLEAN
  BY DEF Search!Init
<1>2. live \subseteq Keyword /\ aborted \in 0 .. MaxAborted
  BY SearchBounds DEF Search!Init
<1>3. Search!TypeOK
  BY <1>1, <1>2 DEF Search!Init, Search!TypeOK, Search!Keywords
<1>4. Search!FoundForLatest /\ Search!SpinnerEnds
  BY DEF Search!Init, Search!FoundForLatest, Search!SpinnerEnds
<1>5. timer \in {None, latest} /\ live \subseteq {latest} \ {None}
  BY DEF Search!Init
<1> QED  BY <1>3, <1>4, <1>5 DEF SearchInv

LEMMA SearchNext ==
  ASSUME SearchInv, Search!Next
  PROVE  SearchInv'
<1> USE SearchBounds
    DEF SearchInv, Search!TypeOK, Search!FoundForLatest, Search!SpinnerEnds, Search!Keywords
<1>1. ASSUME NEW k \in Keyword, Search!Type(k) PROVE SearchInv'
  BY <1>1 DEF Search!Type, Search!Search, Search!Abort
<1>2. ASSUME NEW k \in Keyword, Search!Answer(k) PROVE SearchInv'
  BY <1>2, Zenon DEF Search!Answer, Search!SearchPoi, Search!Abort
<1>3. CASE Search!Erase \/ Search!Select
  <2>1. (isOpen \in BOOLEAN /\ searching \in BOOLEAN)'
    BY <1>3 DEF Search!Erase, Search!Select, Search!Clear
  <2>2. (live = {} /\ aborted \in 0 .. MaxAborted)'
    BY <1>3 DEF Search!Erase, Search!Select, Search!Clear, Search!Abort
  <2>3. ~searching' /\ timer' = None /\ results' = None /\ latest' = None
    BY <1>3 DEF Search!Erase, Search!Select, Search!Clear
  <2>4. (inputValue \in Search!Keywords /\ value \in Search!Keywords)'
    BY <1>3 DEF Search!Erase, Search!Select
  <2> QED  BY <2>1, <2>2, <2>3, <2>4
<1>4. CASE Search!ClickOutside
  BY <1>4 DEF Search!ClickOutside
<1>5. CASE Search!TimerFires
  BY <1>5 DEF Search!TimerFires
<1>6. CASE Search!Rejected
  <2>1. /\ searching' = FALSE /\ aborted' \in 0 .. MaxAborted
        /\ UNCHANGED <<inputValue, isOpen, value, timer, live, results, latest>>
    BY <1>6 DEF Search!Rejected
  <2> QED  BY <2>1
<1> QED  BY <1>1, <1>2, <1>3, <1>4, <1>5, <1>6 DEF Search!Next

-----------------------------------------------------------------------------
\* The route of an event.  Unless calls have crossed, at most one is under way;
\* the form may be closed or show the event it is for.
AtRest ==
  /\ Route!Idle /\ ~routeLoading
  /\ routeEventId # None => error \/ shownRoute = routeEventId

Asked(e) ==
  /\ routeLoading /\ routeEventId \in {None, e}
  /\ calls = [x \in Event |-> IF x = e THEN 1 ELSE 0]

RouteInv ==
  /\ Route!TypeOK
  /\ Route!SpinnerEnds
  /\ ~crossed => AtRest \/ \E e \in Event : Asked(e)

LEMMA RouteBounds == MaxCalls \in Nat /\ None \notin Event
BY PartsAssumption, TabsAssumption DEF Calendar!NoneIsApart

LEMMA RouteInit == Route!Init => RouteInv
<1> SUFFICES ASSUME Route!Init PROVE RouteInv
  OBVIOUS
<1>1. calls \in [Event -> 0 .. MaxCalls]
  BY RouteBounds DEF Route!Init
<1>2. Route!TypeOK
  BY <1>1 DEF Route!Init, Route!TypeOK
<1>3. Route!SpinnerEnds
  BY DEF Route!Init, Route!SpinnerEnds
<1>4. AtRest
  BY DEF Route!Init, AtRest, Route!Idle
<1> QED  BY <1>2, <1>3, <1>4 DEF RouteInv

\* fetchRoute for e, called while the form shows e.
LEMMA Fetching ==
  ASSUME RouteInv, NEW e \in Event, Route!FetchRoute(e), routeEventId' = e,
         showRouteDetail' \in BOOLEAN
  PROVE  RouteInv'
<1>1. /\ calls[e] \in 0 .. MaxCalls /\ calls[e] < MaxCalls /\ MaxCalls \in Nat
      /\ calls' = [calls EXCEPT ![e] = calls[e] + 1] /\ calls \in [Event -> 0 .. MaxCalls]
      /\ routeLoading' = TRUE /\ error' = FALSE /\ crossed' = ~Route!Idle
      /\ shownRoute' = shownRoute
  BY RouteBounds DEF RouteInv, Route!TypeOK, Route!FetchRoute
<1>2. calls' \in [Event -> 0 .. MaxCalls] /\ calls'[e] # 0
  BY <1>1
<1>3. Route!TypeOK'
  BY <1>1, <1>2 DEF RouteInv, Route!TypeOK
<1>4. Route!SpinnerEnds'
  BY <1>2 DEF Route!SpinnerEnds, Route!Idle
<1>5. CASE Route!Idle
  <2>1. calls' = [x \in Event |-> IF x = e THEN 1 ELSE 0]
    <3>1. \A x \in Event : calls'[x] = IF x = e THEN 1 ELSE 0
      BY <1>1, <1>5 DEF Route!Idle
    <3>2. calls' = [x \in Event |-> calls'[x]]
      BY <1>2
    <3> QED  BY <3>1, <3>2
  <2>2. Asked(e)'
    BY <1>1, <2>1 DEF Asked
  <2> QED  BY <1>3, <1>4, <2>2 DEF RouteInv
<1>6. CASE ~Route!Idle
  BY <1>1, <1>3, <1>4, <1>6 DEF RouteInv
<1> QED  BY <1>5, <1>6

\* A call is answered, well or not; it was the one under way.
LEMMA CallOver ==
  ASSUME RouteInv, NEW e \in Event, Route!Answer(e) \/ Route!Fail(e)
  PROVE  RouteInv'
<1>1. /\ calls[e] > 0 /\ calls' = [calls EXCEPT ![e] = calls[e] - 1]
      /\ routeLoading' = FALSE
      /\ UNCHANGED <<routeEventId, showRouteDetail, crossed>>
      /\ \/ shownRoute' = e /\ error' = error
         \/ shownRoute' = None /\ error' = TRUE
  BY DEF Route!Answer, Route!Fail, Route!Over
<1>2. /\ calls \in [Event -> 0 .. MaxCalls] /\ calls[e] \in 0 .. MaxCalls /\ MaxCalls \in Nat
  BY RouteBounds DEF RouteInv, Route!TypeOK
<1>3. calls' \in [Event -> 0 .. MaxCalls]
  BY <1>1, <1>2
<1>4. Route!TypeOK' /\ Route!SpinnerEnds'
  BY <1>1, <1>3 DEF RouteInv, Route!TypeOK, Route!SpinnerEnds
<1>5. ASSUME ~crossed PROVE AtRest'
  <2>1. PICK f \in Event : Asked(f)
    BY <1>1, <1>5 DEF RouteInv, AtRest, Route!Idle
  <2>2. f = e /\ calls[e] = 1
    BY <1>1, <2>1 DEF Asked
  <2>3. \A x \in Event : calls'[x] = 0
    BY <1>1, <2>1, <2>2 DEF Asked
  <2> QED  BY <1>1, <2>1, <2>2, <2>3 DEF AtRest, Asked, Route!Idle
<1> QED  BY <1>1, <1>4, <1>5 DEF RouteInv

LEMMA RouteNext ==
  ASSUME RouteInv, Route!Next
  PROVE  RouteInv'
<1>1. ASSUME NEW e \in Event, Route!Select(e) PROVE RouteInv'
  BY <1>1, Fetching DEF Route!Select
<1>2. CASE Route!Refresh
  <2>1. routeEventId \in Event /\ showRouteDetail \in BOOLEAN
    BY <1>2 DEF Route!Refresh, Route!Showing, RouteInv, Route!TypeOK
  <2> QED  BY <1>2, <2>1, Fetching DEF Route!Refresh
<1>3. CASE Route!Close \/ Route!ToggleDetail
  <2>1. /\ UNCHANGED <<shownRoute, routeLoading, error, calls, crossed>>
        /\ routeEventId' \in {None, routeEventId} /\ showRouteDetail' \in BOOLEAN
    BY <1>3 DEF Route!Close, Route!ToggleDetail, RouteInv, Route!TypeOK
  <2>2. ASSUME NEW e \in Event, Asked(e) PROVE Asked(e)'
    BY <2>1, <2>2 DEF Asked
  <2>3. AtRest => AtRest'
    BY <2>1 DEF AtRest, Route!Idle
  <2> QED  BY <2>1, <2>2, <2>3 DEF RouteInv, Route!TypeOK, Route!SpinnerEnds, Route!Idle
<1> QED  BY <1>1, <1>2, <1>3, CallOver DEF Route!Next

LEMMA RouteShows == RouteInv => Route!RouteIsForSelected
BY DEF RouteInv, AtRest, Asked, Route!RouteIsForSelected, Route!Idle


-----------------------------------------------------------------------------
\* The session.  SessionInv has a part about every document, Sound, and one about
\* the documents under which no other tab has changed localStorage, Follows.  A
\* step replaces one document; accounts and issued tokens only grow.
LoginType == [who : Identity, at : {"find", "create", "found"}]
DocType ==
  [page : Session!Page, login : LoginType \cup {Null}, token : Nat \cup {Null},
   user : Identity \cup {Null}, loading : BOOLEAN, me : Nat \cup {Null},
   status : Identity \cup {Null}, statusLoading : BOOLEAN,
   statusCall : [token : Nat \cup {Null}] \cup {Null}]

Sound(d, iss, acc) ==
  /\ d \in DocType
  /\ d.token \in DOMAIN iss \cup {Null}
  /\ d.me # Null => d.me = d.token
  /\ d.user # Null => d.token # Null /\ d.user = iss[d.token]
  /\ d.page \notin {"home", "main"} =>
       d.token = Null /\ d.user = Null /\ d.me = Null /\ d.statusCall = Null
  /\ d.page # "main" => d.status = Null
  /\ d.page # "provider" => d.login = Null
  /\ d.page = "provider" => (d.login.at = "found" => d.login.who \in acc)

Follows(d, s, iss) ==
  d.page \in {"home", "main"} =>
    /\ s = d.token
    /\ d.token # Null /\ d.status # Null => d.status = iss[d.token]
    /\ d.token # Null /\ d.statusCall # Null => d.statusCall.token = d.token

SessionTypes ==
  /\ accounts \subseteq Identity /\ issued \in Seq(Identity)
  /\ \A t \in DOMAIN issued : issued[t] \in accounts
  /\ valid \subseteq DOMAIN issued /\ stored \in DOMAIN issued \cup {Null}
  /\ touched \subseteq Tab
  /\ tab = [b \in Tab |-> tab[b]]

Documents ==
  \A b \in Tab :
    Sound(tab[b], issued, accounts) /\ (b \notin touched => Follows(tab[b], stored, issued))

SessionInv == SessionTypes /\ Documents

-----------------------------------------------------------------------------
\* A document stays sound and up to date while accounts and tokens are added.
LEMMA MoreAccounts ==
  ASSUME NEW d, NEW iss, NEW acc, NEW more, acc \subseteq more, Sound(d, iss, acc)
  PROVE  Sound(d, iss, more)
BY DEF Sound

LEMMA MoreTokens ==
  ASSUME NEW iss \in Seq(Identity), NEW i \in Identity, NEW d, NEW acc, NEW s, Sound(d, iss, acc)
  PROVE  /\ Sound(d, Append(iss, i), acc)
         /\ Follows(d, s, iss) => Follows(d, s, Append(iss, i))
<1>1. DOMAIN iss \subseteq DOMAIN Append(iss, i)
  BY SMT
<1>2. \A t \in DOMAIN iss : Append(iss, i)[t] = iss[t]
  BY SMT
<1> HIDE DEF DocType, LoginType
<1>3. Sound(d, Append(iss, i), acc)
  BY <1>1, <1>2 DEF Sound
<1>4. Follows(d, s, iss) => Follows(d, s, Append(iss, i))
  BY <1>2 DEF Sound, Follows
<1> QED  BY <1>3, <1>4

\* Mounting the main page and following the redirects.
LEMMA Mounting ==
  ASSUME NEW d, NEW iss, NEW acc, NEW s, s \in Nat \cup {Null}, Sound(d, iss, acc),
         d.page \in {"home", "main"}
  PROVE  /\ Sound(Session!Mount(d, s), iss, acc)
         /\ s = d.token => Follows(Session!Mount(d, s), s, iss)
<1> DEFINE e == Session!Mount(d, s)
<1>1. e \in DocType
  <2>1. [token |-> s] \in [token : Nat \cup {Null}]
    OBVIOUS
  <2>2. d \in DocType
    BY DEF Sound
  <2> QED  BY <2>1, <2>2 DEF Session!Mount, DocType, Session!Page
<1>2. /\ e.page = "main" /\ e.login = d.login /\ e.token = d.token /\ e.user = d.user
      /\ e.me = d.me /\ e.status = Null /\ e.statusCall = [token |-> s]
  BY DEF Session!Mount, Sound, DocType
<1> HIDE DEF e
<1>3. Sound(e, iss, acc)
  BY <1>1, <1>2 DEF Sound
<1>4. s = d.token => Follows(e, s, iss)
  BY <1>2 DEF Follows
<1> QED  BY <1>3, <1>4 DEF e

LEMMA Redirecting ==
  ASSUME NEW d, NEW iss, NEW acc, NEW s, s \in Nat \cup {Null}, Sound(d, iss, acc)
  PROVE  /\ Sound(Session!Redirect(d, s), iss, acc)
         /\ Follows(d, s, iss) => Follows(Session!Redirect(d, s), s, iss)
<1> DEFINE e == Session!LeaveMain(d)
<1>1. Sound(e, iss, acc)
  <2>1. CASE d.page = "main" /\ ~d.loading /\ d.token = Null
    <3>1. e = [d EXCEPT !.page = "home", !.status = Null]
      BY <2>1 DEF Session!LeaveMain
    <3>2. e \in DocType
      BY <3>1 DEF Sound, DocType, Session!Page
    <3>3. /\ e.page = "home" /\ e.login = d.login /\ e.token = d.token /\ e.user = d.user
          /\ e.me = d.me /\ e.status = Null
      BY <3>1 DEF Sound, DocType
    <3> HIDE DEF e
    <3> QED  BY <2>1, <3>2, <3>3 DEF Sound
  <2>2. CASE ~(d.page = "main" /\ ~d.loading /\ d.token = Null)
    BY <2>2 DEF Session!LeaveMain
  <2> QED  BY <2>1, <2>2
<1>2. Follows(d, s, iss) => Follows(e, s, iss)
  BY SMT DEF Session!LeaveMain, Sound, Follows, DocType
<1>3. Session!Redirect(d, s) = Session!LeaveHome(e, s)
  BY DEF Session!Redirect
<1> HIDE DEF e
<1>4. CASE e.page = "home" /\ ~e.loading /\ e.token # Null
  <2>1. Session!Redirect(d, s) = Session!Mount(e, s)
    BY <1>3, <1>4 DEF Session!LeaveHome
  <2>2. Follows(d, s, iss) => s = e.token
    BY <1>2, <1>4 DEF Follows
  <2> QED  BY <2>1, <2>2, <1>1, <1>4, Mounting
<1>5. CASE ~(e.page = "home" /\ ~e.loading /\ e.token # Null)
  <2>1. Session!Redirect(d, s) = e
    BY <1>3, <1>5 DEF Session!LeaveHome
  <2> QED  BY <2>1, <1>1, <1>2
<1> QED  BY <1>4, <1>5

LEMMA Loading ==
  ASSUME NEW iss \in Seq(Identity), NEW acc, NEW opened \in {"home", "main"},
         NEW s \in DOMAIN iss \cup {Null}
  PROVE  Sound(Session!Loaded(opened, s), iss, acc) /\ Follows(Session!Loaded(opened, s), s, iss)
<1>0. s \in Nat \cup {Null}
  BY SMT
<1>1. CASE s = Null
  <2> DEFINE d == [Session!Document(opened) EXCEPT !.loading = FALSE]
  <2>1. d \in DocType
    BY DEF Session!Document, DocType, Session!Page
  <2>2. /\ d.page = opened /\ d.login = Null /\ d.token = Null /\ d.user = Null /\ d.me = Null
        /\ d.status = Null /\ d.statusCall = Null
    BY DEF Session!Document
  <2>3. Session!Loaded(opened, s) = Session!Redirect(d, s)
    BY <1>1 DEF Session!Loaded
  <2> HIDE DEF d
  <2>4. Sound(d, iss, acc) /\ Follows(d, s, iss)
    BY <1>1, <2>1, <2>2 DEF Sound, Follows
  <2> QED  BY <2>3, <2>4, <1>0, Redirecting
<1>2. CASE s # Null
  <2> DEFINE d == [Session!Document(opened) EXCEPT !.token = s, !.me = s]
  <2>1. d \in DocType
    BY <1>0 DEF Session!Document, DocType, Session!Page
  <2>2. /\ d.page = opened /\ d.login = Null /\ d.token = s /\ d.user = Null /\ d.me = s
        /\ d.status = Null /\ d.statusCall = Null
    BY DEF Session!Document
  <2>3. Session!Loaded(opened, s) = IF opened = "main" THEN Session!Mount(d, s) ELSE d
    BY <1>2 DEF Session!Loaded
  <2> HIDE DEF d
  <2>4. Sound(d, iss, acc) /\ Follows(d, s, iss)
    BY <1>2, <2>1, <2>2 DEF Sound, Follows
  <2> QED  BY <2>2, <2>3, <2>4, <1>0, Mounting
<1> QED  BY <1>1, <1>2

\* One document is replaced, with localStorage unchanged for the others that are
\* not touched.
LEMMA Replacing ==
  ASSUME SessionInv, NEW b \in Tab, NEW d, Session!Set(b, d), SessionTypes',
         Sound(d, issued', accounts'),
         b \notin touched' => Follows(d, stored', issued'),
         accounts \subseteq accounts',
         issued' = issued \/ \E i \in Identity : issued' = Append(issued, i),
         \A c \in Tab \ {b} : c \notin touched' => c \notin touched /\ stored' = stored
  PROVE  SessionInv'
<1>1. tab' = [tab EXCEPT ![b] = d]
  BY DEF Session!Set
<1>2. tab'[b] = d
  BY <1>1 DEF SessionInv, SessionTypes
<1>3. ASSUME NEW c \in Tab, c # b
      PROVE  Sound(tab'[c], issued', accounts')
             /\ (c \notin touched' => Follows(tab'[c], stored', issued'))
  <2>1. tab'[c] = tab[c]
    BY <1>1, <1>3 DEF SessionInv, SessionTypes
  <2>2. Sound(tab[c], issued, accounts')
        /\ (c \notin touched' => Follows(tab[c], stored', issued))
    BY <1>3, MoreAccounts DEF SessionInv, Documents
  <2>3. CASE issued' = issued
    BY <2>1, <2>2, <2>3
  <2>4. ASSUME NEW i \in Identity, issued' = Append(issued, i)
        PROVE  Sound(tab[c], issued', accounts')
               /\ (c \notin touched' => Follows(tab[c], stored', issued'))
    <3>1. issued \in Seq(Identity)
      BY DEF SessionInv, SessionTypes
    <3>2. Sound(tab[c], Append(issued, i), accounts')
      BY <2>2, <3>1, MoreTokens
    <3>3. c \notin touched' => Follows(tab[c], stored', Append(issued, i))
      BY <2>2, <3>1, MoreTokens
    <3> QED  BY <2>4, <3>2, <3>3
  <2> QED  BY <2>1, <2>3, <2>4
<1> QED  BY <1>2, <1>3 DEF SessionInv, Documents
-----------------------------------------------------------------------------
\* The steps of a login.
LEMMA StartingOver ==
  ASSUME NEW opened \in {"provider", "refused"}, NEW login \in LoginType \cup {Null}, NEW iss,
         NEW acc, opened = "provider" => login.at # "found", opened = "refused" => login = Null
  PROVE  /\ Sound([Session!Document(opened) EXCEPT !.login = login], iss, acc)
         /\ \A s : Follows([Session!Document(opened) EXCEPT !.login = login], s, iss)
<1> DEFINE d == [Session!Document(opened) EXCEPT !.login = login]
<1>1. d \in DocType
  BY DEF Session!Document, DocType, Session!Page
<1>2. /\ d.page = opened /\ d.login = login /\ d.token = Null /\ d.user = Null /\ d.me = Null
      /\ d.status = Null /\ d.statusCall = Null
  BY DEF Session!Document
<1> HIDE DEF d
<1>3. Sound(d, iss, acc) /\ \A s : Follows(d, s, iss)
  BY <1>1, <1>2 DEF Sound, Follows
<1> QED  BY <1>3 DEF d

\* The error page is a document like any other.
LEMMA Refusing ==
  ASSUME NEW iss, NEW acc
  PROVE  /\ Sound(Session!Document("refused"), iss, acc)
         /\ \A s : Follows(Session!Document("refused"), s, iss)
<1> DEFINE d == Session!Document("refused")
<1>1. d \in DocType
  BY DEF Session!Document, DocType, Session!Page
<1>2. /\ d.page = "refused" /\ d.login = Null /\ d.token = Null /\ d.user = Null
      /\ d.me = Null /\ d.status = Null /\ d.statusCall = Null
  BY DEF Session!Document
<1> HIDE DEF d
<1>3. Sound(d, iss, acc) /\ \A s : Follows(d, s, iss)
  BY <1>1, <1>2 DEF Sound, Follows
<1> QED  BY <1>3 DEF d

\* While a login is at find, create or found, the tab is at the provider.
LEMMA Provider ==
  ASSUME SessionInv, NEW b \in Tab, tab[b].login # Null
  PROVE  /\ tab[b].page = "provider" /\ tab[b].login \in LoginType
         /\ tab[b].login.who \in Identity
         /\ tab[b].login.at = "found" => tab[b].login.who \in accounts
<1>1. Sound(tab[b], issued, accounts)
  BY DEF SessionInv, Documents
<1>2. tab[b].login \in LoginType /\ tab[b].page \in Session!Page
  BY <1>1 DEF Sound, DocType
<1>3. tab[b].page = "provider"
  BY <1>1, <1>2 DEF Sound, Session!Page
<1>4. tab[b].login.who \in Identity
  BY <1>2 DEF LoginType
<1> QED  BY <1>1, <1>2, <1>3, <1>4 DEF Sound

LEMMA Advancing ==
  ASSUME SessionInv, NEW b \in Tab, NEW at \in {"find", "create", "found"}, NEW acc,
         accounts \subseteq acc,
         tab[b].login # Null,
         at = "found" => tab[b].login.who \in acc
  PROVE  /\ Sound([tab[b] EXCEPT !.login.at = at], issued, acc)
         /\ \A s : Follows([tab[b] EXCEPT !.login.at = at], s, issued)
<1> DEFINE c == tab[b]
           l == [c.login EXCEPT !.at = at]
           d == [c EXCEPT !.login = l]
<1>1. c.page = "provider" /\ c.login \in LoginType
  BY Provider
<1>2. Sound(c, issued, accounts)
  BY DEF SessionInv, Documents
<1>3. l \in LoginType /\ l.at = at /\ l.who = c.login.who
  BY <1>1 DEF LoginType
<1> HIDE DEF l
<1>4. c \in DocType
  BY <1>2 DEF Sound
<1>5. d \in DocType
  BY <1>3, <1>4 DEF DocType
<1>6. /\ d.page = c.page /\ d.login = l /\ d.token = c.token /\ d.user = c.user
      /\ d.me = c.me /\ d.status = c.status /\ d.statusCall = c.statusCall
  BY <1>4 DEF DocType
<1>7. d = [tab[b] EXCEPT !.login.at = at]
  BY DEF l
<1> HIDE DEF d
<1>8. Sound(d, issued, acc) /\ \A s : Follows(d, s, issued)
  BY <1>1, <1>2, <1>3, <1>5, <1>6 DEF Sound, Follows
<1> QED  BY <1>7, <1>8

-----------------------------------------------------------------------------
\* One lemma for each kind of step.
LEMMA LoadStep ==
  ASSUME SessionInv, NEW b \in Tab, NEW opened \in {"home", "main"}, Session!Load(b, opened)
  PROVE  SessionInv'
<1>1. SessionTypes'
  BY DEF SessionInv, SessionTypes, Session!Load, Session!Set
<1>2. Sound(Session!Loaded(opened, stored), issued, accounts)
      /\ Follows(Session!Loaded(opened, stored), stored, issued)
  BY Loading DEF SessionInv, SessionTypes
<1> QED  BY <1>1, <1>2, Replacing DEF Session!Load

LEMMA LoginStep ==
  ASSUME SessionInv, NEW b \in Tab, NEW i \in Identity, Session!Login(b, i)
  PROVE  SessionInv'
<1> DEFINE l == [who |-> i, at |-> "find"]
           d == [Session!Document("provider") EXCEPT !.login = l]
<1>1. SessionTypes'
  BY DEF SessionInv, SessionTypes, Session!Login, Session!Set
<1>2. l \in LoginType /\ l.at # "found"
  BY DEF LoginType
<1>3. Sound(d, issued, accounts) /\ Follows(d, stored, issued)
  <2> HIDE DEF l
  <2> QED  BY <1>2, StartingOver
<1>4. Session!Set(b, d) /\ UNCHANGED <<accounts, issued, valid, stored, touched>>
  BY DEF Session!Login
<1> HIDE DEF d
<1> QED  BY <1>1, <1>3, <1>4, Replacing

LEMMA FindStep ==
  ASSUME SessionInv, NEW b \in Tab, Session!FindUser(b)
  PROVE  SessionInv'
<1> DEFINE at == IF tab[b].login.who \in accounts THEN "found" ELSE "create"
           d == [tab[b] EXCEPT !.login.at = at]
<1>1. SessionTypes'
  BY DEF SessionInv, SessionTypes, Session!FindUser, Session!Set
<1>2. /\ at \in {"find", "create", "found"} /\ tab[b].login # Null
      /\ at = "found" => tab[b].login.who \in accounts
  BY DEF Session!FindUser
<1>3. Session!Set(b, d) /\ UNCHANGED <<accounts, issued, valid, stored, touched>>
  BY DEF Session!FindUser
<1>4. Sound(d, issued, accounts) /\ Follows(d, stored, issued)
  <2> HIDE DEF at
  <2> QED  BY <1>2, Advancing
<1> HIDE DEF d
<1> QED  BY <1>1, <1>3, <1>4, Replacing

LEMMA CreateStep ==
  ASSUME SessionInv, NEW b \in Tab, Session!CreateUser(b)
  PROVE  SessionInv'
<1> DEFINE i == tab[b].login.who
<1>1. /\ tab[b].login # Null /\ i \in Identity
      /\ UNCHANGED <<issued, valid, stored, touched>>
  BY Provider DEF Session!CreateUser
<1>2. CASE Session!Unique(i)
  <2> DEFINE d == [tab[b] EXCEPT !.login.at = "found"]
  <2>1. accounts' = accounts \cup {i} /\ Session!Set(b, d)
    BY <1>2 DEF Session!CreateUser
  <2>2. SessionTypes'
    BY <1>1, <2>1 DEF SessionInv, SessionTypes, Session!Set
  <2>3. Sound(d, issued, accounts') /\ Follows(d, stored, issued)
    <3>1. accounts \subseteq accounts' /\ i \in accounts'
      BY <2>1
    <3> QED  BY <1>1, <3>1, Advancing
  <2> HIDE DEF d
  <2> QED  BY <1>1, <2>1, <2>2, <2>3, Replacing
<1>3. CASE ~Session!Unique(i)
  <2> DEFINE d == Session!Document("refused")
  <2>1. accounts' = accounts /\ Session!Set(b, d)
    BY <1>3 DEF Session!CreateUser
  <2>2. SessionTypes'
    BY <1>1, <2>1 DEF SessionInv, SessionTypes, Session!Set
  <2>3. Sound(d, issued, accounts) /\ Follows(d, stored, issued)
    BY Refusing
  <2> HIDE DEF d
  <2> QED  BY <1>1, <2>1, <2>2, <2>3, Replacing
<1> QED  BY <1>2, <1>3

LEMMA LoginFailStep ==
  ASSUME SessionInv, NEW b \in Tab, Session!LoginFails(b)
  PROVE  SessionInv'
<1> DEFINE d == Session!Document("refused")
<1>1. Session!Set(b, d) /\ UNCHANGED <<accounts, issued, valid, stored, touched>>
  BY DEF Session!LoginFails
<1>2. SessionTypes'
  BY <1>1 DEF SessionInv, SessionTypes, Session!Set
<1>3. Sound(d, issued, accounts) /\ Follows(d, stored, issued)
  BY Refusing
<1> HIDE DEF d
<1> QED  BY <1>1, <1>2, <1>3, Replacing

LEMMA CallbackStep ==
  ASSUME SessionInv, NEW b \in Tab, Session!Callback(b)
  PROVE  SessionInv'
<1> DEFINE i == tab[b].login.who
           t == Len(issued) + 1
           d == Session!Loaded("main", t)
<1>1. tab[b].login # Null /\ i \in Identity /\ i \in accounts
  BY Provider DEF Session!Callback
<1>2. /\ accounts' = accounts /\ issued' = Append(issued, i) /\ valid' = valid \cup {t}
      /\ stored' = t /\ touched' = (touched \cup Tab) \ {b} /\ Session!Set(b, d)
  BY DEF Session!Callback, Session!IssueToken, Session!SetToken
<1>3. issued \in Seq(Identity)
  BY DEF SessionInv, SessionTypes
<1>4. /\ issued' \in Seq(Identity)
      /\ DOMAIN issued' = DOMAIN issued \cup {t}
      /\ issued'[t] = i /\ \A u \in DOMAIN issued : issued'[u] = issued[u]
  BY <1>1, <1>2, <1>3, SMT
<1>5. SessionTypes'
  BY <1>1, <1>2, <1>4 DEF SessionInv, SessionTypes, Session!Set
<1>6. Sound(d, issued', accounts') /\ Follows(d, stored', issued')
  BY <1>2, <1>4, Loading
<1> HIDE DEF d
<1>7. /\ accounts \subseteq accounts' /\ \E j \in Identity : issued' = Append(issued, j)
      /\ \A c \in Tab \ {b} : c \in touched'
  BY <1>1, <1>2
<1> QED  BY <1>2, <1>5, <1>6, <1>7, Replacing

LEMMA ExpireStep ==
  ASSUME SessionInv, NEW t \in valid, Session!Expire(t)
  PROVE  SessionInv'
BY DEF SessionInv, SessionTypes, Documents, Session!Expire

\* The answers.  What they leave in the document, before the redirects:
LEMMA MeAnswersStep ==
  ASSUME SessionInv, NEW b \in Tab, Session!MeAnswers(b)
  PROVE  SessionInv'
<1> DEFINE c == tab[b]
           u == issued[c.me]
           d == [c EXCEPT !.me = Null, !.loading = FALSE, !.user = u]
<1>1. /\ Sound(c, issued, accounts) /\ c.me # Null /\ c.me \in valid /\ c.me = c.token
      /\ b \notin touched => Follows(c, stored, issued)
  BY DEF Session!MeAnswers, Session!Authorized, SessionInv, Documents, Sound
<1>2. u \in Identity /\ c \in DocType /\ stored \in Nat \cup {Null}
  BY <1>1, SMT DEF SessionInv, SessionTypes, Sound
<1>3. Session!Set(b, Session!Redirect(d, stored))
      /\ UNCHANGED <<accounts, issued, valid, stored, touched>>
  BY DEF Session!MeAnswers
<1>4. SessionTypes'
  BY <1>3 DEF SessionInv, SessionTypes, Session!Set
<1>5. u = issued[c.token]
  BY <1>1
<1> HIDE DEF u
<1>6. d \in DocType
  BY <1>2 DEF DocType
<1>7. /\ d.page = c.page /\ d.login = c.login /\ d.token = c.token /\ d.user = u
      /\ d.me = Null /\ d.status = c.status /\ d.statusCall = c.statusCall
  BY <1>2 DEF DocType
<1> HIDE DEF d
<1>8. Sound(d, issued, accounts) /\ (b \notin touched => Follows(d, stored, issued))
  BY <1>1, <1>5, <1>6, <1>7 DEF Sound, Follows
<1>9. /\ Sound(Session!Redirect(d, stored), issued, accounts)
      /\ b \notin touched => Follows(Session!Redirect(d, stored), stored, issued)
  BY <1>2, <1>8, Redirecting
<1> QED  BY <1>3, <1>4, <1>9, Replacing

\* Either failure: the tab is logged out, and the token is removed.
LEMMA LoggingOut ==
  ASSUME SessionInv, NEW b \in Tab, NEW d, Session!Set(b, Session!Redirect(d, Null)),
         Session!Store(b, Null),
         UNCHANGED <<accounts, issued, valid>>, Sound(d, issued, accounts), d.token = Null
  PROVE  SessionInv'
<1>1. stored' = Null /\ touched' = IF Null = stored THEN touched ELSE touched \cup (Tab \ {b})
  BY DEF Session!Store
<1>2. SessionTypes'
  BY <1>1 DEF SessionInv, SessionTypes, Session!Set
<1>3. Follows(d, Null, issued)
  BY DEF Follows
<1>4. Sound(Session!Redirect(d, Null), issued, accounts)
      /\ Follows(Session!Redirect(d, Null), Null, issued)
  BY <1>3, Redirecting
<1>5. \A c \in Tab \ {b} : c \notin touched' => c \notin touched /\ stored' = stored
  BY <1>1
<1> QED  BY <1>1, <1>2, <1>4, <1>5, Replacing

LEMMA MeFailsStep ==
  ASSUME SessionInv, NEW b \in Tab, Session!MeFails(b)
  PROVE  SessionInv'
<1> DEFINE c == tab[b]
           d == [Session!Logout(c) EXCEPT !.loading = FALSE]
<1>1. Sound(c, issued, accounts) /\ c.me # Null
  BY DEF SessionInv, Documents, Session!MeFails
<1>2. d \in DocType
  BY <1>1 DEF Session!Logout, Sound, DocType
<1>3. /\ d.page = c.page /\ d.login = c.login /\ d.token = Null /\ d.user = Null
      /\ d.me = Null /\ d.status = c.status /\ d.statusCall = c.statusCall
  BY <1>1 DEF Session!Logout, Sound, DocType
<1>4. /\ Session!Set(b, Session!Redirect(d, Null)) /\ Session!Store(b, Null)
         /\ UNCHANGED <<accounts, issued, valid>>
  BY DEF Session!MeFails
<1> HIDE DEF d
<1>5. Sound(d, issued, accounts)
  BY <1>1, <1>2, <1>3 DEF Sound
<1> QED  BY <1>3, <1>4, <1>5, LoggingOut

LEMMA StatusUnauthorizedStep ==
  ASSUME SessionInv, NEW b \in Tab, Session!StatusUnauthorized(b)
  PROVE  SessionInv'
<1> DEFINE c == tab[b]
           d == [Session!Logout(c) EXCEPT !.statusCall = Null, !.statusLoading = FALSE]
<1>1. Sound(c, issued, accounts) /\ c.statusCall # Null
  BY DEF SessionInv, Documents, Session!StatusUnauthorized
<1>2. d \in DocType
  BY <1>1 DEF Session!Logout, Sound, DocType
<1>3. /\ d.page = c.page /\ d.login = c.login /\ d.token = Null /\ d.user = Null
      /\ d.me = Null /\ d.status = c.status /\ d.statusCall = Null
  BY <1>1 DEF Session!Logout, Sound, DocType
<1>4. /\ Session!Set(b, Session!Redirect(d, Null)) /\ Session!Store(b, Null)
         /\ UNCHANGED <<accounts, issued, valid>>
  BY DEF Session!StatusUnauthorized
<1> HIDE DEF d
<1>5. Sound(d, issued, accounts)
  BY <1>1, <1>2, <1>3 DEF Sound
<1> QED  BY <1>3, <1>4, <1>5, LoggingOut

\* The status arrives, fails or is asked for: neither the token nor the user of
\* the document changes.
LEMMA StatusChanging ==
  ASSUME SessionInv, NEW b \in Tab, tab[b].page \in {"home", "main"},
         NEW said \in Identity \cup {Null}, NEW call \in [token : Nat \cup {Null}] \cup {Null},
         NEW wait \in BOOLEAN,
         Session!Set(b, [tab[b] EXCEPT !.status = said, !.statusLoading = wait,
                                       !.statusCall = call]),
         UNCHANGED <<accounts, issued, valid, stored, touched>>,
         tab[b].page # "main" => said = Null,
         b \notin touched /\ tab[b].token # Null =>
           /\ said # Null => said = issued[tab[b].token]
           /\ call # Null => call.token = tab[b].token
  PROVE  SessionInv'
<1> DEFINE c == tab[b]
           d == [c EXCEPT !.status = said, !.statusLoading = wait, !.statusCall = call]
<1>1. Sound(c, issued, accounts) /\ (b \notin touched => Follows(c, stored, issued))
  BY DEF SessionInv, Documents
<1>2. c \in DocType /\ c.page \in {"home", "main"}
  BY <1>1 DEF Sound
<1>3. d \in DocType
  BY <1>2 DEF DocType
<1>4. /\ d.page = c.page /\ d.login = c.login /\ d.token = c.token /\ d.user = c.user
      /\ d.me = c.me /\ d.status = said /\ d.statusCall = call
  BY <1>2 DEF DocType
<1>5. SessionTypes'
  BY DEF SessionInv, SessionTypes, Session!Set
<1>6. Session!Set(b, d)
  OBVIOUS
<1> HIDE DEF d
<1>7. Sound(d, issued, accounts) /\ (b \notin touched => Follows(d, stored, issued))
  BY <1>1, <1>2, <1>3, <1>4 DEF Sound, Follows
<1> QED  BY <1>5, <1>6, <1>7, Replacing

LEMMA StatusStep ==
  ASSUME SessionInv, NEW b \in Tab, Session!StatusAnswers(b) \/ Session!StatusFails(b)
         \/ Session!FetchStatus(b)
  PROVE  SessionInv'
<1> DEFINE c == tab[b]
<1>1. Sound(c, issued, accounts) /\ (b \notin touched => Follows(c, stored, issued))
  BY DEF SessionInv, Documents
<1>2. c \in DocType /\ c.status \in Identity \cup {Null} /\ c.statusLoading \in BOOLEAN
      /\ c.statusCall \in [token : Nat \cup {Null}] \cup {Null} /\ c.page \in Session!Page
  BY <1>1 DEF Sound, DocType
<1>3. c.statusCall # Null => c.page \in {"home", "main"}
  BY <1>1 DEF Sound
<1>4. CASE Session!StatusAnswers(b)
  <2> DEFINE i == issued[c.statusCall.token]
             said == IF c.page = "main" THEN i ELSE Null
  <2>1. /\ c.statusCall # Null /\ c.statusCall.token \in DOMAIN issued
        /\ UNCHANGED <<accounts, issued, valid, stored, touched>>
    BY <1>4 DEF Session!StatusAnswers, Session!Authorized, SessionInv, SessionTypes
  <2>2. i \in Identity
    BY <2>1 DEF SessionInv, SessionTypes
  <2>3. Session!Set(b, [c EXCEPT !.status = said, !.statusLoading = FALSE,
                                !.statusCall = Null])
    <3>1. Session!Set(b, [c EXCEPT !.statusCall = Null, !.statusLoading = FALSE, !.status = said])
      BY <1>4 DEF Session!StatusAnswers
    <3> HIDE DEF said
    <3>2. [c EXCEPT !.statusCall = Null, !.statusLoading = FALSE, !.status = said] =
          [c EXCEPT !.status = said, !.statusLoading = FALSE, !.statusCall = Null]
      BY <1>2 DEF DocType
    <3> QED  BY <3>1, <3>2
  <2>4. b \notin touched /\ c.token # Null => i = issued[c.token]
    BY <1>1, <1>3, <2>1 DEF Follows
  <2> HIDE DEF i
  <2>5. /\ said \in Identity \cup {Null} /\ (c.page # "main" => said = Null)
        /\ b \notin touched /\ c.token # Null => (said # Null => said = issued[c.token])
    BY <2>2, <2>4
  <2> HIDE DEF said
  <2> QED  BY <1>3, <2>1, <2>3, <2>5, StatusChanging
<1>5. CASE Session!StatusFails(b)
  <2>1. c.statusCall # Null /\ UNCHANGED <<accounts, issued, valid, stored, touched>>
    BY <1>5 DEF Session!StatusFails
  <2>2. Session!Set(b, [c EXCEPT !.status = c.status, !.statusLoading = FALSE,
                                !.statusCall = Null])
    <3>1. Session!Set(b, [c EXCEPT !.statusCall = Null, !.statusLoading = FALSE])
      BY <1>5 DEF Session!StatusFails
    <3>2. [c EXCEPT !.statusCall = Null, !.statusLoading = FALSE] =
          [c EXCEPT !.status = c.status, !.statusLoading = FALSE, !.statusCall = Null]
      BY <1>2 DEF DocType
    <3> QED  BY <3>1, <3>2
  <2>3. /\ c.page # "main" => c.status = Null
        /\ b \notin touched /\ c.token # Null => (c.status # Null => c.status = issued[c.token])
    BY <1>1, <1>3, <2>1 DEF Sound, Follows
  <2> QED  BY <1>2, <1>3, <2>1, <2>2, <2>3, StatusChanging
<1>6. CASE Session!FetchStatus(b)
  <2> DEFINE call == [token |-> stored]
  <2>1. c.page = "main" /\ UNCHANGED <<accounts, issued, valid, stored, touched>>
    BY <1>6 DEF Session!FetchStatus
  <2>2. call \in [token : Nat \cup {Null}] /\ call.token = stored
    BY DEF SessionInv, SessionTypes
  <2>3. Session!Set(b, [c EXCEPT !.status = c.status, !.statusLoading = c.statusLoading,
                                !.statusCall = call])
    <3>1. Session!Set(b, [c EXCEPT !.statusCall = call])
      BY <1>6 DEF Session!FetchStatus
    <3> HIDE DEF call
    <3>2. [c EXCEPT !.statusCall = call] =
          [c EXCEPT !.status = c.status, !.statusLoading = c.statusLoading, !.statusCall = call]
      BY <1>2 DEF DocType
    <3> QED  BY <3>1, <3>2
  <2> HIDE DEF call
  <2>4. b \notin touched /\ c.token # Null =>
          /\ c.status # Null => c.status = issued[c.token]
          /\ call.token = c.token
    BY <1>1, <2>1, <2>2 DEF Follows
  <2> QED  BY <1>2, <2>1, <2>2, <2>3, <2>4, StatusChanging
<1> QED  BY <1>4, <1>5, <1>6

-----------------------------------------------------------------------------
\* SpinnerEnds for a document.  On the home page a request for the status that
\* is still under way was sent before, by a main page that had loaded.
Turns(d) ==
  /\ d.page \in {"home", "main"} /\ d.loading =>
       d.me # Null \/ (d.page = "main" /\ d.token = Null)
  /\ d.page = "main" /\ d.statusLoading => d.statusCall # Null
  /\ d.page = "home" /\ d.loading => d.statusCall = Null

SessionSpinners == \A b \in Tab : Turns(tab[b])

LEMMA TurnsMounting ==
  ASSUME NEW d \in DocType, NEW s \in Nat \cup {Null}, d.loading => d.me # Null
  PROVE  Turns(Session!Mount(d, s))
<1> DEFINE e == Session!Mount(d, s)
           call == [token |-> s]
<1>1. call # Null
  BY SessionAssumption
<1>2. e = [d EXCEPT !.page = "main", !.status = Null, !.statusLoading = TRUE, !.statusCall = call]
  BY DEF Session!Mount
<1> HIDE DEF call
<1>3. e.page = "main" /\ e.loading = d.loading /\ e.me = d.me /\ e.statusCall = call
  BY <1>2 DEF DocType
<1> HIDE DEF e
<1>4. Turns(e)
  BY <1>1, <1>3 DEF Turns
<1> QED  BY <1>4 DEF e

LEMMA TurnsRedirecting ==
  ASSUME NEW d \in DocType, NEW s \in Nat \cup {Null}, Turns(d)
  PROVE  Turns(Session!Redirect(d, s))
<1> DEFINE e == Session!LeaveMain(d)
<1>1. e \in DocType /\ Turns(e)
  <2>1. CASE d.page = "main" /\ ~d.loading /\ d.token = Null
    <3>1. e = [d EXCEPT !.page = "home", !.status = Null]
      BY <2>1 DEF Session!LeaveMain
    <3>2. e \in DocType /\ e.page = "home" /\ e.loading = d.loading
      BY <3>1 DEF DocType, Session!Page
    <3> HIDE DEF e
    <3> QED  BY <2>1, <3>2 DEF Turns
  <2>2. CASE ~(d.page = "main" /\ ~d.loading /\ d.token = Null)
    BY <2>2 DEF Session!LeaveMain
  <2> QED  BY <2>1, <2>2
<1>2. Session!Redirect(d, s) = Session!LeaveHome(e, s)
  BY DEF Session!Redirect
<1> HIDE DEF e
<1>3. Session!Redirect(d, s) = IF e.page = "home" /\ ~e.loading /\ e.token # Null
                               THEN Session!Mount(e, s) ELSE e
  BY <1>2 DEF Session!LeaveHome
<1> QED  BY <1>1, <1>3, TurnsMounting

LEMMA TurnsLoading ==
  ASSUME NEW opened \in {"home", "main"}, NEW s \in Nat \cup {Null}
  PROVE  Turns(Session!Loaded(opened, s))
<1>1. CASE s = Null
  <2> DEFINE d == [Session!Document(opened) EXCEPT !.loading = FALSE]
  <2>1. d \in DocType
    BY DEF Session!Document, DocType, Session!Page
  <2>2. d.page = opened /\ d.loading = FALSE /\ d.token = Null
    BY DEF Session!Document
  <2>3. Session!Loaded(opened, s) = Session!Redirect(d, s)
    BY <1>1 DEF Session!Loaded
  <2> HIDE DEF d
  <2>4. Session!LeaveMain(d).page = "home"
    <3>1. CASE opened = "main"
      <4>1. Session!LeaveMain(d) = [d EXCEPT !.page = "home", !.status = Null]
        BY <2>2, <3>1 DEF Session!LeaveMain
      <4> QED  BY <2>1, <4>1 DEF DocType
    <3>2. CASE opened = "home"
      BY <2>2, <3>2 DEF Session!LeaveMain
    <3> QED  BY <3>1, <3>2
  <2>5. Session!LeaveMain(d).loading = FALSE /\ Session!LeaveMain(d).token = Null
    BY <2>1, <2>2 DEF Session!LeaveMain, DocType
  <2>6. Session!Redirect(d, s) = Session!LeaveMain(d)
    BY <2>5 DEF Session!Redirect, Session!LeaveHome
  <2> HIDE DEF Session!LeaveMain
  <2> QED  BY <2>3, <2>4, <2>5, <2>6 DEF Turns
<1>2. CASE s # Null
  <2> DEFINE d == [Session!Document(opened) EXCEPT !.token = s, !.me = s]
  <2>1. d \in DocType
    BY DEF Session!Document, DocType, Session!Page
  <2>2. d.page = opened /\ d.me = s /\ d.statusCall = Null
    BY DEF Session!Document
  <2>3. Session!Loaded(opened, s) = IF opened = "main" THEN Session!Mount(d, s) ELSE d
    BY <1>2 DEF Session!Loaded
  <2> HIDE DEF d
  <2>4. opened = "home" => Turns(d)
    BY <1>2, <2>2 DEF Turns
  <2> QED  BY <1>2, <2>1, <2>2, <2>3, <2>4, TurnsMounting
<1> QED  BY <1>1, <1>2

\* The document of tab b is replaced.
LEMMA TurnsReplacing ==
  ASSUME SessionInv, SessionSpinners, NEW b \in Tab, NEW d, Session!Set(b, d), Turns(d)
  PROVE  SessionSpinners'
<1>1. tab' = [tab EXCEPT ![b] = d] /\ tab = [c \in Tab |-> tab[c]]
  BY DEF SessionInv, SessionTypes, Session!Set
<1>2. tab'[b] = d /\ \A c \in Tab \ {b} : tab'[c] = tab[c]
  BY <1>1
<1>3. ASSUME NEW c \in Tab PROVE Turns(tab'[c])
  BY <1>2 DEF SessionSpinners
<1> QED  BY <1>3 DEF SessionSpinners

\* The documents of a login have nothing that turns.
LEMMA TurnsLogin ==
  ASSUME SessionInv, SessionSpinners, NEW b \in Tab,
         \/ \E i \in Identity : Session!Login(b, i)
         \/ Session!FindUser(b) \/ Session!CreateUser(b) \/ Session!LoginFails(b)
  PROVE  SessionSpinners'
<1>1. ASSUME NEW d, Session!Set(b, d), d.page \in {"provider", "refused"}
      PROVE  SessionSpinners'
  BY <1>1, TurnsReplacing DEF Turns
<1>2. ASSUME NEW opened \in {"provider", "refused"}, NEW l
      PROVE  [Session!Document(opened) EXCEPT !.login = l].page = opened
  BY DEF Session!Document
<1>3. ASSUME NEW at, tab[b].login # Null
      PROVE  [tab[b] EXCEPT !.login.at = at].page = "provider"
  <2>1. tab[b].page = "provider" /\ tab[b] \in DocType
    BY <1>3, Provider DEF SessionInv, Documents, Sound
  <2> QED  BY <2>1 DEF DocType
<1>4. CASE \E i \in Identity : Session!Login(b, i)
  BY <1>1, <1>2, <1>4 DEF Session!Login
<1>5. CASE Session!FindUser(b)
  BY <1>1, <1>3, <1>5 DEF Session!FindUser
<1>6. CASE Session!CreateUser(b)
  BY <1>1, <1>3, <1>6 DEF Session!CreateUser, Session!Document
<1>7. CASE Session!LoginFails(b)
  BY <1>1, <1>7 DEF Session!LoginFails, Session!Document
<1> QED  BY <1>4, <1>5, <1>6, <1>7

LEMMA TurnsMe ==
  ASSUME SessionInv, SessionSpinners, NEW b \in Tab, Session!MeAnswers(b) \/ Session!MeFails(b)
  PROVE  SessionSpinners'
<1> DEFINE c == tab[b]
<1>1. c \in DocType /\ Turns(c) /\ stored \in Nat \cup {Null}
  BY SMT DEF SessionInv, SessionTypes, Documents, Sound, SessionSpinners
<1>2. ASSUME NEW d \in DocType, NEW s \in Nat \cup {Null}, Session!Set(b, Session!Redirect(d, s)),
             d.page = c.page, d.loading = FALSE, d.statusLoading = c.statusLoading,
             d.statusCall = c.statusCall
      PROVE  SessionSpinners'
  <2>1. Turns(d)
    BY <1>1, <1>2 DEF Turns
  <2> QED  BY <1>2, <2>1, TurnsRedirecting, TurnsReplacing
<1>3. CASE Session!MeAnswers(b)
  <2> DEFINE u == issued[c.me]
             d == [c EXCEPT !.me = Null, !.loading = FALSE, !.user = u]
  <2>1. c.me # Null /\ c.me = c.token /\ c.token \in DOMAIN issued \cup {Null}
    BY <1>3 DEF Session!MeAnswers, SessionInv, Documents, Sound
  <2>2. u \in Identity
    BY <2>1 DEF SessionInv, SessionTypes
  <2>3. Session!Set(b, Session!Redirect(d, stored))
    BY <1>3 DEF Session!MeAnswers
  <2> HIDE DEF u
  <2>4. d \in DocType
    BY <1>1, <2>2 DEF DocType
  <2>5. /\ d.page = c.page /\ d.loading = FALSE /\ d.statusLoading = c.statusLoading
        /\ d.statusCall = c.statusCall
    BY <1>1 DEF DocType
  <2> HIDE DEF d
  <2> QED  BY <1>1, <1>2, <2>3, <2>4, <2>5
<1>4. CASE Session!MeFails(b)
  <2> DEFINE d == [Session!Logout(c) EXCEPT !.loading = FALSE]
  <2>1. Session!Set(b, Session!Redirect(d, Null))
    BY <1>4 DEF Session!MeFails
  <2>2. d \in DocType
    BY <1>1 DEF Session!Logout, DocType
  <2>3. /\ d.page = c.page /\ d.loading = FALSE /\ d.statusLoading = c.statusLoading
        /\ d.statusCall = c.statusCall
    BY <1>1 DEF Session!Logout, DocType
  <2> HIDE DEF d
  <2> QED  BY <1>2, <2>1, <2>2, <2>3
<1> QED  BY <1>3, <1>4

LEMMA TurnsStatus ==
  ASSUME SessionInv, SessionSpinners, NEW b \in Tab,
         Session!StatusAnswers(b) \/ Session!StatusFails(b)
         \/ Session!StatusUnauthorized(b) \/ Session!FetchStatus(b)
  PROVE  SessionSpinners'
<1> DEFINE c == tab[b]
<1>1. c \in DocType /\ Turns(c) /\ stored \in Nat \cup {Null}
  BY SMT DEF SessionInv, SessionTypes, Documents, Sound, SessionSpinners
<1>2. CASE Session!StatusAnswers(b)
  <2> DEFINE said == IF c.page = "main" THEN issued[c.statusCall.token] ELSE Null
             d == [c EXCEPT !.statusCall = Null, !.statusLoading = FALSE, !.status = said]
  <2>1. Session!Set(b, d)
    BY <1>2 DEF Session!StatusAnswers
  <2> HIDE DEF said
  <2>2. /\ d.page = c.page /\ d.loading = c.loading /\ d.me = c.me /\ d.token = c.token
        /\ d.statusCall = Null /\ d.statusLoading = FALSE
    BY <1>1 DEF DocType
  <2> HIDE DEF d
  <2>3. Turns(d)
    BY <1>1, <2>2 DEF Turns
  <2> QED  BY <2>1, <2>3, TurnsReplacing
<1>3. CASE Session!StatusFails(b)
  <2> DEFINE d == [c EXCEPT !.statusCall = Null, !.statusLoading = FALSE]
  <2>1. Session!Set(b, d)
    BY <1>3 DEF Session!StatusFails
  <2>2. /\ d.page = c.page /\ d.loading = c.loading /\ d.me = c.me /\ d.token = c.token
        /\ d.statusCall = Null /\ d.statusLoading = FALSE
    BY <1>1 DEF DocType
  <2> HIDE DEF d
  <2>3. Turns(d)
    BY <1>1, <2>2 DEF Turns
  <2> QED  BY <2>1, <2>3, TurnsReplacing
<1>4. CASE Session!StatusUnauthorized(b)
  <2> DEFINE d == [Session!Logout(c) EXCEPT !.statusCall = Null, !.statusLoading = FALSE]
  <2>1. c.statusCall # Null /\ Session!Set(b, Session!Redirect(d, Null))
    BY <1>4 DEF Session!StatusUnauthorized
  <2>2. d \in DocType
    BY <1>1 DEF Session!Logout, DocType
  <2>3. /\ d.page = c.page /\ d.loading = c.loading /\ d.token = Null
        /\ d.statusCall = Null /\ d.statusLoading = FALSE
    BY <1>1 DEF Session!Logout, DocType
  <2> HIDE DEF d
  <2>4. Turns(d)
    BY <1>1, <2>1, <2>3 DEF Turns
  <2> QED  BY <2>1, <2>2, <2>4, TurnsRedirecting, TurnsReplacing
<1>5. CASE Session!FetchStatus(b)
  <2> DEFINE call == [token |-> stored]
             d == [c EXCEPT !.statusCall = call]
  <2>1. c.page = "main" /\ Session!Set(b, d)
    BY <1>5 DEF Session!FetchStatus
  <2>2. call # Null
    BY <1>1, SessionAssumption
  <2> HIDE DEF call
  <2>3. /\ d.page = c.page /\ d.loading = c.loading /\ d.me = c.me /\ d.token = c.token
        /\ d.statusCall = call /\ d.statusLoading = c.statusLoading
    BY <1>1 DEF DocType
  <2> HIDE DEF d
  <2>4. Turns(d)
    BY <1>1, <2>1, <2>2, <2>3 DEF Turns
  <2> QED  BY <2>1, <2>4, TurnsReplacing
<1> QED  BY <1>2, <1>3, <1>4, <1>5

LEMMA SpinnersStart == Session!Init => SessionSpinners
<1> SUFFICES ASSUME Session!Init, NEW b \in Tab PROVE Turns(tab[b])
  BY DEF SessionSpinners
<1>1. tab[b].page = "closed"
  BY DEF Session!Init, Session!Document
<1> QED  BY <1>1 DEF Turns

LEMMA SpinnersStep == SessionInv /\ SessionSpinners /\ [Session!Next]_(Session!vars)
    => SessionSpinners'
<1> SUFFICES ASSUME SessionInv, SessionSpinners, [Session!Next]_(Session!vars)
             PROVE  SessionSpinners'
  OBVIOUS
<1>1. CASE UNCHANGED Session!vars \/ \E t \in valid : Session!Expire(t)
  BY <1>1 DEF Session!vars, Session!Expire, SessionSpinners
<1>2. ASSUME NEW b \in Tab, NEW opened \in {"home", "main"}, Session!Load(b, opened)
      PROVE  SessionSpinners'
  <2>1. Session!Set(b, Session!Loaded(opened, stored)) /\ stored \in Nat \cup {Null}
    BY <1>2, SMT DEF Session!Load, SessionInv, SessionTypes
  <2> QED  BY <2>1, TurnsLoading, TurnsReplacing
<1>3. ASSUME NEW b \in Tab, Session!Callback(b) PROVE SessionSpinners'
  <2>1. Session!Set(b, Session!Loaded("main", Len(issued) + 1)) /\ Len(issued) + 1 \in Nat
    BY <1>3, SMT DEF Session!Callback, SessionInv, SessionTypes
  <2> QED  BY <2>1, TurnsLoading, TurnsReplacing
<1>4. ASSUME NEW b \in Tab, NEW i \in Identity, Session!Login(b, i) PROVE SessionSpinners'
  BY <1>4, TurnsLogin
<1>5. ASSUME NEW b \in Tab, Session!FindUser(b) \/ Session!CreateUser(b) \/ Session!LoginFails(b)
      PROVE  SessionSpinners'
  BY <1>5, TurnsLogin
<1>6. ASSUME NEW b \in Tab, Session!MeAnswers(b) \/ Session!MeFails(b) PROVE SessionSpinners'
  BY <1>6, TurnsMe
<1>7. ASSUME NEW b \in Tab,
             Session!StatusAnswers(b) \/ Session!StatusFails(b)
             \/ Session!StatusUnauthorized(b) \/ Session!FetchStatus(b)
      PROVE  SessionSpinners'
  BY <1>7, TurnsStatus
<1> QED  BY <1>1, <1>2, <1>3, <1>4, <1>5, <1>6, <1>7 DEF Session!Next

LEMMA SpinnersStop == SessionSpinners => Session!SpinnerEnds
BY DEF SessionSpinners, Turns, Session!SpinnerEnds

-----------------------------------------------------------------------------
LEMMA SessionInit == Session!Init => SessionInv
<1> SUFFICES ASSUME Session!Init PROVE SessionInv
  OBVIOUS
<1>1. SessionTypes
  BY DEF Session!Init, SessionTypes
<1>2. ASSUME NEW b \in Tab
      PROVE  Sound(tab[b], issued, accounts) /\ Follows(tab[b], stored, issued)
  <2> DEFINE d == Session!Document("closed")
  <2>1. d \in DocType
    BY DEF Session!Document, DocType, Session!Page
  <2>2. /\ d.page = "closed" /\ d.login = Null /\ d.token = Null /\ d.user = Null
        /\ d.me = Null /\ d.status = Null /\ d.statusCall = Null
    BY DEF Session!Document
  <2>3. tab[b] = d
    BY <1>2 DEF Session!Init
  <2> HIDE DEF d
  <2> QED  BY <2>1, <2>2, <2>3 DEF Sound, Follows
<1> QED  BY <1>1, <1>2 DEF SessionInv, Documents

LEMMA SessionNext == SessionInv /\ [Session!Next]_(Session!vars) => SessionInv'
<1> SUFFICES ASSUME SessionInv, [Session!Next]_(Session!vars) PROVE SessionInv'
  OBVIOUS
<1>1. CASE UNCHANGED Session!vars
  BY <1>1 DEF Session!vars, SessionInv, SessionTypes, Documents
<1>2. ASSUME NEW b \in Tab, NEW opened \in {"home", "main"}, Session!Load(b, opened)
      PROVE  SessionInv'
  BY <1>2, LoadStep
<1>3. ASSUME NEW b \in Tab, NEW i \in Identity, Session!Login(b, i) PROVE SessionInv'
  BY <1>3, LoginStep
<1>4. ASSUME NEW b \in Tab, \/ Session!FindUser(b) \/ Session!CreateUser(b)
                            \/ Session!LoginFails(b) \/ Session!Callback(b)
      PROVE  SessionInv'
  BY <1>4, FindStep, CreateStep, LoginFailStep, CallbackStep
<1>5. ASSUME NEW b \in Tab, Session!MeAnswers(b) \/ Session!MeFails(b) PROVE SessionInv'
  BY <1>5, MeAnswersStep, MeFailsStep
<1>6. ASSUME NEW b \in Tab, Session!StatusAnswers(b) \/ Session!StatusFails(b)
             \/ Session!FetchStatus(b)
      PROVE  SessionInv'
  BY <1>6, StatusStep
<1>7. ASSUME NEW b \in Tab, Session!StatusUnauthorized(b) PROVE SessionInv'
  BY <1>7, StatusUnauthorizedStep
<1>8. ASSUME NEW t \in valid, Session!Expire(t) PROVE SessionInv'
  BY <1>8, ExpireStep
<1> QED  BY <1>1, <1>2, <1>3, <1>4, <1>5, <1>6, <1>7, <1>8 DEF Session!Next

-----------------------------------------------------------------------------
\* The invariant contains the types.
LEMMA SessionTyped == SessionInv => Session!TypeOK
<1> SUFFICES ASSUME SessionInv PROVE Session!TypeOK
  OBVIOUS
<1>1. \A b \in Tab : Sound(tab[b], issued, accounts)
  BY DEF SessionInv, Documents
<1>2. ASSUME NEW b \in Tab
      PROVE  /\ tab[b].page \in Session!Page /\ tab[b].token \in Session!Token \cup {Null}
             /\ tab[b].user \in Identity \cup {Null} /\ tab[b].status \in Identity \cup {Null}
             /\ tab[b].me # Null => tab[b].me = tab[b].token
             /\ tab[b].page # "main" => tab[b].status = Null
  BY <1>1 DEF Sound, DocType, Session!Token
<1> QED  BY <1>2 DEF SessionInv, SessionTypes, Session!TypeOK, Session!Token

-----------------------------------------------------------------------------
\* The settings and the invites have been proved in their modules.
Cards == INSTANCE SettingsProofs
           WITH db <- settings, call <- settingsCall, left <- settingsLeft,
                mishap <- settingsMishap
Inviting == INSTANCE InvitesProofs
              WITH loading <- invitesLoading, call <- inviteCall, mishap <- invitesMishap

\* The two instances of each of the two modules, the one of Parts and the one
\* that comes with its proofs, are the same: they have the same definitions.
LEMMA SameSettingsState ==
  /\ (Settings!Init <=> Cards!Init)
  /\ Settings!vars = Cards!vars
  /\ (Settings!NoneIsApart <=> Cards!NoneIsApart)
  /\ (Settings!CardShowsDb <=> Cards!CardShowsDb)
  /\ (Settings!SpinnerEnds <=> Cards!SpinnerEnds)
  /\ (Settings!TypeOK <=> Cards!TypeOK)
BY DEF Settings!TypeOK, Cards!TypeOK, Settings!Read, Cards!Read, Settings!Init,
       Cards!Init, Settings!vars, Cards!vars, Settings!NoneIsApart, Cards!NoneIsApart,
       Settings!CardShowsDb, Cards!CardShowsDb, Settings!SpinnerEnds,
       Cards!SpinnerEnds, Settings!Card, Cards!Card, Settings!Field, Cards!Field,
       Settings!Edited, Cards!Edited, Settings!NewCall, Cards!NewCall,
       Settings!PageCall, Cards!PageCall, Settings!Row, Cards!Row, Settings!Reason,
       Cards!Reason, Settings!NoCard, Cards!NoCard, Settings!NoEditor, Cards!NoEditor,
       Settings!Fetches, Cards!Fetches, Settings!Agrees, Cards!Agrees,
       Settings!Unnamed, Cards!Unnamed, Settings!Answers, Cards!Answers,
       Settings!Info, Cards!Info

LEMMA SameSettingsSteps == Settings!Next <=> Cards!Next
<1>1. \A f : Settings!Edit(f) <=> Cards!Edit(f)
  BY DEF Settings!Edit, Cards!Edit, Settings!CanEdit, Cards!CanEdit, Settings!Ready,
         Cards!Ready, Settings!Loading, Cards!Loading, Settings!Card, Cards!Card
<1>2. \A f : Settings!Cancel(f) <=> Cards!Cancel(f)
  BY DEF Settings!Cancel, Cards!Cancel, Settings!CanSave, Cards!CanSave, Settings!Ready,
         Cards!Ready, Settings!Loading, Cards!Loading, Settings!Card, Cards!Card
<1>3. \A r, f, v : Settings!Save(r, f, v) <=> Cards!Save(r, f, v)
  BY DEF Settings!Save, Cards!Save, Settings!CanSave, Cards!CanSave, Settings!Ready,
         Cards!Ready, Settings!Loading, Cards!Loading, Settings!Card, Cards!Card,
         Settings!CardOf, Cards!CardOf, Settings!NewCall, Cards!NewCall
<1>4. \A r, v : Settings!HomeSelect(r, v) <=> Cards!HomeSelect(r, v)
  BY DEF Settings!HomeSelect, Cards!HomeSelect, Settings!Ready, Cards!Ready,
         Settings!Loading, Cards!Loading, Settings!Card, Cards!Card, Settings!NewCall,
         Cards!NewCall
<1>5. \A r : Settings!BreakUp(r) <=> Cards!BreakUp(r)
  BY DEF Settings!BreakUp, Cards!BreakUp, Settings!NewCall, Cards!NewCall
<1>6. \A r : Settings!UpdateMe(r) <=> Cards!UpdateMe(r)
  BY DEF Settings!UpdateMe, Cards!UpdateMe, Settings!Sent, Cards!Sent, Settings!Stored,
         Cards!Stored, Settings!Answered, Cards!Answered, Settings!Answers,
         Cards!Answers, Settings!Card, Cards!Card, Settings!Info, Cards!Info,
         Settings!Read, Cards!Read, Settings!Note, Cards!Note, Settings!OldName,
         Cards!OldName, Settings!Renamed, Cards!Renamed, Settings!CardOfOldName,
         Cards!CardOfOldName
<1>7. \A r : Settings!UpdateCouple(r) <=> Cards!UpdateCouple(r)
  BY DEF Settings!UpdateCouple, Cards!UpdateCouple, Settings!Sent, Cards!Sent,
         Settings!Stored, Cards!Stored, Settings!Read, Cards!Read
<1>8. \A r : Settings!FindMe(r) <=> Cards!FindMe(r)
  BY DEF Settings!FindMe, Cards!FindMe, Settings!Sent, Cards!Sent, Settings!Answered,
         Cards!Answered, Settings!Answers, Cards!Answers, Settings!Card, Cards!Card,
         Settings!Info, Cards!Info, Settings!Read, Cards!Read
<1>9. \A r : Settings!FindInfo(r) <=> Cards!FindInfo(r)
  BY DEF Settings!FindInfo, Cards!FindInfo, Settings!InfoAsked, Cards!InfoAsked,
         Settings!Sent, Cards!Sent, Settings!Answered, Cards!Answered, Settings!Answers,
         Cards!Answers, Settings!Card, Cards!Card, Settings!Info, Cards!Info,
         Settings!Read, Cards!Read
<1>10. \A r : Settings!RunBreakUp(r) <=> Cards!RunBreakUp(r)
  BY DEF Settings!RunBreakUp, Cards!RunBreakUp, Settings!Sent, Cards!Sent,
         Settings!Answered, Cards!Answered, Settings!Answers, Cards!Answers,
         Settings!Card, Cards!Card, Settings!Info, Cards!Info, Settings!Read, Cards!Read
<1>11. \A r : Settings!FetchArrives(r) <=> Cards!FetchArrives(r)
  BY DEF Settings!FetchArrives, Cards!FetchArrives, Settings!Answer, Cards!Answer,
         Settings!Replace, Cards!Replace, Settings!Without, Cards!Without, Settings!Note,
         Cards!Note
<1>12. \A r : Settings!SaveArrives(r) <=> Cards!SaveArrives(r)
  BY DEF Settings!SaveArrives, Cards!SaveArrives, Settings!Answer, Cards!Answer,
         Settings!Replace, Cards!Replace, Settings!Without, Cards!Without, Settings!Note,
         Cards!Note, Settings!Edited, Cards!Edited
<1>13. \A r : Settings!BreakUpArrives(r) <=> Cards!BreakUpArrives(r)
  BY DEF Settings!BreakUpArrives, Cards!BreakUpArrives, Settings!Answer, Cards!Answer,
         Settings!Replace, Cards!Replace, Settings!Without, Cards!Without, Settings!Note,
         Cards!Note
<1>14. \A r : Settings!FetchFails(r) <=> Cards!FetchFails(r)
  BY DEF Settings!FetchFails, Cards!FetchFails, Settings!Drop, Cards!Drop,
         Settings!Without, Cards!Without, Settings!Note, Cards!Note
<1>15. \A r : Settings!SaveFails(r) <=> Cards!SaveFails(r)
  BY DEF Settings!SaveFails, Cards!SaveFails, Settings!Drop, Cards!Drop,
         Settings!Without, Cards!Without, Settings!Note, Cards!Note, Settings!Edited,
         Cards!Edited
<1>16. \A r : Settings!BreakUpFails(r) <=> Cards!BreakUpFails(r)
  BY DEF Settings!BreakUpFails, Cards!BreakUpFails, Settings!Drop, Cards!Drop,
         Settings!Without, Cards!Without, Settings!Note, Cards!Note
<1>17. Settings!AskBreakUp <=> Cards!AskBreakUp
  BY DEF Settings!AskBreakUp, Cards!AskBreakUp, Settings!Ready, Cards!Ready,
         Settings!Loading, Cards!Loading, Settings!Card, Cards!Card
<1>18. Settings!KeepCouple <=> Cards!KeepCouple
  BY DEF Settings!KeepCouple, Cards!KeepCouple
<1>19. Settings!Leave <=> Cards!Leave
  BY DEF Settings!Leave, Cards!Leave, Settings!NoCard, Cards!NoCard, Settings!Card,
         Cards!Card, Settings!NoEditor, Cards!NoEditor, Settings!Edited, Cards!Edited
<1>20. Settings!Remount <=> Cards!Remount
  <2>1. \A S : Settings!Cardinality(S) = Cards!Cardinality(S)
    BY DEF Settings!Cardinality, Cards!Cardinality
  <2> QED
    BY <2>1
       DEF Settings!Remount, Cards!Remount, Settings!NoCard, Cards!NoCard, Settings!Card,
           Cards!Card, Settings!NoEditor, Cards!NoEditor, Settings!Edited, Cards!Edited,
           Settings!Fetches, Cards!Fetches, Settings!NewCall, Cards!NewCall
<1>21. \A c : Settings!RunLeft(c) <=> Cards!RunLeft(c)
  BY DEF Settings!RunLeft, Cards!RunLeft, Settings!Unheard, Cards!Unheard, Settings!Note,
         Cards!Note, Settings!Read, Cards!Read, Settings!Changed, Cards!Changed,
         Settings!Card, Cards!Card, Settings!Answers, Cards!Answers, Settings!Info,
         Cards!Info, Settings!Stored, Cards!Stored
<1>22. \A row : Settings!PartnerWrites(row) <=> Cards!PartnerWrites(row)
  BY DEF Settings!PartnerWrites, Cards!PartnerWrites, Settings!Unheard, Cards!Unheard,
         Settings!Note, Cards!Note, Settings!Read, Cards!Read, Settings!Changed,
         Cards!Changed, Settings!Card, Cards!Card, Settings!Answers, Cards!Answers,
         Settings!Info, Cards!Info
<1> QED
  BY <1>1, <1>2, <1>3, <1>4, <1>5, <1>6, <1>7, <1>8, <1>9, <1>10, <1>11, <1>12, <1>13,
     <1>14, <1>15, <1>16, <1>17, <1>18, <1>19, <1>20, <1>21, <1>22
     DEF Settings!Next, Cards!Next, Settings!Edited, Cards!Edited

LEMMA SameInvitesState ==
  /\ (Invites!Init <=> Inviting!Init)
  /\ Invites!vars = Inviting!vars
  /\ (Invites!NoneIsApart <=> Inviting!NoneIsApart)
  /\ (Invites!SentIsPending <=> Inviting!SentIsPending)
  /\ (Invites!SpinnerEnds <=> Inviting!SpinnerEnds)
  /\ (Invites!TypeOK <=> Inviting!TypeOK)
BY DEF Invites!TypeOK, Inviting!TypeOK, Invites!Init, Inviting!Init, Invites!vars,
   Inviting!vars,
       Invites!NoneIsApart, Inviting!NoneIsApart, Invites!SentIsPending,
       Inviting!SentIsPending, Invites!SpinnerEnds, Inviting!SpinnerEnds,
       Invites!NewCall, Inviting!NewCall, Invites!rows, Inviting!rows, Invites!hook,
       Inviting!hook, Invites!tabs, Inviting!tabs, Invites!PageCall, Inviting!PageCall,
       Invites!Answer, Inviting!Answer, Invites!Active, Inviting!Active,
       Invites!Reason, Inviting!Reason

LEMMA SameInvitesSteps == Invites!Next <=> Inviting!Next
BY DEF Invites!Next, Inviting!Next, Invites!SwitchTab, Inviting!SwitchTab,
       Invites!DismissError, Inviting!DismissError, Invites!HandleAccept,
       Inviting!HandleAccept, Invites!HandleDecline, Inviting!HandleDecline,
       Invites!HandleSend, Inviting!HandleSend, Invites!HandleCancel,
       Inviting!HandleCancel, Invites!Run, Inviting!Run, Invites!FetchArrives,
       Inviting!FetchArrives, Invites!SearchArrives, Inviting!SearchArrives,
       Invites!SendArrives, Inviting!SendArrives, Invites!CancelArrives,
       Inviting!CancelArrives, Invites!AcceptArrives, Inviting!AcceptArrives,
       Invites!DeclineArrives, Inviting!DeclineArrives, Invites!FetchFails,
       Inviting!FetchFails, Invites!SendFails, Inviting!SendFails,
       Invites!CancelFails, Inviting!CancelFails, Invites!AcceptFails,
       Inviting!AcceptFails, Invites!DeclineFails, Inviting!DeclineFails,
       Invites!Other, Inviting!Other, Invites!Shows, Inviting!Shows, Invites!rows,
       Inviting!rows, Invites!hook, Inviting!hook, Invites!Process,
       Inviting!Process, Invites!NewCall, Inviting!NewCall, Invites!CanCancel,
       Inviting!CanCancel, Invites!GetSentInvite, Inviting!GetSentInvite,
       Invites!GetReceivedInvites, Inviting!GetReceivedInvites, Invites!RunSend,
       Inviting!RunSend, Invites!RunCancel, Inviting!RunCancel, Invites!RunAccept,
       Inviting!RunAccept, Invites!RunDecline, Inviting!RunDecline, Invites!tabs,
       Inviting!tabs, Invites!Active, Inviting!Active, Invites!Without,
       Inviting!Without, Invites!Reset, Inviting!Reset, Invites!Note, Inviting!Note,
       Invites!Failed, Inviting!Failed, Invites!ProcessFails, Inviting!ProcessFails,
       Invites!OtherInvites, Inviting!OtherInvites, Invites!OtherAnswers,
       Inviting!OtherAnswers, Invites!Ran, Inviting!Ran, Invites!OnTheWay,
       Inviting!OnTheWay

LEMMA Apart == Cards!NoneIsApart /\ Inviting!NoneIsApart
BY PartsAssumption, SameSettingsState, SameInvitesState

-----------------------------------------------------------------------------
\* The composition.  The components that rest in their initial state when they
\* are not chosen keep their invariant all the same.
Inv ==
  /\ TransitInv /\ OverlapInv /\ KeysInv
  /\ SessionInv /\ SessionSpinners
  /\ part = "search" => SearchInv
  /\ part = "photos" => PhotosInv
  /\ part = "calendar" => CalendarInv
  /\ part = "route" => RouteInv
  /\ part = "settings" => Cards!Inv
  /\ part = "invites" => Inviting!Inv

LEMMA InvInit == Init => Inv
<1> SUFFICES ASSUME Init PROVE Inv
  OBVIOUS
<1>1. Transit!Init /\ Overlap!Init /\ Keys!Init /\ Session!Init
  BY DEF Init, NoOverlap, NoKeys
<1>2. SessionInv /\ SessionSpinners
  BY <1>1, SessionInit, SpinnersStart
<1>3. part = "search" => SearchInv
  BY SearchInit DEF Init
<1>4. part = "route" => RouteInv
  BY RouteInit DEF Init
<1>5. part = "settings" => Cards!Inv
  BY Cards!InvInit, Apart, SameSettingsState DEF Init
<1>6. part = "invites" => Inviting!Inv
  BY Inviting!InvInit, Apart, SameInvitesState DEF Init
<1>7. part = "photos" => PhotosInv
  BY PhotosInit DEF Init
<1>8. part = "calendar" => CalendarInv
  BY CalendarInit DEF Init
<1> QED
  BY <1>1, <1>2, <1>3, <1>4, <1>5, <1>6, <1>7, <1>8, TransitInit, OverlapInit, KeysInit
     DEF Inv

LEMMA InvNext == Inv /\ [Next]_vars => Inv'
<1> SUFFICES ASSUME Inv, [Next]_vars PROVE Inv'
  OBVIOUS
<1>1. part' = part
  BY DEF Next, vars
<1>2. TransitInv'
  <2>1. [Transit!Next]_(Transit!vars)
    BY DEF Next, vars, transit, Transit!vars
  <2> QED  BY <2>1, TransitNext DEF Inv
<1>3. OverlapInv'
  <2>1. [Overlap!Next]_(Overlap!vars)
    BY DEF Next, vars, overlap, Overlap!vars
  <2> QED  BY <2>1, OverlapNext DEF Inv
<1>4. KeysInv'
  <2>1. [Keys!Next]_(Keys!vars)
    BY DEF Next, vars, keys, Keys!vars
  <2> QED  BY <2>1, KeysNext DEF Inv
<1>5. SessionInv' /\ SessionSpinners'
  <2>1. [Session!Next]_(Session!vars)
    BY DEF Next, vars, session, Session!vars
  <2> QED  BY <2>1, SessionNext, SpinnersStep DEF Inv
<1>6. ASSUME part = "search" PROVE SearchInv'
  <2>1. Search!Next \/ UNCHANGED search
    BY <1>6 DEF Next, vars
  <2>2. CASE Search!Next
    BY <1>6, <2>2, SearchNext DEF Inv
  <2>3. CASE UNCHANGED search
    BY <1>6, <2>3 DEF Inv, search, SearchInv, Search!TypeOK, Search!FoundForLatest,
                      Search!SpinnerEnds
  <2> QED  BY <2>1, <2>2, <2>3
<1>7. ASSUME part = "route" PROVE RouteInv'
  <2>1. Route!Next \/ UNCHANGED routeForm
    BY <1>7 DEF Next, vars
  <2>2. CASE Route!Next
    BY <1>7, <2>2, RouteNext DEF Inv
  <2>3. CASE UNCHANGED routeForm
    BY <1>7, <2>3 DEF Inv, routeForm, RouteInv, Route!TypeOK, Route!SpinnerEnds, AtRest,
                      Asked, Route!Idle
  <2> QED  BY <2>1, <2>2, <2>3
<1>8. ASSUME part = "settings" PROVE Cards!Inv'
  <2>1. [Settings!Next]_(Cards!vars)
    BY <1>8 DEF Next, vars, settingsTab, Cards!vars
  <2>2. [Cards!Next]_(Cards!vars) /\ Cards!NoneIsApart
    BY <2>1, SameSettingsSteps, Apart
  <2> QED  BY <1>8, <2>2, Cards!InvNext DEF Inv
<1>9. ASSUME part = "invites" PROVE Inviting!Inv'
  <2>1. [Invites!Next]_(Inviting!vars)
    BY <1>9 DEF Next, vars, invites, Inviting!vars, Inviting!rows, Inviting!hook,
                Inviting!tabs
  <2>2. [Inviting!Next]_(Inviting!vars) /\ Inviting!NoneIsApart
    BY <2>1, SameInvitesSteps, Apart
  <2> QED  BY <1>9, <2>2, Inviting!InvNext DEF Inv
<1>10. ASSUME part = "photos" PROVE PhotosInv'
  <2>1. Photos!Next \/ UNCHANGED photoTab
    BY <1>10 DEF Next, vars
  <2>2. CASE Photos!Next
    BY <1>10, <2>2, PhotosNext DEF Inv
  <2>3. CASE UNCHANGED photoTab
    BY <1>10, <2>3, PhotosRest DEF Inv
  <2> QED  BY <2>1, <2>2, <2>3
<1>11. ASSUME part = "calendar" PROVE CalendarInv'
  <2>1. [Calendar!Next]_(Calendar!vars)
    BY <1>11 DEF Next, vars, calendar, Calendar!vars, Calendar!hook, Calendar!modal
  <2> QED  BY <1>11, <2>1, CalendarNext DEF Inv
<1> QED
  BY <1>1, <1>2, <1>3, <1>4, <1>5, <1>6, <1>7, <1>8, <1>9, <1>10, <1>11 DEF Inv

LEMMA Invariance == Spec => []Inv
BY InvInit, InvNext, PTL DEF Spec

-----------------------------------------------------------------------------
\* The state of every component keeps its type.
THEOREM PartsAreTyped == Spec => []TypeOK
<1>1. ASSUME Inv PROVE TypeOK
  <2>1. Transit!TypeOK /\ Overlap!TypeOK /\ Keys!TypeOK
    BY <1>1 DEF Inv, TransitInv, OverlapInv, KeysInv
  <2>2. /\ part = "search" => Search!TypeOK
        /\ part = "photos" => Photos!TypeOK
        /\ part = "calendar" => Calendar!TypeOK
        /\ part = "route" => Route!TypeOK
    BY <1>1 DEF Inv, SearchInv, PhotosInv, CalendarInv, RouteInv
  <2>3. part = "settings" => Settings!TypeOK
    BY <1>1, Cards!InvShows, Apart, SameSettingsState DEF Inv
  <2>4. part = "invites" => Invites!TypeOK
    BY <1>1, Inviting!InvShows, Apart, SameInvitesState DEF Inv
  <2>5. Session!TypeOK
    BY <1>1, SessionTyped DEF Inv
  <2> QED  BY <2>1, <2>2, <2>3, <2>4, <2>5 DEF TypeOK
<1> QED  BY <1>1, Invariance, PTL

\* fetchWithCache: what is served is for the trip and the bucket asked for.
THEOREM AnswersAreInBucket == Spec => []AnswerInBucket
<1>1. Inv => AnswerInBucket
  BY InBucketThen DEF Inv
<1> QED  BY <1>1, Invariance, PTL

\* findOverlapStations pairs alike stations, each at most once, ...
THEOREM PairsAreAMatching == Spec => [](Overlap!OverlapIsMatching /\ Overlap!NamesFirst)
<1>1. Inv => Overlap!OverlapIsMatching /\ Overlap!NamesFirst
  BY DEF Inv, OverlapInv
<1> QED  BY <1>1, Invariance, PTL

\* ... and as many as it can without undoing a choice.
THEOREM PairsAreMaximal == Spec => []Overlap!OverlapIsMaximal
<1>1. Inv => Overlap!OverlapIsMaximal
  BY Maximal DEF Inv
<1> QED  BY <1>1, Invariance, PTL

\* findMeetupStation picks the station with the smallest combined order.
THEOREM MeetupsAreSoonest == Spec => []MeetupIsSoonest
<1>1. Inv => MeetupIsSoonest
  BY Soonest, SoonestThen DEF Inv
<1> QED  BY <1>1, Invariance, PTL

\* The two analyses of a couple agree on whether there is a meetup.
THEOREM BothMeetOrNeither == Spec => []AgreeToMeet
<1>1. Inv => AgreeToMeet
  BY Agreement DEF Inv
<1> QED  BY <1>1, Invariance, PTL

\* The rows and the key ring keep their types across edits and restarts.
THEOREM KeysAreTyped == Spec => []Keys!TypeOK
<1>1. Inv => Keys!TypeOK
  BY DEF Inv, KeysInv
<1> QED  BY <1>1, Invariance, PTL

\* createMessage never stores what was sealed without a key.
THEOREM MessagesAreSealed == Spec => []Keys!SealedWithAKey
<1>1. Inv => Keys!SealedWithAKey
  BY DEF Inv, KeysInv
<1> QED  BY <1>1, Invariance, PTL

\* fetchMessages fails only for a message whose key an edit took away.
THEOREM PagesFailForLostKeys == Spec => []PageFailsForLostKeyOnly
<1>1. Inv => PageFailsForLostKeyOnly
  BY DEF Inv, KeysInv, Keys!PageFailsForLostKeyOnly, PageFailsForLostKeyOnly
<1> QED  BY <1>1, Invariance, PTL

\* usePoiSearch shows what the last keyword finds, or nothing, whatever answers
\* and rejections of earlier calls come in, and in which order.
THEOREM FoundIsForLatest == Spec => []FoundForLatest
<1>1. Inv => FoundForLatest
  BY DEF Inv, SearchInv, FoundForLatest
<1> QED  BY <1>1, Invariance, PTL

\* usePhotos shows the rows down to its cursor, each once and none before one of a
\* later upload, and all of them once there is no more, when nothing is under way
\* and no mishap was noted: whatever order pages, uploads of several files and
\* deletions were asked for and answered in, and however often the tab was left.
THEOREM PhotosShowRows == Spec => []PhotosAreRows
<1>1. Inv => PhotosAreRows
  BY PhotosShow DEF Inv, PhotosAreRows
<1> QED  BY <1>1, Invariance, PTL

\* useEvents shows the rows of the month, each once, when no call is under way and
\* no mishap was noted, whatever fetches and writes came before.
THEOREM CalendarShowsRows == Spec => []CalendarIsCurrent
<1>1. Inv => CalendarIsCurrent
  BY CalendarShows DEF Inv, CalendarIsCurrent
<1> QED  BY <1>1, Invariance, PTL

\* useCoupleRoute shows the route of the event in the form, unless the calls for
\* two forms have crossed.
THEOREM RoutesAreForSelected == Spec => []RouteIsForSelected
<1>1. Inv => RouteIsForSelected
  BY RouteShows DEF Inv, RouteIsForSelected
<1> QED  BY <1>1, Invariance, PTL

\* The cards of the settings show what the server would answer, the name of a user
\* without a nickname included, unless a mishap was noted.
THEOREM CardsShowRows == Spec => []CardShowsDb
<1>1. Inv => CardShowsDb
  BY Cards!InvShows, Apart, SameSettingsState DEF Inv, CardShowsDb
<1> QED  BY <1>1, Invariance, PTL

\* useCoupleInvite shows the invite that is pending, unless a mishap was noted.
THEOREM SentInvitesArePending == Spec => []SentIsPending
<1>1. Inv => SentIsPending
  BY Inviting!InvShows, Apart, SameInvitesState DEF Inv, SentIsPending
<1> QED  BY <1>1, Invariance, PTL

\* No hook or page of the five that wait for calls is left with its spinner: the
\* search, the route, the settings, the invites and the session.
THEOREM SpinnersEnd == Spec => []NoSpinnerHangs
<1>1. ASSUME Inv PROVE NoSpinnerHangs
  <2>1. part = "search" => Search!SpinnerEnds
    BY <1>1 DEF Inv, SearchInv
  <2>2. part = "route" => Route!SpinnerEnds
    BY <1>1 DEF Inv, RouteInv
  <2>3. part = "settings" => Settings!SpinnerEnds
    BY <1>1, Cards!InvShows, Apart, SameSettingsState DEF Inv
  <2>4. part = "invites" => Invites!SpinnerEnds
    BY <1>1, Inviting!InvShows, Apart, SameInvitesState DEF Inv
  <2>5. Session!SpinnerEnds
    BY <1>1, SpinnersStop DEF Inv
  <2> QED  BY <2>1, <2>2, <2>3, <2>4, <2>5 DEF NoSpinnerHangs
<1> QED  BY <1>1, Invariance, PTL

\* SessionIsOwn: whatever the tabs do to each other's localStorage, the user of
\* a tab is the account of its token, and in a tab no other has interfered with
\* the status is that account's too (AuthContext.tsx, main/page.tsx).
THEOREM SessionsAreOwn == Spec => []SessionIsOwn
<1>1. Inv => SessionIsOwn
  BY DEF Inv, SessionInv, Documents, Sound, Follows, SessionIsOwn
<1> QED  BY <1>1, Invariance, PTL
=============================================================================
