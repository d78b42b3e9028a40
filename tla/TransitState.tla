---------------------------- MODULE TransitState ----------------------------
(***************************************************************************)
(* The parameters and the state of Transit, and what it promises.          *)
(***************************************************************************)
EXTENDS Integers, FiniteSets

CONSTANTS
  Trip,
  Call,            \* runs of fetchWithCache that may overlap
  Horizon,         \* bound on the time
  DefaultMinutes,  \* CACHE_BUCKET_MINUTES
  Minutes,         \* the bucketMinutes a caller may pass, besides none
  Later,           \* how much later than its lookup a call may reach Tmap
  MaxEntries,      \* bound on the entries in Redis
  None

ASSUME TransitAssumption ==
  /\ Horizon \in Nat /\ DefaultMinutes \in Int /\ Later \in Nat
  /\ Minutes \subseteq Int /\ None \notin Int

Time == 0 .. Horizon

VARIABLES
  now,     \* the clock of the server
  cache,   \* the Redis entries: keys with their routes
  query,   \* query[c]: what c was called with
  base,    \* base[c]: the time that chose the bucket of c
  pc,      \* the await c is suspended at
  route    \* route[c]: the route c has in hand

\* resolveBucketMinutes; a value below one is refused.
BucketMinutes(m) == IF m = None THEN DefaultMinutes ELSE m
ValidMinutes(m) == BucketMinutes(m) >= 1

\* getBucketInfo: the first minute of the bucket of n minutes with this time.
BucketStart(time, n) == (time \div n) * n

\* Route x is for the bucket of n minutes from start on: it arrives within the
\* bucket, or leaves within it or at most Later minutes after it.
InBucket(x, start, n) ==
  /\ start <= x.at
  /\ x.at < start + n + (IF x.leaves THEN Later ELSE 0)

\* Whichever call fetched a route, with whatever arrival time and bucket size,
\* before this call or while it ran: what a call is served is for its own trip
\* and for the bucket of its own time.  So it is off by less than the size of
\* the bucket (and Later), though neither key nor entry holds an arrival time.
AnswerInBucket ==
  \A c \in Call : pc[c] = "served" =>
    LET n == BucketMinutes(query[c].minutes)
    IN  /\ route[c].trip = query[c].trip
        /\ InBucket(route[c], BucketStart(base[c], n), n)
=============================================================================
