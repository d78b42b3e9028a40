----------------------------- MODULE ChatProofs -----------------------------
(***************************************************************************)
(* No message is lost on its way to the tab, none is in its list twice,    *)
(* and none is taken for one that is there although it is not: for any     *)
(* number of messages and any limits.                                      *)
(*                                                                         *)
(* A message is Open when the tab neither shows it nor will find it by     *)
(* scrolling up, though nothing irreparable happened to it.  Accounted     *)
(* says where an open message is: a resync will answer with it, or it is   *)
(* on its way with nothing later before it, at or after the message the    *)
(* tab has last seen, so that the next resync would find it.  This is      *)
(* inductive with what the jobs, the packets and the answers to the tab's  *)
(* reads are known to hold (Stored, Connection, InTurn, PageKnows,         *)
(* OlderKnows), and with the agreement of list and seen ids (Inv).         *)
(***************************************************************************)
EXTENDS Chat, FiniteSetTheorems, WellFoundedInduction, TLAPS

\* Every set of numbers that is not empty has a smallest one.
LEMMA Smallest ==
  ASSUME NEW S \in SUBSET Nat, S # {}
  PROVE  \E x \in S : \A y \in S : x <= y
<1> DEFINE R == {p \in Nat \X Nat : p[1] < p[2]}
<1>1. IsWellFoundedOn(R, Nat)
  BY NatLessThanWellFounded DEF OpToRel
<1>2. PICK x \in S : \A y \in S : ~ (<<y, x>> \in R)
  <2> HIDE DEF R
  <2> QED  BY <1>1, WFMin
<1>3. \A y \in S : ~ (y < x)
  BY <1>2
<1> QED  BY <1>3

LEMMA Sizes ==
  /\ N \in Nat /\ Msgs \subseteq Nat /\ Msgs \subseteq 0 .. N
  /\ HistoryLimit \in Nat \ {0} /\ OlderLimit \in Nat \ {0}
BY SizeAssumption DEF Msgs

\* Turned around, for the numbers up to N.
LEMMA Largest ==
  ASSUME NEW S \in SUBSET (0 .. N), S # {}
  PROVE  \E x \in S : \A y \in S : x >= y
<1> DEFINE D == {N - x : x \in S}
<1>1. N \in Nat /\ \A x \in S : x \in Nat /\ x <= N
  BY Sizes
<1>2. D \in SUBSET Nat /\ D # {}
  <2>1. \A x \in S : N - x \in Nat
    BY <1>1
  <2> QED  BY <2>1
<1>3. PICK d \in D : \A e \in D : d <= e
  <2> HIDE DEF D
  <2> QED  BY <1>2, Smallest
<1>4. PICK x \in S : d = N - x
  BY <1>3
<1>5. \A y \in S : N - x <= N - y
  BY <1>3, <1>4
<1>6. \A y \in S : x >= y
  BY <1>1, <1>5
<1> QED  BY <1>6

LEMMA MinIs ==
  ASSUME NEW S \in SUBSET Nat, S # {}
  PROVE  Min(S) \in S /\ \A y \in S : Min(S) <= y
BY Smallest DEF Min

LEMMA MaxIs ==
  ASSUME NEW S \in SUBSET (0 .. N), S # {}
  PROVE  Max(S) \in S /\ \A y \in S : Max(S) >= y
BY Largest DEF Max

\* What is not among the newest n is older than all of them, and they are n.
LEMMA NewestIs ==
  ASSUME NEW ms \in SUBSET Msgs, NEW n \in Nat \ {0}
  PROVE  /\ Newest(ms, n) \subseteq ms
         /\ \A m \in ms : \/ m \in Newest(ms, n)
                          \/ /\ Cardinality(Newest(ms, n)) >= n
                             /\ \A x \in Newest(ms, n) : m < x
<1> DEFINE Above(m) == {x \in ms : x > m}
<1>1. IsFiniteSet(ms) /\ N \in Nat /\ ms \subseteq Nat
  <2>1. IsFiniteSet(Msgs)
    BY Sizes, FS_Interval DEF Msgs
  <2> QED  BY <2>1, Sizes, FS_Subset
<1>2. \A m \in ms : IsFiniteSet(Above(m)) /\ Cardinality(Above(m)) \in Nat
  BY <1>1, FS_Subset, FS_CardinalityType
<1>3. Newest(ms, n) = {m \in ms : Cardinality(Above(m)) < n}
  BY DEF Newest
<1> SUFFICES ASSUME NEW m \in ms, m \notin Newest(ms, n)
             PROVE  /\ Cardinality(Newest(ms, n)) >= n
                    /\ \A x \in Newest(ms, n) : m < x
  BY <1>3
<1>4. ASSUME NEW x \in Newest(ms, n) PROVE m < x
  <2> SUFFICES ASSUME x <= m PROVE FALSE
    <3>1. x \in Nat /\ m \in Nat
      BY <1>1, <1>3
    <3> QED  BY <3>1
  <2>1. Above(m) \subseteq Above(x)
    <3>1. x \in Nat /\ m \in Nat
      BY <1>1, <1>3
    <3>2. \A y \in Nat : y > m => y > x
      BY <3>1
    <3> QED  BY <1>1, <3>2
  <2>2. Cardinality(Above(m)) <= Cardinality(Above(x))
    <3> HIDE DEF Above
    <3> QED  BY <1>2, <1>3, <2>1, FS_Subset
  <2>3. Cardinality(Above(x)) < n /\ ~ (Cardinality(Above(m)) < n)
    BY <1>3
  <2>4. Cardinality(Above(m)) \in Nat /\ Cardinality(Above(x)) \in Nat
    BY <1>2, <1>3
  <2> HIDE DEF Above
  <2> QED  BY <2>2, <2>3, <2>4
<1>5. Cardinality(Newest(ms, n)) >= n
  <2> DEFINE D == ms \ Newest(ms, n)
  <2>1. D \in SUBSET (0 .. N) /\ D # {}
    BY Sizes
  <2>2. PICK d \in D : \A y \in D : d >= y
    <3> HIDE DEF D
    <3> QED  BY <2>1, Largest
  <2>3. Above(d) \subseteq Newest(ms, n)
    <3>1. \A y \in D : ~ (y > d)
      BY <1>1, <2>2
    <3> QED  BY <3>1
  <2>4. ~ (Cardinality(Above(d)) < n)
    BY <1>3
  <2>5. IsFiniteSet(Newest(ms, n)) /\ Cardinality(Newest(ms, n)) \in Nat
    BY <1>1, <1>3, FS_Subset, FS_CardinalityType
  <2>6. Cardinality(Above(d)) <= Cardinality(Newest(ms, n))
    <3> HIDE DEF Above
    <3> QED  BY <2>3, <2>5, FS_Subset
  <2> QED
    BY <1>2, <2>4, <2>5, <2>6
<1> QED  BY <1>4, <1>5
\* RemoveAt, element by element.
LEMMA Removed ==
  ASSUME NEW T, NEW s \in Seq(T), NEW i \in DOMAIN s
  PROVE  /\ RemoveAt(s, i) \in Seq(T)
         /\ Len(RemoveAt(s, i)) = Len(s) - 1
         /\ \A j \in 1 .. Len(s) - 1 :
              RemoveAt(s, i)[j] = IF j < i THEN s[j] ELSE s[j + 1]
<1> DEFINE a == SubSeq(s, 1, i - 1)
           b == SubSeq(s, i + 1, Len(s))
<1>1. i \in 1 .. Len(s) /\ Len(s) \in Nat
  OBVIOUS
<1>2. /\ a \in Seq(T) /\ Len(a) = i - 1
      /\ \A j \in 1 .. i - 1 : a[j] = s[j]
  BY <1>1
<1>3. /\ b \in Seq(T) /\ Len(b) = Len(s) - i
      /\ \A j \in 1 .. Len(s) - i : b[j] = s[i + j]
  BY <1>1
<1>4. RemoveAt(s, i) = a \o b
  BY DEF RemoveAt
<1> HIDE DEF a, b
<1>5. /\ a \o b \in Seq(T) /\ Len(a \o b) = Len(s) - 1
      /\ \A j \in 1 .. Len(s) - 1 :
           (a \o b)[j] = IF j <= Len(a) THEN a[j] ELSE b[j - Len(a)]
  BY <1>1, <1>2, <1>3
<1>6. ASSUME NEW j \in 1 .. Len(s) - 1
      PROVE  (a \o b)[j] = IF j < i THEN s[j] ELSE s[j + 1]
  <2>1. CASE j < i
    BY <1>1, <1>2, <1>5, <2>1
  <2>2. CASE ~ (j < i)
    <3>1. (a \o b)[j] = b[j - (i - 1)] /\ j - (i - 1) \in 1 .. Len(s) - i
      BY <1>1, <1>2, <1>5, <2>2
    <3>2. b[j - (i - 1)] = s[i + (j - (i - 1))] /\ i + (j - (i - 1)) = j + 1
      BY <1>1, <1>3, <3>1
    <3> QED  BY <2>2, <3>1, <3>2
  <2> QED  BY <2>1, <2>2
<1> QED
  BY <1>4, <1>5, <1>6

LEMMA TriedAgain ==
  ASSUME NEW j \in Job, j.tries < Attempts
  PROVE  [j EXCEPT !.tries = @ + 1] \in Job
<1>1. Attempts \in Nat
  BY SizeAssumption
<1>2. j.tries \in 1 .. Attempts
  BY DEF Job
<1>3. j.tries + 1 \in 1 .. Attempts
  BY <1>1, <1>2
<1> QED
  BY <1>3 DEF Job

-----------------------------------------------------------------------------
(* Type correctness. *)

LEMMA TypeInit == Init => TypeOK
<1> SUFFICES ASSUME Init PROVE TypeOK
  OBVIOUS
<1>1. db \subseteq Msgs
  BY Sizes DEF Init, Msgs
<1>2. list \in [Ids -> Nat]
  BY DEF Init
<1>3. queue \in Seq(Job) /\ wire \in Seq(Packet)
  BY DEF Init
<1>4. /\ toEnqueue = {} /\ delayed = {} /\ sock = "connecting" /\ sync = "none"
      /\ since = 0 /\ seen = {} /\ lastSeen = 0 /\ outbox = {} /\ history = "asked"
      /\ page = {} /\ older = "idle" /\ olderBefore = 0 /\ olderPage = {} /\ strays = {}
  BY DEF Init
<1>5. timer = FALSE /\ hasMore = TRUE
  BY DEF Init
<1>6. 0 \in 0 .. N
  BY Sizes
<1>7. timer \in BOOLEAN /\ hasMore \in BOOLEAN
  BY <1>5
<1> QED  BY <1>1, <1>2, <1>3, <1>4, <1>6, <1>7 DEF TypeOK

LEMMA TypeShow ==
  ASSUME TypeOK, NEW ms \in SUBSET Msgs, Show(ms)
  PROVE  /\ list' \in [Ids -> Nat] /\ seen' \subseteq Ids
         /\ lastSeen' \in 0 .. N /\ strays' \subseteq Msgs
<1> DEFINE new == {m \in ms : <<"server", m>> \notin seen}
<1>1. /\ seen' = seen \union Server(new)
      /\ list' = [id \in Ids |-> IF id \in Server(new) THEN list[id] + 1 ELSE list[id]]
      /\ lastSeen' = Max(new \union {lastSeen})
      /\ strays' = strays \union Skipped(new)
  BY DEF Show
<1>2. new \subseteq Msgs /\ Server(new) \subseteq Ids
  BY DEF Server, Ids
<1>3. Skipped(new) \subseteq Msgs
  BY DEF Skipped, TypeOK
<1>4. new \union {lastSeen} \subseteq 0 .. N
  BY <1>2, Sizes DEF TypeOK
<1>5. lastSeen' \in 0 .. N
  <2> HIDE DEF new
  <2> QED  BY <1>1, <1>4, MaxIs
<1> HIDE DEF new
<1>6. list' \in [Ids -> Nat]
  BY <1>1 DEF TypeOK
<1> QED  BY <1>1, <1>2, <1>3, <1>5, <1>6 DEF TypeOK

LEMMA TypeNext == TypeOK /\ [Next]_vars => TypeOK'
<1> SUFFICES ASSUME TypeOK, [Next]_vars PROVE TypeOK'
  OBVIOUS
<1> USE DEF service, socket, shown, paging, first
<1>1. ASSUME NEW m \in Msgs, SendMine(m) PROVE TypeOK'
  <2>1. Client(m) \in Ids /\ Skipped({m}) \subseteq Msgs
    BY DEF Client, Ids, Skipped, TypeOK
  <2>2. list' \in [Ids -> Nat]
    BY <1>1, <2>1 DEF SendMine, TypeOK
  <2> QED  BY <1>1, <2>1, <2>2 DEF SendMine, TypeOK
<1>2. ASSUME NEW m \in Msgs, Store(m) PROVE TypeOK'
  BY <1>2 DEF Store, TypeOK
<1>3. ASSUME NEW m \in Msgs, Enqueue(m) PROVE TypeOK'
  <2>1. [msg |-> m, tries |-> 1, stalled |-> FALSE] \in Job
    BY SizeAssumption DEF Job
  <2>2. queue' \in Seq(Job)
    BY <1>3, <2>1 DEF Enqueue, TypeOK
  <2> QED  BY <1>3, <2>2 DEF Enqueue, TypeOK
<1>4. ASSUME NEW m \in Msgs, EnqueueFails(m) PROVE TypeOK'
  BY <1>4 DEF EnqueueFails, TypeOK
<1>5. ASSUME queue # << >>
      PROVE  /\ Head(queue) \in Job /\ Tail(queue) \in Seq(Job)
             /\ Head(queue).msg \in Msgs
  <2>1. Head(queue) \in Job /\ Tail(queue) \in Seq(Job)
    BY <1>5 DEF TypeOK
  <2> QED  BY <2>1 DEF Job
<1>6. ASSUME NEW m \in Msgs, Emit(m) PROVE wire' \in Seq(Packet)
  <2>1. [kind |-> "message", msgs |-> {m}] \in Packet
    BY DEF Packet
  <2> QED  BY <1>6, <2>1 DEF Emit, TypeOK
<1>7. CASE Publish
  BY <1>5, <1>6, <1>7 DEF Publish, TypeOK
<1>8. CASE PublishStalls
  <2>1. [Head(queue) EXCEPT !.stalled = TRUE] \in Job
    BY <1>5, <1>8 DEF PublishStalls, Job
  <2>2. queue' \in Seq(Job)
    <3> DEFINE job == [Head(queue) EXCEPT !.stalled = TRUE]
    <3>1. queue' = Append(Tail(queue), job) /\ Tail(queue) \in Seq(Job)
      BY <1>5, <1>8 DEF PublishStalls
    <3> HIDE DEF job
    <3>2. job \in Job
      BY <2>1 DEF job
    <3> QED  BY <3>1, <3>2
  <2> QED  BY <1>5, <1>6, <1>8, <2>2 DEF PublishStalls, TypeOK
<1>9. CASE PublishFails
  <2>1. Head(queue).tries < Attempts => [Head(queue) EXCEPT !.tries = @ + 1] \in Job
    BY <1>5, <1>9, TriedAgain DEF PublishFails
  <2>2. delayed' \subseteq Job
    BY <1>9, <2>1 DEF PublishFails, TypeOK
  <2> QED  BY <1>5, <1>9, <2>2 DEF PublishFails, TypeOK
<1>10. CASE PublishUnheard
  BY <1>5, <1>10 DEF PublishUnheard, TypeOK
<1>11. ASSUME NEW job \in delayed, Retry(job) PROVE TypeOK'
  BY <1>11 DEF Retry, TypeOK
<1>12. CASE SyncRead
  <2>1. Resync(since) \subseteq Msgs
    BY DEF Resync, Newest, Oldest, TypeOK
  <2>2. [kind |-> "synced", msgs |-> Resync(since)] \in Packet
    BY <2>1 DEF Packet
  <2>3. wire' \in Seq(Packet)
    BY <1>12, <2>2 DEF SyncRead, TypeOK
  <2> QED  BY <1>12, <2>3 DEF SyncRead, TypeOK, Missing
<1>13. CASE SyncFails
  <2>1. wire' \in Seq(Packet)
    BY <1>13, Removed DEF SyncFails, TypeOK
  <2> QED  BY <1>13, <2>1 DEF SyncFails, TypeOK, Missing
<1>14. CASE Connect
  BY <1>14 DEF Connect, TypeOK
<1>15. CASE ConnectFails
  BY <1>15 DEF ConnectFails, TypeOK
<1>16. CASE TimerFires
  BY <1>16 DEF TimerFires, TypeOK
<1>17. CASE Disconnect
  BY <1>17 DEF Disconnect, TypeOK, Missing
<1>18. CASE Receive
  <2>1. Head(wire) \in Packet /\ Tail(wire) \in Seq(Packet)
    BY <1>18 DEF Receive, TypeOK
  <2>2. PICK ms \in SUBSET Msgs : Show(ms)
    BY <1>18, <2>1 DEF Receive, Packet
  <2> QED  BY <1>18, <2>1, <2>2, TypeShow DEF Receive, TypeOK
<1>19. CASE HistoryRead
  BY <1>19 DEF HistoryRead, TypeOK, Newest
<1>20. CASE HistoryApply
  <2>1. Server(page) \subseteq Ids
    BY DEF Server, Ids, TypeOK
  <2>2. lastSeen' \in 0 .. N
    BY <1>20, Sizes, MaxIs DEF HistoryApply, TypeOK
  <2>3. list' \in [Ids -> Nat]
    BY <1>20 DEF HistoryApply
  <2> QED  BY <1>20, <2>1, <2>2, <2>3 DEF HistoryApply, TypeOK
<1>21. CASE HistoryFails
  BY <1>21 DEF HistoryFails, TypeOK
<1>22. CASE AskOlder
  <2>1. Stamps \subseteq Msgs
    BY DEF Stamps, Ids
  <2>2. olderBefore' \in 0 .. N
    BY <1>22, <2>1, Sizes, MinIs DEF AskOlder
  <2> QED  BY <1>22, <2>2 DEF AskOlder, TypeOK
<1>23. CASE OlderRead
  BY <1>23 DEF OlderRead, TypeOK, Newest
<1>24. CASE OlderApply
  <2> DEFINE new == {m \in olderPage : <<"server", m>> \notin seen}
  <2>1. /\ list' = [id \in Ids |-> IF id \in Server(new) THEN list[id] + 1 ELSE list[id]]
        /\ seen' = seen \union Server(new)
    BY <1>24 DEF OlderApply
  <2>2. Server(new) \subseteq Ids
    BY DEF Server, Ids, TypeOK
  <2> HIDE DEF new
  <2>3. list' \in [Ids -> Nat]
    BY <2>1 DEF TypeOK
  <2>4. seen' \subseteq Ids
    BY <2>1, <2>2 DEF TypeOK
  <2>5. strays' \subseteq Msgs /\ hasMore' \in BOOLEAN
    BY <1>24 DEF OlderApply, TypeOK
  <2> QED  BY <1>24, <2>3, <2>4, <2>5, Sizes DEF OlderApply, TypeOK
<1>25. CASE OlderFails
  BY <1>25, Sizes DEF OlderFails, TypeOK
<1>26. CASE UNCHANGED vars
  BY <1>26 DEF vars, TypeOK
<1> QED
  BY <1>1, <1>2, <1>3, <1>4, <1>7, <1>8, <1>9, <1>10, <1>11, <1>12, <1>13, <1>14, <1>15,
     <1>16, <1>17, <1>18, <1>19, <1>20, <1>21, <1>22, <1>23, <1>24, <1>25, <1>26 DEF Next

\* A message that was shown when it was sent is on its way to the service or
\* there, so that it is not sent again.
SentIsKnown == \A m \in Msgs : Client(m) \in seen => m \in db \union outbox

Inv ==
  /\ list = [id \in Ids |-> list[id]]
  /\ ListIsSeen
  /\ SentIsKnown

LEMMA InvInit == Init => Inv
BY DEF Init, Inv, ListIsSeen, SentIsKnown

\* Whatever is not seen is added to the list and to the seen ids at once.
LEMMA AddNew ==
  ASSUME Inv, NEW new,
         \A m \in new : <<"server", m>> \notin seen,
         seen' = seen \union Server(new),
         list' = [id \in Ids |-> IF id \in Server(new) THEN list[id] + 1 ELSE list[id]],
         db' = db, outbox' = outbox
  PROVE  Inv'
<1>1. \A id \in Server(new) : id \notin seen
  BY DEF Server
<1>2. \A m \in Msgs : Client(m) \notin Server(new)
  BY DEF Client, Server
<1>3. ListIsSeen'
  BY <1>1 DEF Inv, ListIsSeen
<1>4. SentIsKnown'
  BY <1>2 DEF Inv, SentIsKnown, Client
<1> QED
  BY <1>3, <1>4 DEF Inv

LEMMA ShowKeeps ==
  ASSUME Inv, NEW ms, Show(ms), db' = db, outbox' = outbox
  PROVE  Inv'
<1> DEFINE new == {m \in ms : <<"server", m>> \notin seen}
<1>1. /\ seen' = seen \union Server(new)
      /\ list' = [id \in Ids |-> IF id \in Server(new) THEN list[id] + 1 ELSE list[id]]
  BY DEF Show
<1>2. \A m \in new : <<"server", m>> \notin seen
  OBVIOUS
<1> HIDE DEF new
<1> QED
  BY <1>1, <1>2, AddNew

LEMMA SendMineKeeps ==
  ASSUME Inv, NEW m \in Msgs, SendMine(m)
  PROVE  Inv'
<1>1. /\ m \notin db \union outbox /\ outbox' = outbox \union {m} /\ db' = db
      /\ seen' = seen \union {Client(m)}
      /\ list' = [list EXCEPT ![Client(m)] = @ + 1]
  BY DEF SendMine, service
<1>2. Client(m) \in Ids /\ Client(m) \notin seen
  BY <1>1 DEF Inv, SentIsKnown, Client, Ids
<1>3. list[Client(m)] = 0
  BY <1>2 DEF Inv, ListIsSeen
<1>4. ListIsSeen'
  BY <1>1, <1>2, <1>3 DEF Inv, ListIsSeen
<1>5. SentIsKnown'
  BY <1>1 DEF Inv, SentIsKnown, Client
<1>6. list' = [id \in Ids |-> list'[id]]
  BY <1>1 DEF Inv
<1> QED
  BY <1>4, <1>5, <1>6 DEF Inv

LEMMA ReceiveKeeps ==
  ASSUME Inv, Receive
  PROVE  Inv'
<1>1. db' = db /\ outbox' = outbox
  BY DEF Receive, service
<1>2. PICK ms : Show(ms)
  BY DEF Receive
<1> QED
  BY <1>1, <1>2, ShowKeeps

LEMMA HistoryApplyKeeps ==
  ASSUME Inv, HistoryApply
  PROVE  Inv'
<1>1. /\ list' = [id \in Ids |-> IF id \in Server(page) THEN 1 ELSE 0]
      /\ seen' = Server(page)
      /\ db' = db /\ outbox' = outbox
  BY DEF HistoryApply, service
<1>2. \A m \in Msgs : Client(m) \notin Server(page)
  BY DEF Client, Server
<1> QED
  BY <1>1, <1>2 DEF Inv, ListIsSeen, SentIsKnown, Client

LEMMA OlderApplyKeeps ==
  ASSUME Inv, OlderApply
  PROVE  Inv'
<1> DEFINE new == {m \in olderPage : <<"server", m>> \notin seen}
<1>1. /\ seen' = seen \union Server(new)
      /\ list' = [id \in Ids |-> IF id \in Server(new) THEN list[id] + 1 ELSE list[id]]
      /\ db' = db /\ outbox' = outbox
  BY DEF OlderApply, service
<1>2. \A m \in new : <<"server", m>> \notin seen
  OBVIOUS
<1> HIDE DEF new
<1> QED
  BY <1>1, <1>2, AddNew

LEMMA StoreStepKeeps ==
  ASSUME Inv, NEW m \in Msgs, Store(m)
  PROVE  Inv'
<1>1. /\ db' = db \union {m} /\ outbox' = outbox \ {m}
      /\ UNCHANGED <<list, seen>>
  BY DEF Store, shown
<1> QED
  BY <1>1 DEF Inv, ListIsSeen, SentIsKnown, Client

\* The other steps leave the list, the seen ids, and what was sent alone.
LEMMA OthersKeep ==
  ASSUME Inv, UNCHANGED <<list, seen, db, outbox>>
  PROVE  Inv'
BY DEF Inv, ListIsSeen, SentIsKnown, Client

LEMMA InvNext == Inv /\ [Next]_vars => Inv'
<1> SUFFICES ASSUME Inv, [Next]_vars PROVE Inv'
  OBVIOUS
<1>1. ASSUME NEW m \in Msgs, Enqueue(m) \/ EnqueueFails(m) PROVE Inv'
  BY <1>1, OthersKeep DEF Enqueue, EnqueueFails, shown
<1>2. CASE Publish \/ PublishStalls \/ PublishFails \/ PublishUnheard
  BY <1>2, OthersKeep DEF Publish, PublishStalls, PublishFails, PublishUnheard, shown
<1>3. ASSUME NEW job \in delayed, Retry(job) PROVE Inv'
  BY <1>3, OthersKeep DEF Retry, shown
<1>4. CASE SyncRead \/ SyncFails
  BY <1>4, OthersKeep DEF SyncRead, SyncFails, service, shown
<1>5. CASE Connect \/ ConnectFails \/ TimerFires \/ Disconnect
  BY <1>5, OthersKeep DEF Connect, ConnectFails, TimerFires, Disconnect, service, shown
<1>6. CASE HistoryRead \/ HistoryFails
  BY <1>6, OthersKeep DEF HistoryRead, HistoryFails, service, shown
<1>7. CASE AskOlder \/ OlderRead \/ OlderFails
  BY <1>7, OthersKeep DEF AskOlder, OlderRead, OlderFails, service, shown
<1>8. CASE UNCHANGED vars
  BY <1>8, OthersKeep DEF vars
<1> QED
  BY <1>1, <1>2, <1>3, <1>4, <1>5, <1>6, <1>7, <1>8, SendMineKeeps, StoreStepKeeps,
     ReceiveKeeps, HistoryApplyKeeps, OlderApplyKeeps DEF Next

-----------------------------------------------------------------------------
(* Where the messages come from. *)

\* Jobs, packets, answers and positions are about messages that are stored.
Stored ==
  /\ \A i \in DOMAIN queue : queue[i].msg \in db
  /\ \A job \in delayed : job.msg \in db
  /\ \A i \in DOMAIN wire : wire[i].msgs \subseteq db
  /\ since \in db \union {0} /\ lastSeen \in db \union {0}
  /\ page \subseteq db /\ olderPage \subseteq db
  /\ \A m \in Msgs : <<"server", m>> \in seen => m \in db
  /\ older # "idle" => olderBefore \in db \union outbox

\* What the list shows, now and after the step.
LEMMA StampsAre ==
  /\ \A m : m \in Stamps <=>
       m \in Msgs /\ (list[<<"server", m>>] > 0 \/ list[<<"client", m>>] > 0)
  /\ \A m : m \in Stamps' <=>
       m \in Msgs /\ (list'[<<"server", m>>] > 0 \/ list'[<<"client", m>>] > 0)
<1>1. \A m : m \in Stamps <=>
       m \in Msgs /\ (list[<<"server", m>>] > 0 \/ list[<<"client", m>>] > 0)
  BY DEF Stamps, Ids
<1>2. \A m : m \in Stamps' <=>
       m \in Msgs /\ (list'[<<"server", m>>] > 0 \/ list'[<<"client", m>>] > 0)
  BY DEF Stamps, Ids
<1> QED  BY <1>1, <1>2

\* Only messages that are stored or being sent are shown.
LEMMA StampsAreKnown ==
  ASSUME TypeOK, Inv, Stored
  PROVE  /\ Stamps \subseteq Msgs /\ Stamps \subseteq db \union outbox
         /\ \A m \in Msgs : m \in Stamps <=> <<"server", m>> \in seen \/ Client(m) \in seen
<1>1. \A m \in Msgs : <<"server", m>> \in Ids /\ Client(m) \in Ids /\ Client(m) = <<"client", m>>
  BY DEF Ids, Client
<1>2. \A m \in Msgs : m \in Stamps <=> <<"server", m>> \in seen \/ Client(m) \in seen
  <2>1. \A id \in Ids : list[id] > 0 <=> id \in seen
    BY DEF Inv, ListIsSeen
  <2> QED  BY <1>1, <2>1, StampsAre
<1>3. Stamps \subseteq Msgs
  BY StampsAre
<1> QED  BY <1>2, <1>3 DEF Inv, SentIsKnown, Stored

LEMMA HeadAndTail ==
  ASSUME NEW T, NEW s \in Seq(T), s # << >>
  PROVE  /\ Len(s) \in Nat /\ 1 \in DOMAIN s /\ Head(s) = s[1] /\ Head(s) \in T
         /\ Tail(s) \in Seq(T) /\ Len(Tail(s)) = Len(s) - 1
         /\ \A i \in 1 .. Len(s) - 1 : Tail(s)[i] = s[i + 1]
OBVIOUS

LEMMA Appended ==
  ASSUME NEW T, NEW s \in Seq(T), NEW e \in T
  PROVE  /\ Append(s, e) \in Seq(T) /\ Len(Append(s, e)) = Len(s) + 1 /\ Len(s) \in Nat
         /\ \A i \in 1 .. Len(s) : Append(s, e)[i] = s[i]
         /\ Append(s, e)[Len(s) + 1] = e
OBVIOUS

\* Everything of a sequence that is shortened or extended.
LEMMA TailHas ==
  ASSUME NEW T, NEW s \in Seq(T), s # << >>
  PROVE  \A i \in DOMAIN Tail(s) : i + 1 \in DOMAIN s /\ Tail(s)[i] = s[i + 1]
<1>1. DOMAIN Tail(s) = 1 .. Len(s) - 1 /\ DOMAIN s = 1 .. Len(s) /\ Len(s) \in Nat
  BY HeadAndTail
<1> QED  BY <1>1, HeadAndTail

LEMMA AppendHas ==
  ASSUME NEW T, NEW s \in Seq(T), NEW e \in T
  PROVE  \A i \in DOMAIN Append(s, e) :
           \/ i \in DOMAIN s /\ Append(s, e)[i] = s[i]
           \/ i = Len(s) + 1 /\ Append(s, e)[i] = e
<1>1. DOMAIN Append(s, e) = 1 .. Len(s) + 1 /\ DOMAIN s = 1 .. Len(s) /\ Len(s) \in Nat
  BY Appended
<1> QED  BY <1>1, Appended

LEMMA RemoveHas ==
  ASSUME NEW T, NEW s \in Seq(T), NEW i \in DOMAIN s
  PROVE  \A j \in DOMAIN RemoveAt(s, i) : \E k \in DOMAIN s : RemoveAt(s, i)[j] = s[k]
<1>1. DOMAIN RemoveAt(s, i) = 1 .. Len(s) - 1 /\ DOMAIN s = 1 .. Len(s) /\ Len(s) \in Nat
  BY Removed
<1>2. \A j \in 1 .. Len(s) - 1 : j \in DOMAIN s /\ j + 1 \in DOMAIN s
  BY <1>1
<1> QED  BY <1>1, <1>2, Removed

LEMMA QueueHead ==
  ASSUME TypeOK, queue # << >>
  PROVE  /\ Head(queue) \in Job /\ Head(queue).msg \in Msgs
         /\ Tail(queue) \in Seq(Job)
         /\ Head(queue) = queue[1] /\ 1 \in DOMAIN queue
<1>1. queue \in Seq(Job)
  BY DEF TypeOK
<1>2. Head(queue) \in Job /\ Tail(queue) \in Seq(Job) /\ Head(queue) = queue[1] /\ 1 \in DOMAIN queue
  BY <1>1, HeadAndTail
<1> QED  BY <1>2 DEF Job

LEMMA ShowStored ==
  ASSUME TypeOK, Stored, NEW ms \in SUBSET db, Show(ms)
  PROVE  /\ lastSeen' \in db \union {0}
         /\ \A m \in Msgs : <<"server", m>> \in seen' => m \in db
<1> DEFINE new == {m \in ms : <<"server", m>> \notin seen}
<1>1. /\ seen' = seen \union Server(new)
      /\ lastSeen' = Max(new \union {lastSeen})
  BY DEF Show
<1>2. new \subseteq db /\ new \union {lastSeen} \in SUBSET (0 .. N)
  BY Sizes DEF TypeOK
<1> HIDE DEF new
<1>3. lastSeen' \in new \union {lastSeen}
  BY <1>1, <1>2, MaxIs
<1> QED  BY <1>1, <1>2, <1>3 DEF Stored, Server

LEMMA StoredInit == Init => Stored
BY DEF Init, Stored

LEMMA StoredNext == TypeOK /\ Inv /\ Stored /\ [Next]_vars => Stored'
<1> SUFFICES ASSUME TypeOK, Inv, Stored, [Next]_vars PROVE Stored'
  OBVIOUS
<1> USE DEF service, socket, shown, paging, first
<1>0. /\ queue \in Seq(Job) /\ wire \in Seq(Packet)
      /\ \A m \in Msgs : [kind |-> "message", msgs |-> {m}] \in Packet
  BY DEF TypeOK, Packet
<1>a. ASSUME NEW m \in Msgs, m \in db, Emit(m)
      PROVE  \A i \in DOMAIN wire' : wire'[i].msgs \subseteq db
  <2> DEFINE p == [kind |-> "message", msgs |-> {m}]
  <2>1. p \in Packet /\ p.msgs \subseteq db
    BY <1>0, <1>a
  <2>2. wire' = Append(wire, p) \/ wire' = wire
    BY <1>a DEF Emit
  <2> HIDE DEF p
  <2> QED  BY <1>0, <2>1, <2>2, AppendHas DEF Stored
<1>b. ASSUME queue # << >>
      PROVE  /\ Head(queue).msg \in db
             /\ \A i \in DOMAIN Tail(queue) : Tail(queue)[i].msg \in db
  <2>1. \A i \in DOMAIN Tail(queue) : i + 1 \in DOMAIN queue /\ Tail(queue)[i] = queue[i + 1]
    BY <1>0, <1>b, TailHas
  <2> QED  BY <1>b, <2>1, QueueHead DEF Stored
<1>c. ASSUME NEW q \in Seq(Job), NEW job \in Job, job.msg \in db,
             \A i \in DOMAIN q : q[i].msg \in db
      PROVE  \A i \in DOMAIN Append(q, job) : Append(q, job)[i].msg \in db
  BY <1>c, AppendHas
<1>1. ASSUME NEW m \in Msgs, SendMine(m) PROVE Stored'
  <2>1. \A x \in Msgs : <<"server", x>> \in seen' => <<"server", x>> \in seen
    BY <1>1 DEF SendMine, Client
  <2> QED  BY <1>1, <2>1 DEF SendMine, Stored
<1>2. ASSUME NEW m \in Msgs, Store(m) PROVE Stored'
  <2>1. /\ db' = db \union {m} /\ outbox' = outbox \ {m}
        /\ UNCHANGED <<queue, delayed, wire, since, lastSeen, page, olderPage, seen, older,
                       olderBefore>>
    BY <1>2 DEF Store
  <2> QED  BY <2>1 DEF Stored
<1>3. ASSUME NEW m \in Msgs, Enqueue(m) PROVE Stored'
  <2> DEFINE job == [msg |-> m, tries |-> 1, stalled |-> FALSE]
  <2>1. job \in Job /\ job.msg = m
    BY SizeAssumption DEF Job
  <2>2. queue' = Append(queue, job) /\ m \in db
    BY <1>3 DEF Enqueue, TypeOK
  <2> HIDE DEF job
  <2>3. \A i \in DOMAIN queue' : queue'[i].msg \in db
    BY <1>0, <1>c, <2>1, <2>2 DEF Stored
  <2> QED  BY <1>3, <2>3 DEF Enqueue, Stored
<1>4. ASSUME NEW m \in Msgs, EnqueueFails(m) PROVE Stored'
  BY <1>4 DEF EnqueueFails, Stored
<1>7. CASE Publish
  BY <1>7, <1>a, <1>b, QueueHead DEF Publish, Stored
<1>8. CASE PublishStalls
  <2> DEFINE job == [Head(queue) EXCEPT !.stalled = TRUE]
  <2>1. job \in Job /\ job.msg = Head(queue).msg
    BY <1>8, QueueHead DEF PublishStalls, Job
  <2>2. queue' = Append(Tail(queue), job) /\ Tail(queue) \in Seq(Job)
    BY <1>8, QueueHead DEF PublishStalls
  <2> HIDE DEF job
  <2>3. \A i \in DOMAIN queue' : queue'[i].msg \in db
    BY <1>8, <1>b, <1>c, <2>1, <2>2 DEF PublishStalls
  <2> QED  BY <1>8, <1>a, <1>b, <2>3, QueueHead DEF PublishStalls, Stored
<1>9. CASE PublishFails
  <2>1. \A job \in delayed' : job.msg \in db
    <3>1. Head(queue) \in Job
      BY <1>9, QueueHead DEF PublishFails
    <3>2. [Head(queue) EXCEPT !.tries = @ + 1].msg = Head(queue).msg
      BY <3>1 DEF Job
    <3> QED  BY <1>9, <1>b, <3>2 DEF PublishFails, Stored
  <2> QED  BY <1>9, <1>b, <2>1 DEF PublishFails, Stored
<1>10. CASE PublishUnheard
  BY <1>10, <1>b DEF PublishUnheard, Stored
<1>11. ASSUME NEW job \in delayed, Retry(job) PROVE Stored'
  <2>1. job \in Job /\ job.msg \in db
    BY DEF TypeOK, Stored
  <2>2. \A i \in DOMAIN queue' : queue'[i].msg \in db
    BY <1>0, <1>11, <1>c, <2>1 DEF Retry, Stored
  <2> QED  BY <1>11, <2>2 DEF Retry, Stored
<1>12. CASE SyncRead
  <2> DEFINE p == [kind |-> "synced", msgs |-> Resync(since)]
  <2>1. Resync(since) \subseteq db /\ db \subseteq Msgs
    BY DEF Resync, Newest, Oldest, TypeOK
  <2>2. p \in Packet /\ p.msgs \subseteq db
    BY <2>1 DEF Packet
  <2>3. wire' = Append(wire, p)
    BY <1>12 DEF SyncRead
  <2> HIDE DEF p
  <2>4. \A i \in DOMAIN wire' : wire'[i].msgs \subseteq db
    BY <1>0, <2>2, <2>3, AppendHas DEF Stored
  <2> QED  BY <1>12, <2>4 DEF SyncRead, Stored
<1>13. CASE SyncFails
  <2>1. \A i \in DOMAIN wire' : wire'[i].msgs \subseteq db
    BY <1>0, <1>13, RemoveHas DEF SyncFails, Stored
  <2> QED  BY <1>13, <2>1 DEF SyncFails, Stored
<1>14. CASE Connect
  BY <1>14 DEF Connect, Stored
<1>15. CASE ConnectFails
  BY <1>15 DEF ConnectFails, Stored
<1>16. CASE TimerFires
  BY <1>16 DEF TimerFires, Stored
<1>17. CASE Disconnect
  BY <1>17 DEF Disconnect, Stored
<1>18. CASE Receive
  <2>1. Head(wire) = wire[1] /\ 1 \in DOMAIN wire
    BY <1>0, <1>18, HeadAndTail DEF Receive
  <2>2. PICK ms \in SUBSET db : Show(ms)
    BY <1>18, <2>1 DEF Receive, Stored
  <2>3. \A i \in DOMAIN Tail(wire) : i + 1 \in DOMAIN wire /\ Tail(wire)[i] = wire[i + 1]
    BY <1>0, <1>18, TailHas DEF Receive
  <2>4. \A i \in DOMAIN wire' : wire'[i].msgs \subseteq db
    BY <1>18, <2>3 DEF Receive, Stored
  <2> QED  BY <1>18, <2>2, <2>4, ShowStored DEF Receive, Stored
<1>19. CASE HistoryRead
  BY <1>19 DEF HistoryRead, Stored, Newest
<1>20. CASE HistoryApply
  <2>1. lastSeen' \in db \union {0}
    <3>1. page \in SUBSET (0 .. N)
      BY Sizes DEF TypeOK
    <3> QED  BY <1>20, <3>1, MaxIs DEF HistoryApply, Stored
  <2>2. \A m \in Msgs : <<"server", m>> \in seen' => m \in db
    BY <1>20 DEF HistoryApply, Stored, Server
  <2> QED  BY <1>20, <2>1, <2>2 DEF HistoryApply, Stored
<1>21. CASE HistoryFails
  BY <1>21 DEF HistoryFails, Stored
<1>22. CASE AskOlder
  <2>1. Stamps \in SUBSET Nat /\ Stamps # {} /\ olderBefore' = Min(Stamps)
    BY <1>22, StampsAreKnown, Sizes DEF AskOlder
  <2>2. olderBefore' \in Stamps
    BY <2>1, MinIs
  <2> QED  BY <1>22, <2>2, StampsAreKnown DEF AskOlder, Stored
<1>23. CASE OlderRead
  BY <1>23 DEF OlderRead, Stored, Newest
<1>24. CASE OlderApply
  <2>1. \A m \in Msgs : <<"server", m>> \in seen' => m \in db
    BY <1>24 DEF OlderApply, Stored, Server
  <2> QED  BY <1>24, <2>1 DEF OlderApply, Stored
<1>25. CASE OlderFails
  BY <1>25 DEF OlderFails, Stored
<1>26. CASE UNCHANGED vars
  BY <1>26 DEF vars, Stored
<1> QED
  BY <1>1, <1>2, <1>3, <1>4, <1>7, <1>8, <1>9, <1>10, <1>11, <1>12, <1>13, <1>14, <1>15,
     <1>16, <1>17, <1>18, <1>19, <1>20, <1>21, <1>22, <1>23, <1>24, <1>25, <1>26 DEF Next

-----------------------------------------------------------------------------
(* The connection. *)

\* Only a connected tab is sent anything, and a connection carries at most
\* one answer to its resync, with nothing older than was asked for.
Connection ==
  /\ sock # "connected" => wire = << >> /\ sync = "none"
  /\ \A i \in DOMAIN wire : wire[i].kind = "synced" =>
       /\ sync = "answered"
       /\ \A m \in wire[i].msgs : m >= since
       /\ \A j \in DOMAIN wire : wire[j].kind = "synced" => j = i

LEMMA EmitConnection ==
  ASSUME TypeOK, Connection, NEW m \in Msgs, Emit(m), UNCHANGED <<sock, sync, since>>
  PROVE  Connection'
<1> DEFINE p == [kind |-> "message", msgs |-> {m}]
<1>1. p \in Packet /\ p.kind = "message" /\ wire \in Seq(Packet)
  BY DEF Packet, TypeOK
<1>2. \/ sock = "connected" /\ wire' = Append(wire, p)
      \/ sock # "connected" /\ wire' = wire
  BY DEF Emit
<1> HIDE DEF p
<1>3. CASE sock = "connected" /\ wire' = Append(wire, p)
  <2>1. \A i \in DOMAIN wire' : wire'[i].kind = "synced" => i \in DOMAIN wire /\ wire'[i] = wire[i]
    BY <1>1, <1>3, AppendHas
  <2> QED  BY <1>3, <2>1 DEF Connection
<1>4. CASE sock # "connected" /\ wire' = wire
  BY <1>4 DEF Connection
<1> QED  BY <1>2, <1>3, <1>4

LEMMA SyncReadConnection ==
  ASSUME TypeOK, Connection, SyncRead
  PROVE  Connection'
<1> DEFINE p == [kind |-> "synced", msgs |-> Resync(since)]
<1>1. Resync(since) \subseteq db /\ db \subseteq Msgs /\ \A m \in Resync(since) : m >= since
  BY Sizes DEF Resync, Newest, Oldest, TypeOK
<1>2. p \in Packet /\ p.kind = "synced" /\ p.msgs = Resync(since) /\ wire \in Seq(Packet)
  BY <1>1 DEF Packet, TypeOK
<1>3. /\ wire' = Append(wire, p) /\ sync = "asked" /\ sync' = "answered"
      /\ UNCHANGED <<sock, since>>
  BY DEF SyncRead
<1> HIDE DEF p
<1>4. \A i \in DOMAIN wire : wire[i].kind # "synced"
  BY <1>3 DEF Connection
<1>5. \A i \in DOMAIN wire' : wire'[i].kind = "synced" => i = Len(wire) + 1 /\ wire'[i] = p
  BY <1>2, <1>3, <1>4, AppendHas
<1>6. sock = "connected"
  BY <1>3 DEF Connection
<1> QED  BY <1>1, <1>2, <1>3, <1>5, <1>6 DEF Connection

LEMMA SyncFailsConnection ==
  ASSUME TypeOK, Connection, SyncFails
  PROVE  Connection'
<1>1. /\ sync # "none" /\ sync' = "none" /\ wire \in Seq(Packet) /\ UNCHANGED <<sock, since>>
  BY DEF SyncFails, TypeOK
<1>2. CASE sync = "asked" /\ wire' = wire
  <2>1. \A i \in DOMAIN wire : wire[i].kind # "synced"
    BY <1>2 DEF Connection
  <2> QED  BY <1>1, <1>2, <2>1 DEF Connection
<1>3. ASSUME NEW i \in DOMAIN wire, wire[i].kind = "synced", wire' = RemoveAt(wire, i)
      PROVE  Connection'
  <2>1. DOMAIN wire = 1 .. Len(wire) /\ Len(wire) \in Nat /\ DOMAIN wire' = 1 .. Len(wire) - 1
    BY <1>1, <1>3, Removed
  <2>0. \A j \in 1 .. Len(wire) - 1 : wire'[j] = IF j < i THEN wire[j] ELSE wire[j + 1]
    BY <1>1, <1>3, Removed
  <2>2. ASSUME NEW j \in DOMAIN wire' PROVE wire'[j].kind # "synced"
    <3>1. CASE j < i
      <4>1. j \in DOMAIN wire /\ wire'[j] = wire[j] /\ j # i
        BY <2>0, <2>1, <3>1
      <4> QED  BY <1>3, <4>1 DEF Connection
    <3>2. CASE ~ (j < i)
      <4>1. j + 1 \in DOMAIN wire /\ wire'[j] = wire[j + 1] /\ j + 1 # i
        BY <2>0, <2>1, <3>2
      <4> QED  BY <1>3, <4>1 DEF Connection
    <3> QED  BY <3>1, <3>2
  <2>3. sock = "connected"
    BY <1>1 DEF Connection
  <2> QED  BY <1>1, <2>2, <2>3 DEF Connection
<1> QED  BY <1>2, <1>3 DEF SyncFails

LEMMA ReceiveConnection ==
  ASSUME TypeOK, Connection, Receive
  PROVE  Connection'
<1>1. /\ wire \in Seq(Packet) /\ wire # << >> /\ wire' = Tail(wire)
      /\ UNCHANGED <<sock, since>>
  BY DEF Receive, TypeOK
<1>2. \A i \in DOMAIN wire' : i + 1 \in DOMAIN wire /\ wire'[i] = wire[i + 1] /\ i \in Nat /\ i # 0
  <2>1. DOMAIN wire' = 1 .. Len(wire) - 1 /\ Len(wire) \in Nat
    BY <1>1, HeadAndTail
  <2> QED  BY <1>1, <2>1, TailHas
<1>3. 1 \in DOMAIN wire /\ Head(wire) = wire[1] /\ Head(wire) \in Packet
  BY <1>1, HeadAndTail
<1>4. sock = "connected"
  BY <1>1 DEF Connection
<1>5. CASE Head(wire).kind = "message"
  <2>1. sync' = sync
    BY <1>5 DEF Receive
  <2>2. \A i \in DOMAIN wire' : wire'[i].kind = "synced" =>
          \A j \in DOMAIN wire' : wire'[j].kind = "synced" => j = i
    BY <1>2 DEF Connection
  <2> QED  BY <1>1, <1>2, <1>4, <2>1, <2>2 DEF Connection
<1>6. CASE Head(wire).kind # "message"
  <2>1. wire[1].kind = "synced"
    BY <1>3, <1>6 DEF Packet
  <2>2. \A i \in DOMAIN wire' : wire'[i].kind # "synced"
    BY <1>2, <1>3, <2>1 DEF Connection
  <2> QED  BY <1>1, <1>4, <2>2 DEF Connection
<1> QED  BY <1>5, <1>6

LEMMA ConnectionNext == TypeOK /\ Connection /\ [Next]_vars => Connection'
<1> SUFFICES ASSUME TypeOK, Connection, [Next]_vars PROVE Connection'
  OBVIOUS
<1> USE DEF service, socket, shown, paging, first
<1>1. ASSUME UNCHANGED <<sock, wire, sync, since>> PROVE Connection'
  BY <1>1 DEF Connection
<1>2. ASSUME NEW m \in Msgs, SendMine(m) \/ Store(m) \/ Enqueue(m) \/ EnqueueFails(m)
      PROVE  Connection'
  BY <1>1, <1>2 DEF SendMine, Store, Enqueue, EnqueueFails
<1>3. CASE Publish \/ PublishStalls
  BY <1>3, QueueHead, EmitConnection DEF Publish, PublishStalls
<1>4. CASE PublishFails \/ PublishUnheard
  BY <1>1, <1>4 DEF PublishFails, PublishUnheard
<1>5. ASSUME NEW job \in delayed, Retry(job) PROVE Connection'
  BY <1>1, <1>5 DEF Retry
<1>6. CASE Connect
  <2>1. wire' = << >> /\ sock' = "connected"
    BY <1>6 DEF Connect, Connection
  <2> QED  BY <2>1 DEF Connection
<1>7. CASE ConnectFails \/ TimerFires
  BY <1>7 DEF ConnectFails, TimerFires, Connection
<1>8. CASE Disconnect
  BY <1>8 DEF Disconnect, Connection
<1>9. CASE HistoryRead \/ HistoryApply \/ HistoryFails
  BY <1>1, <1>9 DEF HistoryRead, HistoryApply, HistoryFails
<1>10. CASE AskOlder \/ OlderRead \/ OlderApply \/ OlderFails
  BY <1>1, <1>10 DEF AskOlder, OlderRead, OlderApply, OlderFails
<1>11. CASE UNCHANGED vars
  BY <1>1, <1>11 DEF vars
<1> QED
  BY <1>2, <1>3, <1>4, <1>5, <1>6, <1>7, <1>8, <1>9, <1>10, <1>11, SyncReadConnection,
     SyncFailsConnection, ReceiveConnection DEF Next

-----------------------------------------------------------------------------
(* The queue. *)

\* No job is about a later message than one that is not enqueued yet, except
\* when the latter is a stray.
InTurn ==
  \A m \in toEnqueue \ strays :
    /\ \A i \in DOMAIN queue : queue[i].msg <= m
    /\ \A job \in delayed : job.msg <= m

LEMMA InTurnNext == TypeOK /\ Stored /\ InTurn /\ [Next]_vars => InTurn'
<1> SUFFICES ASSUME TypeOK, Stored, InTurn, [Next]_vars PROVE InTurn'
  OBVIOUS
<1> USE DEF service, socket, shown, paging, first
<1>0. queue \in Seq(Job) /\ db \subseteq Nat /\ Msgs \subseteq Nat
  BY Sizes DEF TypeOK
<1>1. ASSUME toEnqueue' \subseteq toEnqueue, strays \subseteq strays', delayed' = delayed,
             queue' = queue
      PROVE  InTurn'
  BY <1>1 DEF InTurn
<1>2. ASSUME NEW m \in Msgs, Store(m) PROVE InTurn'
  <2>1. /\ toEnqueue' = toEnqueue \union {m} /\ UNCHANGED <<queue, delayed>>
        /\ strays \subseteq strays'
        /\ m \notin strays' => \A x \in db : ~ (x > m)
    BY <1>2 DEF Store
  <2>2. m \notin strays' => \A x \in db : x <= m
    BY <1>0, <2>1
  <2> QED  BY <2>1, <2>2 DEF InTurn, Stored
<1>3. ASSUME NEW m \in Msgs, Enqueue(m) PROVE InTurn'
  <2> DEFINE job == [msg |-> m, tries |-> 1, stalled |-> FALSE]
  <2>1. job \in Job /\ job.msg = m
    BY SizeAssumption DEF Job
  <2>2. /\ queue' = Append(queue, job) /\ UNCHANGED delayed
        /\ toEnqueue' \subseteq toEnqueue
        /\ strays' = strays \union {x \in toEnqueue : x < m}
    BY <1>3 DEF Enqueue
  <2> HIDE DEF job
  <2>3. \A x \in toEnqueue' \ strays' : m <= x
    BY <1>0, <2>2 DEF TypeOK
  <2>4. \A i \in DOMAIN queue' : (i \in DOMAIN queue /\ queue'[i] = queue[i]) \/ queue'[i] = job
    BY <1>0, <2>1, <2>2, AppendHas
  <2> QED  BY <2>1, <2>2, <2>3, <2>4 DEF InTurn
<1>4. ASSUME queue # << >>
      PROVE  /\ \A i \in DOMAIN Tail(queue) : i + 1 \in DOMAIN queue /\ Tail(queue)[i] = queue[i + 1]
             /\ \A m \in toEnqueue \ strays : Head(queue).msg <= m
             /\ \A m \in toEnqueue \ strays, i \in DOMAIN Tail(queue) : Tail(queue)[i].msg <= m
  <2>1. \A i \in DOMAIN Tail(queue) : i + 1 \in DOMAIN queue /\ Tail(queue)[i] = queue[i + 1]
    BY <1>0, <1>4, TailHas
  <2> QED  BY <1>4, <2>1, QueueHead DEF InTurn
<1>5. CASE Publish \/ PublishUnheard
  BY <1>4, <1>5 DEF Publish, PublishUnheard, InTurn
<1>6. CASE PublishStalls
  <2> DEFINE job == [Head(queue) EXCEPT !.stalled = TRUE]
  <2>1. job \in Job /\ job.msg = Head(queue).msg
    BY <1>6, QueueHead DEF PublishStalls, Job
  <2>2. /\ queue' = Append(Tail(queue), job) /\ Tail(queue) \in Seq(Job) /\ queue # << >>
        /\ UNCHANGED <<toEnqueue, delayed, strays>>
    BY <1>6, QueueHead DEF PublishStalls
  <2> HIDE DEF job
  <2>3. \A i \in DOMAIN queue' :
          (i \in DOMAIN Tail(queue) /\ queue'[i] = Tail(queue)[i]) \/ queue'[i] = job
    BY <2>1, <2>2, AppendHas
  <2> QED  BY <1>4, <2>1, <2>2, <2>3 DEF InTurn
<1>7. CASE PublishFails
  <2>1. Head(queue) \in Job
    BY <1>7, QueueHead DEF PublishFails
  <2>2. [Head(queue) EXCEPT !.tries = @ + 1].msg = Head(queue).msg
    BY <2>1 DEF Job
  <2>3. \A job \in delayed' : job \in delayed \/ job.msg = Head(queue).msg
    BY <1>7, <2>2 DEF PublishFails
  <2>4. /\ queue # << >> /\ queue' = Tail(queue) /\ strays \subseteq strays'
        /\ toEnqueue' = toEnqueue
    BY <1>7 DEF PublishFails
  <2> QED  BY <1>4, <2>3, <2>4 DEF InTurn
<1>8. ASSUME NEW job \in delayed, Retry(job) PROVE InTurn'
  <2>1. job \in Job /\ queue' = Append(queue, job) /\ delayed' \subseteq delayed
        /\ UNCHANGED <<toEnqueue, strays>>
    BY <1>8 DEF Retry, TypeOK
  <2>2. \A i \in DOMAIN queue' : (i \in DOMAIN queue /\ queue'[i] = queue[i]) \/ queue'[i] = job
    BY <1>0, <2>1, AppendHas
  <2> QED  BY <2>1, <2>2 DEF InTurn
<1>9. ASSUME NEW m \in Msgs, SendMine(m) \/ EnqueueFails(m) PROVE InTurn'
  BY <1>1, <1>9 DEF SendMine, EnqueueFails
<1>10. CASE SyncRead \/ SyncFails \/ Connect \/ ConnectFails \/ TimerFires \/ Disconnect
  BY <1>1, <1>10 DEF SyncRead, SyncFails, Connect, ConnectFails, TimerFires, Disconnect
<1>11. CASE Receive
  BY <1>1, <1>11 DEF Receive, Show
<1>12. CASE HistoryRead \/ HistoryApply \/ HistoryFails
  BY <1>1, <1>12 DEF HistoryRead, HistoryApply, HistoryFails
<1>13. CASE AskOlder \/ OlderRead \/ OlderApply \/ OlderFails
  BY <1>1, <1>13 DEF AskOlder, OlderRead, OlderApply, OlderFails
<1>14. CASE UNCHANGED vars
  BY <1>1, <1>14 DEF vars
<1> QED
  BY <1>2, <1>3, <1>5, <1>6, <1>7, <1>8, <1>9, <1>10, <1>11, <1>12, <1>13, <1>14 DEF Next

-----------------------------------------------------------------------------
(* The answers to the tab's reads. *)

\* A message is in the first page, later than all of it (it was stored after
\* the read), or below a full page.
PageKnows ==
  history = "read" =>
    \A m \in db \ strays :
      \/ m \in page
      \/ \A x \in page : x < m
      \/ Cardinality(page) >= HistoryLimit /\ \A x \in page : m < x

\* A message below the point asked for is in the older page or below a full one.
OlderKnows ==
  older = "read" =>
    \A m \in db \ strays : m < olderBefore =>
      \/ m \in olderPage
      \/ Cardinality(olderPage) >= OlderLimit /\ \A x \in olderPage : m < x

LEMMA PageKnowsNext == TypeOK /\ Stored /\ PageKnows /\ [Next]_vars => PageKnows'
<1> SUFFICES ASSUME TypeOK, Stored, PageKnows, [Next]_vars PROVE PageKnows'
  OBVIOUS
<1> USE DEF service, socket, shown, paging, first
<1>1. ASSUME UNCHANGED <<history, page, db>>, strays \subseteq strays' PROVE PageKnows'
  BY <1>1 DEF PageKnows
<1>2. ASSUME NEW m \in Msgs, Store(m) PROVE PageKnows'
  <2>1. /\ db' = db \union {m} /\ strays \subseteq strays' /\ UNCHANGED <<history, page>>
        /\ m \notin strays' => \A x \in db : ~ (x > m)
        /\ m \notin db
    BY <1>2 DEF Store
  <2>2. m \notin strays' => \A x \in page : x < m
    <3>1. page \subseteq db /\ db \subseteq Nat /\ m \in Nat
      BY Sizes DEF TypeOK, Stored
    <3> QED  BY <2>1, <3>1
  <2> QED  BY <2>1, <2>2 DEF PageKnows
<1>3. CASE HistoryRead
  <2>1. page' = Newest(db, HistoryLimit) /\ db' = db /\ strays' = strays
    BY <1>3 DEF HistoryRead
  <2>2. db \in SUBSET Msgs /\ HistoryLimit \in Nat \ {0}
    BY Sizes DEF TypeOK
  <2>3. \A m \in db : \/ m \in page'
                      \/ Cardinality(page') >= HistoryLimit /\ \A x \in page' : m < x
    BY <2>1, <2>2, NewestIs
  <2> QED  BY <2>1, <2>3 DEF PageKnows
<1>4. CASE HistoryApply \/ HistoryFails
  BY <1>4 DEF HistoryApply, HistoryFails, PageKnows
<1>5. ASSUME NEW m \in Msgs, SendMine(m) \/ Enqueue(m) \/ EnqueueFails(m) PROVE PageKnows'
  BY <1>1, <1>5 DEF SendMine, Enqueue, EnqueueFails
<1>6. CASE Publish \/ PublishStalls \/ PublishFails \/ PublishUnheard
  BY <1>1, <1>6 DEF Publish, PublishStalls, PublishFails, PublishUnheard
<1>7. ASSUME NEW job \in delayed, Retry(job) PROVE PageKnows'
  BY <1>1, <1>7 DEF Retry
<1>8. CASE SyncRead \/ SyncFails \/ Connect \/ ConnectFails \/ TimerFires \/ Disconnect
  BY <1>1, <1>8 DEF SyncRead, SyncFails, Connect, ConnectFails, TimerFires, Disconnect
<1>9. CASE Receive
  BY <1>1, <1>9 DEF Receive, Show
<1>10. CASE AskOlder \/ OlderRead \/ OlderFails \/ OlderApply
  BY <1>1, <1>10 DEF AskOlder, OlderRead, OlderFails, OlderApply
<1>11. CASE UNCHANGED vars
  BY <1>1, <1>11 DEF vars
<1> QED
  BY <1>2, <1>3, <1>4, <1>5, <1>6, <1>7, <1>8, <1>9, <1>10, <1>11 DEF Next

LEMMA OlderKnowsNext == TypeOK /\ Stored /\ OlderKnows /\ [Next]_vars => OlderKnows'
<1> SUFFICES ASSUME TypeOK, Stored, OlderKnows, [Next]_vars PROVE OlderKnows'
  OBVIOUS
<1> USE DEF service, socket, shown, paging, first
<1>1. ASSUME UNCHANGED <<older, olderBefore, olderPage, db>>, strays \subseteq strays'
      PROVE  OlderKnows'
  BY <1>1 DEF OlderKnows
<1>2. ASSUME NEW m \in Msgs, Store(m) PROVE OlderKnows'
  <2>1. /\ db' = db \union {m} /\ strays \subseteq strays'
        /\ UNCHANGED <<older, olderBefore, olderPage>>
        /\ m \notin strays' => \A x \in db \union outbox : ~ (x > m)
    BY <1>2 DEF Store
  <2>2. older = "read" /\ m \notin strays' => ~ (m < olderBefore)
    <3>1. older = "read" => olderBefore \in db \union outbox
      BY DEF Stored
    <3>2. olderBefore \in Nat /\ m \in Nat
      BY Sizes DEF TypeOK
    <3> QED  BY <2>1, <3>1, <3>2
  <2> QED  BY <2>1, <2>2 DEF OlderKnows
<1>3. CASE OlderRead
  <2> DEFINE below == {m \in db : m < olderBefore}
  <2>1. olderPage' = Newest(below, OlderLimit) /\ UNCHANGED <<db, strays, olderBefore>>
    BY <1>3 DEF OlderRead
  <2>2. below \in SUBSET Msgs /\ OlderLimit \in Nat \ {0}
    BY Sizes DEF TypeOK
  <2>3. \A m \in below : \/ m \in olderPage'
                         \/ /\ Cardinality(olderPage') >= OlderLimit
                            /\ \A x \in olderPage' : m < x
    <3> HIDE DEF below
    <3> QED  BY <2>1, <2>2, NewestIs
  <2> QED  BY <2>1, <2>3 DEF OlderKnows
<1>4. CASE AskOlder \/ OlderApply \/ OlderFails
  BY <1>4 DEF AskOlder, OlderApply, OlderFails, OlderKnows
<1>5. ASSUME NEW m \in Msgs, SendMine(m) \/ Enqueue(m) \/ EnqueueFails(m) PROVE OlderKnows'
  BY <1>1, <1>5 DEF SendMine, Enqueue, EnqueueFails
<1>6. CASE Publish \/ PublishStalls \/ PublishFails \/ PublishUnheard
  BY <1>1, <1>6 DEF Publish, PublishStalls, PublishFails, PublishUnheard
<1>7. ASSUME NEW job \in delayed, Retry(job) PROVE OlderKnows'
  BY <1>1, <1>7 DEF Retry
<1>8. CASE SyncRead \/ SyncFails \/ Connect \/ ConnectFails \/ TimerFires \/ Disconnect
  BY <1>1, <1>8 DEF SyncRead, SyncFails, Connect, ConnectFails, TimerFires, Disconnect
<1>9. CASE Receive
  BY <1>1, <1>9 DEF Receive, Show
<1>10. CASE HistoryRead \/ HistoryApply \/ HistoryFails
  BY <1>1, <1>10 DEF HistoryRead, HistoryApply, HistoryFails
<1>11. CASE UNCHANGED vars
  BY <1>1, <1>11 DEF vars
<1> QED
  BY <1>2, <1>3, <1>4, <1>5, <1>6, <1>7, <1>8, <1>9, <1>10, <1>11 DEF Next

-----------------------------------------------------------------------------
(* The messages that have to be accounted for. *)

\* The minimum spelled out.
LEMMA PageableIs ==
  ASSUME NEW m \in Msgs
  PROVE  /\ Pageable(m) <=> hasMore /\ Stamps # {} /\ \A s \in Stamps : m < s
         /\ Pageable(m)' <=> hasMore' /\ Stamps' # {} /\ \A s \in Stamps' : m < s
         /\ BelowList(m) <=> Stamps # {} /\ \A s \in Stamps : m < s
<1>1. ASSUME NEW S \in SUBSET Msgs, S # {} PROVE m < Min(S) <=> \A s \in S : m < s
  <2>1. S \in SUBSET Nat /\ m \in Nat
    BY Sizes
  <2>2. Min(S) \in S /\ \A y \in S : Min(S) <= y
    BY <1>1, <2>1, MinIs
  <2>3. ASSUME NEW s \in S, m < Min(S) PROVE m < s
    <3>1. s \in Nat /\ Min(S) \in Nat /\ Min(S) <= s
      BY <2>1, <2>2
    <3> QED  BY <2>1, <2>3, <3>1
  <2> QED  BY <2>2, <2>3
<1>2. Stamps \in SUBSET Msgs /\ Stamps' \in SUBSET Msgs
  BY StampsAre
<1>3. BelowList(m) <=> Stamps # {} /\ \A s \in Stamps : m < s
  BY <1>1, <1>2 DEF BelowList
<1>4. BelowList(m)' <=> Stamps' # {} /\ \A s \in Stamps' : m < s
  BY <1>1, <1>2 DEF BelowList
<1> QED  BY <1>3, <1>4 DEF Pageable

\* What is appended is shown.
LEMMA AddedStamps ==
  ASSUME TypeOK, NEW new \in SUBSET Msgs,
         list' = [id \in Ids |-> IF id \in Server(new) THEN list[id] + 1 ELSE list[id]]
  PROVE  Stamps' = Stamps \union new
<1>1. \A id \in Ids : list[id] \in Nat
  BY DEF TypeOK
<1>2. \A m \in Msgs : /\ <<"server", m>> \in Ids /\ <<"client", m>> \in Ids
                      /\ <<"server", m>> \in Server(new) <=> m \in new
                      /\ <<"client", m>> \notin Server(new)
  BY DEF Ids, Server
<1>3. ASSUME NEW m \in Msgs
      PROVE  /\ list'[<<"server", m>>] > 0 <=> list[<<"server", m>>] > 0 \/ m \in new
             /\ list'[<<"client", m>>] = list[<<"client", m>>]
  <2>1. PICK s \in Ids : s = <<"server", m>>
    BY <1>2
  <2>2. PICK c \in Ids : c = <<"client", m>>
    BY <1>2
  <2>3. (s \in Server(new) <=> m \in new) /\ c \notin Server(new)
    BY <1>2, <2>1, <2>2
  <2>4. list'[s] > 0 <=> list[s] > 0 \/ m \in new
    <3>1. list'[s] = IF m \in new THEN list[s] + 1 ELSE list[s]
      BY <2>3
    <3> QED  BY <1>1, <3>1
  <2>5. list'[c] = list[c]
    BY <2>3
  <2> QED  BY <2>1, <2>2, <2>4, <2>5
<1> QED  BY <1>3, StampsAre

LEMMA ShowStamps ==
  ASSUME TypeOK, Inv, Stored, NEW ms \in SUBSET db, Show(ms)
  PROVE  \E new \in SUBSET ms :
           /\ Stamps' = Stamps \union new /\ ms \subseteq Stamps'
           /\ strays' = strays \union Skipped(new)
           /\ lastSeen' \in new \union {lastSeen}
<1> DEFINE new == {m \in ms : <<"server", m>> \notin seen}
<1>1. /\ list' = [id \in Ids |-> IF id \in Server(new) THEN list[id] + 1 ELSE list[id]]
      /\ lastSeen' = Max(new \union {lastSeen})
      /\ strays' = strays \union Skipped(new)
  BY DEF Show
<1>2. /\ new \in SUBSET Msgs /\ new \in SUBSET ms /\ ms \subseteq Msgs
      /\ new \union {lastSeen} \in SUBSET (0 .. N)
  BY Sizes DEF TypeOK
<1>3. \A m \in ms : m \in new \/ <<"server", m>> \in seen
  OBVIOUS
<1> HIDE DEF new
<1>4. lastSeen' \in new \union {lastSeen}
  BY <1>1, <1>2, MaxIs
<1>5. Stamps' = Stamps \union new
  BY <1>1, <1>2, AddedStamps
<1>6. ms \subseteq Stamps'
  BY <1>2, <1>3, <1>5, StampsAreKnown
<1> QED  BY <1>1, <1>2, <1>4, <1>5, <1>6

\* The tab does not show m and will not find it by scrolling up.
Open(m) ==
  /\ m \in db \ strays
  /\ ~ Shown(m)
  /\ ~ (history = "done" /\ Pageable(m))

LEMMA OpenFrame ==
  ASSUME NEW m \in Msgs, m \in db, Open(m)', UNCHANGED <<list, hasMore>>,
         strays \subseteq strays', history = "done" => history' = "done"
  PROVE  Open(m)
<1>1. Stamps' = Stamps
  BY DEF Stamps
<1>2. Pageable(m)' <=> Pageable(m)
  BY <1>1 DEF Pageable, BelowList
<1>3. m \notin strays' /\ m \notin Stamps' /\ ~ (history' = "done" /\ Pageable(m)')
  BY DEF Open, Shown
<1> QED  BY <1>1, <1>2, <1>3 DEF Open, Shown

LEMMA OpenAdded ==
  ASSUME NEW m \in Msgs, m \in db, Open(m)', NEW new \in SUBSET Msgs,
         Stamps' = Stamps \union new, strays' = strays \union Skipped(new),
         UNCHANGED <<hasMore, history>>
  PROVE  Open(m)
<1>1. m \notin strays' /\ m \notin Stamps' /\ ~ (history = "done" /\ Pageable(m)')
  BY DEF Open, Shown
<1> SUFFICES ASSUME history = "done", Pageable(m) PROVE FALSE
  BY <1>1 DEF Open, Shown
<1>2. hasMore /\ Stamps # {} /\ \A s \in Stamps : m < s
  BY PageableIs
<1>3. PICK x \in new : ~ (m < x)
  BY <1>1, <1>2, PageableIs
<1>4. m \in Nat /\ new \in SUBSET Nat /\ Stamps \in SUBSET Nat
  BY Sizes, StampsAre
<1>5. Min(new) \in new /\ \A y \in new : Min(new) <= y
  BY <1>3, <1>4, MinIs
<1>6. Min(Stamps) \in Stamps
  BY <1>2, <1>4, MinIs
<1>7. Min(new) < m /\ m < Min(Stamps) /\ m \notin new
  <2>1. m \notin new /\ x \in Nat /\ Min(new) \in Nat /\ Min(new) <= x
    BY <1>1, <1>4, <1>5
  <2>2. x < m
    BY <1>3, <1>4, <2>1
  <2>3. Min(new) < m
    BY <1>4, <2>1, <2>2
  <2>4. m < Min(Stamps)
    BY <1>2, <1>6
  <2> QED  BY <2>1, <2>3, <2>4
<1>8. m \in Skipped(new)
  BY <1>2, <1>3, <1>7 DEF Skipped
<1> QED  BY <1>1, <1>8

\* A stored message that is open after a step was open before it: what is
\* shown or pageable stays so, or becomes a stray.
LEMMA OpenBefore ==
  ASSUME TypeOK, Inv, Stored, PageKnows, OlderKnows, [Next]_vars,
         NEW m \in Msgs, m \in db, Open(m)'
  PROVE  Open(m)
<1> USE DEF service, socket, shown, paging, first
<1>1. ASSUME NEW x \in Msgs, SendMine(x) PROVE Open(m)
  <2>1. /\ list' = [list EXCEPT ![Client(x)] = @ + 1] /\ strays' = strays \union Skipped({x})
        /\ UNCHANGED <<hasMore, history>>
    BY <1>1 DEF SendMine
  <2>2. Stamps' = Stamps \union {x}
    <3>1. /\ Client(x) = <<"client", x>> /\ \A id \in Ids : list[id] \in Nat
          /\ \A y \in Msgs : <<"server", y>> \in Ids /\ <<"client", y>> \in Ids
      BY DEF Client, Ids, TypeOK
    <3>2. PICK c \in Ids : c = Client(x)
      BY <3>1
    <3>3. /\ \A id \in Ids : id # c => list'[id] = list[id]
          /\ list'[c] = list[c] + 1
      BY <2>1, <3>2 DEF TypeOK
    <3>4. list'[c] > 0
      BY <3>1, <3>3
    <3>5. \A y \in Msgs : list'[<<"server", y>>] = list[<<"server", y>>]
      <4>1. \A y \in Msgs : <<"server", y>> # c
        BY <3>1, <3>2
      <4> QED  BY <3>1, <3>3, <4>1
    <3>6. \A y \in Msgs : y # x => list'[<<"client", y>>] = list[<<"client", y>>]
      <4>1. \A y \in Msgs : y # x => <<"client", y>> # c
        BY <3>1, <3>2
      <4> QED  BY <3>1, <3>3, <4>1
    <3>7. list'[<<"client", x>>] > 0
      BY <3>1, <3>2, <3>4
    <3> QED  BY <3>5, <3>6, <3>7, StampsAre
  <2> QED  BY <2>1, <2>2, OpenAdded
<1>2. CASE Receive
  <2>1. PICK ms \in SUBSET db : Show(ms)
    <3>1. wire \in Seq(Packet) /\ wire # << >>
      BY <1>2 DEF TypeOK, Receive
    <3>2. Head(wire) = wire[1] /\ 1 \in DOMAIN wire
      BY <3>1, HeadAndTail
    <3> QED  BY <1>2, <3>2 DEF Receive, Stored
  <2>2. PICK new \in SUBSET ms : Stamps' = Stamps \union new /\ strays' = strays \union Skipped(new)
    BY <2>1, ShowStamps
  <2>3. new \in SUBSET Msgs /\ UNCHANGED <<hasMore, history>>
    BY <1>2 DEF TypeOK, Receive
  <2> QED  BY <2>2, <2>3, OpenAdded
<1>3. CASE HistoryApply
  <2>1. /\ history = "read"
        /\ list' = [id \in Ids |-> IF id \in Server(page) THEN 1 ELSE 0]
        /\ \A x \in db \ page : Shown(x) => x \in strays'
        /\ strays \subseteq strays'
    BY <1>3 DEF HistoryApply
  <2>2. page \subseteq Stamps'
    <3>1. \A x \in page : x \in Msgs /\ <<"server", x>> \in Server(page) /\ <<"server", x>> \in Ids
      BY DEF TypeOK, Server, Ids
    <3>2. \A id \in Server(page) : id \in Ids => list'[id] > 0
      BY <2>1
    <3> QED  BY <3>1, <3>2, StampsAre
  <2>3. m \notin strays' /\ m \notin Stamps'
    BY DEF Open, Shown
  <2> QED  BY <2>1, <2>2, <2>3 DEF Open
<1>4. CASE OlderApply
  <2> DEFINE new == {x \in olderPage : <<"server", x>> \notin seen}
  <2>1. /\ list' = [id \in Ids |-> IF id \in Server(new) THEN list[id] + 1 ELSE list[id]]
        /\ hasMore' = (hasMore /\ Cardinality(olderPage) >= OlderLimit)
        /\ strays' = IF olderBefore \in Stamps THEN strays
                     ELSE strays \union {x \in db \ olderPage : BelowList(x)}
        /\ older = "read" /\ history' = history
    BY <1>4 DEF OlderApply
  <2>2. new \in SUBSET Msgs /\ new \subseteq olderPage /\ olderPage \subseteq Msgs
    BY DEF TypeOK
  <2>3. \A x \in olderPage : x \in new \/ <<"server", x>> \in seen
    OBVIOUS
  <2> HIDE DEF new
  <2>4. Stamps' = Stamps \union new
    BY <2>1, <2>2, AddedStamps
  <2>5. m \notin strays' /\ m \notin Stamps' /\ ~ (history' = "done" /\ Pageable(m)')
    BY DEF Open, Shown
  <2>6. m \notin olderPage
    BY <2>2, <2>3, <2>4, <2>5, StampsAreKnown
  <2>7. m \notin strays /\ m \notin Stamps
    BY <2>1, <2>4, <2>5
  <2> SUFFICES ASSUME history = "done", Pageable(m) PROVE FALSE
    BY <2>7 DEF Open, Shown
  <2>8. hasMore /\ Stamps # {} /\ BelowList(m) /\ \A s \in Stamps : m < s
    BY PageableIs
  <2>9. olderBefore \in Stamps
    BY <2>1, <2>5, <2>6, <2>8
  <2>10. Cardinality(olderPage) >= OlderLimit /\ \A x \in olderPage : m < x
    BY <2>1, <2>6, <2>7, <2>8, <2>9 DEF OlderKnows
  <2>11. \A s \in Stamps' : m < s
    BY <2>2, <2>4, <2>8, <2>10
  <2>12. hasMore'
    BY <2>1, <2>8, <2>10
  <2>13. Stamps' # {}
    BY <2>4, <2>8
  <2> QED  BY <2>1, <2>5, <2>11, <2>12, <2>13, PageableIs
<1>5. ASSUME NEW x \in Msgs, Store(x) \/ Enqueue(x) \/ EnqueueFails(x) PROVE Open(m)
  BY <1>5, OpenFrame DEF Store, Enqueue, EnqueueFails
<1>6. CASE Publish \/ PublishStalls \/ PublishFails \/ PublishUnheard
  BY <1>6, OpenFrame DEF Publish, PublishStalls, PublishFails, PublishUnheard
<1>7. ASSUME NEW job \in delayed, Retry(job) PROVE Open(m)
  BY <1>7, OpenFrame DEF Retry
<1>8. CASE SyncRead \/ SyncFails \/ Connect \/ ConnectFails \/ TimerFires \/ Disconnect
  BY <1>8, OpenFrame DEF SyncRead, SyncFails, Connect, ConnectFails, TimerFires, Disconnect
<1>9. CASE HistoryRead \/ HistoryFails
  BY <1>9, OpenFrame DEF HistoryRead, HistoryFails
<1>10. CASE AskOlder \/ OlderRead \/ OlderFails
  BY <1>10, OpenFrame DEF AskOlder, OlderRead, OlderFails
<1>11. CASE UNCHANGED vars
  BY <1>11, OpenFrame DEF vars
<1> QED
  BY <1>1, <1>2, <1>3, <1>4, <1>5, <1>6, <1>7, <1>8, <1>9, <1>10, <1>11 DEF Next


-----------------------------------------------------------------------------
(* Where an open message is. *)

\* The resync of this connection will bring m, or its answer has it.
Answering(m) ==
  \/ sync = "asked" /\ m >= since
  \/ \E i \in DOMAIN wire : wire[i].kind = "synced" /\ m \in wire[i].msgs

\* m is in a packet, and no earlier packet has a later message.
OnWire(m) ==
  \E i \in DOMAIN wire :
    m \in wire[i].msgs /\ \A j \in 1 .. i - 1 : \A x \in wire[j].msgs : x <= m

\* m has a job, and no earlier job is about a later message.
InQueue(m) ==
  \E i \in DOMAIN queue :
    queue[i].msg = m /\ \A j \in 1 .. i - 1 : queue[j].msg <= m

WireIsBelow(m) == \A i \in DOMAIN wire : \A x \in wire[i].msgs : x <= m

\* m is on its way, and when it arrives the tab has seen nothing later.
Ahead(m) ==
  /\ m >= lastSeen /\ m >= since
  /\ \/ OnWire(m)
     \/ WireIsBelow(m) /\ (InQueue(m) \/ m \in toEnqueue)

\* A tab that is not connected will ask for m when it is.
Fate(m) == IF sock = "connected" THEN Answering(m) \/ Ahead(m)
                                 ELSE m >= lastSeen

Accounted == \A m \in Msgs : Open(m) => Fate(m)

LEMMA FateKept ==
  ASSUME NEW m \in Msgs, Fate(m), UNCHANGED <<wire, queue, sync, since, lastSeen, sock>>,
         m \in toEnqueue => m \in toEnqueue'
  PROVE  Fate(m)'
<1>1. Answering(m)' <=> Answering(m)
  BY DEF Answering
<1>2. OnWire(m)' <=> OnWire(m)
  BY DEF OnWire
<1>3. InQueue(m)' <=> InQueue(m)
  BY DEF InQueue
<1>4. WireIsBelow(m)' <=> WireIsBelow(m)
  BY DEF WireIsBelow
<1>5. Ahead(m) => Ahead(m)'
  BY <1>2, <1>3, <1>4 DEF Ahead
<1> QED  BY <1>1, <1>5 DEF Fate

LEMMA EmitOnWire ==
  ASSUME TypeOK, NEW x \in Msgs, NEW m \in Msgs, Emit(x), sock = "connected", UNCHANGED sync,
         UNCHANGED since
  PROVE  /\ Answering(m) => Answering(m)'
         /\ OnWire(m) => OnWire(m)'
         /\ WireIsBelow(m) /\ x <= m => WireIsBelow(m)'
         /\ WireIsBelow(m) /\ x = m => OnWire(m)'
<1> DEFINE p == [kind |-> "message", msgs |-> {x}]
<1>1. p \in Packet /\ p.msgs = {x} /\ wire \in Seq(Packet) /\ wire' = Append(wire, p)
  BY DEF Packet, TypeOK, Emit
<1> HIDE DEF p
<1>2. /\ Len(wire) \in Nat /\ DOMAIN wire = 1 .. Len(wire) /\ DOMAIN wire' = 1 .. Len(wire) + 1
      /\ \A i \in 1 .. Len(wire) : wire'[i] = wire[i]
      /\ wire'[Len(wire) + 1] = p
  BY <1>1, Appended
<1>3. Answering(m) => Answering(m)'
  <2>1. \A i \in DOMAIN wire : i \in DOMAIN wire' /\ wire'[i] = wire[i]
    BY <1>2
  <2> QED  BY <2>1 DEF Answering
<1>4. ASSUME OnWire(m) PROVE OnWire(m)'
  <2>1. PICK i \in DOMAIN wire :
          m \in wire[i].msgs /\ \A j \in 1 .. i - 1 : \A y \in wire[j].msgs : y <= m
    BY <1>4 DEF OnWire
  <2>2. i \in DOMAIN wire' /\ wire'[i] = wire[i] /\ \A j \in 1 .. i - 1 : wire'[j] = wire[j]
    BY <1>2
  <2> QED  BY <2>1, <2>2 DEF OnWire
<1>5. ASSUME WireIsBelow(m), x <= m PROVE WireIsBelow(m)'
  <2>1. \A i \in DOMAIN wire' : (i \in DOMAIN wire /\ wire'[i] = wire[i]) \/ wire'[i] = p
    BY <1>2
  <2> QED  BY <1>1, <1>5, <2>1 DEF WireIsBelow
<1>6. ASSUME WireIsBelow(m), x = m PROVE OnWire(m)'
  <2>1. /\ Len(wire) + 1 \in DOMAIN wire' /\ m \in wire'[Len(wire) + 1].msgs
        /\ \A j \in 1 .. (Len(wire) + 1) - 1 : j \in DOMAIN wire /\ wire'[j] = wire[j]
    BY <1>1, <1>2, <1>6
  <2> QED  BY <1>6, <2>1 DEF OnWire, WireIsBelow
<1> QED  BY <1>3, <1>4, <1>5, <1>6

LEMMA QueueGrows ==
  ASSUME TypeOK, NEW job \in Job, NEW m \in Msgs, queue' = Append(queue, job)
  PROVE  /\ InQueue(m) => InQueue(m)'
         /\ job.msg = m /\ (\A i \in DOMAIN queue : queue[i].msg <= m) => InQueue(m)'
<1>1. /\ Len(queue) \in Nat /\ DOMAIN queue = 1 .. Len(queue)
      /\ DOMAIN queue' = 1 .. Len(queue) + 1
      /\ \A i \in 1 .. Len(queue) : queue'[i] = queue[i]
      /\ queue'[Len(queue) + 1] = job
  BY Appended DEF TypeOK
<1>2. ASSUME InQueue(m) PROVE InQueue(m)'
  <2>1. PICK i \in DOMAIN queue :
          queue[i].msg = m /\ \A j \in 1 .. i - 1 : queue[j].msg <= m
    BY <1>2 DEF InQueue
  <2>2. i \in DOMAIN queue' /\ queue'[i] = queue[i] /\ \A j \in 1 .. i - 1 : queue'[j] = queue[j]
    BY <1>1
  <2> QED  BY <2>1, <2>2 DEF InQueue
<1>3. ASSUME job.msg = m, \A i \in DOMAIN queue : queue[i].msg <= m PROVE InQueue(m)'
  <2>1. /\ Len(queue) + 1 \in DOMAIN queue' /\ queue'[Len(queue) + 1].msg = m
        /\ \A j \in 1 .. (Len(queue) + 1) - 1 : j \in DOMAIN queue /\ queue'[j] = queue[j]
    BY <1>1, <1>3
  <2> QED  BY <1>3, <2>1 DEF InQueue
<1> QED  BY <1>2, <1>3

\* The head of the queue is m's job, or an earlier one.
LEMMA QueueMoves ==
  ASSUME TypeOK, queue # << >>, NEW m \in Msgs, InQueue(m),
         \A i \in 1 .. Len(queue) - 1 : i \in DOMAIN queue' /\ queue'[i] = queue[i + 1]
  PROVE  Head(queue).msg = m \/ (Head(queue).msg <= m /\ InQueue(m)')
<1>1. /\ Len(queue) \in Nat /\ DOMAIN queue = 1 .. Len(queue) /\ Head(queue) = queue[1]
  BY HeadAndTail DEF TypeOK
<1>2. PICK i \in DOMAIN queue :
        queue[i].msg = m /\ \A j \in 1 .. i - 1 : queue[j].msg <= m
  BY DEF InQueue
<1>3. CASE i = 1
  BY <1>1, <1>2, <1>3
<1>4. CASE i # 1
  <2>1. i - 1 \in 1 .. Len(queue) - 1 /\ 1 \in 1 .. i - 1 /\ (i - 1) + 1 = i
    BY <1>1, <1>4
  <2>2. i - 1 \in DOMAIN queue' /\ queue'[i - 1] = queue[i]
    BY <2>1
  <2>3. \A j \in 1 .. (i - 1) - 1 : j \in 1 .. Len(queue) - 1 /\ j + 1 \in 1 .. i - 1
    BY <1>1, <1>4
  <2>4. \A j \in 1 .. (i - 1) - 1 : queue'[j].msg <= m
    BY <1>2, <2>3
  <2> QED  BY <1>1, <1>2, <2>1, <2>2, <2>4 DEF InQueue
<1> QED  BY <1>3, <1>4

\* The tab receives a packet that does not have m.
LEMMA WireMoves ==
  ASSUME TypeOK, wire # << >>, wire' = Tail(wire), NEW m \in Msgs, m \notin Head(wire).msgs
  PROVE  /\ OnWire(m) => OnWire(m)' /\ \A x \in Head(wire).msgs : x <= m
         /\ WireIsBelow(m) => WireIsBelow(m)' /\ \A x \in Head(wire).msgs : x <= m
<1>1. /\ Len(wire) \in Nat /\ DOMAIN wire = 1 .. Len(wire) /\ Head(wire) = wire[1]
      /\ 1 \in DOMAIN wire /\ DOMAIN wire' = 1 .. Len(wire) - 1
      /\ \A i \in 1 .. Len(wire) - 1 : wire'[i] = wire[i + 1]
  BY HeadAndTail DEF TypeOK
<1>2. ASSUME OnWire(m) PROVE OnWire(m)' /\ \A x \in Head(wire).msgs : x <= m
  <2>1. PICK i \in DOMAIN wire :
          m \in wire[i].msgs /\ \A j \in 1 .. i - 1 : \A x \in wire[j].msgs : x <= m
    BY <1>2 DEF OnWire
  <2>2. i # 1
    BY <1>1, <2>1
  <2>3. i - 1 \in 1 .. Len(wire) - 1 /\ 1 \in 1 .. i - 1 /\ (i - 1) + 1 = i
    BY <1>1, <2>2
  <2>4. i - 1 \in DOMAIN wire' /\ wire'[i - 1] = wire[i]
    BY <1>1, <2>3
  <2>5. \A j \in 1 .. (i - 1) - 1 : wire'[j] = wire[j + 1] /\ j + 1 \in 1 .. i - 1
    BY <1>1, <2>2
  <2>6. \A j \in 1 .. (i - 1) - 1 : \A x \in wire'[j].msgs : x <= m
    BY <2>1, <2>5
  <2>7. OnWire(m)'
    BY <2>1, <2>4, <2>6 DEF OnWire
  <2> QED  BY <1>1, <2>1, <2>3, <2>7
<1>3. ASSUME WireIsBelow(m) PROVE WireIsBelow(m)' /\ \A x \in Head(wire).msgs : x <= m
  <2>1. \A i \in DOMAIN wire' : i + 1 \in DOMAIN wire /\ wire'[i] = wire[i + 1]
    BY <1>1
  <2> QED  BY <1>1, <1>3, <2>1 DEF WireIsBelow
<1> QED  BY <1>2, <1>3

-----------------------------------------------------------------------------
(* The steps. *)

\* A message that is stored in turn is later than all there is.
LEMMA StoreFate ==
  ASSUME TypeOK, Stored, NEW m \in Msgs, Store(m), Open(m)'
  PROVE  Fate(m)'
<1>1. /\ toEnqueue' = toEnqueue \union {m}
      /\ m \notin strays' => \A x \in db \union outbox : ~ (x > m)
      /\ UNCHANGED <<queue, wire, sync, since, lastSeen, sock>>
  BY DEF Store, socket, shown
<1>2. db \subseteq Nat /\ m \in Nat /\ m >= 0
  BY Sizes DEF TypeOK
<1>3. \A x \in db : m >= x /\ x <= m
  BY <1>1, <1>2 DEF Open
<1>4. m >= lastSeen /\ m >= since
  BY <1>2, <1>3 DEF Stored
<1>5. WireIsBelow(m)
  BY <1>3 DEF Stored, WireIsBelow
<1>6. WireIsBelow(m)'
  BY <1>1, <1>5 DEF WireIsBelow
<1> QED  BY <1>1, <1>4, <1>6 DEF Fate, Ahead

LEMMA EnqueueFate ==
  ASSUME TypeOK, InTurn, NEW m \in Msgs, NEW x \in Msgs, Enqueue(x), Fate(m), Open(m)'
  PROVE  Fate(m)'
<1> DEFINE job == [msg |-> x, tries |-> 1, stalled |-> FALSE]
<1>1. job \in Job /\ job.msg = x
  BY SizeAssumption DEF Job
<1>2. /\ toEnqueue' = toEnqueue \ {x} /\ queue' = Append(queue, job)
      /\ strays \subseteq strays' /\ UNCHANGED <<wire, sync, since, lastSeen, sock>>
  BY DEF Enqueue, socket, shown
<1> HIDE DEF job
<1>3. m \in toEnqueue => \A i \in DOMAIN queue : queue[i].msg <= m
  BY <1>2 DEF InTurn, Open
<1>4. InQueue(m) \/ m \in toEnqueue => InQueue(m)' \/ m \in toEnqueue'
  BY <1>1, <1>2, <1>3, QueueGrows
<1>5. /\ Answering(m) => Answering(m)'
      /\ OnWire(m) => OnWire(m)'
      /\ WireIsBelow(m) => WireIsBelow(m)'
  BY <1>2 DEF Answering, OnWire, WireIsBelow
<1>6. Ahead(m) => Ahead(m)'
  BY <1>2, <1>4, <1>5 DEF Ahead
<1> QED  BY <1>2, <1>5, <1>6 DEF Fate

LEMMA RetryFate ==
  ASSUME TypeOK, NEW m \in Msgs, NEW job \in delayed, Retry(job), Fate(m)
  PROVE  Fate(m)'
<1>1. /\ job \in Job /\ queue' = Append(queue, job)
      /\ UNCHANGED <<toEnqueue, wire, sync, since, lastSeen, sock>>
  BY DEF Retry, TypeOK, socket, shown
<1>2. InQueue(m) => InQueue(m)'
  BY <1>1, QueueGrows
<1>3. /\ Answering(m) => Answering(m)'
      /\ OnWire(m) => OnWire(m)'
      /\ WireIsBelow(m) => WireIsBelow(m)'
  BY <1>1 DEF Answering, OnWire, WireIsBelow
<1>4. Ahead(m) => Ahead(m)'
  BY <1>1, <1>2, <1>3 DEF Ahead
<1> QED  BY <1>1, <1>3, <1>4 DEF Fate

\* The queue loses its head, and keeps the order of the rest.
LEMMA Shifted ==
  ASSUME TypeOK, queue # << >>,
         \/ queue' = Tail(queue)
         \/ queue' = Append(Tail(queue), [Head(queue) EXCEPT !.stalled = TRUE])
  PROVE  \A i \in 1 .. Len(queue) - 1 : i \in DOMAIN queue' /\ queue'[i] = queue[i + 1]
<1>1. /\ Tail(queue) \in Seq(Job) /\ Len(Tail(queue)) = Len(queue) - 1 /\ Len(queue) \in Nat
      /\ \A i \in 1 .. Len(queue) - 1 : Tail(queue)[i] = queue[i + 1]
  BY HeadAndTail DEF TypeOK
<1>2. CASE queue' = Tail(queue)
  BY <1>1, <1>2
<1>3. CASE queue' = Append(Tail(queue), [Head(queue) EXCEPT !.stalled = TRUE])
  <2> DEFINE job == [Head(queue) EXCEPT !.stalled = TRUE]
             rest == Tail(queue)
  <2>1. job \in Job
    BY QueueHead DEF Job
  <2>2. queue' = Append(rest, job) /\ rest \in Seq(Job) /\ Len(rest) = Len(queue) - 1
    BY <1>1, <1>3
  <2>3. \A i \in 1 .. Len(queue) - 1 : rest[i] = queue[i + 1]
    BY <1>1
  <2> HIDE DEF job, rest
  <2>4. /\ DOMAIN queue' = 1 .. Len(rest) + 1
        /\ \A i \in 1 .. Len(rest) : queue'[i] = rest[i]
    BY <2>1, <2>2, Appended
  <2>5. \A i \in 1 .. Len(queue) - 1 : i \in 1 .. Len(rest) /\ i \in 1 .. Len(rest) + 1
    <3>1. Len(rest) = Len(queue) - 1 /\ Len(queue) \in Nat
      BY <1>1, <2>2
    <3> QED  BY <3>1
  <2> QED  BY <2>3, <2>4, <2>5
<1> QED  BY <1>2, <1>3

LEMMA PublishFate ==
  ASSUME TypeOK, InTurn, NEW m \in Msgs, Publish \/ PublishStalls, Fate(m), Open(m)'
  PROVE  Fate(m)'
<1>1. /\ queue # << >> /\ Emit(Head(queue).msg)
      /\ \/ queue' = Tail(queue)
         \/ queue' = Append(Tail(queue), [Head(queue) EXCEPT !.stalled = TRUE])
      /\ UNCHANGED <<toEnqueue, sync, since, lastSeen, sock, strays>>
  BY DEF Publish, PublishStalls, shown
<1>2. PICK x \in Msgs : x = Head(queue).msg
  BY <1>1, QueueHead
<1>3. Emit(x)
  BY <1>1, <1>2
<1>4. InQueue(m) => x = m \/ (x <= m /\ InQueue(m)')
  BY <1>1, <1>2, Shifted, QueueMoves
<1>5. m \in toEnqueue => x <= m
  BY <1>1, <1>2, QueueHead DEF InTurn, Open
<1>6. CASE sock = "connected"
  <2>1. /\ Answering(m) => Answering(m)'
        /\ OnWire(m) => OnWire(m)'
        /\ WireIsBelow(m) /\ x <= m => WireIsBelow(m)'
        /\ WireIsBelow(m) /\ x = m => OnWire(m)'
    BY <1>1, <1>3, <1>6, EmitOnWire
  <2>2. Ahead(m) => Ahead(m)'
    BY <1>1, <1>4, <1>5, <2>1 DEF Ahead
  <2> QED  BY <1>1, <1>6, <2>1, <2>2 DEF Fate
<1>7. CASE sock # "connected"
  BY <1>1, <1>7 DEF Fate
<1> QED  BY <1>6, <1>7

LEMMA UnpublishedFate ==
  ASSUME TypeOK, NEW m \in Msgs, PublishFails \/ PublishUnheard, Fate(m), Open(m)'
  PROVE  Fate(m)'
<1>1. /\ queue # << >> /\ queue' = Tail(queue) /\ Head(queue).msg \in strays'
      /\ UNCHANGED <<toEnqueue, wire, sync, since, lastSeen, sock>>
  BY DEF PublishFails, PublishUnheard, socket, shown
<1>2. Head(queue).msg # m
  BY <1>1 DEF Open
<1>3. InQueue(m) => InQueue(m)'
  BY <1>1, <1>2, Shifted, QueueMoves
<1>4. /\ Answering(m) => Answering(m)'
      /\ OnWire(m) => OnWire(m)'
      /\ WireIsBelow(m) => WireIsBelow(m)'
  BY <1>1 DEF Answering, OnWire, WireIsBelow
<1>5. Ahead(m) => Ahead(m)'
  BY <1>1, <1>3, <1>4 DEF Ahead
<1> QED  BY <1>1, <1>4, <1>5 DEF Fate

\* What the tab waits for over its connection, the present resync is to
\* deliver.
LEMMA FateIsMissing ==
  ASSUME TypeOK, Connection, NEW m \in Msgs, Open(m), Fate(m), sock = "connected"
  PROVE  m \in Missing(since)
<1>1. m >= since
  BY DEF Fate, Answering, Ahead, Connection
<1> QED  BY <1>1 DEF Missing, Open

LEMMA SyncFate ==
  ASSUME TypeOK, Connection, NEW m \in Msgs, SyncRead \/ SyncFails, Open(m), Fate(m), Open(m)'
  PROVE  Fate(m)'
<1>1. m \in Missing(since)
  BY FateIsMissing DEF Connection, SyncRead, SyncFails
<1>2. CASE SyncFails
  BY <1>1, <1>2 DEF SyncFails, Open
<1>3. CASE SyncRead
  <2> DEFINE p == [kind |-> "synced", msgs |-> Resync(since)]
  <2>1. m \in Resync(since)
    BY <1>1, <1>3 DEF SyncRead, Open
  <2>2. Resync(since) \subseteq Msgs
    BY DEF Resync, Newest, Oldest, TypeOK
  <2>3. p \in Packet /\ p.kind = "synced" /\ m \in p.msgs /\ wire \in Seq(Packet)
    BY <2>1, <2>2 DEF Packet, TypeOK
  <2>4. wire' = Append(wire, p) /\ sock' = sock /\ sock = "connected"
    BY <1>3 DEF SyncRead, Connection
  <2> HIDE DEF p
  <2>5. Len(wire) + 1 \in DOMAIN wire' /\ wire'[Len(wire) + 1] = p
    BY <2>3, <2>4, Appended
  <2>6. Answering(m)'
    BY <2>3, <2>5 DEF Answering
  <2> QED  BY <2>4, <2>6 DEF Fate
<1> QED  BY <1>2, <1>3

\* The resync of a new connection starts at lastSeen.
LEMMA ConnectFate ==
  ASSUME NEW m \in Msgs, Connect \/ ConnectFails \/ TimerFires, Fate(m)
  PROVE  Fate(m)'
<1> USE DEF service, shown
<1>1. CASE Connect
  BY <1>1 DEF Connect, Fate, Answering
<1>2. CASE ConnectFails
  BY <1>2 DEF ConnectFails, Fate
<1>3. CASE TimerFires
  <2>1. CASE sock = "connected"
    <3>1. UNCHANGED <<wire, queue, sync, since, lastSeen, sock, toEnqueue>>
      BY <1>3, <2>1 DEF TimerFires
    <3> QED  BY <3>1, FateKept
  <2>2. CASE sock # "connected"
    BY <1>3, <2>2 DEF TimerFires, Fate
  <2> QED  BY <2>1, <2>2
<1> QED  BY <1>1, <1>2, <1>3

\* What an unanswered resync was to deliver below lastSeen is a stray.
LEMMA DisconnectFate ==
  ASSUME TypeOK, Connection, NEW m \in Msgs, Disconnect, Open(m), Fate(m), Open(m)'
  PROVE  Fate(m)'
<1>1. /\ sock = "connected" /\ sock' = "offline" /\ lastSeen' = lastSeen
      /\ sync # "none" => \A x \in Missing(since) : x < lastSeen => x \in strays'
  BY DEF Disconnect, shown
<1>2. m \in Missing(since)
  BY <1>1, FateIsMissing
<1>3. Answering(m) => sync # "none"
  BY DEF Answering, Connection
<1>4. Answering(m) => ~ (m < lastSeen)
  BY <1>1, <1>2, <1>3 DEF Open
<1>5. m \in Nat /\ lastSeen \in Nat
  BY Sizes DEF TypeOK
<1>6. m >= lastSeen
  BY <1>1, <1>4, <1>5 DEF Fate, Ahead
<1> QED  BY <1>1, <1>6 DEF Fate

\* lastSeen moves to a message that was before m.
LEMMA ReceiveFate ==
  ASSUME TypeOK, Inv, Stored, Connection, NEW m \in Msgs, Receive, Open(m), Fate(m), Open(m)'
  PROVE  Fate(m)'
<1> DEFINE p == Head(wire)
           own == {x \in p.msgs : Client(x) \in seen}
           ms == IF p.kind = "message" THEN p.msgs \ own ELSE p.msgs
<1>1. /\ wire # << >> /\ wire' = Tail(wire) /\ wire \in Seq(Packet)
      /\ UNCHANGED <<queue, toEnqueue, sock, since>>
  BY DEF Receive, TypeOK, service
<1>2. /\ p = wire[1] /\ 1 \in DOMAIN wire /\ p \in Packet
  BY <1>1, HeadAndTail
<1>3. /\ Show(ms)
      /\ p.kind = "message" => sync' = sync
  BY DEF Receive
<1>4. ms \in SUBSET db /\ ms \subseteq p.msgs
  BY <1>2 DEF Stored
<1>5. \A x \in p.msgs : x \in ms \/ Client(x) \in seen
  OBVIOUS
<1> HIDE DEF ms, own, p
<1>6. PICK new \in SUBSET ms : /\ Stamps' = Stamps \union new /\ ms \subseteq Stamps'
                               /\ lastSeen' \in new \union {lastSeen}
  BY <1>3, <1>4, ShowStamps
<1>7. m \notin p.msgs
  <2>1. m \notin Stamps /\ m \notin Stamps'
    BY DEF Open, Shown
  <2> QED  BY <1>5, <1>6, <2>1, StampsAreKnown
<1>8. sock = "connected"
  BY <1>1 DEF Connection
<1>9. ASSUME Ahead(m) PROVE Ahead(m)'
  <2>1. /\ OnWire(m) => OnWire(m)' /\ \A x \in p.msgs : x <= m
        /\ WireIsBelow(m) => WireIsBelow(m)' /\ \A x \in p.msgs : x <= m
    BY <1>1, <1>7, WireMoves DEF p
  <2>2. \A x \in p.msgs : x <= m
    BY <1>9, <2>1 DEF Ahead
  <2>3. m >= lastSeen'
    <3>1. p.msgs \subseteq Nat /\ m \in Nat
      BY <1>2, Sizes DEF Packet
    <3>2. \A x \in p.msgs : m >= x
      BY <2>2, <3>1
    <3> QED  BY <1>4, <1>6, <1>9, <3>2 DEF Ahead
  <2>4. InQueue(m) => InQueue(m)'
    BY <1>1 DEF InQueue
  <2> QED  BY <1>1, <1>9, <2>1, <2>3, <2>4 DEF Ahead
<1>10. ASSUME Answering(m) PROVE Answering(m)'
  <2>1. CASE sync = "asked" /\ m >= since
    <3>1. p.kind = "message"
      BY <1>2, <2>1 DEF Connection, Packet
    <3> QED  BY <1>1, <1>3, <2>1, <3>1 DEF Answering
  <2>2. ASSUME NEW i \in DOMAIN wire, wire[i].kind = "synced", m \in wire[i].msgs
        PROVE  Answering(m)'
    <3>1. i # 1
      BY <1>2, <1>7, <2>2
    <3>2. /\ Len(wire) \in Nat /\ DOMAIN wire = 1 .. Len(wire)
          /\ DOMAIN wire' = 1 .. Len(wire) - 1
          /\ \A k \in 1 .. Len(wire) - 1 : wire'[k] = wire[k + 1]
      BY <1>1, HeadAndTail
    <3>3. i - 1 \in DOMAIN wire' /\ i - 1 \in 1 .. Len(wire) - 1 /\ (i - 1) + 1 = i
      BY <3>1, <3>2
    <3>4. wire'[i - 1] = wire[i]
      BY <3>2, <3>3
    <3> QED  BY <2>2, <3>3, <3>4 DEF Answering
  <2> QED  BY <1>10, <2>1, <2>2 DEF Answering
<1> QED  BY <1>1, <1>8, <1>9, <1>10 DEF Fate

\* lastSeen moves to the last message of the page, which is before m, or m is
\* found by scrolling up.
LEMMA HistoryFate ==
  ASSUME TypeOK, Stored, PageKnows, NEW m \in Msgs, HistoryApply, Open(m), Fate(m), Open(m)'
  PROVE  Fate(m)'
<1>1. /\ history = "read" /\ history' = "done"
      /\ list' = [id \in Ids |-> IF id \in Server(page) THEN 1 ELSE 0]
      /\ lastSeen' = IF page = {} THEN lastSeen ELSE Max(page)
      /\ hasMore' = (hasMore /\ Cardinality(page) >= HistoryLimit)
      /\ \A x \in db \ page : (~ hasMore /\ \E y \in page : x < y) => x \in strays'
      /\ strays \subseteq strays'
      /\ UNCHANGED <<queue, toEnqueue, wire, sync, since, sock>>
  BY DEF HistoryApply, service, socket
<1>2. m \in db /\ m \notin strays /\ m \notin strays' /\ m \notin Stamps'
  BY <1>1 DEF Open, Shown
<1>3. Stamps' = page
  <2>1. \A x \in Msgs : /\ <<"server", x>> \in Ids /\ <<"client", x>> \in Ids
                        /\ <<"server", x>> \in Server(page) <=> x \in page
                        /\ <<"client", x>> \notin Server(page)
    BY DEF Ids, Server
  <2>2. \A id \in Ids : list'[id] > 0 <=> id \in Server(page)
    BY <1>1
  <2>3. page \subseteq Msgs
    BY DEF TypeOK
  <2> QED  BY <2>1, <2>2, <2>3, StampsAre
<1>4. m \notin page
  BY <1>2, <1>3
<1>5. CASE page = {}
  <2>1. lastSeen' = lastSeen
    BY <1>1, <1>5
  <2> QED  BY <1>1, <2>1, FateKept
<1>6. CASE page # {} /\ \A x \in page : x < m
  <2>1. page \in SUBSET (0 .. N) /\ page \subseteq Nat /\ m \in Nat
    BY Sizes DEF TypeOK
  <2>2. lastSeen' \in page
    BY <1>1, <1>6, <2>1, MaxIs
  <2>3. m >= lastSeen'
    <3>1. lastSeen' \in Nat /\ lastSeen' < m
      BY <1>6, <2>1, <2>2
    <3> QED  BY <2>1, <3>1
  <2>4. /\ Answering(m) => Answering(m)'
        /\ OnWire(m) => OnWire(m)'
        /\ InQueue(m) => InQueue(m)'
        /\ WireIsBelow(m) => WireIsBelow(m)'
    BY <1>1 DEF Answering, OnWire, InQueue, WireIsBelow
  <2>5. Ahead(m) => Ahead(m)'
    BY <1>1, <2>3, <2>4 DEF Ahead
  <2> QED  BY <1>1, <2>3, <2>4, <2>5 DEF Fate
<1>7. CASE page # {} /\ Cardinality(page) >= HistoryLimit /\ \A x \in page : m < x
  <2>1. hasMore
    BY <1>1, <1>2, <1>4, <1>7
  <2>2. hasMore'
    BY <1>1, <1>7, <2>1
  <2>3. Pageable(m)'
    BY <1>3, <1>7, <2>2, PageableIs
  <2> QED  BY <1>1, <2>3 DEF Open
<1> QED  BY <1>1, <1>2, <1>4, <1>5, <1>6, <1>7 DEF PageKnows

LEMMA AccountedInit == Init => Accounted
<1> SUFFICES ASSUME Init, NEW m \in Msgs PROVE Fate(m)
  BY DEF Accounted
<1>1. m \in Nat /\ lastSeen = 0 /\ sock = "connecting"
  BY Sizes DEF Init
<1> QED  BY <1>1 DEF Fate

LEMMA AccountedNext ==
  ASSUME TypeOK, Inv, Stored, Connection, InTurn, PageKnows, OlderKnows, Accounted, [Next]_vars
  PROVE  Accounted'
<1> SUFFICES ASSUME NEW m \in Msgs, Open(m)' PROVE Fate(m)'
  BY DEF Accounted, Msgs
<1> USE DEF service, socket, shown, paging, first
<1>1. ASSUME NEW x \in Msgs, Store(x), m \notin db PROVE Fate(m)'
  <2>1. m = x
    BY <1>1 DEF Store, Open
  <2> QED  BY <1>1, <2>1, StoreFate
<1>2. m \in db \/ \E x \in Msgs : Store(x)
  <2>1. m \in db'
    BY DEF Open
  <2> QED
    BY <2>1 DEF Next, SendMine, Enqueue, EnqueueFails, Publish, PublishStalls, PublishFails,
       PublishUnheard, Retry, SyncRead, SyncFails, Connect, ConnectFails, TimerFires,
       Disconnect, Receive, HistoryRead, HistoryApply, HistoryFails, AskOlder, OlderRead,
       OlderApply, OlderFails, vars
<1> SUFFICES ASSUME m \in db PROVE Fate(m)'
  BY <1>1, <1>2
<1>3. Open(m) /\ Fate(m)
  <2>1. Open(m)
    BY OpenBefore
  <2> QED  BY <2>1 DEF Accounted
<1>4. ASSUME NEW x \in Msgs, SendMine(x) \/ Store(x) \/ EnqueueFails(x) PROVE Fate(m)'
  <2>1. UNCHANGED <<wire, queue, sync, since, lastSeen, sock>>
    BY <1>4 DEF SendMine, Store, EnqueueFails
  <2>2. m \in toEnqueue => m \in toEnqueue'
    BY <1>4 DEF SendMine, Store, EnqueueFails, Open
  <2> QED  BY <1>3, <2>1, <2>2, FateKept
<1>5. ASSUME NEW x \in Msgs, Enqueue(x) PROVE Fate(m)'
  BY <1>3, <1>5, EnqueueFate
<1>6. CASE Publish \/ PublishStalls
  BY <1>3, <1>6, PublishFate
<1>7. CASE PublishFails \/ PublishUnheard
  BY <1>3, <1>7, UnpublishedFate
<1>8. ASSUME NEW job \in delayed, Retry(job) PROVE Fate(m)'
  BY <1>3, <1>8, RetryFate
<1>9. CASE SyncRead \/ SyncFails
  BY <1>3, <1>9, SyncFate
<1>10. CASE Connect \/ ConnectFails \/ TimerFires
  BY <1>3, <1>10, ConnectFate
<1>11. CASE Disconnect
  BY <1>3, <1>11, DisconnectFate
<1>12. CASE Receive
  BY <1>3, <1>12, ReceiveFate
<1>13. CASE HistoryApply
  BY <1>3, <1>13, HistoryFate
<1>14. CASE HistoryRead \/ HistoryFails
  BY <1>3, <1>14, FateKept DEF HistoryRead, HistoryFails
<1>15. CASE AskOlder \/ OlderRead \/ OlderApply \/ OlderFails
  BY <1>3, <1>15, FateKept DEF AskOlder, OlderRead, OlderApply, OlderFails
<1>16. CASE UNCHANGED vars
  BY <1>3, <1>16, FateKept DEF vars
<1> QED
  BY <1>4, <1>5, <1>6, <1>7, <1>8, <1>9, <1>10, <1>11, <1>12, <1>13, <1>14, <1>15, <1>16
  DEF Next

-----------------------------------------------------------------------------
LEMMA Invariance ==
  Spec => [](TypeOK /\ Inv /\ Stored /\ Connection /\ InTurn /\ PageKnows /\ OlderKnows
             /\ Accounted)
<1>1. Init => TypeOK /\ Inv /\ Stored /\ Connection /\ InTurn /\ PageKnows /\ OlderKnows
              /\ Accounted
  BY TypeInit, InvInit, StoredInit, AccountedInit
  DEF Init, Connection, InTurn, PageKnows, OlderKnows
<1>2. TypeOK /\ Inv /\ Stored /\ Connection /\ InTurn /\ PageKnows /\ OlderKnows /\ Accounted
      /\ [Next]_vars
      => (TypeOK /\ Inv /\ Stored /\ Connection /\ InTurn /\ PageKnows /\ OlderKnows
          /\ Accounted)'
  BY TypeNext, InvNext, StoredNext, ConnectionNext, InTurnNext, PageKnowsNext, OlderKnowsNext,
     AccountedNext
<1> QED  BY <1>1, <1>2, PTL DEF Spec

\* Every variable keeps its type: jobs, packets and positions are about stored
\* messages, own messages wait in the outbox until they are stored, and the
\* resync is in one of its three states.
THEOREM TypeCorrect == Spec => []TypeOK
BY Invariance, PTL

\* The list and the set of seen ids agree, whatever fetches, broadcasts and
\* resyncs update them in which order: no id is in the list twice, and none is
\* held back that is not in it (appendMessage, fetchMessages,
\* fetchOlderFromServer).
THEOREM ListAndSeenAgree == Spec => []ListIsSeen
<1>1. Inv => ListIsSeen
  BY DEF Inv
<1> QED  BY <1>1, Invariance, PTL

\* A message that nothing irreparable happened to is shown, on its way, covered
\* by the next resync, or found by scrolling up, through every disconnection,
\* duplicated job and overlapping fetch (ChatService, the fan-out worker and
\* gateway, ChatTab).
THEOREM NoMessageIsLost == Spec => []NothingLost
<1>1. TypeOK /\ Accounted => NothingLost
  <2> SUFFICES ASSUME TypeOK, Accounted, NEW m \in db \ strays, ~ Shown(m), ~ Pageable(m)
               PROVE  Coming(m)
    BY DEF NothingLost
  <2>1. m \in Msgs /\ Open(m)
    BY DEF TypeOK, Open
  <2>2. Fate(m)
    BY <2>1 DEF Accounted
  <2>3. CASE sock # "connected"
    BY <2>2, <2>3 DEF Fate, Coming
  <2>4. CASE sock = "connected"
    BY <2>2, <2>4 DEF Fate, Answering, Ahead, OnWire, InQueue, Coming
  <2> QED  BY <2>3, <2>4
<1> QED  BY <1>1, Invariance, PTL
=============================================================================
