--------------------------- MODULE RouteCacheProofs ---------------------------
(***************************************************************************)
(* Proofs about RouteCache, for any plans, homes and requests and without  *)
(* a bound on the changes or analyses that overlap.                        *)
(***************************************************************************)
EXTENDS RouteCache, TLAPS

(* The plan in i occurs in one of the inputs in S, both homes in another. *)
Covers(S, i) ==
  /\ \E j \in S : i[1] = j[1]
  /\ \E j \in S : i[2] = j[2] /\ i[3] = j[3]

(* The routes that analyze may compute from the inputs i. *)
Honest(i) == {RouteFor(i, p, q) : p, q \in Bucket(i[1])}

(* What is stored under a key was computed from the inputs of that key. *)
CacheIsHonest ==
  \A k \in Inputs : /\ redis[k] \in Honest(k) \union {None}
                    /\ db[k] = None \/ db[k].route \in Honest(k)

(* An analysis holds a plan, then inputs, that were current since it began;*)
(* the route it has got was computed from these inputs.                    *)
AnalysisIsHonest ==
  \A r \in Request :
    /\ pc[r] \in AnalyzePC => user[r] \in User
    /\ pc[r] = "readHomes" =>
         /\ read[r] \in Plan /\ \E j \in during[r] : read[r] = j[1]
         /\ Current(user[r]) \in during[r]
    /\ pc[r] \in AnalyzePC \ {"readHomes"} =>
         input[r] \in Inputs /\ Covers(during[r], input[r])
    /\ pc[r] \in {"refill", "setRedis", "upsert", "answer"} =>
         got[r] \in Honest(input[r])
    /\ pc[r] = "updateEvent" => read[r] \in Plan
    /\ pc[r] = "updateHome" => user[r] \in User /\ read[r] \in Home

IInv == TypeOK /\ CacheIsHonest /\ AnalysisIsHonest /\ RowNeedsEvent

-----------------------------------------------------------------------------
(* The partner is a member too, so the current inputs are inputs. *)
LEMMA CurrentInputs ==
  ASSUME NEW u \in User, TypeOK
  PROVE  Partner(u) \in User /\ Current(u) \in Inputs
<1>1. \E v \in User : v # u
  BY UserAssumption
<1>2. Partner(u) \in User
  BY <1>1 DEF Partner
<1>q. QED BY <1>2 DEF Current, TypeOK, Inputs

(* A bucket is a set of plans. *)
LEMMA HonestAreRoutes ==
  ASSUME NEW i \in Inputs
  PROVE  Honest(i) \subseteq Route
  BY DEF Honest, RouteFor, Route, Bucket, Plan, Inputs

(* More inputs cover at least as much. *)
LEMMA CoversMonotone ==
  ASSUME NEW S, NEW T, S \subseteq T, NEW i, Covers(S, i)
  PROVE  Covers(T, i)
  BY DEF Covers

LEMMA InitIInv == Init => IInv
<1>1. SUFFICES ASSUME Init PROVE IInv
  OBVIOUS
<1>2. TypeOK
  BY <1>1, ArrivalsAssumption DEF Init, TypeOK, Inputs
<1>3. CacheIsHonest /\ AnalysisIsHonest /\ RowNeedsEvent
  BY <1>1 DEF Init, CacheIsHonest, AnalysisIsHonest, RowNeedsEvent, AnalyzePC
<1>q. QED BY <1>2, <1>3 DEF IInv

(* What a request that is no analysis does to its locals is no analysis's  *)
(* business.                                                               *)
LEMMA OtherKeepsAnalysis ==
  ASSUME IInv, NEW r \in Request, UNCHANGED <<plan, home>>,
         \A s \in Request \ {r} :
           /\ pc'[s] = pc[s] /\ user'[s] = user[s] /\ read'[s] = read[s]
           /\ input'[s] = input[s] /\ got'[s] = got[s]
           /\ during'[s] = during[s],
         pc'[r] \notin AnalyzePC,
         pc'[r] = "updateEvent" => read'[r] \in Plan,
         pc'[r] = "updateHome" => user'[r] \in User /\ read'[r] \in Home
  PROVE  AnalysisIsHonest'
<1>1. SUFFICES ASSUME NEW s \in Request
      PROVE /\ pc'[s] \in AnalyzePC => user'[s] \in User
            /\ pc'[s] = "readHomes" =>
                 /\ read'[s] \in Plan /\ \E j \in during'[s] : read'[s] = j[1]
                 /\ Current(user[s])' \in during'[s]
            /\ pc'[s] \in AnalyzePC \ {"readHomes"} =>
                 input'[s] \in Inputs /\ Covers(during'[s], input'[s])
            /\ pc'[s] \in {"refill", "setRedis", "upsert", "answer"} =>
                 got'[s] \in Honest(input'[s])
            /\ pc'[s] = "updateEvent" => read'[s] \in Plan
            /\ pc'[s] = "updateHome" => user'[s] \in User /\ read'[s] \in Home
  BY DEF AnalysisIsHonest, Current
<1>2. CASE s = r
  BY <1>2 DEF AnalyzePC
<1>3. CASE s # r
  <2>1. Current(user[s])' = Current(user[s])
    BY <1>3 DEF Current
  <2>q. QED BY <1>3, <2>1 DEF IInv, AnalysisIsHonest
<1>q. QED BY <1>2, <1>3

LEMMA FinishKeepsTypes ==
  ASSUME IInv, NEW r \in Request, Finish(r)
  PROVE  /\ pc' \in [Request -> {"idle"} \union AnalyzePC \union ChangePC]
         /\ user' \in [Request -> User \union {None}]
         /\ read' \in [Request -> Plan \union Home \union {None}]
         /\ input' \in [Request -> Inputs \union {None}]
         /\ got' \in [Request -> Route \union {None}]
         /\ keys' \in [Request -> SUBSET Inputs]
         /\ after' \in [Request -> {"idle", "deleteEvent"}]
         /\ during' \in [Request -> SUBSET Inputs]
  BY DEF IInv, TypeOK, Finish, Goto

(* A change of the plan or of a home adds the new current inputs to what   *)
(* the analyses in progress have witnessed.                                *)
LEMMA WitnessKeeps ==
  ASSUME IInv, TypeOK', Witness, NEW r \in Request, Goto(r, "findCaches")
                                   \/ Goto(r, "findEvents"),
         pc[r] \in {"updateEvent", "updateHome"},
         read' = [read EXCEPT ![r] = None], UNCHANGED <<user, input, got>>
  PROVE  AnalysisIsHonest'
<1>1. SUFFICES ASSUME NEW s \in Request
      PROVE /\ pc'[s] \in AnalyzePC => user'[s] \in User
            /\ pc'[s] = "readHomes" =>
                 /\ read'[s] \in Plan /\ \E j \in during'[s] : read'[s] = j[1]
                 /\ Current(user[s])' \in during'[s]
            /\ pc'[s] \in AnalyzePC \ {"readHomes"} =>
                 input'[s] \in Inputs /\ Covers(during'[s], input'[s])
            /\ pc'[s] \in {"refill", "setRedis", "upsert", "answer"} =>
                 got'[s] \in Honest(input'[s])
            /\ pc'[s] = "updateEvent" => read'[s] \in Plan
            /\ pc'[s] = "updateHome" => user'[s] \in User /\ read'[s] \in Home
  BY DEF AnalysisIsHonest, Current
<1>2. CASE s = r
  BY <1>2 DEF IInv, TypeOK, Goto, AnalyzePC
<1>3. CASE s # r
  <2>1. pc'[s] = pc[s] /\ read'[s] = read[s]
    BY <1>3 DEF IInv, TypeOK, Goto
  <2>2. during[s] \subseteq during'[s]
    BY DEF IInv, TypeOK, Witness
  <2>3. pc[s] = "readHomes" => Current(user[s])' \in during'[s]
    BY DEF Witness, AnalyzePC
  <2>4. pc[s] \in AnalyzePC \ {"readHomes"} =>
          input'[s] \in Inputs /\ Covers(during'[s], input'[s])
    BY <2>2, CoversMonotone DEF IInv, AnalysisIsHonest
  <2>q. QED BY <2>1, <2>2, <2>3, <2>4 DEF IInv, AnalysisIsHonest
<1>q. QED BY <1>2, <1>3

(* An analysis in progress changes its own locals and stores only what was *)
(* computed for its own inputs.                                            *)
LEMMA AnalyzeKeepsIInv ==
  ASSUME IInv, NEW r \in Request,
         \/ \E forceRefresh \in BOOLEAN : AnalyzeReadHomes(r, forceRefresh)
         \/ AnalyzeGetRedis(r) \/ AnalyzeGetDb(r) \/ AnalyzeRefill(r)
         \/ AnalyzeCompute(r) \/ AnalyzeSetRedis(r) \/ AnalyzeUpsert(r),
         UNCHANGED left
  PROVE  IInv'
<1>u. user[r] \in User /\ Partner(user[r]) \in User
  <2>1. user[r] \in User
    BY DEF IInv, AnalysisIsHonest, AnalyzePC, AnalyzeReadHomes,
           AnalyzeGetRedis, AnalyzeGetDb, AnalyzeRefill, AnalyzeCompute,
           AnalyzeSetRedis, AnalyzeUpsert, SetRedis
  <2>q. QED BY <2>1, CurrentInputs DEF IInv
<1>1. CASE \E forceRefresh \in BOOLEAN : AnalyzeReadHomes(r, forceRefresh)
  <2>1. PICK f \in BOOLEAN : AnalyzeReadHomes(r, f)
    BY <1>1
  <2> DEFINE i == <<read[r], home[user[r]], home[Partner(user[r])]>>
  <2>2. /\ read[r] \in Plan
        /\ \E j \in during[r] : read[r] = j[1]
        /\ Current(user[r]) \in during[r]
    BY <2>1 DEF IInv, AnalysisIsHonest, AnalyzeReadHomes
  <2>3. i \in Inputs
    BY <1>u, <2>2 DEF IInv, TypeOK, Inputs
  <2>4. Covers(during[r], i)
    <3>1. \E j \in during[r] : i[2] = j[2] /\ i[3] = j[3]
      BY <2>2 DEF Current
    <3>q. QED BY <2>2, <3>1 DEF Covers
  <2>5. TypeOK'
    BY <2>1, <2>3 DEF IInv, TypeOK, AnalyzeReadHomes, Goto, AnalyzePC, store
  <2>6. CacheIsHonest' /\ RowNeedsEvent'
    BY <2>1 DEF IInv, CacheIsHonest, RowNeedsEvent, AnalyzeReadHomes, store
  <2>7. AnalysisIsHonest'
    BY <2>1, <2>3, <2>4 DEF IInv, TypeOK, AnalysisIsHonest, AnalyzeReadHomes,
                            Goto, AnalyzePC, Current, store
  <2>q. QED BY <2>5, <2>6, <2>7 DEF IInv
<1>2. CASE AnalyzeGetRedis(r) \/ AnalyzeGetDb(r) \/ AnalyzeCompute(r)
  <2>1. pc[r] \in {"getRedis", "getDb", "compute"} /\ input[r] \in Inputs
    BY <1>2 DEF AnalyzeGetRedis, AnalyzeGetDb, AnalyzeCompute, IInv,
                AnalysisIsHonest, AnalyzePC
  <2>2. PICK to, g :
          /\ Goto(r, to) /\ got' = [got EXCEPT ![r] = g]
          /\ \/ to \in {"answer", "refill", "setRedis"} /\ g \in Honest(input[r])
             \/ to \in {"getDb", "compute"} /\ g = got[r]
    <3>1. CASE AnalyzeCompute(r)
      <4>1. PICK p, q \in Bucket(input[r][1]) :
              got' = [got EXCEPT ![r] = RouteFor(input[r], p, q)]
        BY <3>1 DEF AnalyzeCompute
      <4>2. RouteFor(input[r], p, q) \in Honest(input[r])
        BY DEF Honest
      <4>3. Goto(r, "setRedis")
        BY <3>1 DEF AnalyzeCompute
      <4>q. QED BY <4>1, <4>2, <4>3
    <3>2. CASE AnalyzeGetRedis(r)
      <4>1. redis[input[r]] # None => redis[input[r]] \in Honest(input[r])
        BY <2>1 DEF IInv, CacheIsHonest
      <4>2. got = [got EXCEPT ![r] = got[r]]
        BY DEF IInv, TypeOK
      <4>3. \/ /\ redis[input[r]] \in Honest(input[r])
               /\ Goto(r, "answer")
               /\ got' = [got EXCEPT ![r] = redis[input[r]]]
            \/ Goto(r, "getDb") /\ UNCHANGED got
        BY <3>2, <4>1 DEF AnalyzeGetRedis, CacheKey
      <4>q. QED BY <4>2, <4>3
    <3>3. CASE AnalyzeGetDb(r)
      <4>1. db[input[r]] # None => db[input[r]].route \in Honest(input[r])
        BY <2>1 DEF IInv, CacheIsHonest
      <4>2. got = [got EXCEPT ![r] = got[r]]
        BY DEF IInv, TypeOK
      <4>q. QED BY <3>3, <4>1, <4>2 DEF AnalyzeGetDb, CacheKey
    <3>q. QED BY <1>2, <3>1, <3>2, <3>3
  <2>6. Honest(input[r]) \subseteq Route
    BY <2>1, HonestAreRoutes
  <2>3. UNCHANGED <<store, user, read, input, keys, after, during>>
    BY <1>2 DEF AnalyzeGetRedis, AnalyzeGetDb, AnalyzeCompute
  <2>4. TypeOK'
    BY <2>1, <2>2, <2>3, <2>6 DEF IInv, TypeOK, Goto, AnalyzePC, store
  <2>5. CacheIsHonest' /\ RowNeedsEvent'
    BY <2>3 DEF IInv, CacheIsHonest, RowNeedsEvent, store
  <2>7. AnalysisIsHonest'
    BY <2>1, <2>2, <2>3 DEF IInv, TypeOK, AnalysisIsHonest, Goto, AnalyzePC,
                            Current, store
  <2>q. QED BY <2>4, <2>5, <2>7 DEF IInv
<1>3. CASE AnalyzeRefill(r) \/ AnalyzeSetRedis(r) \/ AnalyzeUpsert(r)
  <2>1. /\ pc[r] \in {"refill", "setRedis", "upsert"}
        /\ input[r] \in Inputs /\ got[r] \in Honest(input[r])
        /\ got[r] \in Route
    BY <1>3, HonestAreRoutes
       DEF AnalyzeRefill, AnalyzeSetRedis, AnalyzeUpsert, SetRedis, IInv,
           AnalysisIsHonest, AnalyzePC
  <2>2. PICK to \in {"answer", "upsert"} : Goto(r, to)
    BY <1>3 DEF AnalyzeRefill, AnalyzeSetRedis, AnalyzeUpsert, SetRedis
  <2>3. UNCHANGED <<exists, plan, home, user, read, input, got, keys, after,
                    during>>
    BY <1>3 DEF AnalyzeRefill, AnalyzeSetRedis, AnalyzeUpsert, SetRedis
  <2>4. UNCHANGED redis \/ redis' = [redis EXCEPT ![input[r]] = got[r]]
    BY <1>3, <2>1 DEF AnalyzeRefill, AnalyzeSetRedis, AnalyzeUpsert, SetRedis,
                      CacheKey
  <2>5. \/ UNCHANGED db
        \/ /\ exists \/ db[input[r]] # None
           /\ \E u \in User :
                db' = [db EXCEPT ![input[r]] = [route |-> got[r], user |-> u]]
    <3>1. CASE AnalyzeUpsert(r)
      <4>1. db[input[r]] # None => db[input[r]].user \in User
        BY <2>1 DEF IInv, TypeOK, CacheRow
      <4>q. QED BY <1>u, <2>1, <3>1, <4>1
                DEF AnalyzeUpsert, UpsertSucceeds, CacheKey
    <3>q. QED BY <1>3, <3>1 DEF AnalyzeRefill, AnalyzeSetRedis, SetRedis
  <2>6. TypeOK'
    BY <2>1, <2>2, <2>3, <2>4, <2>5 DEF IInv, TypeOK, Goto, AnalyzePC, CacheRow
  <2>7. CacheIsHonest'
    BY <2>1, <2>4, <2>5 DEF IInv, TypeOK, CacheIsHonest
  <2>8. RowNeedsEvent'
    BY <2>1, <2>3, <2>5 DEF IInv, TypeOK, RowNeedsEvent
  <2>9. AnalysisIsHonest'
    BY <2>1, <2>2, <2>3 DEF IInv, TypeOK, AnalysisIsHonest, Goto, AnalyzePC,
                            Current
  <2>q. QED BY <2>6, <2>7, <2>8, <2>9 DEF IInv
<1>q. QED BY <1>1, <1>2, <1>3

(* A request that arrives. *)
LEMMA BeginKeepsIInv ==
  ASSUME IInv, NEW r \in Request, Begin(r)
  PROVE  IInv'
<1>1. UNCHANGED store /\ pc[r] = "idle" /\ left' \in 0..Arrivals
  BY ArrivalsAssumption DEF Begin, AnalyzeBegin, UpdateBegin, RemoveBegin,
     UpdateMeBegin, Arrive, IInv, TypeOK
<1>2. CacheIsHonest' /\ RowNeedsEvent'
  BY <1>1 DEF IInv, CacheIsHonest, RowNeedsEvent, store
<1>3. CASE \E u \in User : AnalyzeBegin(r, u)
  <2>1. PICK u \in User : AnalyzeBegin(r, u)
    BY <1>3
  <2>2. Current(u) \in Inputs
    BY CurrentInputs DEF IInv
  <2>3. TypeOK'
    BY <1>1, <2>1, <2>2 DEF IInv, TypeOK, AnalyzeBegin, Arrive, Goto,
                            AnalyzePC, store
  <2>4. Current(u)[1] = plan
    BY DEF Current
  <2>5. AnalysisIsHonest'
    BY <1>1, <2>1, <2>4 DEF IInv, TypeOK, AnalysisIsHonest, AnalyzeBegin,
                            Arrive, Goto, AnalyzePC, Current, store
  <2>q. QED BY <1>2, <2>3, <2>5 DEF IInv
<1>4. CASE (\E p \in Plan : UpdateBegin(r, p)) \/ RemoveBegin(r)
  <2>1. TypeOK'
    BY <1>1, <1>4 DEF IInv, TypeOK, UpdateBegin, RemoveBegin, Arrive, Goto,
                      ChangePC, store
  <2>2. AnalysisIsHonest'
    <3>1. /\ pc' = [pc EXCEPT ![r] = pc'[r]] /\ UNCHANGED <<user, input, got, during>>
          /\ \A s \in Request \ {r} : read'[s] = read[s]
          /\ pc'[r] \in {"updateEvent", "findCaches"}
          /\ pc'[r] = "updateEvent" => read'[r] \in Plan
      BY <1>4 DEF IInv, TypeOK, UpdateBegin, RemoveBegin, Arrive, Goto
    <3>q. QED BY <1>1, <3>1, OtherKeepsAnalysis DEF store, AnalyzePC, IInv, TypeOK
  <2>q. QED BY <1>2, <2>1, <2>2 DEF IInv
<1>5. CASE \E u \in User, h \in Home : UpdateMeBegin(r, u, h)
  <2>1. TypeOK'
    BY <1>1, <1>5 DEF IInv, TypeOK, UpdateMeBegin, Arrive, Goto, ChangePC, store
  <2>2. AnalysisIsHonest'
    <3>1. /\ pc' = [pc EXCEPT ![r] = "updateHome"] /\ UNCHANGED <<input, got, during>>
          /\ \A s \in Request \ {r} : read'[s] = read[s] /\ user'[s] = user[s]
          /\ user'[r] \in User /\ read'[r] \in Home
      BY <1>5 DEF IInv, TypeOK, UpdateMeBegin, Arrive, Goto
    <3>q. QED BY <1>1, <3>1, OtherKeepsAnalysis DEF store, AnalyzePC, IInv, TypeOK
  <2>q. QED BY <1>2, <2>1, <2>2 DEF IInv
<1>q. QED BY <1>3, <1>4, <1>5 DEF Begin

(* The new plan of the event, the new home of a user. *)
LEMMA ChangeKeepsIInv ==
  ASSUME IInv, NEW r \in Request, UpdateEvent(r) \/ UpdateHome(r),
         UNCHANGED left
  PROVE  IInv'
<1>1. /\ pc[r] \in {"updateEvent", "updateHome"}
      /\ Goto(r, "findCaches") \/ Goto(r, "findEvents")
      /\ Witness /\ read' = [read EXCEPT ![r] = None]
      /\ UNCHANGED <<exists, redis, db, user, input, got, keys, after>>
  BY DEF UpdateEvent, UpdateHome
<1>2. plan' \in Plan /\ home' \in [User -> Home]
  BY DEF UpdateEvent, UpdateHome, IInv, TypeOK, AnalysisIsHonest
<1>3. during' \in [Request -> SUBSET Inputs]
  <2>1. ASSUME NEW s \in Request, pc[s] \in AnalyzePC
        PROVE  Current(user[s])' \in Inputs
    <3>1. user[s] \in User /\ Partner(user[s]) \in User
      BY <2>1, CurrentInputs DEF IInv, AnalysisIsHonest
    <3>q. QED BY <1>1, <1>2, <3>1 DEF Current, Inputs
  <2>q. QED BY <1>1, <2>1 DEF Witness, IInv, TypeOK
<1>4. TypeOK'
  BY <1>1, <1>2, <1>3 DEF IInv, TypeOK, Goto, ChangePC
<1>5. CacheIsHonest' /\ RowNeedsEvent'
  BY <1>1 DEF IInv, CacheIsHonest, RowNeedsEvent
<1>6. AnalysisIsHonest'
  BY <1>1, <1>4, WitnessKeeps
<1>q. QED BY <1>4, <1>5, <1>6 DEF IInv

(* An invalidation only removes entries and rows; what it leaves is as     *)
(* honest as before.                                                       *)
LEMMA InvalidateKeepsIInv ==
  ASSUME IInv, NEW r \in Request, UNCHANGED left,
         \/ FindEvents(r) \/ FindCaches(r) \/ DelRedis(r) \/ DeleteRows(r)
         \/ DeleteEvent(r) \/ UpdateThrows(r) \/ AnalyzeAnswer(r) \/ Abandon(r)
  PROVE  IInv'
<1>1. /\ UNCHANGED <<plan, home>>
      /\ exists' \in BOOLEAN /\ (exists' => exists)
      /\ \/ UNCHANGED redis
         \/ redis' = [k \in Inputs |-> IF k \in keys[r] THEN None ELSE redis[k]]
      /\ (UNCHANGED db /\ UNCHANGED exists) \/ db' = [k \in Inputs |-> None]
  <2>1. CASE FindEvents(r) \/ FindCaches(r) \/ UpdateThrows(r)
             \/ AnalyzeAnswer(r) \/ Abandon(r)
    BY <2>1 DEF FindEvents, FindCaches, UpdateThrows, AnalyzeAnswer, Abandon,
                store, IInv, TypeOK
  <2>2. CASE DelRedis(r)
    BY <2>2 DEF DelRedis, IInv, TypeOK
  <2>3. CASE DeleteRows(r)
    BY <2>3 DEF DeleteRows, IInv, TypeOK
  <2>4. CASE DeleteEvent(r)
    BY <2>4 DEF DeleteEvent, IInv, TypeOK
  <2>q. QED BY <2>1, <2>2, <2>3, <2>4
<1>2. \/ Finish(r)
      \/ \E to \in ChangePC \ {"updateEvent", "updateHome"} :
           /\ Goto(r, to)
           /\ UNCHANGED <<user, read, input, got, after, during>>
           /\ \/ UNCHANGED keys
              \/ keys' = [keys EXCEPT ![r] = {k \in Inputs : db[k] # None}]
  BY DEF FindEvents, FindCaches, DelRedis, DeleteRows, DeleteEvent,
         UpdateThrows, AnalyzeAnswer, Abandon, Leave, ChangePC
<1>3. TypeOK'
  <2>1. redis' \in [Inputs -> Route \union {None}]
        /\ db' \in [Inputs -> CacheRow \union {None}]
        /\ plan' \in Plan /\ home' \in [User -> Home] /\ left' \in 0..Arrivals
    BY <1>1 DEF IInv, TypeOK
  <2>2. CASE Finish(r)
    BY <1>1, <2>1, <2>2, FinishKeepsTypes DEF TypeOK
  <2>3. CASE ~ Finish(r)
    BY <1>1, <1>2, <2>1, <2>3 DEF IInv, TypeOK, Goto
  <2>q. QED BY <2>2, <2>3
<1>4. CacheIsHonest' /\ RowNeedsEvent'
  BY <1>1 DEF IInv, TypeOK, CacheIsHonest, RowNeedsEvent
<1>5. AnalysisIsHonest'
  <2>1. CASE Finish(r)
    BY <1>1, <2>1, OtherKeepsAnalysis DEF Finish, Goto, AnalyzePC, IInv, TypeOK
  <2>2. CASE ~ Finish(r)
    <3>1. PICK to \in ChangePC \ {"updateEvent", "updateHome"} :
            Goto(r, to) /\ UNCHANGED <<user, read, input, got, during>>
      BY <1>2, <2>2
    <3>q. QED BY <1>1, <3>1, OtherKeepsAnalysis
              DEF Goto, AnalyzePC, ChangePC, IInv, TypeOK
  <2>q. QED BY <2>1, <2>2
<1>q. QED BY <1>3, <1>4, <1>5 DEF IInv

(* A Redis entry runs out. *)
LEMMA ExpiryKeepsIInv ==
  ASSUME IInv, NEW k \in Inputs, RedisExpires(k), UNCHANGED left
  PROVE  IInv'
<1>1. TypeOK'
  BY DEF IInv, TypeOK, RedisExpires, locals
<1>2. CacheIsHonest' /\ RowNeedsEvent' /\ AnalysisIsHonest'
  BY DEF IInv, TypeOK, CacheIsHonest, RowNeedsEvent, AnalysisIsHonest,
         RedisExpires, locals, Current
<1>q. QED BY <1>1, <1>2 DEF IInv

LEMMA NextKeepsIInv == IInv /\ [Next]_vars => IInv'
<1>0. SUFFICES ASSUME IInv, [Next]_vars PROVE IInv'
  OBVIOUS
<1>1. CASE UNCHANGED vars
  BY <1>0, <1>1 DEF IInv, TypeOK, CacheIsHonest, RowNeedsEvent,
                    AnalysisIsHonest, Current, vars
<1>2. ASSUME NEW r \in Request, Begin(r) PROVE IInv'
  BY <1>0, <1>2, BeginKeepsIInv
<1>3. ASSUME NEW r \in Request, UNCHANGED left, Continue(r) \/ Abandon(r)
      PROVE  IInv'
  <2>1. CASE UpdateEvent(r) \/ UpdateHome(r)
    BY <1>0, <1>3, <2>1, ChangeKeepsIInv
  <2>2. CASE \/ FindEvents(r) \/ FindCaches(r) \/ DelRedis(r)
             \/ DeleteRows(r) \/ DeleteEvent(r) \/ UpdateThrows(r)
             \/ AnalyzeAnswer(r) \/ Abandon(r)
    BY <1>0, <1>3, <2>2, InvalidateKeepsIInv
  <2>q. QED BY <1>0, <1>3, <2>1, <2>2, AnalyzeKeepsIInv DEF Continue
<1>4. ASSUME NEW k \in Inputs, UNCHANGED left, RedisExpires(k) PROVE IInv'
  BY <1>0, <1>4, ExpiryKeepsIInv
<1>q. QED BY <1>0, <1>1, <1>2, <1>3, <1>4 DEF Next

LEMMA Invariance == Spec => []IInv
  BY InitIInv, NextKeepsIInv, PTL DEF Spec

-----------------------------------------------------------------------------
(* Every variable keeps its type: a cache entry is always a whole route. *)
THEOREM TypeCorrect == Spec => []TypeOK
<1>1. IInv => TypeOK
  BY DEF IInv
<1>q. QED BY Invariance, <1>1, PTL

(* The cache of couple routes never makes an answer stale: the plan and    *)
(* the homes that an answered route is for were current while the request  *)
(* ran, for any number of overlapping analyses, updates and failures, and  *)
(* although invalidations can miss entries; only within a bucket of        *)
(* TransitService may the journeys be those for another time.  The reason  *)
(* is that the key holds all of the inputs.                                *)
THEOREM AnswersAreFresh == Spec => []FreshAnswer
<1>1. ASSUME IInv PROVE FreshAnswer
  <2>1. SUFFICES ASSUME NEW r \in Request, pc[r] = "answer"
        PROVE  /\ \E i \in during[r] :
                    /\ got[r].plan = i[1]
                    /\ got[r].mine[1] \in Bucket(i[1])
                    /\ got[r].theirs[1] \in Bucket(i[1])
               /\ \E i \in during[r] :
                    <<got[r].mine[2], got[r].theirs[2]>> = <<i[2], i[3]>>
    BY DEF FreshAnswer
  <2>2. Covers(during[r], input[r]) /\ got[r] \in Honest(input[r])
    BY <1>1, <2>1 DEF IInv, AnalysisIsHonest, AnalyzePC
  <2>3. PICK p, q \in Bucket(input[r][1]) : got[r] = RouteFor(input[r], p, q)
    BY <2>2 DEF Honest
  <2>q. QED BY <2>2, <2>3 DEF Covers, RouteFor
<1>q. QED BY Invariance, <1>1, PTL

(* No cache row survives or is added after the deletion of its event. *)
THEOREM RowsNeedEvents == Spec => []RowNeedsEvent
<1>1. IInv => RowNeedsEvent
  BY DEF IInv
<1>q. QED BY Invariance, <1>1, PTL
=============================================================================
