------------------------ MODULE CoupleInvitesProofs ------------------------
(***************************************************************************)
(* Proofs about CoupleInvites, for any users, couples and requests.        *)
(***************************************************************************)
EXTENDS CoupleInvites, TLAPS

(* What a request in progress knows of the row it works on.  An id is      *)
(* never used twice, so a row it once saw is the same row or is gone.      *)
RequestKnows ==
  \A r \in Request :
    /\ pc[r] # "idle" => actor[r] \in User
    /\ pc[r] \in SendPC => peer[r] \in User /\ peer[r] # actor[r]
    /\ pc[r] = "sendCreateInvite" =>
         rid[r] \in Id /\ coupleStatus[rid[r]] = "PENDING"
                       /\ inviteStatus[rid[r]] = "none"
    /\ pc[r] \in AcceptPC \union CleanupPC \union {"breakUpDelete"} =>
         /\ rid[r] \in Id
         /\ inviteStatus[rid[r]] = "none" => coupleStatus[rid[r]] = "deleted"
         /\ inviteStatus[rid[r]] # "none" =>
              actor[r] \in {inviter[rid[r]], invitee[rid[r]]}
    /\ pc[r] \in AcceptPC =>
         /\ peer[r] \in User
         /\ inviteStatus[rid[r]] # "none" =>
              actor[r] = invitee[rid[r]] /\ peer[r] = inviter[rid[r]]

(* A couple without an invite yet is in the hands of one sendInvite. *)
FreshIsPrivate ==
  \A r, s \in Request :
    (/\ pc[r] = "sendCreateInvite" /\ pc[s] = "sendCreateInvite"
     /\ rid[r] = rid[s]) => r = s

(* The rows: invites and couples match, the members of a couple are the    *)
(* two users of its invite, and nobody has two rows.                       *)
InviteUsers ==
  \A i \in Id :
    /\ InviteExists(i) => /\ CoupleExists(i)
                          /\ inviter[i] \in User /\ invitee[i] \in User
                          /\ inviter[i] # invitee[i]
    /\ coupleStatus[i] = "ACTIVE" => InviteExists(i)
    /\ coupleStatus[i] = "free" => ~ InviteExists(i)

Rows ==
  \A i \in Id, u \in User :
    /\ [couple |-> i, user |-> u, role |-> "OWNER"] \in member <=>
         coupleStatus[i] = "ACTIVE" /\ u = inviter[i]
    /\ [couple |-> i, user |-> u, role |-> "MEMBER"] \in member <=>
         coupleStatus[i] = "ACTIVE" /\ u = invitee[i]

IInv == /\ TypeOK /\ RequestKnows /\ FreshIsPrivate
        /\ InviteUsers /\ Rows /\ OneCouplePerUser

-----------------------------------------------------------------------------
(* The initial state satisfies the invariant: there are no rows and no     *)
(* requests.                                                               *)
LEMMA InitIInv == Init => IInv
  BY NoUserAssumption, NoIdAssumption
  DEF Init, IInv, TypeOK, RequestKnows, FreshIsPrivate, InviteUsers, Rows,
      OneCouplePerUser, PC, SendPC, AcceptPC, CleanupPC, InviteExists,
      CoupleExists, Row

(* A member row belongs to an ACTIVE couple, and is the OWNER row of its   *)
(* inviter or the MEMBER row of its invitee.                               *)
LEMMA MemberOfInvite ==
  ASSUME IInv, NEW m \in member
  PROVE  /\ m.couple \in Id /\ m.user \in User
         /\ coupleStatus[m.couple] = "ACTIVE"
         /\ m.user \in {inviter[m.couple], invitee[m.couple]}
         /\ m.role = "OWNER" => m.user = inviter[m.couple]
         /\ m.role # "OWNER" => m.role = "MEMBER" /\ m.user = invitee[m.couple]
         /\ m = [couple |-> m.couple, user |-> m.user, role |-> m.role]
<1>1. /\ m.couple \in Id /\ m.user \in User
      /\ m = [couple |-> m.couple, user |-> m.user, role |-> m.role]
      /\ m.role \in {"OWNER", "MEMBER"}
  BY DEF IInv, TypeOK, Row
<1>2. CASE m.role = "OWNER"
  <2>1. [couple |-> m.couple, user |-> m.user, role |-> "OWNER"] \in member
    BY <1>1, <1>2
  <2>q. QED BY <1>1, <1>2, <2>1 DEF IInv, Rows
<1>3. CASE m.role = "MEMBER"
  <2>1. [couple |-> m.couple, user |-> m.user, role |-> "MEMBER"] \in member
    BY <1>1, <1>3
  <2>q. QED BY <1>1, <1>3, <2>1 DEF IInv, Rows
<1>q. QED BY <1>1, <1>2, <1>3

(* A request that returns or throws without touching the tables keeps the  *)
(* invariant: the other requests know what they knew.                      *)
LEMMA FinishKeepsIInv ==
  ASSUME IInv, NEW r \in Request, Finish(r), UNCHANGED db
  PROVE  IInv'
<1>1. TypeOK'
  BY DEF IInv, TypeOK, Finish, db, PC
<1>2. InviteUsers' /\ Rows' /\ OneCouplePerUser'
  BY DEF IInv, InviteUsers, Rows, OneCouplePerUser, db, InviteExists,
         CoupleExists
<1>3. RequestKnows'
  BY DEF IInv, TypeOK, RequestKnows, Finish, db, SendPC, AcceptPC, CleanupPC
<1>4. FreshIsPrivate'
  BY DEF IInv, TypeOK, FreshIsPrivate, Finish
<1>q. QED BY <1>1, <1>2, <1>3, <1>4 DEF IInv

(* Passing a check changes the place of the request and nothing else. *)
LEMMA GotoKeepsIInv ==
  ASSUME IInv, NEW r \in Request, NEW to, Goto(r, to), UNCHANGED db,
         \/ pc[r] \in SendPC /\ to \in SendPC \ {"sendCreateInvite"}
         \/ pc[r] \in AcceptPC /\ to \in AcceptPC
  PROVE  IInv'
<1>1. TypeOK'
  BY DEF IInv, TypeOK, Goto, db, PC, SendPC, AcceptPC
<1>2. InviteUsers' /\ Rows' /\ OneCouplePerUser'
  BY DEF IInv, InviteUsers, Rows, OneCouplePerUser, db, InviteExists,
         CoupleExists
<1>3. RequestKnows'
  BY DEF IInv, TypeOK, RequestKnows, Goto, db, SendPC, AcceptPC, CleanupPC
<1>4. FreshIsPrivate'
  BY DEF IInv, TypeOK, FreshIsPrivate, Goto, SendPC, AcceptPC
<1>q. QED BY <1>1, <1>2, <1>3, <1>4 DEF IInv

(* couple.delete, issued by a request that saw the couple's invite or one  *)
(* of its members: the rows of the couple go together, and every other     *)
(* request that held the couple finds it deleted.                          *)
LEMMA DeleteKeepsIInv ==
  ASSUME IInv, NEW r \in Request,
         pc[r] \in CleanupPC \union {"breakUpDelete"},
         CoupleExists(rid[r]), DeleteCouple(rid[r]), Finish(r)
  PROVE  IInv'
<1>i. rid[r] \in Id /\ InviteExists(rid[r])
  BY DEF IInv, RequestKnows, CoupleExists, InviteExists
<1>1. TypeOK'
  BY <1>i DEF IInv, TypeOK, Finish, DeleteCouple, PC
<1>2. InviteUsers'
  BY <1>i DEF IInv, TypeOK, InviteUsers, DeleteCouple, InviteExists,
              CoupleExists
<1>3. Rows'
  BY <1>i DEF IInv, TypeOK, Rows, DeleteCouple
<1>4. OneCouplePerUser'
  BY DEF IInv, OneCouplePerUser, DeleteCouple
<1>5. RequestKnows'
  BY <1>i DEF IInv, TypeOK, RequestKnows, Finish, DeleteCouple, SendPC,
              AcceptPC, CleanupPC, InviteExists
<1>6. FreshIsPrivate'
  BY DEF IInv, TypeOK, FreshIsPrivate, Finish
<1>q. QED BY <1>1, <1>2, <1>3, <1>4, <1>5, <1>6 DEF IInv

(* The update of declineInvite and cancelInvite changes only the status of *)
(* an invite that exists, and the request moves on to the delete.          *)
LEMMA SetStatusKeepsIInv ==
  ASSUME IInv, NEW r \in Request, NEW from, NEW status, NEW to,
         from \in CleanupPC, to \in CleanupPC,
         status \in {"DECLINED", "CANCELED"}, SetStatus(r, from, status, to)
  PROVE  IInv'
<1>i. rid[r] \in Id /\ pc[r] \in CleanupPC
  BY DEF IInv, RequestKnows, SetStatus
<1>1. CASE ~ InviteExists(rid[r])
  BY <1>1, FinishKeepsIInv DEF SetStatus, db
<1>2. CASE InviteExists(rid[r])
  <2>0. /\ inviteStatus' = [inviteStatus EXCEPT ![rid[r]] = status]
        /\ Goto(r, to)
        /\ UNCHANGED <<coupleStatus, inviter, invitee, member>>
    BY <1>2 DEF SetStatus
  <2>1. TypeOK'
    BY <1>i, <2>0 DEF IInv, TypeOK, Goto, PC
  <2>2. InviteUsers' /\ Rows' /\ OneCouplePerUser'
    BY <1>i, <1>2, <2>0 DEF IInv, TypeOK, InviteUsers, Rows, OneCouplePerUser,
                            InviteExists, CoupleExists
  <2>3. RequestKnows'
    BY <1>i, <1>2, <2>0 DEF IInv, TypeOK, RequestKnows, Goto, SendPC,
                            AcceptPC, CleanupPC, InviteExists
  <2>4. FreshIsPrivate'
    BY <1>i, <2>0 DEF IInv, TypeOK, FreshIsPrivate, Goto, CleanupPC
  <2>q. QED BY <2>1, <2>2, <2>3, <2>4 DEF IInv
<1>q. QED BY <1>1, <1>2

(* The same for the three requests that end in couple.delete. *)
LEMMA DeleteAndFinishKeepsIInv ==
  ASSUME IInv, NEW r \in Request, NEW from,
         from \in CleanupPC \union {"breakUpDelete"}, DeleteAndFinish(r, from)
  PROVE  IInv'
<1>1. CASE CoupleExists(rid[r])
  BY <1>1, DeleteKeepsIInv DEF DeleteAndFinish
<1>2. CASE ~ CoupleExists(rid[r])
  BY <1>2, FinishKeepsIInv DEF DeleteAndFinish
<1>q. QED BY <1>1, <1>2

(* A request that arrives and passes its first check holds an invite, or   *)
(* two different users.                                                    *)
LEMMA ArriveKeepsIInv ==
  ASSUME IInv, NEW r \in Request, Arrive(r)
  PROVE  IInv'
<1>1. UNCHANGED db
  BY DEF Arrive, SendBegin, AcceptRead, DeclineRead, CancelRead, BreakUpCheck
<1>2. InviteUsers' /\ Rows' /\ OneCouplePerUser'
  BY <1>1 DEF IInv, InviteUsers, Rows, OneCouplePerUser, db, InviteExists,
              CoupleExists
<1>3. PICK a \in User :
        \/ \E b \in User : SendBegin(r, a, b)
        \/ \E i \in Id : \/ AcceptRead(r, a, i) \/ DeclineRead(r, a, i)
                         \/ CancelRead(r, a, i) \/ BreakUpCheck(r, a, i)
  BY DEF Arrive
<1>4. CASE \E b \in User : SendBegin(r, a, b)
  <2>1. TypeOK' /\ FreshIsPrivate'
    BY <1>1, <1>4 DEF IInv, TypeOK, FreshIsPrivate, SendBegin, Start, db, PC,
                      SendPC
  <2>2. RequestKnows'
    BY <1>1, <1>4 DEF IInv, TypeOK, RequestKnows, SendBegin, Start, db, SendPC,
                      AcceptPC, CleanupPC
  <2>q. QED BY <1>2, <2>1, <2>2 DEF IInv
<1>5. ASSUME NEW i \in Id,
             \/ AcceptRead(r, a, i) \/ DeclineRead(r, a, i)
             \/ CancelRead(r, a, i) \/ BreakUpCheck(r, a, i)
      PROVE  IInv'
  <2>1. /\ InviteExists(i)
        /\ a \in {inviter[i], invitee[i]}
    <3>1. CASE BreakUpCheck(r, a, i)
      <4>1. PICK m \in member : m.couple = i /\ m.user = a
        BY <3>1 DEF BreakUpCheck, IsMember
      <4>2. coupleStatus[i] = "ACTIVE" /\ a \in {inviter[i], invitee[i]}
        BY <4>1, MemberOfInvite
      <4>q. QED BY <4>2 DEF IInv, InviteUsers
    <3>q. QED BY <1>5, <3>1 DEF AcceptRead, DeclineRead, CancelRead,
                                InviteExists
  <2>2. inviter[i] \in User /\ invitee[i] \in User
    BY <2>1 DEF IInv, InviteUsers
  <2>3. PICK to, b :
          /\ Start(r, to, a, b, i)
          /\ \/ to = "acceptCheckMe" /\ b = inviter[i] /\ a = invitee[i]
             \/ to \in CleanupPC \union {"breakUpDelete"} /\ b = NoUser
    BY <1>5 DEF AcceptRead, DeclineRead, CancelRead, BreakUpCheck, CleanupPC
  <2>4. TypeOK' /\ FreshIsPrivate'
    BY <1>1, <2>2, <2>3 DEF IInv, TypeOK, FreshIsPrivate, Start, db, PC,
                            AcceptPC, CleanupPC
  <2>5. RequestKnows'
    BY <1>1, <2>1, <2>2, <2>3 DEF IInv, TypeOK, RequestKnows, Start, db,
          SendPC, AcceptPC, CleanupPC, InviteExists
  <2>q. QED BY <1>2, <2>4, <2>5 DEF IInv
<1>q. QED BY <1>3, <1>4, <1>5

(* acceptInvite's transaction: the invite it works on exists, so its users *)
(* are the two the request holds, and neither had a member row.            *)
LEMMA AcceptCommitKeepsIInv ==
  ASSUME IInv, NEW r \in Request, AcceptCommit(r)
  PROVE  IInv'
<1> DEFINE i == rid[r]
<1>1. /\ pc[r] = "acceptCommit"
      /\ i \in Id /\ InviteExists(i) /\ CoupleExists(i)
      /\ ~ Coupled(actor[r]) /\ ~ Coupled(peer[r])
      /\ actor[r] = invitee[i] /\ peer[r] = inviter[i]
  BY DEF IInv, RequestKnows, AcceptCommit, AcceptPossible, AcceptPC,
         InviteExists
<1>2. inviter[i] \in User /\ invitee[i] \in User /\ inviter[i] # invitee[i]
  BY <1>1 DEF IInv, InviteUsers
<1>3. coupleStatus[i] # "ACTIVE"
  <2>1. SUFFICES ASSUME coupleStatus[i] = "ACTIVE" PROVE FALSE
    OBVIOUS
  <2>2. [couple |-> i, user |-> inviter[i], role |-> "OWNER"] \in member
    BY <1>1, <1>2, <2>1 DEF IInv, Rows
  <2>q. QED BY <1>1, <2>2 DEF Coupled
<1>4. /\ inviteStatus' = StatusAfterAccept(i, actor[r], peer[r])
      /\ coupleStatus' = [coupleStatus EXCEPT ![i] = "ACTIVE"]
      /\ member' = member \union NewMembers(i, invitee[i], inviter[i])
      /\ Finish(r)
      /\ UNCHANGED <<inviter, invitee>>
  BY <1>1 DEF AcceptCommit
<1>5. /\ inviteStatus' \in
           [Id -> {"none", "PENDING", "ACCEPTED", "DECLINED", "CANCELED"}]
      /\ \A j \in Id : inviteStatus'[j] = "none" <=> inviteStatus[j] = "none"
  BY <1>1, <1>4 DEF IInv, TypeOK, StatusAfterAccept, InviteExists
<1>6. TypeOK'
  <2>1. member' \subseteq Row
    BY <1>1, <1>2, <1>4 DEF IInv, TypeOK, NewMembers, Row
  <2>q. QED BY <1>1, <1>4, <1>5, <2>1 DEF IInv, TypeOK, Finish, PC
<1>7. InviteUsers'
  BY <1>1, <1>4, <1>5 DEF IInv, TypeOK, InviteUsers, InviteExists, CoupleExists
<1>8. Rows'
  BY <1>1, <1>2, <1>3, <1>4 DEF IInv, TypeOK, Rows, NewMembers
<1>9. OneCouplePerUser'
  <2>1. \A m \in member : m.user # inviter[i] /\ m.user # invitee[i]
    BY <1>1 DEF Coupled
  <2>q. QED BY <1>2, <1>4, <2>1 DEF IInv, OneCouplePerUser, NewMembers
<1>10. RequestKnows'
  BY <1>1, <1>4, <1>5 DEF IInv, TypeOK, RequestKnows, Finish, SendPC,
                          AcceptPC, CleanupPC, InviteExists
<1>11. FreshIsPrivate'
  BY <1>4 DEF IInv, TypeOK, FreshIsPrivate, Finish
<1>q. QED BY <1>6, <1>7, <1>8, <1>9, <1>10, <1>11 DEF IInv

(* The three writes of sendInvite.  The couple it creates has an id nobody *)
(* held before, and stays private until the invite row is there.           *)
LEMMA SendKeepsIInv ==
  ASSUME IInv, NEW r \in Request,
         SendCancelPending(r) \/ SendCreateCouple(r) \/ SendCreateInvite(r)
  PROVE  IInv'
<1>1. CASE SendCancelPending(r)
  <2>1. /\ inviteStatus' \in
             [Id -> {"none", "PENDING", "ACCEPTED", "DECLINED", "CANCELED"}]
        /\ \A j \in Id : inviteStatus'[j] = "none" <=> inviteStatus[j] = "none"
    BY <1>1 DEF IInv, TypeOK, SendCancelPending
  <2>2. /\ pc[r] = "sendCancelPending" /\ Goto(r, "sendCreateCouple")
        /\ UNCHANGED <<coupleStatus, inviter, invitee, member>>
    BY <1>1 DEF SendCancelPending
  <2>3. TypeOK' /\ FreshIsPrivate'
    BY <2>1, <2>2 DEF IInv, TypeOK, FreshIsPrivate, Goto, PC, SendPC
  <2>4. InviteUsers' /\ Rows' /\ OneCouplePerUser'
    BY <2>1, <2>2 DEF IInv, InviteUsers, Rows, OneCouplePerUser, InviteExists,
                      CoupleExists
  <2>5. RequestKnows'
    BY <2>1, <2>2 DEF IInv, TypeOK, RequestKnows, Goto, SendPC, AcceptPC,
                      CleanupPC
  <2>q. QED BY <2>3, <2>4, <2>5 DEF IInv
<1>2. CASE SendCreateCouple(r)
  <2>1. PICK i \in Id : /\ coupleStatus[i] = "free"
                        /\ coupleStatus' = [coupleStatus EXCEPT ![i] = "PENDING"]
                        /\ rid' = [rid EXCEPT ![r] = i]
    BY <1>2 DEF SendCreateCouple
  <2>2. /\ pc[r] = "sendCreateCouple"
        /\ pc' = [pc EXCEPT ![r] = "sendCreateInvite"]
        /\ UNCHANGED <<inviteStatus, inviter, invitee, member, actor,
                       peer>>
    BY <1>2 DEF SendCreateCouple
  <2>3. inviteStatus[i] = "none"
    BY <2>1 DEF IInv, InviteUsers, InviteExists
  <2>4. TypeOK'
    BY <2>1, <2>2 DEF IInv, TypeOK, PC, SendPC
  <2>5. InviteUsers'
    BY <2>1, <2>2 DEF IInv, TypeOK, InviteUsers, InviteExists, CoupleExists
  <2>6. Rows' /\ OneCouplePerUser'
    BY <2>1, <2>2 DEF IInv, TypeOK, Rows, OneCouplePerUser
  <2>7. RequestKnows'
    BY <2>1, <2>2, <2>3 DEF IInv, TypeOK, RequestKnows, SendPC, AcceptPC,
                            CleanupPC
  <2>8. FreshIsPrivate'
    BY <2>1, <2>2 DEF IInv, TypeOK, RequestKnows, FreshIsPrivate
  <2>q. QED BY <2>4, <2>5, <2>6, <2>7, <2>8 DEF IInv
<1>3. CASE SendCreateInvite(r)
  <2>1. /\ pc[r] = "sendCreateInvite" /\ rid[r] \in Id
        /\ coupleStatus[rid[r]] = "PENDING" /\ inviteStatus[rid[r]] = "none"
        /\ actor[r] \in User /\ peer[r] \in User /\ peer[r] # actor[r]
    BY <1>3 DEF SendCreateInvite, IInv, RequestKnows, SendPC
  <2>2. TypeOK' /\ FreshIsPrivate'
    BY <1>3, <2>1 DEF SendCreateInvite, IInv, TypeOK, FreshIsPrivate, Finish, PC
  <2>3. InviteUsers'
    BY <1>3, <2>1 DEF SendCreateInvite, IInv, TypeOK, InviteUsers,
                      InviteExists, CoupleExists
  <2>4. Rows' /\ OneCouplePerUser'
    BY <1>3, <2>1 DEF SendCreateInvite, IInv, TypeOK, Rows, OneCouplePerUser
  <2>5. RequestKnows'
    BY <1>3, <2>1 DEF SendCreateInvite, IInv, TypeOK, RequestKnows, Finish,
                      FreshIsPrivate, SendPC, AcceptPC, CleanupPC
  <2>q. QED BY <2>2, <2>3, <2>4, <2>5 DEF IInv
<1>q. QED BY <1>1, <1>2, <1>3

(* Every step of the service keeps the invariant. *)
LEMMA NextKeepsIInv == IInv /\ [Next]_vars => IInv'
<1>0. SUFFICES ASSUME IInv, [Next]_vars PROVE IInv'
  OBVIOUS
<1>1. CASE UNCHANGED vars
  BY <1>0, <1>1 DEF IInv, TypeOK, RequestKnows, FreshIsPrivate, InviteUsers, Rows,
              OneCouplePerUser, vars, InviteExists, CoupleExists
<1>2. ASSUME NEW r \in Request, Arrive(r) PROVE IInv'
  BY <1>0, <1>2, ArriveKeepsIInv
<1>3. ASSUME NEW r \in Request, Abandon(r) PROVE IInv'
  BY <1>0, <1>3, FinishKeepsIInv DEF Abandon
<1>4. ASSUME NEW r \in Request, Continue(r) PROVE IInv'
  <2>1. CASE SendCancelPending(r) \/ SendCreateCouple(r) \/ SendCreateInvite(r)
    BY <1>0, <2>1, SendKeepsIInv
  <2>2. CASE SendCheckInvitee(r)
    BY <1>0, <2>2, FinishKeepsIInv, GotoKeepsIInv DEF SendCheckInvitee, SendPC
  <2>3. CASE AcceptCheckMe(r)
    BY <1>0, <2>3, FinishKeepsIInv, GotoKeepsIInv DEF AcceptCheckMe, AcceptPC
  <2>4. CASE AcceptCheckInviter(r)
    BY <1>0, <2>4, FinishKeepsIInv, GotoKeepsIInv
    DEF AcceptCheckInviter, AcceptPC
  <2>5. CASE AcceptCommit(r)
    BY <1>0, <2>5, AcceptCommitKeepsIInv
  <2>6. CASE AcceptRollback(r)
    BY <1>0, <2>6, FinishKeepsIInv DEF AcceptRollback
  <2>7. CASE DeclineUpdate(r) \/ CancelUpdate(r)
    BY <1>0, <2>7, SetStatusKeepsIInv DEF DeclineUpdate, CancelUpdate, CleanupPC
  <2>8. CASE DeclineDelete(r) \/ CancelDelete(r) \/ BreakUpDelete(r)
    BY <1>0, <2>8, DeleteAndFinishKeepsIInv
    DEF DeclineDelete, CancelDelete, BreakUpDelete, CleanupPC
  <2>q. QED BY <1>4, <2>1, <2>2, <2>3, <2>4, <2>5, <2>6, <2>7, <2>8
            DEF Continue
<1>q. QED BY <1>0, <1>1, <1>2, <1>3, <1>4 DEF Next

(* The invariant holds in every reachable state. *)
THEOREM Invariance == Spec => []IInv
  BY InitIInv, NextKeepsIInv, PTL DEF Spec

-----------------------------------------------------------------------------
(* Every variable keeps its type: in particular a member row never names   *)
(* an unknown couple or user, whatever the requests that race.             *)
THEOREM TypeCorrect == Spec => []TypeOK
<1>1. IInv => TypeOK
  BY DEF IInv
<1>q. QED BY Invariance, <1>1, PTL

(* No user is ever in two couples, for any number of users, couples and    *)
(* overlapping sendInvite, acceptInvite, declineInvite, cancelInvite and   *)
(* breakUp requests.                                                       *)
THEOREM OneCouple == Spec => []OneCouplePerUser
<1>1. IInv => OneCouplePerUser
  BY DEF IInv
<1>q. QED BY Invariance, <1>1, PTL

(* No invite dangles: it always has its couple and its two users. *)
THEOREM InvitesHaveCouples == Spec => []InviteHasCouple
<1>1. IInv => InviteHasCouple
  BY DEF IInv, InviteUsers, InviteHasCouple
<1>q. QED BY Invariance, <1>1, PTL

(* There is no half couple: an ACTIVE couple has exactly its inviter and   *)
(* its invitee as members, any other couple has none.                      *)
THEOREM CouplesAreWhole == Spec => []CoupleIsWhole
<1>1. ASSUME IInv PROVE CoupleIsWhole
  <2>1. SUFFICES ASSUME NEW i \in Id
        PROVE /\ coupleStatus[i] = "ACTIVE" =>
                   /\ inviter[i] # invitee[i]
                   /\ {m \in member : m.couple = i} =
                        NewMembers(i, invitee[i], inviter[i])
              /\ coupleStatus[i] # "ACTIVE" => \A m \in member : m.couple # i
    BY DEF CoupleIsWhole
  <2>2. coupleStatus[i] # "ACTIVE" => \A m \in member : m.couple # i
    BY <1>1, MemberOfInvite
  <2>3. ASSUME coupleStatus[i] = "ACTIVE"
        PROVE  /\ inviter[i] # invitee[i]
               /\ {m \in member : m.couple = i} =
                    NewMembers(i, invitee[i], inviter[i])
    <3>1. inviter[i] \in User /\ invitee[i] \in User /\ inviter[i] # invitee[i]
      BY <1>1, <2>3 DEF IInv, InviteUsers
    <3>2. NewMembers(i, invitee[i], inviter[i]) \subseteq
            {m \in member : m.couple = i}
      <4>1. /\ [couple |-> i, user |-> inviter[i], role |-> "OWNER"] \in member
            /\ [couple |-> i, user |-> invitee[i], role |-> "MEMBER"] \in member
        BY <1>1, <2>3, <3>1 DEF IInv, Rows
      <4>q. QED BY <4>1 DEF NewMembers
    <3>3. ASSUME NEW m \in member, m.couple = i
          PROVE  m \in NewMembers(i, invitee[i], inviter[i])
      BY <1>1, <3>3, MemberOfInvite DEF NewMembers
    <3>q. QED BY <3>1, <3>2, <3>3
  <2>q. QED BY <2>2, <2>3
<1>q. QED BY Invariance, <1>1, PTL

-----------------------------------------------------------------------------
(* Which steps change the tables, apart from the status of invites that    *)
(* exist: sendInvite's two inserts, the transaction of acceptInvite, and   *)
(* couple.delete in a request that holds the couple.                       *)
LEMMA StepCases ==
  ASSUME IInv, [Next]_vars
  PROVE  \/ /\ UNCHANGED <<inviter, invitee, member>>
            /\ \A i \in Id : inviteStatus'[i] = "none" <=> inviteStatus[i] = "none"
            /\ \A i \in Id : coupleStatus[i] = "ACTIVE" => coupleStatus'[i] = "ACTIVE"
         \/ \E r \in Request : SendCreateInvite(r) \/ AcceptCommit(r)
         \/ \E r \in Request : /\ pc[r] \in CleanupPC \union {"breakUpDelete"}
                              /\ CoupleExists(rid[r])
                              /\ DeleteCouple(rid[r])
                              /\ Finish(r)
<1>1. CASE UNCHANGED vars
  BY <1>1 DEF vars
<1>2. ASSUME NEW r \in Request, Arrive(r) \/ Abandon(r) PROVE UNCHANGED db
  BY <1>2 DEF Arrive, Abandon, SendBegin, AcceptRead, DeclineRead, CancelRead,
              BreakUpCheck
<1>3. ASSUME NEW r \in Request, Continue(r)
      PROVE  \/ UNCHANGED <<inviter, invitee, member, inviteStatus, coupleStatus>>
             \/ SendCreateInvite(r) \/ AcceptCommit(r)
             \/ SendCancelPending(r) \/ SendCreateCouple(r)
             \/ DeclineUpdate(r) \/ CancelUpdate(r)
             \/ DeclineDelete(r) \/ CancelDelete(r) \/ BreakUpDelete(r)
  BY <1>3 DEF Continue, SendCheckInvitee, AcceptCheckMe, AcceptCheckInviter,
              AcceptRollback, db
<1>4. ASSUME NEW r \in Request, SendCancelPending(r)
      PROVE  /\ UNCHANGED <<inviter, invitee, member, coupleStatus>>
             /\ \A i \in Id : inviteStatus'[i] = "none" <=> inviteStatus[i] = "none"
  BY <1>4 DEF SendCancelPending
<1>5. ASSUME NEW r \in Request, SendCreateCouple(r)
      PROVE  /\ UNCHANGED <<inviter, invitee, member, inviteStatus>>
             /\ \A i \in Id : coupleStatus[i] = "ACTIVE" => coupleStatus'[i] = "ACTIVE"
  BY <1>5 DEF SendCreateCouple, IInv, TypeOK
<1>6. ASSUME NEW r \in Request, DeclineUpdate(r) \/ CancelUpdate(r)
      PROVE  /\ UNCHANGED <<inviter, invitee, member, coupleStatus>>
             /\ \A i \in Id : inviteStatus'[i] = "none" <=> inviteStatus[i] = "none"
  BY <1>6 DEF DeclineUpdate, CancelUpdate, SetStatus, InviteExists, IInv, TypeOK
<1>7. ASSUME NEW r \in Request,
             DeclineDelete(r) \/ CancelDelete(r) \/ BreakUpDelete(r)
      PROVE  \/ UNCHANGED db
             \/ /\ pc[r] \in CleanupPC \union {"breakUpDelete"}
                /\ CoupleExists(rid[r])
                /\ DeleteCouple(rid[r])
                /\ Finish(r)
  BY <1>7 DEF DeclineDelete, CancelDelete, BreakUpDelete, DeleteAndFinish,
              CleanupPC
<1>8. ASSUME NEW r \in Request, Arrive(r) \/ Continue(r) \/ Abandon(r)
       PROVE  \/ /\ UNCHANGED <<inviter, invitee, member>>
                 /\ \A i \in Id :
                      inviteStatus'[i] = "none" <=> inviteStatus[i] = "none"
                 /\ \A i \in Id :
                      coupleStatus[i] = "ACTIVE" => coupleStatus'[i] = "ACTIVE"
              \/ SendCreateInvite(r) \/ AcceptCommit(r)
              \/ /\ pc[r] \in CleanupPC \union {"breakUpDelete"}
                 /\ CoupleExists(rid[r])
                 /\ DeleteCouple(rid[r])
                 /\ Finish(r)
  BY <1>2, <1>3, <1>4, <1>5, <1>6, <1>7, <1>8 DEF db
<1>q. QED BY <1>1, <1>8 DEF Next

(* What acceptInvite's transaction relies on when it commits. *)
LEMMA CommitFacts ==
  ASSUME IInv, NEW r \in Request, AcceptCommit(r)
  PROVE  /\ pc[r] = "acceptCommit" /\ rid[r] \in Id
         /\ InviteExists(rid[r])
         /\ ~ Coupled(inviter[rid[r]]) /\ ~ Coupled(invitee[rid[r]])
         /\ actor[r] = invitee[rid[r]] /\ peer[r] = inviter[rid[r]]
         /\ inviter[rid[r]] \in User /\ invitee[rid[r]] \in User
         /\ member' = member \union
                        NewMembers(rid[r], invitee[rid[r]], inviter[rid[r]])
         /\ UNCHANGED <<inviter, invitee>>
         /\ \A i \in Id : inviteStatus'[i] = "none" <=> inviteStatus[i] = "none"
         /\ \A i \in Id : coupleStatus[i] = "ACTIVE" => coupleStatus'[i] = "ACTIVE"
         /\ Finish(r)
<1>1. /\ pc[r] = "acceptCommit" /\ rid[r] \in Id
      /\ InviteExists(rid[r])
      /\ ~ Coupled(actor[r]) /\ ~ Coupled(peer[r])
      /\ actor[r] = invitee[rid[r]] /\ peer[r] = inviter[rid[r]]
  BY DEF IInv, RequestKnows, AcceptCommit, AcceptPossible, AcceptPC,
         InviteExists
<1>2. inviter[rid[r]] \in User /\ invitee[rid[r]] \in User
  BY <1>1 DEF IInv, InviteUsers
<1>3. \A i \in Id : inviteStatus'[i] = "none" <=> inviteStatus[i] = "none"
  BY <1>1 DEF AcceptCommit, StatusAfterAccept, InviteExists
<1>4. \A i \in Id : coupleStatus[i] = "ACTIVE" => coupleStatus'[i] = "ACTIVE"
  BY DEF AcceptCommit, IInv, TypeOK
<1>q. QED BY <1>1, <1>2, <1>3, <1>4 DEF AcceptCommit

(* A couple ends only through a request of one of its two members. *)
THEOREM MembersEndCouples == Spec => OnlyMembersEndACouple
<1>1. ASSUME IInv, [Next]_vars PROVE EndedByMember
  <2>1. SUFFICES ASSUME NEW i \in Id, coupleStatus[i] = "ACTIVE",
                        coupleStatus'[i] # "ACTIVE"
        PROVE \E r \in Request : /\ pc[r] # "idle" /\ pc'[r] = "idle"
                                 /\ rid[r] = i /\ IsMember(i, actor[r])
    BY DEF EndedByMember
  <2>2. ~ \E r \in Request : SendCreateInvite(r) \/ AcceptCommit(r)
    BY <1>1, <2>1, CommitFacts DEF SendCreateInvite
  <2>3. PICK r \in Request : /\ pc[r] \in CleanupPC \union {"breakUpDelete"}
                             /\ DeleteCouple(rid[r])
                             /\ Finish(r)
    BY <1>1, <2>1, <2>2, StepCases
  <2>4. rid[r] = i
    BY <1>1, <2>1, <2>3 DEF DeleteCouple, IInv, TypeOK
  <2>5. inviteStatus[i] # "none"
    BY <1>1, <2>1 DEF IInv, InviteUsers, InviteExists
  <2>6. actor[r] \in User /\ actor[r] \in {inviter[i], invitee[i]}
    BY <1>1, <2>3, <2>4, <2>5 DEF IInv, RequestKnows, CleanupPC
  <2>7. IsMember(i, actor[r])
    <3>1. \/ [couple |-> i, user |-> actor[r], role |-> "OWNER"] \in member
          \/ [couple |-> i, user |-> actor[r], role |-> "MEMBER"] \in member
      BY <1>1, <2>1, <2>6 DEF IInv, Rows
    <3>q. QED BY <3>1 DEF IsMember
  <2>8. pc[r] # "idle" /\ pc'[r] = "idle"
    BY <1>1, <2>3 DEF Finish, IInv, TypeOK, CleanupPC
  <2>q. QED BY <2>4, <2>7, <2>8
<1>q. QED BY Invariance, <1>1, PTL DEF Spec, OnlyMembersEndACouple

(* A couple forms only by the hand of the user who was invited, and only   *)
(* with the one who invited him.                                           *)
THEOREM InviteesFormCouples == Spec => OnlyInviteeFormsACouple
<1>1. ASSUME IInv, [Next]_vars PROVE FormedByInvitee
  <2>1. SUFFICES ASSUME NEW m \in member' \ member
        PROVE \E r \in Request :
                /\ pc[r] = "acceptCommit" /\ pc'[r] = "idle"
                /\ rid[r] = m.couple
                /\ actor[r] = invitee[m.couple]
                /\ m.user \in {inviter[m.couple], invitee[m.couple]}
    BY DEF FormedByInvitee
  <2>2. PICK r \in Request : AcceptCommit(r)
    BY <1>1, <2>1, StepCases DEF SendCreateInvite, DeleteCouple
  <2>3. m \in NewMembers(rid[r], invitee[rid[r]], inviter[rid[r]])
    BY <1>1, <2>1, <2>2, CommitFacts
  <2>4. m.couple = rid[r] /\ m.user \in {inviter[rid[r]], invitee[rid[r]]}
    BY <2>3 DEF NewMembers
  <2>5. pc'[r] = "idle"
    BY <1>1, <2>2, CommitFacts DEF Finish, IInv, TypeOK
  <2>q. QED BY <1>1, <2>2, <2>4, <2>5, CommitFacts
<1>q. QED BY Invariance, <1>1, PTL DEF Spec, OnlyInviteeFormsACouple

-----------------------------------------------------------------------------
(* The refinement of Pairing. *)

offerBar ==
  [i \in Id |-> IF InviteExists(i) THEN {<<inviter[i], invitee[i]>>} ELSE {}]
partnersBar == [i \in Id |-> {u \in User : IsMember(i, u)}]

(* Steps that leave the invites' users and the members alone stutter. *)
LEMMA QuietStep ==
  ASSUME UNCHANGED <<inviter, invitee, member>>,
         \A i \in Id : inviteStatus'[i] = "none" <=> inviteStatus[i] = "none"
  PROVE  UNCHANGED <<offerBar, partnersBar>>
<1>1. offerBar' = offerBar
  BY DEF offerBar, InviteExists
<1>2. partnersBar' = partnersBar
  BY DEF partnersBar, IsMember
<1>q. QED BY <1>1, <1>2

(* sendInvite's second insert makes an offer. *)
LEMMA SendIsOffer ==
  ASSUME IInv, NEW r \in Request, SendCreateInvite(r),
         NEW k, k = rid[r], NEW a, a = actor[r], NEW b, b = peer[r]
  PROVE  Abstract!Offer(k, a, b)
<1>1. /\ rid[r] \in Id /\ actor[r] # peer[r]
      /\ coupleStatus[rid[r]] = "PENDING" /\ inviteStatus[rid[r]] = "none"
  BY DEF SendCreateInvite, IInv, RequestKnows, SendPC
<1>2. offerBar[rid[r]] = {}
  BY <1>1 DEF offerBar, InviteExists
<1>3. partnersBar[rid[r]] = {}
  BY <1>1, MemberOfInvite DEF partnersBar, IsMember
<1>4. offerBar' = [offerBar EXCEPT ![rid[r]] = {<<actor[r], peer[r]>>}]
  <2>1. \A i \in Id : offerBar'[i] =
          IF i = rid[r] THEN {<<actor[r], peer[r]>>} ELSE offerBar[i]
    BY <1>1 DEF offerBar, InviteExists, SendCreateInvite, IInv, TypeOK
  <2>q. QED BY <1>1, <2>1 DEF offerBar
<1>5. partnersBar' = partnersBar
  BY DEF partnersBar, IsMember, SendCreateInvite
<1>q. QED BY <1>1, <1>2, <1>3, <1>4, <1>5
          DEF Abstract!Offer, offerBar, partnersBar

(* acceptInvite's transaction pairs two single users. *)
LEMMA AcceptIsPair ==
  ASSUME IInv, NEW r \in Request, AcceptCommit(r)
  PROVE  rid[r] \in Id /\ Abstract!Pair(rid[r], peer[r], actor[r])
<1> DEFINE i == rid[r]
<1>1. /\ i \in Id /\ InviteExists(i)
      /\ ~ Coupled(inviter[i]) /\ ~ Coupled(invitee[i])
      /\ actor[r] = invitee[i] /\ peer[r] = inviter[i]
      /\ inviter[i] \in User /\ invitee[i] \in User
      /\ member' = member \union NewMembers(i, invitee[i], inviter[i])
      /\ UNCHANGED <<inviter, invitee>>
      /\ \A j \in Id : inviteStatus'[j] = "none" <=> inviteStatus[j] = "none"
  BY CommitFacts
<1>2. <<peer[r], actor[r]>> \in offerBar[i]
  BY <1>1 DEF offerBar
<1>3. \A j \in Id : peer[r] \notin partnersBar[j] /\ actor[r] \notin partnersBar[j]
  BY <1>1 DEF partnersBar, IsMember, Coupled
<1>4. offerBar' = offerBar
  BY <1>1 DEF offerBar, InviteExists
<1>5. partnersBar' = [partnersBar EXCEPT ![i] = {peer[r], actor[r]}]
  <2>1. \A j \in Id, u \in User :
          IsMember(j, u)' <=>
            (IsMember(j, u) \/ (j = i /\ u \in {peer[r], actor[r]}))
    <3>1. \A m : m \in member' <=>
            \/ m \in member
            \/ m = [couple |-> i, user |-> peer[r], role |-> "OWNER"]
            \/ m = [couple |-> i, user |-> actor[r], role |-> "MEMBER"]
      BY <1>1 DEF NewMembers
    <3>2. ASSUME NEW j \in Id, NEW u \in User,
                 IsMember(j, u) \/ (j = i /\ u \in {peer[r], actor[r]})
          PROVE  \E m \in member' : m.couple = j /\ m.user = u
      <4>1. CASE IsMember(j, u)
        BY <3>1, <4>1 DEF IsMember
      <4>2. CASE j = i /\ u = peer[r]
        <5>1. [couple |-> i, user |-> peer[r], role |-> "OWNER"] \in member'
          BY <3>1
        <5>q. QED BY <4>2, <5>1
      <4>3. CASE j = i /\ u = actor[r]
        <5>1. [couple |-> i, user |-> actor[r], role |-> "MEMBER"] \in member'
          BY <3>1
        <5>q. QED BY <4>3, <5>1
      <4>q. QED BY <3>2, <4>1, <4>2, <4>3
    <3>3. ASSUME NEW j \in Id, NEW u \in User,
                 NEW m \in member', m.couple = j, m.user = u
          PROVE  IsMember(j, u) \/ (j = i /\ u \in {peer[r], actor[r]})
      BY <3>1, <3>3 DEF IsMember
    <3>q. QED BY <3>2, <3>3 DEF IsMember
  <2>2. \A u \in User : ~ IsMember(i, u)
    <3>1. coupleStatus[i] # "ACTIVE"
      <4>1. coupleStatus[i] = "ACTIVE" =>
              [couple |-> i, user |-> inviter[i], role |-> "OWNER"] \in member
        BY <1>1 DEF IInv, Rows
      <4>q. QED BY <1>1, <4>1 DEF Coupled
    <3>q. QED BY <3>1, MemberOfInvite DEF IsMember
  <2>3. ASSUME NEW j \in Id
        PROVE  partnersBar'[j] = IF j = i THEN {peer[r], actor[r]}
                                          ELSE partnersBar[j]
    BY <1>1, <2>1, <2>2 DEF partnersBar
  <2>q. QED BY <1>1, <2>3 DEF partnersBar
<1>q. QED BY <1>1, <1>2, <1>3, <1>4, <1>5
          DEF Abstract!Pair, Abstract!Single, offerBar, partnersBar

(* couple.delete drops the offer and the couple. *)
LEMMA DeleteIsDrop ==
  ASSUME IInv, NEW i \in Id, DeleteCouple(i)
  PROVE  Abstract!Drop(i)
<1>1. offerBar' = [offerBar EXCEPT ![i] = {}]
  <2>1. \A j \in Id : offerBar'[j] = IF j = i THEN {} ELSE offerBar[j]
    BY DEF offerBar, InviteExists, DeleteCouple, IInv, TypeOK
  <2>q. QED BY <2>1 DEF offerBar
<1>2. partnersBar' = [partnersBar EXCEPT ![i] = {}]
  <2>1. \A j \in Id, u \in User : IsMember(j, u)' <=> IsMember(j, u) /\ j # i
    BY DEF IsMember, DeleteCouple
  <2>2. ASSUME NEW j \in Id
        PROVE  partnersBar'[j] = IF j = i THEN {} ELSE partnersBar[j]
    BY <2>1 DEF partnersBar
  <2>q. QED BY <2>2 DEF partnersBar
<1>q. QED BY <1>1, <1>2 DEF Abstract!Drop, offerBar, partnersBar

(* The couple service implements Pairing: seen through its invite and      *)
(* member rows, it only ever offers, pairs two single users of an offer,   *)
(* and drops a couple as a whole, however its requests interleave or die.  *)
THEOREM Refinement == Spec => ImplementsPairing
<1>1. Init => Abstract!PairingInit
  BY DEF Init, Abstract!PairingInit, InviteExists, IsMember
<1>2. ASSUME IInv, [Next]_vars
      PROVE  [Abstract!PairingNext]_(Abstract!pairingVars)
  <2>1. CASE UNCHANGED <<offerBar, partnersBar>>
    BY <2>1 DEF Abstract!pairingVars, offerBar, partnersBar
  <2>2. ASSUME NEW r \in Request, SendCreateInvite(r) PROVE Abstract!PairingNext
    <3>1. rid[r] \in Id /\ actor[r] \in User /\ peer[r] \in User
      BY <1>2, <2>2 DEF SendCreateInvite, IInv, RequestKnows, SendPC
    <3>2. PICK i \in Id, a \in User, b \in User :
            i = rid[r] /\ a = actor[r] /\ b = peer[r]
      BY <3>1
    <3>3. Abstract!Offer(i, a, b)
      BY <1>2, <2>2, <3>2, SendIsOffer
    <3>q. QED BY <3>3 DEF Abstract!PairingNext
  <2>3. ASSUME NEW r \in Request, AcceptCommit(r) PROVE Abstract!PairingNext
    <3>1. actor[r] \in User /\ peer[r] \in User
      BY <1>2, <2>3, CommitFacts
    <3>2. rid[r] \in Id /\ Abstract!Pair(rid[r], peer[r], actor[r])
      BY <1>2, <2>3, AcceptIsPair
    <3>q. QED BY <3>1, <3>2, Zenon DEF Abstract!PairingNext
  <2>4. ASSUME NEW r \in Request, DeleteCouple(rid[r]),
               pc[r] \in CleanupPC \union {"breakUpDelete"}
        PROVE  Abstract!PairingNext
    <3>1. rid[r] \in Id
      BY <1>2, <2>4 DEF IInv, RequestKnows
    <3>q. QED BY <1>2, <2>4, <3>1, DeleteIsDrop DEF Abstract!PairingNext
  <2>q. QED BY <1>2, <2>1, <2>2, <2>3, <2>4, StepCases, QuietStep
<1>q. QED BY <1>1, <1>2, Invariance, PTL
          DEF Spec, ImplementsPairing, Abstract!PairingSpec

-----------------------------------------------------------------------------
(* The invitation rules of the documentation, for a service that handles   *)
(* one request at a time (a request that dies at an await makes room for   *)
(* the next one like a request that ends).                                 *)
OneAtATime == \A r, s \in Request : r = s

(* What the request in progress has read is still so: nobody else writes. *)
WhatItReadHolds ==
  \A r \in Request :
    /\ pc[r] \in SendPC => ~ Coupled(actor[r])
    /\ pc[r] \in SendPC \ {"sendCheckInvitee"} => ~ Coupled(peer[r])
    /\ pc[r] \in {"sendCreateCouple", "sendCreateInvite"} =>
         \A i \in Id : inviteStatus[i] = "PENDING" => inviter[i] # actor[r]
    /\ pc[r] \in AcceptPC \union {"declineUpdate", "cancelUpdate"} =>
         inviteStatus[rid[r]] = "PENDING"
    /\ pc[r] \in {"declineDelete", "cancelDelete"} =>
         coupleStatus[rid[r]] # "ACTIVE"

SequentialInv ==
  WhatItReadHolds /\ SinglePendingInvite /\ CoupledHaveNoPending

LEMMA InitSequentialInv == Init => SequentialInv
  BY DEF Init, SequentialInv, WhatItReadHolds, SinglePendingInvite,
         CoupledHaveNoPending, SendPC, AcceptPC

(* Taking PENDING invites and members away breaks no rule. *)
LEMMA FewerKeepTheRules ==
  ASSUME SequentialInv, member' \subseteq member,
         \A i \in Id : inviteStatus'[i] = "PENDING" =>
           /\ inviteStatus[i] = "PENDING"
           /\ inviter'[i] = inviter[i] /\ invitee'[i] = invitee[i]
  PROVE  SinglePendingInvite' /\ CoupledHaveNoPending'
  BY DEF SequentialInv, SinglePendingInvite, CoupledHaveNoPending, Coupled

(* The couple of a PENDING invite is not ACTIVE: its inviter would be one  *)
(* of its members.                                                         *)
LEMMA PendingIsNotActive ==
  ASSUME IInv, CoupledHaveNoPending, NEW i \in Id, inviteStatus[i] = "PENDING"
  PROVE  coupleStatus[i] # "ACTIVE"
<1>1. SUFFICES ASSUME coupleStatus[i] = "ACTIVE" PROVE FALSE
  OBVIOUS
<1>2. inviter[i] \in User
  BY DEF IInv, InviteUsers, InviteExists
<1>3. [couple |-> i, user |-> inviter[i], role |-> "OWNER"] \in member
  BY <1>1, <1>2 DEF IInv, Rows
<1>q. QED BY <1>3 DEF CoupledHaveNoPending, Coupled

(* A request that ends leaves nobody who has read anything. *)
LEMMA FinishForgets ==
  ASSUME OneAtATime, IInv, NEW r \in Request, Finish(r)
  PROVE  WhatItReadHolds'
<1>1. \A s \in Request : pc'[s] = "idle"
  BY DEF OneAtATime, IInv, TypeOK, Finish
<1>q. QED BY <1>1 DEF WhatItReadHolds, SendPC, AcceptPC

(* Every step of the only request keeps the rules. *)
LEMMA SequentialStep ==
  ASSUME OneAtATime, IInv, SequentialInv, [Next]_vars
  PROVE  SequentialInv'
<1>1. CASE UNCHANGED vars
  BY <1>1 DEF SequentialInv, WhatItReadHolds, SinglePendingInvite,
              CoupledHaveNoPending, Coupled, vars
<1>2. SUFFICES ASSUME NEW r \in Request, Arrive(r) \/ Continue(r) \/ Abandon(r)
               PROVE  SequentialInv'
  BY <1>1 DEF Next
<1>3. \A s \in Request : s = r
  BY DEF OneAtATime
<1>4. CASE Finish(r) /\ UNCHANGED db
  BY <1>4, FewerKeepTheRules, FinishForgets DEF SequentialInv, db
<1>5. CASE Arrive(r)
  <2>1. SinglePendingInvite' /\ CoupledHaveNoPending'
    BY <1>5, FewerKeepTheRules
    DEF Arrive, SendBegin, AcceptRead, DeclineRead, CancelRead, BreakUpCheck, db
  <2>2. WhatItReadHolds'
    BY <1>3, <1>5 DEF Arrive, SendBegin, AcceptRead, DeclineRead, CancelRead,
         BreakUpCheck, Start, db, WhatItReadHolds, Coupled, IInv, TypeOK, SendPC,
         AcceptPC
  <2>q. QED BY <2>1, <2>2 DEF SequentialInv
<1>6. CASE Abandon(r) \/ AcceptRollback(r)
  BY <1>4, <1>6 DEF Abandon, AcceptRollback
<1>7. CASE SendCheckInvitee(r) \/ AcceptCheckMe(r) \/ AcceptCheckInviter(r)
  <2>1. CASE Goto(r, "sendCancelPending") /\ SendCheckInvitee(r)
    BY <1>3, <2>1, FewerKeepTheRules
    DEF SequentialInv, WhatItReadHolds, Goto, SendCheckInvitee, db, Finish,
        Coupled, IInv, TypeOK, SendPC, AcceptPC
  <2>2. ASSUME NEW to \in AcceptPC, Goto(r, to), UNCHANGED db, pc[r] \in AcceptPC
        PROVE  SequentialInv'
    BY <1>3, <2>2, FewerKeepTheRules
    DEF SequentialInv, WhatItReadHolds, Goto, db, Coupled, IInv, TypeOK, SendPC,
        AcceptPC
  <2>q. QED BY <1>4, <1>7, <2>1, <2>2
            DEF SendCheckInvitee, AcceptCheckMe, AcceptCheckInviter, AcceptPC
<1>8. CASE SendCancelPending(r)
  <2>1. \A i \in Id :
          /\ inviteStatus'[i] = "PENDING" =>
               inviteStatus[i] = "PENDING" /\ inviter[i] # actor[r]
    BY <1>8 DEF SendCancelPending
  <2>2. SinglePendingInvite' /\ CoupledHaveNoPending'
    BY <1>8, <2>1, FewerKeepTheRules DEF SendCancelPending
  <2>3. WhatItReadHolds'
    BY <1>3, <1>8, <2>1
    DEF SequentialInv, WhatItReadHolds, SendCancelPending, Goto, Coupled, IInv,
        TypeOK, SendPC, AcceptPC
  <2>q. QED BY <2>2, <2>3 DEF SequentialInv
<1>9. CASE SendCreateCouple(r)
  <2>1. SinglePendingInvite' /\ CoupledHaveNoPending'
    BY <1>9, FewerKeepTheRules DEF SendCreateCouple
  <2>2. WhatItReadHolds'
    BY <1>3, <1>9
    DEF SequentialInv, WhatItReadHolds, SendCreateCouple, Coupled, IInv, TypeOK,
        SendPC, AcceptPC
  <2>q. QED BY <2>1, <2>2 DEF SequentialInv
<1>10. CASE SendCreateInvite(r)
  <2>1. /\ rid[r] \in Id
        /\ ~ Coupled(actor[r]) /\ ~ Coupled(peer[r])
        /\ \A i \in Id : inviteStatus[i] = "PENDING" => inviter[i] # actor[r]
    BY <1>10 DEF SendCreateInvite, IInv, RequestKnows, SequentialInv,
                 WhatItReadHolds, SendPC
  <2>2. \A i \in Id : inviteStatus'[i] = "PENDING" =>
          \/ i = rid[r] /\ inviter'[i] = actor[r] /\ invitee'[i] = peer[r]
          \/ /\ i # rid[r] /\ inviteStatus[i] = "PENDING"
             /\ inviter'[i] = inviter[i] /\ invitee'[i] = invitee[i]
    BY <1>10, <2>1 DEF SendCreateInvite, IInv, TypeOK
  <2>3. SinglePendingInvite'
    BY <2>1, <2>2 DEF SequentialInv, SinglePendingInvite
  <2>4. CoupledHaveNoPending'
    BY <1>10, <2>1, <2>2
    DEF SequentialInv, CoupledHaveNoPending, Coupled, SendCreateInvite
  <2>q. QED BY <1>10, <2>3, <2>4, FinishForgets
            DEF SendCreateInvite, SequentialInv
<1>11. CASE AcceptCommit(r)
  <2>1. /\ rid[r] \in Id
        /\ actor[r] = invitee[rid[r]] /\ peer[r] = inviter[rid[r]]
        /\ UNCHANGED <<inviter, invitee>> /\ Finish(r)
        /\ inviteStatus' = StatusAfterAccept(rid[r], actor[r], peer[r])
        /\ member' = member \union NewMembers(rid[r], actor[r], peer[r])
    BY <1>11, CommitFacts DEF AcceptCommit
  <2>2. ASSUME NEW i \in Id, inviteStatus'[i] = "PENDING"
        PROVE  /\ inviteStatus[i] = "PENDING"
               /\ {inviter[i], invitee[i]} \intersect {actor[r], peer[r]} = {}
    BY <2>1, <2>2 DEF StatusAfterAccept, Involves
  <2>3. SinglePendingInvite'
    BY <2>1, <2>2 DEF SequentialInv, SinglePendingInvite
  <2>4. CoupledHaveNoPending'
    <3>1. \A m \in member' : m \in member \/ m.user \in {actor[r], peer[r]}
      BY <2>1 DEF NewMembers
    <3>q. QED BY <2>1, <2>2, <3>1
              DEF SequentialInv, CoupledHaveNoPending, Coupled
  <2>q. QED BY <2>1, <2>3, <2>4, FinishForgets DEF SequentialInv
<1>12. ASSUME NEW from, NEW status, NEW to, SetStatus(r, from, status, to),
              from \in {"declineUpdate", "cancelUpdate"},
              to \in {"declineDelete", "cancelDelete"},
              status \in {"DECLINED", "CANCELED"}
       PROVE  SequentialInv'
  <2>1. /\ rid[r] \in Id /\ inviteStatus[rid[r]] = "PENDING"
        /\ pc[r] = from
    BY <1>12 DEF SetStatus, IInv, RequestKnows, SequentialInv,
                 WhatItReadHolds, CleanupPC
  <2>2. /\ inviteStatus' = [inviteStatus EXCEPT ![rid[r]] = status]
        /\ Goto(r, to)
        /\ UNCHANGED <<coupleStatus, inviter, invitee, member>>
    BY <1>12, <2>1 DEF SetStatus, InviteExists
  <2>3. coupleStatus[rid[r]] # "ACTIVE"
    BY <2>1, PendingIsNotActive DEF SequentialInv
  <2>4. SinglePendingInvite' /\ CoupledHaveNoPending'
    BY <1>12, <2>1, <2>2, FewerKeepTheRules DEF IInv, TypeOK
  <2>5. WhatItReadHolds'
    BY <1>3, <1>12, <2>2, <2>3
    DEF WhatItReadHolds, Goto, IInv, TypeOK, SendPC, AcceptPC
  <2>q. QED BY <2>4, <2>5 DEF SequentialInv
<1>13. ASSUME NEW from, DeleteAndFinish(r, from),
              from \in CleanupPC \union {"breakUpDelete"}
       PROVE  SequentialInv'
  <2>1. CASE ~ CoupleExists(rid[r])
    BY <1>4, <1>13, <2>1 DEF DeleteAndFinish
  <2>2. CASE CoupleExists(rid[r])
    <3>1. rid[r] \in Id /\ DeleteCouple(rid[r]) /\ Finish(r)
      BY <1>13, <2>2 DEF DeleteAndFinish, IInv, RequestKnows
    <3>2. SinglePendingInvite' /\ CoupledHaveNoPending'
      BY <3>1, FewerKeepTheRules DEF DeleteCouple, IInv, TypeOK
    <3>q. QED BY <3>1, <3>2, FinishForgets DEF SequentialInv
  <2>q. QED BY <2>1, <2>2
<1>q. QED BY <1>2, <1>5, <1>6, <1>7, <1>8, <1>9, <1>10, <1>11, <1>12, <1>13
          DEF Continue, DeclineUpdate, CancelUpdate, DeclineDelete,
              CancelDelete, BreakUpDelete, CleanupPC

LEMMA SequentialInvariance ==
  ASSUME OneAtATime PROVE Spec => []SequentialInv
<1>1. IInv /\ SequentialInv /\ [Next]_vars => SequentialInv'
  BY SequentialStep
<1>q. QED BY <1>1, InitSequentialInv, Invariance, PTL DEF Spec

(* One request at a time, a user never has two PENDING invites on their    *)
(* way: sendInvite cancels the earlier one before it inserts the next.     *)
THEOREM OneInviteAtATime ==
  ASSUME OneAtATime PROVE Spec => []SinglePendingInvite
<1>1. SequentialInv => SinglePendingInvite
  BY DEF SequentialInv
<1>q. QED BY <1>1, SequentialInvariance, PTL

(* One request at a time, nobody in a couple has a PENDING invite left. *)
THEOREM CoupledUsersAreDone ==
  ASSUME OneAtATime PROVE Spec => []CoupledHaveNoPending
<1>1. SequentialInv => CoupledHaveNoPending
  BY DEF SequentialInv
<1>q. QED BY <1>1, SequentialInvariance, PTL

(* One request at a time, declineInvite and cancelInvite delete no ACTIVE  *)
(* couple.                                                                 *)
THEOREM CleanupIsHarmless ==
  ASSUME OneAtATime PROVE Spec => CleanupOnlyPending
<1>1. SequentialInv => CleanupSparesActive
  BY DEF SequentialInv, WhatItReadHolds, CleanupSparesActive
<1>q. QED BY <1>1, SequentialInvariance, PTL DEF CleanupOnlyPending

(* One request at a time, an invite that is answered stays answered. *)
THEOREM AnswersAreFinal ==
  ASSUME OneAtATime PROVE Spec => AnsweredOnce
<1>1. ASSUME IInv, SequentialInv, [Next]_vars PROVE StatusLeavesPendingOnly
  <2>1. SUFFICES ASSUME NEW i \in Id, InviteExists(i),
                        inviteStatus'[i] \notin {inviteStatus[i], "none"}
                 PROVE  inviteStatus[i] = "PENDING"
    BY DEF StatusLeavesPendingOnly
  <2>2. PICK r \in Request : Continue(r)
    BY <1>1, <2>1 DEF Next, vars, Arrive, Abandon, SendBegin, AcceptRead,
                      DeclineRead, CancelRead, BreakUpCheck, db
  <2>3. CASE SendCancelPending(r)
    BY <2>1, <2>3 DEF SendCancelPending
  <2>4. CASE SendCreateInvite(r)
    BY <1>1, <2>1, <2>4
    DEF SendCreateInvite, IInv, TypeOK, RequestKnows, InviteExists
  <2>5. CASE AcceptCommit(r)
    BY <1>1, <2>1, <2>5
    DEF AcceptCommit, StatusAfterAccept, SequentialInv, WhatItReadHolds, AcceptPC
  <2>6. CASE DeclineUpdate(r) \/ CancelUpdate(r)
    BY <1>1, <2>1, <2>6
    DEF DeclineUpdate, CancelUpdate, SetStatus, IInv, TypeOK, SequentialInv,
        WhatItReadHolds
  <2>7. CASE DeclineDelete(r) \/ CancelDelete(r) \/ BreakUpDelete(r)
    BY <1>1, <2>1, <2>7
    DEF DeclineDelete, CancelDelete, BreakUpDelete, DeleteAndFinish,
        DeleteCouple, db, IInv, TypeOK
  <2>q. QED BY <2>1, <2>2, <2>3, <2>4, <2>5, <2>6, <2>7
            DEF Continue, SendCheckInvitee, SendCreateCouple, AcceptCheckMe,
                AcceptCheckInviter, AcceptRollback, db
<1>q. QED BY <1>1, SequentialInvariance, Invariance, PTL DEF Spec, AnsweredOnce
=============================================================================
