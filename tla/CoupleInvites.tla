--------------------------- MODULE CoupleInvites ---------------------------
(***************************************************************************)
(* The invitation life cycle of apps/api/src/couple/couple.service.ts over *)
(* the Couple, CoupleMember and CoupleInvite tables of schema.prisma.      *)
(*                                                                         *)
(* Every Prisma call is awaited, so requests interleave between any two of *)
(* them: an action below is one awaited call together with the synchronous *)
(* code that follows it up to the next await.  Values read before an await *)
(* are kept in the request (actor, peer, rid) and used after it, as the    *)
(* code's local variables are.  The callback given to $transaction is one  *)
(* step: its statements commit together or not at all.  expiresAt is       *)
(* written and read nowhere, so an invite has no age here.                 *)
(*                                                                         *)
(* sendInvite creates a Couple and the CoupleInvite that names it, one to  *)
(* one, so one identifier i stands for both rows.                          *)
(***************************************************************************)
EXTENDS FiniteSets

CONSTANTS
  User,       \* registered users
  Id,         \* identifiers of Couple rows (bounds how many are ever made)
  Request,    \* HTTP requests that can be in progress at the same time
  NoUser,     \* "no user": a column of a missing row, an unused local
  NoId        \* "no id": an unused local of a request

ASSUME NoUserAssumption == NoUser \notin User
ASSUME NoIdAssumption == NoId \notin Id

VARIABLES
  coupleStatus,  \* Couple.status; "free": not created yet, "deleted": gone
  inviteStatus,  \* CoupleInvite.status; "none": there is no such row
  inviter,       \* CoupleInvite.inviterUserId
  invitee,       \* CoupleInvite.inviteeUserId
  member,        \* the CoupleMember rows
  pc,            \* the await a request is suspended at
  actor,         \* the authenticated user of a request
  peer,          \* the other user it works with: sendInvite's invitee, or
                 \* the inviterUserId acceptInvite has read
  rid            \* the id of the invite and couple it works on

db == <<coupleStatus, inviteStatus, inviter, invitee, member>>
locals == <<pc, actor, peer, rid>>
vars == <<coupleStatus, inviteStatus, inviter, invitee, member,
          pc, actor, peer, rid>>

SendPC == {"sendCheckInvitee", "sendCancelPending", "sendCreateCouple",
           "sendCreateInvite"}
AcceptPC == {"acceptCheckMe", "acceptCheckInviter", "acceptCommit"}
CleanupPC == {"declineUpdate", "declineDelete", "cancelUpdate",
              "cancelDelete"}
PC == {"idle", "breakUpDelete"} \union SendPC \union AcceptPC \union CleanupPC

Row == [couple : Id, user : User, role : {"OWNER", "MEMBER"}]

TypeOK ==
  /\ coupleStatus \in [Id -> {"free", "PENDING", "ACTIVE", "deleted"}]
  /\ inviteStatus \in
       [Id -> {"none", "PENDING", "ACCEPTED", "DECLINED", "CANCELED"}]
  /\ inviter \in [Id -> User \union {NoUser}]
  /\ invitee \in [Id -> User \union {NoUser}]
  /\ member \subseteq Row
  /\ pc \in [Request -> PC]
  /\ actor \in [Request -> User \union {NoUser}]
  /\ peer \in [Request -> User \union {NoUser}]
  /\ rid \in [Request -> Id \union {NoId}]

Init ==
  /\ coupleStatus = [i \in Id |-> "free"]
  /\ inviteStatus = [i \in Id |-> "none"]
  /\ inviter = [i \in Id |-> NoUser]
  /\ invitee = [i \in Id |-> NoUser]
  /\ member = {}
  /\ pc = [r \in Request |-> "idle"]
  /\ actor = [r \in Request |-> NoUser]
  /\ peer = [r \in Request |-> NoUser]
  /\ rid = [r \in Request |-> NoId]

-----------------------------------------------------------------------------
(* How a request moves. *)

Start(r, to, a, b, i) ==
  /\ pc[r] = "idle"
  /\ pc' = [pc EXCEPT ![r] = to]
  /\ actor' = [actor EXCEPT ![r] = a]
  /\ peer' = [peer EXCEPT ![r] = b]
  /\ rid' = [rid EXCEPT ![r] = i]

Goto(r, to) ==
  /\ pc' = [pc EXCEPT ![r] = to]
  /\ UNCHANGED <<actor, peer, rid>>

(* The handler returns or throws: its locals are gone. *)
Finish(r) ==
  /\ pc' = [pc EXCEPT ![r] = "idle"]
  /\ actor' = [actor EXCEPT ![r] = NoUser]
  /\ peer' = [peer EXCEPT ![r] = NoUser]
  /\ rid' = [rid EXCEPT ![r] = NoId]

(* coupleMember.findUnique({ where: { userId: u } }) finds a row. *)
Coupled(u) == \E m \in member : m.user = u

(* coupleMember.findUnique({ where: { coupleId_userId } }) finds a row. *)
IsMember(i, u) == \E m \in member : m.couple = i /\ m.user = u

CoupleExists(i) == coupleStatus[i] \in {"PENDING", "ACTIVE"}
InviteExists(i) == inviteStatus[i] # "none"

(* Mutant: members are not cascaded. *)
DeleteCoupleKeepsMembers(i) ==
  /\ coupleStatus' = [coupleStatus EXCEPT ![i] = "deleted"]
  /\ inviteStatus' = [inviteStatus EXCEPT ![i] = "none"]
  /\ inviter' = [inviter EXCEPT ![i] = NoUser]
  /\ invitee' = [invitee EXCEPT ![i] = NoUser]
  /\ UNCHANGED member

(* Mutant: invites are not cascaded. *)
DeleteCoupleKeepsInvite(i) ==
  /\ coupleStatus' = [coupleStatus EXCEPT ![i] = "deleted"]
  /\ member' = {m \in member : m.couple # i}
  /\ UNCHANGED <<inviteStatus, inviter, invitee>>

(* couple.delete: its members and invites go with it (onDelete: Cascade). *)
DeleteCouple(i) ==
  /\ coupleStatus' = [coupleStatus EXCEPT ![i] = "deleted"]
  /\ inviteStatus' = [inviteStatus EXCEPT ![i] = "none"]
  /\ inviter' = [inviter EXCEPT ![i] = NoUser]
  /\ invitee' = [invitee EXCEPT ![i] = NoUser]
  /\ member' = {m \in member : m.couple # i}

-----------------------------------------------------------------------------
(* sendInvite *)

(* The users are looked up, nobody invites himself, and the inviter must   *)
(* not be in a couple.                                                     *)
SendBegin(r, a, b) ==
  /\ a # b
  /\ ~ Coupled(a)
  /\ Start(r, "sendCheckInvitee", a, b, NoId)
  /\ UNCHANGED db

SendCheckInvitee(r) ==
  /\ pc[r] = "sendCheckInvitee"
  /\ IF Coupled(peer[r]) THEN Finish(r) ELSE Goto(r, "sendCancelPending")
  /\ UNCHANGED db

(* Mutant: only an earlier invite to the same user is cancelled. *)
SendCancelSameInvitee(r) ==
  /\ pc[r] = "sendCancelPending"
  /\ inviteStatus' =
       [i \in Id |-> IF /\ inviter[i] = actor[r] /\ invitee[i] = peer[r]
                        /\ inviteStatus[i] = "PENDING"
                       THEN "CANCELED" ELSE inviteStatus[i]]
  /\ Goto(r, "sendCreateCouple")
  /\ UNCHANGED <<coupleStatus, inviter, invitee, member>>

(* The inviter's PENDING invites become CANCELED; their Couples stay. *)
SendCancelPending(r) ==
  /\ pc[r] = "sendCancelPending"
  /\ inviteStatus' =
       [i \in Id |-> IF inviter[i] = actor[r] /\ inviteStatus[i] = "PENDING"
                       THEN "CANCELED" ELSE inviteStatus[i]]
  /\ Goto(r, "sendCreateCouple")
  /\ UNCHANGED <<coupleStatus, inviter, invitee, member>>

SendCreateCouple(r) ==
  /\ pc[r] = "sendCreateCouple"
  /\ \E i \in Id :
       /\ coupleStatus[i] = "free"
       /\ coupleStatus' = [coupleStatus EXCEPT ![i] = "PENDING"]
       /\ rid' = [rid EXCEPT ![r] = i]
  /\ pc' = [pc EXCEPT ![r] = "sendCreateInvite"]
  /\ UNCHANGED <<inviteStatus, inviter, invitee, member, actor, peer>>

SendCreateInvite(r) ==
  /\ pc[r] = "sendCreateInvite"
  /\ inviteStatus' = [inviteStatus EXCEPT ![rid[r]] = "PENDING"]
  /\ inviter' = [inviter EXCEPT ![rid[r]] = actor[r]]
  /\ invitee' = [invitee EXCEPT ![rid[r]] = peer[r]]
  /\ Finish(r)
  /\ UNCHANGED <<coupleStatus, member>>

-----------------------------------------------------------------------------
(* acceptInvite *)

(* Mutant: the inviter is not remembered. *)
AcceptReadForgetsInviter(r, a, i) ==
  /\ invitee[i] = a
  /\ inviteStatus[i] = "PENDING"
  /\ Start(r, "acceptCheckMe", a, NoUser, i)
  /\ UNCHANGED db

(* Mutant: anyone may accept. *)
AcceptReadByAnyone(r, a, i) ==
  /\ inviteStatus[i] = "PENDING"
  /\ a # inviter[i]
  /\ Start(r, "acceptCheckMe", a, inviter[i], i)
  /\ UNCHANGED db

(* Mutant: the status is not looked at. *)
AcceptReadAnyStatus(r, a, i) ==
  /\ InviteExists(i)
  /\ invitee[i] = a
  /\ Start(r, "acceptCheckMe", a, inviter[i], i)
  /\ UNCHANGED db

(* The invite exists, is addressed to the caller and is PENDING. *)
AcceptRead(r, a, i) ==
  /\ InviteExists(i)
  /\ invitee[i] = a
  /\ inviteStatus[i] = "PENDING"
  /\ Start(r, "acceptCheckMe", a, inviter[i], i)
  /\ UNCHANGED db

AcceptCheckMe(r) ==
  /\ pc[r] = "acceptCheckMe"
  /\ IF Coupled(actor[r]) THEN Finish(r) ELSE Goto(r, "acceptCheckInviter")
  /\ UNCHANGED db

AcceptCheckInviter(r) ==
  /\ pc[r] = "acceptCheckInviter"
  /\ IF Coupled(peer[r]) THEN Finish(r) ELSE Goto(r, "acceptCommit")
  /\ UNCHANGED db

(* The statements of the transaction, for invite i of users a (the caller) *)
(* and b (the inviter).  The invite's status is not read again.            *)
Involves(j, a, b) == {inviter[j], invitee[j]} \intersect {a, b} # {}

(* Mutant: received invites stay PENDING. *)
StatusAfterAcceptSentOnly(i, a, b) ==
  [j \in Id |-> IF j = i THEN "ACCEPTED"
                ELSE IF inviteStatus[j] = "PENDING" /\ inviter[j] \in {a, b}
                  THEN "CANCELED" ELSE inviteStatus[j]]

StatusAfterAccept(i, a, b) ==
  [j \in Id |-> IF j = i THEN "ACCEPTED"
                ELSE IF inviteStatus[j] = "PENDING" /\ Involves(j, a, b)
                  THEN "CANCELED" ELSE inviteStatus[j]]

(* Mutant: only the caller is registered. *)
NewMembersCallerOnly(i, a, b) ==
  {[couple |-> i, user |-> a, role |-> "MEMBER"]}

NewMembers(i, a, b) ==
  {[couple |-> i, user |-> b, role |-> "OWNER"],
   [couple |-> i, user |-> a, role |-> "MEMBER"]}

(* Mutant: CoupleMember without @@unique([userId]). *)
AcceptPossibleNotUnique(i, a, b) == InviteExists(i) /\ CoupleExists(i)

(* The updates need their rows and the inserts respect @@unique([userId]). *)
AcceptPossible(i, a, b) ==
  /\ InviteExists(i)
  /\ CoupleExists(i)
  /\ ~ Coupled(a)
  /\ ~ Coupled(b)

AcceptCommit(r) ==
  /\ pc[r] = "acceptCommit"
  /\ AcceptPossible(rid[r], actor[r], peer[r])
  /\ inviteStatus' = StatusAfterAccept(rid[r], actor[r], peer[r])
  /\ coupleStatus' = [coupleStatus EXCEPT ![rid[r]] = "ACTIVE"]
  /\ member' = member \union NewMembers(rid[r], actor[r], peer[r])
  /\ Finish(r)
  /\ UNCHANGED <<inviter, invitee>>

AcceptRollback(r) ==
  /\ pc[r] = "acceptCommit"
  /\ ~ AcceptPossible(rid[r], actor[r], peer[r])
  /\ Finish(r)
  /\ UNCHANGED db

-----------------------------------------------------------------------------
(* declineInvite and cancelInvite *)

(* Mutant: an answered invite can be declined. *)
DeclineReadAnyStatus(r, a, i) ==
  /\ InviteExists(i)
  /\ invitee[i] = a
  /\ Start(r, "declineUpdate", a, NoUser, i)
  /\ UNCHANGED db

DeclineRead(r, a, i) ==
  /\ InviteExists(i)
  /\ invitee[i] = a
  /\ inviteStatus[i] = "PENDING"
  /\ Start(r, "declineUpdate", a, NoUser, i)
  /\ UNCHANGED db

(* findFirst has no orderBy: any PENDING invite of the caller. *)
CancelRead(r, a, i) ==
  /\ inviter[i] = a
  /\ inviteStatus[i] = "PENDING"
  /\ Start(r, "cancelUpdate", a, NoUser, i)
  /\ UNCHANGED db

(* coupleInvite.update by id: throws when the row is gone, and does not    *)
(* look at the status it overwrites.                                       *)
SetStatus(r, from, status, to) ==
  /\ pc[r] = from
  /\ IF InviteExists(rid[r])
       THEN /\ inviteStatus' = [inviteStatus EXCEPT ![rid[r]] = status]
            /\ Goto(r, to)
       ELSE /\ Finish(r)
            /\ UNCHANGED inviteStatus
  /\ UNCHANGED <<coupleStatus, inviter, invitee, member>>

DeclineUpdate(r) == SetStatus(r, "declineUpdate", "DECLINED", "declineDelete")
CancelUpdate(r) == SetStatus(r, "cancelUpdate", "CANCELED", "cancelDelete")

(* couple.delete by id, whatever the couple's status is by now; deleting a *)
(* row that is gone is an error the caller swallows (decline, cancel) or   *)
(* returns (breakUp), and changes nothing either way.                      *)
DeleteAndFinish(r, from) ==
  /\ pc[r] = from
  /\ IF CoupleExists(rid[r]) THEN DeleteCouple(rid[r]) ELSE UNCHANGED db
  /\ Finish(r)

DeclineDelete(r) == DeleteAndFinish(r, "declineDelete")
CancelDelete(r) == DeleteAndFinish(r, "cancelDelete")

-----------------------------------------------------------------------------
(* breakUp: ensureCoupleMember, then (after the photo files, which module  *)
(* Gallery treats) the delete.                                             *)

(* Mutant: ensureCoupleMember left out. *)
BreakUpByAnyone(r, a, i) ==
  /\ CoupleExists(i)
  /\ Start(r, "breakUpDelete", a, NoUser, i)
  /\ UNCHANGED db

BreakUpCheck(r, a, i) ==
  /\ IsMember(i, a)
  /\ Start(r, "breakUpDelete", a, NoUser, i)
  /\ UNCHANGED db

BreakUpDelete(r) == DeleteAndFinish(r, "breakUpDelete")

-----------------------------------------------------------------------------
(* The environment. *)

(* A request dies at an await: the database call fails, or the process is  *)
(* restarted (all of its requests die).                                    *)
Abandon(r) ==
  /\ pc[r] # "idle"
  /\ Finish(r)
  /\ UNCHANGED db

Arrive(r) ==
  \E a \in User :
    \/ \E b \in User : SendBegin(r, a, b)
    \/ \E i \in Id : \/ AcceptRead(r, a, i)
                     \/ DeclineRead(r, a, i)
                     \/ CancelRead(r, a, i)
                     \/ BreakUpCheck(r, a, i)

Continue(r) ==
  \/ SendCheckInvitee(r) \/ SendCancelPending(r)
  \/ SendCreateCouple(r) \/ SendCreateInvite(r)
  \/ AcceptCheckMe(r) \/ AcceptCheckInviter(r)
  \/ AcceptCommit(r) \/ AcceptRollback(r)
  \/ DeclineUpdate(r) \/ DeclineDelete(r)
  \/ CancelUpdate(r) \/ CancelDelete(r)
  \/ BreakUpDelete(r)

Next == \E r \in Request : Arrive(r) \/ Continue(r) \/ Abandon(r)

Spec == Init /\ [][Next]_vars

-----------------------------------------------------------------------------
(* Safety, for any number of overlapping requests. *)

(* A user is never in two couples, nor in one couple twice, however many   *)
(* acceptances of invites that name him are in flight (the checks of       *)
(* acceptInvite are stale by the time its transaction commits).            *)
OneCouplePerUser == \A m, n \in member : m.user = n.user => m = n

(* A couple is ACTIVE exactly while it has both of its members: the        *)
(* inviter as OWNER and the invitee as MEMBER, two different users; any    *)
(* other couple has no member at all (acceptInvite commits all or nothing, *)
(* and no delete leaves half a couple behind).                             *)
CoupleIsWhole ==
  \A i \in Id :
    /\ coupleStatus[i] = "ACTIVE" =>
         /\ inviter[i] # invitee[i]
         /\ {m \in member : m.couple = i} = NewMembers(i, invitee[i], inviter[i])
    /\ coupleStatus[i] # "ACTIVE" => \A m \in member : m.couple # i

(* An invite row never outlives or precedes its couple, and always knows   *)
(* its two users: no interleaving of sendInvite's two inserts with the     *)
(* deletes of decline, cancel and breakUp leaves a dangling invite.        *)
InviteHasCouple ==
  \A i \in Id : InviteExists(i) =>
    CoupleExists(i) /\ inviter[i] \in User /\ invitee[i] \in User

(* A couple that exists ends only in a step of a request made by one of    *)
(* its two members: breakUp checks it, and a decline or cancel that comes  *)
(* late is at least the work of the invitee or the inviter.                *)
EndedByMember ==
  \A i \in Id :
    (coupleStatus[i] = "ACTIVE" /\ coupleStatus'[i] # "ACTIVE") =>
      \E r \in Request : /\ pc[r] # "idle" /\ pc'[r] = "idle"
                         /\ rid[r] = i
                         /\ IsMember(i, actor[r])
OnlyMembersEndACouple == [][EndedByMember]_vars

(* A couple forms only in a step of a request made by the user to whom the *)
(* invite is addressed, and only between him and the one who invited him.  *)
FormedByInvitee ==
  \A m \in member' \ member :
    \E r \in Request : /\ pc[r] = "acceptCommit" /\ pc'[r] = "idle"
                       /\ rid[r] = m.couple
                       /\ actor[r] = invitee[m.couple]
                       /\ m.user \in {inviter[m.couple], invitee[m.couple]}
OnlyInviteeFormsACouple == [][FormedByInvitee]_vars

(* The service implements Pairing: an offer is an existing invite row, the *)
(* partners are the member rows of a couple.                               *)
Abstract == INSTANCE Pairing WITH
  offer <- [i \in Id |-> IF InviteExists(i) THEN {<<inviter[i], invitee[i]>>}
                                            ELSE {}],
  partners <- [i \in Id |-> {u \in User : IsMember(i, u)}]
ImplementsPairing == Abstract!PairingSpec

-----------------------------------------------------------------------------
(* The invitation rules of the documentation.  They hold as long as        *)
(* requests do not overlap, crashes included.                              *)

(* A user has at most one PENDING invite on its way (comment of sendInvite:*)
(* the earlier one is cancelled, "only one is kept").                      *)
SinglePendingInvite ==
  \A i, j \in Id :
    (/\ inviteStatus[i] = "PENDING" /\ inviteStatus[j] = "PENDING"
     /\ inviter[i] = inviter[j]) => i = j

(* Whoever is in a couple has no PENDING invite left, sent or received     *)
(* (acceptInvite cancels them all, sendInvite refuses to make new ones).   *)
CoupledHaveNoPending ==
  \A i \in Id : inviteStatus[i] = "PENDING" =>
    ~ Coupled(inviter[i]) /\ ~ Coupled(invitee[i])

(* declineInvite and cancelInvite clean up a PENDING couple; they never    *)
(* delete an ACTIVE one.                                                   *)
CleanupSparesActive ==
  \A r \in Request :
    (pc[r] \in {"declineDelete", "cancelDelete"} /\ pc'[r] = "idle") =>
      ~ (/\ coupleStatus[rid[r]] = "ACTIVE"
         /\ coupleStatus'[rid[r]] = "deleted")
CleanupOnlyPending == [][CleanupSparesActive]_vars

(* An invite is answered once: its status changes only while it is PENDING *)
(* (deleting the row aside).                                               *)
StatusLeavesPendingOnly ==
  \A i \in Id :
    (InviteExists(i) /\ inviteStatus'[i] \notin {inviteStatus[i], "none"}) =>
      inviteStatus[i] = "PENDING"
AnsweredOnce == [][StatusLeavesPendingOnly]_vars
=============================================================================
