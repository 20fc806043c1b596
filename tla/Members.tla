-------------------------------- MODULE Members -------------------------------
(***************************************************************************)
(* Who belongs to a workspace: the invites its owner sends, the            *)
(* memberships they turn into, and the two middlewares that let a request  *)
(* of a member in.                                                         *)
(*                                                                         *)
(* InviteService reads an invite, decides on its status and then updates   *)
(* it by id; only the acceptance runs in a database transaction, and only  *)
(* the unique index on (userId, workspaceId) stands behind it.  The owner  *)
(* is never invited or removed, so the owner's own membership, which every *)
(* owner request checks first, is not a state here.  The chain of           *)
(* middlewares a request passes is that of its route (Routes).             *)
(***************************************************************************)
EXTENDS Integers, Routes

CONSTANTS
    Requests,    \* slots for requests in flight
    Guests,      \* the users, each with one e-mail address
    Invites,     \* the ids of the invites that may be created
    Personal     \* TRUE for a PERSONAL workspace, FALSE for a BUSINESS one

ASSUME PersonalAssumption == Personal \in BOOLEAN

VARIABLES
    invite,      \* WorkspaceInvite rows
    member,      \* the role of each guest's WorkspaceMember row
    req,         \* the requests in flight
    admitted     \* history: the invites that have created a membership

vars == <<invite, member, req, admitted>>

-----------------------------------------------------------------------------
(* The data.                                                               *)

Roles == {"ACCOUNTANT", "EDITOR", "VIEWER"}

\* roleHierarchy, doubled to be whole numbers.
Rank(role) == CASE role = "VIEWER" -> 2 [] role = "EDITOR" -> 4 [] role = "ACCOUNTANT" -> 5
                [] role = "OWNER" -> 6

\* What a route behind WorkspaceMiddleware may need; "MEMBER" is not a role.
Needs == RouteChains \cap WorkspaceChains
RankNeeded(needs) ==
    CASE needs = "MEMBER" -> 0
      [] needs = "NAMED ACCOUNTANT" -> Rank("ACCOUNTANT")
      [] OTHER -> Rank(needs)

InviteStatuses == {"ABSENT", "PENDING", "ACCEPTED", "EXPIRED", "REVOKED", "REJECTED"}

\* late: expiresAt has passed.
InviteRow == [status : InviteStatuses, guest : Guests, role : Roles, late : BOOLEAN]

Inviting  == [op : {"invite"}, step : {"lookup", "create"}, guest : Guests, role : Roles]
Answering == [op : {"revoke", "reject", "expire", "accept"}, invite : Invites]
Removing  == [op : {"remove"}, guest : Guests]
Entering  == [op : {"enter"}, step : {"rbac", "in"}, guest : Guests, as : Roles,
              needs : WorkspaceChains]

Idle == [op |-> "none"]

RequestState == {Idle} \cup Inviting \cup Answering \cup Removing \cup Entering

TypeOK ==
    /\ invite \in [Invites -> InviteRow]
    /\ member \in [Guests -> Roles \cup {"none"}]
    /\ req \in [Requests -> RequestState]
    /\ admitted \subseteq Invites

Init ==
    /\ \E g \in Guests :
          invite = [i \in Invites |-> [status |-> "ABSENT", guest |-> g, role |-> "VIEWER",
                                      late |-> FALSE]]
    /\ member = [g \in Guests |-> "none"]
    /\ req = [r \in Requests |-> Idle]
    /\ admitted = {}

-----------------------------------------------------------------------------
(* Helpers                                                                 *)

Become(r, q) == req' = [req EXCEPT ![r] = q]
Finish(r) == Become(r, Idle)

IsMember(g) == member[g] # "none"

\* Updates name the row by its id.
SetStatus(i, status) == invite' = [invite EXCEPT ![i].status = status]

-----------------------------------------------------------------------------
(* createInvite, one action per await that depends on a row.               *)

InviteGuard(r, g, role) ==
    /\ req[r] = Idle
    /\ ~IsMember(g)
    /\ Become(r, [op |-> "invite", step |-> "lookup", guest |-> g, role |-> role])
    /\ UNCHANGED <<invite, member, admitted>>

InviteLookup(r) ==
    /\ req[r].op = "invite" /\ req[r].step = "lookup"
    /\ IF \E i \in Invites : invite[i].status = "PENDING" /\ invite[i].guest = req[r].guest
       THEN Finish(r)
       ELSE Become(r, [req[r] EXCEPT !.step = "create"])
    /\ UNCHANGED <<invite, member, admitted>>

InviteCreate(r, i) ==
    /\ req[r].op = "invite" /\ req[r].step = "create"
    /\ invite[i].status = "ABSENT"
    /\ invite' = [invite EXCEPT ![i] = [status |-> "PENDING", guest |-> req[r].guest,
                                        role |-> req[r].role, late |-> FALSE]]
    /\ Finish(r)
    /\ UNCHANGED <<member, admitted>>

-----------------------------------------------------------------------------
(* revokeInvite and rejectInvite: a status read, then an update by id.     *)

AnswerRead(r, i, op) ==
    /\ req[r] = Idle
    /\ invite[i].status = "PENDING"
    /\ Become(r, [op |-> op, invite |-> i])
    /\ UNCHANGED <<invite, member, admitted>>

RevokeRead(r, i) == AnswerRead(r, i, "revoke")
RejectRead(r, i) == AnswerRead(r, i, "reject")

RevokeCommit(r) ==
    /\ req[r].op = "revoke"
    /\ SetStatus(req[r].invite, "REVOKED")
    /\ Finish(r)
    /\ UNCHANGED <<member, admitted>>

RejectCommit(r) ==
    /\ req[r].op = "reject"
    /\ SetStatus(req[r].invite, "REJECTED")
    /\ Finish(r)
    /\ UNCHANGED <<member, admitted>>

-----------------------------------------------------------------------------
(* acceptInvite                                                            *)

\* The statuses that are refused; a REJECTED invite is not among them.
RevokedOnly == {"REVOKED"}                                        \* mutant
Refused == {"REVOKED", "ACCEPTED"}

AcceptRead(r, i) ==
    /\ req[r] = Idle
    /\ invite[i].status \notin Refused \cup {"ABSENT"}
    /\ Become(r, [op |-> IF invite[i].late THEN "expire" ELSE "accept", invite |-> i])
    /\ UNCHANGED <<invite, member, admitted>>

AcceptExpire(r) ==
    /\ req[r].op = "expire"
    /\ SetStatus(req[r].invite, "EXPIRED")
    /\ Finish(r)
    /\ UNCHANGED <<member, admitted>>

\* The role comes from the invite row, whatever the request says.
DefaultRole(i) == "ACCOUNTANT"                                    \* mutant
GrantedRole(i) == invite[i].role

\* Who is a member already makes the insertion raise P2002, which rolls back.
RolledBack(i) == UNCHANGED invite

\* Membership and status commit together.
AcceptCommit(r) ==
    /\ req[r].op = "accept"
    /\ LET i == req[r].invite
           g == invite[i].guest
       IN  IF IsMember(g)
           THEN RolledBack(i) /\ UNCHANGED <<member, admitted>>
           ELSE /\ member' = [member EXCEPT ![g] = GrantedRole(i)]
                /\ SetStatus(i, "ACCEPTED")
                /\ admitted' = admitted \cup {i}
    /\ Finish(r)

-----------------------------------------------------------------------------
(* removeMember                                                            *)

RemoveRead(r, g) ==
    /\ req[r] = Idle
    /\ IsMember(g)
    /\ Become(r, [op |-> "remove", guest |-> g])
    /\ UNCHANGED <<invite, member, admitted>>

\* Deleting a row that is gone throws and changes nothing.
RemoveCommit(r) ==
    /\ req[r].op = "remove"
    /\ member' = [member EXCEPT ![req[r].guest] = "none"]
    /\ Finish(r)
    /\ UNCHANGED <<invite, admitted>>

-----------------------------------------------------------------------------
(* WorkspaceMiddleware, then RbacMiddleware: two reads of one membership.  *)

\* The x-workspace-id header of a request may name this workspace or be missing; one that
\* names another workspace enters that one, or is refused where the path names this one.
Headers == {"here", "absent"}

\* WorkspaceRouteParamGuard puts the workspace of the path in place of a missing header.
Addressed(needs, header) == header = "here" \/ needs = "NAMED ACCOUNTANT"

\* The role of the first read is what the handlers find in the tenant context.
EnterWorkspace(r, g, needs, header) ==
    /\ req[r] = Idle
    /\ Addressed(needs, header)
    /\ IsMember(g)
    /\ ~(member[g] = "ACCOUNTANT" /\ Personal)
    /\ Become(r, [op |-> "enter", step |-> IF needs = "MEMBER" THEN "in" ELSE "rbac",
                  guest |-> g, as |-> member[g], needs |-> needs])
    /\ UNCHANGED <<invite, member, admitted>>

AnyMember(role, needs) == TRUE                                    \* mutant
Suffices(role, needs) == Rank(role) >= RankNeeded(needs)

RbacCheck(r) ==
    /\ req[r].op = "enter" /\ req[r].step = "rbac"
    /\ LET role == member[req[r].guest]
       IN  IF role = "none" THEN Finish(r)
           ELSE IF Suffices(role, req[r].needs) THEN Become(r, [req[r] EXCEPT !.step = "in"])
           ELSE Finish(r)
    /\ UNCHANGED <<invite, member, admitted>>

-----------------------------------------------------------------------------
(* The environment.                                                        *)

\* The handler is done, or the request died between two awaits.
Return(r) ==
    /\ req[r] # Idle
    /\ Finish(r)
    /\ UNCHANGED <<invite, member, admitted>>

\* Seven days are over.
Expire(i) ==
    /\ invite[i].status # "ABSENT" /\ ~invite[i].late
    /\ invite' = [invite EXCEPT ![i].late = TRUE]
    /\ UNCHANGED <<member, req, admitted>>

-----------------------------------------------------------------------------
(* The routes of InviteController, and those of any member.                *)

CreateInvite(r) ==
    \/ \E g \in Guests, role \in Roles : InviteGuard(r, g, role)
    \/ InviteLookup(r)
    \/ \E i \in Invites : InviteCreate(r, i)

RevokeInvite(r) == (\E i \in Invites : RevokeRead(r, i)) \/ RevokeCommit(r)
RejectInvite(r) == (\E i \in Invites : RejectRead(r, i)) \/ RejectCommit(r)

AcceptInvite(r) ==
    \/ \E i \in Invites : AcceptRead(r, i)
    \/ AcceptExpire(r)
    \/ AcceptCommit(r)

RemoveMember(r) == (\E g \in Guests : RemoveRead(r, g)) \/ RemoveCommit(r)

Enter(r) ==
    \/ \E g \in Guests, needs \in Needs, header \in Headers : EnterWorkspace(r, g, needs, header)
    \/ RbacCheck(r)

OwnerStep(r) == CreateInvite(r) \/ RevokeInvite(r) \/ RemoveMember(r)
GuestStep(r) == AcceptInvite(r) \/ RejectInvite(r) \/ Enter(r)

Next ==
    \/ \E r \in Requests : OwnerStep(r) \/ GuestStep(r) \/ Return(r)
    \/ \E i \in Invites : Expire(i)

Spec == Init /\ [][Next]_vars

-----------------------------------------------------------------------------
(* Properties.                                                             *)

\* Nobody is a member with a role that no accepted invite gave them, whatever has
\* been revoked, refused, removed and invited again since.
MembersWereInvited ==
    \A g \in Guests : IsMember(g) =>
        \E i \in admitted : invite[i].guest = g /\ invite[i].role = member[g]

\* An invite shown as ACCEPTED has made its guest a member, although another invite may
\* have been accepted first.
AcceptedWasAdmitted == \A i \in Invites : invite[i].status = "ACCEPTED" => i \in admitted

\* A request that passed both middlewares belongs to somebody who was given a role of
\* the rank it needs, even if the membership has changed between the two.
EnteredHadRank ==
    \A r \in Requests : req[r].op = "enter" /\ req[r].step = "in" =>
        \E i \in admitted : /\ invite[i].guest = req[r].guest
                           /\ Rank(invite[i].role) >= RankNeeded(req[r].needs)

\* The acceptances of an invite in flight.
Accepting(i) == {r \in Requests : req[r].op = "accept" /\ req[r].invite = i}

Closed(i) == invite[i].status \in {"REVOKED", "ACCEPTED"} \/ invite[i].late

\* Once an invite is revoked, accepted or out of date, no acceptance of it begins: only
\* those that had read it before can still make a member.
ClosedInvitesAdmitNobody ==
    [][\A i \in Invites : Closed(i) /\ Closed(i)' => Accepting(i)' \subseteq Accepting(i)]_vars
===============================================================================
