----------------------------- MODULE MembersProofs ----------------------------
(***************************************************************************)
(* Proofs about Members, for any number of guests, invites and requests.   *)
(***************************************************************************)
EXTENDS Members, TLAPS

\* An invite that has made a member exists, so no new invite takes its place.
AdmittedExist == \A i \in admitted : invite[i].status # "ABSENT"

\* Why the invariants last: what an admitted invite says never changes.
MembersInv ==
    /\ TypeOK
    /\ AdmittedExist
    /\ MembersWereInvited
    /\ AcceptedWasAdmitted
    /\ EnteredHadRank

-----------------------------------------------------------------------------
(* Requests and rows.                                                      *)

LEMMA RequestKinds ==
    ASSUME NEW q \in RequestState
    PROVE  /\ q.op = "invite" => q \in Inviting
           /\ q.op \in {"revoke", "reject", "expire", "accept"} => q \in Answering
           /\ q.op = "remove" => q \in Removing
           /\ q.op = "enter"  => q \in Entering
BY DEF RequestState, Idle, Inviting, Answering, Removing, Entering

LEMMA BecomeTyped ==
    ASSUME TypeOK, NEW r \in Requests, NEW q \in RequestState, Become(r, q)
    PROVE  /\ req' \in [Requests -> RequestState]
           /\ \A x \in Requests : req'[x] = IF x = r THEN q ELSE req[x]
BY DEF TypeOK, Become

LEMMA IdleTyped == Idle \in RequestState
BY DEF RequestState

\* An update of the status leaves guest and role as they are.
LEMMA SetStatusTyped ==
    ASSUME TypeOK, NEW i \in Invites, NEW s \in InviteStatuses, SetStatus(i, s)
    PROVE  /\ invite' \in [Invites -> InviteRow]
           /\ \A j \in Invites : /\ invite'[j].guest = invite[j].guest
                                 /\ invite'[j].role = invite[j].role
                                 /\ j # i => invite'[j].status = invite[j].status
           /\ invite'[i].status = s
BY DEF TypeOK, SetStatus, InviteRow

\* What every step leaves of the invites that have made a member.
Kept ==
    /\ admitted \subseteq admitted'
    /\ \A i \in admitted : /\ invite'[i].guest = invite[i].guest
                           /\ invite'[i].role = invite[i].role
                           /\ invite'[i].status # "ABSENT"

-----------------------------------------------------------------------------
(* The four kinds of steps.                                                *)

\* A step of a request that writes no table and does not let it in.
LEMMA RequestOnly ==
    ASSUME MembersInv, NEW r \in Requests, NEW q \in RequestState, Become(r, q),
           ~(q.op = "enter" /\ q.step = "in"),
           UNCHANGED <<invite, member, admitted>>
    PROVE  MembersInv'
<1>1. /\ req' \in [Requests -> RequestState]
      /\ \A x \in Requests : req'[x] = IF x = r THEN q ELSE req[x]
  BY BecomeTyped DEF MembersInv
<1>2. TypeOK'
  BY <1>1 DEF MembersInv, TypeOK
<1>3. AdmittedExist' /\ MembersWereInvited' /\ AcceptedWasAdmitted'
  BY DEF MembersInv, AdmittedExist, MembersWereInvited, AcceptedWasAdmitted, IsMember
<1>4. EnteredHadRank'
  BY <1>1 DEF MembersInv, EnteredHadRank
<1>5. QED
  BY <1>2, <1>3, <1>4 DEF MembersInv

\* Requests let in before stay justified while admitted invites are kept.
LEMMA EntriesLast ==
    ASSUME MembersInv, NEW r \in Requests, Kept, Finish(r)
    PROVE  EnteredHadRank' /\ req' \in [Requests -> RequestState]
<1>1. /\ req' \in [Requests -> RequestState]
      /\ \A x \in Requests : req'[x] = IF x = r THEN Idle ELSE req[x]
  BY IdleTyped, BecomeTyped DEF MembersInv, Finish
<1>2. ASSUME NEW x \in Requests, req'[x].op = "enter", req'[x].step = "in"
      PROVE  \E i \in admitted' : /\ invite'[i].guest = req'[x].guest
                                  /\ Rank(invite'[i].role) >= RankNeeded(req'[x].needs)
  <2>1. x # r /\ req'[x] = req[x]
    BY <1>1, <1>2 DEF Idle
  <2>2. PICK i \in admitted : /\ invite[i].guest = req[x].guest
                              /\ Rank(invite[i].role) >= RankNeeded(req[x].needs)
    BY <1>2, <2>1 DEF MembersInv, EnteredHadRank
  <2>3. QED
    BY <2>1, <2>2 DEF Kept
<1>3. QED
  BY <1>1, <1>2 DEF EnteredHadRank

\* An answer other than an acceptance: one status changes.
LEMMA AnswerStep ==
    ASSUME MembersInv, NEW r \in Requests, NEW i \in Invites,
           NEW s \in InviteStatuses \ {"ABSENT", "ACCEPTED"},
           SetStatus(i, s), Finish(r), UNCHANGED <<member, admitted>>
    PROVE  MembersInv'
<1>1. /\ invite' \in [Invites -> InviteRow]
      /\ \A j \in Invites : /\ invite'[j].guest = invite[j].guest
                            /\ invite'[j].role = invite[j].role
                            /\ j # i => invite'[j].status = invite[j].status
      /\ invite'[i].status = s
  BY SetStatusTyped DEF MembersInv
<1>2. admitted \subseteq Invites
  BY DEF MembersInv, TypeOK
<1>3. Kept
  BY <1>1, <1>2 DEF Kept, MembersInv, AdmittedExist
<1>4. EnteredHadRank' /\ req' \in [Requests -> RequestState]
  BY <1>3, EntriesLast
<1>5. TypeOK'
  BY <1>1, <1>4 DEF MembersInv, TypeOK
<1>6. AdmittedExist' /\ MembersWereInvited' /\ AcceptedWasAdmitted'
  BY <1>1, <1>2, <1>3
  DEF Kept, MembersInv, AdmittedExist, MembersWereInvited, AcceptedWasAdmitted, IsMember
<1>7. QED
  BY <1>4, <1>5, <1>6 DEF MembersInv

LEMMA CreateStep ==
    ASSUME MembersInv, NEW r \in Requests, NEW i \in Invites, InviteCreate(r, i)
    PROVE  MembersInv'
<1> DEFINE row == [status |-> "PENDING", guest |-> req[r].guest, role |-> req[r].role,
                   late |-> FALSE]
<1>1. req[r] \in Inviting
  BY RequestKinds DEF MembersInv, TypeOK, InviteCreate
<1>2. row \in InviteRow
  BY <1>1 DEF Inviting, InviteRow, InviteStatuses
<1>3. invite' = [invite EXCEPT ![i] = row]
  BY DEF InviteCreate
<1>4. row.status = "PENDING"
  OBVIOUS
<1> HIDE DEF row
<1>5. invite' \in [Invites -> InviteRow]
  BY <1>2, <1>3 DEF MembersInv, TypeOK
<1>6. \A j \in Invites : invite'[j] = IF j = i THEN row ELSE invite[j]
  BY <1>3 DEF MembersInv, TypeOK
<1>7. i \notin admitted /\ admitted \subseteq Invites /\ UNCHANGED <<member, admitted>>
  BY DEF InviteCreate, MembersInv, AdmittedExist, TypeOK
<1>8. Kept
  BY <1>6, <1>7 DEF Kept, MembersInv, AdmittedExist
<1>9. EnteredHadRank' /\ req' \in [Requests -> RequestState]
  BY <1>8, EntriesLast DEF InviteCreate
<1>10. TypeOK'
  BY <1>5, <1>7, <1>9 DEF MembersInv, TypeOK
<1>11. AdmittedExist' /\ MembersWereInvited' /\ AcceptedWasAdmitted'
  BY <1>4, <1>6, <1>7
  DEF MembersInv, AdmittedExist, MembersWereInvited, AcceptedWasAdmitted, IsMember
<1>12. QED
  BY <1>9, <1>10, <1>11 DEF MembersInv

LEMMA AcceptStep ==
    ASSUME MembersInv, NEW r \in Requests, AcceptCommit(r)
    PROVE  MembersInv'
<1> DEFINE i == req[r].invite
           g == invite[i].guest
<1>1. req[r] \in Answering
  BY RequestKinds DEF MembersInv, TypeOK, AcceptCommit
<1>2. i \in Invites
  BY <1>1 DEF Answering
<1>3. invite[i] \in InviteRow
  BY <1>2 DEF MembersInv, TypeOK
<1>4. g \in Guests /\ invite[i].role \in Roles
  BY <1>3 DEF InviteRow
<1>5. Finish(r)
  BY DEF AcceptCommit
<1>6. CASE IsMember(g)
  <2>1. UNCHANGED <<invite, member, admitted>>
    BY <1>6 DEF AcceptCommit, RolledBack
  <2>2. QED
    BY <2>1, <1>5, IdleTyped, RequestOnly DEF Finish, Idle
<1>7. CASE ~IsMember(g)
  <2>1. /\ member' = [member EXCEPT ![g] = invite[i].role]
        /\ SetStatus(i, "ACCEPTED")
        /\ admitted' = admitted \cup {i}
    BY <1>7 DEF AcceptCommit, GrantedRole
  <2>2. /\ invite' \in [Invites -> InviteRow]
        /\ \A j \in Invites : /\ invite'[j].guest = invite[j].guest
                              /\ invite'[j].role = invite[j].role
                              /\ j # i => invite'[j].status = invite[j].status
        /\ invite'[i].status = "ACCEPTED"
    BY <1>2, <2>1, SetStatusTyped DEF MembersInv, InviteStatuses
  <2>3. admitted \subseteq Invites
    BY DEF MembersInv, TypeOK
  <2> HIDE DEF i
  <2>4. Kept
    BY <2>1, <2>2, <2>3 DEF Kept, MembersInv, AdmittedExist
  <2>5. EnteredHadRank' /\ req' \in [Requests -> RequestState]
    BY <2>4, <1>5, EntriesLast
  <2>6. TypeOK'
    BY <1>2, <1>4, <2>1, <2>2, <2>5 DEF MembersInv, TypeOK
  <2>7. AdmittedExist'
    BY <2>1, <2>2, <2>4 DEF Kept, AdmittedExist
  <2>8. AcceptedWasAdmitted'
    BY <1>2, <2>1, <2>2 DEF MembersInv, AcceptedWasAdmitted
  <2>9. MembersWereInvited'
    <3> SUFFICES ASSUME NEW h \in Guests, IsMember(h)'
                 PROVE  \E j \in admitted' :
                           invite'[j].guest = h /\ invite'[j].role = member'[h]
      BY DEF MembersWereInvited
    <3>1. CASE h = g
      BY <1>2, <1>4, <2>1, <2>2, <3>1 DEF MembersInv, TypeOK
    <3>2. CASE h # g
      <4>1. member'[h] = member[h]
        BY <2>1, <3>2 DEF MembersInv, TypeOK
      <4>2. PICK j \in admitted : invite[j].guest = h /\ invite[j].role = member[h]
        BY <4>1 DEF MembersInv, MembersWereInvited, IsMember
      <4>3. QED
        BY <4>1, <4>2, <2>4 DEF Kept
    <3>3. QED
      BY <3>1, <3>2
  <2>10. QED
    BY <2>5, <2>6, <2>7, <2>8, <2>9 DEF MembersInv
<1>8. QED
  BY <1>6, <1>7

LEMMA RemoveStep ==
    ASSUME MembersInv, NEW r \in Requests, RemoveCommit(r)
    PROVE  MembersInv'
<1>1. UNCHANGED <<invite, admitted>> /\ Finish(r)
  BY DEF RemoveCommit
<1>2. Kept
  BY <1>1 DEF Kept, MembersInv, AdmittedExist
<1>3. EnteredHadRank' /\ req' \in [Requests -> RequestState]
  BY <1>1, <1>2, EntriesLast
<1>4. /\ member' \in [Guests -> Roles \cup {"none"}]
      /\ \A g \in Guests : member'[g] = member[g] \/ member'[g] = "none"
  BY DEF RemoveCommit, MembersInv, TypeOK
<1>5. TypeOK'
  BY <1>1, <1>3, <1>4 DEF MembersInv, TypeOK
<1>6. AdmittedExist' /\ MembersWereInvited' /\ AcceptedWasAdmitted'
  BY <1>1, <1>4
  DEF MembersInv, AdmittedExist, MembersWereInvited, AcceptedWasAdmitted, IsMember
<1>7. QED
  BY <1>3, <1>5, <1>6 DEF MembersInv

\* Whom an admitted invite gave the rank may be let in.
LEMMA LetIn ==
    ASSUME MembersInv, NEW r \in Requests, NEW q \in Entering, Become(r, q),
           NEW i \in admitted, invite[i].guest = q.guest,
           Rank(invite[i].role) >= RankNeeded(q.needs),
           UNCHANGED <<invite, member, admitted>>
    PROVE  MembersInv'
<1>1. q \in RequestState
  BY DEF RequestState
<1>2. /\ req' \in [Requests -> RequestState]
      /\ \A x \in Requests : req'[x] = IF x = r THEN q ELSE req[x]
  BY <1>1, BecomeTyped DEF MembersInv
<1>3. EnteredHadRank'
  <2> SUFFICES ASSUME NEW x \in Requests, req'[x].op = "enter", req'[x].step = "in"
               PROVE  \E j \in admitted : /\ invite[j].guest = req'[x].guest
                                          /\ Rank(invite[j].role) >= RankNeeded(req'[x].needs)
    BY DEF EnteredHadRank
  <2>1. CASE x = r
    BY <1>2, <2>1
  <2>2. CASE x # r
    BY <1>2, <2>2 DEF MembersInv, EnteredHadRank
  <2>3. QED
    BY <2>1, <2>2
<1>4. TypeOK'
  BY <1>2 DEF MembersInv, TypeOK
<1>5. AdmittedExist' /\ MembersWereInvited' /\ AcceptedWasAdmitted'
  BY DEF MembersInv, AdmittedExist, MembersWereInvited, AcceptedWasAdmitted, IsMember
<1>6. QED
  BY <1>3, <1>4, <1>5 DEF MembersInv

\* The second middleware lets in whom an admitted invite gave the rank.
LEMMA EntryStep ==
    ASSUME MembersInv, NEW r \in Requests, RbacCheck(r)
    PROVE  MembersInv'
<1> DEFINE q == [req[r] EXCEPT !.step = "in"]
           g == req[r].guest
<1>1. req[r] \in Entering
  BY RequestKinds DEF MembersInv, TypeOK, RbacCheck
<1>2. g \in Guests /\ q.guest = g /\ q.needs = req[r].needs /\ q \in Entering
  BY <1>1 DEF Entering
<1>3. UNCHANGED <<invite, member, admitted>>
  BY DEF RbacCheck
<1>4. CASE Finish(r)
  BY <1>3, <1>4, IdleTyped, RequestOnly DEF Finish, Idle
<1>5. CASE ~Finish(r)
  <2>1. IsMember(g) /\ Rank(member[g]) >= RankNeeded(req[r].needs) /\ Become(r, q)
    BY <1>5 DEF RbacCheck, Suffices, IsMember
  <2>2. PICK i \in admitted : invite[i].guest = g /\ invite[i].role = member[g]
    BY <1>2, <2>1 DEF MembersInv, MembersWereInvited
  <2>3. QED
    BY <1>2, <1>3, <2>1, <2>2, LetIn
<1>6. QED
  BY <1>4, <1>5

\* A route without RbacMiddleware lets in every member.
LEMMA MemberStep ==
    ASSUME MembersInv, NEW r \in Requests, NEW g \in Guests, NEW header \in Headers,
           EnterWorkspace(r, g, "MEMBER", header)
    PROVE  MembersInv'
<1> DEFINE q == [op |-> "enter", step |-> "in", guest |-> g, as |-> member[g],
                 needs |-> "MEMBER"]
<1>1. IsMember(g) /\ member[g] \in Roles
  BY DEF EnterWorkspace, IsMember, MembersInv, TypeOK
<1>2. q \in Entering
  BY <1>1 DEF Entering, WorkspaceChains
<1>3. Become(r, q) /\ UNCHANGED <<invite, member, admitted>>
  BY DEF EnterWorkspace
<1>4. PICK i \in admitted : invite[i].guest = g /\ invite[i].role = member[g]
  BY <1>1 DEF MembersInv, MembersWereInvited
<1>5. Rank(invite[i].role) >= RankNeeded(q.needs)
  BY <1>1, <1>4 DEF Rank, RankNeeded, Roles
<1>6. QED
  BY <1>2, <1>3, <1>4, <1>5, LetIn

\* The request states that the reads lead to.
LEMMA NextRequests ==
    /\ \A g \in Guests, role \in Roles :
          [op |-> "invite", step |-> "lookup", guest |-> g, role |-> role] \in Inviting
    /\ \A i \in Invites, op \in {"revoke", "reject", "expire", "accept"} :
          [op |-> op, invite |-> i] \in Answering
    /\ \A g \in Guests : [op |-> "remove", guest |-> g] \in Removing
    /\ \A g \in Guests, as \in Roles, needs \in WorkspaceChains, step \in {"rbac", "in"} :
          [op |-> "enter", step |-> step, guest |-> g, as |-> as, needs |-> needs]
             \in Entering
    /\ \A q \in Inviting : [q EXCEPT !.step = "create"] \in Inviting
BY DEF Inviting, Answering, Removing, Entering

\* The steps that read and change nothing but the request.
LEMMA ReadStep ==
    ASSUME MembersInv, NEW r \in Requests,
           \/ \E g \in Guests, role \in Roles : InviteGuard(r, g, role)
           \/ InviteLookup(r)
           \/ \E i \in Invites : RevokeRead(r, i) \/ RejectRead(r, i) \/ AcceptRead(r, i)
           \/ \E g \in Guests : RemoveRead(r, g)
           \/ \E g \in Guests, needs \in WorkspaceChains, header \in Headers :
                 EnterWorkspace(r, g, needs, header)
           \/ Return(r)
    PROVE  MembersInv'
<1>1. ASSUME NEW g \in Guests, NEW role \in Roles, InviteGuard(r, g, role)
      PROVE  MembersInv'
  <2> DEFINE q == [op |-> "invite", step |-> "lookup", guest |-> g, role |-> role]
  <2>1. q \in RequestState
    BY NextRequests DEF RequestState
  <2>2. Become(r, q) /\ UNCHANGED <<invite, member, admitted>>
    BY <1>1 DEF InviteGuard
  <2>3. QED
    BY <2>1, <2>2, RequestOnly
<1>2. ASSUME InviteLookup(r)
      PROVE  MembersInv'
  <2> DEFINE q == [req[r] EXCEPT !.step = "create"]
  <2>1. req[r] \in Inviting
    BY <1>2, RequestKinds DEF MembersInv, TypeOK, InviteLookup
  <2>2. q \in RequestState /\ ~(q.op = "enter" /\ q.step = "in")
    BY <2>1, NextRequests DEF RequestState, Inviting
  <2>3. Become(r, Idle) \/ Become(r, q)
    BY <1>2 DEF InviteLookup, Finish
  <2>4. UNCHANGED <<invite, member, admitted>>
    BY <1>2 DEF InviteLookup
  <2>5. CASE Become(r, Idle)
    BY <2>4, <2>5, IdleTyped, RequestOnly DEF Idle
  <2>6. CASE Become(r, q)
    BY <2>2, <2>4, <2>6, RequestOnly
  <2>7. QED
    BY <2>3, <2>5, <2>6
<1>3. ASSUME NEW i \in Invites, RevokeRead(r, i) \/ RejectRead(r, i) \/ AcceptRead(r, i)
      PROVE  MembersInv'
  <2>1. PICK op \in {"revoke", "reject", "expire", "accept"} :
             Become(r, [op |-> op, invite |-> i])
    BY <1>3 DEF RevokeRead, RejectRead, AnswerRead, AcceptRead
  <2> DEFINE q == [op |-> op, invite |-> i]
  <2>2. q \in RequestState
    BY NextRequests DEF RequestState
  <2>3. UNCHANGED <<invite, member, admitted>>
    BY <1>3 DEF RevokeRead, RejectRead, AnswerRead, AcceptRead
  <2>4. QED
    BY <2>1, <2>2, <2>3, RequestOnly
<1>4. ASSUME NEW g \in Guests, RemoveRead(r, g)
      PROVE  MembersInv'
  <2> DEFINE q == [op |-> "remove", guest |-> g]
  <2>1. q \in RequestState
    BY NextRequests DEF RequestState
  <2>2. Become(r, q) /\ UNCHANGED <<invite, member, admitted>>
    BY <1>4 DEF RemoveRead
  <2>3. QED
    BY <2>1, <2>2, RequestOnly
<1>5. ASSUME NEW g \in Guests, NEW needs \in WorkspaceChains, NEW header \in Headers,
             EnterWorkspace(r, g, needs, header), needs # "MEMBER"
      PROVE  MembersInv'
  <2> DEFINE q == [op |-> "enter", step |-> "rbac", guest |-> g, as |-> member[g],
                   needs |-> needs]
  <2>1. member[g] \in Roles
    BY <1>5 DEF EnterWorkspace, IsMember, MembersInv, TypeOK
  <2>2. q \in RequestState
    BY <2>1, NextRequests DEF RequestState
  <2>3. Become(r, q) /\ UNCHANGED <<invite, member, admitted>>
    BY <1>5 DEF EnterWorkspace
  <2>4. QED
    BY <2>2, <2>3, RequestOnly
<1>6. ASSUME NEW g \in Guests, NEW header \in Headers, EnterWorkspace(r, g, "MEMBER", header)
      PROVE  MembersInv'
  BY <1>6, MemberStep
<1>7. ASSUME Return(r)
      PROVE  MembersInv'
  BY <1>7, IdleTyped, RequestOnly DEF Return, Finish, Idle
<1>8. QED
  BY <1>1, <1>2, <1>3, <1>4, <1>5, <1>6, <1>7

\* An invite grows old; nothing the invariant reads depends on it.
LEMMA ExpireStep ==
    ASSUME MembersInv, NEW i \in Invites, Expire(i)
    PROVE  MembersInv'
<1>1. /\ invite' \in [Invites -> InviteRow]
      /\ \A j \in Invites : /\ invite'[j].guest = invite[j].guest
                            /\ invite'[j].role = invite[j].role
                            /\ invite'[j].status = invite[j].status
  BY DEF Expire, MembersInv, TypeOK, InviteRow
<1>2. UNCHANGED <<member, req, admitted>> /\ admitted \subseteq Invites
  BY DEF Expire, MembersInv, TypeOK
<1>3. TypeOK'
  BY <1>1, <1>2 DEF MembersInv, TypeOK
<1>4. AdmittedExist' /\ MembersWereInvited' /\ AcceptedWasAdmitted'
  BY <1>1, <1>2
  DEF MembersInv, AdmittedExist, MembersWereInvited, AcceptedWasAdmitted, IsMember
<1>5. EnteredHadRank'
  <2> SUFFICES ASSUME NEW x \in Requests, req[x].op = "enter", req[x].step = "in"
               PROVE  \E j \in admitted : /\ invite'[j].guest = req[x].guest
                                          /\ Rank(invite'[j].role) >= RankNeeded(req[x].needs)
    BY <1>2 DEF EnteredHadRank
  <2>1. PICK j \in admitted : /\ invite[j].guest = req[x].guest
                              /\ Rank(invite[j].role) >= RankNeeded(req[x].needs)
    BY DEF MembersInv, EnteredHadRank
  <2>2. QED
    BY <1>1, <1>2, <2>1
<1>6. QED
  BY <1>3, <1>4, <1>5 DEF MembersInv

-----------------------------------------------------------------------------
(* The invariant and the theorems.                                         *)

LEMMA InitEstablishes == Init => MembersInv
<1> SUFFICES ASSUME Init PROVE MembersInv
  OBVIOUS
<1>1. PICK g \in Guests :
         invite = [i \in Invites |-> [status |-> "ABSENT", guest |-> g, role |-> "VIEWER",
                                     late |-> FALSE]]
  BY DEF Init
<1>2. invite \in [Invites -> InviteRow] /\ \A i \in Invites : invite[i].status = "ABSENT"
  BY <1>1 DEF InviteRow, InviteStatuses, Roles
<1>3. /\ member = [h \in Guests |-> "none"]
      /\ req = [r \in Requests |-> Idle]
      /\ admitted = {}
  BY DEF Init
<1>4. TypeOK
  BY <1>2, <1>3, IdleTyped DEF TypeOK
<1>5. AdmittedExist /\ MembersWereInvited /\ AcceptedWasAdmitted /\ EnteredHadRank
  BY <1>2, <1>3
  DEF AdmittedExist, MembersWereInvited, AcceptedWasAdmitted, EnteredHadRank, IsMember, Idle
<1>6. QED
  BY <1>4, <1>5 DEF MembersInv

\* The three answers that are written without being an acceptance.
LEMMA AnswerCommitStep ==
    ASSUME MembersInv, NEW r \in Requests,
           RevokeCommit(r) \/ RejectCommit(r) \/ AcceptExpire(r)
    PROVE  MembersInv'
<1>1. req[r] \in Answering
  BY RequestKinds DEF MembersInv, TypeOK, RevokeCommit, RejectCommit, AcceptExpire
<1>2. req[r].invite \in Invites
  BY <1>1 DEF Answering
<1>3. Finish(r) /\ UNCHANGED <<member, admitted>>
  BY DEF RevokeCommit, RejectCommit, AcceptExpire
<1>4. PICK s \in InviteStatuses \ {"ABSENT", "ACCEPTED"} : SetStatus(req[r].invite, s)
  BY DEF RevokeCommit, RejectCommit, AcceptExpire, InviteStatuses
<1>5. QED
  BY <1>2, <1>3, <1>4, AnswerStep

LEMMA StepPreserves == MembersInv /\ [Next]_vars => MembersInv'
<1> SUFFICES ASSUME MembersInv, [Next]_vars PROVE MembersInv'
  OBVIOUS
<1>1. ASSUME NEW r \in Requests, OwnerStep(r)
      PROVE  MembersInv'
  BY <1>1, ReadStep, CreateStep, AnswerCommitStep, RemoveStep
  DEF OwnerStep, CreateInvite, RevokeInvite, RemoveMember
<1>2. ASSUME NEW r \in Requests, GuestStep(r)
      PROVE  MembersInv'
  BY <1>2, ReadStep, AnswerCommitStep, AcceptStep, EntryStep
  DEF GuestStep, AcceptInvite, RejectInvite, Enter, Needs
<1>3. ASSUME NEW r \in Requests, Return(r)
      PROVE  MembersInv'
  BY <1>3, ReadStep
<1>4. ASSUME NEW i \in Invites, Expire(i)
      PROVE  MembersInv'
  BY <1>4, ExpireStep
<1>5. CASE UNCHANGED vars
  BY <1>5 DEF vars, MembersInv, TypeOK, AdmittedExist, MembersWereInvited,
              AcceptedWasAdmitted, EnteredHadRank, IsMember
<1>6. QED
  BY <1>1, <1>2, <1>3, <1>4, <1>5 DEF Next

THEOREM MembersInvariant == Spec => []MembersInv
BY InitEstablishes, StepPreserves, PTL DEF Spec

\* Rows of the invites and memberships and the requests in flight keep their types.
THEOREM MembersTypeCorrect == Spec => []TypeOK
<1>1. MembersInv => TypeOK
  BY DEF MembersInv
<1>2. QED
  BY <1>1, MembersInvariant, PTL

\* Every member holds the role of an invite that was accepted, through any number of
\* removals, renewed invites and concurrent answers.
THEOREM MembershipsRestOnInvites == Spec => []MembersWereInvited
<1>1. MembersInv => MembersWereInvited
  BY DEF MembersInv
<1>2. QED
  BY <1>1, MembersInvariant, PTL

\* An invite whose status is ACCEPTED created a membership: the status never commits
\* without the insertion.
THEOREM AcceptedInvitesAdmitted == Spec => []AcceptedWasAdmitted
<1>1. MembersInv => AcceptedWasAdmitted
  BY DEF MembersInv
<1>2. QED
  BY <1>1, MembersInvariant, PTL

\* Who is past both middlewares was at some time given the rank the route needs.
THEOREM EntriesHadRank == Spec => []EnteredHadRank
<1>1. MembersInv => EnteredHadRank
  BY DEF MembersInv
<1>2. QED
  BY <1>1, MembersInvariant, PTL

-----------------------------------------------------------------------------
(* Closed invites.                                                         *)

\* A step of request r that does not leave it accepting adds to no Accepting set.
LEMMA NoNewAcceptance ==
    ASSUME TypeOK, NEW r \in Requests, NEW q \in RequestState, Become(r, q),
           q.op # "accept", NEW i \in Invites
    PROVE  Accepting(i)' \subseteq Accepting(i)
<1>1. \A x \in Requests : req'[x] = IF x = r THEN q ELSE req[x]
  BY BecomeTyped
<1>2. QED
  BY <1>1 DEF Accepting

\* All steps of a request but AcceptRead.
LEMMA OtherStepsDoNotAccept ==
    ASSUME TypeOK, NEW r \in Requests, NEW i \in Invites,
           OwnerStep(r) \/ GuestStep(r) \/ Return(r),
           \A j \in Invites : ~AcceptRead(r, j)
    PROVE  Accepting(i)' \subseteq Accepting(i)
<1>1. ASSUME Become(r, Idle)
      PROVE  Accepting(i)' \subseteq Accepting(i)
  BY <1>1, IdleTyped, NoNewAcceptance DEF Idle
<1>2. ASSUME NEW g \in Guests, NEW role \in Roles, InviteGuard(r, g, role)
      PROVE  Accepting(i)' \subseteq Accepting(i)
  <2> DEFINE q == [op |-> "invite", step |-> "lookup", guest |-> g, role |-> role]
  <2>1. q \in RequestState
    BY NextRequests DEF RequestState
  <2>2. Become(r, q)
    BY <1>2 DEF InviteGuard
  <2>3. QED
    BY <2>1, <2>2, NoNewAcceptance
<1>3. ASSUME InviteLookup(r)
      PROVE  Accepting(i)' \subseteq Accepting(i)
  <2> DEFINE q == [req[r] EXCEPT !.step = "create"]
  <2>1. req[r] \in Inviting
    BY <1>3, RequestKinds DEF TypeOK, InviteLookup
  <2>2. q \in RequestState /\ q.op # "accept"
    BY <2>1, NextRequests DEF RequestState, Inviting
  <2>3. Become(r, Idle) \/ Become(r, q)
    BY <1>3 DEF InviteLookup, Finish
  <2>4. QED
    BY <1>1, <2>2, <2>3, NoNewAcceptance
<1>4. ASSUME NEW j \in Invites, RevokeRead(r, j) \/ RejectRead(r, j)
      PROVE  Accepting(i)' \subseteq Accepting(i)
  <2>1. PICK op \in {"revoke", "reject"} : Become(r, [op |-> op, invite |-> j])
    BY <1>4 DEF RevokeRead, RejectRead, AnswerRead
  <2> DEFINE q == [op |-> op, invite |-> j]
  <2>2. q \in RequestState /\ q.op # "accept"
    BY NextRequests DEF RequestState
  <2>3. QED
    BY <2>1, <2>2, NoNewAcceptance
<1>5. ASSUME NEW g \in Guests, RemoveRead(r, g)
      PROVE  Accepting(i)' \subseteq Accepting(i)
  <2> DEFINE q == [op |-> "remove", guest |-> g]
  <2>1. q \in RequestState
    BY NextRequests DEF RequestState
  <2>2. Become(r, q)
    BY <1>5 DEF RemoveRead
  <2>3. QED
    BY <2>1, <2>2, NoNewAcceptance
<1>6. ASSUME NEW g \in Guests, NEW needs \in WorkspaceChains, NEW header \in Headers,
             EnterWorkspace(r, g, needs, header)
      PROVE  Accepting(i)' \subseteq Accepting(i)
  <2> DEFINE q == [op |-> "enter", step |-> IF needs = "MEMBER" THEN "in" ELSE "rbac",
                   guest |-> g, as |-> member[g], needs |-> needs]
  <2>1. member[g] \in Roles
    BY <1>6 DEF EnterWorkspace, IsMember, TypeOK
  <2>2. q \in RequestState
    BY <2>1, NextRequests DEF RequestState
  <2>3. Become(r, q)
    BY <1>6 DEF EnterWorkspace
  <2>4. QED
    BY <2>2, <2>3, NoNewAcceptance
<1>7. ASSUME RbacCheck(r)
      PROVE  Accepting(i)' \subseteq Accepting(i)
  <2> DEFINE q == [req[r] EXCEPT !.step = "in"]
  <2>1. req[r] \in Entering
    BY <1>7, RequestKinds DEF TypeOK, RbacCheck
  <2>2. q \in RequestState /\ q.op # "accept"
    BY <2>1 DEF RequestState, Entering
  <2>3. Become(r, Idle) \/ Become(r, q)
    BY <1>7 DEF RbacCheck, Finish
  <2>4. QED
    BY <1>1, <2>2, <2>3, NoNewAcceptance
<1>8. ASSUME \/ \E j \in Invites : InviteCreate(r, j)
             \/ RevokeCommit(r) \/ RejectCommit(r) \/ AcceptExpire(r)
             \/ AcceptCommit(r) \/ RemoveCommit(r) \/ Return(r)
      PROVE  Become(r, Idle)
  BY <1>8 DEF InviteCreate, RevokeCommit, RejectCommit, AcceptExpire, AcceptCommit,
              RemoveCommit, Return, Finish
<1>9. QED
  BY <1>1, <1>2, <1>3, <1>4, <1>5, <1>6, <1>7, <1>8
  DEF OwnerStep, GuestStep, CreateInvite, RevokeInvite, RemoveMember, AcceptInvite,
      RejectInvite, Enter, Needs

\* An acceptance begins with a read that refuses closed invites.
LEMMA AcceptReadSparesClosed ==
    ASSUME TypeOK, NEW r \in Requests, NEW j \in Invites, AcceptRead(r, j),
           NEW i \in Invites, Closed(i)
    PROVE  Accepting(i)' \subseteq Accepting(i)
<1> DEFINE q == [op |-> IF invite[j].late THEN "expire" ELSE "accept", invite |-> j]
<1>1. q \in RequestState
  BY NextRequests DEF RequestState
<1>2. Become(r, q)
  BY DEF AcceptRead
<1>3. \A x \in Requests : req'[x] = IF x = r THEN q ELSE req[x]
  BY <1>1, <1>2, BecomeTyped
<1>4. q.op = "accept" => ~Closed(j)
  BY DEF AcceptRead, Refused, Closed
<1>5. QED
  BY <1>3, <1>4 DEF Accepting

\* After an invite is revoked, accepted or late, no request begins to accept it: the
\* acceptances that still commit have all read it before.
THEOREM ClosedInvitesStayClosed == Spec => ClosedInvitesAdmitNobody
<1>1. ASSUME TypeOK, [Next]_vars, NEW i \in Invites, Closed(i), Closed(i)'
      PROVE  Accepting(i)' \subseteq Accepting(i)
  <2>1. ASSUME NEW r \in Requests, OwnerStep(r) \/ GuestStep(r) \/ Return(r)
        PROVE  Accepting(i)' \subseteq Accepting(i)
    <3>1. CASE \E j \in Invites : AcceptRead(r, j)
      BY <1>1, <3>1, AcceptReadSparesClosed
    <3>2. CASE \A j \in Invites : ~AcceptRead(r, j)
      BY <1>1, <2>1, <3>2, OtherStepsDoNotAccept
    <3>3. QED
      BY <3>1, <3>2
  <2>2. ASSUME (\E j \in Invites : Expire(j)) \/ UNCHANGED vars
        PROVE  Accepting(i)' \subseteq Accepting(i)
    BY <2>2 DEF Expire, vars, Accepting
  <2>3. QED
    BY <1>1, <2>1, <2>2 DEF Next
<1>2. TypeOK /\ [Next]_vars
      => [\A i \in Invites : Closed(i) /\ Closed(i)' => Accepting(i)' \subseteq Accepting(i)]_vars
  BY <1>1
<1>3. QED
  BY <1>2, MembersTypeCorrect, PTL DEF Spec, ClosedInvitesAdmitNobody
===============================================================================
