-------------------------------- MODULE Telegram ------------------------------
(***************************************************************************)
(* Telegram chats linked to users: the pairing codes of                    *)
(* TelegramLinkTokenService, the links and destinations of                 *)
(* TelegramLinkService, and what TelegramContextResolver and the bot do    *)
(* with the commands, documents and pressed buttons of a chat.             *)
(*                                                                         *)
(* Every awaited query is a step.  Linking a chat runs in a database       *)
(* transaction of the default isolation, READ COMMITTED, so the query in   *)
(* it that looks for older links and the writes after it are two steps.    *)
(* Membership is only read here; it comes and goes as in Members.          *)
(***************************************************************************)
EXTENDS Integers, Sequences, FiniteSets

CONSTANTS
    Requests,      \* slots for bot updates and requests in flight
    Users, Chats, Workspaces,
    None,          \* no workspace: a code may leave the destination open
    Codes,         \* the pairing codes that may be issued
    MaxLinks,      \* bound: links ever created
    MaxDests,      \* bound: destinations ever created
    MaxReceipts    \* bound: documents ever filed

ASSUME NoneAssumption  == None \notin Workspaces
ASSUME BoundAssumption == {MaxLinks, MaxDests, MaxReceipts} \subseteq Nat

VARIABLES
    member,     \* the pairs of user and workspace with a WorkspaceMember row
    code,       \* TelegramLinkToken rows
    link,       \* TelegramUserLink rows, in order of createdAt
    dest,       \* TelegramDestination rows, in order of createdAt
    receipt,    \* BankMovement rows filed from a chat
    req         \* the requests in flight

tables == <<member, code, link, dest, receipt>>
vars   == <<tables, req>>

-----------------------------------------------------------------------------
(* The data.                                                               *)

Links == 1..MaxLinks
Dests == 1..MaxDests

CodeRow == [status : {"absent", "unused", "used"}, late : BOOLEAN, user : Users,
            workspace : Workspaces \cup {None}]

\* active is activeDestinationId, 0 when null; code is kept to state properties.
LinkRow == [chat : Chats, user : Users, status : {"ACTIVE", "REVOKED"},
            active : 0..MaxDests, code : Codes]

\* A destination's userId is always its link's.
DestRow == [link : Links, workspace : Workspaces, status : {"ACTIVE", "REVOKED"}]

\* Filed in a chat, with a message there that has the buttons to decide it.
Receipt == [chat : Chats, link : Links, workspace : Workspaces,
            status : {"PENDING", "DECIDED"}]

Pairing   == [op : {"pair"}, user : Users, workspace : Workspaces \cup {None}]
Consuming == [op : {"consume"}, step : {"burn", "check", "find"}, code : Codes, chat : Chats]
Linking   == [op : {"link"}, code : Codes, chat : Chats, found : SUBSET Links]
Revoking  == [op : {"revoke"}, link : Links]
Adding    == [op : {"add"}, step : {"member", "create"}, link : Links, active : 0..MaxDests,
              workspace : Workspaces]
Choosing  == [op : {"choose"}, link : Links]
Using     == [op : {"use"}, link : Links, dest : Dests]
Inquiring == [op : {"inquire"}, link : Links]

\* about: the receipt whose button was pressed, 0 for a new document.
Resolving == [op : {"resolve"}, chat : Chats, link : Links, active : 0..MaxDests,
              about : 0..MaxReceipts]
Filing    == [op : {"file"}, step : {"member", "act"}, chat : Chats, link : Links,
              dest : Dests, about : 0..MaxReceipts]

Idle == [op |-> "none"]

RequestState ==
    {Idle} \cup Pairing \cup Consuming \cup Linking \cup Revoking \cup Adding
           \cup Choosing \cup Using \cup Inquiring \cup Resolving \cup Filing

TypeOK ==
    /\ member \subseteq Users \X Workspaces
    /\ code \in [Codes -> CodeRow]
    /\ link \in Seq(LinkRow) /\ Len(link) <= MaxLinks
    /\ dest \in Seq(DestRow) /\ Len(dest) <= MaxDests
    /\ receipt \in Seq(Receipt) /\ Len(receipt) <= MaxReceipts
    /\ req \in [Requests -> RequestState]

Init ==
    /\ member = {}
    /\ \E u \in Users :
          code = [c \in Codes |-> [status |-> "absent", late |-> FALSE, user |-> u,
                                   workspace |-> None]]
    /\ link = << >> /\ dest = << >> /\ receipt = << >>
    /\ req = [r \in Requests |-> Idle]

-----------------------------------------------------------------------------
(* Helpers                                                                 *)

Become(r, q) == req' = [req EXCEPT ![r] = q]
Finish(r) == Become(r, Idle)
Reads(r) == UNCHANGED tables

ActiveLinks == {l \in DOMAIN link : link[l].status = "ACTIVE"}
ActiveOf(chat) == {l \in ActiveLinks : link[l].chat = chat}

\* findFirst with orderBy createdAt desc: one link, or none of none.
Newest(S) == {l \in S : \A k \in S : k <= l}

DestsOfUser(l) ==                                                 \* mutant
    {d \in DOMAIN dest : link[dest[d].link].user = link[l].user /\ dest[d].status = "ACTIVE"}
DestsOf(l) == {d \in DOMAIN dest : dest[d].link = l /\ dest[d].status = "ACTIVE"}

-----------------------------------------------------------------------------
(* Pairing codes                                                           *)

PairGuard(r, u, w) ==
    /\ req[r] = Idle
    /\ w # None => <<u, w>> \in member
    /\ Become(r, [op |-> "pair", user |-> u, workspace |-> w])
    /\ Reads(r)

PairCreate(r, c) ==
    /\ req[r].op = "pair"
    /\ code[c].status = "absent"
    /\ code' = [code EXCEPT ![c] = [status |-> "unused", late |-> FALSE,
                                    user |-> req[r].user, workspace |-> req[r].workspace]]
    /\ Finish(r)
    /\ UNCHANGED <<member, link, dest, receipt>>

\* verifyAndConsumeToken: attempts only ever counts the one success.
ConsumeRead(r, c, chat) ==
    /\ req[r] = Idle
    /\ code[c].status = "unused" /\ ~code[c].late
    /\ Become(r, [op |-> "consume", step |-> "burn", code |-> c, chat |-> chat])
    /\ Reads(r)

\* updateMany with usedAt = null.
ById(c) == TRUE                                                   \* mutant
Unused(c) == code[c].status = "unused"

ConsumeBurn(r) ==
    /\ req[r].op = "consume" /\ req[r].step = "burn"
    /\ LET c == req[r].code
       IN  IF Unused(c)
           THEN /\ code' = [code EXCEPT ![c].status = "used"]
                /\ Become(r, [req[r] EXCEPT !.step = "check"])
           ELSE /\ Finish(r)
                /\ UNCHANGED code
    /\ UNCHANGED <<member, link, dest, receipt>>

\* The code stays used if its workspace turns out to be out of reach.
ConsumeCheck(r) ==
    /\ req[r].op = "consume" /\ req[r].step = "check"
    /\ LET row == code[req[r].code]
       IN  IF row.workspace = None \/ <<row.user, row.workspace>> \in member
           THEN Become(r, [req[r] EXCEPT !.step = "find"])
           ELSE Finish(r)
    /\ Reads(r)

ConsumeFind(r) ==
    /\ req[r].op = "consume" /\ req[r].step = "find"
    /\ Become(r, [op |-> "link", code |-> req[r].code, chat |-> req[r].chat,
                  found |-> ActiveOf(req[r].chat)])
    /\ Reads(r)

Revoked(row) == [row EXCEPT !.status = "REVOKED"]

\* The links found are revoked, their destinations are not; the new link gets a
\* destination when the code names a workspace.
ConsumeLink(r) ==
    /\ req[r].op = "link"
    /\ Len(link) < MaxLinks
    /\ LET row == code[req[r].code]
           l == Len(link) + 1
           d == Len(dest) + 1
           named == row.workspace # None
       IN  /\ named => d <= MaxDests
           /\ link' = Append([k \in DOMAIN link |-> IF k \in req[r].found THEN Revoked(link[k])
                                                    ELSE link[k]],
                             [chat |-> req[r].chat, user |-> row.user, status |-> "ACTIVE",
                              active |-> IF named THEN d ELSE 0, code |-> req[r].code])
           /\ dest' = IF named
                      THEN Append(dest, [link |-> l, workspace |-> row.workspace,
                                         status |-> "ACTIVE"])
                      ELSE dest
    /\ Finish(r)
    /\ UNCHANGED <<member, code, receipt>>

-----------------------------------------------------------------------------
(* revokeLink                                                              *)

RevokeRead(r, l) ==
    /\ req[r] = Idle
    /\ l \in ActiveLinks
    /\ Become(r, [op |-> "revoke", link |-> l])
    /\ Reads(r)

RevokeCommit(r) ==
    /\ req[r].op = "revoke"
    /\ LET l == req[r].link
       IN  /\ link' = [link EXCEPT ![l] = Revoked(@)]
           /\ dest' = [d \in DOMAIN dest |-> IF dest[d].link = l THEN Revoked(dest[d])
                                             ELSE dest[d]]
    /\ Finish(r)
    /\ UNCHANGED <<member, code, receipt>>

-----------------------------------------------------------------------------
(* createDestination: the link is read before, and outside, the transaction. *)

\* findFirst without an order: any active link of the user.
AddRead(r, l, w) ==
    /\ req[r] = Idle
    /\ l \in ActiveLinks
    /\ Become(r, [op |-> "add", step |-> "member", link |-> l, active |-> link[l].active,
                  workspace |-> w])
    /\ Reads(r)

AddGuard(r) ==
    /\ req[r].op = "add" /\ req[r].step = "member"
    /\ IF <<link[req[r].link].user, req[r].workspace>> \in member
       THEN Become(r, [req[r] EXCEPT !.step = "create"])
       ELSE Finish(r)
    /\ Reads(r)

AddCreate(r, isDefault) ==
    /\ req[r].op = "add" /\ req[r].step = "create"
    /\ Len(dest) < MaxDests
    /\ LET q == req[r]
       IN  /\ dest' = Append(dest, [link |-> q.link, workspace |-> q.workspace,
                                    status |-> "ACTIVE"])
           /\ link' = IF isDefault \/ q.active = 0
                      THEN [link EXCEPT ![q.link].active = Len(dest) + 1]
                      ELSE link
    /\ Finish(r)
    /\ UNCHANGED <<member, code, receipt>>

-----------------------------------------------------------------------------
(* /usar_pessoal and /usar_empresa: the newest link's destination by label. *)

ChooseRead(r, chat) ==
    /\ req[r] = Idle
    /\ \E l \in Newest(ActiveOf(chat)) : Become(r, [op |-> "choose", link |-> l])
    /\ Reads(r)

ChooseMatch(r, d) ==
    /\ req[r].op = "choose"
    /\ d \in DestsOf(req[r].link)
    /\ Become(r, [op |-> "use", link |-> req[r].link, dest |-> d])
    /\ Reads(r)

ChooseCommit(r) ==
    /\ req[r].op = "use"
    /\ link' = [link EXCEPT ![req[r].link].active = req[r].dest]
    /\ Finish(r)
    /\ UNCHANGED <<member, code, dest, receipt>>

-----------------------------------------------------------------------------
(* /status, /destinos, /cancelar: the newest link, then its destinations.  *)

Inquire(r, chat) ==
    /\ req[r] = Idle
    /\ \E l \in Newest(ActiveOf(chat)) : Become(r, [op |-> "inquire", link |-> l])
    /\ Reads(r)

TellDestinations(r) == req[r].op = "inquire" /\ Finish(r) /\ Reads(r)

\* GET /telegram/status: the same two reads for the user, whose newest link it is.
GetStatus(r, u) ==
    LET own == {l \in ActiveLinks : link[l].user = u}
    IN  /\ req[r] = Idle
        /\ \E l \in Newest(own) : Become(r, [op |-> "inquire", link |-> l])
        /\ Reads(r)

-----------------------------------------------------------------------------
(* A document or a pressed button in a chat: resolve the destination, then *)
(* file the receipt or decide it.                                          *)

Resolve(r, chat, about) ==
    /\ req[r] = Idle
    /\ \E l \in Newest(ActiveOf(chat)) :
          Become(r, [op |-> "resolve", chat |-> chat, link |-> l, active |-> link[l].active,
                     about |-> about])
    /\ Reads(r)

Document(r, chat) == Resolve(r, chat, 0)
Press(r, i)       == i \in DOMAIN receipt /\ Resolve(r, receipt[i].chat, i)

\* The default among the active destinations, or the only one.
TargetsOf(q) ==
    LET found == DestsOf(q.link)
    IN  IF q.active \in found THEN {q.active}
        ELSE IF Cardinality(found) = 1 THEN found ELSE {}

ResolveDests(r) ==
    /\ req[r].op = "resolve"
    /\ LET q == req[r]
       IN  \E d \in TargetsOf(q) :
              Become(r, [op |-> "file", step |-> "member", chat |-> q.chat,
                         link |-> q.link, dest |-> d, about |-> q.about])
    /\ Reads(r)

\* Without a destination nothing is filed.  (The buttons for a choice are never offered: a link
\* with destinations always has a default among them.)
NoDestination(r) ==
    /\ req[r].op = "resolve" /\ TargetsOf(req[r]) = {}
    /\ Finish(r)
    /\ Reads(r)

Everybody(u, w) == TRUE                                           \* mutant
Belongs(u, w) == <<u, w>> \in member

\* A button is signed for its chat, movement and workspace, and for the action "c".
Signed(q) == q.about = 0 \/ /\ receipt[q.about].chat = q.chat
                            /\ receipt[q.about].workspace = dest[q.dest].workspace

ResolveMember(r) ==
    /\ req[r].op = "file" /\ req[r].step = "member"
    /\ IF Belongs(link[req[r].link].user, dest[req[r].dest].workspace) /\ Signed(req[r])
       THEN Become(r, [req[r] EXCEPT !.step = "act"])
       ELSE Finish(r)
    /\ Reads(r)

Acts(r) == req[r].op = "file" /\ req[r].step = "act"

FileReceipt(r) ==
    /\ Acts(r) /\ req[r].about = 0
    /\ Len(receipt) < MaxReceipts
    /\ receipt' = Append(receipt, [chat |-> req[r].chat, link |-> req[r].link,
                                   workspace |-> dest[req[r].dest].workspace,
                                   status |-> "PENDING"])
    /\ Finish(r)
    /\ UNCHANGED <<member, code, link, dest>>

\* "Confirmar" books the receipt (see Ledger); a decided one is refused (Abort).  "Ignorar" carries the
\* signature made for "c" and is refused always.
Confirm(r) ==
    /\ Acts(r) /\ req[r].about # 0
    /\ receipt[req[r].about].status = "PENDING"
    /\ receipt' = [receipt EXCEPT ![req[r].about].status = "DECIDED"]
    /\ Finish(r)
    /\ UNCHANGED <<member, code, link, dest>>

-----------------------------------------------------------------------------
(* The environment.                                                        *)

\* The process restarts or a query fails between two awaits.
Abort(r) ==
    /\ req[r] # Idle
    /\ Finish(r)
    /\ Reads(r)

JoinOrLeave(u, w) ==
    /\ member' = IF <<u, w>> \in member THEN member \ {<<u, w>>} ELSE member \cup {<<u, w>>}
    /\ UNCHANGED <<code, link, dest, receipt, req>>

\* The receipt is approved, rejected or merged in the application.
DecideElsewhere(i) ==
    /\ i \in DOMAIN receipt /\ receipt[i].status = "PENDING"
    /\ receipt' = [receipt EXCEPT ![i].status = "DECIDED"]
    /\ UNCHANGED <<member, code, link, dest, req>>

Expire(c) ==
    /\ code[c].status = "unused" /\ ~code[c].late
    /\ code' = [code EXCEPT ![c].late = TRUE]
    /\ UNCHANGED <<member, link, dest, receipt, req>>

\* The routes of TelegramIntegrationController.
UserStep(r) ==
    \/ \E u \in Users, w \in Workspaces \cup {None} : PairGuard(r, u, w)
    \/ \E c \in Codes : PairCreate(r, c)
    \/ \E l \in Links : RevokeRead(r, l)
    \/ RevokeCommit(r)
    \/ \E u \in Users : GetStatus(r, u)
    \/ \E l \in Links, w \in Workspaces : AddRead(r, l, w)
    \/ AddGuard(r)
    \/ \E isDefault \in BOOLEAN : AddCreate(r, isDefault)

\* What a text message begins: a code, sent with /start, with /vincular or alone, the
\* questions, and the choice of a default.
Command(r, chat) ==
    \/ \E c \in Codes : ConsumeRead(r, c, chat)
    \/ Inquire(r, chat)
    \/ ChooseRead(r, chat)

BotStep(r) ==
    \/ \E chat \in Chats : Command(r, chat) \/ Document(r, chat)
    \/ \E i \in 1..MaxReceipts : Press(r, i)
    \/ ConsumeBurn(r)
    \/ ConsumeCheck(r)
    \/ ConsumeFind(r)
    \/ ConsumeLink(r)
    \/ TellDestinations(r)
    \/ \E d \in Dests : ChooseMatch(r, d)
    \/ ChooseCommit(r)
    \/ ResolveDests(r)
    \/ NoDestination(r)
    \/ ResolveMember(r)
    \/ FileReceipt(r)
    \/ Confirm(r)

Next ==
    \/ \E r \in Requests : UserStep(r) \/ BotStep(r) \/ Abort(r)
    \/ \E u \in Users, w \in Workspaces : JoinOrLeave(u, w)
    \/ \E c \in Codes : Expire(c)
    \/ \E i \in 1..MaxReceipts : DecideElsewhere(i)

Spec == Init /\ [][Next]_vars

-----------------------------------------------------------------------------
(* Properties.                                                             *)

\* A pairing code links one chat once, however often and from however many chats it
\* is sent at the same time.
CodeLinksOnce == \A l, k \in DOMAIN link : link[l].code = link[k].code => l = k

\* A document is filed under a link of the chat it was sent to, and only into a workspace
\* that link's user made a destination of that very link.
ReceiptsStayInTheLink ==
    \A i \in DOMAIN receipt :
        /\ link[receipt[i].link].chat = receipt[i].chat
        /\ \E d \in DOMAIN dest : /\ dest[d].link = receipt[i].link
                                 /\ dest[d].workspace = receipt[i].workspace

\* A document about to be filed, or a receipt about to be booked, for somebody who is not a
\* member of the workspace.
Intruding(r) ==
    /\ Acts(r)
    /\ ~(<<link[req[r].link].user, dest[req[r].dest].workspace>> \in member)

\* While the members stay the same no document or button of a non-member gets through, though links
\* and destinations outlive a membership: only those let through before remain.
NonMembersFileNothing ==
    [][member' = member => \A r \in Requests : Intruding(r)' => Intruding(r)]_vars
===============================================================================
