---------------------------- MODULE IngestionProofs ---------------------------
(***************************************************************************)
(* How documents and bank lines arrive: proofs about Telegram, for any     *)
(* number of requests, users, chats, codes and workspaces, and about       *)
(* Ingestion, for any imports, statements, documents and size of chunk,    *)
(* with all bounds.                                                        *)
(***************************************************************************)
EXTENDS Telegram, Ingestion, Sums, SequenceTheorems, TLAPS

\* What a request has found stays found: its link is a row, of its chat, and its
\* destination is one of that link's.
Bound(q) ==
    /\ q.op \in {"revoke", "add", "choose", "use", "resolve", "file"} => q.link \in DOMAIN link
    /\ q.op \in {"resolve", "file"} => link[q.link].chat = q.chat
    /\ q.op \in {"use", "file"} => q.dest \in DOMAIN dest
    /\ q.op = "file" => dest[q.dest].link = q.link

Bounds == \A r \in Requests : Bound(req[r])

\* The request has burned its code and may still link a chat with it.
Burned(q) == (q.op = "consume" /\ q.step \in {"check", "find"}) \/ q.op = "link"

Used(c) == code[c].status = "used"

\* A used code is in one link or in the hands of one request, never in two.
CodesOnce ==
    /\ CodeLinksOnce
    /\ \A l \in DOMAIN link : Used(link[l].code)
    /\ \A r \in Requests : Burned(req[r]) =>
          Used(req[r].code) /\ \A l \in DOMAIN link : link[l].code # req[r].code
    /\ \A r, s \in Requests :
          Burned(req[r]) /\ Burned(req[s]) /\ req[r].code = req[s].code => r = s

ReceiptsKnown ==
    /\ ReceiptsStayInTheLink
    /\ \A i \in DOMAIN receipt : receipt[i].link \in DOMAIN link

TelegramInv ==
    /\ TypeOK
    /\ Bounds
    /\ CodesOnce
    /\ ReceiptsKnown

\* Rows of links and destinations stay, and with them whose they are.
Grows ==
    /\ \A l \in DOMAIN link :
          /\ l \in DOMAIN link'
          /\ link'[l].chat = link[l].chat /\ link'[l].user = link[l].user
    /\ \A d \in DOMAIN dest :
          /\ d \in DOMAIN dest'
          /\ dest'[d].link = dest[d].link /\ dest'[d].workspace = dest[d].workspace

-----------------------------------------------------------------------------
(* What a step has to keep.                                                *)

LEMMA BoundsStay ==
    ASSUME Bounds, Grows, \A r \in Requests : req'[r] = req[r] \/ Bound(req[r])'
    PROVE  Bounds'
BY DEF Bounds, Bound, Grows

LEMMA ReceiptsStay ==
    ASSUME ReceiptsKnown, Grows, DOMAIN receipt' = DOMAIN receipt,
           \A i \in DOMAIN receipt : /\ receipt'[i].chat = receipt[i].chat
                                     /\ receipt'[i].link = receipt[i].link
                                     /\ receipt'[i].workspace = receipt[i].workspace
    PROVE  ReceiptsKnown'
BY DEF ReceiptsKnown, ReceiptsStayInTheLink, Grows

LEMMA CodesStay ==
    ASSUME CodesOnce, DOMAIN link' = DOMAIN link,
           \A l \in DOMAIN link : link'[l].code = link[l].code,
           \A c : Used(c) => Used(c)',
           \A r \in Requests : Burned(req[r])' => Burned(req[r]) /\ req'[r].code = req[r].code
    PROVE  CodesOnce'
<1>1. CodeLinksOnce'
  BY DEF CodesOnce, CodeLinksOnce
<1>2. \A l \in DOMAIN link' : Used(link[l].code)'
  BY DEF CodesOnce, Used
<1>3. \A r \in Requests : Burned(req[r])' =>
         Used(req[r].code)' /\ \A l \in DOMAIN link' : link'[l].code # req'[r].code
  BY DEF CodesOnce, Used
<1>4. QED
  BY <1>1, <1>2, <1>3 DEF CodesOnce

-----------------------------------------------------------------------------
(* The data.                                                               *)

LEMMA RowsTyped ==
    ASSUME TypeOK
    PROVE  /\ Len(link) \in Nat /\ DOMAIN link = 1..Len(link) /\ DOMAIN link \subseteq Links
           /\ \A l \in DOMAIN link : link[l] \in LinkRow
           /\ Len(dest) \in Nat /\ DOMAIN dest = 1..Len(dest) /\ DOMAIN dest \subseteq Dests
           /\ \A d \in DOMAIN dest : dest[d] \in DestRow
           /\ Len(receipt) \in Nat /\ DOMAIN receipt = 1..Len(receipt)
           /\ \A i \in DOMAIN receipt : receipt[i] \in Receipt
           /\ MaxLinks \in Nat /\ MaxDests \in Nat /\ MaxReceipts \in Nat
<1>1. MaxLinks \in Nat /\ MaxDests \in Nat /\ MaxReceipts \in Nat
  BY BoundAssumption
<1>2. link \in Seq(LinkRow) /\ dest \in Seq(DestRow) /\ receipt \in Seq(Receipt)
  BY DEF TypeOK
<1>3. Len(link) <= MaxLinks /\ Len(dest) <= MaxDests
  BY DEF TypeOK
<1>4. QED
  BY <1>1, <1>2, <1>3 DEF Links, Dests

LEMMA RequestTyped ==
    ASSUME TypeOK, NEW r \in Requests
    PROVE  req[r] \in RequestState
BY DEF TypeOK

LEMMA Kinds ==
    ASSUME NEW q \in RequestState
    PROVE  /\ q.op = "pair" => q \in Pairing
           /\ q.op = "consume" => q \in Consuming
           /\ q.op = "link" => q \in Linking
           /\ q.op = "revoke" => q \in Revoking
           /\ q.op = "add" => q \in Adding
           /\ q.op = "choose" => q \in Choosing
           /\ q.op = "use" => q \in Using
           /\ q.op = "resolve" => q \in Resolving
           /\ q.op = "file" => q \in Filing
BY DEF RequestState, Idle, Pairing, Consuming, Linking, Revoking, Adding, Choosing, Using,
       Inquiring, Resolving, Filing

LEMMA IdleTyped == Idle \in RequestState /\ Bound(Idle) /\ ~ Burned(Idle) /\ Idle.op = "none"
BY DEF RequestState, Idle, Bound, Burned

LEMMA BecomeTyped ==
    ASSUME TypeOK, NEW r \in Requests, NEW q \in RequestState, Become(r, q)
    PROVE  /\ req' \in [Requests -> RequestState]
           /\ req'[r] = q
           /\ \A s \in Requests \ {r} : req'[s] = req[s]
BY DEF TypeOK, Become

-----------------------------------------------------------------------------
(* Steps that only read the tables.                                        *)

LEMMA ReadingKeeps ==
    ASSUME TelegramInv, NEW r \in Requests, NEW q \in RequestState, Become(r, q), Reads(r),
           Bound(q), Burned(q) => Burned(req[r]) /\ q.code = req[r].code
    PROVE  TelegramInv' /\ Grows
<1> USE DEF TelegramInv
<1>1. UNCHANGED <<member, code, link, dest, receipt>>
  BY DEF Reads, tables
<1>2. /\ req' \in [Requests -> RequestState] /\ req'[r] = q
      /\ \A s \in Requests \ {r} : req'[s] = req[s]
  BY BecomeTyped
<1>3. TypeOK'
  BY <1>1, <1>2 DEF TypeOK
<1>4. Grows
  BY <1>1 DEF Grows
<1>5. Bounds'
  <2>1. \A s \in Requests : req'[s] = req[s] \/ Bound(req[s])'
    BY <1>1, <1>2 DEF Bound
  <2>2. QED
    BY <1>4, <2>1, BoundsStay
<1>6. CodesOnce'
  BY <1>1, <1>2, CodesStay DEF Used, Burned
<1>7. ReceiptsKnown'
  BY <1>1, <1>4, ReceiptsStay
<1>8. QED
  BY <1>3, <1>4, <1>5, <1>6, <1>7

LEMMA GivingUpKeeps ==
    ASSUME TelegramInv, NEW r \in Requests, Finish(r), Reads(r)
    PROVE  TelegramInv' /\ Grows
BY IdleTyped, ReadingKeeps DEF Finish

LEMMA ActiveLinksKnown ==
    ASSUME TypeOK, NEW l \in ActiveLinks
    PROVE  l \in DOMAIN link /\ l \in Links
BY RowsTyped DEF ActiveLinks

LEMMA NewestKnown ==
    ASSUME TypeOK, NEW chat, NEW l \in Newest(ActiveOf(chat))
    PROVE  l \in DOMAIN link /\ l \in Links /\ link[l].chat = chat
BY ActiveLinksKnown DEF Newest, ActiveOf

LEMMA PairGuardKeeps ==
    ASSUME TelegramInv, NEW r \in Requests, NEW u \in Users, NEW w \in Workspaces \cup {None},
           PairGuard(r, u, w)
    PROVE  TelegramInv' /\ Grows
<1> DEFINE q == [op |-> "pair", user |-> u, workspace |-> w]
<1>1. q \in RequestState /\ Bound(q) /\ ~ Burned(q)
  BY DEF RequestState, Pairing, Bound, Burned
<1>2. Become(r, q) /\ Reads(r)
  BY DEF PairGuard
<1> HIDE DEF q
<1>3. QED
  BY <1>1, <1>2, ReadingKeeps

LEMMA ConsumeReadKeeps ==
    ASSUME TelegramInv, NEW r \in Requests, NEW c \in Codes, NEW chat \in Chats,
           ConsumeRead(r, c, chat)
    PROVE  TelegramInv' /\ Grows
<1> DEFINE q == [op |-> "consume", step |-> "burn", code |-> c, chat |-> chat]
<1>1. q \in RequestState /\ Bound(q) /\ ~ Burned(q)
  BY DEF RequestState, Consuming, Bound, Burned
<1>2. Become(r, q) /\ Reads(r)
  BY DEF ConsumeRead
<1> HIDE DEF q
<1>3. QED
  BY <1>1, <1>2, ReadingKeeps

LEMMA ConsumeCheckKeeps ==
    ASSUME TelegramInv, NEW r \in Requests, ConsumeCheck(r)
    PROVE  TelegramInv' /\ Grows
<1> DEFINE q == [req[r] EXCEPT !.step = "find"]
<1>1. req[r] \in Consuming /\ req[r].step = "check" /\ req[r].op = "consume"
  BY RequestTyped, Kinds DEF TelegramInv, ConsumeCheck
<1>2. /\ q \in RequestState /\ Bound(q) /\ q.code = req[r].code
      /\ Burned(req[r])
  BY <1>1 DEF RequestState, Consuming, Bound, Burned
<1>3. (Become(r, q) \/ Finish(r)) /\ Reads(r)
  BY DEF ConsumeCheck
<1> HIDE DEF q
<1>4. QED
  BY <1>2, <1>3, ReadingKeeps, GivingUpKeeps

LEMMA ConsumeFindKeeps ==
    ASSUME TelegramInv, NEW r \in Requests, ConsumeFind(r)
    PROVE  TelegramInv' /\ Grows
<1> DEFINE q == [op |-> "link", code |-> req[r].code, chat |-> req[r].chat,
                 found |-> ActiveOf(req[r].chat)]
<1>1. req[r] \in Consuming /\ req[r].step = "find" /\ req[r].op = "consume"
  BY RequestTyped, Kinds DEF TelegramInv, ConsumeFind
<1>2. ActiveOf(req[r].chat) \subseteq Links
  BY ActiveLinksKnown DEF ActiveOf, TelegramInv
<1>3. /\ q \in RequestState /\ Bound(q) /\ q.code = req[r].code
      /\ Burned(req[r])
  BY <1>1, <1>2 DEF RequestState, Consuming, Linking, Bound, Burned
<1>4. Become(r, q) /\ Reads(r)
  BY DEF ConsumeFind
<1> HIDE DEF q
<1>5. QED
  BY <1>3, <1>4, ReadingKeeps

LEMMA RevokeReadKeeps ==
    ASSUME TelegramInv, NEW r \in Requests, NEW l \in Links, RevokeRead(r, l)
    PROVE  TelegramInv' /\ Grows
<1> DEFINE q == [op |-> "revoke", link |-> l]
<1>1. l \in DOMAIN link
  BY ActiveLinksKnown DEF RevokeRead, TelegramInv
<1>2. q \in RequestState /\ Bound(q) /\ ~ Burned(q)
  BY <1>1 DEF RequestState, Revoking, Bound, Burned
<1>3. Become(r, q) /\ Reads(r)
  BY DEF RevokeRead
<1> HIDE DEF q
<1>4. QED
  BY <1>2, <1>3, ReadingKeeps

LEMMA AddReadKeeps ==
    ASSUME TelegramInv, NEW r \in Requests, NEW l \in Links, NEW w \in Workspaces,
           AddRead(r, l, w)
    PROVE  TelegramInv' /\ Grows
<1> DEFINE q == [op |-> "add", step |-> "member", link |-> l, active |-> link[l].active,
                 workspace |-> w]
<1>1. l \in DOMAIN link /\ link[l].active \in 0..MaxDests
  BY ActiveLinksKnown, RowsTyped DEF AddRead, TelegramInv, LinkRow
<1>2. q \in RequestState /\ Bound(q) /\ ~ Burned(q)
  BY <1>1 DEF RequestState, Adding, Bound, Burned
<1>3. Become(r, q) /\ Reads(r)
  BY DEF AddRead
<1> HIDE DEF q
<1>4. QED
  BY <1>2, <1>3, ReadingKeeps

LEMMA AddGuardKeeps ==
    ASSUME TelegramInv, NEW r \in Requests, AddGuard(r)
    PROVE  TelegramInv' /\ Grows
<1> DEFINE q == [req[r] EXCEPT !.step = "create"]
<1>1. req[r] \in Adding /\ Bound(req[r])
  BY RequestTyped, Kinds DEF TelegramInv, AddGuard, Bounds
<1>2. q \in RequestState /\ Bound(q) /\ ~ Burned(q)
  BY <1>1 DEF RequestState, Adding, Bound, Burned
<1>3. (Become(r, q) \/ Finish(r)) /\ Reads(r)
  BY DEF AddGuard
<1> HIDE DEF q
<1>4. QED
  BY <1>2, <1>3, ReadingKeeps, GivingUpKeeps

LEMMA ChooseReadKeeps ==
    ASSUME TelegramInv, NEW r \in Requests, NEW chat \in Chats, ChooseRead(r, chat)
    PROVE  TelegramInv' /\ Grows
<1>1. PICK l \in Newest(ActiveOf(chat)) : Become(r, [op |-> "choose", link |-> l])
  BY DEF ChooseRead
<1> DEFINE q == [op |-> "choose", link |-> l]
<1>2. q \in RequestState /\ Bound(q) /\ ~ Burned(q)
  BY NewestKnown DEF RequestState, Choosing, Bound, Burned, TelegramInv
<1>3. Become(r, q) /\ Reads(r)
  BY <1>1 DEF ChooseRead
<1> HIDE DEF q
<1>4. QED
  BY <1>2, <1>3, ReadingKeeps

LEMMA ChooseMatchKeeps ==
    ASSUME TelegramInv, NEW r \in Requests, NEW d \in Dests, ChooseMatch(r, d)
    PROVE  TelegramInv' /\ Grows
<1> DEFINE q == [op |-> "use", link |-> req[r].link, dest |-> d]
<1>1. req[r] \in Choosing /\ req[r].link \in DOMAIN link
  BY RequestTyped, Kinds DEF TelegramInv, ChooseMatch, Bounds, Bound
<1>2. d \in DOMAIN dest
  BY DEF ChooseMatch, DestsOf
<1>3. q \in RequestState /\ Bound(q) /\ ~ Burned(q)
  BY <1>1, <1>2 DEF RequestState, Choosing, Using, Bound, Burned
<1>4. Become(r, q) /\ Reads(r)
  BY DEF ChooseMatch
<1> HIDE DEF q
<1>5. QED
  BY <1>3, <1>4, ReadingKeeps

\* A question, whoever's newest link it is about.
LEMMA InquireKeeps ==
    ASSUME TelegramInv, NEW r \in Requests, NEW l \in Links,
           Become(r, [op |-> "inquire", link |-> l]), Reads(r)
    PROVE  TelegramInv' /\ Grows
<1> DEFINE q == [op |-> "inquire", link |-> l]
<1>1. q \in RequestState /\ Bound(q) /\ ~ Burned(q)
  BY DEF RequestState, Inquiring, Bound, Burned
<1> HIDE DEF q
<1>2. QED
  BY <1>1, ReadingKeeps DEF q

LEMMA ResolveKeeps ==
    ASSUME TelegramInv, NEW r \in Requests, NEW chat \in Chats, NEW about \in 0..MaxReceipts,
           Resolve(r, chat, about)
    PROVE  TelegramInv' /\ Grows
<1>1. PICK l \in Newest(ActiveOf(chat)) :
         Become(r, [op |-> "resolve", chat |-> chat, link |-> l, active |-> link[l].active,
                    about |-> about])
  BY DEF Resolve
<1> DEFINE q == [op |-> "resolve", chat |-> chat, link |-> l, active |-> link[l].active,
                 about |-> about]
<1>2. l \in DOMAIN link /\ l \in Links /\ link[l].chat = chat
  BY NewestKnown DEF TelegramInv
<1>3. link[l].active \in 0..MaxDests
  BY <1>2, RowsTyped DEF LinkRow, TelegramInv
<1>4. q \in RequestState /\ Bound(q) /\ ~ Burned(q)
  BY <1>2, <1>3 DEF RequestState, Resolving, Bound, Burned
<1>5. Become(r, q) /\ Reads(r)
  BY <1>1 DEF Resolve
<1> HIDE DEF q
<1>6. QED
  BY <1>4, <1>5, ReadingKeeps

LEMMA ResolveDestsKeeps ==
    ASSUME TelegramInv, NEW r \in Requests, ResolveDests(r)
    PROVE  TelegramInv' /\ Grows
<1>1. req[r] \in Resolving /\ Bound(req[r]) /\ req[r].op = "resolve"
  BY RequestTyped, Kinds DEF TelegramInv, ResolveDests, Bounds
<1>2. PICK d \in TargetsOf(req[r]) :
         Become(r, [op |-> "file", step |-> "member", chat |-> req[r].chat,
                    link |-> req[r].link, dest |-> d, about |-> req[r].about])
  BY DEF ResolveDests
<1> DEFINE q == [op |-> "file", step |-> "member", chat |-> req[r].chat,
                 link |-> req[r].link, dest |-> d, about |-> req[r].about]
<1>3. d \in DestsOf(req[r].link)
  BY DEF TargetsOf
<1>4. d \in DOMAIN dest /\ d \in Dests /\ dest[d].link = req[r].link
  BY <1>3, RowsTyped DEF DestsOf, TelegramInv
<1>5. q \in RequestState /\ Bound(q) /\ ~ Burned(q)
  BY <1>1, <1>4 DEF RequestState, Resolving, Filing, Bound, Burned
<1>6. Become(r, q) /\ Reads(r)
  BY <1>2 DEF ResolveDests
<1> HIDE DEF q
<1>7. QED
  BY <1>5, <1>6, ReadingKeeps

LEMMA ResolveMemberKeeps ==
    ASSUME TelegramInv, NEW r \in Requests, ResolveMember(r)
    PROVE  TelegramInv' /\ Grows
<1> DEFINE q == [req[r] EXCEPT !.step = "act"]
<1>1. req[r] \in Filing /\ Bound(req[r])
  BY RequestTyped, Kinds DEF TelegramInv, ResolveMember, Bounds
<1>2. q \in RequestState /\ Bound(q) /\ ~ Burned(q)
  BY <1>1 DEF RequestState, Filing, Bound, Burned
<1>3. (Become(r, q) \/ Finish(r)) /\ Reads(r)
  BY DEF ResolveMember
<1> HIDE DEF q
<1>4. QED
  BY <1>2, <1>3, ReadingKeeps, GivingUpKeeps

-----------------------------------------------------------------------------
(* Steps that write a table and end a request, or come from outside.       *)

TablesTyped ==
    /\ member \subseteq Users \X Workspaces
    /\ code \in [Codes -> CodeRow]
    /\ link \in Seq(LinkRow) /\ Len(link) <= MaxLinks
    /\ dest \in Seq(DestRow) /\ Len(dest) <= MaxDests
    /\ receipt \in Seq(Receipt) /\ Len(receipt) <= MaxReceipts

Quiet ==
    /\ req' \in [Requests -> RequestState]
    /\ \A s \in Requests : req'[s] = req[s] \/ req'[s] = Idle

LEMMA FinishIsQuiet ==
    ASSUME TypeOK, NEW r \in Requests, Finish(r)
    PROVE  Quiet
BY IdleTyped, BecomeTyped DEF Finish, Quiet

LEMMA StandingIsQuiet == TypeOK /\ UNCHANGED req => Quiet
BY DEF TypeOK, Quiet

LEMMA WritingKeeps ==
    ASSUME TelegramInv, Quiet, TablesTyped', Grows, ReceiptsKnown', DOMAIN link' = DOMAIN link,
           \A l \in DOMAIN link : link'[l].code = link[l].code,
           \A c : Used(c) => Used(c)'
    PROVE  TelegramInv' /\ Grows
<1>1. TypeOK'
  BY DEF TypeOK, TablesTyped, Quiet
<1>2. Bounds'
  <2>1. \A s \in Requests : req'[s] = req[s] \/ Bound(req[s])'
    BY DEF Quiet, Bound, Idle
  <2>2. QED
    BY <2>1, BoundsStay DEF TelegramInv
<1>3. \A s \in Requests : Burned(req[s])' => Burned(req[s]) /\ req'[s].code = req[s].code
  BY DEF Quiet, Burned, Idle
<1>4. CodesOnce'
  BY <1>3, CodesStay DEF TelegramInv
<1>5. QED
  BY <1>1, <1>2, <1>4 DEF TelegramInv

\* Steps that leave links and destinations alone.
LEMMA SameLinksKeep ==
    ASSUME TelegramInv, Quiet, UNCHANGED <<link, dest>>, member' \subseteq Users \X Workspaces,
           code' \in [Codes -> CodeRow], \A c : Used(c) => Used(c)',
           receipt' \in Seq(Receipt), Len(receipt') <= MaxReceipts, ReceiptsKnown'
    PROVE  TelegramInv' /\ Grows
<1>1. Grows
  BY DEF Grows
<1>2. TablesTyped'
  BY DEF TelegramInv, TypeOK, TablesTyped
<1>3. QED
  BY <1>1, <1>2, WritingKeeps

LEMMA SameReceipts ==
    ASSUME TelegramInv, UNCHANGED <<link, dest, receipt>>
    PROVE  /\ receipt' \in Seq(Receipt) /\ Len(receipt') <= MaxReceipts
           /\ ReceiptsKnown'
BY DEF TelegramInv, TypeOK, ReceiptsKnown, ReceiptsStayInTheLink

LEMMA PairCreateKeeps ==
    ASSUME TelegramInv, NEW r \in Requests, NEW c \in Codes, PairCreate(r, c)
    PROVE  TelegramInv' /\ Grows
<1> DEFINE row == [status |-> "unused", late |-> FALSE,
                   user |-> req[r].user, workspace |-> req[r].workspace]
<1>1. req[r] \in Pairing
  BY RequestTyped, Kinds DEF TelegramInv, PairCreate
<1>2. row \in CodeRow
  BY <1>1 DEF Pairing, CodeRow
<1>3. code' = [code EXCEPT ![c] = row] /\ code[c].status = "absent"
  BY DEF PairCreate
<1> HIDE DEF row
<1>4. code \in [Codes -> CodeRow]
  BY DEF TelegramInv, TypeOK
<1>5. code' \in [Codes -> CodeRow] /\ \A k : k # c => code'[k] = code[k]
  BY <1>2, <1>3, <1>4
<1>6. \A k : Used(k) => Used(k)'
  BY <1>3, <1>5 DEF Used
<1>7. UNCHANGED <<member, link, dest, receipt>> /\ Finish(r)
  BY DEF PairCreate
<1>8. Quiet
  BY <1>7, FinishIsQuiet DEF TelegramInv
<1>9. QED
  BY <1>5, <1>6, <1>7, <1>8, SameReceipts, SameLinksKeep DEF TelegramInv, TypeOK

LEMMA ExpireKeeps ==
    ASSUME TelegramInv, NEW c \in Codes, Expire(c)
    PROVE  TelegramInv' /\ Grows
<1> DEFINE row == [code[c] EXCEPT !.late = TRUE]
<1>1. code \in [Codes -> CodeRow]
  BY DEF TelegramInv, TypeOK
<1>2. row \in CodeRow /\ row.status = code[c].status
  BY <1>1 DEF CodeRow
<1>3. code' = [code EXCEPT ![c] = row]
  BY DEF Expire
<1> HIDE DEF row
<1>4. code' \in [Codes -> CodeRow] /\ \A k : k # c => code'[k] = code[k]
  BY <1>1, <1>2, <1>3
<1>5. code'[c] = row
  BY <1>1, <1>3
<1>6. \A k : Used(k) => Used(k)'
  BY <1>2, <1>4, <1>5 DEF Used
<1>7. UNCHANGED <<member, link, dest, receipt, req>>
  BY DEF Expire
<1>8. Quiet
  BY <1>7, StandingIsQuiet DEF TelegramInv
<1>9. QED
  BY <1>4, <1>6, <1>7, <1>8, SameReceipts, SameLinksKeep DEF TelegramInv, TypeOK

LEMMA JoinOrLeaveKeeps ==
    ASSUME TelegramInv, NEW u \in Users, NEW w \in Workspaces, JoinOrLeave(u, w)
    PROVE  TelegramInv' /\ Grows
<1>1. member' \subseteq Users \X Workspaces
  BY DEF TelegramInv, TypeOK, JoinOrLeave
<1>2. UNCHANGED <<code, link, dest, receipt, req>>
  BY DEF JoinOrLeave
<1>3. Quiet
  BY <1>2, StandingIsQuiet DEF TelegramInv
<1>4. QED
  BY <1>1, <1>2, <1>3, SameReceipts, SameLinksKeep DEF TelegramInv, TypeOK, Used

\* A receipt is decided, by a button or elsewhere.
LEMMA DecidingKeeps ==
    ASSUME TelegramInv, Quiet, NEW i \in DOMAIN receipt,
           receipt' = [receipt EXCEPT ![i].status = "DECIDED"],
           UNCHANGED <<member, code, link, dest>>
    PROVE  TelegramInv' /\ Grows
<1> DEFINE row == [receipt[i] EXCEPT !.status = "DECIDED"]
<1>1. receipt \in Seq(Receipt) /\ Len(receipt) <= MaxReceipts /\ receipt[i] \in Receipt
  BY RowsTyped DEF TelegramInv, TypeOK
<1>2. /\ row \in Receipt /\ row.chat = receipt[i].chat /\ row.link = receipt[i].link
      /\ row.workspace = receipt[i].workspace
  BY <1>1 DEF Receipt
<1>3. receipt' = [receipt EXCEPT ![i] = row]
  OBVIOUS
<1> HIDE DEF row
<1>4. /\ receipt' \in Seq(Receipt) /\ Len(receipt') = Len(receipt)
      /\ DOMAIN receipt' = DOMAIN receipt
      /\ receipt'[i] = row
      /\ \A k \in DOMAIN receipt : k # i => receipt'[k] = receipt[k]
  BY <1>1, <1>2, <1>3
<1>5. ReceiptsKnown'
  BY <1>2, <1>4, ReceiptsStay DEF TelegramInv, Grows
<1>6. QED
  BY <1>1, <1>4, <1>5, SameLinksKeep DEF TelegramInv, TypeOK, Used

LEMMA ConfirmKeeps ==
    ASSUME TelegramInv, NEW r \in Requests, Confirm(r)
    PROVE  TelegramInv' /\ Grows
<1> DEFINE i == req[r].about
<1>1. Quiet
  BY FinishIsQuiet DEF TelegramInv, Confirm
<1>2. /\ receipt' = [receipt EXCEPT ![i].status = "DECIDED"]
      /\ UNCHANGED <<member, code, link, dest>>
  BY DEF Confirm
<1>3. CASE i \in DOMAIN receipt
  BY <1>1, <1>2, <1>3, DecidingKeeps
<1>4. CASE i \notin DOMAIN receipt
  <2>1. receipt' = receipt
    BY <1>2, <1>4 DEF TelegramInv, TypeOK
  <2>2. QED
    BY <1>1, <1>2, <2>1, SameReceipts, SameLinksKeep DEF TelegramInv, TypeOK, Used
<1>5. QED
  BY <1>3, <1>4

LEMMA FileReceiptKeeps ==
    ASSUME TelegramInv, NEW r \in Requests, FileReceipt(r)
    PROVE  TelegramInv' /\ Grows
<1> DEFINE new == [chat |-> req[r].chat, link |-> req[r].link,
                   workspace |-> dest[req[r].dest].workspace, status |-> "PENDING"]
           n == Len(receipt)
<1>1. req[r] \in Filing /\ Bound(req[r]) /\ req[r].op = "file"
  BY RequestTyped, Kinds DEF TelegramInv, FileReceipt, Acts, Bounds
<1>2. /\ req[r].link \in DOMAIN link /\ link[req[r].link].chat = req[r].chat
      /\ req[r].dest \in DOMAIN dest /\ dest[req[r].dest].link = req[r].link
  BY <1>1 DEF Bound
<1>3. new \in Receipt
  BY <1>1, <1>2, RowsTyped DEF Filing, Receipt, DestRow, TelegramInv
<1>4. new.chat = req[r].chat /\ new.link = req[r].link /\ new.workspace = dest[req[r].dest].workspace
  OBVIOUS
<1>5. /\ receipt' = Append(receipt, new) /\ Len(receipt) < MaxReceipts
      /\ UNCHANGED <<member, code, link, dest>>
  BY DEF FileReceipt
<1> HIDE DEF new
<1>6. receipt \in Seq(Receipt) /\ Len(receipt) \in Nat /\ MaxReceipts \in Nat
  BY RowsTyped DEF TelegramInv, TypeOK
<1>7. /\ receipt' \in Seq(Receipt) /\ Len(receipt') = n + 1
      /\ DOMAIN receipt = 1..n /\ DOMAIN receipt' = 1..(n + 1)
      /\ receipt'[n + 1] = new
      /\ \A i \in 1..n : receipt'[i] = receipt[i]
  BY <1>3, <1>5, <1>6
<1>8. Len(receipt') <= MaxReceipts
  BY <1>5, <1>6, <1>7
<1> HIDE DEF n
<1>9. ReceiptsKnown'
  <2> SUFFICES ASSUME NEW i \in DOMAIN receipt'
               PROVE  /\ receipt'[i].link \in DOMAIN link
                      /\ link[receipt'[i].link].chat = receipt'[i].chat
                      /\ \E d \in DOMAIN dest : /\ dest[d].link = receipt'[i].link
                                                /\ dest[d].workspace = receipt'[i].workspace
    BY <1>5 DEF ReceiptsKnown, ReceiptsStayInTheLink
  <2>1. CASE i \in DOMAIN receipt
    BY <1>7, <2>1 DEF TelegramInv, ReceiptsKnown, ReceiptsStayInTheLink
  <2>2. CASE i \notin DOMAIN receipt
    <3>1. receipt'[i] = new
      BY <1>6, <1>7, <2>2 DEF n
    <3>2. QED
      BY <1>2, <1>4, <3>1
  <2>3. QED
    BY <2>1, <2>2
<1>10. Quiet
  BY FinishIsQuiet DEF TelegramInv, FileReceipt
<1>11. QED
  BY <1>5, <1>7, <1>8, <1>9, <1>10, SameLinksKeep DEF TelegramInv, TypeOK, Used

\* A link or destination that changes in its status or its default only.
SameLink(new, old) == new.chat = old.chat /\ new.user = old.user /\ new.code = old.code
SameDest(new, old) == new.link = old.link /\ new.workspace = old.workspace

LEMMA RowRevoked ==
    /\ \A row \in LinkRow : Revoked(row) \in LinkRow /\ SameLink(Revoked(row), row)
    /\ \A row \in DestRow : Revoked(row) \in DestRow /\ SameDest(Revoked(row), row)
BY DEF Revoked, LinkRow, DestRow, SameLink, SameDest

LEMMA DefaultSet ==
    ASSUME NEW row \in LinkRow, NEW d \in 0..MaxDests
    PROVE  [row EXCEPT !.active = d] \in LinkRow /\ SameLink([row EXCEPT !.active = d], row)
BY DEF LinkRow, SameLink

LEMMA LinkChanged ==
    ASSUME TelegramInv, NEW l \in DOMAIN link, NEW row \in LinkRow, SameLink(row, link[l]),
           link' = [link EXCEPT ![l] = row]
    PROVE  /\ link' \in Seq(LinkRow) /\ Len(link') = Len(link) /\ DOMAIN link' = DOMAIN link
           /\ \A k \in DOMAIN link : SameLink(link'[k], link[k])
<1>1. link \in Seq(LinkRow)
  BY DEF TelegramInv, TypeOK
<1>2. /\ link' \in Seq(LinkRow) /\ Len(link') = Len(link) /\ DOMAIN link' = DOMAIN link
      /\ \A k \in DOMAIN link : link'[k] = IF k = l THEN row ELSE link[k]
  BY <1>1
<1>3. QED
  BY <1>2 DEF SameLink

\* Steps that rewrite links and destinations and add destinations.
LEMMA RewritingKeeps ==
    ASSUME TelegramInv, Quiet, UNCHANGED <<member, code, receipt>>,
           link' \in Seq(LinkRow), Len(link') = Len(link), DOMAIN link' = DOMAIN link,
           \A l \in DOMAIN link : SameLink(link'[l], link[l]),
           dest' \in Seq(DestRow), Len(dest') <= MaxDests,
           \A d \in DOMAIN dest : d \in DOMAIN dest' /\ SameDest(dest'[d], dest[d])
    PROVE  TelegramInv' /\ Grows
<1>1. Grows
  BY DEF Grows, SameLink, SameDest
<1>2. ReceiptsKnown'
  BY <1>1, ReceiptsStay DEF TelegramInv
<1>3. TablesTyped'
  BY DEF TelegramInv, TypeOK, TablesTyped
<1>4. QED
  BY <1>1, <1>2, <1>3, WritingKeeps DEF Used, SameLink

LEMMA RevokeCommitKeeps ==
    ASSUME TelegramInv, NEW r \in Requests, RevokeCommit(r)
    PROVE  TelegramInv' /\ Grows
<1> DEFINE l == req[r].link
           n == Len(dest)
<1>1. l \in DOMAIN link
  BY DEF TelegramInv, RevokeCommit, Bounds, Bound
<1>2. /\ link' = [link EXCEPT ![l] = Revoked(link[l])]
      /\ dest' = [d \in DOMAIN dest |-> IF dest[d].link = l THEN Revoked(dest[d]) ELSE dest[d]]
      /\ UNCHANGED <<member, code, receipt>>
  BY DEF RevokeCommit
<1>3. Revoked(link[l]) \in LinkRow /\ SameLink(Revoked(link[l]), link[l])
  BY <1>1, RowRevoked, RowsTyped DEF TelegramInv
<1>4. /\ link' \in Seq(LinkRow) /\ Len(link') = Len(link) /\ DOMAIN link' = DOMAIN link
      /\ \A k \in DOMAIN link : SameLink(link'[k], link[k])
  BY <1>1, <1>2, <1>3, LinkChanged
<1>5. n \in Nat /\ DOMAIN dest = 1..n /\ n <= MaxDests /\ \A d \in 1..n : dest[d] \in DestRow
  BY RowsTyped DEF TelegramInv, TypeOK
<1> HIDE DEF n, l
<1>6. \A d \in 1..n : dest'[d] \in DestRow /\ SameDest(dest'[d], dest[d])
  BY <1>2, <1>5, RowRevoked DEF SameDest
<1>7. dest' \in [1..n -> DestRow]
  BY <1>2, <1>5, <1>6
<1>8. dest' \in Seq(DestRow) /\ Len(dest') = n /\ DOMAIN dest' = 1..n
  BY <1>5, <1>7
<1>9. Quiet
  BY FinishIsQuiet DEF TelegramInv, RevokeCommit
<1>10. QED
  BY <1>2, <1>4, <1>5, <1>6, <1>8, <1>9, RewritingKeeps

LEMMA AddCreateKeeps ==
    ASSUME TelegramInv, NEW r \in Requests, NEW isDefault \in BOOLEAN, AddCreate(r, isDefault)
    PROVE  TelegramInv' /\ Grows
<1> DEFINE l == req[r].link
           n == Len(dest)
           new == [link |-> l, workspace |-> req[r].workspace, status |-> "ACTIVE"]
<1>1. req[r] \in Adding /\ l \in DOMAIN link
  BY RequestTyped, Kinds DEF TelegramInv, AddCreate, Bounds, Bound
<1>2. /\ dest' = Append(dest, new) /\ n < MaxDests
      /\ link' = link \/ link' = [link EXCEPT ![l] = [link[l] EXCEPT !.active = n + 1]]
      /\ UNCHANGED <<member, code, receipt>>
  BY DEF AddCreate
<1>3. new \in DestRow
  BY <1>1 DEF Adding, DestRow
<1>4. n \in Nat /\ DOMAIN dest = 1..n /\ MaxDests \in Nat /\ dest \in Seq(DestRow)
  BY RowsTyped DEF TelegramInv, TypeOK
<1>5. n + 1 \in 0..MaxDests /\ link[l] \in LinkRow
  BY <1>1, <1>2, <1>4, RowsTyped DEF TelegramInv
<1> HIDE DEF l, new, n
<1>6. /\ link' \in Seq(LinkRow) /\ Len(link') = Len(link) /\ DOMAIN link' = DOMAIN link
      /\ \A k \in DOMAIN link : SameLink(link'[k], link[k])
  <2>1. CASE link' = link
    BY <2>1 DEF TelegramInv, TypeOK, SameLink
  <2>2. CASE link' = [link EXCEPT ![l] = [link[l] EXCEPT !.active = n + 1]]
    BY <1>1, <1>5, <2>2, DefaultSet, LinkChanged
  <2>3. QED
    BY <1>2, <2>1, <2>2
<1>7. /\ dest' \in Seq(DestRow) /\ Len(dest') = n + 1
      /\ \A d \in DOMAIN dest : d \in DOMAIN dest' /\ SameDest(dest'[d], dest[d])
  BY <1>2, <1>3, <1>4 DEF n, SameDest
<1>8. Quiet
  BY FinishIsQuiet DEF TelegramInv, AddCreate
<1>9. QED
  BY <1>2, <1>4, <1>6, <1>7, <1>8, RewritingKeeps

LEMMA ChooseCommitKeeps ==
    ASSUME TelegramInv, NEW r \in Requests, ChooseCommit(r)
    PROVE  TelegramInv' /\ Grows
<1> DEFINE l == req[r].link
           d == req[r].dest
<1>1. l \in DOMAIN link /\ d \in 0..MaxDests
  BY RequestTyped, Kinds, BoundAssumption
  DEF TelegramInv, ChooseCommit, Bounds, Bound, Using, Dests
<1>2. /\ link' = [link EXCEPT ![l] = [link[l] EXCEPT !.active = d]]
      /\ UNCHANGED <<member, code, dest, receipt>>
  BY DEF ChooseCommit
<1>3. link[l] \in LinkRow
  BY <1>1, RowsTyped DEF TelegramInv
<1> HIDE DEF l, d
<1>4. /\ link' \in Seq(LinkRow) /\ Len(link') = Len(link) /\ DOMAIN link' = DOMAIN link
      /\ \A k \in DOMAIN link : SameLink(link'[k], link[k])
  BY <1>1, <1>2, <1>3, DefaultSet, LinkChanged
<1>5. Quiet
  BY FinishIsQuiet DEF TelegramInv, ChooseCommit
<1>6. QED
  BY <1>2, <1>4, <1>5, RewritingKeeps DEF TelegramInv, TypeOK, SameDest

-----------------------------------------------------------------------------
(* A code is burned, and a chat linked with it.                            *)

LEMMA ConsumeBurnKeeps ==
    ASSUME TelegramInv, NEW r \in Requests, ConsumeBurn(r)
    PROVE  TelegramInv' /\ Grows
<1> DEFINE c == req[r].code
           q == [req[r] EXCEPT !.step = "check"]
           row == [code[c] EXCEPT !.status = "used"]
<1>1. CASE ~ Unused(c)
  <2>1. Finish(r) /\ Reads(r)
    BY <1>1 DEF ConsumeBurn, Reads, tables
  <2>2. QED
    BY <2>1, GivingUpKeeps
<1>2. CASE Unused(c)
  <2>1. req[r] \in Consuming /\ req[r].op = "consume" /\ req[r].step = "burn"
    BY RequestTyped, Kinds DEF TelegramInv, ConsumeBurn
  <2>2. /\ code' = [code EXCEPT ![c] = row] /\ Become(r, q)
        /\ UNCHANGED <<member, link, dest, receipt>>
    BY <1>2 DEF ConsumeBurn
  <2>3. c \in Codes /\ code \in [Codes -> CodeRow] /\ code[c].status = "unused"
    BY <1>2, <2>1 DEF Consuming, TelegramInv, TypeOK, Unused
  <2>4. row \in CodeRow /\ row.status = "used"
    BY <2>3 DEF CodeRow
  <2>5. q \in RequestState /\ q.op = "consume" /\ q.step = "check" /\ q.code = c
    BY <2>1 DEF RequestState, Consuming
  <2> HIDE DEF c, q, row
  <2>6. /\ code' \in [Codes -> CodeRow] /\ code'[c] = row
        /\ \A k : k # c => code'[k] = code[k]
    BY <2>2, <2>3, <2>4
  <2>7. /\ req' \in [Requests -> RequestState] /\ req'[r] = q
        /\ \A s \in Requests \ {r} : req'[s] = req[s]
    BY <2>2, <2>5, BecomeTyped DEF TelegramInv
  <2>8. TypeOK'
    BY <2>2, <2>6, <2>7 DEF TelegramInv, TypeOK
  <2>9. Grows
    BY <2>2 DEF Grows
  <2>10. Bounds'
    <3>1. \A s \in Requests : req'[s] = req[s] \/ Bound(req[s])'
      BY <2>5, <2>7 DEF Bound
    <3>2. QED
      BY <2>9, <3>1, BoundsStay DEF TelegramInv
  <2>11. ReceiptsKnown'
    BY <2>2, <2>9, ReceiptsStay DEF TelegramInv
  <2>12. /\ \A k : Used(k) => Used(k)'
         /\ code'[c].status = "used" /\ ~ Used(c)
    BY <2>3, <2>4, <2>6 DEF Used
  <2>13. CodesOnce'
    <3>1. CodeLinksOnce' /\ \A l \in DOMAIN link' : Used(link[l].code)'
      BY <2>2, <2>12 DEF TelegramInv, CodesOnce, CodeLinksOnce, Used
    <3>2. ASSUME NEW s \in Requests, Burned(req[s])'
          PROVE  Used(req[s].code)' /\ \A l \in DOMAIN link' : link'[l].code # req'[s].code
      <4>1. CASE s = r
        <5>1. req'[s].code = c
          BY <2>5, <2>7, <4>1
        <5>2. \A l \in DOMAIN link : link[l].code # c
          BY <2>12 DEF TelegramInv, CodesOnce
        <5>3. QED
          BY <2>2, <2>12, <5>1, <5>2 DEF Used
      <4>2. CASE s # r
        BY <2>2, <2>7, <2>12, <3>2, <4>2 DEF TelegramInv, CodesOnce, Used, Burned
      <4>3. QED
        BY <4>1, <4>2
    <3>3. ASSUME NEW s \in Requests, NEW x \in Requests, Burned(req[s])', Burned(req[x])',
                 req'[s].code = req'[x].code
          PROVE  s = x
      <4>1. \A y \in Requests \ {r} : Burned(req[y])' => Burned(req[y]) /\ Used(req[y].code)
        BY <2>7 DEF TelegramInv, CodesOnce, Burned
      <4>2. \A y \in Requests \ {r} : Burned(req[y])' => req'[y].code # c
        BY <2>7, <2>12, <4>1
      <4>3. QED
        BY <2>5, <2>7, <3>3, <4>1, <4>2 DEF TelegramInv, CodesOnce
    <3>4. QED
      BY <3>1, <3>2, <3>3 DEF CodesOnce
  <2>14. QED
    BY <2>8, <2>9, <2>10, <2>11, <2>13 DEF TelegramInv
<1>3. QED
  BY <1>1, <1>2

LEMMA ConsumeLinkKeeps ==
    ASSUME TelegramInv, NEW r \in Requests, ConsumeLink(r)
    PROVE  TelegramInv' /\ Grows
<1> DEFINE c == req[r].code
           n == Len(link)
           m == Len(dest)
           named == code[c].workspace # None
           old == [k \in DOMAIN link |-> IF k \in req[r].found THEN Revoked(link[k]) ELSE link[k]]
           new == [chat |-> req[r].chat, user |-> code[c].user, status |-> "ACTIVE",
                   active |-> IF named THEN m + 1 ELSE 0, code |-> c]
           place == [link |-> n + 1, workspace |-> code[c].workspace, status |-> "ACTIVE"]
<1>1. req[r] \in Linking /\ req[r].op = "link" /\ Burned(req[r])
  BY RequestTyped, Kinds DEF TelegramInv, ConsumeLink, Burned
<1>2. /\ n < MaxLinks /\ (named => m + 1 <= MaxDests)
      /\ link' = Append(old, new)
      /\ dest' = IF named THEN Append(dest, place) ELSE dest
      /\ Finish(r)
      /\ UNCHANGED <<member, code, receipt>>
  BY DEF ConsumeLink
<1>3. /\ n \in Nat /\ DOMAIN link = 1..n /\ n <= MaxLinks /\ MaxLinks \in Nat
      /\ m \in Nat /\ DOMAIN dest = 1..m /\ m <= MaxDests /\ MaxDests \in Nat
      /\ dest \in Seq(DestRow) /\ \A k \in 1..n : link[k] \in LinkRow
  BY RowsTyped DEF TelegramInv, TypeOK
<1>4. c \in Codes /\ code[c] \in CodeRow /\ req[r].chat \in Chats
  BY <1>1 DEF Linking, TelegramInv, TypeOK
<1>5. new \in LinkRow /\ new.code = c
  <2>1. (IF named THEN m + 1 ELSE 0) \in 0..MaxDests
    BY <1>2, <1>3
  <2>2. QED
    BY <1>4, <2>1 DEF LinkRow, CodeRow
<1>6. named => place \in DestRow
  BY <1>2, <1>3, <1>4 DEF DestRow, CodeRow, Links
<1> HIDE DEF c, named, new, place, m
<1>7. /\ old \in Seq(LinkRow) /\ Len(old) = n /\ DOMAIN old = 1..n
      /\ \A k \in 1..n : old[k] \in LinkRow /\ SameLink(old[k], link[k])
  <2>1. \A k \in 1..n : old[k] \in LinkRow /\ SameLink(old[k], link[k])
    BY <1>3, RowRevoked DEF SameLink
  <2>2. old \in [1..n -> LinkRow]
    BY <1>3, <2>1
  <2> HIDE DEF old, n
  <2>3. QED
    BY <1>3, <2>1, <2>2
<1> HIDE DEF old, n
<1>8. /\ link' \in Seq(LinkRow) /\ Len(link') = n + 1 /\ DOMAIN link' = 1..(n + 1)
      /\ \A k \in 1..n : SameLink(link'[k], link[k])
      /\ link'[n + 1].code = c
  BY <1>2, <1>3, <1>5, <1>7
<1>9. /\ dest' \in Seq(DestRow) /\ Len(dest') <= MaxDests
      /\ \A d \in DOMAIN dest : d \in DOMAIN dest' /\ SameDest(dest'[d], dest[d])
  <2>1. CASE named
    <3>1. dest' = Append(dest, place) /\ place \in DestRow /\ m + 1 <= MaxDests
      BY <1>2, <1>6, <2>1
    <3>2. QED
      BY <1>3, <3>1 DEF m, SameDest
  <2>2. CASE ~ named
    BY <1>2, <1>3, <2>2 DEF m, SameDest
  <2>3. QED
    BY <2>1, <2>2
<1>10. Quiet
  BY <1>2, FinishIsQuiet DEF TelegramInv
<1>11. TypeOK'
  BY <1>2, <1>3, <1>8, <1>9, <1>10 DEF TelegramInv, TypeOK, Quiet
<1>12. Grows
  BY <1>3, <1>8, <1>9 DEF Grows, SameLink, SameDest
<1>13. Bounds'
  <2>1. \A s \in Requests : req'[s] = req[s] \/ Bound(req[s])'
    BY <1>10 DEF Quiet, Bound, Idle
  <2>2. QED
    BY <1>12, <2>1, BoundsStay DEF TelegramInv
<1>14. ReceiptsKnown'
  BY <1>2, <1>12, ReceiptsStay DEF TelegramInv
<1>15. CodesOnce'
  <2>1. /\ Used(c) /\ \A k \in 1..n : link[k].code # c /\ Used(link[k].code)
        /\ \A k, l \in 1..n : link[k].code = link[l].code => k = l
    BY <1>1, <1>3 DEF TelegramInv, CodesOnce, CodeLinksOnce, c
  <2>2. \A k \in 1..n : link'[k].code = link[k].code
    BY <1>8 DEF SameLink
  <2>3. \A l \in DOMAIN link' : \/ l \in 1..n /\ link'[l].code = link[l].code
                                \/ link'[l].code = c
    BY <1>3, <1>8, <2>2
  <2>4. CodeLinksOnce'
    BY <1>3, <1>8, <2>1, <2>2 DEF CodeLinksOnce
  <2>5. \A l \in DOMAIN link' : Used(link[l].code)'
    <3>1. \A l \in DOMAIN link' : Used(link'[l].code)
      BY <2>1, <2>3
    <3>2. QED
      BY <1>2, <3>1 DEF Used
  <2>6. req'[r] = Idle /\ \A s \in Requests \ {r} : req'[s] = req[s]
    BY <1>2, IdleTyped, BecomeTyped DEF Finish, TelegramInv
  <2>7. \A s \in Requests : Burned(req[s])' =>
           s # r /\ Burned(req[s]) /\ req'[s] = req[s] /\ req[s].code # c
    BY <1>1, <2>6, IdleTyped DEF TelegramInv, CodesOnce, Burned, c
  <2>8. \A s \in Requests : Burned(req[s])' =>
           Used(req[s].code)' /\ \A l \in DOMAIN link' : link'[l].code # req'[s].code
    <3> SUFFICES ASSUME NEW s \in Requests, Burned(req[s])'
                 PROVE  Used(req[s].code)' /\ \A l \in DOMAIN link' : link'[l].code # req'[s].code
      OBVIOUS
    <3>1. /\ Burned(req[s]) /\ req'[s] = req[s] /\ req[s].code # c
          /\ Used(req[s].code) /\ \A l \in 1..n : link[l].code # req[s].code
      BY <1>3, <2>7 DEF TelegramInv, CodesOnce
    <3>2. QED
      BY <1>2, <2>3, <3>1 DEF Used
  <2>9. \A s, x \in Requests :
           Burned(req[s])' /\ Burned(req[x])' /\ req'[s].code = req'[x].code => s = x
    BY <2>7 DEF TelegramInv, CodesOnce
  <2>10. QED
    BY <2>4, <2>5, <2>8, <2>9 DEF CodesOnce
<1>16. QED
  BY <1>11, <1>12, <1>13, <1>14, <1>15 DEF TelegramInv

-----------------------------------------------------------------------------
(* The theorems.                                                           *)

LEMMA UserStepKeeps ==
    ASSUME TelegramInv, NEW r \in Requests, UserStep(r)
    PROVE  TelegramInv' /\ Grows
<1>1. ASSUME NEW u \in Users, GetStatus(r, u) PROVE TelegramInv' /\ Grows
  <2> DEFINE own == {l \in ActiveLinks : link[l].user = u}
  <2>1. PICK l \in Newest(own) : Become(r, [op |-> "inquire", link |-> l])
    BY <1>1 DEF GetStatus
  <2>2. l \in Links
    BY ActiveLinksKnown DEF Newest, TelegramInv
  <2>3. QED
    BY <1>1, <2>1, <2>2, InquireKeeps DEF GetStatus
<1>2. QED
  BY <1>1, PairGuardKeeps, PairCreateKeeps, RevokeReadKeeps, RevokeCommitKeeps, AddReadKeeps,
     AddGuardKeeps, AddCreateKeeps DEF UserStep

LEMMA BotStepKeeps ==
    ASSUME TelegramInv, NEW r \in Requests, BotStep(r)
    PROVE  TelegramInv' /\ Grows
<1>1. ASSUME NEW chat \in Chats, Command(r, chat) PROVE TelegramInv' /\ Grows
  <2>1. ASSUME Inquire(r, chat) PROVE TelegramInv' /\ Grows
    <3>1. PICK l \in Newest(ActiveOf(chat)) : Become(r, [op |-> "inquire", link |-> l])
      BY <2>1 DEF Inquire
    <3>2. l \in Links
      BY NewestKnown DEF TelegramInv
    <3>3. QED
      BY <2>1, <3>1, <3>2, InquireKeeps DEF Inquire
  <2>2. QED
    BY <1>1, <2>1, ConsumeReadKeeps, ChooseReadKeeps DEF Command
<1>2. ASSUME NEW chat \in Chats, Document(r, chat) PROVE TelegramInv' /\ Grows
  BY <1>2, BoundAssumption, ResolveKeeps DEF Document
<1>3. ASSUME NEW i \in 1..MaxReceipts, Press(r, i) PROVE TelegramInv' /\ Grows
  <2>1. receipt[i].chat \in Chats /\ i \in 0..MaxReceipts
    BY <1>3, RowsTyped DEF Press, Receipt, TelegramInv
  <2>2. QED
    BY <1>3, <2>1, ResolveKeeps DEF Press
<1>4. CASE TellDestinations(r) \/ NoDestination(r)
  BY <1>4, GivingUpKeeps DEF TellDestinations, NoDestination
<1>5. QED
  BY <1>1, <1>2, <1>3, <1>4, ConsumeBurnKeeps, ConsumeCheckKeeps, ConsumeFindKeeps,
     ConsumeLinkKeeps, ChooseMatchKeeps, ChooseCommitKeeps, ResolveDestsKeeps,
     ResolveMemberKeeps, FileReceiptKeeps, ConfirmKeeps DEF BotStep

LEMMA InitKeeps == Init => TelegramInv
<1> SUFFICES ASSUME Init PROVE TelegramInv
  OBVIOUS
<1>1. code \in [Codes -> CodeRow]
  BY DEF Init, CodeRow
<1>2. TypeOK
  <2>1. MaxLinks \in Nat /\ MaxDests \in Nat /\ MaxReceipts \in Nat
    BY BoundAssumption
  <2>2. /\ link = << >> /\ dest = << >> /\ receipt = << >> /\ member = {}
        /\ req \in [Requests -> RequestState]
    BY IdleTyped DEF Init
  <2>3. /\ link \in Seq(LinkRow) /\ Len(link) <= MaxLinks
        /\ dest \in Seq(DestRow) /\ Len(dest) <= MaxDests
        /\ receipt \in Seq(Receipt) /\ Len(receipt) <= MaxReceipts
    BY <2>1, <2>2
  <2>4. QED
    BY <1>1, <2>2, <2>3 DEF TypeOK
<1>3. DOMAIN link = {} /\ DOMAIN receipt = {} /\ \A r \in Requests : req[r] = Idle
  BY DEF Init
<1>4. Bounds /\ \A r \in Requests : ~ Burned(req[r])
  BY <1>3, IdleTyped DEF Bounds
<1>5. QED
  BY <1>2, <1>3, <1>4
  DEF TelegramInv, CodesOnce, CodeLinksOnce, ReceiptsKnown, ReceiptsStayInTheLink

LEMMA NextKeeps == TelegramInv /\ [Next]_vars => TelegramInv' /\ Grows
<1> SUFFICES ASSUME TelegramInv, [Next]_vars PROVE TelegramInv' /\ Grows
  OBVIOUS
<1>1. ASSUME NEW r \in Requests, Abort(r) PROVE TelegramInv' /\ Grows
  BY <1>1, GivingUpKeeps DEF Abort
<1>2. ASSUME NEW i \in 1..MaxReceipts, DecideElsewhere(i) PROVE TelegramInv' /\ Grows
  BY <1>2, StandingIsQuiet, DecidingKeeps DEF DecideElsewhere, TelegramInv
<1>3. CASE UNCHANGED vars
  <2>1. UNCHANGED <<member, code, link, dest, receipt, req>>
    BY <1>3 DEF vars, tables
  <2>2. QED
    BY <2>1, StandingIsQuiet, SameReceipts, SameLinksKeep DEF TelegramInv, TypeOK, Used
<1>4. QED
  BY <1>1, <1>2, <1>3, UserStepKeeps, BotStepKeeps, JoinOrLeaveKeeps, ExpireKeeps DEF Next

\* Requests hold on to what they have found, and codes and receipts to their links.
THEOREM TelegramInvariant == Spec => []TelegramInv
BY InitKeeps, NextKeeps, PTL DEF Spec

\* Codes, links, destinations, receipts and requests keep their types.
THEOREM TelegramTypeCorrect == Spec => []TypeOK
BY TelegramInvariant, PTL DEF TelegramInv

\* However many requests bring a pairing code at once, and from however many chats, it links
\* one chat once.
THEOREM CodesLinkOneChat == Spec => []CodeLinksOnce
BY TelegramInvariant, PTL DEF TelegramInv, CodesOnce

\* Whatever is linked, revoked and chosen while a document is on its way, it is filed under a
\* link of its chat and into the workspace of one of that link's destinations.
THEOREM ReceiptsAreFiledInTheirLink == Spec => []ReceiptsStayInTheLink
BY TelegramInvariant, PTL DEF TelegramInv, ReceiptsKnown

\* Only the check of the membership lets a request through to file or book.
LEMMA OnlyTheCheckLetsThrough ==
    ASSUME TelegramInv, Next, NEW r \in Requests, Acts(r)', ~ ResolveMember(r)
    PROVE  req'[r] = req[r]
<1>1. req \in [Requests -> RequestState]
  BY DEF TelegramInv, TypeOK
<1>2. ASSUME NEW s \in Requests, NEW q, Become(s, q), q.op # "file" PROVE req'[r] = req[r]
  BY <1>1, <1>2 DEF Become, Acts
<1>3. ASSUME NEW s \in Requests, Finish(s) PROVE req'[r] = req[r]
  BY <1>3, <1>2, IdleTyped DEF Finish
<1>4. ASSUME NEW s \in Requests, UserStep(s) PROVE req'[r] = req[r]
  <2>1. ASSUME AddGuard(s) PROVE req'[r] = req[r]
    <3> DEFINE q == [req[s] EXCEPT !.step = "create"]
    <3>1. req[s] \in Adding
      BY <2>1, RequestTyped, Kinds DEF TelegramInv, AddGuard
    <3>2. q.op # "file"
      BY <3>1 DEF Adding
    <3>3. Become(s, q) \/ Finish(s)
      BY <2>1 DEF AddGuard
    <3> HIDE DEF q
    <3>4. QED
      BY <1>3, <1>2, <3>2, <3>3
  <2>2. ASSUME NEW u, NEW w, PairGuard(s, u, w) PROVE req'[r] = req[r]
    <3>1. Become(s, [op |-> "pair", user |-> u, workspace |-> w])
      BY <2>2 DEF PairGuard
    <3>2. QED
      BY <1>2, <3>1
  <2>3. ASSUME NEW l, RevokeRead(s, l) PROVE req'[r] = req[r]
    <3>1. Become(s, [op |-> "revoke", link |-> l])
      BY <2>3 DEF RevokeRead
    <3>2. QED
      BY <1>2, <3>1
  <2>4. ASSUME NEW u, GetStatus(s, u) PROVE req'[r] = req[r]
    <3>1. PICK l : Become(s, [op |-> "inquire", link |-> l])
      BY <2>4 DEF GetStatus
    <3>2. QED
      BY <1>2, <3>1
  <2>5. ASSUME NEW l, NEW w, AddRead(s, l, w) PROVE req'[r] = req[r]
    <3>1. PICK x : Become(s, [op |-> "add", step |-> "member", link |-> l, active |-> x,
                              workspace |-> w])
      BY <2>5 DEF AddRead
    <3>2. QED
      BY <1>2, <3>1
  <2>6. QED
    BY <1>4, <1>3, <2>1, <2>2, <2>3, <2>4, <2>5
    DEF UserStep, PairCreate, RevokeCommit, AddCreate
<1>5. ASSUME NEW s \in Requests, BotStep(s) PROVE req'[r] = req[r]
  <2>1. ASSUME NEW chat, Command(s, chat) PROVE req'[r] = req[r]
    <3>1. \/ \E c \in Codes : Become(s, [op |-> "consume", step |-> "burn", code |-> c,
                                         chat |-> chat])
          \/ \E l : Become(s, [op |-> "inquire", link |-> l])
          \/ \E l : Become(s, [op |-> "choose", link |-> l])
      BY <2>1 DEF Command, ConsumeRead, Inquire, ChooseRead
    <3>2. QED
      BY <1>2, <3>1
  <2>2. ASSUME NEW chat, NEW about, Resolve(s, chat, about) PROVE req'[r] = req[r]
    <3>1. PICK l, x : Become(s, [op |-> "resolve", chat |-> chat, link |-> l, active |-> x,
                                 about |-> about])
      BY <2>2 DEF Resolve
    <3>2. QED
      BY <1>2, <3>1
  <2>3. ASSUME ConsumeCheck(s) PROVE req'[r] = req[r]
    <3> DEFINE q == [req[s] EXCEPT !.step = "find"]
    <3>1. req[s] \in Consuming
      BY <2>3, RequestTyped, Kinds DEF TelegramInv, ConsumeCheck
    <3>2. q.op # "file"
      BY <3>1 DEF Consuming
    <3>3. Become(s, q) \/ Finish(s)
      BY <2>3 DEF ConsumeCheck
    <3> HIDE DEF q
    <3>4. QED
      BY <1>3, <1>2, <3>2, <3>3
  <2>4. ASSUME ConsumeBurn(s) PROVE req'[r] = req[r]
    <3> DEFINE q == [req[s] EXCEPT !.step = "check"]
    <3>1. req[s] \in Consuming
      BY <2>4, RequestTyped, Kinds DEF TelegramInv, ConsumeBurn
    <3>2. q.op # "file"
      BY <3>1 DEF Consuming
    <3>3. Become(s, q) \/ Finish(s)
      BY <2>4 DEF ConsumeBurn
    <3> HIDE DEF q
    <3>4. QED
      BY <1>3, <1>2, <3>2, <3>3
  <2>5. ASSUME ConsumeFind(s) PROVE req'[r] = req[r]
    <3>1. PICK c, chat, found : Become(s, [op |-> "link", code |-> c, chat |-> chat,
                                           found |-> found])
      BY <2>5 DEF ConsumeFind
    <3>2. QED
      BY <1>2, <3>1
  <2>6. ASSUME NEW d, ChooseMatch(s, d) PROVE req'[r] = req[r]
    <3>1. PICK l : Become(s, [op |-> "use", link |-> l, dest |-> d])
      BY <2>6 DEF ChooseMatch
    <3>2. QED
      BY <1>2, <3>1
  <2>7. ASSUME ResolveDests(s) PROVE req'[r] = req[r]
    <3>1. PICK chat, l, d, about :
             Become(s, [op |-> "file", step |-> "member", chat |-> chat, link |-> l,
                        dest |-> d, about |-> about])
      BY <2>7 DEF ResolveDests
    <3>2. QED
      BY <1>1, <3>1 DEF Become, Acts
  <2>8. CASE ResolveMember(s)
    <3>1. s # r
      BY <2>8
    <3>2. QED
      BY <1>1, <2>8, <3>1 DEF ResolveMember, Become, Finish
  <2>9. QED
    BY <1>5, <1>3, <2>1, <2>2, <2>3, <2>4, <2>5, <2>6, <2>7, <2>8
    DEF BotStep, Document, Press, ConsumeLink, TellDestinations, ChooseCommit, NoDestination,
        FileReceipt, Confirm
<1>6. ASSUME NEW s \in Requests, Abort(s) PROVE req'[r] = req[r]
  BY <1>3, <1>6 DEF Abort
<1>7. QED
  BY <1>4, <1>5, <1>6 DEF Next, JoinOrLeave, Expire, DecideElsewhere

LEMMA NonMembersStep ==
    TelegramInv /\ [Next]_vars =>
        (member' = member => \A r \in Requests : Intruding(r)' => Intruding(r))
<1> SUFFICES ASSUME TelegramInv, [Next]_vars, member' = member, NEW r \in Requests, Intruding(r)'
             PROVE  Intruding(r)
  OBVIOUS
<1>1. CASE req'[r] = req[r]
  <2>1. /\ Acts(r) /\ Bound(req[r])
        /\ ~ (<<link'[req[r].link].user, dest'[req[r].dest].workspace>> \in member)
    BY <1>1 DEF Intruding, Acts, TelegramInv, Bounds
  <2>2. req[r].link \in DOMAIN link /\ req[r].dest \in DOMAIN dest
    BY <2>1 DEF Acts, Bound
  <2>3. Grows
    BY NextKeeps
  <2>4. /\ link'[req[r].link].user = link[req[r].link].user
        /\ dest'[req[r].dest].workspace = dest[req[r].dest].workspace
    BY <2>2, <2>3 DEF Grows
  <2>5. QED
    BY <2>1, <2>4 DEF Intruding
<1>2. CASE ResolveMember(r)
  <2> DEFINE q == [req[r] EXCEPT !.step = "act"]
  <2>1. req[r] \in Filing
    BY <1>2, RequestTyped, Kinds DEF TelegramInv, ResolveMember
  <2>2. q \in RequestState /\ q.link = req[r].link /\ q.dest = req[r].dest
    BY <2>1 DEF Filing, RequestState
  <2>3. \/ Finish(r)
        \/ /\ Become(r, q)
           /\ <<link[req[r].link].user, dest[req[r].dest].workspace>> \in member
    BY <1>2 DEF ResolveMember, Belongs
  <2>4. UNCHANGED <<link, dest, member>>
    BY <1>2 DEF ResolveMember, Reads, tables
  <2> HIDE DEF q
  <2>5. CASE Finish(r)
    <3>1. req'[r] = Idle
      BY <2>5, IdleTyped, BecomeTyped DEF Finish, TelegramInv
    <3>2. QED
      BY <3>1, IdleTyped DEF Intruding, Acts
  <2>6. CASE Become(r, q) /\ <<link[req[r].link].user, dest[req[r].dest].workspace>> \in member
    <3>1. req'[r] = q
      BY <2>2, <2>6, BecomeTyped DEF TelegramInv
    <3>2. QED
      BY <2>2, <2>4, <2>6, <3>1 DEF Intruding
  <2>7. QED
    BY <2>3, <2>5, <2>6
<1>3. QED
  <2>1. Acts(r)'
    BY DEF Intruding
  <2>2. CASE Next
    BY <1>1, <1>2, <2>1, <2>2, OnlyTheCheckLetsThrough
  <2>3. CASE UNCHANGED vars
    BY <1>1, <2>3 DEF vars
  <2>4. QED
    BY <2>2, <2>3

\* While the members stay the same no document and no button is let through for somebody who
\* is not one of them, whatever links and destinations were chosen before.
THEOREM NonMembersStayOutside == Spec => NonMembersFileNothing
BY NonMembersStep, TelegramInvariant, PTL DEF Spec, NonMembersFileNothing

\* Appending adds one row after the others.
LEMMA AppendAdds ==
    ASSUME NEW S, NEW t \in Seq(S), NEW r \in S, NEW u, u = Append(t, r)
    PROVE  /\ u \in Seq(S) /\ Len(u) = Len(t) + 1
           /\ \A n \in DOMAIN t : n \in DOMAIN u /\ u[n] = t[n]
           /\ u[Len(t) + 1] = r
           /\ \A n \in DOMAIN u : n \in DOMAIN t \/ n = Len(t) + 1
OBVIOUS

-----------------------------------------------------------------------------
(* Ingestion: what is there of a line that was sent.                       *)

\* A movement has a row that looks like it.
HasRow(m, t) == \E n \in DOMAIN t : LooksLike(m, t[n])

\* The movements an import still has in hand, or has given up.
InHand(q) == ToSet(q.todo) \cup ToSet(q.kept) \cup ToSet(q.failed)

LinesKnown ==
    \A i \in Imports : \A k \in DOMAIN job[i].sent :
        HasRow(job[i].sent[k], rows) \/ job[i].sent[k] \in InHand(job[i])

\* What an import has in hand at each stage.
Stage(q) ==
    /\ q.at = "new" => q = NewJob
    /\ q.at \in {"insert", "done"} => q.todo = <<>>
    /\ q.at = "done" => q.kept = <<>>
Stages == \A i \in Imports : Stage(job[i])

\* The rows of an import, those it does not report as failed, and its counters: no line is
\* counted twice.
RowsOf(i, t) == {n \in DOMAIN t : t[n].by = i}
SureOf(i, q, t) == {n \in RowsOf(i, t) : MovementOf(t[n]) \notin ToSet(q.failed)}
Counted(i, q, t) ==
    Cardinality(SureOf(i, q, t)) <= q.imported /\ q.imported <= Cardinality(RowsOf(i, t))
RowsCounted == \A i \in Imports : Counted(i, job[i], rows)
Lot(q) == q.imported + q.fuzzy + Len(q.failed) + Len(q.todo) + Len(q.kept)
LotsFit == \A i \in Imports : Lot(job[i]) <= Len(job[i].sent)

\* The rows of imports have a hash, of the date that was made of their line's.
RowsTaken(t) ==
    \A n \in DOMAIN t : t[n].by \in Imports => t[n].hashed = TRUE /\ MovementOf(t[n]) \in Movements

\* No two rows of a table have a hash or an identifier in common.
OnceIn(t) ==
    \A m, n \in DOMAIN t :
        /\ m < n
        /\ {t[m].by, t[n].by} \subseteq Imports
        /\ SameHash(MovementOf(t[n]), t[m]) \/ SameFitid(MovementOf(t[n]), t[m])
        => t[m].status = "GONE"

IngestionInv ==
    /\ IngestionTypeOK
    /\ Stages
    /\ LinesKnown
    /\ RowsCounted
    /\ LotsFit
    /\ RowsTaken(rows)
    /\ OnceIn(rows)

\* Rows stay, with all that their lines are compared with.
Stays(r, new) ==
    /\ new.line = r.line /\ new.date = r.date /\ new.hashed = r.hashed /\ new.by = r.by
    /\ r.status = "GONE" => new.status = "GONE"
RowsStay == \A n \in DOMAIN rows : n \in DOMAIN rows' /\ Stays(rows[n], rows'[n])

LEMMA HasRowStays ==
    ASSUME RowsStay, NEW m, HasRow(m, rows)
    PROVE  HasRow(m, rows)'
BY DEF RowsStay, Stays, HasRow, LooksLike, SameHash, SameFitid

\* A date is an instant, and a movement its line with a date made of the line's.
LEMMA MovementFields ==
    ASSUME NEW m \in Movements
    PROVE  /\ m.line \in Lines /\ m.date \in Int /\ m = [line |-> m.line, date |-> m.date]
           /\ m.line.date \notin Unreadable => m.date = Midnight(m.line.date)
<1>1. PICK l \in Lines, t \in 0..MaxTime : m = Movement(l, t)
  BY DEF Movements
<1>2. m.line = l /\ m.date = ParseDate(l.date, t) /\ m = [line |-> m.line, date |-> m.date]
  BY <1>1 DEF Movement
<1>3. l.date \notin Unreadable => ParseDate(l.date, t) = Midnight(l.date)
  BY DEF ParseDate
<1>4. ParseDate(l.date, t) \in Int
  <2>1. CASE l.date \in Unreadable
    BY <2>1, BoundsAssumption DEF ParseDate
  <2>2. CASE l.date \notin Unreadable
    <3>1. l.date \in Nat /\ Day \in Nat \ {0}
      BY <2>2, DatesAssumption
    <3>2. l.date % Day \in Int
      BY <3>1
    <3>. QED
      BY <1>3, <2>2, <3>1, <3>2 DEF Midnight
  <2>. QED
    BY <2>1, <2>2
<1>. QED
  BY <1>2, <1>3, <1>4

\* The row of a movement keeps it.
LEMMA RowOfMovement ==
    ASSUME NEW m \in Movements, NEW i \in Imports
    PROVE  /\ RowOf(m, i, TRUE) \in Row /\ RowOf(m, i, TRUE).by = i
           /\ RowOf(m, i, TRUE).hashed = TRUE /\ MovementOf(RowOf(m, i, TRUE)) = m
BY MovementFields DEF RowOf, Row, MovementOf

-----------------------------------------------------------------------------
(* CreateBatch: the table after each line of the chunk.                    *)

Tables(t, i, chunk) ==
    t = [k \in 0..Len(chunk) |->
            IF k = 0 THEN rows ELSE InsertOne(i, t[k - 1], chunk[k])]

\* Some function is the table after each line.
LEMMA TablesExist ==
    ASSUME NEW i, NEW chunk, Len(chunk) \in Nat
    PROVE  \E t : Tables(t, i, chunk)
<1>. DEFINE Upto(t, n) == t = [k \in 0..n |->
                IF k = 0 THEN rows ELSE InsertOne(i, t[k - 1], chunk[k])]
            Bad == {n \in Nat : ~ \E t : Upto(t, n)}
<1>1. Bad = {}
  <2>. SUFFICES ASSUME Bad # {} PROVE FALSE
    OBVIOUS
  <2>1. PICK n \in Bad : \A m \in Bad : n <= m
    <3>1. Bad \subseteq Nat
      OBVIOUS
    <3>. QED
      BY <3>1, SmallestBadNumber
  <2>2. n # 0
    <3>. DEFINE z == [k \in 0..0 |-> rows]
    <3>1. Upto(z, 0)
      OBVIOUS
    <3>. QED
      BY <3>1
  <2>3. PICK t : Upto(t, n - 1)
    BY <2>1, <2>2
  <2>. DEFINE u == [k \in 0..n |-> IF k < n THEN t[k] ELSE InsertOne(i, t[n - 1], chunk[n])]
  <2>4. \A k \in 0..n : k # 0 => u[k] = InsertOne(i, u[k - 1], chunk[k])
    <3>. SUFFICES ASSUME NEW k \in 0..n, k # 0 PROVE u[k] = InsertOne(i, u[k - 1], chunk[k])
      OBVIOUS
    <3>0. u[k - 1] = t[k - 1]
      OBVIOUS
    <3>1. CASE k = n
      BY <3>0, <3>1
    <3>2. CASE k < n
      <4>1. k \in 0..(n - 1) /\ u[k] = t[k]
        BY <3>2
      <4>2. t[k] = InsertOne(i, t[k - 1], chunk[k])
        BY <2>3, <4>1
      <4>. QED
        BY <3>0, <4>1, <4>2
    <3>. QED
      BY <3>1, <3>2
  <2>5. u[0] = rows
    BY <2>2, <2>3
  <2>6. Upto(u, n)
    BY <2>4, <2>5
  <2>. QED
    BY <2>6
<1>. QED
  BY <1>1 DEF Tables

\* The batch is what the last of them says.
LEMMA BatchIsLast ==
    ASSUME NEW i, NEW chunk, Len(chunk) \in Nat
    PROVE  \E t : Tables(t, i, chunk) /\ CreateBatch(i, chunk) = t[Len(chunk)]
<1>1. Tables(CHOOSE t : Tables(t, i, chunk), i, chunk)
  BY TablesExist
<1>2. CreateBatch(i, chunk) = (CHOOSE t : Tables(t, i, chunk))[Len(chunk)]
  BY DEF CreateBatch, Tables
<1>. QED
  BY <1>1, <1>2

\* What a table after k lines is to the rows before.
Batch(t, i, chunk, k) ==
    /\ t \in Seq(Row)
    /\ Len(rows) <= Len(t) /\ Len(t) <= Len(rows) + k
    /\ \A n \in DOMAIN rows : t[n] = rows[n]
    /\ \A n \in DOMAIN t \ DOMAIN rows :
          t[n].by = i /\ \E j \in 1..k : MovementOf(t[n]) = chunk[j]
    /\ \A j \in 1..k : HasRow(chunk[j], t)
    /\ RowsTaken(t)
    /\ OnceIn(t)

LEMMA InsertKeepsBatch ==
    ASSUME NEW i \in Imports, NEW chunk \in Seq(Movements), rows \in Seq(Row),
           NEW k \in 1..Len(chunk), NEW t, Batch(t, i, chunk, k - 1)
    PROVE  Batch(InsertOne(i, t, chunk[k]), i, chunk, k)
<1>. DEFINE l == chunk[k]
            u == InsertOne(i, t, l)
            r == RowOf(l, i, TRUE)
<1>0. l \in Movements
  OBVIOUS
<1>1. r \in Row /\ r.by = i /\ r.hashed = TRUE /\ MovementOf(r) = l
  BY <1>0, RowOfMovement, Zenon
<1>2. CASE \E n \in DOMAIN t : Conflicts(l, t[n])
  <2>1. u = t
    BY <1>2 DEF InsertOne
  <2>2. HasRow(l, t)
    BY <1>2 DEF HasRow, LooksLike, Conflicts
  <2>3. \A j \in 1..k : HasRow(chunk[j], t)
    BY <2>2 DEF Batch
  <2>. QED
    BY <2>1, <2>3 DEF Batch
<1>3. CASE ~ \E n \in DOMAIN t : Conflicts(l, t[n])
  <2>1. u = Append(t, r)
    BY <1>3 DEF InsertOne
  <2>2. /\ u \in Seq(Row) /\ Len(u) = Len(t) + 1
        /\ \A n \in DOMAIN t : n \in DOMAIN u /\ u[n] = t[n]
        /\ u[Len(t) + 1] = r
        /\ \A n \in DOMAIN u : n \in DOMAIN t \/ n = Len(t) + 1
    <3>1. t \in Seq(Row)
      BY DEF Batch
    <3>. HIDE DEF r, u
    <3>. QED
      BY <1>1, <2>1, <3>1, AppendAdds
  <2>. HIDE DEF r, u
  <2>3. Len(rows) <= Len(u) /\ Len(u) <= Len(rows) + k
    BY <2>2 DEF Batch
  <2>4. \A n \in DOMAIN rows : u[n] = rows[n]
    BY <2>2 DEF Batch
  <2>5. \A n \in DOMAIN u \ DOMAIN rows :
          u[n].by = i /\ \E j \in 1..k : MovementOf(u[n]) = chunk[j]
    <3>. SUFFICES ASSUME NEW n \in DOMAIN u \ DOMAIN rows
                  PROVE  u[n].by = i /\ \E j \in 1..k : MovementOf(u[n]) = chunk[j]
      OBVIOUS
    <3>1. CASE n \in DOMAIN t
      <4>1. PICK j \in 1..(k - 1) : t[n].by = i /\ MovementOf(t[n]) = chunk[j]
        BY <3>1 DEF Batch
      <4>2. j \in 1..k /\ u[n] = t[n]
        BY <2>2, <3>1
      <4>. QED
        BY <4>1, <4>2
    <3>2. CASE n = Len(t) + 1
      <4>1. u[n].by = i /\ MovementOf(u[n]) = chunk[k] /\ k \in 1..k
        BY <1>1, <2>2, <3>2
      <4>. QED
        BY <4>1
    <3>. QED
      BY <2>2, <3>1, <3>2
  <2>9. RowsTaken(u)
    BY <1>0, <1>1, <2>2 DEF Batch, RowsTaken
  <2>6. HasRow(l, u)
    <3>1. SameHash(l, r)
      BY <1>1 DEF SameHash, MovementOf
    <3>2. Len(t) + 1 \in DOMAIN u
      BY <2>2 DEF Batch
    <3>. QED
      BY <2>2, <3>1, <3>2 DEF HasRow, LooksLike
  <2>7. \A j \in 1..k : HasRow(chunk[j], u)
    BY <2>2, <2>6 DEF Batch, HasRow
  <2>8. OnceIn(u)
    <3>. SUFFICES ASSUME NEW m \in DOMAIN u, NEW n \in DOMAIN u, m < n,
                         {u[m].by, u[n].by} \subseteq Imports,
                         \/ SameHash(MovementOf(u[n]), u[m])
                         \/ SameFitid(MovementOf(u[n]), u[m])
                  PROVE  u[m].status = "GONE"
      BY DEF OnceIn
    <3>1. CASE n \in DOMAIN t
      <4>1. m \in DOMAIN t
        BY <2>2, <3>1 DEF Batch
      <4>. QED
        BY <2>2, <3>1, <4>1 DEF Batch, OnceIn
    <3>2. CASE n = Len(t) + 1
      <4>1. m \in DOMAIN t
        BY <2>2, <3>2 DEF Batch
      <4>2. MovementOf(u[n]) = l /\ u[m] = t[m]
        BY <1>1, <2>2, <3>2, <4>1
      <4>. QED
        BY <1>3, <4>1, <4>2 DEF Conflicts
    <3>. QED
      BY <2>2, <3>1, <3>2
  <2>10. Batch(u, i, chunk, k)
    BY <2>2, <2>3, <2>4, <2>5, <2>7, <2>8, <2>9 DEF Batch
  <2>. QED
    BY <2>10 DEF u
<1>. QED
  BY <1>2, <1>3

\* Nothing is inserted twice, every line of the chunk has a row, and the rows before stay.
LEMMA BatchIsSound ==
    ASSUME NEW i \in Imports, NEW chunk \in Seq(Movements), rows \in Seq(Row),
           RowsTaken(rows), OnceIn(rows)
    PROVE  Batch(CreateBatch(i, chunk), i, chunk, Len(chunk))
<1>0. Len(chunk) \in Nat
  OBVIOUS
<1>1. PICK t : Tables(t, i, chunk) /\ CreateBatch(i, chunk) = t[Len(chunk)]
  BY <1>0, BatchIsLast
<1>2. /\ t[0] = rows
      /\ \A k \in 1..Len(chunk) : t[k] = InsertOne(i, t[k - 1], chunk[k])
  <2>1. t = [k \in 0..Len(chunk) |-> IF k = 0 THEN rows ELSE InsertOne(i, t[k - 1], chunk[k])]
    BY <1>1, Zenon DEF Tables
  <2>2. ASSUME NEW k \in 1..Len(chunk) PROVE t[k] = InsertOne(i, t[k - 1], chunk[k])
    <3>1. k \in 0..Len(chunk) /\ k # 0
      BY <1>0
    <3>. QED
      BY <2>1, <3>1, Zenon
  <2>3. 0 \in 0..Len(chunk)
    BY <1>0
  <2>4. t[0] = rows
    BY <2>1, <2>3, Zenon
  <2>. QED
    BY <2>2, <2>4
<1>. DEFINE Bad == {k \in 0..Len(chunk) : ~ Batch(t[k], i, chunk, k)}
<1>3. Bad = {}
  <2>. SUFFICES ASSUME Bad # {} PROVE FALSE
    OBVIOUS
  <2>1. PICK k \in Bad : \A m \in Bad : k <= m
    <3>1. Bad \subseteq Nat
      OBVIOUS
    <3>. QED
      BY <3>1, SmallestBadNumber
  <2>2. k # 0
    <3>1. Batch(rows, i, chunk, 0)
      BY DEF Batch
    <3>. QED
      BY <1>2, <3>1
  <2>3. k \in 1..Len(chunk) /\ k - 1 \in 0..Len(chunk) /\ k - 1 \notin Bad
    BY <1>0, <2>1, <2>2
  <2>4. Batch(t[k - 1], i, chunk, k - 1)
    BY <2>3
  <2>5. Batch(t[k], i, chunk, k)
    BY <1>2, <2>3, <2>4, InsertKeepsBatch
  <2>. QED
    BY <2>1, <2>5
<1>. QED
  BY <1>0, <1>1, <1>3
-----------------------------------------------------------------------------
(* Sequences, as sets of lines.                                            *)

LEMMA TailAndHead ==
    ASSUME NEW S, NEW s \in Seq(S), s # <<>>
    PROVE  /\ Head(s) \in S /\ Tail(s) \in Seq(S) /\ Len(Tail(s)) = Len(s) - 1
           /\ ToSet(s) = ToSet(Tail(s)) \cup {Head(s)}
<1>1. /\ Head(s) \in S /\ Tail(s) \in Seq(S) /\ Len(Tail(s)) = Len(s) - 1 /\ Head(s) = s[1]
      /\ Len(s) \in Nat \ {0}
      /\ \A k \in 1..(Len(s) - 1) : Tail(s)[k] = s[k + 1]
  OBVIOUS
<1>2. ToSet(s) \subseteq ToSet(Tail(s)) \cup {Head(s)}
  <2>. SUFFICES ASSUME NEW k \in 1..Len(s), k # 1 PROVE s[k] \in ToSet(Tail(s))
    BY <1>1 DEF ToSet
  <2>1. k - 1 \in DOMAIN Tail(s) /\ Tail(s)[k - 1] = s[k]
    BY <1>1
  <2>. QED
    BY <2>1 DEF ToSet
<1>3. ToSet(Tail(s)) \subseteq ToSet(s)
  <2>. SUFFICES ASSUME NEW k \in 1..(Len(s) - 1) PROVE Tail(s)[k] \in ToSet(s)
    BY <1>1 DEF ToSet
  <2>1. k + 1 \in DOMAIN s /\ Tail(s)[k] = s[k + 1]
    BY <1>1
  <2>. QED
    BY <2>1 DEF ToSet
<1>4. Head(s) \in ToSet(s)
  BY <1>1 DEF ToSet
<1>. QED
  BY <1>1, <1>2, <1>3, <1>4

LEMMA AppendedSet ==
    ASSUME NEW S, NEW s \in Seq(S), NEW e \in S
    PROVE  ToSet(Append(s, e)) = ToSet(s) \cup {e}
<1>. DEFINE u == Append(s, e)
<1>1. /\ Len(s) \in Nat /\ DOMAIN s = 1..Len(s) /\ DOMAIN u = 1..(Len(s) + 1)
      /\ \A k \in 1..Len(s) : u[k] = s[k]
      /\ u[Len(s) + 1] = e
  OBVIOUS
<1>. HIDE DEF u
<1>2. \A k \in DOMAIN u : u[k] \in ToSet(s) \cup {e}
  BY <1>1 DEF ToSet
<1>3. \A k \in DOMAIN s : s[k] \in ToSet(u)
  BY <1>1 DEF ToSet
<1>4. e \in ToSet(u)
  BY <1>1 DEF ToSet
<1>. QED
  BY <1>2, <1>3, <1>4 DEF ToSet, u

LEMMA JoinedSet ==
    ASSUME NEW S, NEW s \in Seq(S), NEW t \in Seq(S)
    PROVE  /\ s \o t \in Seq(S) /\ Len(s \o t) = Len(s) + Len(t)
           /\ ToSet(s \o t) = ToSet(s) \cup ToSet(t)
<1>. DEFINE u == s \o t
<1>1. /\ u \in Seq(S) /\ Len(s) \in Nat /\ Len(t) \in Nat /\ Len(u) = Len(s) + Len(t)
      /\ DOMAIN u = 1..(Len(s) + Len(t)) /\ DOMAIN s = 1..Len(s) /\ DOMAIN t = 1..Len(t)
      /\ \A k \in 1..Len(s) : u[k] = s[k]
      /\ \A k \in 1..Len(t) : u[Len(s) + k] = t[k]
  OBVIOUS
<1>. HIDE DEF u
<1>2. ASSUME NEW k \in DOMAIN u PROVE u[k] \in ToSet(s) \cup ToSet(t)
  <2>1. CASE k \in 1..Len(s)
    BY <1>1, <2>1 DEF ToSet
  <2>2. CASE k \notin 1..Len(s)
    <3>1. k - Len(s) \in 1..Len(t) /\ u[k] = t[k - Len(s)]
      BY <1>1, <2>2
    <3>. QED
      BY <1>1, <3>1 DEF ToSet
  <2>. QED
    BY <2>1, <2>2
<1>3. \A k \in DOMAIN s : s[k] \in ToSet(u)
  BY <1>1 DEF ToSet
<1>4. ASSUME NEW k \in DOMAIN t PROVE t[k] \in ToSet(u)
  <2>1. Len(s) + k \in DOMAIN u
    BY <1>1
  <2>. QED
    BY <1>1, <2>1 DEF ToSet
<1>5. ToSet(u) = ToSet(s) \cup ToSet(t)
  BY <1>2, <1>3, <1>4 DEF ToSet
<1>. QED
  BY <1>1, <1>5 DEF u

\* A sequence is made of two others, each element once.
Parts(S, s, t, u) ==
    /\ t \in Seq(S) /\ u \in Seq(S) /\ Len(t) \in Nat /\ Len(u) \in Nat
    /\ Len(t) + Len(u) = Len(s)
    /\ ToSet(s) = ToSet(t) \cup ToSet(u)

\* A sequence cut after its first n elements.
LEMMA CutInTwo ==
    ASSUME NEW S, NEW s \in Seq(S), NEW n \in Nat \ {0}, NEW c, c = Least(n, Len(s)),
           NEW t, t = SubSeq(s, 1, c), NEW u, u = SubSeq(s, n + 1, Len(s))
    PROVE  Parts(S, s, t, u)
<1>0. Len(s) \in Nat /\ DOMAIN s = 1..Len(s)
  OBVIOUS
<1>1. c \in 0..Len(s) /\ c <= n /\ (c = n \/ c = Len(s))
  <2>1. CASE n < Len(s)
    BY <1>0, <2>1, c = n DEF Least
  <2>2. CASE ~ (n < Len(s))
    BY <1>0, <2>2, c = Len(s) DEF Least
  <2>. QED
    BY <2>1, <2>2
<1>2. /\ t \in Seq(S) /\ Len(t) = c /\ DOMAIN t = 1..c
      /\ \A k \in 1..c : t[k] = s[k]
  BY <1>0, <1>1
<1>3. /\ u \in Seq(S) /\ Len(u) = Len(s) - c /\ DOMAIN u = 1..(Len(s) - c)
      /\ \A k \in 1..(Len(s) - c) : u[k] = s[n + k]
  <2>1. CASE n <= Len(s)
    <3>1. c = n
      BY <1>0, <1>1, <2>1
    <3>2. n + 1 \in 1..(Len(s) + 1) /\ Len(s) \in ((n + 1) - 1)..Len(s)
      BY <1>0, <2>1
    <3>3. /\ u \in Seq(S) /\ Len(u) = Len(s) - (n + 1) + 1
          /\ \A k \in 1..(Len(s) - (n + 1) + 1) : u[k] = s[(n + 1) + k - 1]
      BY <3>2, SubSeqProperties
    <3>4. Len(s) - (n + 1) + 1 = Len(s) - c /\ \A k \in Int : (n + 1) + k - 1 = n + k
      BY <1>0, <3>1
    <3>5. ASSUME NEW k \in 1..(Len(s) - c) PROVE u[k] = s[n + k]
      <4>1. k \in Int /\ k \in 1..(Len(s) - (n + 1) + 1)
        BY <1>0, <3>1
      <4>2. u[k] = s[(n + 1) + k - 1]
        BY <3>3, <4>1
      <4>3. (n + 1) + k - 1 = n + k
        BY <4>1
      <4>. QED
        BY <4>2, <4>3
    <3>6. DOMAIN u = 1..Len(u)
      BY <3>3
    <3>. QED
      BY <3>3, <3>4, <3>5, <3>6
  <2>2. CASE n > Len(s)
    <3>1. c = Len(s)
      BY <1>0, <1>1, <2>2
    <3>2. u = <<>>
      BY <1>0, <2>2
    <3>3. Len(s) - c = 0 /\ 1..(Len(s) - c) = {}
      BY <1>0, <3>1
    <3>4. u \in Seq(S) /\ Len(u) = 0 /\ DOMAIN u = {}
      <4>1. <<>> \in Seq(S) /\ Len(<<>>) = 0 /\ DOMAIN <<>> = {}
        OBVIOUS
      <4>. QED
        BY <3>2, <4>1
    <3>. QED
      BY <3>3, <3>4
  <2>. QED
    BY <1>0, <2>1, <2>2
<1>5. ASSUME NEW k \in DOMAIN s PROVE s[k] \in ToSet(t) \cup ToSet(u)
  <2>1. CASE k \in 1..c
    BY <1>2, <2>1 DEF ToSet
  <2>2. CASE k \notin 1..c
    <3>1. c = n /\ k - c \in 1..(Len(s) - c)
      BY <1>0, <1>1, <2>2
    <3>2. n + (k - n) = k
      BY <1>0
    <3>3. u[k - c] = s[k]
      BY <1>3, <3>1, <3>2
    <3>. QED
      BY <1>3, <3>1, <3>3 DEF ToSet
  <2>. QED
    BY <2>1, <2>2
<1>6. \A k \in DOMAIN t : t[k] \in ToSet(s)
  BY <1>0, <1>1, <1>2 DEF ToSet
<1>7. ASSUME NEW k \in DOMAIN u PROVE u[k] \in ToSet(s)
  <2>1. n + k \in 1..Len(s)
    <3>1. k \in 1..(Len(s) - c)
      BY <1>3, Zenon
    <3>2. c # Len(s)
      BY <1>0, <3>1
    <3>3. c = n
      BY <1>1, <3>2, Zenon
    <3>. QED
      BY <1>0, <3>1, <3>3
  <2>. QED
    BY <1>0, <1>3, <2>1 DEF ToSet
<1>8. ToSet(s) = ToSet(t) \cup ToSet(u)
  <2>1. ToSet(s) \subseteq ToSet(t) \cup ToSet(u)
    BY <1>5 DEF ToSet
  <2>2. ToSet(t) \subseteq ToSet(s)
    BY <1>6 DEF ToSet
  <2>3. ToSet(u) \subseteq ToSet(s)
    BY <1>7 DEF ToSet
  <2>. QED
    BY <2>1, <2>2, <2>3
<1>9. Len(t) \in Nat /\ Len(u) \in Nat /\ Len(t) + Len(u) = Len(s)
  <2>1. Len(s) \in Nat /\ c \in 0..Len(s)
    BY <1>0, <1>1
  <2>2. Len(t) = c /\ Len(u) = Len(s) - c
    BY <1>2, <1>3
  <2>. QED
    BY <2>1, <2>2
<1>. QED
  BY <1>2, <1>3, <1>8, <1>9 DEF Parts

\* The chunk and the rest are what there was, each line once.
LEMMA ChunkAndRest ==
    ASSUME NEW i, NEW S, job[i].kept \in Seq(S)
    PROVE  Parts(S, job[i].kept, Chunk(i), Rest(i))
BY ChunkAssumption, CutInTwo DEF Chunk, Rest

-----------------------------------------------------------------------------
(* The steps of an import.                                                 *)

\* What is typed besides the rows and the jobs.
RestTyped ==
    /\ mode \in [Sources -> {"auto", "fallback"}]
    /\ bound \in BOOLEAN
    /\ now \in 0..MaxTime
    /\ faults \in 0..MaxFaults /\ reviews \in 0..MaxReviews /\ filed \in 0..MaxDocuments

\* The type of a job, for its fields.
LEMMA JobFields ==
    ASSUME NEW q \in Job
    PROVE  /\ q.todo \in Seq(Movements) /\ q.kept \in Seq(Movements) /\ q.failed \in Seq(Movements)
           /\ q.sent \in Seq(Movements) /\ q.imported \in Nat /\ q.fuzzy \in Nat
           /\ Len(q.todo) \in Nat /\ Len(q.kept) \in Nat /\ Len(q.failed) \in Nat
           /\ Len(q.sent) \in Nat
<1>1. /\ q.todo \in Seq(Movements) /\ q.kept \in Seq(Movements) /\ q.failed \in Seq(Movements)
      /\ q.sent \in Seq(Movements) /\ q.imported \in Nat /\ q.fuzzy \in Nat
  BY DEF Job
<1>. QED
  BY <1>1

\* An import that goes on with lines it has accounted for, while the rows stay as they are.
JobFits(q) ==
    /\ q \in Job
    /\ Stage(q)
    /\ \A k \in DOMAIN q.sent : HasRow(q.sent[k], rows) \/ q.sent[k] \in InHand(q)
    /\ Lot(q) <= Len(q.sent)

\* It counts no other row, and reports no fewer lines as failed.
GoesOn(i, q) == q.imported = job[i].imported /\ ToSet(job[i].failed) \subseteq ToSet(q.failed)

\* Sets of rows are finite.
LEMMA RowSets ==
    ASSUME rows \in Seq(Row), NEW T, T \subseteq DOMAIN rows, NEW S, S \subseteq T
    PROVE  IsFiniteSet(T) /\ Cardinality(T) \in Nat /\ Cardinality(S) \in Nat
           /\ Cardinality(S) <= Cardinality(T)
<1>1. DOMAIN rows = 1..Len(rows) /\ IsFiniteSet(1..Len(rows))
  BY FS_Interval
<1>2. IsFiniteSet(T)
  BY <1>1, FS_Subset
<1>3. IsFiniteSet(S) /\ Cardinality(S) <= Cardinality(T)
  BY <1>2, FS_Subset
<1>. QED
  BY <1>2, <1>3, FS_CardinalityType

LEMMA JobStep ==
    ASSUME IngestionInv, RestTyped', rows' = rows, NEW i \in Imports, NEW q, JobFits(q),
           GoesOn(i, q), job' = [job EXCEPT ![i] = q]
    PROVE  IngestionInv'
<1>1. \A j \in Imports : job'[j] = IF j = i THEN q ELSE job[j]
  BY DEF IngestionInv, IngestionTypeOK
<1>2. IngestionTypeOK'
  BY DEF IngestionInv, IngestionTypeOK, RestTyped, JobFits
<1>3. Stages'
  BY <1>1 DEF IngestionInv, Stages, JobFits
<1>4. LinesKnown'
  BY <1>1 DEF IngestionInv, LinesKnown, JobFits
<1>5. RowsCounted'
  <2>1. Counted(i, q, rows)
    <3>1. SureOf(i, q, rows) \subseteq SureOf(i, job[i], rows)
      BY DEF SureOf, GoesOn
    <3>2. rows \in Seq(Row) /\ SureOf(i, job[i], rows) \subseteq DOMAIN rows
      BY DEF SureOf, RowsOf, IngestionInv, IngestionTypeOK
    <3>3. PICK a \in Nat, b \in Nat : /\ a = Cardinality(SureOf(i, q, rows))
                                      /\ b = Cardinality(SureOf(i, job[i], rows)) /\ a <= b
      BY <3>1, <3>2, RowSets
    <3>4. PICK m \in Nat : m = job[i].imported /\ m = q.imported
      BY DEF GoesOn, IngestionInv, IngestionTypeOK, Job
    <3>5. Counted(i, job[i], rows)
      BY DEF IngestionInv, RowsCounted
    <3>6. b <= m /\ m <= Cardinality(RowsOf(i, rows))
      BY <3>3, <3>4, <3>5 DEF Counted
    <3>7. a <= m
      BY <3>3, <3>6
    <3>. QED
      BY <3>3, <3>4, <3>6, <3>7 DEF Counted
  <2>. QED
    BY <1>1, <2>1 DEF IngestionInv, RowsCounted
<1>6. LotsFit'
  BY <1>1 DEF IngestionInv, LotsFit, JobFits
<1>7. RowsTaken(rows)' /\ OnceIn(rows)'
  BY DEF IngestionInv, OnceIn, RowsTaken
<1>. QED
  BY <1>2, <1>3, <1>4, <1>5, <1>6, <1>7 DEF IngestionInv

\* What the invariant says of one import.
LEMMA JobIsFit ==
    ASSUME IngestionInv, NEW i \in Imports
    PROVE  JobFits(job[i])
BY DEF IngestionInv, IngestionTypeOK, Stages, LinesKnown, LotsFit, JobFits

LEMMA StatementsAreLines ==
    ASSUME NEW s \in Statements
    PROVE  s \in Seq(Lines)
<1>1. s \in Seq(ToSet(s)) /\ ToSet(s) \subseteq Lines
  BY StatementsAssumption DEF Lines
<1>2. \A k \in 1..Len(s) : s[k] \in Lines
  BY <1>1
<1>3. Len(s) \in Nat /\ s = [k \in 1..Len(s) |-> s[k]]
  BY <1>1
<1>. QED
  BY <1>2, <1>3

\* What a file or a delivery becomes.
LEMMA SentAreMovements ==
    ASSUME NEW s \in Statements, s # <<>>, IngestionTypeOK, NEW read \in Readings(Len(s)),
           NEW sent, sent = [k \in DOMAIN s |-> Movement(s[k], read[k])]
    PROVE  sent \in Seq(Movements) /\ read[Len(s)] \in 0..MaxTime
<1>1. s \in Seq(Lines) /\ Len(s) \in Nat \ {0} /\ DOMAIN s = 1..Len(s)
  BY StatementsAreLines
<1>2. now \in 0..MaxTime /\ MaxTime \in Nat
  BY BoundsAssumption DEF IngestionTypeOK
<1>3. read \in [1..Len(s) -> now..MaxTime]
  BY DEF Readings
<1>4. \A k \in 1..Len(s) : read[k] \in 0..MaxTime
  BY <1>2, <1>3
<1>5. \A k \in 1..Len(s) : Movement(s[k], read[k]) \in Movements
  BY <1>1, <1>4 DEF Movements
<1>6. sent = [k \in 1..Len(s) |-> Movement(s[k], read[k])]
  BY <1>1
<1>. QED
  BY <1>1, <1>4, <1>5, <1>6

LEMMA IngestKeeps ==
    ASSUME IngestionInv, NEW i \in Imports, NEW src \in Sources, NEW s \in Statements,
           s # <<>>, Ingest(i, src, s), UNCHANGED bound
    PROVE  IngestionInv'
<1>0. PICK read \in Readings(Len(s)) :
        LET sent == [k \in DOMAIN s |-> Movement(s[k], read[k])]
        IN  /\ now' = read[Len(s)]
            /\ job' = [job EXCEPT ![i] = [NewJob EXCEPT !.at = "examine", !.source = src,
                                                        !.sent = sent, !.todo = sent]]
  BY DEF Ingest
<1>10. PICK sent : sent = [k \in DOMAIN s |-> Movement(s[k], read[k])]
  OBVIOUS
<1>11. sent \in Seq(Movements) /\ now' \in 0..MaxTime
  BY <1>0, <1>10, SentAreMovements DEF IngestionInv
<1>1. RestTyped' /\ rows' = rows
  BY <1>11 DEF Ingest, RestTyped, IngestionInv, IngestionTypeOK
<1>2. PICK q : q = [NewJob EXCEPT !.at = "examine", !.source = src, !.sent = sent, !.todo = sent]
  OBVIOUS
<1>3. job' = [job EXCEPT ![i] = q]
  BY <1>0, <1>2, <1>10
<1>4. /\ q.at = "examine" /\ q.source = src /\ q.sent = sent /\ q.todo = sent /\ q.kept = <<>>
      /\ q.imported = 0 /\ q.fuzzy = 0 /\ q.failed = <<>>
      /\ q = [at |-> "examine", source |-> src, sent |-> sent, todo |-> sent, kept |-> <<>>,
              imported |-> 0, fuzzy |-> 0, failed |-> <<>>]
  BY <1>2 DEF NewJob
<1>5. q \in Job
  <2>1. <<>> \in Seq(Movements)
    OBVIOUS
  <2>. QED
    BY <1>4, <1>11, <2>1 DEF Job
<1>6. GoesOn(i, q)
  <2>1. job[i] = NewJob
    BY DEF Ingest, IngestionInv, Stages, Stage
  <2>2. ToSet(<<>>) = {}
    BY DEF ToSet
  <2>. QED
    BY <1>4, <2>1, <2>2 DEF GoesOn, NewJob
<1>7. JobFits(q)
  <2>1. Stage(q)
    BY <1>4 DEF Stage
  <2>2. \A k \in DOMAIN q.sent : q.sent[k] \in InHand(q)
    BY <1>4 DEF InHand, ToSet
  <2>3. Lot(q) <= Len(q.sent)
    <3>1. Len(q.sent) \in Nat
      BY <1>5, JobFields
    <3>. QED
      BY <1>4, <3>1 DEF Lot
  <2>. QED
    BY <1>5, <2>1, <2>2, <2>3 DEF JobFits
<1>. QED
  BY <1>1, <1>3, <1>6, <1>7, JobStep

\* A line that is kept stays in hand.
LEMMA KeepFits ==
    ASSUME IngestionInv, NEW i \in Imports, job[i].at = "examine", job[i].todo # <<>>, NEW q,
           q = [job[i] EXCEPT !.todo = Tail(@), !.kept = Append(@, Head(job[i].todo))]
    PROVE  JobFits(q) /\ GoesOn(i, q)
<1>. DEFINE p == job[i]
<1>0. p \in Job /\ JobFits(p) /\ p.at = "examine" /\ p.todo # <<>>
  BY JobIsFit DEF JobFits
<1>1. /\ q.at = p.at /\ q.source = p.source /\ q.sent = p.sent /\ q.imported = p.imported
      /\ q.fuzzy = p.fuzzy /\ q.failed = p.failed
      /\ q.todo = Tail(p.todo) /\ q.kept = Append(p.kept, Head(p.todo))
  BY <1>0 DEF Job
<1>. HIDE DEF p
<1>2. /\ Head(p.todo) \in Movements /\ Tail(p.todo) \in Seq(Movements)
      /\ Len(Tail(p.todo)) = Len(p.todo) - 1
      /\ ToSet(p.todo) = ToSet(Tail(p.todo)) \cup {Head(p.todo)}
  BY <1>0, JobFields, TailAndHead
<1>3. /\ Append(p.kept, Head(p.todo)) \in Seq(Movements)
      /\ Len(Append(p.kept, Head(p.todo))) = Len(p.kept) + 1
      /\ ToSet(Append(p.kept, Head(p.todo))) = ToSet(p.kept) \cup {Head(p.todo)}
  BY <1>0, <1>2, JobFields, AppendedSet, AppendAdds
<1>4. q \in Job
  BY <1>0, <1>2, <1>3 DEF Job, p
<1>5. Stage(q)
  BY <1>0, <1>1 DEF Stage
<1>6. InHand(q) = InHand(p)
  BY <1>1, <1>2, <1>3 DEF InHand
<1>7. Lot(q) = Lot(p)
  <2>1. PICK m \in Nat, f \in Nat, x \in Nat, t \in Nat, k \in Nat :
          /\ m = p.imported /\ f = p.fuzzy /\ x = Len(p.failed)
          /\ t = Len(p.todo) /\ k = Len(p.kept)
    BY <1>0, JobFields
  <2>2. /\ q.imported = m /\ q.fuzzy = f /\ Len(q.failed) = x
        /\ Len(q.todo) = t - 1 /\ Len(q.kept) = k + 1
    BY <1>1, <1>2, <1>3, <2>1
  <2>3. Lot(p) = m + f + x + t + k /\ Lot(q) = m + f + x + (t - 1) + (k + 1)
    BY <2>1, <2>2, Zenon DEF Lot
  <2>4. m + f + x + (t - 1) + (k + 1) = m + f + x + t + k
    BY SMT
  <2>. QED
    BY <2>3, <2>4
<1>. QED
  BY <1>0, <1>1, <1>4, <1>5, <1>6, <1>7 DEF JobFits, GoesOn, p

\* A line that is left out has a row.
LEMMA LeaveOutFits ==
    ASSUME IngestionInv, NEW i \in Imports, job[i].at = "examine", job[i].todo # <<>>, NEW q,
           HasRow(Head(job[i].todo), rows),
           q = [job[i] EXCEPT !.todo = Tail(@), !.fuzzy = @ + 1]
    PROVE  JobFits(q) /\ GoesOn(i, q)
<1>. DEFINE p == job[i]
<1>0. p \in Job /\ JobFits(p) /\ p.at = "examine" /\ p.todo # <<>>
  BY JobIsFit DEF JobFits
<1>1. /\ q.at = p.at /\ q.source = p.source /\ q.sent = p.sent /\ q.imported = p.imported
      /\ q.kept = p.kept /\ q.failed = p.failed
      /\ q.todo = Tail(p.todo) /\ q.fuzzy = p.fuzzy + 1
  BY <1>0 DEF Job
<1>2. HasRow(Head(p.todo), rows)
  OBVIOUS
<1>. HIDE DEF p
<1>3. /\ Head(p.todo) \in Movements /\ Tail(p.todo) \in Seq(Movements)
      /\ Len(Tail(p.todo)) = Len(p.todo) - 1
      /\ ToSet(p.todo) = ToSet(Tail(p.todo)) \cup {Head(p.todo)}
  BY <1>0, JobFields, TailAndHead
<1>4. q \in Job
  <2>1. p.fuzzy + 1 \in Nat
    BY <1>0, JobFields
  <2>. QED
    BY <1>0, <1>3, <2>1 DEF Job, p
<1>5. Stage(q)
  BY <1>0, <1>1 DEF Stage
<1>6. InHand(p) \subseteq InHand(q) \cup {Head(p.todo)}
  BY <1>1, <1>3 DEF InHand
<1>7. \A k \in DOMAIN q.sent : HasRow(q.sent[k], rows) \/ q.sent[k] \in InHand(q)
  BY <1>0, <1>1, <1>2, <1>6 DEF JobFits
<1>8. Lot(q) = Lot(p)
  <2>1. PICK m \in Nat, f \in Nat, x \in Nat, t \in Nat, k \in Nat :
          /\ m = p.imported /\ f = p.fuzzy /\ x = Len(p.failed)
          /\ t = Len(p.todo) /\ k = Len(p.kept)
    BY <1>0, JobFields
  <2>2. /\ q.imported = m /\ q.fuzzy = f + 1 /\ Len(q.failed) = x
        /\ Len(q.todo) = t - 1 /\ Len(q.kept) = k
    BY <1>1, <1>3, <2>1
  <2>3. Lot(p) = m + f + x + t + k /\ Lot(q) = m + (f + 1) + x + (t - 1) + k
    BY <2>1, <2>2, Zenon DEF Lot
  <2>4. m + (f + 1) + x + (t - 1) + k = m + f + x + t + k
    BY SMT
  <2>. QED
    BY <2>3, <2>4
<1>. QED
  BY <1>0, <1>1, <1>4, <1>5, <1>7, <1>8 DEF JobFits, GoesOn, p

LEMMA ExamineKeeps ==
    ASSUME IngestionInv, NEW i \in Imports, Examine(i), UNCHANGED bound
    PROVE  IngestionInv'
<1>1. RestTyped' /\ rows' = rows /\ job[i].at = "examine" /\ job[i].todo # <<>>
  BY DEF Examine, Examining, RestTyped, IngestionInv, IngestionTypeOK
<1>2. CASE Keep(i)
  <2>1. PICK q : q = [job[i] EXCEPT !.todo = Tail(@), !.kept = Append(@, Head(job[i].todo))]
    OBVIOUS
  <2>2. job' = [job EXCEPT ![i] = q]
    BY <1>2, <2>1 DEF Keep
  <2>. QED
    BY <1>1, <2>1, <2>2, KeepFits, JobStep
<1>3. CASE LeaveOut(i) /\ FindCandidates(Head(job[i].todo), mode[job[i].source]) # {}
  <2>1. PICK q : q = [job[i] EXCEPT !.todo = Tail(@), !.fuzzy = @ + 1]
    OBVIOUS
  <2>2. job' = [job EXCEPT ![i] = q]
    BY <1>3, <2>1 DEF LeaveOut
  <2>3. PICK n \in FindCandidates(Head(job[i].todo), mode[job[i].source]) : TRUE
    BY <1>3
  <2>4. n \in DOMAIN rows /\ LooksLike(Head(job[i].todo), rows[n])
    BY <2>3 DEF FindCandidates, SeenRaw, Matches, SameMoney, LooksLike
  <2>5. HasRow(Head(job[i].todo), rows)
    BY <2>4 DEF HasRow
  <2>. QED
    BY <1>1, <2>1, <2>2, <2>5, LeaveOutFits, JobStep
<1>. QED
  BY <1>2, <1>3 DEF Examine

LEMMA FallBackKeeps ==
    ASSUME IngestionInv, NEW i \in Imports, FallBack(i), UNCHANGED bound
    PROVE  IngestionInv'
<1>1. job[i].source \in Sources
  BY DEF IngestionInv, IngestionTypeOK, Job
<1>2. RestTyped'
  BY <1>1, BoundsAssumption DEF FallBack, Fault, RestTyped, IngestionInv, IngestionTypeOK
<1>3. job' = [job EXCEPT ![i] = job[i]] /\ rows' = rows
  BY DEF FallBack, IngestionInv, IngestionTypeOK
<1>. QED
  BY <1>2, <1>3, JobIsFit, JobStep DEF GoesOn

LEMMA QueryFailsKeeps ==
    ASSUME IngestionInv, NEW i \in Imports, QueryFails(i), UNCHANGED bound
    PROVE  IngestionInv'
<1>1. RestTyped' /\ rows' = rows /\ job[i].at = "examine" /\ job[i].todo # <<>>
  BY BoundsAssumption
     DEF QueryFails, Examining, Fault, RestTyped, IngestionInv, IngestionTypeOK
<1>2. PICK q : q = [job[i] EXCEPT !.todo = Tail(@), !.kept = Append(@, Head(job[i].todo))]
  OBVIOUS
<1>3. job' = [job EXCEPT ![i] = q]
  BY <1>2 DEF QueryFails, Keep
<1>. QED
  BY <1>1, <1>2, <1>3, KeepFits, JobStep

\* A step that only changes where the import is.
LEMMA MoveFits ==
    ASSUME IngestionInv, NEW i \in Imports, NEW at \in {"insert", "done"},
           job[i].todo = <<>>, at = "done" => job[i].kept = <<>>,
           NEW q, q = [job[i] EXCEPT !.at = at]
    PROVE  JobFits(q) /\ GoesOn(i, q)
<1>. DEFINE p == job[i]
<1>0. p \in Job /\ JobFits(p)
  BY JobIsFit DEF JobFits
<1>1. /\ q.at = at /\ q.source = p.source /\ q.sent = p.sent /\ q.imported = p.imported
      /\ q.kept = p.kept /\ q.failed = p.failed /\ q.todo = p.todo /\ q.fuzzy = p.fuzzy
  BY <1>0 DEF Job
<1>2. q \in Job
  BY <1>0 DEF Job
<1>3. Stage(q)
  BY <1>1 DEF Stage
<1>4. InHand(q) = InHand(p) /\ Lot(q) = Lot(p)
  BY <1>1 DEF InHand, Lot
<1>. QED
  BY <1>0, <1>1, <1>2, <1>3, <1>4 DEF JobFits, GoesOn

LEMMA EndExamineKeeps ==
    ASSUME IngestionInv, NEW i \in Imports, EndExamine(i), UNCHANGED bound
    PROVE  IngestionInv'
<1>1. RestTyped' /\ rows' = rows /\ job[i].todo = <<>>
  BY DEF EndExamine, RestTyped, IngestionInv, IngestionTypeOK
<1>2. PICK q : q = [job[i] EXCEPT !.at = "insert"]
  OBVIOUS
<1>3. job' = [job EXCEPT ![i] = q]
  BY <1>2 DEF EndExamine
<1>. QED
  BY <1>1, <1>2, <1>3, MoveFits, JobStep

LEMMA ReturnKeeps ==
    ASSUME IngestionInv, NEW i \in Imports, Return(i), UNCHANGED bound
    PROVE  IngestionInv'
<1>1. RestTyped' /\ rows' = rows /\ job[i].todo = <<>> /\ job[i].kept = <<>>
  BY DEF Return, RestTyped, IngestionInv, IngestionTypeOK, Stages, Stage
<1>2. PICK q : q = [job[i] EXCEPT !.at = "done"]
  OBVIOUS
<1>3. job' = [job EXCEPT ![i] = q]
  BY <1>2 DEF Return
<1>. QED
  BY <1>1, <1>2, <1>3, MoveFits, JobStep

\* A chunk that an import gives up.
GivesUp(i, q) == q = [job[i] EXCEPT !.kept = Rest(i), !.failed = @ \o Chunk(i)]

LEMMA GiveUpFits ==
    ASSUME IngestionInv, NEW i \in Imports, job[i].at = "insert", NEW q, GivesUp(i, q)
    PROVE  /\ JobFits(q) /\ GoesOn(i, q) /\ q.sent = job[i].sent
           /\ InHand(q) = InHand(job[i]) /\ ToSet(Chunk(i)) \subseteq ToSet(q.failed)
<1>4. PICK p : p = job[i]
  OBVIOUS
<1>5. p \in Job /\ JobFits(p) /\ p.at = "insert"
  BY <1>4, JobIsFit DEF JobFits
<1>6. /\ q.at = p.at /\ q.source = p.source /\ q.sent = p.sent /\ q.imported = p.imported
      /\ q.fuzzy = p.fuzzy /\ q.todo = p.todo
      /\ q.kept = Rest(i) /\ q.failed = p.failed \o Chunk(i)
  BY <1>4, <1>5 DEF Job, GivesUp
<1>7. Parts(Movements, p.kept, Chunk(i), Rest(i))
  BY <1>4, <1>5, JobFields, ChunkAndRest
<1>8. /\ p.failed \o Chunk(i) \in Seq(Movements)
      /\ Len(p.failed \o Chunk(i)) = Len(p.failed) + Len(Chunk(i))
      /\ ToSet(p.failed \o Chunk(i)) = ToSet(p.failed) \cup ToSet(Chunk(i))
  BY <1>5, <1>7, JobFields, JoinedSet DEF Parts
<1>9. q \in Job
  BY <1>4, <1>5, <1>7, <1>8 DEF Job, Parts, GivesUp
<1>10. Stage(q)
  BY <1>5, <1>6 DEF JobFits, Stage
<1>11. InHand(q) = InHand(p)
  BY <1>6, <1>7, <1>8 DEF InHand, Parts
<1>12. Lot(q) = Lot(p)
  <2>1. PICK m \in Nat, f \in Nat, x \in Nat, t \in Nat, k \in Nat :
          /\ m = p.imported /\ f = p.fuzzy /\ x = Len(p.failed)
          /\ t = Len(p.todo) /\ k = Len(p.kept)
    BY <1>5, JobFields
  <2>2. PICK c \in Nat, r \in Nat : c = Len(Chunk(i)) /\ r = Len(Rest(i)) /\ c + r = k
    BY <1>7, <2>1 DEF Parts
  <2>3. /\ q.imported = m /\ q.fuzzy = f /\ Len(q.failed) = x + c
        /\ Len(q.todo) = t /\ Len(q.kept) = r
    BY <1>6, <1>8, <2>1, <2>2
  <2>4. Lot(p) = m + f + x + t + k /\ Lot(q) = m + f + (x + c) + t + r
    BY <2>1, <2>3, Zenon DEF Lot
  <2>5. m + f + (x + c) + t + r = m + f + x + t + k
    BY <2>2
  <2>. QED
    BY <2>4, <2>5
<1>13. JobFits(q)
  BY <1>5, <1>6, <1>9, <1>10, <1>11, <1>12 DEF JobFits
<1>. QED
  BY <1>4, <1>6, <1>8, <1>11, <1>13 DEF GoesOn

LEMMA ChunkFailsKeeps ==
    ASSUME IngestionInv, NEW i \in Imports, ChunkFails(i), UNCHANGED bound
    PROVE  IngestionInv'
<1>1. RestTyped' /\ rows' = rows /\ job[i].at = "insert"
  BY BoundsAssumption DEF ChunkFails, Fault, RestTyped, IngestionInv, IngestionTypeOK
<1>2. PICK q : q = [job[i] EXCEPT !.kept = Rest(i), !.failed = @ \o Chunk(i)]
  OBVIOUS
<1>3. job' = [job EXCEPT ![i] = q]
  BY <1>2 DEF ChunkFails
<1>. QED
  BY <1>1, <1>2, <1>3, GiveUpFits, JobStep DEF GivesUp

-----------------------------------------------------------------------------
(* The steps of the rows.                                                  *)

\* The rows that a batch adds, with some of those before.
Added(t) == (Len(rows) + 1)..Len(t)
Grown(i, t, S) ==
    /\ DOMAIN t = DOMAIN rows \cup Added(t) /\ DOMAIN rows \cap Added(t) = {}
    /\ \A n \in Added(t) : t[n].by = i
    /\ IsFiniteSet(S \cup Added(t))
    /\ Cardinality(S \cup Added(t)) = Cardinality(S) + (Len(t) - Len(rows))

LEMMA BatchAdds ==
    ASSUME rows \in Seq(Row), NEW i, NEW chunk, NEW k \in Nat, NEW t, Batch(t, i, chunk, k),
           NEW S \in SUBSET DOMAIN rows
    PROVE  Grown(i, t, S)
<1>1. /\ Len(rows) \in Nat /\ Len(t) \in Nat /\ Len(rows) <= Len(t)
      /\ DOMAIN rows = 1..Len(rows) /\ DOMAIN t = 1..Len(t)
  BY DEF Batch
<1>2. DOMAIN t = DOMAIN rows \cup Added(t) /\ DOMAIN rows \cap Added(t) = {}
  BY <1>1 DEF Added
<1>3. \A n \in Added(t) : t[n].by = i
  BY <1>2 DEF Batch
<1>4. IsFiniteSet(Added(t)) /\ Cardinality(Added(t)) = Len(t) - Len(rows)
  <2>0. Len(rows) + 1 \in Int /\ Len(t) \in Int /\ Len(rows) + 1 <= Len(t) + 1
    BY <1>1
  <2>1. PICK a \in Int, b \in Int : a = Len(rows) + 1 /\ b = Len(t) /\ a <= b + 1
    BY <2>0, Zenon
  <2>2. IsFiniteSet(a..b) /\ Cardinality(a..b) = IF a > b THEN 0 ELSE b - a + 1
    BY FS_Interval
  <2>3. Cardinality(a..b) = b - a + 1
    BY <2>1, <2>2
  <2>4. Added(t) = a..b
    BY <2>1 DEF Added
  <2>5. b - a + 1 = Len(t) - Len(rows)
    BY <1>1, <2>1
  <2>. QED
    BY <2>2, <2>3, <2>4, <2>5
<1>5. IsFiniteSet(S) /\ Cardinality(S) \in Nat
  BY RowSets
<1>6. Cardinality(S \cap Added(t)) = 0
  <2>1. S \cap Added(t) = {}
    BY <1>2
  <2>. QED
    BY <2>1, FS_EmptySet
<1>7. /\ IsFiniteSet(S \cup Added(t))
      /\ Cardinality(S \cup Added(t)) = Cardinality(S) + Cardinality(Added(t)) - Cardinality(S \cap Added(t))
  BY <1>4, <1>5, FS_Union
<1>8. PICK a \in Nat, b \in Nat, c \in Nat :
        a = Cardinality(S) /\ b = Len(t) /\ c = Len(rows) /\ c <= b
  BY <1>1, <1>5
<1>9. Cardinality(S \cup Added(t)) = a + (b - c) - 0
  BY <1>4, <1>6, <1>7, <1>8
<1>. QED
  <2>1. Cardinality(S \cup Added(t)) = Cardinality(S) + (Len(t) - Len(rows))
    BY <1>8, <1>9
  <2>. QED
    BY <1>2, <1>3, <1>7, <2>1, Zenon DEF Grown

\* The rows of an import, counted before and after its batch.
LEMMA BatchIsCounted ==
    ASSUME rows \in Seq(Row), NEW i, NEW chunk, NEW k \in Nat, NEW t, Batch(t, i, chunk, k)
    PROVE  /\ Cardinality(RowsOf(i, t)) = Cardinality(RowsOf(i, rows)) + (Len(t) - Len(rows))
           /\ \A j : j # i => RowsOf(j, t) = RowsOf(j, rows)
<1>2. RowsOf(i, rows) \in SUBSET DOMAIN rows
  BY DEF RowsOf
<1>3. /\ DOMAIN t = DOMAIN rows \cup Added(t) /\ DOMAIN rows \cap Added(t) = {}
      /\ \A n \in Added(t) : t[n].by = i
      /\ Cardinality(RowsOf(i, rows) \cup Added(t)) = Cardinality(RowsOf(i, rows)) + (Len(t) - Len(rows))
  <2>1. Grown(i, t, RowsOf(i, rows))
    BY <1>2, BatchAdds, Zenon
  <2>. QED
    BY <2>1, Zenon DEF Grown
<1>4. \A n \in DOMAIN rows : t[n] = rows[n]
  BY DEF Batch
<1>5. RowsOf(i, t) = RowsOf(i, rows) \cup Added(t)
  BY <1>3, <1>4 DEF RowsOf
<1>6. \A j : j # i => RowsOf(j, t) = RowsOf(j, rows)
  BY <1>3, <1>4 DEF RowsOf
<1>. QED
  BY <1>3, <1>5, <1>6

\* Any rows of the table after it are no more than those of them before and the new ones.
LEMMA BatchIsBounded ==
    ASSUME rows \in Seq(Row), NEW i, NEW chunk, NEW k \in Nat, NEW t, Batch(t, i, chunk, k),
           NEW S \in SUBSET DOMAIN rows, NEW T \in SUBSET DOMAIN t, T \cap DOMAIN rows \subseteq S
    PROVE  Cardinality(T) <= Cardinality(S) + (Len(t) - Len(rows))
<1>2. /\ DOMAIN t = DOMAIN rows \cup Added(t)
      /\ IsFiniteSet(S \cup Added(t))
      /\ Cardinality(S \cup Added(t)) = Cardinality(S) + (Len(t) - Len(rows))
  <2>1. Grown(i, t, S)
    BY BatchAdds, Zenon
  <2>. QED
    BY <2>1, Zenon DEF Grown
<1>3. T \subseteq S \cup Added(t)
  BY <1>2
<1>4. Cardinality(T) <= Cardinality(S \cup Added(t))
  BY <1>2, <1>3, FS_Subset
<1>. QED
  BY <1>2, <1>4

\* An import whose chunk has reached the table, with the answer or without.
LEMMA BatchStep ==
    ASSUME IngestionInv, RestTyped', NEW i \in Imports, NEW q, q \in Job, Stage(q),
           Lot(q) <= Len(q.sent), q.sent = job[i].sent, job' = [job EXCEPT ![i] = q],
           Chunk(i) \in Seq(Movements),
           InHand(job[i]) \subseteq InHand(q) \cup ToSet(Chunk(i)),
           Batch(rows', i, Chunk(i), Len(Chunk(i))), Counted(i, q, rows')
    PROVE  IngestionInv'
<1>0. PICK t : t = rows'
  OBVIOUS
<1>1. \A j \in Imports : job'[j] = IF j = i THEN q ELSE job[j]
  BY DEF IngestionInv, IngestionTypeOK
<1>2. rows \in Seq(Row) /\ \A n \in DOMAIN rows : n \in DOMAIN t /\ t[n] = rows[n]
  BY <1>0 DEF Batch, IngestionInv, IngestionTypeOK
<1>3. RowsStay
  BY <1>0, <1>2 DEF RowsStay, Stays
<1>4. IngestionTypeOK'
  BY DEF IngestionInv, IngestionTypeOK, RestTyped, Batch
<1>5. Stages' /\ LotsFit'
  BY <1>1 DEF IngestionInv, Stages, LotsFit
<1>6. LinesKnown'
  <2>1. \A x \in ToSet(Chunk(i)) : HasRow(x, t)
    BY <1>0 DEF Batch, ToSet
  <2>2. \A x : HasRow(x, rows) => HasRow(x, t)
    BY <1>0, <1>3, HasRowStays DEF HasRow
  <2>3. \A k \in DOMAIN q.sent : HasRow(q.sent[k], t) \/ q.sent[k] \in InHand(q)
    <3>1. JobFits(job[i])
      BY JobIsFit
    <3>. QED
      BY <2>1, <2>2, <3>1 DEF JobFits
  <2>4. \A j \in Imports \ {i} : \A k \in DOMAIN job[j].sent :
          HasRow(job[j].sent[k], t) \/ job[j].sent[k] \in InHand(job[j])
    BY <2>2 DEF IngestionInv, LinesKnown
  <2>. QED
    BY <1>0, <1>1, <2>3, <2>4 DEF LinesKnown
<1>7. RowsCounted'
  <2>0. Len(Chunk(i)) \in Nat
    OBVIOUS
  <2>1. \A j : j # i => RowsOf(j, t) = RowsOf(j, rows)
    <3>1. Batch(t, i, Chunk(i), Len(Chunk(i)))
      BY <1>0
    <3>. QED
      BY <1>2, <2>0, <3>1, BatchIsCounted
  <2>2. \A j \in Imports \ {i} : SureOf(j, job[j], t) = SureOf(j, job[j], rows)
    <3>1. \A j : RowsOf(j, rows) \subseteq DOMAIN rows
      BY DEF RowsOf
    <3>. QED
      BY <1>2, <2>1, <3>1 DEF SureOf
  <2>3. \A j \in Imports \ {i} : Counted(j, job[j], t)
    BY <2>1, <2>2 DEF IngestionInv, RowsCounted, Counted
  <2>. QED
    BY <1>0, <1>1, <2>3 DEF RowsCounted
<1>8. RowsTaken(rows)' /\ OnceIn(rows)'
  BY DEF Batch, OnceIn, RowsTaken
<1>. QED
  BY <1>4, <1>5, <1>6, <1>7, <1>8 DEF IngestionInv

\* What a batch makes of the rows, whether its import hears of it or not.
LEMMA ChunkIsSound ==
    ASSUME IngestionInv, NEW i \in Imports, job[i].at = "insert"
    PROVE  /\ Chunk(i) \in Seq(Movements)
           /\ Batch(CreateBatch(i, Chunk(i)), i, Chunk(i), Len(Chunk(i)))
<1>1. job[i].kept \in Seq(Movements)
  BY JobFields DEF IngestionInv, IngestionTypeOK
<1>2. Chunk(i) \in Seq(Movements)
  BY <1>1, ChunkAndRest DEF Parts
<1>. QED
  BY <1>2, BatchIsSound DEF IngestionInv, IngestionTypeOK

LEMMA InsertChunkKeeps ==
    ASSUME IngestionInv, NEW i \in Imports, InsertChunk(i), UNCHANGED bound
    PROVE  IngestionInv'
<1>1. RestTyped' /\ job[i].at = "insert" /\ rows \in Seq(Row)
  BY DEF InsertChunk, RestTyped, IngestionInv, IngestionTypeOK
<1>2. PICK p : p = job[i]
  OBVIOUS
<1>3. p \in Job /\ JobFits(p) /\ p.at = "insert"
  BY <1>1, <1>2, JobIsFit DEF JobFits
<1>4. Parts(Movements, p.kept, Chunk(i), Rest(i))
  BY <1>2, <1>3, JobFields, ChunkAndRest
<1>5. PICK t : t = CreateBatch(i, Chunk(i))
  OBVIOUS
<1>6. PICK l \in Nat : l = Len(Chunk(i))
  BY <1>4 DEF Parts
<1>7. Batch(t, i, Chunk(i), l) /\ Chunk(i) \in Seq(Movements)
  BY <1>1, <1>5, <1>6, ChunkIsSound
<1>8. PICK d \in Nat : d = Len(t) - Len(rows) /\ d <= l
  <2>1. Len(t) \in Nat /\ Len(rows) \in Nat /\ Len(rows) <= Len(t) /\ Len(t) <= Len(rows) + l
    BY <1>1, <1>7 DEF Batch
  <2>2. PICK a \in Nat, b \in Nat : a = Len(t) /\ b = Len(rows) /\ b <= a /\ a <= b + l
    BY <2>1
  <2>3. a - b \in Nat /\ a - b <= l
    BY <2>2
  <2>. QED
    BY <2>2, <2>3
<1>9. PICK q : q = [job[i] EXCEPT !.kept = Rest(i), !.imported = @ + d]
  OBVIOUS
<1>10. rows' = t /\ job' = [job EXCEPT ![i] = q]
  BY <1>5, <1>8, <1>9 DEF InsertChunk, Inserted
<1>11. /\ q.at = p.at /\ q.source = p.source /\ q.sent = p.sent /\ q.imported = p.imported + d
       /\ q.fuzzy = p.fuzzy /\ q.todo = p.todo /\ q.kept = Rest(i) /\ q.failed = p.failed
  BY <1>2, <1>3, <1>9 DEF Job
<1>12. q \in Job
  <2>1. p.imported + d \in Nat
    BY <1>3, JobFields
  <2>2. Rest(i) \in Seq(Movements)
    BY <1>4 DEF Parts
  <2>. QED
    BY <1>2, <1>3, <1>9, <2>1, <2>2 DEF Job
<1>13. Stage(q)
  BY <1>3, <1>11 DEF JobFits, Stage
<1>14. InHand(p) \subseteq InHand(q) \cup ToSet(Chunk(i))
  BY <1>4, <1>11 DEF InHand, Parts
<1>15. Counted(i, q, t)
  <2>. DEFINE S == SureOf(i, p, rows)
              T == SureOf(i, q, t)
  <2>1. S \in SUBSET DOMAIN rows /\ T \in SUBSET DOMAIN t
    BY DEF SureOf, RowsOf
  <2>2. T \cap DOMAIN rows \subseteq S
    BY <1>7, <1>11 DEF SureOf, RowsOf, Batch
  <2>. HIDE DEF S, T
  <2>3. /\ Cardinality(RowsOf(i, t)) = Cardinality(RowsOf(i, rows)) + d
        /\ Cardinality(T) <= Cardinality(S) + d
    <3>1. Cardinality(RowsOf(i, t)) = Cardinality(RowsOf(i, rows)) + (Len(t) - Len(rows))
      BY <1>1, <1>7, BatchIsCounted
    <3>2. Cardinality(T) <= Cardinality(S) + (Len(t) - Len(rows))
      BY <1>1, <1>7, <2>1, <2>2, BatchIsBounded
    <3>. QED
      BY <1>8, <3>1, <3>2
  <2>4. Cardinality(S) \in Nat /\ Cardinality(RowsOf(i, rows)) \in Nat
    <3>1. RowsOf(i, rows) \subseteq DOMAIN rows
      BY DEF RowsOf
    <3>. QED
      BY <1>1, <2>1, <3>1, RowSets
  <2>5. Cardinality(T) \in Nat
    <3>1. t \in Seq(Row)
      BY <1>7 DEF Batch
    <3>2. DOMAIN t = 1..Len(t) /\ IsFiniteSet(1..Len(t))
      BY <3>1, FS_Interval
    <3>. QED
      BY <2>1, <3>2, FS_Subset, FS_CardinalityType
  <2>6. Cardinality(S) <= p.imported /\ p.imported <= Cardinality(RowsOf(i, rows))
    BY <1>2 DEF IngestionInv, RowsCounted, Counted, S
  <2>7. p.imported \in Nat
    BY <1>3, JobFields
  <2>8. PICK x \in Nat, y \in Nat, z \in Nat, m \in Nat :
          /\ x = Cardinality(T) /\ y = Cardinality(S) /\ z = Cardinality(RowsOf(i, rows))
          /\ m = p.imported /\ x <= y + d /\ y <= m /\ m <= z
    BY <2>3, <2>4, <2>5, <2>6, <2>7
  <2>9. x <= m + d /\ m + d <= z + d
    BY <2>8
  <2>. QED
    BY <1>11, <2>3, <2>8, <2>9 DEF Counted, T
<1>16. Lot(q) <= Len(q.sent)
  <2>1. PICK m \in Nat, f \in Nat, x \in Nat, e \in Nat, k \in Nat, s \in Nat :
          /\ m = p.imported /\ f = p.fuzzy /\ x = Len(p.failed)
          /\ e = Len(p.todo) /\ k = Len(p.kept) /\ s = Len(p.sent)
    BY <1>3, JobFields
  <2>2. PICK r \in Nat : r = Len(Rest(i)) /\ l + r = k
    BY <1>4, <1>6, <2>1 DEF Parts
  <2>3. /\ q.imported = m + d /\ q.fuzzy = f /\ Len(q.failed) = x
        /\ Len(q.todo) = e /\ Len(q.kept) = r /\ Len(q.sent) = s
    BY <1>11, <2>1, <2>2
  <2>4. Lot(p) = m + f + x + e + k /\ Lot(q) = (m + d) + f + x + e + r /\ Lot(p) <= s
    <3>1. Lot(p) = m + f + x + e + k /\ Lot(q) = (m + d) + f + x + e + r
      BY <2>1, <2>3, Zenon DEF Lot
    <3>. QED
      BY <1>3, <2>1, <3>1 DEF JobFits
  <2>5. m + f + x + e + k <= s => (m + d) + f + x + e + r <= s
    BY <1>8, <2>2
  <2>. QED
    BY <2>3, <2>4, <2>5
<1>. QED
  BY <1>1, <1>2, <1>6, <1>7, <1>10, <1>11, <1>12, <1>13, <1>14, <1>15, <1>16, BatchStep

LEMMA ChunkUnansweredKeeps ==
    ASSUME IngestionInv, NEW i \in Imports, ChunkUnanswered(i), UNCHANGED bound
    PROVE  IngestionInv'
<1>1. RestTyped' /\ job[i].at = "insert" /\ rows \in Seq(Row)
  BY BoundsAssumption DEF ChunkUnanswered, Fault, RestTyped, IngestionInv, IngestionTypeOK
<1>2. PICK q : q = [job[i] EXCEPT !.kept = Rest(i), !.failed = @ \o Chunk(i)]
  OBVIOUS
<1>3. job' = [job EXCEPT ![i] = q]
  BY <1>2 DEF ChunkUnanswered
<1>4. /\ JobFits(q) /\ GoesOn(i, q) /\ q.sent = job[i].sent
      /\ InHand(q) = InHand(job[i]) /\ ToSet(Chunk(i)) \subseteq ToSet(q.failed)
  BY <1>1, <1>2, GiveUpFits DEF GivesUp
<1>5. PICK t : t = rows'
  OBVIOUS
<1>6. Chunk(i) \in Seq(Movements) /\ Batch(t, i, Chunk(i), Len(Chunk(i)))
  BY <1>1, <1>5, ChunkIsSound DEF ChunkUnanswered
<1>7. Counted(i, q, t)
  <2>. DEFINE S == SureOf(i, job[i], rows)
              T == SureOf(i, q, t)
  <2>1. \A n \in DOMAIN t \ DOMAIN rows : MovementOf(t[n]) \in ToSet(Chunk(i))
    BY <1>6 DEF Batch, ToSet
  <2>2. T \subseteq S
    <3>1. \A n \in DOMAIN rows : t[n] = rows[n]
      BY <1>6 DEF Batch
    <3>2. \A n \in T : n \in DOMAIN rows
      BY <1>4, <2>1 DEF SureOf, RowsOf
    <3>. QED
      BY <1>4, <3>1, <3>2 DEF SureOf, RowsOf, GoesOn
  <2>3. S \subseteq DOMAIN rows /\ RowsOf(i, rows) \subseteq DOMAIN rows
    BY DEF SureOf, RowsOf
  <2>7. /\ Cardinality(S) <= job[i].imported /\ job[i].imported <= Cardinality(RowsOf(i, rows))
        /\ q.imported = job[i].imported
    BY <1>4 DEF IngestionInv, RowsCounted, Counted, GoesOn
  <2>. HIDE DEF S, T
  <2>4. Len(Chunk(i)) \in Nat /\ Len(t) \in Nat /\ Len(rows) \in Nat /\ Len(rows) <= Len(t)
    BY <1>1, <1>6 DEF Batch
  <2>5. Cardinality(RowsOf(i, t)) = Cardinality(RowsOf(i, rows)) + (Len(t) - Len(rows))
    BY <1>1, <1>6, <2>4, BatchIsCounted
  <2>6. /\ Cardinality(T) \in Nat /\ Cardinality(S) \in Nat /\ Cardinality(T) <= Cardinality(S)
        /\ Cardinality(RowsOf(i, rows)) \in Nat
    BY <1>1, <2>2, <2>3, RowSets
  <2>8. job[i].imported \in Nat
    BY JobFields DEF IngestionInv, IngestionTypeOK
  <2>9. Cardinality(T) <= q.imported /\ q.imported <= Cardinality(RowsOf(i, t))
    BY <2>4, <2>5, <2>6, <2>7, <2>8
  <2>. QED
    BY <2>9 DEF Counted, T
<1>. QED
  BY <1>1, <1>3, <1>4, <1>5, <1>6, <1>7, BatchStep DEF JobFits

\* Rows of imports are neither made nor taken away, and the imports wait.
LEMMA RowStep ==
    ASSUME IngestionInv, RestTyped', job' = job, rows' \in Seq(Row), RowsStay,
           \A i \in Imports : RowsOf(i, rows') = RowsOf(i, rows), OnceIn(rows)'
    PROVE  IngestionInv'
<1>1. IngestionTypeOK'
  BY DEF IngestionInv, IngestionTypeOK, RestTyped
<1>2. Stages' /\ LotsFit'
  BY DEF IngestionInv, Stages, LotsFit
<1>3. LinesKnown'
  BY HasRowStays DEF IngestionInv, LinesKnown
<1>4. \A n \in DOMAIN rows : MovementOf(rows'[n]) = MovementOf(rows[n])
  BY DEF RowsStay, Stays, MovementOf
<1>5. RowsCounted'
  <2>1. \A i \in Imports : RowsOf(i, rows) \subseteq DOMAIN rows
    BY DEF RowsOf
  <2>2. \A i \in Imports : SureOf(i, job[i], rows') = SureOf(i, job[i], rows)
    BY <1>4, <2>1 DEF SureOf
  <2>. QED
    BY <2>2 DEF IngestionInv, RowsCounted, Counted
<1>6. RowsTaken(rows)'
  <2>. SUFFICES ASSUME NEW n \in DOMAIN rows', rows'[n].by \in Imports
                PROVE  rows'[n].hashed = TRUE /\ MovementOf(rows'[n]) \in Movements
    BY DEF RowsTaken
  <2>1. n \in RowsOf(rows'[n].by, rows)
    BY DEF RowsOf
  <2>2. n \in DOMAIN rows /\ rows[n].by \in Imports
    BY <2>1 DEF RowsOf
  <2>. QED
    BY <1>4, <2>2 DEF IngestionInv, RowsTaken, RowsStay, Stays
<1>. QED
  BY <1>1, <1>2, <1>3, <1>5, <1>6 DEF IngestionInv

LEMMA FileDocumentKeeps ==
    ASSUME IngestionInv, NEW l \in Documents, FileDocument(l), UNCHANGED bound
    PROVE  IngestionInv'
<1>1. RestTyped' /\ job' = job /\ rows \in Seq(Row) /\ OnceIn(rows)
  BY BoundsAssumption DEF FileDocument, RestTyped, IngestionInv, IngestionTypeOK
<1>2. PICK r : r = RowOf([line |-> l, date |-> now'], "document", FALSE)
  OBVIOUS
<1>3. r \in Row /\ r.by = "document"
  <2>1. now' \in Int
    BY <1>1, BoundsAssumption DEF RestTyped
  <2>. QED
    BY <1>2, <2>1 DEF RowOf, Row
<1>4. PICK u : u = Append(rows, r)
  OBVIOUS
<1>5. rows' = u
  BY <1>2, <1>4 DEF FileDocument
<1>6. /\ u \in Seq(Row) /\ Len(u) = Len(rows) + 1
      /\ \A n \in DOMAIN rows : n \in DOMAIN u /\ u[n] = rows[n]
      /\ u[Len(rows) + 1] = r
      /\ \A n \in DOMAIN u : n \in DOMAIN rows \/ n = Len(rows) + 1
  BY <1>1, <1>3, <1>4, AppendAdds
<1>7. RowsStay
  BY <1>5, <1>6 DEF RowsStay, Stays
<1>8. \A i \in Imports : RowsOf(i, u) = RowsOf(i, rows)
  BY <1>3, <1>6, ImportsAssumption DEF RowsOf
<1>9. OnceIn(u)
  <2>. SUFFICES ASSUME NEW m \in DOMAIN u, NEW n \in DOMAIN u, m < n,
                       {u[m].by, u[n].by} \subseteq Imports,
                       \/ SameHash(MovementOf(u[n]), u[m])
                       \/ SameFitid(MovementOf(u[n]), u[m])
                PROVE  u[m].status = "GONE"
    BY DEF OnceIn
  <2>1. m \in DOMAIN rows /\ n \in DOMAIN rows
    BY <1>3, <1>6, ImportsAssumption
  <2>. QED
    BY <1>1, <1>6, <2>1 DEF OnceIn
<1>10. OnceIn(rows)'
  BY <1>5, <1>9 DEF OnceIn
<1>. QED
  BY <1>1, <1>5, <1>6, <1>7, <1>8, <1>10, RowStep

LEMMA ReviewKeeps ==
    ASSUME IngestionInv, NEW n \in DOMAIN rows, NEW status \in {"REVIEWED", "GONE"},
           Review(n, status), UNCHANGED bound
    PROVE  IngestionInv'
<1>1. RestTyped' /\ job' = job /\ rows \in Seq(Row) /\ OnceIn(rows)
  BY BoundsAssumption DEF Review, RestTyped, IngestionInv, IngestionTypeOK
<1>2. PICK r : r = [rows[n] EXCEPT !.status = status]
  OBVIOUS
<1>3. rows[n] \in Row /\ rows[n].status = "PENDING"
  BY <1>1 DEF Review
<1>4. /\ r \in Row /\ r.line = rows[n].line /\ r.hashed = rows[n].hashed
      /\ r.date = rows[n].date /\ r.by = rows[n].by /\ r.status = status
  BY <1>2, <1>3 DEF Row
<1>5. rows' = [rows EXCEPT ![n] = r]
  BY <1>2 DEF Review
<1>6. /\ DOMAIN rows' = DOMAIN rows
      /\ \A k \in DOMAIN rows : rows'[k] = IF k = n THEN r ELSE rows[k]
  BY <1>1, <1>5
<1>7. rows' \in Seq(Row)
  BY <1>1, <1>4, <1>5
<1>8. RowsStay
  BY <1>3, <1>4, <1>6 DEF RowsStay, Stays
<1>9. \A i \in Imports : RowsOf(i, rows') = RowsOf(i, rows)
  BY <1>4, <1>6 DEF RowsOf
<1>10. OnceIn(rows)'
  <2>. SUFFICES ASSUME NEW m \in DOMAIN rows, NEW k \in DOMAIN rows, m < k,
                       {rows'[m].by, rows'[k].by} \subseteq Imports,
                       \/ SameHash(MovementOf(rows'[k]), rows'[m])
                       \/ SameFitid(MovementOf(rows'[k]), rows'[m])
                PROVE  rows'[m].status = "GONE"
    BY <1>6 DEF OnceIn, SameHash, SameFitid, MovementOf
  <2>1. /\ \A j \in {m, k} : /\ rows'[j].by = rows[j].by
                            /\ rows'[j].line = rows[j].line /\ rows'[j].date = rows[j].date
        /\ rows'[m].hashed = rows[m].hashed
    BY <1>4, <1>6
  <2>2. SameHash(MovementOf(rows[k]), rows[m]) \/ SameFitid(MovementOf(rows[k]), rows[m])
    BY <2>1 DEF SameHash, SameFitid, MovementOf
  <2>3. rows[m].status = "GONE"
    BY <1>1, <2>1, <2>2 DEF OnceIn
  <2>. QED
    BY <1>3, <1>6, <2>3
<1>. QED
  BY <1>1, <1>7, <1>8, <1>9, <1>10, RowStep

-----------------------------------------------------------------------------
(* The theorems.                                                           *)

LEMMA IngestionStarts == IngestionInit => IngestionInv
<1>. SUFFICES ASSUME IngestionInit PROVE IngestionInv
  OBVIOUS
<1>1. IngestionTypeOK
  <2>1. NewJob \in Job
    <3>1. <<>> \in Seq(Movements)
      OBVIOUS
    <3>. QED
      BY <3>1 DEF NewJob, Job, Sources
  <2>2. rows \in Seq(Row)
    BY DEF IngestionInit
  <2>. QED
    BY <2>1, <2>2, BoundsAssumption DEF IngestionInit, IngestionTypeOK
<1>2. Stages
  BY DEF IngestionInit, Stages, Stage, NewJob
<1>3. LinesKnown
  BY DEF IngestionInit, LinesKnown, NewJob
<1>4. RowsCounted
  <2>1. \A i : RowsOf(i, rows) = {}
    BY DEF IngestionInit, RowsOf
  <2>2. \A i, q : SureOf(i, q, rows) = {}
    BY <2>1 DEF SureOf
  <2>3. \A i \in Imports : job[i].imported = 0
    BY DEF IngestionInit, NewJob
  <2>4. Cardinality({}) = 0
    BY FS_EmptySet
  <2>5. ASSUME NEW i \in Imports PROVE Counted(i, job[i], rows)
    <3>1. Cardinality(RowsOf(i, rows)) = 0
      BY <2>1, <2>4, Zenon
    <3>2. Cardinality(SureOf(i, job[i], rows)) = 0
      BY <2>2, <2>4, Zenon
    <3>3. job[i].imported = 0
      BY <2>3
    <3>. QED
      BY <3>1, <3>2, <3>3 DEF Counted
  <2>. QED
    BY <2>5, Zenon DEF RowsCounted
<1>5. LotsFit
  BY DEF IngestionInit, LotsFit, Lot, NewJob
<1>6. RowsTaken(rows) /\ OnceIn(rows)
  BY DEF IngestionInit, OnceIn, RowsTaken
<1>. QED
  BY <1>1, <1>2, <1>3, <1>4, <1>5, <1>6 DEF IngestionInv

LEMMA IngestionSteps == IngestionInv /\ [IngestionNext]_ingestionVars => IngestionInv'
<1>. SUFFICES ASSUME IngestionInv, [IngestionNext]_ingestionVars PROVE IngestionInv'
  OBVIOUS
<1>1. CASE IngestionNext
  <2>1. UNCHANGED bound
    BY <1>1 DEF IngestionNext
  <2>2. ASSUME NEW i \in Imports,
               \/ \E s \in Files : ImportOFX(i, s)
               \/ \E s \in Deliveries : ReceiveMovements(i, s)
        PROVE  IngestionInv'
    BY <2>1, <2>2, IngestKeeps DEF ImportOFX, ReceiveMovements, Sources, Statements
  <2>3. ASSUME NEW i \in Imports,
               \/ Examine(i) \/ FallBack(i) \/ QueryFails(i) \/ EndExamine(i)
               \/ InsertChunk(i) \/ ChunkFails(i) \/ ChunkUnanswered(i) \/ Return(i)
        PROVE  IngestionInv'
    BY <2>1, <2>3, ExamineKeeps, FallBackKeeps, QueryFailsKeeps, EndExamineKeeps,
       InsertChunkKeeps, ChunkFailsKeeps, ChunkUnansweredKeeps, ReturnKeeps
  <2>4. ASSUME NEW l \in Documents, FileDocument(l)
        PROVE  IngestionInv'
    BY <2>1, <2>4, FileDocumentKeeps
  <2>5. ASSUME NEW n \in DOMAIN rows, NEW status \in {"REVIEWED", "GONE"},
               Review(n, status)
        PROVE  IngestionInv'
    BY <2>1, <2>5, ReviewKeeps
  <2>. QED
    BY <1>1, <2>2, <2>3, <2>4, <2>5 DEF IngestionNext, Step
<1>2. CASE UNCHANGED ingestionVars
  <2>1. RestTyped' /\ job' = job /\ rows' = rows
    BY <1>2 DEF ingestionVars, RestTyped, IngestionInv, IngestionTypeOK
  <2>2. rows' \in Seq(Row) /\ RowsStay /\ \A i \in Imports : RowsOf(i, rows') = RowsOf(i, rows)
    BY <2>1 DEF RowsStay, Stays, RowsOf, IngestionInv, IngestionTypeOK
  <2>3. OnceIn(rows)'
    BY <2>1 DEF OnceIn, IngestionInv
  <2>. QED
    BY <2>1, <2>2, <2>3, RowStep
<1>. QED
  BY <1>1, <1>2

LEMMA IngestionIsInvariant == IngestionSpec => []IngestionInv
<1>. QED
  BY IngestionStarts, IngestionSteps, PTL DEF IngestionSpec

\* The types of the rows, of the imports and of what they report (ingest, createMany, the
\* documents of the bot) hold in every state.
THEOREM IngestionTypeIsCorrect == IngestionSpec => []IngestionTypeOK
<1>1. IngestionInv => IngestionTypeOK
  BY DEF IngestionInv
<1>. QED
  BY <1>1, IngestionIsInvariant, PTL

\* Whatever the files and deliveries, the chunks, the faults and the overlap of imports: what
\* an import that has returned was sent has a row that looks like it, by the date that
\* parseDateToUTC made of the line's or took for it, or is reported as failed.
THEOREM NoLineFallsThrough == IngestionSpec => []NoLineIsLost
<1>1. IngestionInv => NoLineIsLost
  <2>. SUFFICES ASSUME IngestionInv, NEW i \in Imports, job[i].at = "done",
                       NEW k \in DOMAIN job[i].sent
                PROVE  \/ \E n \in DOMAIN rows : LooksLike(job[i].sent[k], rows[n])
                       \/ job[i].sent[k] \in ToSet(job[i].failed)
    BY DEF NoLineIsLost
  <2>1. job[i].todo = <<>> /\ job[i].kept = <<>>
    BY DEF IngestionInv, Stages, Stage
  <2>2. ToSet(<<>>) = {}
    BY DEF ToSet
  <2>3. HasRow(job[i].sent[k], rows) \/ job[i].sent[k] \in InHand(job[i])
    BY DEF IngestionInv, LinesKnown
  <2>. QED
    BY <2>1, <2>2, <2>3 DEF InHand, HasRow
<1>. QED
  BY <1>1, IngestionIsInvariant, PTL

\* The numbers that ingest returns add up to its lines, nothing counted twice; the rows it
\* counts are there, and the only others it made are of lines it reports as failed.
THEOREM ReportsAreTrue == IngestionSpec => []CountsAreTrue
<1>1. IngestionInv => CountsAreTrue
  <2>. SUFFICES ASSUME IngestionInv, NEW i \in Imports, job[i].at = "done"
                PROVE  /\ Counted(i, job[i], rows)
                       /\ job[i].imported + Duplicates(i) + Len(job[i].failed) = Len(job[i].sent)
    BY DEF CountsAreTrue, Counted, SureOf, RowsOf
  <2>1. Counted(i, job[i], rows)
    BY DEF IngestionInv, RowsCounted
  <2>2. PICK p : p = job[i]
    OBVIOUS
  <2>3. p \in Job /\ p.todo = <<>> /\ p.kept = <<>> /\ Lot(p) <= Len(p.sent)
    BY <2>2 DEF IngestionInv, IngestionTypeOK, Stages, Stage, LotsFit
  <2>4. PICK m \in Nat, f \in Nat, x \in Nat, s \in Nat :
          m = p.imported /\ f = p.fuzzy /\ x = Len(p.failed) /\ s = Len(p.sent)
    BY <2>3, JobFields
  <2>5. m + f + x + 0 + 0 <= s
    <3>1. Len(p.todo) = 0 /\ Len(p.kept) = 0
      BY <2>3
    <3>2. Lot(p) = m + f + x + 0 + 0
      BY <2>4, <3>1, Zenon DEF Lot
    <3>. QED
      BY <2>3, <2>4, <3>2
  <2>6. Duplicates(i) = (IF s - m - x - f >= 0 THEN s - m - x - f ELSE 0) + f
    BY <2>2, <2>4, Zenon DEF Duplicates
  <2>7. m + Duplicates(i) + x = s
    BY <2>5, <2>6
  <2>. QED
    BY <2>1, <2>2, <2>4, <2>7
<1>. QED
  BY <1>1, IngestionIsInvariant, PTL

\* The unique indexes keep any two imports, and two chunks of one, from making two rows of
\* lines with one identifier, or with one day, amount and description, since every hash is
\* taken of a date without its time of day: another comes only after a merge has deleted
\* the first.
THEOREM LinesHaveOneRow == IngestionSpec => []LinesComeOnce
<1>1. IngestionInv => LinesComeOnce
  <2>. SUFFICES ASSUME IngestionInv, NEW m \in DOMAIN rows, NEW n \in DOMAIN rows, Twice(m, n),
                       SameLine(rows[n].line, rows[m].line)
                PROVE  FALSE
    BY DEF LinesComeOnce
  <2>1. /\ m < n /\ {rows[m].by, rows[n].by} \subseteq Imports /\ rows[m].status # "GONE"
    BY DEF Twice
  <2>2. \A k \in {m, n} : rows[k].hashed = TRUE /\ MovementOf(rows[k]) \in Movements
    BY <2>1 DEF IngestionInv, RowsTaken
  <2>3. \A k \in {m, n} :
          rows[k].line.date \notin Unreadable => rows[k].date = Midnight(rows[k].line.date)
    <3>. SUFFICES ASSUME NEW k \in {m, n}, rows[k].line.date \notin Unreadable
                  PROVE  rows[k].date = Midnight(rows[k].line.date)
      OBVIOUS
    <3>1. MovementOf(rows[k]).line = rows[k].line /\ MovementOf(rows[k]).date = rows[k].date
      BY DEF MovementOf
    <3>. QED
      BY <2>2, <3>1, MovementFields
  <2>4. SameHash(MovementOf(rows[n]), rows[m]) \/ SameFitid(MovementOf(rows[n]), rows[m])
    <3>1. CASE rows[n].line.fitid # "none" /\ rows[n].line.fitid = rows[m].line.fitid
      BY <3>1 DEF SameFitid, MovementOf
    <3>2. CASE /\ {rows[n].line.date, rows[m].line.date} \cap Unreadable = {}
               /\ Midnight(rows[n].line.date) = Midnight(rows[m].line.date)
               /\ <<rows[n].line.amount, rows[n].line.text>>
                    = <<rows[m].line.amount, rows[m].line.text>>
      <4>1. rows[n].date = rows[m].date
        BY <2>3, <3>2
      <4>. QED
        BY <2>2, <3>2, <4>1 DEF SameHash, MovementOf
    <3>. QED
      BY <3>1, <3>2 DEF SameLine
  <2>5. rows[m].status = "GONE"
    BY <2>1, <2>4 DEF IngestionInv, OnceIn
  <2>. QED
    BY <2>1, <2>5
<1>. QED
  BY <1>1, IngestionIsInvariant, PTL
===============================================================================
