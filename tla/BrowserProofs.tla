----------------------------- MODULE BrowserProofs ----------------------------
(***************************************************************************)
(* Proofs about the client and the sessions it lives by: Sessions, for any *)
(* number of accounts, requests, codes, tokens and password changes;       *)
(* Browser, for any number of tabs and calls; and Tenancy, for any number  *)
(* of workspaces, navigations, 401s and changes.                           *)
(***************************************************************************)
EXTENDS Browser, Tenancy, FiniteSetTheorems, TLAPS

RequestState == {Idle} \cup AccountRequest \cup SessionRequest \cup Reply

\* What a login or refresh that is about to store a session has read: either no deletion
\* of sessions has come since, or it has, and the session will be called late.
Justified(q) ==
    /\ q.op = "login" /\ q.step = "create" =>
          q.seen <= purged[q.user] /\ q.seen <= q.password
    /\ q.op = "refresh" /\ q.step \in {"delete", "create"} =>
          /\ q.seen <= purged[q.proof.user]
          /\ q.seen <= q.proof.password \/ q.proof.late

\* A code that was found stays known: rows of codes are marked, never absent again.
Known(q) ==
    q.op = "reset" \/ (q.op = "verify" /\ q.step \in {"mark", "delete"}) => code[q.code] # Absent
CodesStay == \A c \in Codes : code[c] # Absent => code'[c] # Absent

\* A deletion of sessions sees a password the account has or had.
PurgesFollow == \A u \in Users : purged[u] <= user[u].password

ResetInv ==
    /\ TypeOK
    /\ PurgesFollow
    /\ SurvivorsOverlapped
    /\ \A r \in Requests : Justified(req[r]) /\ Known(req[r])

-----------------------------------------------------------------------------
(* Requests.                                                               *)

LEMMA BecomeTyped ==
    ASSUME TypeOK, NEW r \in Requests, NEW q \in RequestState, Become(r, q)
    PROVE  /\ req' \in [Requests -> RequestState]
           /\ \A x \in Requests : req'[x] = IF x = r THEN q ELSE req[x]
BY DEF TypeOK, Become, RequestState

LEMMA Kinds ==
    ASSUME NEW q \in RequestState
    PROVE  /\ q.op = "register" => q \in [op : {"register"}, step : {"create", "send"}, user : Users]
           /\ q.op = "resend"   => q \in [op : {"resend"}, step : {"send"}, user : Users]
           /\ q.op = "verify"   => q \in [op : {"verify"}, step : {"find", "mark", "delete"},
                                          user : Users, code : Codes]
           /\ q.op = "reset"    => q \in [op : {"reset"}, step : {"password", "mark", "purge"},
                                          user : Users, code : Codes]
           /\ q.op = "login" /\ q.step = "create" =>
                 q \in [op : {"login"}, step : {"create"}, user : Users, password : Passwords,
                        seen : 0..MaxPasswords]
           /\ q.op = "refresh" /\ q.step \in {"find", "discard"} =>
                 q \in [op : {"refresh"}, step : {"find", "discard"}, token : Tokens]
           /\ q.op = "refresh" /\ q.step \in {"delete", "create"} =>
                 q \in [op : {"refresh"}, step : {"delete", "create"}, proof : Proof,
                        seen : 0..MaxPasswords]
BY DEF RequestState, Idle, AccountRequest, SessionRequest, Reply

LEMMA RequestTyped ==
    ASSUME TypeOK, NEW r \in Requests
    PROVE  req[r] \in RequestState
BY DEF TypeOK, RequestState

LEMMA IdleTyped == Idle \in RequestState /\ Idle.op = "none"
BY DEF RequestState, Idle

\* The answer of a login or refresh asks for no justification.
LEMMA ReplyTyped ==
    ASSUME NEW op \in {"login", "refresh"}, NEW t \in 0..MaxTokens
    PROVE  [op |-> op, step |-> "reply", token |-> t] \in RequestState
BY DEF RequestState, Reply

LEMMA TokenTyped ==
    ASSUME TypeOK, NEW t \in Tokens, Live(t)
    PROVE  token[t] \in TokenRow
BY DEF TypeOK, Live, Absent

-----------------------------------------------------------------------------
(* What every step does to what a reset relies on.                         *)

\* Sessions that are kept, or new ones that may be.
LEMMA ResetStep ==
    ASSUME ResetInv, NEW r \in Requests, NEW q \in RequestState, Become(r, q),
           Justified(q)', Known(q)', CodesStay,
           user' \in [Users -> UserRow],
           purged' \in [Users -> 0..MaxPasswords],
           \A u \in Users : purged[u] <= purged'[u] /\ purged'[u] <= user'[u].password,
           token' \in [Tokens -> {Absent} \cup TokenRow],
           \A t \in Tokens : token'[t].row = "live" =>
              \/ token'[t] = token[t] /\ purged'[token[t].user] = purged[token[t].user]
              \/ token'[t].password >= purged'[token'[t].user] \/ token'[t].late,
           issued' \in 0..MaxTokens,
           code' \in [Codes -> {Absent} \cup CodeRow],
           raced' \subseteq Tokens
    PROVE  ResetInv'
<1>1. /\ req' \in [Requests -> RequestState]
      /\ \A x \in Requests : req'[x] = IF x = r THEN q ELSE req[x]
  BY BecomeTyped DEF ResetInv
<1>2. TypeOK'
  BY <1>1 DEF TypeOK, RequestState
<1>3. PurgesFollow'
  BY DEF PurgesFollow
<1>4. SurvivorsOverlapped'
  BY DEF ResetInv, SurvivorsOverlapped, Live
<1>5. ASSUME NEW x \in Requests
      PROVE  Justified(req[x])'
  <2>1. CASE x = r
    BY <1>1, <2>1 DEF Justified
  <2>2. CASE x # r
    <3>1. req'[x] = req[x] /\ Justified(req[x]) /\ req[x] \in RequestState
      BY <1>1, <2>2, RequestTyped DEF ResetInv
    <3>2. CASE req[x].op = "login" /\ req[x].step = "create"
      <4>1. req[x].user \in Users /\ req[x].seen \in Int /\ req[x].password \in Int
        BY <3>1, <3>2, Kinds DEF Passwords
      <4>2. purged[req[x].user] <= purged'[req[x].user]
            /\ purged[req[x].user] \in Int /\ purged'[req[x].user] \in Int
        BY <4>1 DEF ResetInv, TypeOK
      <4>3. QED
        BY <3>1, <3>2, <4>1, <4>2 DEF Justified
    <3>3. CASE req[x].op = "refresh" /\ req[x].step \in {"delete", "create"}
      <4>1. req[x].proof \in Proof /\ req[x].seen \in Int
        BY <3>1, <3>3, Kinds
      <4>2. req[x].proof.user \in Users
        BY <4>1 DEF Proof
      <4>3. purged[req[x].proof.user] <= purged'[req[x].proof.user]
            /\ purged[req[x].proof.user] \in Int /\ purged'[req[x].proof.user] \in Int
        BY <4>2 DEF ResetInv, TypeOK
      <4>4. QED
        BY <3>1, <3>3, <4>1, <4>3 DEF Justified
    <3>4. QED
      BY <3>1, <3>2, <3>3 DEF Justified
  <2>3. QED
    BY <2>1, <2>2
<1>6. ASSUME NEW x \in Requests
      PROVE  Known(req[x])'
  <2>1. CASE x = r
    BY <1>1, <2>1 DEF Known
  <2>2. CASE x # r
    <3>1. req'[x] = req[x] /\ Known(req[x]) /\ req[x] \in RequestState
      BY <1>1, <2>2, RequestTyped DEF ResetInv
    <3>2. req[x].op \in {"reset", "verify"} => req[x].code \in Codes
      BY <3>1, Kinds
    <3>3. QED
      BY <3>1, <3>2 DEF Known, CodesStay
  <2>3. QED
    BY <2>1, <2>2
<1>7. QED
  BY <1>2, <1>3, <1>4, <1>5, <1>6 DEF ResetInv

\* A step of a request that writes neither tokens nor passwords.
LEMMA QuietStep ==
    ASSUME ResetInv, NEW r \in Requests, NEW q \in RequestState, Become(r, q),
           Justified(q), Known(q), CodesStay,
           user' \in [Users -> UserRow],
           \A u \in Users : user'[u].password = user[u].password,
           code' \in [Codes -> {Absent} \cup CodeRow],
           raced' \subseteq Tokens,
           UNCHANGED <<token, issued, purged>>
    PROVE  ResetInv'
<1>1. Justified(q)' /\ Known(q)'
  <2>1. q.op \in {"reset", "verify"} => q.code \in Codes
    BY Kinds
  <2>2. QED
    BY <2>1 DEF Justified, Known, CodesStay
<1>2. \A u \in Users : /\ purged[u] \in 0..MaxPasswords
                       /\ purged[u] <= user'[u].password
  BY DEF ResetInv, TypeOK, PurgesFollow
<1>3. QED
  BY <1>1, <1>2, ResetStep DEF ResetInv, TypeOK

\* A session stored under what its request had read.
LEMMA CreateStep ==
    ASSUME ResetInv, NEW r \in Requests, NEW op \in {"login", "refresh"}, NEW row \in TokenRow,
           Create(r, op, row),
           row.password >= purged[row.user] \/ row.late,
           UNCHANGED <<user, code, purged, raced>>
    PROVE  ResetInv'
<1>1. issued + 1 \in Tokens /\ issued + 1 \in 0..MaxTokens
  BY TokensAssumption DEF Create, ResetInv, TypeOK, Tokens
<1>2. PICK q \in RequestState : q = [op |-> op, step |-> "reply", token |-> issued + 1]
  BY <1>1, ReplyTyped
<1>3. Justified(q)' /\ Known(q)' /\ CodesStay
  BY <1>2 DEF Justified, Known, CodesStay
<1>4. Become(r, q)
  BY <1>2 DEF Create
<1>5. /\ token' \in [Tokens -> {Absent} \cup TokenRow]
      /\ \A t \in Tokens : token'[t] = IF t = issued + 1 THEN row ELSE token[t]
      /\ issued' \in 0..MaxTokens
  BY <1>1 DEF Create, ResetInv, TypeOK
<1>6. \A u \in Users : purged[u] \in 0..MaxPasswords /\ purged[u] <= user[u].password
  BY DEF ResetInv, TypeOK, PurgesFollow
<1>7. /\ user' \in [Users -> UserRow]
      /\ purged' \in [Users -> 0..MaxPasswords]
      /\ code' \in [Codes -> {Absent} \cup CodeRow]
      /\ raced' \subseteq Tokens
  BY DEF ResetInv, TypeOK
<1>8. \A u \in Users : purged[u] <= purged'[u] /\ purged'[u] <= user'[u].password
  BY <1>6
<1>9. \A t \in Tokens : token'[t].row = "live" =>
         \/ token'[t] = token[t] /\ purged'[token[t].user] = purged[token[t].user]
         \/ token'[t].password >= purged'[token'[t].user] \/ token'[t].late
  BY <1>5
<1>10. QED
  BY <1>3, <1>4, <1>5, <1>7, <1>8, <1>9, ResetStep

\* A session is deleted and its request goes on.
LEMMA DeleteStep ==
    ASSUME ResetInv, NEW r \in Requests, NEW q \in RequestState, Become(r, q), Justified(q), Known(q),
           NEW t \in Tokens, token' = [token EXCEPT ![t] = Absent],
           UNCHANGED <<user, issued, code, purged, raced>>
    PROVE  ResetInv'
<1>1. /\ token' \in [Tokens -> {Absent} \cup TokenRow]
      /\ \A s \in Tokens : token'[s] = IF s = t THEN Absent ELSE token[s]
  BY DEF ResetInv, TypeOK
<1>2. \A u \in Users : purged[u] \in 0..MaxPasswords /\ purged[u] <= user[u].password
  BY DEF ResetInv, TypeOK, PurgesFollow
<1>3. \A u \in Users : purged[u] <= purged'[u] /\ purged'[u] <= user'[u].password
  BY <1>2
<1>4. \A s \in Tokens : token'[s].row = "live" =>
         \/ token'[s] = token[s] /\ purged'[token[s].user] = purged[token[s].user]
         \/ token'[s].password >= purged'[token'[s].user] \/ token'[s].late
  BY <1>1 DEF Absent
<1>5. Justified(q)' /\ Known(q)' /\ CodesStay
  BY DEF Justified, Known, CodesStay
<1>6. /\ user' \in [Users -> UserRow]
      /\ purged' \in [Users -> 0..MaxPasswords]
      /\ code' \in [Codes -> {Absent} \cup CodeRow]
      /\ raced' \subseteq Tokens
      /\ issued' \in 0..MaxTokens
  BY DEF ResetInv, TypeOK
<1>7. QED
  BY <1>1, <1>3, <1>4, <1>5, <1>6, ResetStep

LEMMA PurgeStep ==
    ASSUME ResetInv, NEW r \in Requests, ResetPurge(r)
    PROVE  ResetInv'
<1> DEFINE u == req[r].user
<1>1. u \in Users
  BY RequestTyped, Kinds DEF ResetPurge, At, ResetInv
<1>2. /\ token' = [t \in Tokens |-> IF t \in SessionsOf(u) THEN Absent ELSE token[t]]
      /\ purged' = [purged EXCEPT ![u] = user[u].password]
      /\ Become(r, Idle)
      /\ UNCHANGED <<user, issued, code, raced>>
  BY DEF ResetPurge, Finish, Become
<1> HIDE DEF u
<1>3. \A v \in Users : user[v].password \in 0..MaxPasswords
  BY PasswordsAssumption DEF ResetInv, TypeOK, UserRow, Passwords
<1>4. /\ purged' \in [Users -> 0..MaxPasswords]
      /\ \A v \in Users : purged[v] <= purged'[v] /\ purged'[v] <= user'[v].password
      /\ \A v \in Users : v # u => purged'[v] = purged[v]
  BY <1>1, <1>2, <1>3 DEF ResetInv, TypeOK, PurgesFollow
<1>5. token' \in [Tokens -> {Absent} \cup TokenRow]
  BY <1>2 DEF ResetInv, TypeOK
<1>6. \A t \in Tokens : token'[t].row = "live" =>
         token'[t] = token[t] /\ purged'[token[t].user] = purged[token[t].user]
  <2> SUFFICES ASSUME NEW t \in Tokens, token'[t].row = "live"
               PROVE  token'[t] = token[t] /\ purged'[token[t].user] = purged[token[t].user]
    OBVIOUS
  <2>1. t \notin SessionsOf(u) /\ token'[t] = token[t]
    BY <1>2 DEF Absent
  <2>2. token[t].user \in Users
    BY <2>1, TokenTyped DEF Live, ResetInv, TokenRow
  <2>3. token[t].user # u
    BY <2>1 DEF SessionsOf, Live
  <2>4. QED
    BY <2>1, <2>2, <2>3, <1>4
<1>7. /\ user' \in [Users -> UserRow]
      /\ code' \in [Codes -> {Absent} \cup CodeRow]
      /\ raced' \subseteq Tokens
      /\ issued' \in 0..MaxTokens
  BY <1>2 DEF ResetInv, TypeOK
<1>8. Justified(Idle)' /\ Known(Idle)' /\ CodesStay
  BY <1>2, IdleTyped DEF Justified, Known, CodesStay
<1>9. QED
  BY <1>2, <1>4, <1>5, <1>6, <1>7, <1>8, IdleTyped, ResetStep

-----------------------------------------------------------------------------
(* The actions, by what they write.                                        *)

\* What the quiet actions have in common: the request goes on or ends, and user, code and
\* raced may change.
Quiet(r) ==
    /\ \E q \in RequestState : Become(r, q) /\ Justified(q) /\ Known(q)
    /\ user' \in [Users -> UserRow]
    /\ \A u \in Users : user'[u].password = user[u].password
    /\ code' \in [Codes -> {Absent} \cup CodeRow] /\ CodesStay
    /\ raced' \subseteq Tokens
    /\ UNCHANGED <<token, issued, purged>>

LEMMA QuietKeeps ==
    ASSUME ResetInv, NEW r \in Requests, Quiet(r)
    PROVE  ResetInv'
<1>1. PICK q \in RequestState : Become(r, q) /\ Justified(q) /\ Known(q)
  BY DEF Quiet
<1>2. QED
  BY <1>1, QuietStep DEF Quiet

\* Nobody has to justify a request that stores no session.
LEMMA Plain ==
    ASSUME NEW q, q.op \notin {"login", "refresh"} \/ q.step \in {"reply", "find", "discard"}
    PROVE  Justified(q)
BY DEF Justified

LEMMA FinishQuiet ==
    ASSUME ResetInv, NEW r \in Requests, Finish(r),
           user' \in [Users -> UserRow],
           \A u \in Users : user'[u].password = user[u].password,
           code' \in [Codes -> {Absent} \cup CodeRow], CodesStay,
           UNCHANGED <<token, issued, purged, raced>>
    PROVE  Quiet(r)
<1>1. Become(r, Idle) /\ Justified(Idle) /\ Known(Idle)
  BY IdleTyped, Plain DEF Known, Finish, Become
<1>2. QED
  BY <1>1, IdleTyped DEF Quiet, ResetInv, TypeOK

LEMMA AccountQuiet ==
    ASSUME ResetInv, NEW r \in Requests, NEW q \in AccountRequest, Become(r, q), Known(q),
           user' \in [Users -> UserRow],
           \A u \in Users : user'[u].password = user[u].password,
           code' \in [Codes -> {Absent} \cup CodeRow], CodesStay,
           UNCHANGED <<token, issued, purged, raced>>
    PROVE  Quiet(r)
<1>1. q \in RequestState /\ q.op \notin {"login", "refresh"}
  BY DEF RequestState, AccountRequest
<1>2. Justified(q)
  BY <1>1, Plain
<1>3. QED
  BY <1>1, <1>2 DEF Quiet, ResetInv, TypeOK

LEMMA RegisterQuiet ==
    ASSUME ResetInv, NEW r \in Requests, Register(r) \/ Resend(r)
    PROVE  Quiet(r)
<1>1. /\ user \in [Users -> UserRow]
      /\ code \in [Codes -> {Absent} \cup CodeRow]
      /\ UNCHANGED code => CodesStay
  BY DEF ResetInv, TypeOK, CodesStay
<1>2. ASSUME NEW u \in Users, RegisterRead(r, u)
      PROVE  Quiet(r)
  <2>1. [op |-> "register", step |-> "create", user |-> u] \in AccountRequest
    BY DEF AccountRequest
  <2>2. QED
    BY <1>1, <1>2, <2>1, AccountQuiet DEF Known, RegisterRead, Begin, Become
<1>3. ASSUME NEW u \in Users, ResendRead(r, u)
      PROVE  Quiet(r)
  <2>1. [op |-> "resend", step |-> "send", user |-> u] \in AccountRequest
    BY DEF AccountRequest
  <2>2. QED
    BY <1>1, <1>3, <2>1, AccountQuiet DEF Known, ResendRead, Begin, Become
<1>4. CASE RegisterCreate(r)
  <2>1. req[r].user \in Users
    BY <1>4, RequestTyped, Kinds DEF RegisterCreate, At, ResetInv
  <2>2. CASE user[req[r].user].account = "none"
    <3>1. [op |-> "register", step |-> "send", user |-> req[r].user] \in AccountRequest
      BY <2>1 DEF AccountRequest
    <3>2. /\ user' \in [Users -> UserRow]
          /\ \A u \in Users : user'[u].password = user[u].password
      BY <1>1, <1>4, <2>1, <2>2 DEF RegisterCreate, UserRow
    <3>3. QED
      BY <1>1, <1>4, <2>2, <3>1, <3>2, AccountQuiet DEF Known, RegisterCreate
  <2>3. CASE user[req[r].user].account # "none"
    BY <1>1, <1>4, <2>3, FinishQuiet DEF RegisterCreate
  <2>4. QED
    BY <2>2, <2>3
<1>5. ASSUME NEW op \in {"register", "resend"}, NEW c \in Codes, SendVerificationCode(r, op, c)
      PROVE  Quiet(r)
  <2>1. req[r].user \in Users
    BY <1>5, RequestTyped, Kinds DEF SendVerificationCode, At, ResetInv
  <2>2. code' \in [Codes -> {Absent} \cup CodeRow] /\ CodesStay
    BY <1>1, <1>5, <2>1 DEF SendVerificationCode, Issue, CodeRow, CodesStay, Absent
  <2>3. QED
    BY <1>1, <1>5, <2>2, FinishQuiet DEF SendVerificationCode
<1>6. QED
  BY <1>2, <1>3, <1>4, <1>5 DEF Register, Resend

LEMMA VerifyQuiet ==
    ASSUME ResetInv, NEW r \in Requests, Verify(r)
    PROVE  Quiet(r)
<1>1. /\ user \in [Users -> UserRow]
      /\ code \in [Codes -> {Absent} \cup CodeRow]
      /\ UNCHANGED code => CodesStay
  BY DEF ResetInv, TypeOK, CodesStay
<1>2. ASSUME NEW u \in Users, NEW c \in Codes, VerifyRead(r, u, c)
      PROVE  Quiet(r)
  <2>1. [op |-> "verify", step |-> "find", user |-> u, code |-> c] \in AccountRequest
    BY DEF AccountRequest
  <2>2. QED
    BY <1>1, <1>2, <2>1, AccountQuiet DEF Known, VerifyRead, Begin, Become
<1>3. ASSUME VerifyFind(r) \/ VerifyMark(r) \/ VerifyDelete(r)
      PROVE  Quiet(r)
  <2>1. req[r] \in [op : {"verify"}, step : {"find", "mark", "delete"}, user : Users, code : Codes]
    BY <1>3, RequestTyped, Kinds DEF VerifyFind, VerifyMark, VerifyDelete, At, ResetInv
  <2>2. Known(req[r])
    BY DEF ResetInv
  <2>3. ASSUME NEW s \in {"mark", "delete"}, code[req[r].code] # Absent,
               req' = [req EXCEPT ![r].step = s]
        PROVE  \E q \in AccountRequest : Become(r, q) /\ Known(q)
    <3>1. [req[r] EXCEPT !.step = s] \in AccountRequest
      BY <2>1 DEF AccountRequest
    <3>2. Known([req[r] EXCEPT !.step = s])
      BY <2>1, <2>3 DEF Known
    <3>3. Become(r, [req[r] EXCEPT !.step = s])
      BY <2>3 DEF Become
    <3>4. QED
      BY <3>1, <3>2, <3>3
  <2>4. CASE VerifyFind(r)
    <3>1. CASE Finish(r)
      BY <1>1, <2>4, <3>1, FinishQuiet DEF VerifyFind
    <3>2. CASE ~Finish(r)
      <4>1. code[req[r].code] # Absent /\ req' = [req EXCEPT ![r].step = "mark"]
        BY <2>4, <3>2 DEF VerifyFind, Found, Absent
      <4>2. PICK q \in AccountRequest : Become(r, q) /\ Known(q)
        BY <2>3, <4>1
      <4>3. QED
        BY <1>1, <2>4, <4>2, AccountQuiet DEF VerifyFind
    <3>3. QED
      BY <3>1, <3>2
  <2>5. CASE VerifyMark(r)
    <3>1. /\ user' \in [Users -> UserRow]
          /\ \A u \in Users : user'[u].password = user[u].password
      BY <1>1, <2>1, <2>5 DEF VerifyMark, UserRow
    <3>2. code[req[r].code] # Absent
      BY <2>1, <2>2, <2>5 DEF VerifyMark, At, Known
    <3>3. PICK q \in AccountRequest : Become(r, q) /\ Known(q)
      BY <2>3, <2>5, <3>2 DEF VerifyMark
    <3>4. QED
      BY <1>1, <2>5, <3>1, <3>3, AccountQuiet DEF VerifyMark
  <2>6. CASE VerifyDelete(r)
    <3>1. code[req[r].code] \in CodeRow
      BY <1>1, <2>1, <2>2, <2>6 DEF VerifyDelete, At, Known
    <3>2. code' \in [Codes -> {Absent} \cup CodeRow] /\ CodesStay
      BY <1>1, <2>1, <2>6, <3>1 DEF VerifyDelete, CodeRow, CodesStay, Absent
    <3>3. QED
      BY <1>1, <2>6, <3>2, FinishQuiet DEF VerifyDelete
  <2>7. QED
    BY <1>3, <2>4, <2>5, <2>6
<1>4. QED
  BY <1>2, <1>3 DEF Verify

LEMMA LoginKeeps ==
    ASSUME ResetInv, NEW r \in Requests, Authenticate(r)
    PROVE  ResetInv'
<1>1. ASSUME NEW u \in Users, LoginRead(r, u)
      PROVE  ResetInv'
  <2> DEFINE q == [op |-> "login", step |-> "create", user |-> u,
                   password |-> user[u].password, seen |-> purged[u]]
  <2>1. user[u].password \in Passwords /\ purged[u] \in 0..MaxPasswords
        /\ purged[u] <= user[u].password
    BY DEF ResetInv, TypeOK, UserRow, PurgesFollow
  <2>2. q \in RequestState
    BY <2>1 DEF RequestState, SessionRequest
  <2>3. Justified(q) /\ Known(q)
    BY <2>1 DEF Justified, Known
  <2>4. Become(r, q)
    BY <1>1 DEF LoginRead, Begin, Become
  <2> HIDE DEF q
  <2>5. Quiet(r)
    BY <1>1, <2>2, <2>3, <2>4 DEF LoginRead, Quiet, ResetInv, TypeOK, CodesStay
  <2>6. QED
    BY <2>5, QuietKeeps
<1>2. CASE LoginCreate(r)
  <2> DEFINE u == req[r].user
             row == [row |-> "live", user |-> u, password |-> req[r].password,
                     login |-> issued + 1, late |-> req[r].seen < purged[u]]
  <2>1. req[r] \in [op : {"login"}, step : {"create"}, user : Users, password : Passwords,
                    seen : 0..MaxPasswords]
    BY <1>2, RequestTyped, Kinds DEF LoginCreate, At, ResetInv
  <2>2. Create(r, "login", row)
    BY <1>2 DEF LoginCreate
  <2>3. issued + 1 \in Tokens
    BY <2>2, TokensAssumption DEF Create, ResetInv, TypeOK, Tokens
  <2>4. row \in TokenRow
    BY <2>1, <2>3 DEF TokenRow
  <2>5. req[r].seen <= req[r].password
    BY <2>1 DEF ResetInv, Justified
  <2>6. row.password >= purged[row.user] \/ row.late
    <3>1. CASE req[r].seen < purged[u]
      BY <3>1
    <3>2. CASE ~(req[r].seen < purged[u])
      <4>1. req[r].password >= purged[u]
        BY <2>1, <2>5, <3>2 DEF ResetInv, TypeOK, Passwords
      <4>2. QED
        BY <4>1
    <3>3. QED
      BY <3>1, <3>2
  <2>7. UNCHANGED <<user, code, purged, raced>>
    BY <1>2 DEF LoginCreate
  <2> HIDE DEF row
  <2>8. QED
    BY <2>2, <2>4, <2>6, <2>7, CreateStep
<1>3. QED
  BY <1>1, <1>2 DEF Authenticate

\* A request that has no session to justify and no code to know.
LEMMA OtherQuiet ==
    ASSUME ResetInv, NEW r \in Requests, NEW q \in RequestState, Become(r, q),
           q.op \in {"login", "refresh"}, q.step \in {"find", "discard", "reply"},
           UNCHANGED <<user, token, issued, code, purged>>, raced' \subseteq Tokens
    PROVE  Quiet(r)
BY Plain DEF Quiet, Known, ResetInv, TypeOK, CodesStay

LEMMA RefreshFindKeeps ==
    ASSUME ResetInv, NEW r \in Requests, RefreshFind(r)
    PROVE  ResetInv'
<1> DEFINE t == req[r].token
           p == [token |-> t, user |-> token[t].user, password |-> token[t].password,
                 login |-> token[t].login, late |-> token[t].late]
           q == [op |-> "refresh", step |-> "delete", seen |-> purged[token[t].user],
                 proof |-> p]
<1>1. req[r] \in [op : {"refresh"}, step : {"find", "discard"}, token : Tokens]
  BY RequestTyped, Kinds DEF RefreshFind, At, ResetInv
<1>2. CASE Become(r, Refusal("refresh")) /\ UNCHANGED raced
  <2>1. Refusal("refresh") \in RequestState
    BY ReplyTyped, TokensAssumption DEF Refusal
  <2>2. Quiet(r)
    BY <1>2, <2>1, OtherQuiet DEF RefreshFind, Refusal, ResetInv, TypeOK
  <2>3. QED
    BY <2>2, QuietKeeps
<1>3. CASE req' = [req EXCEPT ![r].step = "discard"] /\ UNCHANGED raced
  <2>1. PICK d \in RequestState : d = [req[r] EXCEPT !.step = "discard"]
    BY <1>1 DEF RequestState, SessionRequest
  <2>2. Become(r, d) /\ d.op = "refresh" /\ d.step = "discard"
    BY <1>1, <1>3, <2>1 DEF Become
  <2>3. Quiet(r)
    BY <1>3, <2>2, OtherQuiet DEF RefreshFind, ResetInv, TypeOK
  <2>4. QED
    BY <2>3, QuietKeeps
<1>4. CASE Live(t) /\ Become(r, q) /\ raced' \in {raced, raced \cup {token[t].login}}
  <2>1. token[t] \in TokenRow
    BY <1>1, <1>4, TokenTyped DEF ResetInv
  <2>2. token[t].user \in Users /\ token[t].login \in Tokens /\ token[t].password \in Passwords
        /\ token[t].late \in BOOLEAN
    BY <2>1 DEF TokenRow
  <2>3. p \in Proof
    BY <1>1, <2>2 DEF Proof
  <2>4. purged[token[t].user] \in 0..MaxPasswords
    BY <2>2 DEF ResetInv, TypeOK
  <2>5. q \in RequestState
    BY <2>3, <2>4 DEF RequestState, SessionRequest
  <2>6. token[t].password >= purged[token[t].user] \/ token[t].late
    BY <1>1, <1>4 DEF ResetInv, SurvivorsOverlapped
  <2>7. Justified(q) /\ Known(q)
    BY <2>2, <2>4, <2>6 DEF Justified, Known, Passwords
  <2> HIDE DEF q
  <2>8. Quiet(r)
    BY <1>4, <2>2, <2>5, <2>7 DEF Quiet, RefreshFind, ResetInv, TypeOK, CodesStay
  <2>9. QED
    BY <2>8, QuietKeeps
<1>5. QED
  BY <1>2, <1>3, <1>4 DEF RefreshFind

LEMMA RefreshKeeps ==
    ASSUME ResetInv, NEW r \in Requests, Refresh(r)
    PROVE  ResetInv'
<1>1. ASSUME NEW t \in Tokens, RefreshSend(r, t)
      PROVE  ResetInv'
  <2>1. [op |-> "refresh", step |-> "find", token |-> t] \in RequestState
    BY DEF RequestState, SessionRequest
  <2>2. Quiet(r)
    BY <1>1, <2>1, OtherQuiet DEF RefreshSend, Begin, Become, ResetInv, TypeOK
  <2>3. QED
    BY <2>2, QuietKeeps
<1>2. CASE RefreshFind(r)
  BY <1>2, RefreshFindKeeps
<1>3. CASE RefreshDiscard(r)
  <2>1. req[r].token \in Tokens
    BY <1>3, RequestTyped, Kinds DEF RefreshDiscard, At, ResetInv
  <2>2. PICK q \in RequestState : q = Refusal("refresh")
    <3>1. Refusal("refresh") \in RequestState
      BY ReplyTyped, TokensAssumption DEF Refusal
    <3>2. QED
      BY <3>1
  <2>3. Justified(q) /\ Known(q)
    BY <2>2 DEF Justified, Known, Refusal
  <2>4. QED
    BY <1>3, <2>1, <2>2, <2>3, DeleteStep DEF RefreshDiscard
<1>4. CASE RefreshDelete(r)
  <2>1. req[r] \in [op : {"refresh"}, step : {"delete", "create"}, proof : Proof,
                    seen : 0..MaxPasswords]
    BY <1>4, RequestTyped, Kinds DEF RefreshDelete, At, ResetInv
  <2>2. req[r].proof.token \in Tokens
    BY <2>1 DEF Proof
  <2>3. PICK q \in RequestState : q = [req[r] EXCEPT !.step = "create"]
    BY <2>1 DEF RequestState, SessionRequest
  <2>4. Justified(q) /\ Known(q)
    BY <2>1, <2>3 DEF ResetInv, Justified, Known
  <2>5. Become(r, q)
    BY <1>4, <2>3 DEF RefreshDelete, Become
  <2>6. QED
    BY <1>4, <2>2, <2>4, <2>5, DeleteStep DEF RefreshDelete
<1>5. CASE RefreshCreate(r)
  <2> DEFINE p == req[r].proof
             row == [row |-> "live", user |-> p.user, password |-> p.password,
                     login |-> p.login, late |-> p.late \/ req[r].seen < purged[p.user]]
  <2>1. req[r] \in [op : {"refresh"}, step : {"delete", "create"}, proof : Proof,
                    seen : 0..MaxPasswords]
    BY <1>5, RequestTyped, Kinds DEF RefreshCreate, At, ResetInv
  <2>2. p \in Proof /\ req[r].seen \in 0..MaxPasswords
    BY <2>1
  <2>3. row \in TokenRow
    BY <2>2 DEF Proof, TokenRow
  <2>4. req[r].seen <= p.password \/ p.late
    BY <2>1 DEF ResetInv, Justified
  <2>5. row.password >= purged[row.user] \/ row.late
    <3>1. CASE p.late \/ req[r].seen < purged[p.user]
      BY <3>1
    <3>2. CASE ~p.late /\ ~(req[r].seen < purged[p.user])
      <4>1. p.password >= purged[p.user]
        BY <2>2, <2>4, <3>2 DEF ResetInv, TypeOK, Passwords, Proof
      <4>2. QED
        BY <4>1
    <3>3. QED
      BY <3>1, <3>2
  <2>6. Create(r, "refresh", row) /\ UNCHANGED <<user, code, purged, raced>>
    BY <1>5 DEF RefreshCreate
  <2> HIDE DEF row
  <2>7. QED
    BY <2>3, <2>5, <2>6, CreateStep
<1>6. QED
  BY <1>1, <1>2, <1>3, <1>4, <1>5 DEF Refresh

LEMMA ResetQuiet ==
    ASSUME ResetInv, NEW r \in Requests, NEW u \in Users, NEW c \in Codes, ResetFind(r, u, c)
    PROVE  Quiet(r)
<1>1. [op |-> "reset", step |-> "password", user |-> u, code |-> c] \in AccountRequest
  BY DEF AccountRequest
<1>2. code[c] # Absent
  BY DEF ResetFind, Found, Absent
<1>3. QED
  BY <1>1, <1>2, AccountQuiet
  DEF ResetFind, Begin, Become, Known, ResetInv, TypeOK, CodesStay

LEMMA ResetKeeps ==
    ASSUME ResetInv, NEW r \in Requests, ResetPassword(r)
    PROVE  ResetInv'
<1>1. ASSUME NEW u \in Users, NEW c \in Codes, ResetFind(r, u, c)
      PROVE  ResetInv'
  BY <1>1, ResetQuiet, QuietKeeps
<1>2. CASE ResetUpdate(r)
  <2>1. req[r] \in [op : {"reset"}, step : {"password", "mark", "purge"}, user : Users,
                    code : Codes]
    BY <1>2, RequestTyped, Kinds DEF ResetUpdate, At, ResetInv
  <2>2. PICK q \in RequestState : q = [req[r] EXCEPT !.step = "mark"]
    BY <2>1 DEF RequestState, AccountRequest
  <2>3. Become(r, q)
    BY <1>2, <2>2 DEF ResetUpdate, Become
  <2>4. q.op = "reset" /\ code[q.code] # Absent
    BY <2>1, <2>2 DEF ResetInv, Known
  <2>5. Justified(q)' /\ Known(q)' /\ CodesStay
    BY <1>2, <2>4 DEF ResetUpdate, Justified, Known, CodesStay
  <2>6. /\ user' \in [Users -> UserRow]
        /\ \A u \in Users : purged[u] <= user'[u].password
    <3> DEFINE v == req[r].user
               new == [user[v] EXCEPT !.password = @ + 1]
    <3>1. v \in Users /\ user \in [Users -> UserRow] /\ purged \in [Users -> 0..MaxPasswords]
      BY <2>1 DEF ResetInv, TypeOK
    <3>2. user' = [user EXCEPT ![v] = new] /\ user[v].password < MaxPasswords
      BY <1>2 DEF ResetUpdate
    <3>3. user[v] \in UserRow /\ purged[v] <= user[v].password
      BY <3>1 DEF ResetInv, PurgesFollow
    <3>4. new \in UserRow /\ purged[v] <= new.password
      BY <3>1, <3>2, <3>3, PasswordsAssumption DEF UserRow, Passwords
    <3> HIDE DEF v, new
    <3>5. QED
      BY <3>1, <3>2, <3>4 DEF ResetInv, PurgesFollow
  <2>7. /\ \A u \in Users : purged[u] <= purged'[u] /\ purged'[u] <= user'[u].password
        /\ UNCHANGED <<token, issued, code, purged, raced>>
    BY <1>2, <2>6 DEF ResetUpdate, ResetInv, TypeOK
  <2>8. QED
    BY <2>3, <2>5, <2>6, <2>7, ResetStep DEF ResetInv, TypeOK
<1>3. CASE ResetMark(r)
  <2>1. req[r] \in [op : {"reset"}, step : {"password", "mark", "purge"}, user : Users,
                    code : Codes]
    BY <1>3, RequestTyped, Kinds DEF ResetMark, At, ResetInv
  <2>2. PICK q \in AccountRequest : q = [req[r] EXCEPT !.step = "purge"]
    BY <2>1 DEF AccountRequest
  <2>3. Become(r, q)
    BY <1>3, <2>2 DEF ResetMark, Become
  <2>4. code[req[r].code] \in CodeRow /\ Known(req[r]) /\ q.code = req[r].code
    BY <2>1, <2>2 DEF ResetInv, TypeOK, Known
  <2>5. code' \in [Codes -> {Absent} \cup CodeRow] /\ CodesStay
    BY <1>3, <2>1, <2>4 DEF ResetMark, ResetInv, TypeOK, CodeRow, CodesStay, Absent
  <2>6. Known(q)
    BY <2>1, <2>4 DEF Known
  <2>7. Quiet(r)
    BY <1>3, <2>3, <2>5, <2>6, AccountQuiet DEF ResetMark, ResetInv, TypeOK
  <2>8. QED
    BY <2>7, QuietKeeps
<1>4. CASE ResetPurge(r)
  BY <1>4, PurgeStep
<1>5. QED
  BY <1>1, <1>2, <1>3, <1>4 DEF ResetPassword

\* The only step without a request of its own.
LEMMA ForgotKeeps ==
    ASSUME ResetInv, NEW u \in Users, NEW c \in Codes, ForgotPassword(u, c)
    PROVE  ResetInv'
<1>1. code' \in [Codes -> {Absent} \cup CodeRow] /\ CodesStay
  BY DEF ForgotPassword, Issue, ResetInv, TypeOK, CodeRow, CodesStay, Absent
<1>2. TypeOK'
  BY <1>1 DEF ForgotPassword, ResetInv, TypeOK
<1>3. PurgesFollow' /\ SurvivorsOverlapped'
  BY DEF ForgotPassword, ResetInv, PurgesFollow, SurvivorsOverlapped, Live
<1>4. ASSUME NEW x \in Requests
      PROVE  Justified(req[x])' /\ Known(req[x])'
  <2>1. req' = req /\ purged' = purged
    BY DEF ForgotPassword
  <2>2. Justified(req[x]) /\ Known(req[x]) /\ req[x] \in RequestState
    BY RequestTyped DEF ResetInv
  <2>3. req[x].op \in {"reset", "verify"} => req[x].code \in Codes
    BY <2>2, Kinds
  <2>4. QED
    BY <1>1, <2>1, <2>2, <2>3 DEF Justified, Known, CodesStay
<1>5. QED
  BY <1>2, <1>3, <1>4 DEF ResetInv

-----------------------------------------------------------------------------
(* Theorems.                                                               *)

LEMMA ResetInit == SInit => ResetInv
<1> SUFFICES ASSUME SInit PROVE ResetInv
  OBVIOUS
<1>1. TypeOK
  BY PasswordsAssumption, TokensAssumption DEF SInit, TypeOK, UserRow, Passwords
<1>2. PurgesFollow
  <2>1. PICK a : user = [u \in Users |-> [account |-> a, password |-> 1]]
    BY DEF SInit
  <2> SUFFICES ASSUME NEW u \in Users PROVE purged[u] <= user[u].password
    BY DEF PurgesFollow
  <2>2. purged[u] = 0
    BY DEF SInit
  <2>3. user[u].password = 1
    BY <2>1
  <2>4. QED
    BY <2>2, <2>3
<1>3. SurvivorsOverlapped
  BY DEF SInit, SurvivorsOverlapped, Live, Absent
<1>4. \A r \in Requests : Justified(req[r]) /\ Known(req[r])
  BY DEF SInit, Justified, Known, Idle
<1>5. QED
  BY <1>1, <1>2, <1>3, <1>4 DEF ResetInv

LEMMA ResetNext == ResetInv /\ [SNext]_svars => ResetInv'
<1> SUFFICES ASSUME ResetInv, [SNext]_svars PROVE ResetInv'
  OBVIOUS
<1>1. ASSUME NEW r \in Requests, Register(r) \/ Resend(r) \/ Verify(r)
      PROVE  ResetInv'
  BY <1>1, RegisterQuiet, VerifyQuiet, QuietKeeps
<1>2. ASSUME NEW r \in Requests, Authenticate(r) \/ Refresh(r) \/ ResetPassword(r)
      PROVE  ResetInv'
  BY <1>2, LoginKeeps, RefreshKeeps, ResetKeeps
<1>3. ASSUME NEW r \in Requests, Respond(r) \/ Abort(r)
      PROVE  ResetInv'
  <2>1. Quiet(r)
    BY <1>3, FinishQuiet DEF Respond, Abort, ResetInv, TypeOK, CodesStay
  <2>2. QED
    BY <2>1, QuietKeeps
<1>4. ASSUME NEW u \in Users, NEW c \in Codes, ForgotPassword(u, c)
      PROVE  ResetInv'
  BY <1>4, ForgotKeeps
<1>5. CASE UNCHANGED svars
  BY <1>5 DEF svars, ResetInv, TypeOK, PurgesFollow, SurvivorsOverlapped, Live, Justified, Known
<1>6. QED
  BY <1>1, <1>2, <1>3, <1>4, <1>5 DEF SNext

\* Accounts, sessions, codes and requests in progress keep their types.
THEOREM SessionsTypeCorrect == SSpec => []TypeOK
<1>1. ResetInv => TypeOK
  BY DEF ResetInv
<1>2. QED
  BY <1>1, ResetInit, ResetNext, PTL DEF SSpec

\* What outlives a reset was being issued when the reset deleted the sessions, or descends
\* from what was: PasswordResetService.reset changes the password first and deletes the
\* sessions last, so a login that begins after the deletion has the new password.
THEOREM OnlyOverlapsSurvive == SSpec => []SurvivorsOverlapped
<1>1. ResetInv => SurvivorsOverlapped
  BY DEF ResetInv
<1>2. QED
  BY <1>1, ResetInit, ResetNext, PTL DEF SSpec

-----------------------------------------------------------------------------
(* One session per login.                                                  *)

\* A refresh that has found the session of login l and not stored its successor yet.
Rotating(q, l) ==
    q.op = "refresh" /\ q.step \in {"delete", "create"} /\ q.proof.login = l

\* The live sessions of login l.
OfLogin(t, l) == Live(t) /\ token[t].login = l

\* A login is the number of its first token, so a new one is not in use.
LoginsIssued ==
    /\ \A t \in Tokens : Live(t) => token[t].login <= issued
    /\ \A r \in Requests, l \in Tokens : Rotating(req[r], l) => l <= issued

\* As long as no two refreshes of it overlap, a login has either one session, which at most
\* one request is about to delete, or one request that is about to store the next session.
OneSuccessor(l) ==
    /\ \A s, t \in Tokens : OfLogin(s, l) /\ OfLogin(t, l) => s = t
    /\ \A r, q \in Requests : Rotating(req[r], l) /\ Rotating(req[q], l) => r = q
    /\ \A r \in Requests, t \in Tokens :
          Rotating(req[r], l) /\ OfLogin(t, l) =>
             req[r].step = "delete" /\ req[r].proof.token = t

RotationInv ==
    /\ TypeOK
    /\ LoginsIssued
    /\ \A l \in Tokens \ raced : OneSuccessor(l)

\* A step that adds neither sessions nor rotations.
LEMMA Shrink ==
    ASSUME RotationInv, TypeOK',
           \A t \in Tokens : Live(t)' => Live(t) /\ token'[t] = token[t],
           \A r \in Requests, l \in Tokens : Rotating(req[r], l)' =>
              Rotating(req[r], l) /\ req'[r] = req[r],
           issued' = issued, raced \subseteq raced'
    PROVE  RotationInv'
<1>1. LoginsIssued'
  BY DEF RotationInv, LoginsIssued, TypeOK
<1>2. ASSUME NEW l \in Tokens \ raced'
      PROVE  OneSuccessor(l)'
  <2>1. OneSuccessor(l)
    BY DEF RotationInv
  <2>2. \A t \in Tokens : OfLogin(t, l)' => OfLogin(t, l)
    BY DEF OfLogin
  <2>3. QED
    BY <2>1, <2>2 DEF OneSuccessor
<1>3. QED
  BY <1>1, <1>2 DEF RotationInv

\* The first session of a login.
LEMMA LoginRotation ==
    ASSUME RotationInv, TypeOK', NEW r \in Requests, LoginCreate(r)
    PROVE  RotationInv'
<1> DEFINE n == issued + 1
<1>1. /\ n \in Tokens /\ issued' = n
      /\ issued \in Nat
  BY TokensAssumption DEF LoginCreate, Create, RotationInv, TypeOK, Tokens
<1>2. /\ token'[n].row = "live" /\ token'[n].login = n
      /\ \A t \in Tokens : t # n => token'[t] = token[t]
  BY <1>1 DEF LoginCreate, Create, RotationInv, TypeOK
<1>3. /\ \A x \in Requests : x # r => req'[x] = req[x]
      /\ req'[r].op = "login"
      /\ raced' = raced
  BY DEF LoginCreate, Create, Become, RotationInv, TypeOK
<1>4. \A x \in Requests, l \in Tokens : Rotating(req[x], l)' =>
         x # r /\ Rotating(req[x], l) /\ req'[x] = req[x] /\ l <= issued
  BY <1>3 DEF Rotating, RotationInv, LoginsIssued
<1>5. \A t \in Tokens : Live(t)' /\ t # n => Live(t) /\ token'[t] = token[t] /\ token[t].login <= issued
  BY <1>2 DEF Live, RotationInv, LoginsIssued
<1> HIDE DEF n
<1>6. n = issued + 1
  BY DEF n
<1>7. LoginsIssued'
  <2>1. ASSUME NEW t \in Tokens, Live(t)'
        PROVE  token'[t].login <= issued'
    <3>1. CASE t = n
      BY <1>1, <1>2, <3>1, <1>6
    <3>2. CASE t # n
      <4>1. token[t].login \in Tokens /\ token'[t] = token[t] /\ token[t].login <= issued
        BY <1>5, <2>1, <3>2, TokenTyped DEF RotationInv, TokenRow
      <4>2. QED
        BY <1>1, <1>6, <4>1 DEF Tokens
    <3>3. QED
      BY <3>1, <3>2
  <2>2. ASSUME NEW x \in Requests, NEW l \in Tokens, Rotating(req[x], l)'
        PROVE  l <= issued'
    BY <1>1, <1>4, <1>6, <2>2 DEF Tokens
  <2>3. QED
    BY <2>1, <2>2 DEF LoginsIssued
<1>8. ASSUME NEW l \in Tokens \ raced'
      PROVE  OneSuccessor(l)'
  <2>1. OneSuccessor(l)
    BY <1>3 DEF RotationInv
  <2>2. CASE l = n
    <3>1. \A x \in Requests : ~Rotating(req[x], l)'
      BY <1>1, <1>4, <1>6, <2>2 DEF Tokens
    <3>2. \A t \in Tokens : OfLogin(t, l)' => t = n
      BY <1>1, <1>5, <1>6, <2>2 DEF OfLogin, Tokens
    <3>3. QED
      BY <3>1, <3>2 DEF OneSuccessor
  <2>3. CASE l # n
    <3>1. \A t \in Tokens : OfLogin(t, l)' => OfLogin(t, l)
      BY <1>2, <1>5, <2>3 DEF OfLogin
    <3>2. QED
      BY <1>4, <2>1, <3>1 DEF OneSuccessor
  <2>4. QED
    BY <2>2, <2>3
<1>9. QED
  BY <1>7, <1>8 DEF RotationInv

\* A refresh finds its token.
LEMMA FindRotation ==
    ASSUME RotationInv, TypeOK', NEW r \in Requests, RefreshFind(r)
    PROVE  RotationInv'
<1> DEFINE t == req[r].token
<1>1. req[r] \in [op : {"refresh"}, step : {"find", "discard"}, token : Tokens]
  BY RequestTyped, Kinds DEF RefreshFind, At, RotationInv
<1>2. /\ \A x \in Requests : x # r => req'[x] = req[x]
      /\ raced \subseteq raced'
      /\ UNCHANGED <<token, issued>>
  BY <1>1 DEF RefreshFind, Become, RotationInv, TypeOK
<1>3. CASE req'[r].step \in {"reply", "discard"}
  <2>1. \A x \in Requests, l \in Tokens : Rotating(req[x], l)' =>
           Rotating(req[x], l) /\ req'[x] = req[x]
    BY <1>2, <1>3 DEF Rotating
  <2>2. QED
    BY <1>2, <2>1, Shrink DEF Live
<1>4. CASE req'[r].step \notin {"reply", "discard"}
  <2>1. /\ Live(t)
        /\ req'[r].step = "delete" /\ req'[r].proof.token = t
        /\ req'[r].proof.login = token[t].login
        /\ raced' = IF BeingRotated(t) THEN raced \cup {token[t].login} ELSE raced
    BY <1>1, <1>4 DEF RefreshFind, Become, Refusal, RotationInv, TypeOK
  <2>2. t \in Tokens /\ token[t].login <= issued
    BY <1>1, <2>1 DEF RotationInv, LoginsIssued
  <2>3. LoginsIssued'
    <3>1. \A s \in Tokens : Live(s)' => token'[s].login <= issued'
      BY <1>2 DEF RotationInv, LoginsIssued, Live
    <3>2. ASSUME NEW x \in Requests, NEW l \in Tokens, Rotating(req[x], l)'
          PROVE  l <= issued'
      <4>1. CASE x = r
        BY <1>2, <2>1, <2>2, <3>2, <4>1 DEF Rotating
      <4>2. CASE x # r
        BY <1>2, <3>2, <4>2 DEF Rotating, RotationInv, LoginsIssued
      <4>3. QED
        BY <4>1, <4>2
    <3>3. QED
      BY <3>1, <3>2 DEF LoginsIssued
  <2>4. ASSUME NEW l \in Tokens \ raced'
        PROVE  OneSuccessor(l)'
    <3>1. OneSuccessor(l)
      BY <1>2 DEF RotationInv
    <3>2. \A s \in Tokens : OfLogin(s, l)' <=> OfLogin(s, l)
      BY <1>2 DEF OfLogin, Live
    <3>3. CASE token[t].login # l
      <4>1. \A x \in Requests : Rotating(req[x], l)' =>
               x # r /\ Rotating(req[x], l) /\ req'[x] = req[x]
        BY <1>2, <2>1, <3>3 DEF Rotating
      <4>2. QED
        BY <3>1, <3>2, <4>1 DEF OneSuccessor
    <3>4. CASE token[t].login = l
      <4>1. ~BeingRotated(t) /\ OfLogin(t, l)
        BY <2>1, <3>4 DEF OfLogin
      <4>2. \A x \in Requests : ~Rotating(req[x], l)
        BY <2>2, <3>1, <4>1 DEF OneSuccessor, BeingRotated, At, Rotating
      <4>3. \A x \in Requests : Rotating(req[x], l)' => x = r
        BY <1>2, <4>2 DEF Rotating
      <4>4. \A s \in Tokens : OfLogin(s, l) => s = t
        BY <2>2, <3>1, <4>1 DEF OneSuccessor
      <4>5. QED
        BY <2>1, <3>1, <3>2, <4>3, <4>4 DEF OneSuccessor
    <3>5. QED
      BY <3>3, <3>4
  <2>5. QED
    BY <2>3, <2>4 DEF RotationInv
<1>5. QED
  BY <1>3, <1>4

\* The token goes, and the request is the only heir of its login.
LEMMA DeleteRotation ==
    ASSUME RotationInv, TypeOK', NEW r \in Requests, RefreshDelete(r)
    PROVE  RotationInv'
<1> DEFINE t == req[r].proof.token
<1>1. /\ req[r] \in [op : {"refresh"}, step : {"delete", "create"}, proof : Proof,
                     seen : 0..MaxPasswords]
      /\ req[r].step = "delete"
  BY RequestTyped, Kinds DEF RefreshDelete, At, RotationInv
<1>2. t \in Tokens
  BY <1>1 DEF Proof
<1>3. /\ \A s \in Tokens : token'[s] = IF s = t THEN Absent ELSE token[s]
      /\ \A x \in Requests : x # r => req'[x] = req[x]
      /\ req'[r].op = "refresh" /\ req'[r].step = "create" /\ req'[r].proof = req[r].proof
      /\ UNCHANGED <<issued, raced>>
  BY <1>1, <1>2 DEF RefreshDelete, RotationInv, TypeOK
<1>4. \A x \in Requests, l \in Tokens : Rotating(req[x], l)' <=> Rotating(req[x], l)
  BY <1>1, <1>3 DEF Rotating
<1>5. \A s \in Tokens : Live(s)' => s # t /\ Live(s) /\ token'[s] = token[s]
  BY <1>3 DEF Live, Absent
<1>6. LoginsIssued'
  BY <1>3, <1>4, <1>5 DEF RotationInv, LoginsIssued
<1>7. ASSUME NEW l \in Tokens \ raced'
      PROVE  OneSuccessor(l)'
  <2>1. OneSuccessor(l)
    BY <1>3 DEF RotationInv
  <2>2. \A s \in Tokens : OfLogin(s, l)' => s # t /\ OfLogin(s, l)
    BY <1>5 DEF OfLogin
  <2>3. ASSUME NEW x \in Requests, NEW s \in Tokens, Rotating(req[x], l)', OfLogin(s, l)'
        PROVE  req'[x].step = "delete" /\ req'[x].proof.token = s
    <3>1. Rotating(req[x], l) /\ OfLogin(s, l) /\ s # t
      BY <1>4, <2>2, <2>3
    <3>2. req[x].step = "delete" /\ req[x].proof.token = s
      BY <2>1, <3>1 DEF OneSuccessor
    <3>3. x # r
      BY <3>1, <3>2
    <3>4. QED
      BY <1>3, <3>2, <3>3
  <2>4. QED
    BY <1>4, <2>1, <2>2, <2>3 DEF OneSuccessor
<1>8. QED
  BY <1>6, <1>7 DEF RotationInv

\* The successor is stored.
LEMMA CreateRotation ==
    ASSUME RotationInv, TypeOK', NEW r \in Requests, RefreshCreate(r)
    PROVE  RotationInv'
<1> DEFINE n == issued + 1
           k == req[r].proof.login
<1>1. req[r] \in [op : {"refresh"}, step : {"delete", "create"}, proof : Proof,
                  seen : 0..MaxPasswords]
      /\ req[r].step = "create"
  BY RequestTyped, Kinds DEF RefreshCreate, At, RotationInv
<1>2. k \in Tokens /\ Rotating(req[r], k)
  BY <1>1 DEF Proof, Rotating
<1>3. n \in Tokens /\ issued' = n /\ issued \in Nat /\ k <= issued
  BY <1>2, TokensAssumption DEF RefreshCreate, Create, RotationInv, LoginsIssued, TypeOK, Tokens
<1>4. /\ token'[n].row = "live" /\ token'[n].login = k
      /\ \A t \in Tokens : t # n => token'[t] = token[t]
  BY <1>3 DEF RefreshCreate, Create, RotationInv, TypeOK
<1>5. /\ \A x \in Requests : x # r => req'[x] = req[x]
      /\ req'[r].step = "reply"
      /\ raced' = raced
  BY DEF RefreshCreate, Create, Become, RotationInv, TypeOK
<1>6. \A x \in Requests, l \in Tokens : Rotating(req[x], l)' =>
         x # r /\ Rotating(req[x], l) /\ req'[x] = req[x] /\ l <= issued
  BY <1>5 DEF Rotating, RotationInv, LoginsIssued
<1>7. \A t \in Tokens : Live(t)' /\ t # n => Live(t) /\ token'[t] = token[t] /\ token[t].login <= issued
  BY <1>4 DEF Live, RotationInv, LoginsIssued
<1> HIDE DEF n, k
<1>8. n = issued + 1
  BY DEF n
<1>9. LoginsIssued'
  <2>1. ASSUME NEW t \in Tokens, Live(t)'
        PROVE  token'[t].login <= issued'
    <3>1. CASE t = n
      BY <1>2, <1>3, <1>4, <1>8, <3>1 DEF Tokens
    <3>2. CASE t # n
      <4>1. token[t].login \in Tokens /\ token'[t] = token[t] /\ token[t].login <= issued
        BY <1>7, <2>1, <3>2, TokenTyped DEF RotationInv, TokenRow
      <4>2. QED
        BY <1>3, <1>8, <4>1 DEF Tokens
    <3>3. QED
      BY <3>1, <3>2
  <2>2. ASSUME NEW x \in Requests, NEW l \in Tokens, Rotating(req[x], l)'
        PROVE  l <= issued'
    BY <1>3, <1>6, <1>8, <2>2 DEF Tokens
  <2>3. QED
    BY <2>1, <2>2 DEF LoginsIssued
<1>10. ASSUME NEW l \in Tokens \ raced'
       PROVE  OneSuccessor(l)'
  <2>1. OneSuccessor(l)
    BY <1>5 DEF RotationInv
  <2>2. CASE l = k
    <3>1. \A x \in Requests : ~Rotating(req[x], l)'
      BY <1>2, <1>6, <2>1, <2>2 DEF OneSuccessor
    <3>2. \A t \in Tokens : ~OfLogin(t, l)
      BY <1>1, <1>2, <2>1, <2>2 DEF OneSuccessor
    <3>3. \A t \in Tokens : OfLogin(t, l)' => t = n
      BY <1>7, <3>2 DEF OfLogin
    <3>4. QED
      BY <3>1, <3>3 DEF OneSuccessor
  <2>3. CASE l # k
    <3>1. \A t \in Tokens : OfLogin(t, l)' => OfLogin(t, l)
      BY <1>4, <1>7, <2>3 DEF OfLogin
    <3>2. QED
      BY <1>6, <2>1, <3>1 DEF OneSuccessor
  <2>4. QED
    BY <2>2, <2>3
<1>11. QED
  BY <1>9, <1>10 DEF RotationInv

\* Everything else.
Others(r) ==
    \/ Register(r) \/ Resend(r) \/ Verify(r) \/ ResetPassword(r) \/ Respond(r) \/ Abort(r)
    \/ \E u \in Users : LoginRead(r, u)
    \/ \E t \in Tokens : RefreshSend(r, t)
    \/ RefreshDiscard(r)

LEMMA OthersShrink ==
    ASSUME RotationInv, TypeOK', NEW r \in Requests, Others(r)
    PROVE  RotationInv'
<1>1. /\ issued' = issued /\ raced' = raced
      /\ \A t \in Tokens : Live(t)' => Live(t) /\ token'[t] = token[t]
  <2>1. CASE RefreshDiscard(r)
    BY <2>1 DEF RefreshDiscard, RotationInv, TypeOK, Live, Absent
  <2>2. CASE ResetPurge(r)
    BY <2>2 DEF ResetPurge, RotationInv, TypeOK, Live, Absent
  <2>3. CASE ~RefreshDiscard(r) /\ ~ResetPurge(r)
    <3>1. UNCHANGED <<token, issued, raced>>
      BY <2>3
      DEF Others, Register, RegisterRead, RegisterCreate, SendVerificationCode, Resend, ResendRead,
          Verify, VerifyRead, VerifyFind, VerifyMark, VerifyDelete, LoginRead, RefreshSend,
          Respond, ResetPassword, ResetFind, ResetUpdate, ResetMark, Abort
    <3>2. QED
      BY <3>1 DEF Live
  <2>4. QED
    BY <2>1, <2>2, <2>3
<1>2. /\ \A x \in Requests : x # r => req'[x] = req[x]
      /\ ~(req'[r].op = "refresh" /\ req'[r].step \in {"delete", "create"})
  <2>1. CASE \E u \in Users, c \in Codes : VerifyRead(r, u, c) \/ ResetFind(r, u, c)
    BY <2>1 DEF VerifyRead, ResetFind, Begin, RotationInv, TypeOK
  <2>2. CASE \E u \in Users : RegisterRead(r, u) \/ ResendRead(r, u) \/ LoginRead(r, u)
    BY <2>2 DEF RegisterRead, ResendRead, LoginRead, Begin, RotationInv, TypeOK
  <2>3. CASE RegisterCreate(r) \/ Respond(r) \/ Abort(r) \/ VerifyDelete(r) \/ ResetPurge(r)
             \/ (\E c \in Codes : SendVerificationCode(r, "register", c)
                               \/ SendVerificationCode(r, "resend", c))
    BY <2>3 DEF RegisterCreate, Respond, Abort, VerifyDelete, ResetPurge, SendVerificationCode,
                Become, Finish, Idle, RotationInv, TypeOK
  <2>4. CASE VerifyFind(r) \/ VerifyMark(r)
    <3>1. req[r] \in [op : {"verify"}, step : {"find", "mark", "delete"}, user : Users,
                      code : Codes]
      BY <2>4, RequestTyped, Kinds DEF VerifyFind, VerifyMark, At, RotationInv
    <3>2. QED
      BY <2>4, <3>1 DEF VerifyFind, VerifyMark, Finish, Idle, RotationInv, TypeOK
  <2>5. CASE ResetUpdate(r) \/ ResetMark(r)
    <3>1. req[r] \in [op : {"reset"}, step : {"password", "mark", "purge"}, user : Users,
                      code : Codes]
      BY <2>5, RequestTyped, Kinds DEF ResetUpdate, ResetMark, At, RotationInv
    <3>2. QED
      BY <2>5, <3>1 DEF ResetUpdate, ResetMark, RotationInv, TypeOK
  <2>6. CASE \E t \in Tokens : RefreshSend(r, t)
    BY <2>6 DEF RefreshSend, Begin, RotationInv, TypeOK
  <2>7. CASE RefreshDiscard(r)
    BY <2>7 DEF RefreshDiscard, Become, Refusal, RotationInv, TypeOK
  <2>8. QED
    BY <2>1, <2>2, <2>3, <2>4, <2>5, <2>6, <2>7
    DEF Others, Register, Resend, Verify, ResetPassword
<1>3. \A x \in Requests, l \in Tokens : Rotating(req[x], l)' =>
         Rotating(req[x], l) /\ req'[x] = req[x]
  BY <1>2 DEF Rotating
<1>4. QED
  BY <1>1, <1>3, Shrink

LEMMA RotationInit == SInit => RotationInv
<1> SUFFICES ASSUME SInit PROVE RotationInv
  OBVIOUS
<1>1. TypeOK
  BY ResetInit DEF ResetInv
<1>2. \A t \in Tokens : ~Live(t)
  BY DEF SInit, Live, Absent
<1>3. \A r \in Requests, l \in Tokens : ~Rotating(req[r], l)
  BY DEF SInit, Rotating, Idle
<1>4. QED
  BY <1>1, <1>2, <1>3 DEF RotationInv, LoginsIssued, OneSuccessor, OfLogin

LEMMA RotationNext == RotationInv /\ TypeOK' /\ [SNext]_svars => RotationInv'
<1> SUFFICES ASSUME RotationInv, TypeOK', [SNext]_svars PROVE RotationInv'
  OBVIOUS
<1>1. ASSUME NEW r \in Requests, Others(r)
      PROVE  RotationInv'
  BY <1>1, OthersShrink
<1>2. ASSUME NEW r \in Requests,
             LoginCreate(r) \/ RefreshFind(r) \/ RefreshDelete(r) \/ RefreshCreate(r)
      PROVE  RotationInv'
  BY <1>2, LoginRotation, FindRotation, DeleteRotation, CreateRotation
<1>3. ASSUME NEW u \in Users, NEW c \in Codes, ForgotPassword(u, c)
      PROVE  RotationInv'
  BY <1>3, Shrink DEF ForgotPassword, Live, Rotating
<1>4. CASE UNCHANGED svars
  BY <1>4, Shrink DEF svars, Live, Rotating
<1>5. QED
  BY <1>1, <1>2, <1>3, <1>4 DEF SNext, Others, Authenticate, Refresh

\* A login has one session, unless two refreshes of it overlap: AuthService.refreshToken
\* deletes the token before it stores the next one, and whoever looks in between finds none.
THEOREM OneSessionPerLogin == SSpec => []RotationKeepsOne
<1>1. RotationInv => RotationKeepsOne
  <2> SUFFICES ASSUME RotationInv, NEW s \in Tokens, NEW t \in Tokens,
                      Live(s), Live(t), token[s].login = token[t].login,
                      token[s].login \notin raced
               PROVE  s = t
    BY DEF RotationKeepsOne
  <2>1. token[s].login \in Tokens
    BY TokenTyped DEF RotationInv, TokenRow
  <2>2. OneSuccessor(token[s].login)
    BY <2>1 DEF RotationInv
  <2>3. QED
    BY <2>2 DEF OneSuccessor, OfLogin
<1>2. SSpec => []TypeOK
  BY SessionsTypeCorrect
<1>3. QED
  BY <1>1, <1>2, RotationInit, RotationNext, PTL DEF SSpec

-----------------------------------------------------------------------------
(* Browser.  Its server is the server of Sessions.                         *)

PagesTyped ==
    /\ stored \in 0..MaxTokens
    /\ tab \in [Tabs -> Page]
    /\ DOMAIN call = Tabs /\ \A b \in Tabs : call[b] \in [Calls[b] -> Call]
    /\ spent \in 0..MaxTokens
    /\ disturbed \in BOOLEAN

ServerInv == ResetInv /\ PagesTyped

LEMMA TakeIsServer ==
    ASSUME ServerInv, NEW b \in Tabs, Take(b), req[b] = Idle \/ req[b].step = "reply"
    PROVE  [SNext]_svars
<1>1. b \in Requests
  BY TabsAssumption
<1>2. CASE req[b] = Idle
  <2>1. req' = req
    BY <1>1, <1>2 DEF Take, ServerInv, ResetInv, TypeOK
  <2>2. QED
    BY <2>1 DEF Take, svars
<1>3. CASE req[b].step = "reply"
  BY <1>1, <1>3 DEF Take, Respond, Finish, SNext
<1>4. QED
  BY <1>2, <1>3

LEMMA SendIsServer ==
    ASSUME ServerInv, NEW b \in Tabs, stored # 0, RefreshSend(b, stored)
    PROVE  [SNext]_svars
<1>1. b \in Requests /\ stored \in Tokens
  BY TabsAssumption, TokensAssumption DEF ServerInv, PagesTyped, Tokens
<1>2. QED
  BY <1>1 DEF Refresh, SNext

LEMMA TabNextIsServer ==
    ASSUME ServerInv, NEW b \in Tabs, TabNext(b) \/ Lost(b)
    PROVE  [SNext]_svars
<1>1. b \in Requests
  BY TabsAssumption
<1>2. CASE Mount(b)
  BY <1>2, SendIsServer DEF Mount
<1>3. CASE Hear(b)
  <2>1. Take(b)
    BY <1>3 DEF Hear, RestoreRefreshed, RestoreRefused, LoginSucceeds, LoginFails, Refreshed, RefreshRefused
  <2>2. req[b] = Idle \/ req[b].step = "reply"
    BY <1>3 DEF Hear, RestoreRefreshed, RestoreRefused, LoginSucceeds, LoginFails, Refreshed, RefreshRefused,
                Heard
  <2>3. QED
    BY <2>1, <2>2, TakeIsServer
<1>4. CASE \E u \in Users : Submit(b, u)
  BY <1>1, <1>4 DEF Submit, Authenticate, SNext
<1>5. CASE ServerStep(b)
  BY <1>1, <1>5 DEF ServerStep, Authenticate, Refresh, SNext
<1>6. CASE Drop(b)
  BY <1>1, <1>6 DEF Drop, SNext
<1>7. CASE Lost(b)
  BY <1>1, <1>7 DEF Lost, SNext
<1>8. CASE \E c \in Calls[b] : LeadRefresh(b, c)
  BY <1>8, SendIsServer DEF LeadRefresh
<1>9. CASE \/ RestoreMe(b) \/ RestoreMeFails(b) \/ LoginRejected(b) \/ Logout(b) \/ Unload(b) \/ Reload(b)
           \/ AccessExpires(b)
           \/ \E c \in Calls[b] : Send(b, c) \/ Answer(b, c) \/ RejectRetried(b, c) \/ Enqueue(b, c)
                                  \/ NothingToRefresh(b, c)
  <2>1. UNCHANGED svars
    BY <1>9 DEF RestoreMe, RestoreMeFails, LoginRejected, Logout, Unload, Reload, AccessExpires, Send, Answer,
                RejectRetried, Enqueue, NothingToRefresh, bvars
  <2>2. QED
    BY <2>1
<1>10. QED
  BY <1>2, <1>3, <1>4, <1>5, <1>6, <1>7, <1>8, <1>9 DEF TabNext, CallStep

LEMMA BNextIsServer == ServerInv /\ [BNext]_bvars => [SNext]_svars
<1>1. ServerInv /\ BNext => [SNext]_svars
  BY TabNextIsServer DEF BNext
<1>2. QED
  BY <1>1 DEF bvars

-----------------------------------------------------------------------------
(* The pages are pages.                                                    *)

CallsTyped == DOMAIN call = Tabs /\ \A b \in Tabs : call[b] \in [Calls[b] -> Call]

LEMMA NoCallTyped == NoCall \in Call /\ \A c \in Call : [c EXCEPT !.access = "stale"] \in Call
BY DEF NoCall, Call

LEMMA OneTabsCalls ==
    ASSUME PagesTyped, NEW b \in Tabs, NEW f \in [Calls[b] -> Call], call' = [call EXCEPT ![b] = f]
    PROVE  CallsTyped'
<1>1. DOMAIN call' = Tabs
  BY DEF PagesTyped
<1>2. \A x \in Tabs : call'[x] = IF x = b THEN f ELSE call[x]
  BY DEF PagesTyped
<1>3. QED
  BY <1>1, <1>2 DEF PagesTyped, CallsTyped

LEMMA SettledTyped ==
    ASSUME PagesTyped, NEW b \in Tabs, NEW cs, call' = Settled(b, cs)
    PROVE  CallsTyped'
<1>1. call[b] \in [Calls[b] -> Call]
  BY DEF PagesTyped
<1>2. [c \in Calls[b] |-> IF c \in cs THEN NoCall ELSE call[b][c]] \in [Calls[b] -> Call]
  BY <1>1, NoCallTyped
<1>3. QED
  BY <1>2, OneTabsCalls DEF Settled

LEMMA OneFieldTyped ==
    ASSUME NEW f, DOMAIN f = Tabs, \A b \in Tabs : f[b] \in [Calls[b] -> Call],
           NEW b \in Tabs, NEW c \in Calls[b], NEW new \in Call, NEW g, g = [f EXCEPT ![b][c] = new]
    PROVE  /\ DOMAIN g = Tabs /\ \A x \in Tabs : g[x] \in [Calls[x] -> Call]
           /\ g[b][c] = new
<1>1. [f[b] EXCEPT ![c] = new] \in [Calls[b] -> Call]
  OBVIOUS
<1>2. DOMAIN g = Tabs /\ \A x \in Tabs : g[x] = IF x = b THEN [f[b] EXCEPT ![c] = new] ELSE f[x]
  OBVIOUS
<1>3. QED
  BY <1>1, <1>2

LEMMA OneCallTyped ==
    ASSUME PagesTyped, NEW b \in Tabs, NEW c \in Calls[b], NEW new \in Call,
           call' = [call EXCEPT ![b][c] = new]
    PROVE  CallsTyped'
<1>1. call[b] \in [Calls[b] -> Call]
  BY DEF PagesTyped
<1>2. [call[b] EXCEPT ![c] = new] \in [Calls[b] -> Call]
  BY <1>1
<1>3. QED
  BY <1>2, OneTabsCalls

LEMMA CallStepsTyped ==
    ASSUME PagesTyped, NEW b \in Tabs, NEW c \in Calls[b], Send(b, c) \/ CallStep(b, c)
    PROVE  PagesTyped'
<1>. USE DEF CallStep
<1>1. call[b] \in [Calls[b] -> Call] /\ call[b][c] \in Call /\ tab[b] \in Page
  BY DEF PagesTyped
<1>2. CallsTyped'
  <2>1. CASE Send(b, c)
    <3>1. [at |-> "sent", access |-> tab[b].access, retry |-> FALSE] \in Call
      BY <1>1 DEF Call, Page
    <3>2. QED
      BY <2>1, <3>1, OneCallTyped DEF Send
  <2>2. CASE Answer(b, c) \/ RejectRetried(b, c) \/ NothingToRefresh(b, c)
    BY <2>2, SettledTyped DEF Answer, RejectRetried, NothingToRefresh
  <2>3. CASE Enqueue(b, c)
    <3>1. [call[b][c] EXCEPT !.at = "queued"] \in Call
      BY <1>1 DEF Call
    <3>2. call' = [call EXCEPT ![b][c] = [call[b][c] EXCEPT !.at = "queued"]]
      BY <2>3 DEF Enqueue
    <3>3. QED
      BY <3>1, <3>2, OneCallTyped
  <2>4. CASE LeadRefresh(b, c)
    <3>. PICK f : f = [call EXCEPT ![b][c] = [call[b][c] EXCEPT !.at = "leading"]]
      OBVIOUS
    <3>1. [call[b][c] EXCEPT !.at = "leading"] \in Call
      BY <1>1 DEF Call
    <3>2. /\ DOMAIN f = Tabs /\ \A x \in Tabs : f[x] \in [Calls[x] -> Call]
      BY <3>1, OneFieldTyped DEF PagesTyped
    <3>3. f[b][c] \in Call
      BY <3>2
    <3>4. [f[b][c] EXCEPT !.retry = TRUE] \in Call
      BY <3>3 DEF Call
    <3>5. call' = [f EXCEPT ![b][c] = [f[b][c] EXCEPT !.retry = TRUE]]
      BY <2>4 DEF LeadRefresh
    <3>6. QED
      BY <3>2, <3>4, <3>5, OneFieldTyped DEF CallsTyped
  <2>5. QED
    BY <2>1, <2>2, <2>3, <2>4
<1>3. tab' \in [Tabs -> Page]
  <2>1. CASE LeadRefresh(b, c)
    <3>1. [[tab[b] EXCEPT !.waits = "refresh"] EXCEPT !.isRefreshing = TRUE] \in Page
      BY <1>1 DEF Page
    <3>2. QED
      BY <1>1, <2>1, <3>1 DEF LeadRefresh, PagesTyped
  <2>2. CASE NothingToRefresh(b, c)
    <3>1. [tab[b] EXCEPT !.at = "leaving", !.access = "none", !.isRefreshing = TRUE] \in Page
      BY <1>1 DEF Page
    <3>2. QED
      BY <1>1, <2>2, <3>1 DEF NothingToRefresh, PagesTyped
  <2>3. CASE Send(b, c) \/ Answer(b, c) \/ RejectRetried(b, c) \/ Enqueue(b, c)
    BY <2>3 DEF Send, Answer, RejectRetried, Enqueue, PagesTyped
  <2>4. QED
    BY <2>1, <2>2, <2>3
<1>4. stored' = stored /\ spent' = spent /\ disturbed' \in BOOLEAN
  BY DEF Send, Answer, RejectRetried, Enqueue, LeadRefresh, NothingToRefresh, PagesTyped
<1>5. QED
  BY <1>2, <1>3, <1>4 DEF CallsTyped, PagesTyped

LEMMA CostsTyped ==
    ASSUME PagesTyped, NEW n \in Nat, Costs(n)
    PROVE  spent' \in 0..MaxTokens
BY TokensAssumption DEF PagesTyped, Costs

\* A tab's page becomes another one.
LEMMA PageTyped ==
    ASSUME PagesTyped, NEW b \in Tabs, NEW page \in Page, tab' = [tab EXCEPT ![b] = page]
    PROVE  tab' \in [Tabs -> Page]
BY DEF PagesTyped

LEMMA ZeroTyped == 0 \in 0..MaxTokens /\ Tokens \subseteq 0..MaxTokens
BY TokensAssumption DEF Tokens

LEMMA BlankTyped == Blank \in Page /\ [Blank EXCEPT !.at = "login"] \in Page
BY ZeroTyped DEF Blank, Page

LEMMA HearTyped ==
    ASSUME PagesTyped, NEW b \in Tabs, Hear(b)
    PROVE  PagesTyped'
<1>1. tab[b] \in Page /\ call[b] \in [Calls[b] -> Call]
  BY DEF PagesTyped
<1>2. CASE RestoreRefreshed(b)
  <2>. PICK t \in Tokens : tab' = [tab EXCEPT ![b].waits = "no", ![b].access = "fresh", ![b].held = t]
    BY <1>2 DEF RestoreRefreshed
  <2>1. [tab[b] EXCEPT !.waits = "no", !.access = "fresh", !.held = t] \in Page
    <3>1. t \in 0..MaxTokens
      BY ZeroTyped
    <3>2. QED
      BY <1>1, <3>1 DEF Page
  <2>2. tab' \in [Tabs -> Page]
    BY <1>1, <2>1 DEF PagesTyped
  <2>3. QED
    BY <1>2, <2>2 DEF RestoreRefreshed, PagesTyped
<1>3. CASE RestoreRefused(b)
  <2>1. tab' \in [Tabs -> Page]
    BY <1>3, BlankTyped DEF RestoreRefused, GiveUp, PagesTyped
  <2>2. QED
    BY <1>3, <2>1, TokensAssumption DEF RestoreRefused, GiveUp, PagesTyped
<1>4. CASE LoginSucceeds(b)
  <2>1. [tab[b] EXCEPT !.at = "app", !.waits = "no", !.access = "fresh"] \in Page
    BY <1>1 DEF Page
  <2>2. tab' \in [Tabs -> Page]
    BY <1>1, <1>4, <2>1 DEF LoginSucceeds, PagesTyped
  <2>3. stored' \in 0..MaxTokens
    BY <1>4 DEF LoginSucceeds, Tokens
  <2>4. QED
    BY <1>4, <2>2, <2>3 DEF LoginSucceeds, PagesTyped
<1>5. CASE LoginFails(b)
  <2>1. [tab[b] EXCEPT !.waits = "no"] \in Page
    BY <1>1 DEF Page
  <2>2. QED
    BY <1>5, <2>1 DEF LoginFails, PagesTyped
<1>6. CASE Refreshed(b)
  <2>. PICK t \in Tokens : AdoptTokens(b, t)
    BY <1>6 DEF Refreshed
  <2>1. [tab[b] EXCEPT !.access = "fresh", !.waits = "no", !.isRefreshing = FALSE] \in Page
    BY <1>1 DEF Page
  <2>2. tab' \in [Tabs -> Page] /\ stored' \in 0..MaxTokens
    BY <2>1 DEF AdoptTokens, PagesTyped, Tokens
  <2>. DEFINE f == [c \in Calls[b] |->
                      IF call[b][c].at \in {"queued", "leading"}
                      THEN [at |-> "sent", access |-> "fresh", retry |-> call[b][c].retry] ELSE call[b][c]]
  <2>3. \A c \in Calls[b] : call[b][c] \in Call /\ [at |-> "sent", access |-> "fresh", retry |-> call[b][c].retry] \in Call
    BY <1>1 DEF Call
  <2>4. f \in [Calls[b] -> Call] /\ call' = [call EXCEPT ![b] = f]
    BY <1>6, <2>3 DEF Refreshed, Resent
  <2>. HIDE DEF f
  <2>5. CallsTyped'
    BY <2>4, OneTabsCalls
  <2>6. QED
    BY <1>6, <2>2, <2>5 DEF Refreshed, PagesTyped, CallsTyped
<1>7. CASE RefreshRefused(b)
  <2>1. [tab[b] EXCEPT !.at = "leaving", !.access = "none", !.waits = "no", !.isRefreshing = FALSE] \in Page
    BY <1>1 DEF Page
  <2>2. tab' \in [Tabs -> Page]
    BY <1>1, <1>7, <2>1 DEF RefreshRefused, PagesTyped
  <2>3. CallsTyped'
    BY <1>7, SettledTyped DEF RefreshRefused
  <2>4. QED
    BY <1>7, <2>2, <2>3 DEF RefreshRefused, PagesTyped, CallsTyped
<1>8. QED
  BY <1>2, <1>3, <1>4, <1>5, <1>6, <1>7 DEF Hear

LEMMA PageStepsTyped ==
    ASSUME PagesTyped, NEW b \in Tabs,
           \/ Mount(b) \/ RestoreMe(b) \/ RestoreMeFails(b) \/ Logout(b) \/ Unload(b) \/ Reload(b)
           \/ \E u \in Users : Submit(b, u)
    PROVE  PagesTyped'
<1>1. tab[b] \in Page /\ call[b] \in [Calls[b] -> Call]
  BY DEF PagesTyped
<1>2. CASE Mount(b)
  <2>1. [tab[b] EXCEPT !.at = "login"] \in Page /\ [tab[b] EXCEPT !.at = "restoring", !.waits = "restore"] \in Page
    BY <1>1 DEF Page
  <2>2. tab' \in [Tabs -> Page]
    BY <1>1, <1>2, <2>1 DEF Mount, PagesTyped
  <2>3. spent' \in 0..MaxTokens
    BY <1>2, CostsTyped DEF Mount, PagesTyped
  <2>4. QED
    BY <1>2, <2>2, <2>3 DEF Mount, PagesTyped
<1>3. CASE RestoreMe(b)
  <2>1. [tab[b] EXCEPT !.at = "app", !.held = 0] \in Page /\ tab[b].held \in 0..MaxTokens
    BY <1>1, ZeroTyped DEF Page
  <2>2. QED
    BY <1>3, <2>1 DEF RestoreMe, PagesTyped
<1>4. CASE RestoreMeFails(b)
  BY <1>4, BlankTyped, TokensAssumption DEF RestoreMeFails, GiveUp, PagesTyped
<1>5. CASE Logout(b)
  <2>1. [tab[b] EXCEPT !.at = "leaving", !.access = "none"] \in Page
    BY <1>1 DEF Page
  <2>2. spent' \in 0..MaxTokens
    BY <1>5, CostsTyped DEF Logout
  <2>3. QED
    BY <1>5, <2>1, <2>2, TokensAssumption DEF Logout, PagesTyped
<1>6. CASE Unload(b) \/ Reload(b)
  <2>1. Forget(b) /\ UNCHANGED <<stored, spent>> /\ disturbed' \in BOOLEAN
    BY <1>6 DEF Unload, Reload, PagesTyped
  <2>2. [c \in Calls[b] |-> NoCall] \in [Calls[b] -> Call]
    BY NoCallTyped
  <2>3. CallsTyped'
    BY <2>1, <2>2, OneTabsCalls DEF Forget
  <2>4. tab' \in [Tabs -> Page]
    BY <2>1, BlankTyped DEF Forget, PagesTyped
  <2>5. QED
    BY <2>1, <2>3, <2>4 DEF PagesTyped, CallsTyped
<1>7. CASE \E u \in Users : Submit(b, u)
  <2>1. [tab[b] EXCEPT !.waits = "login"] \in Page
    BY <1>1 DEF Page
  <2>2. spent' \in 0..MaxTokens
    BY <1>7, CostsTyped DEF Submit
  <2>3. QED
    BY <1>7, <2>1, <2>2 DEF Submit, PagesTyped
<1>8. QED
  BY <1>2, <1>3, <1>4, <1>5, <1>6, <1>7

LEMMA OtherStepsTyped ==
    ASSUME PagesTyped, NEW b \in Tabs,
           LoginRejected(b) \/ Drop(b) \/ AccessExpires(b) \/ ServerStep(b) \/ Lost(b)
    PROVE  PagesTyped'
<1>1. tab[b] \in Page /\ call[b] \in [Calls[b] -> Call]
  BY DEF PagesTyped
<1>2. CASE LoginRejected(b) \/ Drop(b) \/ ServerStep(b)
  BY <1>2 DEF LoginRejected, bvars, Drop, ServerStep, PagesTyped
<1>3. CASE Lost(b)
  BY <1>3, CostsTyped DEF Lost, PagesTyped
<1>4. CASE AccessExpires(b)
  <2>1. [tab[b] EXCEPT !.access = "stale"] \in Page
    BY <1>1 DEF Page
  <2>2. tab' \in [Tabs -> Page]
    BY <1>1, <1>4, <2>1 DEF AccessExpires, PagesTyped
  <2>. DEFINE f == [c \in Calls[b] |->
                      IF call[b][c].access = "fresh" THEN [call[b][c] EXCEPT !.access = "stale"] ELSE call[b][c]]
  <2>3. f \in [Calls[b] -> Call] /\ call' = [call EXCEPT ![b] = f]
    BY <1>1, <1>4, NoCallTyped DEF AccessExpires
  <2>. HIDE DEF f
  <2>4. CallsTyped'
    BY <2>3, OneTabsCalls
  <2>5. spent' \in 0..MaxTokens
    <3>1. Cardinality(Calls[b]) \in Nat
      BY CallsAssumption, FS_CardinalityType
    <3>2. QED
      BY <1>4, <3>1, CostsTyped DEF AccessExpires
  <2>6. QED
    BY <1>4, <2>2, <2>4, <2>5 DEF AccessExpires, PagesTyped, CallsTyped
<1>5. QED
  BY <1>2, <1>3, <1>4

LEMMA ServerInvInit == BInit => ServerInv
<1>. SUFFICES ASSUME BInit PROVE ServerInv
  OBVIOUS
<1>1. ResetInv
  BY ResetInit DEF BInit
<1>2. PagesTyped
  <2>1. 0 \in 0..MaxTokens /\ Blank \in Page /\ NoCall \in Call
    BY ZeroTyped, BlankTyped, NoCallTyped
  <2>2. QED
    BY <2>1 DEF BInit, PagesTyped
<1>3. QED
  BY <1>1, <1>2 DEF ServerInv

LEMMA ServerInvNext == ServerInv /\ [BNext]_bvars => ServerInv'
<1>. SUFFICES ASSUME ServerInv, [BNext]_bvars PROVE ServerInv'
  OBVIOUS
<1>1. ResetInv'
  BY BNextIsServer, ResetNext DEF ServerInv
<1>2. ASSUME NEW b \in Tabs, TabNext(b) \/ Lost(b) PROVE PagesTyped'
  <2>1. PagesTyped
    BY DEF ServerInv
  <2>2. CASE \E c \in Calls[b] : Send(b, c) \/ CallStep(b, c)
    BY <2>1, <2>2, CallStepsTyped
  <2>3. CASE Hear(b)
    BY <2>1, <2>3, HearTyped
  <2>4. CASE \/ Mount(b) \/ RestoreMe(b) \/ RestoreMeFails(b) \/ Logout(b) \/ Unload(b) \/ Reload(b)
             \/ \E u \in Users : Submit(b, u)
    BY <2>1, <2>4, PageStepsTyped
  <2>5. CASE LoginRejected(b) \/ Drop(b) \/ AccessExpires(b) \/ ServerStep(b) \/ Lost(b)
    BY <2>1, <2>5, OtherStepsTyped
  <2>6. QED
    BY <1>2, <2>2, <2>3, <2>4, <2>5 DEF TabNext
<1>3. UNCHANGED bvars => PagesTyped'
  BY DEF bvars, ServerInv, PagesTyped
<1>4. PagesTyped'
  BY <1>2, <1>3 DEF BNext
<1>5. QED
  BY <1>1, <1>4 DEF ServerInv

LEMMA ServerInvariant == BSpec => []ServerInv
BY ServerInvInit, ServerInvNext, PTL DEF BSpec

\* The server the tabs talk to does what Sessions says: what is proved of Sessions holds of the
\* composition.
THEOREM BrowserImplementsSessions == BSpec => SSpec
<1>1. BInit => SInit
  BY DEF BInit
<1>2. QED
  BY <1>1, ServerInvariant, BNextIsServer, PTL DEF BSpec, SSpec

\* Every page, call and stored token is of its kind, and so is every row and request.
THEOREM BrowserTypeCorrect == BSpec => []BTypeOK
<1>1. ServerInv => BTypeOK
  BY DEF ServerInv, ResetInv, PagesTyped, BTypeOK
<1>2. QED
  BY <1>1, ServerInvariant, PTL
-----------------------------------------------------------------------------
(* A session that nothing disturbed.                                       *)

\* A page and the request it waits for.
PageFits(b) ==
    /\ tab[b].at # "leaving"
    /\ tab[b].waits = "no" <=> req[b] = Idle
    /\ tab[b].waits = "restore" => tab[b].at = "restoring" /\ req[b].op = "refresh"
    /\ tab[b].waits = "login" => tab[b].at = "login" /\ req[b].op = "login"
    /\ tab[b].waits = "refresh" => tab[b].at = "app" /\ req[b].op = "refresh"
    /\ tab[b].held # 0 =>
          /\ tab[b].at = "restoring" /\ tab[b].waits = "no"
          /\ tab[b].held <= issued /\ Live(tab[b].held)

\* The tokens in the hands of the server: no answer refuses.
AnswerIsLive(b) ==
    /\ At(b, "refresh", "find") => req[b].token <= issued /\ Live(req[b].token)
    /\ At(b, "refresh", "delete") => req[b].proof.token <= issued
    /\ req[b].step = "reply" => req[b].token # 0 /\ req[b].token <= issued /\ Live(req[b].token)

Replaces(b) == tab[b].waits \in {"restore", "refresh"} \/ tab[b].held # 0
OneReplaces == \A b, c \in Tabs : Replaces(b) /\ Replaces(c) => b = c

\* Nobody else knows, or is about to delete, the token of an answer on its way.
AnswersApart ==
    \A c \in Tabs : req[c].step = "reply" =>
        /\ stored # req[c].token
        /\ \A b \in Tabs \ {c} :
              /\ req[b].step = "reply" => req[b].token # req[c].token
              /\ tab[b].held # req[c].token
              /\ At(b, "refresh", "find") => req[b].token # req[c].token
              /\ At(b, "refresh", "delete") => req[b].proof.token # req[c].token

StoredIsLive ==
    /\ stored <= issued
    /\ stored # 0 /\ ~ Replacing => Live(stored)
    /\ (\E b \in Tabs : tab[b].at = "app") => stored # 0

CallsOfPages == \A b \in Tabs : \A c \in Calls[b] : call[b][c].at # "idle" => tab[b].at = "app"

Undisturbed ==
    /\ CallsOfPages
    /\ \A b \in Tabs : PageFits(b) /\ AnswerIsLive(b)
    /\ OneReplaces /\ AnswersApart /\ StoredIsLive

SurvivalInv == ServerInv /\ (~ disturbed => Undisturbed)

LEMMA ServerTyped ==
    ASSUME ServerInv
    PROVE  /\ issued \in Nat /\ issued <= MaxTokens /\ MaxTokens \in Nat
           /\ stored \in 0..MaxTokens
           /\ token \in [Tokens -> {Absent} \cup TokenRow]
           /\ \A b \in Tabs : b \in Requests /\ req[b] \in RequestState /\ tab[b] \in Page
           /\ \A b \in Tabs : tab[b].held \in 0..MaxTokens
           /\ Idle.op = "none" /\ Idle.step = "none"
<1>1. token \in [Tokens -> {Absent} \cup TokenRow] /\ issued \in 0..MaxTokens
  BY DEF ServerInv, ResetInv, TypeOK
<1>2. \A b \in Tabs : b \in Requests /\ req[b] \in RequestState
  BY TabsAssumption DEF ServerInv, ResetInv, TypeOK, RequestState
<1>3. \A b \in Tabs : tab[b] \in Page /\ tab[b].held \in 0..MaxTokens
  BY DEF ServerInv, PagesTyped, Page
<1>4. stored \in 0..MaxTokens
  BY DEF ServerInv, PagesTyped
<1>5. QED
  BY <1>1, <1>2, <1>3, <1>4, TokensAssumption DEF Idle

LEMMA AnswerTyped ==
    ASSUME NEW q \in RequestState, q.step = "reply"
    PROVE  q.token \in 0..MaxTokens
BY DEF RequestState, Idle, AccountRequest, SessionRequest, Reply

\* One tab and its slot change, and no token dies.
LEMMA TabMoves ==
    ASSUME ServerInv, Undisturbed, NEW b \in Tabs,
           \A c \in Tabs \ {b} : tab'[c] = tab[c] /\ req'[c] = req[c],
           issued' \in Nat, issued <= issued',
           \A t \in Tokens : t <= issued /\ Live(t) => token'[t].row = "live",
           PageFits(b)', AnswerIsLive(b)',
           Replaces(b)' => \A c \in Tabs \ {b} : ~ Replaces(c),
           AnswersApart', StoredIsLive', CallsOfPages'
    PROVE  Undisturbed'
<1>1. ASSUME NEW c \in Tabs \ {b} PROVE PageFits(c)' /\ AnswerIsLive(c)'
  <2>1. PageFits(c) /\ AnswerIsLive(c) /\ tab'[c] = tab[c] /\ req'[c] = req[c]
    BY DEF Undisturbed
  <2>2. PageFits(c)'
    <3>1. tab[c].held # 0 => tab[c].held \in Tokens /\ tab[c].held <= issued'
      BY <2>1, ServerTyped DEF PageFits, Tokens
    <3>2. QED
      BY <2>1, <3>1 DEF PageFits, Live
  <2>3. AnswerIsLive(c)'
    <3>1. req[c] \in RequestState
      BY ServerTyped
    <3>2. At(c, "refresh", "find") => req[c].token \in Tokens /\ req[c].token <= issued'
      BY <2>1, <3>1, Kinds, ServerTyped DEF AnswerIsLive, At, Tokens
    <3>3. At(c, "refresh", "delete") => req[c].proof.token <= issued'
      <4>1. At(c, "refresh", "delete") => req[c].proof.token \in Nat
        BY <3>1, Kinds DEF At, Proof, Tokens
      <4>2. QED
        BY <2>1, <4>1, ServerTyped DEF AnswerIsLive
    <3>4. req[c].step = "reply" => req[c].token \in Tokens /\ req[c].token <= issued'
      BY <2>1, <3>1, AnswerTyped, ServerTyped DEF AnswerIsLive, Tokens
    <3>5. QED
      BY <2>1, <3>2, <3>3, <3>4 DEF AnswerIsLive, At, Live
  <2>4. QED
    BY <2>2, <2>3
<1>2. OneReplaces'
  BY DEF Undisturbed, OneReplaces, Replaces
<1>3. QED
  BY <1>1, <1>2 DEF Undisturbed

\* The calls of a page that is not open are idle.
LEMMA CallsStay ==
    ASSUME Undisturbed, NEW b \in Tabs, UNCHANGED call,
           \A c \in Tabs \ {b} : tab'[c] = tab[c],
           tab[b].at # "app" \/ tab'[b].at = "app"
    PROVE  CallsOfPages'
BY DEF Undisturbed, CallsOfPages

LEMMA CallsChange ==
    ASSUME Undisturbed, NEW b \in Tabs,
           \A c \in Tabs \ {b} : tab'[c] = tab[c] /\ call'[c] = call[c],
           tab'[b].at = "app" \/ \A c \in Calls[b] : call'[b][c].at = "idle"
    PROVE  CallsOfPages'
BY DEF Undisturbed, CallsOfPages

\* What a page does on its own.
LEMMA QuietMoves ==
    ASSUME ServerInv, Undisturbed, NEW b \in Tabs, UNCHANGED <<svars, stored>>,
           \A c \in Tabs \ {b} : tab'[c] = tab[c], CallsOfPages',
           tab'[b].waits = tab[b].waits, tab'[b].held = tab[b].held,
           \/ tab'[b].at = tab[b].at
           \/ tab[b].waits = "no" /\ tab[b].held = 0 /\ tab'[b].at \in {"login", "unloaded"}
    PROVE  Undisturbed'
<1>1. UNCHANGED <<req, token, issued, stored>>
  BY DEF svars
<1>2. \A c \in Tabs : tab'[c].waits = tab[c].waits /\ tab'[c].held = tab[c].held
  OBVIOUS
<1>3. \A c \in Tabs : tab'[c].at # tab[c].at =>
          tab[c].waits = "no" /\ tab[c].held = 0 /\ tab'[c].at \in {"login", "unloaded"}
  OBVIOUS
<1>4. ASSUME NEW c \in Tabs PROVE PageFits(c)' /\ AnswerIsLive(c)'
  <2>1. PageFits(c) /\ AnswerIsLive(c)
    BY DEF Undisturbed
  <2>2. PageFits(c)'
    BY <1>1, <1>2, <1>3, <2>1 DEF PageFits, Live
  <2>3. AnswerIsLive(c)'
    BY <1>1, <2>1 DEF AnswerIsLive, At, Live
  <2>4. QED
    BY <2>2, <2>3
<1>5. OneReplaces'
  BY <1>2 DEF Undisturbed, OneReplaces, Replaces
<1>6. AnswersApart'
  BY <1>1, <1>2 DEF Undisturbed, AnswersApart, At
<1>7. StoredIsLive'
  <2>1. Replacing' <=> Replacing
    BY <1>2 DEF Replacing
  <2>2. (\E c \in Tabs : tab'[c].at = "app") => \E c \in Tabs : tab[c].at = "app"
    BY <1>3
  <2>3. QED
    BY <1>1, <2>1, <2>2 DEF Undisturbed, StoredIsLive, Live
<1>8. QED
  BY <1>4, <1>5, <1>6, <1>7 DEF Undisturbed

LEMMA QuietSteps ==
    ASSUME ServerInv, Undisturbed, NEW b \in Tabs, ~ disturbed',
           \/ Mount(b) /\ stored = 0
           \/ LoginRejected(b) \/ Reload(b) \/ AccessExpires(b)
           \/ \E c \in Calls[b] : Send(b, c) \/ Answer(b, c) \/ RejectRetried(b, c) \/ Enqueue(b, c)
    PROVE  Undisturbed'
<1>1. UNCHANGED <<svars, stored>>
  BY DEF Mount, LoginRejected, Reload, AccessExpires, Send, Answer, RejectRetried, Enqueue, bvars
<1>2. tab[b] \in Page /\ \A c \in Tabs : tab[c] \in Page
  BY ServerTyped
<1>3. DOMAIN tab = Tabs
  BY DEF ServerInv, PagesTyped
<1>4. CASE Mount(b) /\ stored = 0
  <2>1. tab' = [tab EXCEPT ![b].at = "login"] /\ ~ Alive(b)
    BY <1>4 DEF Mount
  <2>2. req[b] = Idle /\ PageFits(b)
    BY <1>4 DEF Mount, Undisturbed
  <2>3. tab[b].waits = "no" /\ tab[b].held = 0
    BY <2>1, <2>2 DEF PageFits, Alive
  <2>4. tab'[b].waits = "no" /\ tab'[b].held = 0 /\ tab'[b].at = "login"
    BY <1>2, <1>3, <2>1, <2>3 DEF Page
  <2>5. \A c \in Tabs \ {b} : tab'[c] = tab[c]
    BY <1>3, <2>1
  <2>6. CallsOfPages'
    BY <1>4, <2>1, <2>5, CallsStay DEF Mount, Alive
  <2>7. QED
    BY <1>1, <2>3, <2>4, <2>5, <2>6, QuietMoves
<1>5. CASE Reload(b)
  <2>1. tab' = [tab EXCEPT ![b] = Blank]
    BY <1>5 DEF Reload, Forget
  <2>2. tab[b].waits = "no" /\ tab[b].held = 0
    BY <1>5 DEF Reload
  <2>3. tab'[b].waits = "no" /\ tab'[b].held = 0 /\ tab'[b].at = "unloaded"
    BY <1>3, <2>1 DEF Blank
  <2>4. \A c \in Tabs \ {b} : tab'[c] = tab[c]
    BY <1>3, <2>1
  <2>5. CallsOfPages'
    <3>1. call' = [call EXCEPT ![b] = [c \in Calls[b] |-> NoCall]] /\ DOMAIN call = Tabs
      BY <1>5 DEF Reload, Forget, ServerInv, PagesTyped
    <3>2. \A c \in Calls[b] : call'[b][c].at = "idle"
      BY <3>1 DEF NoCall
    <3>3. QED
      BY <2>4, <3>1, <3>2, CallsChange
  <2>6. QED
    BY <1>1, <2>2, <2>3, <2>4, <2>5, QuietMoves
<1>6. CASE AccessExpires(b)
  <2>1. tab' = [tab EXCEPT ![b].access = "stale"]
    BY <1>6 DEF AccessExpires
  <2>2. tab'[b].waits = tab[b].waits /\ tab'[b].held = tab[b].held /\ tab'[b].at = tab[b].at
    BY <1>2, <1>3, <2>1 DEF Page
  <2>3. \A c \in Tabs \ {b} : tab'[c] = tab[c]
    BY <1>3, <2>1
  <2>4. \A c \in Tabs \ {b} : call'[c] = call[c]
    BY <1>6 DEF AccessExpires, ServerInv, PagesTyped
  <2>5. CallsOfPages'
    BY <1>6, <2>2, <2>3, <2>4, CallsChange DEF AccessExpires
  <2>6. QED
    BY <1>1, <2>2, <2>3, <2>5, QuietMoves
<1>7. CASE \/ LoginRejected(b)
           \/ \E c \in Calls[b] : Send(b, c) \/ Answer(b, c) \/ RejectRetried(b, c) \/ Enqueue(b, c)
  <2>1. tab' = tab
    BY <1>7 DEF LoginRejected, Send, Answer, RejectRetried, Enqueue, bvars
  <2>2. CallsOfPages'
    <3>1. CASE LoginRejected(b)
      BY <2>1, <3>1, CallsStay DEF LoginRejected, bvars
    <3>2. CASE \E c \in Calls[b] : Send(b, c) \/ Answer(b, c) \/ RejectRetried(b, c) \/ Enqueue(b, c)
      <4>1. PICK c \in Calls[b] : Send(b, c) \/ Answer(b, c) \/ RejectRetried(b, c) \/ Enqueue(b, c)
        BY <3>2
      <4>2. tab[b].at = "app"
        BY <4>1 DEF Send, Answer, RejectRetried, Enqueue, Is401, Undisturbed, CallsOfPages
      <4>3. \A x \in Tabs \ {b} : call'[x] = call[x]
        BY <4>1 DEF Send, Answer, RejectRetried, Enqueue, Settled, ServerInv, PagesTyped
      <4>4. QED
        BY <2>1, <4>2, <4>3, CallsChange
    <3>3. QED
      BY <1>7, <3>1, <3>2
  <2>3. QED
    BY <1>1, <2>1, <2>2, QuietMoves
<1>8. QED
  BY <1>4, <1>5, <1>6, <1>7

\* None of these happens to an undisturbed session, or leaves it undisturbed.
LEMMA NotUndisturbed ==
    ASSUME ServerInv, Undisturbed, NEW b \in Tabs, ~ disturbed'
    PROVE  /\ ~ RestoreRefused(b) /\ ~ LoginFails(b) /\ ~ RefreshRefused(b)
           /\ ~ RestoreMeFails(b) /\ ~ Logout(b) /\ ~ Unload(b) /\ ~ Drop(b) /\ ~ Lost(b)
           /\ \A c \in Calls[b] : ~ NothingToRefresh(b, c)
           /\ ~ (ServerStep(b) /\ RefreshDiscard(b))
<1>1. PageFits(b) /\ AnswerIsLive(b)
  BY DEF Undisturbed
<1>2. tab[b].waits # "no" => ~ Heard(b, 0)
  BY <1>1 DEF PageFits, AnswerIsLive, Heard
<1>3. ~ RestoreRefused(b) /\ ~ LoginFails(b) /\ ~ RefreshRefused(b)
  BY <1>2 DEF RestoreRefused, LoginFails, RefreshRefused
<1>4. ~ RestoreMeFails(b) /\ ~ Logout(b) /\ ~ Lost(b)
  BY DEF RestoreMeFails, Logout, Lost
<1>5. ~ Unload(b)
  BY <1>1 DEF Unload, PageFits
<1>6. ~ Drop(b)
  <2>1. SUFFICES ASSUME Drop(b) PROVE FALSE
    OBVIOUS
  <2>2. tab[b].at = "unloaded" /\ req[b].step = "reply"
    BY <2>1 DEF Drop, Alive, Respond
  <2>3. tab[b].waits \in {"no", "restore", "login", "refresh"}
    BY ServerTyped DEF Page
  <2>4. req[b] = Idle
    BY <1>1, <2>2, <2>3 DEF PageFits
  <2>5. QED
    BY <2>2, <2>4, ServerTyped
<1>7. \A c \in Calls[b] : ~ NothingToRefresh(b, c)
  <2>1. SUFFICES ASSUME NEW c \in Calls[b], NothingToRefresh(b, c) PROVE FALSE
    OBVIOUS
  <2>2. tab[b].at = "app" /\ stored = 0
    BY <2>1 DEF NothingToRefresh, Is401, Undisturbed, CallsOfPages
  <2>3. QED
    BY <2>2 DEF Undisturbed, StoredIsLive
<1>8. ~ (ServerStep(b) /\ RefreshDiscard(b))
  BY DEF ServerStep, RefreshDiscard
<1>9. QED
  BY <1>3, <1>4, <1>5, <1>6, <1>7, <1>8

LEMMA Slot ==
    ASSUME ServerInv, NEW b \in Tabs, NEW q, req' = [req EXCEPT ![b] = q]
    PROVE  req'[b] = q /\ \A c \in Tabs \ {b} : req'[c] = req[c]
BY TabsAssumption DEF ServerInv, ResetInv, TypeOK

LEMMA PageOf ==
    ASSUME ServerInv, NEW b \in Tabs, NEW page, tab' = [tab EXCEPT ![b] = page]
    PROVE  tab'[b] = page /\ \A c \in Tabs \ {b} : tab'[c] = tab[c]
BY DEF ServerInv, PagesTyped

LEMMA NobodyReplaces ==
    ASSUME ~ Replacing
    PROVE  \A c \in Tabs : ~ Replaces(c)
BY DEF Replacing, Replaces

\* The stored token goes to the server: it lives, and no answer carries it.
LEMMA SendMoves ==
    ASSUME ServerInv, Undisturbed, NEW b \in Tabs, ~ Replacing, stored # 0, RefreshSend(b, stored),
           UNCHANGED stored, \A c \in Tabs \ {b} : tab'[c] = tab[c], CallsOfPages',
           tab'[b].held = 0,
           \/ tab'[b].waits = "restore" /\ tab'[b].at = "restoring"
           \/ tab'[b].waits = "refresh" /\ tab'[b].at = "app"
    PROVE  Undisturbed'
<1>1. /\ req' = [req EXCEPT ![b] = [op |-> "refresh", step |-> "find", token |-> stored]]
      /\ UNCHANGED <<token, issued>>
  BY DEF RefreshSend, Begin
<1>2. /\ req'[b] = [op |-> "refresh", step |-> "find", token |-> stored]
      /\ \A c \in Tabs \ {b} : req'[c] = req[c]
  BY <1>1, Slot
<1>3. Live(stored) /\ stored <= issued
  BY DEF Undisturbed, StoredIsLive
<1>4. PageFits(b)' /\ AnswerIsLive(b)'
  <2>1. req'[b] # Idle
    BY <1>2, ServerTyped
  <2>2. PageFits(b)'
    BY <1>2, <2>1 DEF PageFits
  <2>3. AnswerIsLive(b)'
    BY <1>1, <1>2, <1>3 DEF AnswerIsLive, At, Live
  <2>4. QED
    BY <2>2, <2>3
<1>5. \A c \in Tabs \ {b} : ~ Replaces(c)
  BY NobodyReplaces
<1>6. AnswersApart'
  <2>. SUFFICES ASSUME NEW c \in Tabs, req'[c].step = "reply"
                PROVE  /\ stored # req'[c].token
                       /\ \A d \in Tabs \ {c} :
                             /\ req'[d].step = "reply" => req'[d].token # req'[c].token
                             /\ tab'[d].held # req'[c].token
                             /\ At(d, "refresh", "find")' => req'[d].token # req'[c].token
                             /\ At(d, "refresh", "delete")' => req'[d].proof.token # req'[c].token
    BY DEF AnswersApart
  <2>1. c # b
    BY <1>2
  <2>2. req'[c] = req[c] /\ stored # req[c].token
    BY <1>2, <2>1 DEF Undisturbed, AnswersApart
  <2>3. req[c].token # 0
    BY <2>2 DEF Undisturbed, AnswerIsLive
  <2>4. ASSUME NEW d \in Tabs \ {c}
        PROVE  /\ req'[d].step = "reply" => req'[d].token # req'[c].token
               /\ tab'[d].held # req'[c].token
               /\ At(d, "refresh", "find")' => req'[d].token # req'[c].token
               /\ At(d, "refresh", "delete")' => req'[d].proof.token # req'[c].token
    <3>1. CASE d = b
      BY <1>2, <2>2, <2>3, <3>1 DEF At
    <3>2. CASE d # b
      BY <1>2, <2>2, <3>2 DEF Undisturbed, AnswersApart, At
    <3>3. QED
      BY <3>1, <3>2
  <2>5. QED
    BY <2>2, <2>4
<1>7. StoredIsLive'
  <2>1. Replacing'
    BY DEF Replacing
  <2>2. QED
    BY <1>1, <1>3, <2>1 DEF StoredIsLive
<1>8. issued \in Nat
  BY ServerTyped
<1>9. QED
  BY <1>1, <1>2, <1>4, <1>5, <1>6, <1>7, <1>8, TabMoves DEF Live

LEMMA SendSteps ==
    ASSUME ServerInv, Undisturbed, NEW b \in Tabs, ~ disturbed',
           \/ Mount(b) /\ stored # 0
           \/ \E c \in Calls[b] : LeadRefresh(b, c)
    PROVE  Undisturbed'
<1>1. tab[b] \in Page /\ DOMAIN tab = Tabs
  BY ServerTyped DEF ServerInv, PagesTyped
<1>2. CASE Mount(b) /\ stored # 0
  <2>1. /\ ~ Alive(b) /\ RefreshSend(b, stored) /\ ~ Replacing /\ UNCHANGED <<stored, call>>
        /\ tab' = [tab EXCEPT ![b].at = "restoring", ![b].waits = "restore"]
    BY <1>2 DEF Mount
  <2>2. \A c \in Tabs \ {b} : tab'[c] = tab[c]
    BY <1>1, <2>1
  <2>3. /\ tab'[b].waits = "restore" /\ tab'[b].at = "restoring" /\ tab'[b].held = tab[b].held
    BY <1>1, <2>1 DEF Page
  <2>4. tab[b].held = 0
    BY <2>1 DEF Replacing
  <2>5. CallsOfPages'
    BY <2>1, <2>2, CallsStay DEF Alive
  <2>6. QED
    BY <1>2, <2>1, <2>2, <2>3, <2>4, <2>5, SendMoves
<1>3. CASE \E c \in Calls[b] : LeadRefresh(b, c)
  <2>. PICK c \in Calls[b] : LeadRefresh(b, c)
    BY <1>3
  <2>1. /\ RefreshSend(b, stored) /\ ~ Replacing /\ UNCHANGED <<stored>> /\ stored # 0
        /\ tab' = [tab EXCEPT ![b].waits = "refresh", ![b].isRefreshing = TRUE]
    BY DEF LeadRefresh
  <2>2. \A x \in Tabs \ {b} : tab'[x] = tab[x]
    BY <1>1, <2>1
  <2>3. /\ tab'[b].waits = "refresh" /\ tab'[b].at = tab[b].at /\ tab'[b].held = tab[b].held
    BY <1>1, <2>1 DEF Page
  <2>4. tab[b].held = 0
    BY <2>1 DEF Replacing
  <2>5. tab[b].at = "app"
    BY DEF LeadRefresh, Is401, Undisturbed, CallsOfPages
  <2>6. \A x \in Tabs \ {b} : call'[x] = call[x]
    BY DEF LeadRefresh, ServerInv, PagesTyped
  <2>7. CallsOfPages'
    BY <2>2, <2>3, <2>5, <2>6, CallsChange
  <2>8. QED
    BY <2>1, <2>2, <2>3, <2>4, <2>5, <2>7, SendMoves
<1>4. QED
  BY <1>2, <1>3

\* A form is sent.
LEMMA SubmitSteps ==
    ASSUME ServerInv, Undisturbed, NEW b \in Tabs, NEW u \in Users, Submit(b, u)
    PROVE  Undisturbed'
<1>1. tab[b] \in Page /\ DOMAIN tab = Tabs
  BY ServerTyped DEF ServerInv, PagesTyped
<1>2. /\ tab' = [tab EXCEPT ![b].waits = "login"] /\ tab[b].at = "login" /\ UNCHANGED <<stored, call>>
      /\ UNCHANGED <<token, issued>> /\ req[b] = Idle
  BY DEF Submit, LoginRead, Begin
<1>3. PICK q : q.op = "login" /\ q.step = "create" /\ req' = [req EXCEPT ![b] = q]
  BY DEF Submit, LoginRead, Begin
<1>4. req'[b] = q /\ \A c \in Tabs \ {b} : req'[c] = req[c]
  BY <1>3, Slot
<1>5. \A c \in Tabs \ {b} : tab'[c] = tab[c]
  BY <1>1, <1>2
<1>6. tab'[b].waits = "login" /\ tab'[b].at = "login" /\ tab'[b].held = tab[b].held
  BY <1>1, <1>2 DEF Page
<1>7. tab[b].held = 0
  BY <1>2 DEF Undisturbed, PageFits
<1>8. PageFits(b)' /\ AnswerIsLive(b)'
  BY <1>3, <1>4, <1>6, <1>7, ServerTyped DEF PageFits, AnswerIsLive, At
<1>9. ~ Replaces(b)'
  BY <1>6, <1>7 DEF Replaces
<1>10. ~ Replaces(b)
  BY <1>2, <1>7 DEF Replaces, Undisturbed, PageFits
<1>11. Replacing' <=> Replacing
  BY <1>5, <1>9, <1>10 DEF Replacing, Replaces
<1>12. AnswersApart'
  BY <1>2, <1>3, <1>4, <1>5, <1>6 DEF Undisturbed, AnswersApart, At
<1>13. StoredIsLive'
  <2>1. (\E c \in Tabs : tab'[c].at = "app") => \E c \in Tabs : tab[c].at = "app"
    BY <1>5, <1>6
  <2>2. QED
    BY <1>2, <1>11, <2>1 DEF Undisturbed, StoredIsLive, Live
<1>14. CallsOfPages'
  BY <1>2, <1>5, CallsStay
<1>15. issued \in Nat
  BY ServerTyped
<1>16. QED
  BY <1>2, <1>4, <1>5, <1>8, <1>9, <1>12, <1>13, <1>14, <1>15, TabMoves DEF Live

\* The answer that a page hears.
LEMMA HeardToken ==
    ASSUME ServerInv, Undisturbed, NEW b \in Tabs, NEW t \in Tokens, Heard(b, t)
    PROVE  /\ req[b].step = "reply" /\ t = req[b].token /\ t # 0 /\ t <= issued /\ Live(t)
           /\ stored # t
           /\ \A c \in Tabs \ {b} : req[c].step = "reply" => req[c].token # t
<1>1. t # 0
  BY DEF Tokens
<1>2. req[b].step = "reply" /\ t = req[b].token
  BY <1>1 DEF Heard
<1>3. QED
  BY <1>1, <1>2 DEF Undisturbed, AnswerIsLive, AnswersApart

\* A page stores the token it has: it lives, and no answer carries it.
LEMMA StoreMoves ==
    ASSUME ServerInv, Undisturbed, NEW b \in Tabs, NEW t \in Tokens, stored' = t,
           t <= issued, Live(t), UNCHANGED <<token, issued>>,
           \A c \in Tabs \ {b} : tab'[c] = tab[c] /\ req'[c] = req[c],
           \A c \in Tabs \ {b} : req[c].step = "reply" => req[c].token # t,
           tab'[b].waits = "no", tab'[b].held = 0, tab'[b].at = "app", req'[b] = Idle, CallsOfPages'
    PROVE  Undisturbed'
<1>1. t # 0
  BY DEF Tokens
<1>2. PageFits(b)' /\ AnswerIsLive(b)'
  BY ServerTyped DEF PageFits, AnswerIsLive, At
<1>3. ~ Replaces(b)'
  BY DEF Replaces
<1>4. AnswersApart'
  <2>1. \A c \in Tabs : req'[c].step = "reply" => c \in Tabs \ {b} /\ req[c].step = "reply" /\ req[c].token # 0
    BY ServerTyped DEF Undisturbed, AnswerIsLive
  <2>2. \A c \in Tabs : req'[c].step = "reply" => stored' # req'[c].token
    BY <2>1
  <2>3. ASSUME NEW c \in Tabs, req'[c].step = "reply", NEW d \in Tabs \ {c}
        PROVE  /\ req'[d].step = "reply" => req'[d].token # req'[c].token
               /\ tab'[d].held # req'[c].token
               /\ At(d, "refresh", "find")' => req'[d].token # req'[c].token
               /\ At(d, "refresh", "delete")' => req'[d].proof.token # req'[c].token
    <3>1. CASE d = b
      BY <2>1, <2>3, <3>1, ServerTyped DEF At
    <3>2. CASE d # b
      BY <2>1, <2>3, <3>2 DEF Undisturbed, AnswersApart, At
    <3>3. QED
      BY <3>1, <3>2
  <2>4. QED
    BY <2>2, <2>3 DEF AnswersApart
<1>5. StoredIsLive'
  BY <1>1 DEF StoredIsLive, Live
<1>6. issued \in Nat
  BY ServerTyped
<1>7. QED
  BY <1>2, <1>3, <1>4, <1>5, <1>6, TabMoves DEF Live

LEMMA HearSteps ==
    ASSUME ServerInv, Undisturbed, NEW b \in Tabs,
           RestoreRefreshed(b) \/ LoginSucceeds(b) \/ Refreshed(b) \/ RestoreMe(b)
    PROVE  Undisturbed'
<1>1. tab[b] \in Page /\ DOMAIN tab = Tabs /\ PageFits(b) /\ issued \in Nat
  BY ServerTyped DEF ServerInv, PagesTyped, Undisturbed
<1>2. CASE RestoreRefreshed(b)
  <2>. PICK t \in Tokens : /\ Heard(b, t)
                           /\ tab' = [tab EXCEPT ![b].waits = "no", ![b].access = "fresh", ![b].held = t]
    BY <1>2 DEF RestoreRefreshed
  <2>1. /\ tab'[b].waits = "no" /\ tab'[b].held = t /\ tab'[b].at = tab[b].at
    BY <1>1 DEF Page
  <2>2. \A c \in Tabs \ {b} : tab'[c] = tab[c]
    BY <1>1
  <2>3. tab[b].waits = "restore" /\ tab[b].at = "restoring" /\ UNCHANGED <<stored, call, token, issued>>
    BY <1>1, <1>2 DEF RestoreRefreshed, PageFits, Take
  <2>4. req'[b] = Idle /\ \A c \in Tabs \ {b} : req'[c] = req[c]
    BY <1>2, Slot DEF RestoreRefreshed, Take
  <2>5. PageFits(b)' /\ AnswerIsLive(b)'
    BY <2>1, <2>3, <2>4, HeardToken, ServerTyped DEF PageFits, AnswerIsLive, At, Live
  <2>6. \A c \in Tabs \ {b} : ~ Replaces(c)
    BY <2>3 DEF Undisturbed, OneReplaces, Replaces
  <2>7. AnswersApart'
    <3>1. ASSUME NEW c \in Tabs, req'[c].step = "reply"
          PROVE  c \in Tabs \ {b} /\ req'[c] = req[c] /\ req[c].token # t /\ stored' # req'[c].token
                    /\ req[c].step = "reply"
                    /\ req[c].token # 0
      BY <2>3, <2>4, <3>1, HeardToken, ServerTyped DEF Undisturbed, AnswersApart, AnswerIsLive
    <3>2. ASSUME NEW c \in Tabs, req'[c].step = "reply", NEW d \in Tabs \ {c}
          PROVE  /\ req'[d].step = "reply" => req'[d].token # req'[c].token
                 /\ tab'[d].held # req'[c].token
                 /\ At(d, "refresh", "find")' => req'[d].token # req'[c].token
                 /\ At(d, "refresh", "delete")' => req'[d].proof.token # req'[c].token
      <4>1. CASE d = b
        BY <2>1, <2>4, <3>1, <3>2, <4>1, ServerTyped DEF At
      <4>2. CASE d # b
        <5>1. tab'[d] = tab[d] /\ req'[d] = req[d]
          BY <2>2, <2>4, <4>2
        <5>2. c \in Tabs /\ req[c].step = "reply" /\ req'[c] = req[c] /\ d \in Tabs \ {c}
          BY <3>1, <3>2
        <5>3. QED
          BY <5>1, <5>2 DEF Undisturbed, AnswersApart, At
      <4>3. QED
        BY <4>1, <4>2
    <3>3. QED
      BY <3>1, <3>2 DEF AnswersApart
  <2>8. StoredIsLive'
    <3>1. t # 0
      BY DEF Tokens
    <3>2. Replacing'
      BY <2>1, <3>1 DEF Replacing
    <3>3. (\E c \in Tabs : tab'[c].at = "app") => \E c \in Tabs : tab[c].at = "app"
      BY <2>1, <2>2
    <3>4. QED
      BY <2>3, <3>2, <3>3 DEF Undisturbed, StoredIsLive
  <2>9. CallsOfPages'
    BY <2>2, <2>3, CallsStay
  <2>10. QED
    BY <1>1, <2>2, <2>3, <2>4, <2>5, <2>6, <2>7, <2>8, <2>9, TabMoves DEF Live
<1>3. CASE LoginSucceeds(b)
  <2>. PICK t \in Tokens : Heard(b, t) /\ stored' = t
    BY <1>3 DEF LoginSucceeds
  <2>1. /\ tab' = [tab EXCEPT ![b].at = "app", ![b].waits = "no", ![b].access = "fresh"]
        /\ tab[b].waits = "login" /\ UNCHANGED <<call, token, issued>>
    BY <1>3 DEF LoginSucceeds, Take
  <2>2. tab'[b].waits = "no" /\ tab'[b].at = "app" /\ tab'[b].held = tab[b].held
    BY <1>1, <2>1 DEF Page
  <2>3. tab[b].held = 0
    BY <1>1, <2>1 DEF PageFits
  <2>4. \A c \in Tabs \ {b} : tab'[c] = tab[c]
    BY <1>1, <2>1
  <2>5. req'[b] = Idle /\ \A c \in Tabs \ {b} : req'[c] = req[c]
    BY <1>3, Slot DEF LoginSucceeds, Take
  <2>6. CallsOfPages'
    BY <2>1, <2>2, <2>4, CallsStay
  <2>7. t <= issued /\ Live(t) /\ \A c \in Tabs \ {b} : req[c].step = "reply" => req[c].token # t
    BY HeardToken
  <2>8. QED
    BY <2>1, <2>2, <2>3, <2>4, <2>5, <2>6, <2>7, StoreMoves
<1>4. CASE Refreshed(b)
  <2>. PICK t \in Tokens : Heard(b, t) /\ AdoptTokens(b, t)
    BY <1>4 DEF Refreshed
  <2>1. /\ tab' = [tab EXCEPT ![b].access = "fresh", ![b].waits = "no", ![b].isRefreshing = FALSE]
        /\ tab[b].waits = "refresh" /\ UNCHANGED <<token, issued>> /\ stored' = t
    BY <1>4 DEF Refreshed, AdoptTokens, Take
  <2>2. tab'[b].waits = "no" /\ tab'[b].at = tab[b].at /\ tab'[b].held = tab[b].held
    BY <1>1, <2>1 DEF Page
  <2>3. tab[b].held = 0 /\ tab[b].at = "app"
    BY <1>1, <2>1 DEF PageFits
  <2>4. \A c \in Tabs \ {b} : tab'[c] = tab[c]
    BY <1>1, <2>1
  <2>5. req'[b] = Idle /\ \A c \in Tabs \ {b} : req'[c] = req[c]
    BY <1>4, Slot DEF Refreshed, Take
  <2>6. CallsOfPages'
    <3>1. \A c \in Tabs \ {b} : call'[c] = call[c]
      BY <1>4 DEF Refreshed, Resent, ServerInv, PagesTyped
    <3>2. QED
      BY <2>2, <2>3, <2>4, <3>1, CallsChange
  <2>7. t <= issued /\ Live(t) /\ \A c \in Tabs \ {b} : req[c].step = "reply" => req[c].token # t
    BY HeardToken
  <2>8. QED
    BY <2>1, <2>2, <2>3, <2>4, <2>5, <2>6, <2>7, StoreMoves
<1>5. CASE RestoreMe(b)
  <2>1. /\ tab' = [tab EXCEPT ![b].at = "app", ![b].held = 0] /\ stored' = tab[b].held
        /\ tab[b].at = "restoring" /\ tab[b].held # 0 /\ UNCHANGED <<svars, call>>
    BY <1>5 DEF RestoreMe
  <2>2. UNCHANGED <<req, token, issued>>
    BY <2>1 DEF svars
  <2>3. tab'[b].waits = tab[b].waits /\ tab'[b].at = "app" /\ tab'[b].held = 0
    BY <1>1, <2>1 DEF Page
  <2>4. tab[b].waits = "no" /\ req[b] = Idle /\ tab[b].held <= issued /\ Live(tab[b].held)
    BY <1>1, <2>1 DEF PageFits
  <2>5. \A c \in Tabs \ {b} : tab'[c] = tab[c]
    BY <1>1, <2>1
  <2>6. \A c \in Tabs \ {b} : req[c].step = "reply" => req[c].token # tab[b].held
    BY DEF Undisturbed, AnswersApart
  <2>7. tab[b].held \in Tokens
    <3>1. tab[b].held \in 0..MaxTokens /\ MaxTokens \in Nat
      BY ServerTyped
    <3>2. QED
      BY <2>1, <3>1 DEF Tokens
  <2>8. CallsOfPages'
    BY <2>1, <2>3, <2>5, CallsStay
  <2>9. QED
    BY <2>1, <2>2, <2>3, <2>4, <2>5, <2>6, <2>7, <2>8, StoreMoves
<1>6. QED
  BY <1>2, <1>3, <1>4, <1>5

\* The server answers with a new token, which nobody has.
LEMMA CreateMoves ==
    ASSUME ServerInv, Undisturbed, NEW b \in Tabs, NEW row \in TokenRow,
           NEW op \in {"login", "refresh"}, req[b].op = op, req[b].step = "create",
           Create(b, op, row), UNCHANGED <<tab, stored, call>>
    PROVE  Undisturbed'
<1>. DEFINE n == issued + 1
<1>1. /\ issued' = n /\ token' = [token EXCEPT ![n] = row]
      /\ n \in Tokens /\ issued \in Nat
  BY ServerTyped DEF Create, Tokens
<1>2. /\ req'[b] = [op |-> op, step |-> "reply", token |-> n]
      /\ \A c \in Tabs \ {b} : req'[c] = req[c]
  BY Slot DEF Create, Become
<1>3. token'[n].row = "live" /\ \A t \in Tokens \ {n} : token'[t] = token[t]
  BY <1>1, ServerTyped DEF TokenRow
<1>. HIDE DEF n
<1>4. n > issued /\ n # 0 /\ n \in Nat
  BY <1>1 DEF n
<1>5. PageFits(b)'
  <2>1. req[b] # Idle /\ req'[b] # Idle /\ req'[b].op = req[b].op
    BY <1>2, ServerTyped
  <2>2. PageFits(b) /\ tab[b].waits \in {"no", "restore", "login", "refresh"}
    BY ServerTyped DEF Undisturbed, Page
  <2>3. tab[b].held = 0
    BY <2>1, <2>2 DEF PageFits
  <2>4. QED
    BY <2>1, <2>2, <2>3 DEF PageFits
<1>6. AnswerIsLive(b)'
  BY <1>1, <1>2, <1>3, <1>4 DEF AnswerIsLive, At, Live
<1>7. Replaces(b)' <=> Replaces(b)
  BY DEF Replaces
<1>8. AnswersApart'
  <2>1. \A c \in Tabs \ {b} : req[c].step = "reply" => req[c].token <= issued /\ req[c].token \in 0..MaxTokens
    BY AnswerTyped, ServerTyped DEF Undisturbed, AnswerIsLive
  <2>2. stored <= issued /\ stored \in Nat
    BY ServerTyped DEF Undisturbed, StoredIsLive
  <2>3. ASSUME NEW d \in Tabs \ {b}
        PROVE  /\ tab[d].held # n
               /\ At(d, "refresh", "find") => req[d].token # n
               /\ At(d, "refresh", "delete") => req[d].proof.token # n
    <3>1. PageFits(d) /\ AnswerIsLive(d)
      BY DEF Undisturbed
    <3>2. req[d] \in RequestState /\ tab[d].held \in 0..MaxTokens
      BY ServerTyped
    <3>3. tab[d].held # n
      BY <1>1, <1>4, <3>1, <3>2, ServerTyped DEF PageFits
    <3>4. At(d, "refresh", "find") => req[d].token \in Nat /\ req[d].token <= issued
      BY <3>1, <3>2, Kinds DEF AnswerIsLive, At, Tokens
    <3>5. At(d, "refresh", "delete") => req[d].proof.token \in Nat /\ req[d].proof.token <= issued
      BY <3>1, <3>2, Kinds DEF AnswerIsLive, At, Proof, Tokens
    <3>6. QED
      BY <1>1, <1>4, <3>3, <3>4, <3>5
  <2>4. \A c \in Tabs \ {b} : req[c].step = "reply" => req[c].token # n
    BY <1>1, <1>4, <2>1, ServerTyped
  <2>5. stored # n
    BY <1>1, <1>4, <2>2
  <2>. SUFFICES ASSUME NEW c \in Tabs, req'[c].step = "reply"
                PROVE  /\ stored' # req'[c].token
                       /\ \A d \in Tabs \ {c} :
                             /\ req'[d].step = "reply" => req'[d].token # req'[c].token
                             /\ tab'[d].held # req'[c].token
                             /\ At(d, "refresh", "find")' => req'[d].token # req'[c].token
                             /\ At(d, "refresh", "delete")' => req'[d].proof.token # req'[c].token
    BY DEF AnswersApart
  <2>6. CASE c = b
    BY <1>2, <2>3, <2>4, <2>5, <2>6 DEF At
  <2>7. CASE c # b
    <3>1. req'[c] = req[c] /\ req[c].step = "reply" /\ stored # req[c].token
      BY <1>2, <2>7 DEF Undisturbed, AnswersApart
    <3>2. tab[b].held # req[c].token
      BY <2>7, <3>1 DEF Undisturbed, AnswersApart
    <3>3. ASSUME NEW d \in Tabs \ {c}, d # b
          PROVE  /\ req'[d].step = "reply" => req'[d].token # req'[c].token
                 /\ tab'[d].held # req'[c].token
                 /\ At(d, "refresh", "find")' => req'[d].token # req'[c].token
                 /\ At(d, "refresh", "delete")' => req'[d].proof.token # req'[c].token
      <4>1. req'[d] = req[d]
        BY <1>2, <3>3
      <4>2. QED
        BY <3>1, <4>1 DEF Undisturbed, AnswersApart, At
    <3>4. QED
      BY <1>2, <2>4, <2>7, <3>1, <3>2, <3>3 DEF At
  <2>8. QED
    BY <2>6, <2>7
<1>9. StoredIsLive'
  <2>1. Replacing' <=> Replacing
    BY DEF Replacing
  <2>2. stored <= issued /\ stored \in Nat /\ (stored # 0 => stored \in Tokens \ {n})
    <3>1. stored <= issued /\ stored \in 0..MaxTokens /\ MaxTokens \in Nat
      BY ServerTyped DEF Undisturbed, StoredIsLive
    <3>2. QED
      BY <1>1, <1>4, <3>1 DEF Tokens
  <2>3. QED
    BY <1>1, <1>3, <1>4, <2>1, <2>2 DEF Undisturbed, StoredIsLive, Live
<1>10. CallsOfPages'
  BY DEF Undisturbed, CallsOfPages
<1>11. \A t \in Tokens : t <= issued /\ Live(t) => token'[t].row = "live"
  BY <1>3 DEF Live
<1>12. Replaces(b)' => \A c \in Tabs \ {b} : ~ Replaces(c)
  BY <1>7 DEF Undisturbed, OneReplaces
<1>13. issued' \in Nat /\ issued <= issued'
  BY <1>1, <1>4
<1>14. \A c \in Tabs \ {b} : tab'[c] = tab[c] /\ req'[c] = req[c]
  BY <1>2
<1>15. QED
  BY <1>5, <1>6, <1>8, <1>9, <1>10, <1>11, <1>12, <1>13, <1>14, TabMoves

LEMMA CreateSteps ==
    ASSUME ServerInv, Undisturbed, NEW b \in Tabs, LoginCreate(b) \/ RefreshCreate(b),
           UNCHANGED <<tab, stored, call>>
    PROVE  Undisturbed'
<1>1. req[b] \in RequestState /\ issued \in Nat /\ issued <= MaxTokens
  BY ServerTyped
<1>2. CASE LoginCreate(b)
  <2>. DEFINE row == [row |-> "live", user |-> req[b].user, password |-> req[b].password,
                      login |-> issued + 1, late |-> req[b].seen < purged[req[b].user]]
  <2>1. /\ req[b].op = "login" /\ req[b].step = "create" /\ Create(b, "login", row)
    BY <1>2 DEF LoginCreate, At
  <2>2. issued + 1 \in Tokens
    BY <1>1, <2>1, ServerTyped DEF Create, Tokens
  <2>3. row \in TokenRow
    BY <1>1, <2>1, <2>2, Kinds DEF TokenRow
  <2>4. QED
    BY <2>1, <2>3, CreateMoves
<1>3. CASE RefreshCreate(b)
  <2>. DEFINE p == req[b].proof
              row == [row |-> "live", user |-> p.user, password |-> p.password, login |-> p.login,
                      late |-> p.late \/ req[b].seen < purged[p.user]]
  <2>1. /\ req[b].op = "refresh" /\ req[b].step = "create" /\ Create(b, "refresh", row)
    BY <1>3 DEF RefreshCreate, At
  <2>2. p \in Proof
    BY <1>1, <2>1, Kinds
  <2>3. row \in TokenRow
    BY <2>2 DEF TokenRow, Proof
  <2>4. QED
    BY <2>1, <2>3, CreateMoves
<1>4. QED
  BY <1>2, <1>3

\* The server goes on with a refresh: nobody else's token is touched.
LEMMA RefreshMoves ==
    ASSUME ServerInv, Undisturbed, NEW b \in Tabs, NEW q, UNCHANGED <<tab, stored, call, issued>>,
           req' = [req EXCEPT ![b] = q], req[b].op = "refresh", q.op = "refresh",
           q.step \in {"discard", "delete", "create"},
           q.step = "delete" =>
              /\ q.proof.token <= issued
              /\ \A c \in Tabs \ {b} : req[c].step = "reply" => q.proof.token # req[c].token,
           \A c \in Tabs \ {b} : req[c].step = "reply" => token'[req[c].token] = token[req[c].token]
    PROVE  Undisturbed'
<1>1. req'[b] = q /\ \A c \in Tabs \ {b} : req'[c] = req[c]
  BY Slot
<1>2. \A c \in Tabs : PageFits(c) /\ AnswerIsLive(c) /\ tab[c].waits \in {"no", "restore", "login", "refresh"}
  BY ServerTyped DEF Undisturbed, Page
<1>3. req[b] # Idle /\ q # Idle
  BY ServerTyped
<1>4. tab[b].waits \in {"restore", "refresh"}
  BY <1>2, <1>3 DEF PageFits
<1>5. \A c \in Tabs \ {b} : ~ Replaces(c)
  BY <1>4 DEF Undisturbed, OneReplaces, Replaces
<1>6. ASSUME NEW c \in Tabs \ {b}
      PROVE  tab[c].held = 0 /\ req[c].op # "refresh"
  <2>1. tab[c].held = 0 /\ tab[c].waits \in {"no", "login"}
    BY <1>2, <1>5 DEF Replaces
  <2>2. QED
    BY <1>2, <2>1, ServerTyped DEF PageFits
<1>7. \A c \in Tabs : PageFits(c)'
  <2>1. PageFits(b)'
    <3>1. tab[b].held = 0
      BY <1>2, <1>4 DEF PageFits
    <3>2. QED
      BY <1>1, <1>2, <1>3, <3>1 DEF PageFits
  <2>2. ASSUME NEW c \in Tabs \ {b} PROVE PageFits(c)'
    BY <1>1, <1>2, <1>6 DEF PageFits
  <2>3. QED
    BY <2>1, <2>2
<1>8. \A c \in Tabs : AnswerIsLive(c)'
  <2>1. AnswerIsLive(b)'
    BY <1>1 DEF AnswerIsLive, At
  <2>2. ASSUME NEW c \in Tabs \ {b} PROVE AnswerIsLive(c)'
    BY <1>1, <1>2, <1>6 DEF AnswerIsLive, At, Live
  <2>3. QED
    BY <2>1, <2>2
<1>9. OneReplaces'
  BY DEF Undisturbed, OneReplaces, Replaces
<1>10. AnswersApart'
  <2>1. ASSUME NEW c \in Tabs, req'[c].step = "reply"
        PROVE  c \in Tabs \ {b} /\ req'[c] = req[c] /\ req[c].step = "reply"
    BY <1>1, <2>1
  <2>2. ASSUME NEW c \in Tabs, req'[c].step = "reply", NEW d \in Tabs \ {c}
        PROVE  /\ req'[d].step = "reply" => req'[d].token # req'[c].token
               /\ tab'[d].held # req'[c].token
               /\ At(d, "refresh", "find")' => req'[d].token # req'[c].token
               /\ At(d, "refresh", "delete")' => req'[d].proof.token # req'[c].token
    <3>1. req'[c] = req[c] /\ req[c].step = "reply" /\ c \in Tabs \ {b}
      BY <2>1, <2>2
    <3>2. tab[d].held # req[c].token
      BY <2>2, <3>1 DEF Undisturbed, AnswersApart
    <3>3. CASE d = b
      BY <1>1, <3>1, <3>2, <3>3 DEF At
    <3>4. CASE d # b
      <4>1. req'[d] = req[d]
        BY <1>1, <2>2, <3>4
      <4>2. QED
        BY <2>2, <3>1, <4>1 DEF Undisturbed, AnswersApart, At
    <3>5. QED
      BY <3>3, <3>4
  <2>3. \A c \in Tabs : req'[c].step = "reply" => stored' # req'[c].token
    BY <2>1 DEF Undisturbed, AnswersApart
  <2>4. QED
    BY <2>2, <2>3 DEF AnswersApart
<1>11. StoredIsLive'
  BY <1>4 DEF Undisturbed, StoredIsLive, Replacing
<1>12. CallsOfPages'
  BY DEF Undisturbed, CallsOfPages
<1>13. QED
  BY <1>7, <1>8, <1>9, <1>10, <1>11, <1>12 DEF Undisturbed

LEMMA RefreshSteps ==
    ASSUME ServerInv, Undisturbed, NEW b \in Tabs, RefreshFind(b) \/ RefreshDelete(b),
           UNCHANGED <<tab, stored, call>>
    PROVE  Undisturbed'
<1>1. AnswerIsLive(b) /\ req[b] \in RequestState
  BY ServerTyped DEF Undisturbed
<1>2. CASE RefreshFind(b)
  <2>. PICK t : t = req[b].token
    OBVIOUS
  <2>1. At(b, "refresh", "find") /\ UNCHANGED <<token, issued>> /\ Live(t) /\ t <= issued
    BY <1>1, <1>2 DEF RefreshFind, AnswerIsLive
  <2>2. \A c \in Tabs \ {b} : req[c].step = "reply" => t # req[c].token
    BY <2>1 DEF Undisturbed, AnswersApart
  <2>3. PICK q : /\ req' = [req EXCEPT ![b] = q]
                 /\ q.op = "refresh"
                 /\ q.step = "discard" \/ (q.step = "delete" /\ q.proof.token = t)
    <3>1. CASE req' = [req EXCEPT ![b].step = "discard"]
      <4>1. [req[b] EXCEPT !.step = "discard"].op = "refresh" /\ [req[b] EXCEPT !.step = "discard"].step = "discard"
        BY <1>1, <2>1, Kinds DEF At
      <4>2. QED
        BY <3>1, <4>1
    <3>2. CASE \E seen, user0, password, login, late :
                  Become(b, [op |-> "refresh", step |-> "delete", seen |-> seen,
                             proof |-> [token |-> t, user |-> user0, password |-> password,
                                        login |-> login, late |-> late]])
      <4>. PICK seen, user0, password, login, late :
                  Become(b, [op |-> "refresh", step |-> "delete", seen |-> seen,
                             proof |-> [token |-> t, user |-> user0, password |-> password,
                                        login |-> login, late |-> late]])
        BY <3>2
      <4>. PICK q : q = [op |-> "refresh", step |-> "delete", seen |-> seen,
                         proof |-> [token |-> t, user |-> user0, password |-> password,
                                    login |-> login, late |-> late]]
        OBVIOUS
      <4>1. q.op = "refresh" /\ q.step = "delete" /\ q.proof.token = t
        OBVIOUS
      <4>2. req' = [req EXCEPT ![b] = q]
        BY DEF Become
      <4>3. QED
        BY <4>1, <4>2
    <3>3. QED
      BY <1>2, <2>1, <3>1, <3>2 DEF RefreshFind
  <2>4. QED
    BY <2>1, <2>2, <2>3, RefreshMoves DEF At
<1>3. CASE RefreshDelete(b)
  <2>. PICK o : o = req[b].proof.token
    OBVIOUS
  <2>1. /\ At(b, "refresh", "delete") /\ token' = [token EXCEPT ![o] = Absent] /\ UNCHANGED issued
        /\ req' = [req EXCEPT ![b].step = "create"]
    BY <1>3 DEF RefreshDelete
  <2>2. \A c \in Tabs \ {b} : req[c].step = "reply" => o # req[c].token
    BY <2>1 DEF Undisturbed, AnswersApart
  <2>3. \A c \in Tabs \ {b} : req[c].step = "reply" => token'[req[c].token] = token[req[c].token]
    <3>1. ASSUME NEW c \in Tabs, req[c].step = "reply" PROVE req[c].token \in Tokens
      BY <3>1, AnswerTyped, ServerTyped DEF Undisturbed, AnswerIsLive, Tokens
    <3>2. QED
      BY <2>1, <2>2, <3>1, ServerTyped
  <2>4. PICK q : /\ req' = [req EXCEPT ![b] = q] /\ q.op = "refresh" /\ q.step = "create"
    <3>1. [req[b] EXCEPT !.step = "create"].op = "refresh" /\ [req[b] EXCEPT !.step = "create"].step = "create"
      BY <1>1, <2>1, Kinds DEF At
    <3>2. QED
      BY <2>1, <3>1
  <2>5. QED
    BY <2>1, <2>3, <2>4, RefreshMoves DEF At
<1>4. QED
  BY <1>2, <1>3

-----------------------------------------------------------------------------

LEMMA SurvivalInit == BInit => SurvivalInv
<1>. SUFFICES ASSUME BInit PROVE SurvivalInv
  OBVIOUS
<1>1. /\ stored = 0 /\ issued = 0
      /\ \A b \in Tabs : tab[b] = Blank /\ req[b] = Idle
      /\ \A b \in Tabs : \A c \in Calls[b] : call[b][c].at = "idle"
  BY TabsAssumption DEF BInit, SInit, NoCall
<1>2. Undisturbed
  BY <1>1 DEF Undisturbed, CallsOfPages, PageFits, AnswerIsLive, At, Idle, Blank, OneReplaces, Replaces,
              AnswersApart, StoredIsLive
<1>3. QED
  BY <1>2, ServerInvInit DEF SurvivalInv

LEMMA SurvivalNext == SurvivalInv /\ [BNext]_bvars => SurvivalInv'
<1>. SUFFICES ASSUME SurvivalInv, [BNext]_bvars PROVE SurvivalInv'
  OBVIOUS
<1>1. ServerInv'
  BY ServerInvNext DEF SurvivalInv
<1>2. ServerInv
  BY DEF SurvivalInv
<1>3. ASSUME NEW b \in Tabs, TabNext(b) \/ Lost(b), ~ disturbed' PROVE Undisturbed'
  <2>1. ~ disturbed
    BY <1>3 DEF TabNext, Mount, Hear, RestoreMe, RestoreMeFails, Submit, LoginRejected, Logout, Unload, Reload,
                Drop, AccessExpires, Send, CallStep, ServerStep, Lost, RestoreRefreshed, RestoreRefused,
                LoginSucceeds, LoginFails, Refreshed, RefreshRefused, Answer, RejectRetried, Enqueue,
                LeadRefresh, NothingToRefresh, bvars
  <2>2. Undisturbed
    BY <2>1 DEF SurvivalInv
  <2>3. /\ ~ RestoreRefused(b) /\ ~ LoginFails(b) /\ ~ RefreshRefused(b)
        /\ ~ RestoreMeFails(b) /\ ~ Logout(b) /\ ~ Unload(b) /\ ~ Drop(b) /\ ~ Lost(b)
        /\ \A c \in Calls[b] : ~ NothingToRefresh(b, c)
        /\ ~ (ServerStep(b) /\ RefreshDiscard(b))
    BY <1>2, <1>3, <2>2, NotUndisturbed
  <2>4. CASE \/ Mount(b) \/ LoginRejected(b) \/ Reload(b) \/ AccessExpires(b)
             \/ \E c \in Calls[b] : \/ Send(b, c) \/ Answer(b, c) \/ RejectRetried(b, c) \/ Enqueue(b, c)
                                    \/ LeadRefresh(b, c)
    BY <1>2, <1>3, <2>2, <2>4, QuietSteps, SendSteps
  <2>5. CASE \E u \in Users : Submit(b, u)
    BY <1>2, <2>2, <2>5, SubmitSteps
  <2>6. CASE RestoreRefreshed(b) \/ LoginSucceeds(b) \/ Refreshed(b) \/ RestoreMe(b)
    BY <1>2, <2>2, <2>6, HearSteps
  <2>7. CASE ServerStep(b)
    <3>1. UNCHANGED <<tab, stored, call>>
      BY <2>7 DEF ServerStep
    <3>2. LoginCreate(b) \/ RefreshCreate(b) \/ RefreshFind(b) \/ RefreshDelete(b)
      BY <2>3, <2>7 DEF ServerStep
    <3>3. QED
      BY <1>2, <2>2, <3>1, <3>2, CreateSteps, RefreshSteps
  <2>8. QED
    BY <1>3, <2>3, <2>4, <2>5, <2>6, <2>7 DEF TabNext, Hear, CallStep
<1>4. CASE UNCHANGED bvars
  <2>1. UNCHANGED <<stored, tab, call, disturbed, token, issued, req>>
    BY <1>4 DEF bvars, svars
  <2>2. Undisturbed => Undisturbed'
    BY <2>1 DEF Undisturbed, CallsOfPages, PageFits, AnswerIsLive, At, Live, OneReplaces, Replaces,
                AnswersApart, StoredIsLive, Replacing
  <2>3. QED
    BY <1>1, <2>1, <2>2 DEF SurvivalInv
<1>5. QED
  BY <1>1, <1>3, <1>4 DEF BNext, SurvivalInv

\* An open page whose session nothing disturbed can always refresh it: however the tabs, their
\* calls, their logins and their refreshes interleave, the stored token is one the server knows.
THEOREM UndisturbedSessionSurvives == BSpec => []SessionSurvives
<1>1. SurvivalInv => SessionSurvives
  BY DEF SurvivalInv, Undisturbed, StoredIsLive, SessionSurvives
<1>2. BSpec => []SurvivalInv
  BY SurvivalInit, SurvivalNext, PTL DEF BSpec
<1>3. QED
  BY <1>1, <1>2, PTL

-----------------------------------------------------------------------------
(* Tenancy.                                                                *)

List(w) == <<"transactions", w>>

\* The bounds of the counters are left to the runs: numbers are natural ones here.
AnyData  == [of : Headers, seen : Nat]
AnyFetch == [at : {"none", "sent", "waiting", "answered"}, header : Headers, data : AnyData]
AnyEntry == [data : AnyData, invalid : BOOLEAN, fetch : AnyFetch]

Shape ==
    /\ entry \in [Keys -> AnyEntry]
    /\ books \in [Workspaces -> Nat]
    /\ told \in [Workspaces -> Nat]
    /\ url \in Headers

\* A list is fetched only while its page is open, as leaving aborts the fetch, so the header
\* stays that of the page; the answer is at least as new as what the tab knows of; and so is
\* the list itself unless it is marked.
Sound(e, w, reading, t) ==
    /\ ~ AtRest(e) => reading /\ e.fetch.header = w
    /\ e.fetch.at = "answered" => e.fetch.data.of = w /\ e.fetch.data.seen >= t
    /\ e.data.of \in {w, Hub}
    /\ e.data # NoData /\ ~ e.invalid => e.data.seen >= t

Reading(w) == url = w /\ view = "dashboard"

CacheInv ==
    /\ Shape
    /\ \A w \in Workspaces : Sound(entry[List(w)], w, Reading(w), told[w])
    /\ \A w \in Workspaces : told[w] <= books[w]

-----------------------------------------------------------------------------
(* Keys, and what the operators on entries keep.                           *)

LEMMA ListIsAKey ==
    ASSUME NEW w \in Workspaces
    PROVE  List(w) \in Keys /\ List(w)[1] = "transactions" /\ List(w)[2] = w
BY DEF List, Keys, Queries

LEMMA ListRead ==
    ASSUME NEW w \in Workspaces, NEW u, NEW v, NEW f
    PROVE  List(w) \in Read(u, v, f) <=> u = w /\ v = "dashboard"
BY ListIsAKey DEF Read

LEMMA HeaderTyped ==
    ASSUME NEW u \in Headers, NEW h \in Headers
    PROVE  Header(u, h) \in Headers /\ (u # Hub => Header(u, h) = u) /\ Header(Hub, h) = h
BY DEF Header

LEMMA NoDataTyped == NoData \in AnyData /\ NoData.of = Hub
BY DEF NoData, AnyData, Headers

LEMMA NoFetchTyped == NoFetch \in AnyFetch /\ NoFetch.at = "none"
BY NoDataTyped DEF NoFetch, AnyFetch, Headers

LEMMA BegunTyped ==
    ASSUME NEW e \in AnyEntry, NEW u \in Headers
    PROVE  /\ Begun(e, u) \in AnyEntry
           /\ Begun(e, u).data = e.data /\ Begun(e, u).invalid = e.invalid
           /\ Begun(e, u).fetch.at = "sent" /\ Begun(e, u).fetch.header = Header(u, Hub)
<1>1. Header(u, Hub) \in Headers
  BY HeaderTyped DEF Headers
<1>2. [at |-> "sent", header |-> Header(u, Hub), data |-> NoData] \in AnyFetch
  BY <1>1, NoDataTyped DEF AnyFetch
<1>3. QED
  BY <1>2 DEF Begun, AnyEntry

LEMMA AbortedTyped ==
    ASSUME NEW e \in AnyEntry
    PROVE  /\ Aborted(e) \in AnyEntry
           /\ Aborted(e).data = e.data /\ Aborted(e).invalid = e.invalid
           /\ Aborted(e).fetch = NoFetch
BY NoFetchTyped DEF Aborted, AnyEntry

\* A fetch that has just begun on its own page is sound, and so is one that was aborted.
LEMMA BegunIsSound ==
    ASSUME NEW e \in AnyEntry, NEW w \in Workspaces, NEW reading, NEW t, Sound(e, w, reading, t)
    PROVE  Sound(Begun(e, w), w, TRUE, t)
<1>1. w \in Headers /\ w # Hub
  BY PlacesAssumption DEF Headers
<1>2. Header(w, Hub) = w
  BY <1>1 DEF Header
<1>3. QED
  BY <1>1, <1>2, BegunTyped DEF Sound

LEMMA AbortedIsSound ==
    ASSUME NEW e \in AnyEntry, NEW w \in Workspaces, NEW reading, NEW other, NEW t,
           Sound(e, w, reading, t)
    PROVE  Sound(Aborted(e), w, other, t)
BY AbortedTyped, NoFetchTyped DEF Sound, AtRest

-----------------------------------------------------------------------------
(* The initial state.                                                      *)

LEMMA InitCache == Init => CacheInv
<1> SUFFICES ASSUME Init PROVE CacheInv
  OBVIOUS
<1> DEFINE fresh == [data |-> NoData, invalid |-> FALSE, fetch |-> NoFetch]
<1>1. fresh \in AnyEntry
  BY NoDataTyped, NoFetchTyped DEF AnyEntry
<1>2. entry = [k \in Keys |-> fresh]
  BY DEF Init
<1>3. Shape
  BY <1>1, <1>2 DEF Init, Shape, Headers
<1>4. ASSUME NEW w \in Workspaces
      PROVE  Sound(entry[List(w)], w, Reading(w), told[w]) /\ told[w] <= books[w]
  <2>1. entry[List(w)] = fresh
    BY <1>2, ListIsAKey
  <2>2. fresh.fetch = NoFetch /\ fresh.data = NoData
    OBVIOUS
  <2>3. Sound(fresh, w, Reading(w), told[w])
    BY <2>2, NoDataTyped, NoFetchTyped DEF Sound, AtRest
  <2>4. told[w] = 0 /\ books[w] = 0
    BY DEF Init
  <2>5. QED
    BY <2>1, <2>3, <2>4
<1>5. QED
  BY <1>3, <1>4 DEF CacheInv

-----------------------------------------------------------------------------
(* Navigation.                                                             *)

LEMMA MoveKeeps ==
    ASSUME CacheInv, NEW u \in Headers, NEW v, NEW f, Move(u, v, f)
    PROVE  CacheInv'
<1> DEFINE next == Read(u, v, f)
           After(k) == IF k \in next \ NowRead
                          /\ AtRest(entry[k]) /\ (entry[k].data = NoData \/ entry[k].invalid)
                       THEN Begun(entry[k], u)
                       ELSE IF k \in NowRead \ next /\ k[1] \in UsesSignal
                       THEN Aborted(entry[k]) ELSE entry[k]
<1>1. /\ entry' = [k \in Keys |-> After(k)]
      /\ url' = u /\ view' = v
      /\ books' = books /\ told' = told
  BY DEF Move
<1> HIDE DEF next
<1>2. \A k \in Keys : entry[k] \in AnyEntry
  BY DEF CacheInv, Shape
<1>3. Shape'
  <2>1. \A k \in Keys : After(k) \in AnyEntry
    BY <1>2, BegunTyped, AbortedTyped
  <2> HIDE DEF After
  <2>2. entry' \in [Keys -> AnyEntry]
    BY <1>1, <2>1
  <2>3. QED
    BY <1>1, <2>2 DEF CacheInv, Shape
<1>4. ASSUME NEW w \in Workspaces
      PROVE  Sound(entry'[List(w)], w, Reading(w)', told'[w]) /\ told'[w] <= books'[w]
  <2> DEFINE k == List(w)
  <2>1. /\ k \in Keys /\ k[1] \in UsesSignal
        /\ entry'[k] = After(k)
        /\ entry[k] \in AnyEntry
        /\ Sound(entry[k], w, Reading(w), told[w])
    BY <1>1, <1>2, ListIsAKey DEF CacheInv, UsesSignal
  <2>2. /\ k \in next <=> Reading(w)'
        /\ k \in NowRead <=> Reading(w)
    BY <1>1, ListRead DEF next, NowRead, Reading
  <2> HIDE DEF k
  <2>3. Sound(After(k), w, Reading(w)', told[w])
    <3>1. CASE k \in next \ NowRead /\ AtRest(entry[k])
                 /\ (entry[k].data = NoData \/ entry[k].invalid)
      <4>1. After(k) = Begun(entry[k], w) /\ Reading(w)' = TRUE
        BY <1>1, <2>2, <3>1 DEF Reading
      <4>2. QED
        BY <2>1, <4>1, BegunIsSound
    <3>2. CASE k \in NowRead \ next
      <4>1. After(k) = Aborted(entry[k])
        BY <2>1, <3>2
      <4>2. QED
        BY <2>1, <4>1, AbortedIsSound
    <3>3. CASE /\ ~ (k \in next \ NowRead /\ AtRest(entry[k])
                      /\ (entry[k].data = NoData \/ entry[k].invalid))
               /\ ~ (k \in NowRead \ next)
      <4>1. After(k) = entry[k]
        BY <3>3
      <4>2. Reading(w) => Reading(w)'
        BY <2>2, <3>3
      <4>3. QED
        BY <2>1, <4>1, <4>2 DEF Sound
    <3>4. QED
      BY <3>1, <3>2, <3>3
  <2>4. QED
    BY <1>1, <2>1, <2>3 DEF CacheInv, k
<1>5. QED
  BY <1>3, <1>4 DEF CacheInv

-----------------------------------------------------------------------------
(* Fetches.                                                                *)

\* A step that rewrites one entry and leaves the page.
LEMMA EntryStep ==
    ASSUME CacheInv, NEW k \in Keys, NEW e \in AnyEntry,
           entry' = [entry EXCEPT ![k] = e],
           \A w \in Workspaces : k = List(w) => Sound(e, w, Reading(w), told[w]),
           UNCHANGED <<place, books, told>>
    PROVE  CacheInv'
<1>1. Shape'
  BY DEF CacheInv, Shape, place
<1>2. ASSUME NEW w \in Workspaces
      PROVE  Sound(entry'[List(w)], w, Reading(w)', told'[w]) /\ told'[w] <= books'[w]
  <2>1. Reading(w)' <=> Reading(w)
    BY DEF Reading, place
  <2>2. entry'[List(w)] = IF k = List(w) THEN e ELSE entry[List(w)]
    BY ListIsAKey DEF CacheInv, Shape
  <2>3. Sound(entry'[List(w)], w, Reading(w), told[w])
    BY <2>2 DEF CacheInv
  <2>4. QED
    BY <2>1, <2>3 DEF CacheInv, Sound
<1>3. QED
  BY <1>1, <1>2 DEF CacheInv

\* FetchStep changes the fetch of an entry only.
LEMMA FetchStepKeeps ==
    ASSUME CacheInv, NEW k \in Keys, NEW f \in AnyFetch, FetchStep(k, f),
           \A w \in Workspaces :
              k = List(w) => /\ f # NoFetch => Reading(w) /\ f.header = w
                             /\ f.at = "answered" => f.data.of = w /\ f.data.seen >= told[w]
    PROVE  CacheInv'
<1> DEFINE e == [entry[k] EXCEPT !.fetch = f]
<1>1. entry[k] \in AnyEntry
  BY DEF CacheInv, Shape
<1>2. e \in AnyEntry /\ e.data = entry[k].data /\ e.invalid = entry[k].invalid /\ e.fetch = f
  BY <1>1 DEF AnyEntry
<1>3. entry' = [entry EXCEPT ![k] = e] /\ UNCHANGED <<place, books, told>>
  BY DEF FetchStep
<1> HIDE DEF e
<1>4. \A w \in Workspaces : k = List(w) => Sound(e, w, Reading(w), told[w])
  BY <1>2 DEF CacheInv, Sound, AtRest
<1>5. QED
  BY <1>2, <1>3, <1>4, EntryStep

\* What a key's fetch may be: for a list, under way for its own page.
LEMMA FetchOf ==
    ASSUME CacheInv, NEW k \in Keys
    PROVE  /\ entry[k].fetch \in AnyFetch
           /\ \A w \in Workspaces :
                 k = List(w) /\ ~ AtRest(entry[k]) => Reading(w) /\ entry[k].fetch.header = w
BY DEF CacheInv, Shape, AnyEntry, Sound

LEMMA UnauthorizedKeeps ==
    ASSUME CacheInv, NEW k \in Keys, Unauthorized(k)
    PROVE  CacheInv'
<1> DEFINE f == [entry[k].fetch EXCEPT !.at = "waiting"]
<1>1. ~ AtRest(entry[k])
  BY NoFetchTyped DEF Unauthorized, AtRest
<1>2. f \in AnyFetch /\ f.at = "waiting" /\ f.header = entry[k].fetch.header
  BY FetchOf DEF AnyFetch
<1>3. FetchStep(k, f)
  BY DEF Unauthorized
<1> HIDE DEF f
<1>4. QED
  BY <1>1, <1>2, <1>3, FetchOf, FetchStepKeeps

\* The page is still the list's own when its request leaves again.
LEMMA ResendKeeps ==
    ASSUME CacheInv, NEW k \in Keys, SendAgain(k)
    PROVE  CacheInv'
<1> DEFINE f == [entry[k].fetch EXCEPT !.at = "sent", !.header = Header(url, @)]
<1>1. ~ AtRest(entry[k])
  BY NoFetchTyped DEF SendAgain, AtRest
<1>2. url \in Headers /\ entry[k].fetch.header \in Headers
  BY FetchOf DEF CacheInv, Shape, AnyFetch
<1>3. Header(url, entry[k].fetch.header) \in Headers
  BY <1>2, HeaderTyped
<1>4. f \in AnyFetch /\ f.at = "sent" /\ f.header = Header(url, entry[k].fetch.header)
  BY <1>3, FetchOf DEF AnyFetch
<1>5. FetchStep(k, f)
  BY DEF SendAgain
<1> HIDE DEF f
<1>6. \A w \in Workspaces : k = List(w) => Reading(w) /\ f.header = w
  BY <1>1, <1>4, FetchOf, HeaderTyped DEF Header, Reading
<1>7. QED
  BY <1>4, <1>5, <1>6, FetchStepKeeps

LEMMA ServeKeeps ==
    ASSUME CacheInv, NEW k \in Keys, Serve(k)
    PROVE  CacheInv'
<1> DEFINE h == entry[k].fetch.header
           d == Said(k[1], h)
           f == [entry[k].fetch EXCEPT !.at = "answered", !.data = d]
<1>1. ~ AtRest(entry[k])
  BY NoFetchTyped DEF Serve, AtRest
<1>2. h \in Workspaces
  BY FetchOf DEF Serve, AnyFetch, Headers
<1>3. k[1] \in Queries
  BY DEF Keys
<1>4. d \in AnyData
  <2>1. books[h] \in Nat
    BY <1>2 DEF CacheInv, Shape
  <2>2. QED
    BY <1>2, <1>3, <2>1
       DEF Said, ListTransactions, GetSummary, ListCategories, AnyData, Headers, Queries
<1>5. f \in AnyFetch /\ f.at = "answered" /\ f.header = h /\ f.data = d
  BY <1>4, FetchOf DEF AnyFetch
<1>6. FetchStep(k, f)
  BY DEF Serve
<1>7. ASSUME NEW w \in Workspaces, k = List(w)
      PROVE  Reading(w) /\ h = w /\ d.of = w /\ d.seen >= told[w]
  <2>1. Reading(w) /\ h = w
    BY <1>1, <1>7, FetchOf
  <2>2. d = [of |-> w, seen |-> books[w]]
    BY <1>7, <2>1, ListIsAKey DEF Said, ListTransactions
  <2>3. told[w] <= books[w] /\ told[w] \in Nat /\ books[w] \in Nat
    BY DEF CacheInv, Shape
  <2>4. QED
    BY <2>1, <2>2, <2>3
<1> HIDE DEF f, d
<1>8. QED
  BY <1>5, <1>6, <1>7, FetchStepKeeps

LEMMA FetchFailsKeeps ==
    ASSUME CacheInv, NEW k \in Keys, FetchFails(k)
    PROVE  CacheInv'
BY NoFetchTyped, FetchStepKeeps DEF FetchFails

LEMMA DeliverKeeps ==
    ASSUME CacheInv, NEW k \in Keys, Deliver(k)
    PROVE  CacheInv'
<1> DEFINE e == [data |-> entry[k].fetch.data, invalid |-> FALSE, fetch |-> NoFetch]
<1>1. e \in AnyEntry /\ e.data = entry[k].fetch.data /\ e.fetch = NoFetch
  BY FetchOf, NoFetchTyped DEF AnyEntry, AnyFetch
<1>2. entry' = [entry EXCEPT ![k] = e] /\ UNCHANGED <<place, books, told>>
  BY DEF Deliver
<1> HIDE DEF e
<1>3. ASSUME NEW w \in Workspaces, k = List(w)
      PROVE  Sound(e, w, Reading(w), told[w])
  <2>1. entry[k].fetch.data.of = w /\ entry[k].fetch.data.seen >= told[w]
    BY <1>3 DEF Deliver, CacheInv, Sound
  <2>2. QED
    BY <1>1, <2>1, NoFetchTyped DEF Sound, AtRest
<1>4. QED
  BY <1>1, <1>2, <1>3, EntryStep

-----------------------------------------------------------------------------
(* Changes.                                                                *)

\* A change that has not reached the books yet, or has failed.
LEMMA ElsewhereKeeps ==
    ASSUME CacheInv, UNCHANGED <<place, entry, books, told>>
    PROVE  CacheInv'
BY DEF CacheInv, Shape, Reading, place, Sound, AtRest

\* The books only grow, so that what the tab knows stays behind them.
LEMMA BooksGrow ==
    ASSUME CacheInv, UNCHANGED <<place, entry, told>>,
           books' \in [Workspaces -> Nat],
           \A w \in Workspaces : books[w] <= books'[w]
    PROVE  CacheInv'
<1>1. Shape' /\ \A w \in Workspaces : told'[w] <= books'[w]
  BY DEF CacheInv, Shape, place
<1>2. \A w \in Workspaces : Sound(entry'[List(w)], w, Reading(w)', told'[w])
  BY DEF CacheInv, Reading, place
<1>3. QED
  BY <1>1, <1>2 DEF CacheInv

LEMMA BookKeeps ==
    ASSUME CacheInv, Book
    PROVE  CacheInv'
<1> DEFINE h == change.header
<1>1. books \in [Workspaces -> Nat]
  BY DEF CacheInv, Shape
<1>2. books' = [books EXCEPT ![h] = @ + 1]
  BY DEF Book
<1>3. UNCHANGED <<place, entry, told>>
  BY DEF Book, ChangeStep
<1> HIDE DEF h
<1>4. /\ books' \in [Workspaces -> Nat]
      /\ \A w \in Workspaces : books[w] <= books'[w]
  <2>1. CASE h \in Workspaces
    <3>1. books[h] \in Nat /\ books[h] + 1 \in Nat
      BY <1>1, <2>1
    <3>2. \A w \in Workspaces : books'[w] = IF w = h THEN books[h] + 1 ELSE books[w]
      BY <1>1, <1>2, <2>1
    <3>3. books' \in [Workspaces -> Nat]
      BY <1>1, <1>2, <2>1, <3>1
    <3>4. QED
      BY <1>1, <3>1, <3>2, <3>3
  <2>2. CASE h \notin Workspaces
    <3>1. \A w \in Workspaces : books'[w] = books[w]
      BY <1>1, <1>2, <2>2
    <3>2. books' \in [Workspaces -> Nat]
      <4>1. \A w \in Workspaces : books'[w] \in Nat
        BY <1>1, <3>1
      <4>2. books' = [w \in Workspaces |-> books'[w]]
        BY <1>1, <1>2, <2>2
      <4>3. QED
        BY <4>1, <4>2
    <3>3. QED
      BY <1>1, <3>1, <3>2
  <2>3. QED
    BY <2>1, <2>2
<1>5. QED
  BY <1>3, <1>4, BooksGrow

LEMMA BookTransferKeeps ==
    ASSUME CacheInv, BookTransfer
    PROVE  CacheInv'
<1>1. /\ books' \in [Workspaces -> Nat]
      /\ \A w \in Workspaces : books[w] <= books'[w]
  BY DEF BookTransfer, CacheInv, Shape
<1>2. QED
  BY <1>1, BooksGrow DEF BookTransfer, ChangeStep

\* The confirmation of a change marks every list; those being read are fetched anew, those
\* being loaded for the first time are left alone, and told leaves those out.
LEMMA SucceededKeeps ==
    ASSUME CacheInv, Succeeded
    PROVE  CacheInv'
<1>1. PICK ws :
         entry' = [k \in Keys |-> Invalidated(k, Lists \cup Summaries(ws), Summaries(ws))]
  BY DEF Succeeded
<1>2. /\ url' = url /\ view' = view /\ books' = books
      /\ told' = [w \in Workspaces |->
                    IF AtRest(entry[List(w)]) \/ entry[List(w)].data # NoData
                    THEN books[w] ELSE told[w]]
  BY DEF Succeeded, List
<1> DEFINE Marked(k) == [entry[k] EXCEPT !.invalid = @ \/ k \in Lists \cup Summaries(ws)]
<1>3. ASSUME NEW k \in Keys
      PROVE  /\ Marked(k) \in AnyEntry
             /\ Marked(k).data = entry[k].data /\ Marked(k).fetch = entry[k].fetch
             /\ Marked(k).invalid = (entry[k].invalid \/ k \in Lists \cup Summaries(ws))
             /\ entry'[k] \in {Marked(k), Begun(Marked(k), url)}
  <2>1. entry[k] \in AnyEntry
    BY DEF CacheInv, Shape
  <2>2. entry'[k] = Invalidated(k, Lists \cup Summaries(ws), Summaries(ws))
    BY <1>1
  <2>3. QED
    BY <2>1, <2>2 DEF AnyEntry, Invalidated, Refetch
<1>4. Shape'
  <2>1. url \in Headers /\ books \in [Workspaces -> Nat] /\ told \in [Workspaces -> Nat]
    BY DEF CacheInv, Shape
  <2>2. told' \in [Workspaces -> Nat]
    BY <1>2, <2>1
  <2>3. ASSUME NEW k \in Keys PROVE entry'[k] \in AnyEntry
    <3>1. Marked(k) \in AnyEntry /\ entry'[k] \in {Marked(k), Begun(Marked(k), url)}
      BY <1>3
    <3> HIDE DEF Marked
    <3>2. QED
      BY <2>1, <3>1, BegunTyped
  <2>4. entry' \in [Keys -> AnyEntry]
    BY <1>1, <2>3
  <2>5. QED
    BY <1>2, <2>1, <2>2, <2>4 DEF Shape
<1>5. ASSUME NEW w \in Workspaces
      PROVE  Sound(entry'[List(w)], w, Reading(w)', told'[w]) /\ told'[w] <= books'[w]
  <2> DEFINE k == List(w)
             e == entry[k]
  <2>1. /\ k \in Keys /\ k \in Lists /\ k \notin Summaries(ws)
        /\ k \in NowRead <=> Reading(w)
    BY ListIsAKey, ListRead DEF List, Lists, Summaries, NowRead, Reading
  <2>2. Sound(e, w, Reading(w), told[w]) /\ e \in AnyEntry
    BY <2>1 DEF CacheInv, Shape
  <2>3. told[w] <= books[w] /\ told[w] \in Nat /\ books[w] \in Nat
    BY DEF CacheInv, Shape
  <2>4. told'[w] = IF AtRest(e) \/ e.data # NoData THEN books[w] ELSE told[w]
    BY <1>2
  <2>5. Reading(w)' <=> Reading(w)
    BY <1>2 DEF Reading
  <2>6. entry'[k] = IF Reading(w) /\ (AtRest(e) \/ e.data # NoData)
                    THEN Begun(Marked(k), url) ELSE Marked(k)
    <3>1. entry'[k] = Invalidated(k, Lists \cup Summaries(ws), Summaries(ws))
      BY <1>1, <2>1
    <3>2. AtRest(Marked(k)) <=> AtRest(e)
      BY <1>3, <2>1 DEF AtRest
    <3>3. QED
      BY <1>3, <2>1, <3>1, <3>2 DEF Invalidated, Refetch
  <2>7. Marked(k).invalid = TRUE
    BY <1>3, <2>1
  <2>8. w \in Headers /\ w # Hub
    BY PlacesAssumption DEF Headers
  <2> DEFINE marked == Marked(k)
  <2>9. /\ marked \in AnyEntry /\ marked.data = e.data /\ marked.fetch = e.fetch
        /\ marked.invalid = TRUE
    BY <1>3, <2>1, <2>7
  <2> HIDE DEF marked, e
  <2>10. CASE Reading(w) /\ (AtRest(e) \/ e.data # NoData)
    <3>1. url = w /\ entry'[k] = Begun(marked, w)
      BY <2>6, <2>10 DEF Reading, marked
    <3>2. Header(w, Hub) = w
      BY <2>8, HeaderTyped DEF Headers
    <3>3. Sound(entry'[k], w, Reading(w)', told'[w])
      BY <2>2, <2>5, <2>8, <2>9, <2>10, <3>1, <3>2, BegunTyped DEF Sound, AtRest
    <3>4. QED
      BY <1>2, <2>3, <2>4, <3>3
  <2>11. CASE ~ Reading(w)
    <3>1. entry'[k] = marked /\ e.fetch = NoFetch
      BY <2>2, <2>6, <2>11 DEF marked, Sound, AtRest
    <3>2. Sound(entry'[k], w, Reading(w)', told'[w])
      BY <2>2, <2>9, <3>1, NoFetchTyped DEF Sound, AtRest
    <3>3. QED
      BY <1>2, <2>3, <2>4, <3>2
  <2>12. CASE ~ (AtRest(e) \/ e.data # NoData)
    <3>1. entry'[k] = marked /\ told'[w] = told[w]
      BY <2>4, <2>6, <2>12 DEF marked
    <3>2. Sound(entry'[k], w, Reading(w)', told'[w])
      BY <2>2, <2>5, <2>9, <3>1 DEF Sound, AtRest
    <3>3. QED
      BY <1>2, <2>3, <3>1, <3>2
  <2>13. QED
    BY <2>10, <2>11, <2>12
<1>6. QED
  BY <1>4, <1>5 DEF CacheInv

-----------------------------------------------------------------------------
(* The theorems.                                                           *)

LEMMA StepCache == CacheInv /\ [Next]_vars => CacheInv'
<1> SUFFICES ASSUME CacheInv, [Next]_vars PROVE CacheInv'
  OBVIOUS
<1>1. ASSUME NEW w \in Workspaces, NEW v \in {"dashboard", "proLabore"}, Visit(w, v)
      PROVE  CacheInv'
  BY <1>1, MoveKeeps DEF Visit, Headers
<1>2. ASSUME GoToHub PROVE CacheInv'
  BY <1>2, MoveKeeps DEF GoToHub, Headers
<1>3. ASSUME OpenForm PROVE CacheInv'
  <2>1. url \in Headers
    BY DEF CacheInv, Shape
  <2>2. QED
    BY <1>3, <2>1, MoveKeeps DEF OpenForm
<1>4. ASSUME CloseForm PROVE CacheInv'
  <2>1. url \in Headers
    BY DEF CacheInv, Shape
  <2>2. QED
    BY <1>4, <2>1, MoveKeeps DEF CloseForm
<1>5. ASSUME NEW k \in Keys,
             Unauthorized(k) \/ SendAgain(k) \/ Serve(k) \/ FetchFails(k) \/ Deliver(k)
      PROVE  CacheInv'
  BY <1>5, UnauthorizedKeeps, ResendKeeps, ServeKeeps, FetchFailsKeeps, DeliverKeeps
<1>6. ASSUME NEW withFile \in BOOLEAN, SubmitForm(withFile)
      PROVE  UNCHANGED <<place, entry, books, told>>
  BY <1>6 DEF SubmitForm, Ask
<1>7. ASSUME NEW op \in {"bridge", "confirm"}, TransferBetween(op)
      PROVE  UNCHANGED <<place, entry, books, told>>
  BY <1>7 DEF TransferBetween, Ask
<1>8. ASSUME Uploaded \/ ChangeUnauthorized \/ ChangeResent \/ ChangeFails
      PROVE  UNCHANGED <<place, entry, books, told>>
  BY <1>8 DEF Uploaded, ChangeUnauthorized, ChangeResent, ChangeFails, ChangeStep
<1>9. ASSUME UNCHANGED vars PROVE UNCHANGED <<place, entry, books, told>>
  BY <1>9 DEF vars, place
<1>10. ASSUME UNCHANGED <<place, entry, books, told>> PROVE CacheInv'
  BY <1>10, ElsewhereKeeps
<1>11. ASSUME Book \/ BookTransfer \/ Succeeded PROVE CacheInv'
  BY <1>11, BookKeeps, BookTransferKeeps, SucceededKeeps
<1>12. QED
  BY <1>1, <1>2, <1>3, <1>4, <1>5, <1>6, <1>7, <1>8, <1>9, <1>10, <1>11 DEF Next

THEOREM CacheInvariant == Spec => []CacheInv
<1>1. QED
  BY InitCache, StepCache, PTL DEF Spec

\* No client's transactions are ever filed as another's, whatever navigations, 401s and
\* retries come in between: the interceptor's header, and the abort when a page is left.
THEOREM NoForeignLists == Spec => []ListsAreOwn
<1>1. CacheInv => ListsAreOwn
  BY DEF CacheInv, Sound, ListsAreOwn, List
<1>2. QED
  BY <1>1, CacheInvariant, PTL

\* A list at rest shows the changes the tab was told of: what was read before a change and
\* arrives after it does not stay, given how invalidateQueries marks and refetches.
THEOREM ListsShowChanges == Spec => []ListsAreFresh
<1>1. CacheInv => ListsAreFresh
  BY DEF CacheInv, Sound, ListsAreFresh, List
<1>2. QED
  BY <1>1, CacheInvariant, PTL
-----------------------------------------------------------------------------
(* Tenancy's types.  The counters stay within their bounds since a change  *)
(* is booked once, and a category that is chosen is a workspace's since    *)
(* the server answers for a workspace only.                                *)

Named == [of : Workspaces, seen : 0..MaxChanges]
NamedEntry ==
    {e \in Entry : /\ e.data \in {NoData} \cup Named
                   /\ e.fetch.at = "answered" => e.fetch.data \in Named}
ToBook(c) == IF c # NoChange /\ c.at # "done" THEN 1 ELSE 0

TenancyInv ==
    /\ TTypeOK
    /\ \A k \in Keys : entry[k] \in NamedEntry
    /\ \A w \in Workspaces : books[w] + ToBook(change) <= changes

LEMMA CountersTyped == MaxMoves \in Nat /\ MaxRefusals \in Nat /\ MaxChanges \in Nat /\ 0 \in 0..MaxChanges
BY BoundsAssumption

LEMMA DataTyped == NoData \in Data /\ Named \subseteq Data /\ NoFetch \in Fetch
BY CountersTyped DEF NoData, Data, Named, NoFetch, Fetch, Headers

\* An entry with another fetch.
LEMMA FetchNamed ==
    ASSUME NEW e \in NamedEntry, NEW f \in Fetch, f.at = "answered" => f.data \in Named
    PROVE  [e EXCEPT !.fetch = f] \in NamedEntry
BY DEF NamedEntry, Entry

LEMMA BegunNamed ==
    ASSUME NEW e \in NamedEntry, NEW u \in Headers
    PROVE  Begun(e, u) \in NamedEntry /\ Aborted(e) \in NamedEntry
<1>1. Header(u, Hub) \in Headers
  BY HeaderTyped DEF Headers
<1>2. [at |-> "sent", header |-> Header(u, Hub), data |-> NoData] \in Fetch
  BY <1>1, DataTyped DEF Fetch
<1>3. NoFetch \in Fetch /\ NoFetch.at = "none"
  BY DataTyped DEF NoFetch
<1>4. QED
  BY <1>2, <1>3, FetchNamed DEF Begun, Aborted

LEMMA InvalidatedNamed ==
    ASSUME TenancyInv, NEW k \in Keys, NEW marked, NEW refetched
    PROVE  Invalidated(k, marked, refetched) \in NamedEntry
<1> DEFINE e == [entry[k] EXCEPT !.invalid = @ \/ k \in marked]
<1>1. entry[k] \in NamedEntry /\ url \in Headers
  BY DEF TenancyInv, TTypeOK
<1>2. e \in NamedEntry
  BY <1>1 DEF NamedEntry, Entry
<1> HIDE DEF e
<1>3. Refetch(e) \in NamedEntry
  BY <1>1, <1>2, BegunNamed DEF Refetch
<1>4. Invalidated(k, marked, refetched) \in {e, Refetch(e)}
  BY DEF Invalidated, e
<1>5. QED
  BY <1>2, <1>3, <1>4

LEMMA TenancyInit == Init => TenancyInv
<1> SUFFICES ASSUME Init PROVE TenancyInv
  OBVIOUS
<1> DEFINE fresh == [data |-> NoData, invalid |-> FALSE, fetch |-> NoFetch]
<1>1. fresh \in NamedEntry
  BY DataTyped DEF NamedEntry, Entry, NoFetch
<1>2. entry = [k \in Keys |-> fresh]
  BY DEF Init
<1> HIDE DEF fresh
<1>3. (\A k \in Keys : entry[k] \in NamedEntry) /\ entry \in [Keys -> Entry]
  BY <1>1, <1>2 DEF NamedEntry
<1>4. TTypeOK
  <2>1. books \in [Workspaces -> 0..MaxChanges] /\ told \in [Workspaces -> 0..MaxChanges]
    BY CountersTyped DEF Init
  <2>2. moves \in 0..MaxMoves /\ refusals \in 0..MaxRefusals /\ changes \in 0..MaxChanges
    BY CountersTyped DEF Init
  <2>3. url \in Headers /\ active \in Headers /\ view = "dashboard" /\ form = FALSE /\ change = NoChange
    BY DEF Init, Headers
  <2>4. QED
    BY <1>3, <2>1, <2>2, <2>3 DEF TTypeOK
<1>5. \A w \in Workspaces : books[w] + ToBook(change) <= changes
  BY DEF Init, ToBook
<1>6. QED
  BY <1>3, <1>4, <1>5 DEF TenancyInv

LEMMA MoveTyped ==
    ASSUME TenancyInv, NEW u \in Headers, NEW v \in {"dashboard", "proLabore"}, NEW f \in BOOLEAN,
           Move(u, v, f), change' \in {change, NoChange}
    PROVE  TenancyInv'
<1> DEFINE next == Read(u, v, f)
           After(k) == IF k \in next \ NowRead
                          /\ AtRest(entry[k]) /\ (entry[k].data = NoData \/ entry[k].invalid)
                       THEN Begun(entry[k], u)
                       ELSE IF k \in NowRead \ next /\ k[1] \in UsesSignal
                       THEN Aborted(entry[k]) ELSE entry[k]
<1>1. /\ entry' = [k \in Keys |-> After(k)]
      /\ url' = u /\ view' = v /\ form' = f /\ active' = u
      /\ books' = books /\ told' = told /\ changes' = changes /\ refusals' = refusals
      /\ moves < MaxMoves /\ moves' = moves + 1
  BY DEF Move
<1> HIDE DEF next
<1>2. \A k \in Keys : After(k) \in NamedEntry
  BY BegunNamed DEF TenancyInv
<1> HIDE DEF After
<1>3. (\A k \in Keys : entry'[k] \in NamedEntry) /\ entry' \in [Keys -> Entry]
  BY <1>1, <1>2 DEF NamedEntry
<1>4. change' \in {NoChange} \cup Creation \cup Transfer
  BY DEF TenancyInv, TTypeOK
<1>5. moves' \in 0..MaxMoves
  BY <1>1, CountersTyped DEF TenancyInv, TTypeOK
<1>6. TTypeOK'
  BY <1>1, <1>3, <1>4, <1>5 DEF TenancyInv, TTypeOK
<1>7. ToBook(change') \in {0, ToBook(change)} /\ ToBook(change) \in {0, 1}
  BY DEF ToBook
<1>8. \A w \in Workspaces : books'[w] + ToBook(change') <= changes'
  BY <1>1, <1>7, CountersTyped DEF TenancyInv, TTypeOK
<1>9. QED
  BY <1>3, <1>6, <1>8 DEF TenancyInv

\* A step that rewrites one entry.
LEMMA EntryTyped ==
    ASSUME TenancyInv, NEW k \in Keys, NEW e \in NamedEntry,
           entry' = [entry EXCEPT ![k] = e],
           refusals' = refusals \/ Refused,
           UNCHANGED <<place, change, books, told, moves, changes>>
    PROVE  TenancyInv'
<1>1. entry \in [Keys -> Entry]
  BY DEF TenancyInv, TTypeOK
<1>2. \A j \in Keys : entry'[j] \in NamedEntry
  BY <1>1 DEF TenancyInv
<1>3. entry' \in [Keys -> Entry]
  BY <1>1 DEF NamedEntry
<1>4. refusals' \in 0..MaxRefusals
  BY CountersTyped DEF TenancyInv, TTypeOK, Refused
<1>5. TTypeOK'
  BY <1>3, <1>4 DEF TenancyInv, TTypeOK, place
<1>6. QED
  BY <1>2, <1>5 DEF TenancyInv

LEMMA SaidNamed ==
    ASSUME TenancyInv, NEW k \in Keys, NEW w \in Workspaces
    PROVE  Said(k[1], w) \in Named
<1>1. k[1] \in {"transactions", "summary", "categories"}
  BY DEF Keys, Queries
<1>2. books[w] \in 0..MaxChanges /\ 0 \in 0..MaxChanges
  BY CountersTyped DEF TenancyInv, TTypeOK
<1>3. QED
  BY <1>1, <1>2 DEF Said, ListTransactions, GetSummary, ListCategories, Named

LEMMA FetchesTyped ==
    ASSUME TenancyInv, NEW k \in Keys,
           Unauthorized(k) \/ SendAgain(k) \/ Serve(k) \/ FetchFails(k) \/ Deliver(k)
    PROVE  TenancyInv'
<1>1. entry[k] \in NamedEntry /\ entry[k].fetch \in Fetch /\ url \in Headers
  BY DEF TenancyInv, TTypeOK, NamedEntry, Entry
<1>2. ASSUME NEW f \in Fetch, FetchStep(k, f), refusals' = refusals \/ Refused,
             f.at = "answered" => f.data \in Named
      PROVE  TenancyInv'
  BY <1>1, <1>2, FetchNamed, EntryTyped DEF FetchStep
<1>3. CASE Unauthorized(k)
  <2>1. [entry[k].fetch EXCEPT !.at = "waiting"] \in Fetch
    BY <1>1 DEF Fetch
  <2>2. [entry[k].fetch EXCEPT !.at = "waiting"].at = "waiting"
    BY <1>1 DEF Fetch
  <2>3. QED
    BY <1>2, <1>3, <2>1, <2>2 DEF Unauthorized
<1>4. CASE SendAgain(k)
  <2> DEFINE f == [entry[k].fetch EXCEPT !.at = "sent", !.header = Header(url, @)]
  <2>1. Header(url, entry[k].fetch.header) \in Headers
    BY <1>1, HeaderTyped DEF Fetch
  <2>2. f \in Fetch /\ f.at = "sent"
    BY <1>1, <2>1 DEF Fetch
  <2>3. FetchStep(k, f) /\ refusals' = refusals
    BY <1>4 DEF SendAgain
  <2> HIDE DEF f
  <2>4. QED
    BY <1>2, <2>2, <2>3
<1>5. CASE Serve(k)
  <2> DEFINE d == Said(k[1], entry[k].fetch.header)
             f == [entry[k].fetch EXCEPT !.at = "answered", !.data = d]
  <2>1. entry[k].fetch.header \in Workspaces
    BY <1>1, <1>5 DEF Serve, Fetch, Headers
  <2>2. d \in Named /\ d \in Data
    BY <2>1, SaidNamed, DataTyped
  <2>3. FetchStep(k, f) /\ refusals' = refusals
    BY <1>5 DEF Serve
  <2> HIDE DEF d
  <2>4. f \in Fetch /\ f.data = d
    BY <1>1, <2>2 DEF Fetch
  <2> HIDE DEF f
  <2>5. QED
    BY <1>2, <2>2, <2>3, <2>4
<1>6. CASE FetchFails(k)
  <2>1. NoFetch \in Fetch /\ NoFetch.at = "none"
    BY DataTyped DEF NoFetch
  <2>2. QED
    BY <1>2, <1>6, <2>1 DEF FetchFails
<1>7. CASE Deliver(k)
  <2> DEFINE e == [data |-> entry[k].fetch.data, invalid |-> FALSE, fetch |-> NoFetch]
  <2>1. entry[k].fetch.data \in Named
    BY <1>1, <1>7 DEF Deliver, NamedEntry
  <2>2. e \in NamedEntry
    BY <2>1, DataTyped DEF NamedEntry, Entry, NoFetch
  <2>3. entry' = [entry EXCEPT ![k] = e]
    BY <1>7 DEF Deliver
  <2> HIDE DEF e
  <2>4. QED
    BY <1>7, <2>2, <2>3, EntryTyped DEF Deliver
<1>8. QED
  BY <1>3, <1>4, <1>5, <1>6, <1>7

\* A step that leaves the cache alone and books nothing.
LEMMA ChangeTyped ==
    ASSUME TenancyInv, UNCHANGED <<place, entry, books, told, moves>>,
           change' \in {NoChange} \cup Creation \cup Transfer,
           refusals' = refusals \/ Refused,
           changes' \in 0..MaxChanges, changes' + ToBook(change) >= changes + ToBook(change')
    PROVE  TenancyInv'
<1>1. refusals' \in 0..MaxRefusals
  BY CountersTyped DEF TenancyInv, TTypeOK, Refused
<1>2. TTypeOK'
  BY <1>1 DEF TenancyInv, TTypeOK, place
<1>3. ToBook(change) \in {0, 1} /\ ToBook(change') \in {0, 1}
  BY DEF ToBook
<1>4. changes \in Nat /\ changes' \in Nat /\ \A w \in Workspaces : books[w] \in Nat
  BY CountersTyped DEF TenancyInv, TTypeOK
<1>5. ASSUME NEW w \in Workspaces PROVE books'[w] + ToBook(change') <= changes'
  <2>1. books[w] + ToBook(change) <= changes /\ books'[w] = books[w]
    BY DEF TenancyInv
  <2>2. QED
    BY <1>3, <1>4, <2>1
<1>6. QED
  BY <1>2, <1>5 DEF TenancyInv

LEMMA AskTyped ==
    ASSUME TenancyInv, NEW c \in Creation \cup Transfer, Ask(c)
    PROVE  TenancyInv'
<1>1. changes' \in 0..MaxChanges /\ changes' = changes + 1 /\ changes \in Nat
  BY CountersTyped DEF TenancyInv, TTypeOK, Ask
<1>2. ToBook(change) = 0 /\ ToBook(change') \in {0, 1}
  BY DEF Ask, ToBook
<1>3. QED
  BY <1>1, <1>2, ChangeTyped DEF Ask

LEMMA FormsTyped ==
    ASSUME TenancyInv, \/ \E withFile \in BOOLEAN : SubmitForm(withFile)
                       \/ \E op \in {"bridge", "confirm"} : TransferBetween(op)
    PROVE  TenancyInv'
<1>0. url \in Headers
  BY DEF TenancyInv, TTypeOK
<1>1. ASSUME NEW withFile \in BOOLEAN, SubmitForm(withFile) PROVE TenancyInv'
  <2> DEFINE shown == entry[<<"categories", url>>].data
             new(c) == [op |-> "create", at |-> IF withFile THEN "uploading" ELSE "sent",
                        meant |-> url, header |-> Header(url, Hub), category |-> c]
  <2>1. url \in Workspaces /\ shown # NoData
    BY <1>0, <1>1 DEF SubmitForm, Headers
  <2>2. <<"categories", url>> \in Keys
    BY <2>1 DEF Keys, Queries
  <2>3. shown.of \in Workspaces
    BY <2>1, <2>2 DEF TenancyInv, NamedEntry, Named
  <2>4. PICK c \in {Global, shown.of} : Ask(new(c))
    BY <1>1 DEF SubmitForm
  <2>5. new(c) \in Creation
    BY <2>1, <2>3, HeaderTyped DEF Creation, Headers
  <2> HIDE DEF new
  <2>6. QED
    BY <2>4, <2>5, AskTyped
<1>2. ASSUME NEW op \in {"bridge", "confirm"}, TransferBetween(op) PROVE TenancyInv'
  <2>1. [op |-> op, at |-> "sent"] \in Transfer
    BY DEF Transfer
  <2>2. QED
    BY <1>2, <2>1, AskTyped DEF TransferBetween
<1>3. QED
  BY <1>1, <1>2

LEMMA CreationOf ==
    ASSUME TenancyInv, change.op = "create"
    PROVE  change \in Creation /\ change # NoChange
BY DEF TenancyInv, TTypeOK, NoChange, Transfer

LEMMA WaysTyped ==
    ASSUME TenancyInv, Uploaded \/ ChangeUnauthorized \/ ChangeResent \/ ChangeFails
    PROVE  TenancyInv'
<1>0. url \in Headers /\ changes \in 0..MaxChanges /\ changes \in Nat
  BY CountersTyped DEF TenancyInv, TTypeOK
<1>1. ASSUME NEW c \in {NoChange} \cup Creation \cup Transfer, ChangeStep(c), ToBook(c) <= ToBook(change),
             UNCHANGED <<books, told>>, refusals' = refusals \/ Refused
      PROVE  TenancyInv'
  <2>1. ToBook(c) \in {0, 1} /\ ToBook(change) \in {0, 1}
    BY DEF ToBook
  <2>2. QED
    BY <1>0, <1>1, <2>1, ChangeTyped DEF ChangeStep
<1>2. CASE Uploaded
  <2> DEFINE c == [change EXCEPT !.at = "sent", !.header = Header(url, Hub)]
  <2>1. change \in Creation /\ ToBook(change) = 1
    BY <1>2, CreationOf DEF Uploaded, ToBook
  <2>2. c \in Creation
    BY <1>0, <2>1, HeaderTyped DEF Creation, Headers
  <2>3. ToBook(c) <= 1
    BY DEF ToBook
  <2> HIDE DEF c
  <2>4. QED
    BY <1>1, <1>2, <2>1, <2>2, <2>3 DEF Uploaded, c
<1>3. CASE ChangeUnauthorized
  <2> DEFINE c == [change EXCEPT !.at = "waiting"]
  <2>1. change \in Creation /\ ToBook(change) = 1
    BY <1>3, CreationOf DEF ChangeUnauthorized, ToBook
  <2>2. c \in Creation
    BY <2>1 DEF Creation
  <2>3. ToBook(c) <= 1
    BY DEF ToBook
  <2> HIDE DEF c
  <2>4. QED
    BY <1>1, <1>3, <2>1, <2>2, <2>3 DEF ChangeUnauthorized, c
<1>4. CASE ChangeResent
  <2> DEFINE c == [change EXCEPT !.at = "sent", !.header = Header(url, @)]
  <2>1. change \in Creation /\ ToBook(change) = 1
    BY <1>4, CreationOf DEF ChangeResent, ToBook
  <2>2. Header(url, change.header) \in Headers
    BY <1>0, <2>1, HeaderTyped DEF Creation
  <2>3. c \in Creation
    BY <2>1, <2>2 DEF Creation
  <2>4. ToBook(c) <= 1
    BY DEF ToBook
  <2> HIDE DEF c
  <2>5. QED
    BY <1>1, <1>4, <2>1, <2>3, <2>4 DEF ChangeResent, c
<1>5. CASE ChangeFails
  <2>1. ToBook(NoChange) = 0 /\ ToBook(change) \in {0, 1}
    BY DEF ToBook
  <2>2. refusals' = refusals \/ Refused
    BY <1>5 DEF ChangeFails
  <2>3. QED
    BY <1>1, <1>5, <2>1, <2>2 DEF ChangeFails
<1>6. QED
  BY <1>2, <1>3, <1>4, <1>5

\* What is booked is counted among the changes asked for.
LEMMA BookTyped ==
    ASSUME TenancyInv, Book \/ BookTransfer
    PROVE  TenancyInv'
<1>1. /\ change # NoChange /\ change.at = "sent"
      /\ change' = [change EXCEPT !.at = "done"]
      /\ UNCHANGED <<place, entry, moves, changes, told, refusals>>
      /\ change \in Creation \cup Transfer
  BY DEF Book, BookTransfer, ChangeStep, NoChange, TenancyInv, TTypeOK
<1>2. change' \in Creation \cup Transfer /\ change'.at = "done"
  BY <1>1 DEF Creation, Transfer
<1>3. ToBook(change) = 1 /\ ToBook(change') = 0
  BY <1>1, <1>2 DEF ToBook
<1>4. /\ books' \in [Workspaces -> Int]
      /\ \A w \in Workspaces : books'[w] \in {books[w], books[w] + 1}
  <2>1. books \in [Workspaces -> Int] /\ \A w \in Workspaces : books[w] \in Int
    BY DEF TenancyInv, TTypeOK
  <2>2. CASE Book
    <3>1. books' = [books EXCEPT ![change.header] = @ + 1]
      BY <2>2 DEF Book
    <3>2. change.header \in Workspaces
      BY <2>2, CreationOf DEF Book, Allowed, Creation, Headers
    <3>3. QED
      BY <2>1, <3>1, <3>2
  <2>3. CASE BookTransfer
    BY <2>1, <2>3 DEF BookTransfer
  <2>4. QED
    BY <2>2, <2>3
<1>5. changes \in 0..MaxChanges /\ changes' = changes
  BY <1>1 DEF TenancyInv, TTypeOK
<1>6. ASSUME NEW w \in Workspaces
      PROVE  books'[w] \in 0..MaxChanges /\ books'[w] + ToBook(change') <= changes'
  <2>1. books[w] \in 0..MaxChanges /\ books[w] + 1 <= changes
    BY <1>3 DEF TenancyInv, TTypeOK
  <2>2. QED
    BY <1>3, <1>4, <1>5, <2>1, CountersTyped
<1>7. TTypeOK'
  BY <1>1, <1>2, <1>4, <1>6 DEF TenancyInv, TTypeOK, place
<1>8. QED
  BY <1>1, <1>6, <1>7 DEF TenancyInv

LEMMA SucceededTyped ==
    ASSUME TenancyInv, Succeeded
    PROVE  TenancyInv'
<1>1. PICK ws : entry' = [k \in Keys |-> Invalidated(k, Lists \cup Summaries(ws), Summaries(ws))]
  BY DEF Succeeded
<1>2. \A k \in Keys : entry'[k] \in NamedEntry
  BY <1>1, InvalidatedNamed
<1>3. entry' \in [Keys -> Entry]
  <2> DEFINE After(k) == Invalidated(k, Lists \cup Summaries(ws), Summaries(ws))
  <2>1. entry' = [k \in Keys |-> After(k)] /\ \A k \in Keys : After(k) \in NamedEntry
    BY <1>1, InvalidatedNamed
  <2> HIDE DEF After
  <2>2. QED
    BY <2>1 DEF NamedEntry
<1>4. /\ change' = NoChange /\ form' \in BOOLEAN
      /\ UNCHANGED <<url, view, active, books, moves, refusals, changes>>
  BY DEF Succeeded, TenancyInv, TTypeOK
<1>5. told' \in [Workspaces -> 0..MaxChanges]
  BY DEF Succeeded, TenancyInv, TTypeOK
<1>6. TTypeOK'
  BY <1>3, <1>4, <1>5 DEF TenancyInv, TTypeOK
<1>7. ToBook(change') = 0 /\ ToBook(change) \in {0, 1}
  BY <1>4 DEF ToBook
<1>8. \A w \in Workspaces : books'[w] + ToBook(change') <= changes'
  BY <1>4, <1>7, CountersTyped DEF TenancyInv, TTypeOK
<1>9. QED
  BY <1>2, <1>6, <1>8 DEF TenancyInv

LEMMA TenancyStep == TenancyInv /\ [Next]_vars => TenancyInv'
<1> SUFFICES ASSUME TenancyInv, [Next]_vars PROVE TenancyInv'
  OBVIOUS
<1>0. url \in Headers /\ view \in {"dashboard", "proLabore"} /\ form \in BOOLEAN /\ Hub \in Headers
  BY DEF TenancyInv, TTypeOK, Headers
<1>1. ASSUME NEW w \in Workspaces, NEW v \in {"dashboard", "proLabore"}, Visit(w, v)
      PROVE  TenancyInv'
  BY <1>0, <1>1, MoveTyped DEF Visit, Headers
<1>2. ASSUME GoToHub PROVE TenancyInv'
  BY <1>0, <1>2, MoveTyped DEF GoToHub
<1>3. ASSUME OpenForm PROVE TenancyInv'
  BY <1>0, <1>3, MoveTyped DEF OpenForm
<1>4. ASSUME CloseForm PROVE TenancyInv'
  BY <1>0, <1>4, MoveTyped DEF CloseForm
<1>5. CASE UNCHANGED vars
  <2>1. UNCHANGED <<place, entry, books, told, moves, change, refusals, changes>>
    BY <1>5 DEF vars
  <2>2. change \in {NoChange} \cup Creation \cup Transfer /\ changes \in 0..MaxChanges
    BY DEF TenancyInv, TTypeOK
  <2>3. ToBook(change') = ToBook(change) /\ ToBook(change) \in {0, 1}
    BY <2>1 DEF ToBook
  <2>4. QED
    BY <2>1, <2>2, <2>3, ChangeTyped, CountersTyped
<1>6. QED
  BY <1>1, <1>2, <1>3, <1>4, <1>5, FetchesTyped, FormsTyped, WaysTyped, BookTyped, SucceededTyped DEF Next

\* The address bar, the query cache, the change under way and the counters keep their types;
\* the category of a creation is a workspace's or a global one.
THEOREM TenancyTypeCorrect == Spec => []TTypeOK
<1>1. TenancyInv => TTypeOK
  BY DEF TenancyInv
<1>2. QED
  BY <1>1, TenancyInit, TenancyStep, PTL DEF Spec
===============================================================================
