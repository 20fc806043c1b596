------------------------------- MODULE Sessions -------------------------------
(***************************************************************************)
(* Accounts and their sessions on the server: AuthService,                 *)
(* VerificationService and PasswordResetService over the tables of         *)
(* UserRepository.  One action per await; a request may end at any await,  *)
(* when the process stops or the query throws (Abort).                     *)
(*                                                                         *)
(* Passwords are generations: a reset moves the account to the next one.   *)
(* A session (a RefreshToken row) carries, as history, the generation it   *)
(* was last proved with, the login it descends from, and whether the       *)
(* request that issued it had read its proof before the sessions of the    *)
(* account were deleted.                                                   *)
(***************************************************************************)
EXTENDS Integers

CONSTANTS
    Users,         \* accounts, by e-mail address
    Requests,      \* HTTP requests that may be in progress at the same time
    Codes,         \* bound: verification and reset codes ever sent
    MaxTokens,     \* bound: refresh tokens ever issued
    MaxPasswords   \* bound: passwords of an account

ASSUME TokensAssumption    == MaxTokens \in Nat \ {0}
ASSUME PasswordsAssumption == MaxPasswords \in Nat \ {0}

VARIABLES
    user,     \* User rows
    token,    \* RefreshToken rows, by the order of their creation
    issued,   \* how many there have been
    code,     \* AccountVerificationToken and PasswordResetToken rows
    req,      \* requests in progress
    purged,   \* history: the newest password a deletion of all sessions has seen
    raced     \* history: logins whose session two refreshes rotated at the same time

svars == <<user, token, issued, code, req, purged, raced>>

-----------------------------------------------------------------------------
(* The tables.                                                             *)

Tokens    == 1..MaxTokens
Passwords == 1..MaxPasswords

UserRow == [account : {"none", "unverified", "verified"}, password : Passwords]

\* A deleted row is absent again.  Expiry is not a state: whoever looks a row up may find
\* that it has expired.
Absent   == [row |-> "absent"]
TokenRow == [row : {"live"}, user : Users, password : Passwords, login : Tokens,
             late : BOOLEAN]

\* A verification code is deleted when it has been used, a reset code is marked.
CodeRow == [row : {"verification", "reset", "used", "deleted"}, user : Users]

\* What a refresh has read of its token.
Proof == [token : Tokens, user : Users, password : Passwords, login : Tokens, late : BOOLEAN]

Idle == [op |-> "none", step |-> "none"]
AccountRequest ==
    [op : {"register"}, step : {"create", "send"}, user : Users]
    \cup [op : {"resend"}, step : {"send"}, user : Users]
    \cup [op : {"verify"}, step : {"find", "mark", "delete"}, user : Users, code : Codes]
    \cup [op : {"reset"}, step : {"password", "mark", "purge"}, user : Users, code : Codes]
SessionRequest ==
    [op : {"login"}, step : {"create"}, user : Users, password : Passwords, seen : 0..MaxPasswords]
    \cup [op : {"refresh"}, step : {"find", "discard"}, token : Tokens]
    \cup [op : {"refresh"}, step : {"delete", "create"}, proof : Proof, seen : 0..MaxPasswords]
Reply == [op : {"login", "refresh"}, step : {"reply"}, token : 0..MaxTokens]

TypeOK ==
    /\ user \in [Users -> UserRow]
    /\ token \in [Tokens -> {Absent} \cup TokenRow]
    /\ issued \in 0..MaxTokens
    /\ code \in [Codes -> {Absent} \cup CodeRow]
    /\ req \in [Requests -> {Idle} \cup AccountRequest \cup SessionRequest \cup Reply]
    /\ purged \in [Users -> 0..MaxPasswords]
    /\ raced \subseteq Tokens

SInit ==
    /\ \E a \in {"none", "verified"} : user = [u \in Users |-> [account |-> a, password |-> 1]]
    /\ token = [t \in Tokens |-> Absent]
    /\ issued = 0
    /\ code = [c \in Codes |-> Absent]
    /\ req = [r \in Requests |-> Idle]
    /\ purged = [u \in Users |-> 0]
    /\ raced = {}

Live(t) == token[t].row = "live"

Begin(r, request) == req[r] = Idle /\ req' = [req EXCEPT ![r] = request]
Become(r, request) == req' = [req EXCEPT ![r] = request]
Finish(r) == req' = [req EXCEPT ![r] = Idle]
At(r, op, step) == req[r].op = op /\ req[r].step = step
Refusal(op) == [op |-> op, step |-> "reply", token |-> 0]

-----------------------------------------------------------------------------
(* Registration and verification.                                          *)

\* register: findByEmail.
RegisterRead(r, u) ==
    /\ user[u].account = "none"
    /\ Begin(r, [op |-> "register", step |-> "create", user |-> u])
    /\ UNCHANGED <<user, token, issued, code, purged, raced>>

\* createWithWorkspace: the unique index on email refuses the second of two.
RegisterCreate(r) ==
    /\ At(r, "register", "create")
    /\ LET u == req[r].user
       IN  IF user[u].account = "none"
           THEN /\ user' = [user EXCEPT ![u].account = "unverified"]
                /\ Become(r, [op |-> "register", step |-> "send", user |-> u])
           ELSE /\ Finish(r)
                /\ UNCHANGED user
    /\ UNCHANGED <<token, issued, code, purged, raced>>

ResendRead(r, u) ==
    /\ user[u].account = "unverified"
    /\ Begin(r, [op |-> "resend", step |-> "send", user |-> u])
    /\ UNCHANGED <<user, token, issued, code, purged, raced>>

\* The row comes before the mail: a mail that fails leaves the code valid.
Issue(c, purpose, u) ==
    /\ code[c] = Absent
    /\ code' = [code EXCEPT ![c] = [row |-> purpose, user |-> u]]

SendVerificationCode(r, op, c) ==
    /\ At(r, op, "send")
    /\ Issue(c, "verification", req[r].user)
    /\ Finish(r)
    /\ UNCHANGED <<user, token, issued, purged, raced>>

\* A verified account answers at once.
VerifyRead(r, u, c) ==
    /\ user[u].account = "unverified"
    /\ Begin(r, [op |-> "verify", step |-> "find", user |-> u, code |-> c])
    /\ UNCHANGED <<user, token, issued, code, purged, raced>>

Found(c, purpose, u) == code[c] = [row |-> purpose, user |-> u]

VerifyFind(r) ==
    /\ At(r, "verify", "find")
    /\ \/ /\ Found(req[r].code, "verification", req[r].user)
          /\ req' = [req EXCEPT ![r].step = "mark"]
       \/ Finish(r)
    /\ UNCHANGED <<user, token, issued, code, purged, raced>>

VerifyMark(r) ==
    /\ At(r, "verify", "mark")
    /\ user' = [user EXCEPT ![req[r].user].account = "verified"]
    /\ req' = [req EXCEPT ![r].step = "delete"]
    /\ UNCHANGED <<token, issued, code, purged, raced>>

VerifyDelete(r) ==
    /\ At(r, "verify", "delete")
    /\ code' = [code EXCEPT ![req[r].code].row = "deleted"]
    /\ Finish(r)
    /\ UNCHANGED <<user, token, issued, purged, raced>>

-----------------------------------------------------------------------------
(* Login and refresh.                                                      *)

\* The row of a new session.
Create(r, op, row) ==
    /\ issued < MaxTokens
    /\ issued' = issued + 1
    /\ token' = [token EXCEPT ![issued + 1] = row]
    /\ Become(r, [op |-> op, step |-> "reply", token |-> issued + 1])

\* authenticate: the password is compared with the row read here.
LoginRead(r, u) ==
    /\ user[u].account = "verified"
    /\ Begin(r, [op |-> "login", step |-> "create", user |-> u, password |-> user[u].password,
                 seen |-> purged[u]])
    /\ UNCHANGED <<user, token, issued, code, purged, raced>>

\* An accountant's login may still fail over the dashboard cache: see Abort.
LoginCreate(r) ==
    /\ At(r, "login", "create")
    /\ LET u == req[r].user
       IN  Create(r, "login", [row |-> "live", user |-> u, password |-> req[r].password,
                               login |-> issued + 1, late |-> req[r].seen < purged[u]])
    /\ UNCHANGED <<user, code, purged, raced>>

RefreshSend(r, t) ==
    /\ t <= issued
    /\ Begin(r, [op |-> "refresh", step |-> "find", token |-> t])
    /\ UNCHANGED <<user, token, issued, code, purged, raced>>

\* Another refresh has found the token and not deleted it yet.
BeingRotated(t) ==
    \E q \in Requests : At(q, "refresh", "delete") /\ req[q].proof.token = t

RefreshFind(r) ==
    /\ At(r, "refresh", "find")
    /\ LET t == req[r].token
       IN  \/ /\ ~ Live(t)
             /\ Become(r, Refusal("refresh"))
             /\ UNCHANGED raced
          \/ /\ Live(t)
             /\ req' = [req EXCEPT ![r].step = "discard"]
             /\ UNCHANGED raced
          \/ /\ Live(t)
             /\ Become(r, [op |-> "refresh", step |-> "delete", seen |-> purged[token[t].user],
                           proof |-> [token |-> t, user |-> token[t].user,
                                      password |-> token[t].password,
                                      login |-> token[t].login, late |-> token[t].late]])
             /\ raced' = IF BeingRotated(t) THEN raced \cup {token[t].login} ELSE raced
    /\ UNCHANGED <<user, token, issued, code, purged>>

\* An expired token is deleted and refused.
RefreshDiscard(r) ==
    /\ At(r, "refresh", "discard")
    /\ token' = [token EXCEPT ![req[r].token] = Absent]
    /\ Become(r, Refusal("refresh"))
    /\ UNCHANGED <<user, issued, code, purged, raced>>

\* A plausible mistake: the successor is issued and the token kept.
KeepToken(r) ==                                                   \* mutant
    /\ At(r, "refresh", "delete")
    /\ req' = [req EXCEPT ![r].step = "create"]
    /\ UNCHANGED <<user, token, issued, code, purged, raced>>

\* deleteMany: no error when another request has deleted it first.
RefreshDelete(r) ==
    /\ At(r, "refresh", "delete")
    /\ token' = [token EXCEPT ![req[r].proof.token] = Absent]
    /\ req' = [req EXCEPT ![r].step = "create"]
    /\ UNCHANGED <<user, issued, code, purged, raced>>

RefreshCreate(r) ==
    /\ At(r, "refresh", "create")
    /\ LET p == req[r].proof
       IN  Create(r, "refresh",
                  [row |-> "live", user |-> p.user, password |-> p.password, login |-> p.login,
                   late |-> p.late \/ req[r].seen < purged[p.user]])
    /\ UNCHANGED <<user, code, purged, raced>>

Respond(r) ==
    /\ req[r].step = "reply"
    /\ Finish(r)
    /\ UNCHANGED <<user, token, issued, code, purged, raced>>

-----------------------------------------------------------------------------
(* Forgotten passwords.                                                    *)

\* An account that exists stays, so its lookup and the insertion are one step.
ForgotPassword(u, c) ==
    /\ user[u].account # "none"
    /\ Issue(c, "reset", u)
    /\ UNCHANGED <<user, token, issued, req, purged, raced>>

ResetFind(r, u, c) ==
    /\ Found(c, "reset", u)
    /\ Begin(r, [op |-> "reset", step |-> "password", user |-> u, code |-> c])
    /\ UNCHANGED <<user, token, issued, code, purged, raced>>

ResetUpdate(r) ==
    /\ At(r, "reset", "password")
    /\ user[req[r].user].password < MaxPasswords
    /\ user' = [user EXCEPT ![req[r].user].password = @ + 1]
    /\ req' = [req EXCEPT ![r].step = "mark"]
    /\ UNCHANGED <<token, issued, code, purged, raced>>

ResetMark(r) ==
    /\ At(r, "reset", "mark")
    /\ code' = [code EXCEPT ![req[r].code].row = "used"]
    /\ req' = [req EXCEPT ![r].step = "purge"]
    /\ UNCHANGED <<user, token, issued, purged, raced>>

\* A plausible mistake: the newest session, perhaps that of the visitor, is kept.
ButTheNewest(u) == {t \in Tokens : Live(t) /\ token[t].user = u /\ t # issued}    \* mutant
SessionsOf(u) == {t \in Tokens : Live(t) /\ token[t].user = u}

ResetPurge(r) ==
    /\ At(r, "reset", "purge")
    /\ LET u == req[r].user
       IN  /\ token' = [t \in Tokens |-> IF t \in SessionsOf(u) THEN Absent ELSE token[t]]
           /\ purged' = [purged EXCEPT ![u] = user[u].password]
    /\ Finish(r)
    /\ UNCHANGED <<user, issued, code, raced>>

-----------------------------------------------------------------------------
(* Failure.                                                                *)

\* The process stops, a query or the mail throws: what was written stays.
Abort(r) ==
    /\ req[r] # Idle
    /\ Finish(r)
    /\ UNCHANGED <<user, token, issued, code, purged, raced>>

-----------------------------------------------------------------------------
(* The routes of AuthController, VerificationController and                *)
(* PasswordResetController.                                                *)

Register(r) ==
    \/ \E u \in Users : RegisterRead(r, u)
    \/ RegisterCreate(r)
    \/ \E c \in Codes : SendVerificationCode(r, "register", c)

Resend(r) ==
    \/ \E u \in Users : ResendRead(r, u)
    \/ \E c \in Codes : SendVerificationCode(r, "resend", c)

Verify(r) ==
    \/ \E u \in Users, c \in Codes : VerifyRead(r, u, c)
    \/ VerifyFind(r) \/ VerifyMark(r) \/ VerifyDelete(r)

Authenticate(r) == (\E u \in Users : LoginRead(r, u)) \/ LoginCreate(r)

Refresh(r) ==
    \/ \E t \in Tokens : RefreshSend(r, t)
    \/ RefreshFind(r) \/ RefreshDiscard(r) \/ RefreshDelete(r) \/ RefreshCreate(r)

ResetPassword(r) ==
    \/ \E u \in Users, c \in Codes : ResetFind(r, u, c)
    \/ ResetUpdate(r) \/ ResetMark(r) \/ ResetPurge(r)

SNext ==
    \/ \E r \in Requests :
          \/ Register(r) \/ Resend(r) \/ Verify(r)
          \/ Authenticate(r) \/ Refresh(r) \/ Respond(r)
          \/ ResetPassword(r)
          \/ Abort(r)
    \/ \E u \in Users, c \in Codes : ForgotPassword(u, c)

SSpec == SInit /\ [][SNext]_svars

-----------------------------------------------------------------------------
(* Properties.                                                             *)

\* After a reset has deleted the sessions of an account, a session proved with an older
\* password is one that a login or refresh in progress at the deletion has stored since,
\* or descends from one.
SurvivorsOverlapped ==
    \A t \in Tokens : Live(t) =>
        token[t].password >= purged[token[t].user] \/ token[t].late

\* A login has one session, however often it is refreshed, unless two refreshes of it have
\* overlapped.
RotationKeepsOne ==
    \A s, t \in Tokens : Live(s) /\ Live(t) /\ s # t =>
        token[s].login # token[t].login \/ token[s].login \in raced
===============================================================================
