-------------------------------- MODULE Browser -------------------------------
(***************************************************************************)
(* The session on the client, composed with the server of Sessions: the    *)
(* tabs of one browser, each with the module state of shared/lib/axios.ts  *)
(* (access token, isRefreshing, failedQueue) and the restore, login and    *)
(* logout of AuthProvider.  The tabs share localStorage, and with it the   *)
(* refresh token.                                                          *)
(*                                                                         *)
(* A tab waits for one session request at a time, in the server's slot of  *)
(* its own name; a page that unloads forgets it, the server does not.      *)
(* Accounts are made and passwords reset in Sessions only.                 *)
(***************************************************************************)
EXTENDS Sessions, FiniteSets

CONSTANTS
    Tabs,     \* tabs of one browser
    Calls     \* API calls each tab's page may have in flight at the same time

ASSUME TabsAssumption  == Tabs \subseteq Requests
ASSUME CallsAssumption == \A b \in Tabs : IsFiniteSet(Calls[b])

VARIABLES
    stored,     \* localStorage wsp_refresh_token, 0 when there is none
    tab,        \* the page of each tab
    call,       \* the API calls of each tab
    spent,      \* bound counter: refresh tokens that acts of the users may have cost, and losses
    disturbed   \* history: something happened that may end a session

bvars == <<svars, stored, tab, call, spent, disturbed>>

-----------------------------------------------------------------------------
(* The pages.                                                              *)

\* waits: the session request the page has sent; held: a refresh token it has received and
\* not stored.  A leaving page still runs.
Page == [at : {"unloaded", "restoring", "login", "app", "leaving"},
         waits : {"no", "restore", "login", "refresh"},
         access : {"none", "fresh", "stale"}, held : 0..MaxTokens, isRefreshing : BOOLEAN]
Blank == [at |-> "unloaded", waits |-> "no", access |-> "none", held |-> 0, isRefreshing |-> FALSE]

\* Settled calls are idle again; retry is _retry.
Call == [at : {"idle", "sent", "queued", "leading"}, access : {"none", "fresh", "stale"},
         retry : BOOLEAN]
NoCall == [at |-> "idle", access |-> "none", retry |-> FALSE]

BTypeOK ==
    /\ TypeOK
    /\ stored \in 0..MaxTokens
    /\ tab \in [Tabs -> Page]
    /\ DOMAIN call = Tabs /\ \A b \in Tabs : call[b] \in [Calls[b] -> Call]
    /\ spent \in 0..MaxTokens
    /\ disturbed \in BOOLEAN

BInit ==
    /\ SInit
    /\ stored = 0
    /\ tab = [b \in Tabs |-> Blank]
    /\ call = [b \in Tabs |-> [c \in Calls[b] |-> NoCall]]
    /\ spent = 0
    /\ disturbed = FALSE

Alive(b) == tab[b].at # "unloaded"
FailedQueue(b) == {c \in Calls[b] : call[b][c].at = "queued"}

\* Bound: an act of the user may cost that many refresh tokens; a loss is counted as one.
Costs(n) == spent + n <= MaxTokens /\ spent' = spent + n

\* Another tab is about to replace the stored token.
Replacing == \E b \in Tabs : tab[b].waits \in {"restore", "refresh"} \/ tab[b].held # 0

-----------------------------------------------------------------------------
(* AuthProvider: restore, login, logout.                                   *)

\* The provider mounts: the restore begins if a token is stored.
Mount(b) ==
    /\ ~ Alive(b) /\ req[b] = Idle
    /\ \/ /\ stored = 0
          /\ tab' = [tab EXCEPT ![b].at = "login"]
          /\ UNCHANGED <<svars, spent, disturbed>>
       \/ /\ stored # 0
          /\ Costs(1)
          /\ RefreshSend(b, stored)
          /\ tab' = [tab EXCEPT ![b].at = "restoring", ![b].waits = "restore"]
          /\ disturbed' = (disturbed \/ Replacing)
    /\ UNCHANGED <<stored, call>>

\* What the page hears from the server: a token, or 0 for a refusal or an error.
Heard(b, token0) ==
    \/ req[b] = Idle /\ token0 = 0
    \/ req[b].step = "reply" /\ token0 = req[b].token

\* The response is taken from the server's slot.
Take(b) ==
    /\ req' = [req EXCEPT ![b] = Idle]
    /\ UNCHANGED <<user, token, issued, code, purged, raced>>

\* The catch of restoreSession forgets the stored token, whoever stored it.
GiveUp(b) ==
    /\ tab' = [tab EXCEPT ![b] = [Blank EXCEPT !.at = "login"]]
    /\ stored' = 0

RestoreRefreshed(b) ==
    /\ tab[b].waits = "restore"
    /\ \E t \in Tokens :
          /\ Heard(b, t)
          /\ tab' = [tab EXCEPT ![b].waits = "no", ![b].access = "fresh", ![b].held = t]
    /\ Take(b)
    /\ UNCHANGED <<stored, call, spent, disturbed>>

RestoreRefused(b) ==
    /\ tab[b].waits = "restore"
    /\ Heard(b, 0)
    /\ GiveUp(b)
    /\ Take(b)
    /\ UNCHANGED <<call, spent, disturbed>>

\* GET /auth/me answers; only now is the new token stored.
RestoreMe(b) ==
    /\ tab[b].at = "restoring" /\ tab[b].held # 0
    /\ stored' = tab[b].held
    /\ tab' = [tab EXCEPT ![b].at = "app", ![b].held = 0]
    /\ UNCHANGED <<svars, call, spent, disturbed>>

RestoreMeFails(b) ==
    /\ tab[b].at = "restoring" /\ tab[b].held # 0
    /\ GiveUp(b)
    /\ disturbed' = TRUE
    /\ UNCHANGED <<svars, call, spent>>

Submit(b, u) ==
    /\ tab[b].at = "login" /\ tab[b].waits = "no"
    /\ Costs(1)
    /\ LoginRead(b, u)
    /\ tab' = [tab EXCEPT ![b].waits = "login"]
    /\ UNCHANGED <<stored, call, disturbed>>

\* Wrong credentials or an account not verified: the form says so.
LoginRejected(b) ==
    /\ tab[b].at = "login" /\ tab[b].waits = "no"
    /\ UNCHANGED bvars

LoginSucceeds(b) ==
    /\ tab[b].waits = "login"
    /\ \E t \in Tokens :
          /\ Heard(b, t)
          /\ stored' = t
    /\ tab' = [tab EXCEPT ![b].at = "app", ![b].waits = "no", ![b].access = "fresh"]
    /\ Take(b)
    /\ UNCHANGED <<call, spent, disturbed>>

LoginFails(b) ==
    /\ tab[b].waits = "login"
    /\ Heard(b, 0)
    /\ tab' = [tab EXCEPT ![b].waits = "no"]
    /\ Take(b)
    /\ UNCHANGED <<stored, call, spent, disturbed>>

\* The server is not told: its row stays.
Logout(b) ==
    /\ tab[b].at = "app"
    /\ Costs(1)
    /\ stored' = 0
    /\ tab' = [tab EXCEPT ![b].at = "leaving", ![b].access = "none"]
    /\ disturbed' = TRUE
    /\ UNCHANGED <<svars, call>>

-----------------------------------------------------------------------------
(* shared/lib/axios.ts                                                     *)

\* The request interceptor adds the access token.
Send(b, c) ==
    /\ tab[b].at = "app" /\ call[b][c].at = "idle"
    /\ call' = [call EXCEPT ![b][c] = [at |-> "sent", access |-> tab[b].access, retry |-> FALSE]]
    /\ UNCHANGED <<svars, stored, tab, spent, disturbed>>

Settled(b, cs) == [call EXCEPT ![b] = [c \in Calls[b] |-> IF c \in cs THEN NoCall ELSE @[c]]]

\* Any answer but a 401, the network's failure included.
Answer(b, c) ==
    /\ call[b][c].at = "sent" /\ call[b][c].access = "fresh"
    /\ call' = Settled(b, {c})
    /\ UNCHANGED <<svars, stored, tab, spent, disturbed>>

Is401(b, c) == call[b][c].at = "sent" /\ call[b][c].access # "fresh"

RejectRetried(b, c) ==
    /\ Is401(b, c) /\ call[b][c].retry
    /\ call' = Settled(b, {c})
    /\ UNCHANGED <<svars, stored, tab, spent, disturbed>>

Enqueue(b, c) ==
    /\ Is401(b, c) /\ ~ call[b][c].retry /\ tab[b].isRefreshing
    /\ call' = [call EXCEPT ![b][c].at = "queued"]
    /\ UNCHANGED <<svars, stored, tab, spent, disturbed>>

LeadRefresh(b, c) ==
    /\ Is401(b, c) /\ ~ call[b][c].retry /\ ~ tab[b].isRefreshing
    /\ stored # 0
    /\ RefreshSend(b, stored)
    /\ call' = [call EXCEPT ![b][c].at = "leading", ![b][c].retry = TRUE]
    /\ tab' = [tab EXCEPT ![b].waits = "refresh", ![b].isRefreshing = TRUE]
    /\ disturbed' = (disturbed \/ Replacing)
    /\ UNCHANGED <<stored, spent>>

\* isRefreshing stays set on this path: the page is leaving.
NothingToRefresh(b, c) ==
    /\ Is401(b, c) /\ ~ call[b][c].retry /\ ~ tab[b].isRefreshing
    /\ stored = 0
    /\ call' = Settled(b, FailedQueue(b) \cup {c})
    /\ tab' = [tab EXCEPT ![b].at = "leaving", ![b].access = "none", ![b].isRefreshing = TRUE]
    /\ UNCHANGED <<svars, stored, spent, disturbed>>

\* The leader is sent again with _retry set, the queue without.
Resent(b) ==
    [call EXCEPT ![b] = [c \in Calls[b] |->
        IF @[c].at \in {"queued", "leading"}
        THEN [at |-> "sent", access |-> "fresh", retry |-> @[c].retry] ELSE @[c]]]

\* Plausible mistakes: the new token stays in memory; isRefreshing is not reset.
NotPersisted(b, t) ==                                             \* mutant
    /\ tab' = [tab EXCEPT ![b].access = "fresh", ![b].waits = "no", ![b].isRefreshing = FALSE]
    /\ UNCHANGED stored
StillRefreshing(b, t) ==                                          \* mutant
    /\ tab' = [tab EXCEPT ![b].access = "fresh", ![b].waits = "no"]
    /\ stored' = t

AdoptTokens(b, t) ==
    /\ tab' = [tab EXCEPT ![b].access = "fresh", ![b].waits = "no", ![b].isRefreshing = FALSE]
    /\ stored' = t

Refreshed(b) ==
    /\ tab[b].waits = "refresh"
    /\ \E t \in Tokens : Heard(b, t) /\ AdoptTokens(b, t)
    /\ call' = Resent(b)
    /\ Take(b)
    /\ UNCHANGED <<spent, disturbed>>

\* The stored token stays: the restore of the next page tries it again.
RefreshRefused(b) ==
    /\ tab[b].waits = "refresh"
    /\ Heard(b, 0)
    /\ call' = Settled(b, {c \in Calls[b] : call[b][c].at \in {"queued", "leading"}})
    /\ tab' = [tab EXCEPT ![b].at = "leaving", ![b].access = "none", ![b].waits = "no",
                          ![b].isRefreshing = FALSE]
    /\ Take(b)
    /\ UNCHANGED <<stored, spent, disturbed>>

-----------------------------------------------------------------------------
(* Pages that go, time, other devices.                                     *)

Forget(b) ==
    /\ tab' = [tab EXCEPT ![b] = Blank]
    /\ call' = [call EXCEPT ![b] = [c \in Calls[b] |-> NoCall]]

\* window.location.href takes effect.
Unload(b) ==
    /\ tab[b].at = "leaving"
    /\ Forget(b)
    /\ disturbed' = (disturbed \/ tab[b].waits # "no")
    /\ UNCHANGED <<svars, stored, spent>>

\* The user reloads or closes the page.
Reload(b) ==
    /\ tab[b].at \in {"restoring", "login", "app"}
    /\ Forget(b)
    /\ disturbed' = (disturbed \/ tab[b].waits # "no" \/ tab[b].held # 0)
    /\ UNCHANGED <<svars, stored, spent>>

\* An answer to a page that has gone.
Drop(b) ==
    /\ ~ Alive(b)
    /\ Respond(b)
    /\ UNCHANGED <<stored, tab, call, spent, disturbed>>

\* Fifteen minutes after it was issued; each call may then lead a refresh.
AccessExpires(b) ==
    /\ tab[b].at = "app" /\ tab[b].access = "fresh"
    /\ Costs(Cardinality(Calls[b]))
    /\ tab' = [tab EXCEPT ![b].access = "stale"]
    /\ call' = [call EXCEPT ![b] = [c \in Calls[b] |->
                  IF @[c].access = "fresh" THEN [@[c] EXCEPT !.access = "stale"] ELSE @[c]]]
    /\ UNCHANGED <<svars, stored, disturbed>>

ServerStep(b) ==
    /\ \/ LoginCreate(b)
       \/ RefreshFind(b) \/ RefreshDiscard(b) \/ RefreshDelete(b) \/ RefreshCreate(b)
    /\ disturbed' = (disturbed \/ At(b, "refresh", "discard"))
    /\ UNCHANGED <<stored, tab, call, spent>>

Hear(b) ==
    \/ RestoreRefreshed(b) \/ RestoreRefused(b)
    \/ LoginSucceeds(b) \/ LoginFails(b)
    \/ Refreshed(b) \/ RefreshRefused(b)

CallStep(b, c) ==
    \/ Answer(b, c) \/ RejectRetried(b, c)
    \/ Enqueue(b, c) \/ LeadRefresh(b, c) \/ NothingToRefresh(b, c)

TabNext(b) ==
    \/ Mount(b) \/ Hear(b) \/ RestoreMe(b) \/ RestoreMeFails(b)
    \/ \E u \in Users : Submit(b, u)
    \/ LoginRejected(b)
    \/ Logout(b) \/ Unload(b) \/ Reload(b) \/ Drop(b) \/ AccessExpires(b)
    \/ \E c \in Calls[b] : Send(b, c) \/ CallStep(b, c)
    \/ ServerStep(b)

\* The server stops in the middle of the request, or its answer is lost.
Lost(b) ==
    /\ Costs(1)
    /\ Abort(b)
    /\ disturbed' = TRUE
    /\ UNCHANGED <<stored, tab, call>>

BNext == \E b \in Tabs : TabNext(b) \/ Lost(b)

\* The server goes on with what it has received, the event loop delivers what has arrived,
\* and a navigation takes effect.
Fairness ==
    \A b \in Tabs :
        /\ WF_bvars(ServerStep(b))
        /\ WF_bvars(Hear(b))
        /\ WF_bvars(Unload(b))
        /\ \A c \in Calls[b] : WF_bvars(CallStep(b, c))

BSpec == BInit /\ [][BNext]_bvars /\ Fairness

-----------------------------------------------------------------------------
(* Properties.                                                             *)

\* As long as nothing has disturbed it (no lost answer, no page left in the middle of a
\* refresh, no two tabs refreshing at once, no logout or expiry), the user of an
\* open page is never logged out: the stored token is one the server knows.
SessionSurvives ==
    ~ disturbed /\ ~ Replacing /\ (\E b \in Tabs : tab[b].at = "app") =>
        stored # 0 /\ Live(stored)

\* Every API call gets its answer or its error, or its page goes.
CallsSettle ==
    \A b \in Tabs : \A c \in Calls[b] : (call[b][c].at # "idle") ~> (call[b][c].at = "idle")
===============================================================================
