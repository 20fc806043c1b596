--------------------------------- MODULE Cache --------------------------------
(***************************************************************************)
(* The accountant's dashboard cache: AccountantCacheService.refreshCache,  *)
(* and who calls it: the cron round of CronService (one accountant after   *)
(* the other, each given a time it may exceed without being stopped), the  *)
(* login and /auth/me of AuthService, and POST /accountant/cache/refresh.  *)
(*                                                                         *)
(* A refresh reads the memberships, aggregates and stores the workspaces   *)
(* batch by batch (those of a batch side by side), and removes the rows of *)
(* other workspaces unless a workspace failed.  Nothing keeps two          *)
(* refreshes of one accountant apart.                                      *)
(*                                                                         *)
(* What a workspace's aggregate says is one number, its version.           *)
(***************************************************************************)
EXTENDS Integers, FiniteSets, Functions

CONSTANTS
    Accountants, Workspaces,
    Calls,        \* bound: calls that refresh at one time
    BatchSize,    \* BATCH_SIZE
    MaxChanges,   \* bound: changes of a workspace's figures or of a membership
    MaxRequests,  \* bound: logins and refreshes asked for
    MaxFaults     \* bound: queries that fail, and crashes

ASSUME AccountantsAssumption == Accountants # {}
ASSUME BatchAssumption == BatchSize \in Nat \ {0}
ASSUME BoundsAssumption == {MaxChanges, MaxRequests, MaxFaults} \subseteq Nat

VARIABLES
    figures,   \* what each workspace's aggregate would say
    members,   \* the workspaces of each accountant
    cache,     \* AccountantDashboardCache: the rows of each accountant, by workspace
    call,      \* the calls that refresh
    running,   \* isCacheRefreshRunning
    round,     \* the cron round: accountants to come, and the call it waits for
    changes, requests, faults     \* bound counters

cacheVars == <<figures, members, cache, call, running, round, changes, requests, faults>>

-----------------------------------------------------------------------------
Rows == UNION {[ids -> 0..MaxChanges] : ids \in SUBSET Workspaces}
NoRows == [w \in {} |-> 0]
With(rows, w, figure) == [v \in DOMAIN rows \cup {w} |-> IF v = w THEN figure ELSE rows[v]]

\* expected: the memberships a login has read; ids: those the refresh has read; todo: not in a
\* batch yet; batch: to be aggregated; held: aggregated, to be stored; said and rows: the answer.
\* upset (history): the memberships have changed during this call or one it overlapped.
Call == [at : {"idle", "peek", "members", "batch", "reread", "done"},
         by : {"cron", "login", "route"}, user : Accountants,
         expected : SUBSET Workspaces, ids : SUBSET Workspaces, todo : SUBSET Workspaces,
         batch : SUBSET Workspaces, held : Rows, failed : BOOLEAN, upset : BOOLEAN,
         said : {"nothing", "rows", "refused"}, rows : SUBSET Workspaces]

Idle == [at |-> "idle", by |-> "cron", user |-> CHOOSE a \in Accountants : TRUE,
         expected |-> {}, ids |-> {}, todo |-> {}, batch |-> {}, held |-> NoRows,
         failed |-> FALSE, upset |-> FALSE, said |-> "nothing", rows |-> {}]

Round == [at : {"idle", "list", "loop"}, todo : SUBSET Accountants, waits : SUBSET Calls]
NoRound == [at |-> "idle", todo |-> {}, waits |-> {}]

CacheTypeOK ==
    /\ figures \in [Workspaces -> 0..MaxChanges]
    /\ members \in [Accountants -> SUBSET Workspaces]
    /\ cache \in [Accountants -> Rows]
    /\ call \in [Calls -> Call]
    /\ running \in BOOLEAN /\ round \in Round
    /\ changes \in 0..MaxChanges /\ requests \in 0..MaxRequests /\ faults \in 0..MaxFaults

CacheInit ==
    /\ figures = [w \in Workspaces |-> 0]
    /\ members \in [Accountants -> SUBSET Workspaces]
    /\ cache = [a \in Accountants |-> NoRows]
    /\ call = [c \in Calls |-> Idle]
    /\ running = FALSE /\ round = NoRound
    /\ changes = 0 /\ requests = 0 /\ faults = 0

Busy(c) == call[c].at # "idle"
Upset(a) == \E c \in Calls : Busy(c) /\ call[c].user = a /\ call[c].upset
NewCall(a, by, at) == [Idle EXCEPT !.at = at, !.by = by, !.user = a, !.upset = Upset(a)]
Become(c, r) == call' = [call EXCEPT ![c] = r]
Fault == faults < MaxFaults /\ faults' = faults + 1
Asked == requests < MaxRequests /\ requests' = requests + 1

-----------------------------------------------------------------------------
(* AccountantCacheService.refreshCache                                     *)

\* Who waits for the refresh reads the cache once more, the others have ended.
Answering(r) == r.by # "cron" /\ r.said = "nothing"
Refreshed(r) == [r EXCEPT !.at = IF Answering(r) THEN "reread" ELSE "done"]

Members(c) ==
    LET r == call[c] ids == members[r.user]
    IN  /\ r.at = "members"
        /\ IF ids = {}
           THEN /\ cache' = [cache EXCEPT ![r.user] = NoRows]
                /\ Become(c, Refreshed(r))
           ELSE /\ Become(c, [r EXCEPT !.at = "batch", !.ids = ids, !.todo = ids])
                /\ UNCHANGED cache
        /\ UNCHANGED <<figures, members, running, round, changes, requests, faults>>

BatchDone(c) == call[c].at = "batch" /\ call[c].batch = {} /\ call[c].held = NoRows

NextBatch(c) ==
    /\ BatchDone(c) /\ call[c].todo # {}
    /\ \E b \in SUBSET call[c].todo :
          /\ Cardinality(b) <= BatchSize
          /\ Cardinality(b) = BatchSize \/ b = call[c].todo
          /\ Become(c, [call[c] EXCEPT !.batch = b, !.todo = @ \ b])
    /\ UNCHANGED <<figures, members, cache, running, round, changes, requests, faults>>

\* The counts, the sum and the expiry date are read in one database transaction.
Aggregate(c, w) ==
    /\ w \in call[c].batch
    /\ Become(c, [call[c] EXCEPT !.batch = @ \ {w}, !.held = With(@, w, figures[w])])
    /\ UNCHANGED <<figures, members, cache, running, round, changes, requests, faults>>

Upsert(c, w) ==
    /\ w \in DOMAIN call[c].held
    /\ cache' = [cache EXCEPT ![call[c].user] = With(@, w, call[c].held[w])]
    /\ Become(c, [call[c] EXCEPT !.held = Restrict(@, DOMAIN @ \ {w})])
    /\ UNCHANGED <<figures, members, running, round, changes, requests, faults>>

\* refreshWorkspace: an error of a workspace is noted, the others go on.
WorkspaceFails(c, w) ==
    /\ w \in call[c].batch \cup DOMAIN call[c].held
    /\ Fault
    /\ Become(c, [call[c] EXCEPT !.batch = @ \ {w}, !.held = Restrict(@, DOMAIN @ \ {w}),
                                 !.failed = TRUE])
    /\ UNCHANGED <<figures, members, cache, running, round, changes, requests>>

\* A plausible mistake: rows of other workspaces are left.
KeepAll(r) == cache[r.user]                                         \* mutant
Kept(r) == Restrict(cache[r.user], r.ids \cap DOMAIN cache[r.user])

CleanUp(c) ==
    /\ BatchDone(c) /\ call[c].todo = {}
    /\ cache' = IF call[c].failed THEN cache ELSE [cache EXCEPT ![call[c].user] = Kept(call[c])]
    /\ Become(c, Refreshed(call[c]))
    /\ UNCHANGED <<figures, members, running, round, changes, requests, faults>>

-----------------------------------------------------------------------------
(* Who calls it.                                                           *)

\* loadAccountantCache, for authenticate and getMe; the memberships come with the user.
Load(c, a) ==
    /\ ~ Busy(c) /\ Asked
    /\ members[a] # {}
    /\ Become(c, [NewCall(a, "login", "peek") EXCEPT !.expected = members[a]])
    /\ UNCHANGED <<figures, members, cache, running, round, changes, faults>>

Complete(r) == r.expected \subseteq DOMAIN cache[r.user]

\* A plausible mistake: the refresh is not awaited.
NotAwaited(r) == [r EXCEPT !.at = "reread"]                         \* mutant
Awaited(r) == [r EXCEPT !.at = "members"]

\* A complete cache is the answer, and the refresh goes on behind it.
Peek(c) ==
    LET r == call[c]
    IN  /\ r.at = "peek"
        /\ Become(c, IF Complete(r)
                     THEN [r EXCEPT !.at = "members", !.said = "rows", !.rows = r.expected]
                     ELSE Awaited(r))
        /\ UNCHANGED <<figures, members, cache, running, round, changes, requests, faults>>

\* POST /accountant/cache/refresh
Refresh(c, a) ==
    /\ ~ Busy(c) /\ Asked
    /\ Become(c, NewCall(a, "route", "members"))
    /\ UNCHANGED <<figures, members, cache, running, round, changes, faults>>

Answer(r) ==
    CASE r.by = "route" -> [r EXCEPT !.said = "rows", !.rows = DOMAIN cache[r.user]]
      [] r.by = "login" /\ Complete(r) -> [r EXCEPT !.said = "rows", !.rows = r.expected]
      [] OTHER -> [r EXCEPT !.said = "refused"]

Reread(c) ==
    /\ call[c].at = "reread"
    /\ Become(c, [Answer(call[c]) EXCEPT !.at = "done"])
    /\ UNCHANGED <<figures, members, cache, running, round, changes, requests, faults>>

\* Any other query fails: the refresh ends, who waits for it gets an error.
Throws(c) ==
    LET r == call[c]
    IN  /\ r.at \in {"peek", "members", "reread"} \/ (BatchDone(c) /\ r.todo = {})
        /\ Fault
        /\ Become(c, [r EXCEPT !.at = "done", !.failed = TRUE,
                               !.said = IF Answering(r) THEN "refused" ELSE @])
        /\ UNCHANGED <<figures, members, cache, running, round, changes, requests>>

End(c) ==
    /\ call[c].at = "done" /\ c \notin round.waits
    /\ Become(c, Idle)
    /\ UNCHANGED <<figures, members, cache, running, round, changes, requests, faults>>

-----------------------------------------------------------------------------
(* CronService.refreshAccountantCaches, every half hour.                   *)

\* A round that finds the flag set is skipped.
CronTick ==
    /\ IF running
       THEN UNCHANGED <<running, round>>
       ELSE running' = TRUE /\ round' = [NoRound EXCEPT !.at = "list"]
    /\ UNCHANGED <<figures, members, cache, call, changes, requests, faults>>

List ==
    /\ round.at = "list"
    /\ round' = [round EXCEPT !.at = "loop", !.todo = Accountants]
    /\ UNCHANGED <<figures, members, cache, call, running, changes, requests, faults>>

\* A plausible mistake: the early return leaves the flag set.
LeaveFlag == round' = NoRound /\ UNCHANGED running                  \* mutant
CloseRound == round' = NoRound /\ running' = FALSE

ListFails ==
    /\ round.at = "list"
    /\ Fault
    /\ CloseRound
    /\ UNCHANGED <<figures, members, cache, call, changes, requests>>

StartRefresh(c, a) ==
    /\ round.at = "loop" /\ round.waits = {} /\ a \in round.todo
    /\ ~ Busy(c)
    /\ Become(c, NewCall(a, "cron", "members"))
    /\ round' = [round EXCEPT !.todo = @ \ {a}, !.waits = {c}]
    /\ UNCHANGED <<figures, members, cache, running, changes, requests, faults>>

Settled ==
    /\ \E c \in round.waits : call[c].at = "done" /\ Become(c, Idle)
    /\ round' = [round EXCEPT !.waits = {}]
    /\ UNCHANGED <<figures, members, cache, running, changes, requests, faults>>

\* withTimeout gives up waiting; the refresh goes on.
Timeout ==
    /\ \E c \in round.waits : call[c].at # "done"
    /\ round' = [round EXCEPT !.waits = {}]
    /\ UNCHANGED <<figures, members, cache, call, running, changes, requests, faults>>

EndRound ==
    /\ round.at = "loop" /\ round.todo = {} /\ round.waits = {}
    /\ CloseRound
    /\ UNCHANGED <<figures, members, cache, call, changes, requests, faults>>

-----------------------------------------------------------------------------
(* The rest of the system.                                                 *)

Change == changes < MaxChanges /\ changes' = changes + 1

FiguresChange(w) ==
    /\ Change
    /\ figures' = [figures EXCEPT ![w] = @ + 1]
    /\ UNCHANGED <<members, cache, call, running, round, requests, faults>>

MembershipChanges(a, w) ==
    /\ Change
    /\ members' = [members EXCEPT ![a] = IF w \in @ THEN @ \ {w} ELSE @ \cup {w}]
    /\ call' = [c \in Calls |-> [call[c] EXCEPT !.upset = @ \/ (Busy(c) /\ call[c].user = a)]]
    /\ UNCHANGED <<figures, cache, running, round, requests, faults>>

ServerCrash ==
    /\ Fault
    /\ call' = [c \in Calls |-> Idle]
    /\ CloseRound
    /\ UNCHANGED <<figures, members, cache, changes, requests>>

Proceed(c) ==
    \/ Members(c) \/ NextBatch(c) \/ CleanUp(c) \/ Peek(c) \/ Reread(c) \/ End(c)
    \/ \E w \in Workspaces : Aggregate(c, w) \/ Upsert(c, w)

RoundProceeds ==
    \/ CronTick \/ List \/ Settled \/ EndRound
    \/ \E c \in Calls, a \in Accountants : StartRefresh(c, a)

CacheNext ==
    \/ RoundProceeds \/ ListFails \/ Timeout \/ ServerCrash
    \/ \E c \in Calls : Proceed(c) \/ Throws(c) \/ (\E w \in Workspaces : WorkspaceFails(c, w))
    \/ \E c \in Calls, a \in Accountants : Load(c, a) \/ Refresh(c, a)
    \/ \E w \in Workspaces : FiguresChange(w)
    \/ \E a \in Accountants, w \in Workspaces : MembershipChanges(a, w)

\* The schedule fires as long as the server runs, and a query that does not fail ends.
CacheFairness == WF_cacheVars(RoundProceeds) /\ \A c \in Calls : WF_cacheVars(Proceed(c))

CacheSpec == CacheInit /\ [][CacheNext]_cacheVars /\ CacheFairness

-----------------------------------------------------------------------------
(* Properties.                                                             *)

\* loadAccountantCache: an accountant is kept from logging in, or loses the session while
\* restoring it, only after a query has failed or with a change of the memberships under
\* way: never because another refresh has taken away rows this one has just stored.
RefusedForCause ==
    \A c \in Calls : call[c].said = "refused" => call[c].failed \/ call[c].upset

\* POST /accountant/cache/refresh: without either, the answer has the rows of the clients the
\* accountant works for and of no others, a former client's row being gone by then.
OnlyMyClients ==
    \A c \in Calls :
        call[c].by = "route" /\ call[c].said = "rows" /\ ~ call[c].failed /\ ~ call[c].upset =>
            call[c].rows = members[call[c].user]

\* Once nothing changes any more the cache agrees with the workspaces for good, for all the
\* refreshes that overlapped, ran out of time, failed or crashed before.
Converges == <>[](\A a \in Accountants : cache[a] = Restrict(figures, members[a]))
===============================================================================
