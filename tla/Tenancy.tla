-------------------------------- MODULE Tenancy --------------------------------
(***************************************************************************)
(* Which workspace the browser's requests are for, and whose data its      *)
(* cache holds.  The request interceptor (shared/lib/axios.ts) takes the   *)
(* workspace from the address bar whenever a request leaves, also when it  *)
(* leaves again after a 401; answers are filed by React Query under keys   *)
(* that name the workspace of the page that asked (config/queryKeys.ts).   *)
(* A query whose function takes the AbortSignal is aborted when its last   *)
(* reader unmounts; invalidateQueries marks entries and refetches the ones *)
(* being read, refetchQueries refetches the others as well.                *)
(*                                                                         *)
(* An answer is the workspace it is about and how many changes of its      *)
(* books the server had made; staleness by age is left out.                *)
(***************************************************************************)
EXTENDS Integers

CONSTANTS
    Workspaces,
    Hub,          \* a page of no workspace; also: no header
    Global,       \* a system category, which every workspace may use
    MaxMoves, MaxRefusals, MaxChanges   \* bounds: navigations, 401s and failures, changes asked

ASSUME BoundsAssumption == {MaxMoves, MaxRefusals, MaxChanges} \subseteq Nat
ASSUME PlacesAssumption == Hub \notin Workspaces /\ Global \notin Workspaces

VARIABLES
    url,      \* the workspace in the address bar, or Hub
    view,     \* what the page shows: "dashboard" or "proLabore"
    form,     \* whether the transaction form is open
    active,   \* useWorkspaceStore.activeWorkspaceId
    entry,    \* the query cache
    change,   \* the mutation under way
    books,    \* on the server: changes of each workspace's books
    told,     \* (history) the changes this tab knows of that each list has to show
    moves, refusals, changes

place == <<url, view, form, active>>
vars  == <<place, entry, change, books, told, moves, refusals, changes>>

-----------------------------------------------------------------------------
Queries    == {"transactions", "summary", "categories"}
UsesSignal == {"transactions", "summary"}
Keys       == Queries \X Workspaces
Headers    == Workspaces \cup {Hub}

NoData  == [of |-> Hub, seen |-> 0]
NoFetch == [at |-> "none", header |-> Hub, data |-> NoData]
Data    == [of : Headers, seen : 0..MaxChanges]
Fetch   == [at : {"none", "sent", "waiting", "answered"}, header : Headers, data : Data]
Entry   == [data : Data, invalid : BOOLEAN, fetch : Fetch]

\* A creation: meant for the workspace whose page it was submitted on.  A bridge transfer or
\* a confirmed pending: changes the books of both.
NoChange == [op |-> "none"]
Creation == [op : {"create"}, at : {"uploading", "sent", "waiting", "done", "failed"},
             meant : Workspaces, header : Headers, category : Workspaces \cup {Global}]
Transfer == [op : {"bridge", "confirm"}, at : {"sent", "done", "failed"}]

TTypeOK ==
    /\ url \in Headers /\ active \in Headers
    /\ view \in {"dashboard", "proLabore"} /\ form \in BOOLEAN
    /\ entry \in [Keys -> Entry]
    /\ change \in {NoChange} \cup Creation \cup Transfer
    /\ books \in [Workspaces -> 0..MaxChanges]
    /\ told \in [Workspaces -> 0..MaxChanges]
    /\ moves \in 0..MaxMoves /\ refusals \in 0..MaxRefusals /\ changes \in 0..MaxChanges

Init ==
    /\ url = Hub /\ view = "dashboard" /\ form = FALSE /\ active = Hub
    /\ entry = [k \in Keys |-> [data |-> NoData, invalid |-> FALSE, fetch |-> NoFetch]]
    /\ change = NoChange
    /\ books = [w \in Workspaces |-> 0] /\ told = [w \in Workspaces |-> 0]
    /\ moves = 0 /\ refusals = 0 /\ changes = 0

-----------------------------------------------------------------------------
(* Headers and fetches.                                                    *)

\* The request interceptor, with the address bar at u and the header the request has.
HeaderOfStore(u, header) == IF active # Hub THEN active ELSE header   \* mutant
Header(u, header) == IF u # Hub THEN u ELSE header

Begun(e, u)   == [e EXCEPT !.fetch = [at |-> "sent", header |-> Header(u, Hub), data |-> NoData]]
Aborted(e)    == [e EXCEPT !.fetch = NoFetch]
AtRest(e)       == e.fetch = NoFetch

\* The queries read by the page at u.
Read(u, v, f) == {k \in Keys : /\ k[2] = u
                               /\ IF k[1] = "categories" THEN f ELSE v = "dashboard"}
NowRead == Read(url, view, form)

\* Another page, or the form opens or closes.  What mounts is fetched unless it is there and
\* not invalid, or already on its way; what unmounts is aborted if it listens to the signal.
Move(u, v, f) ==
    /\ <<u, v, f>> # <<url, view, form>>
    /\ moves < MaxMoves /\ moves' = moves + 1
    /\ url' = u /\ view' = v /\ form' = f
    /\ active' = u
    /\ LET next == Read(u, v, f)
       IN  entry' = [k \in Keys |->
             IF k \in next \ NowRead
                  /\ AtRest(entry[k]) /\ (entry[k].data = NoData \/ entry[k].invalid)
             THEN Begun(entry[k], u)
             ELSE IF k \in NowRead \ next /\ k[1] \in UsesSignal THEN Aborted(entry[k])
             ELSE entry[k]]
    /\ UNCHANGED <<books, told, refusals, changes>>

\* WorkspaceGuard and AccountantHubPage keep the store at the page's workspace.  Leaving by
\* the browser's buttons keeps the form open.
Visit(w, v) == Move(w, v, form) /\ UNCHANGED change
GoToHub     == Move(Hub, "dashboard", form) /\ UNCHANGED change
OpenForm    == url # Hub /\ Move(url, view, TRUE) /\ UNCHANGED change

\* Closing the form aborts the upload, and with it the submission.
CloseForm ==
    /\ form /\ Move(url, view, FALSE)
    /\ change' = IF change.op = "create" /\ change.at = "uploading" THEN NoChange ELSE change

-----------------------------------------------------------------------------
(* Fetches.  A 401 makes a request wait for the token refresh, and the     *)
(* interceptor sends it again.                                             *)

Refused == refusals < MaxRefusals /\ refusals' = refusals + 1

FetchStep(k, f) ==
    /\ entry' = [entry EXCEPT ![k].fetch = f]
    /\ UNCHANGED <<place, change, books, told, moves, changes>>

Unauthorized(k) ==
    /\ entry[k].fetch.at = "sent" /\ Refused
    /\ FetchStep(k, [entry[k].fetch EXCEPT !.at = "waiting"])

SendAgain(k) ==
    /\ entry[k].fetch.at = "waiting"
    /\ FetchStep(k, [entry[k].fetch EXCEPT !.at = "sent", !.header = Header(url, @)])
    /\ UNCHANGED refusals

\* What the server says of a workspace.
ListTransactions(w) == [of |-> w, seen |-> books[w]]
GetSummary(w)       == [of |-> w, seen |-> books[w]]
ListCategories(w)   == [of |-> w, seen |-> 0]

Said(query, w) ==
    CASE query = "transactions" -> ListTransactions(w)
      [] query = "summary"      -> GetSummary(w)
      [] query = "categories"   -> ListCategories(w)

Serve(k) ==
    /\ entry[k].fetch.at = "sent" /\ entry[k].fetch.header # Hub
    /\ FetchStep(k, [entry[k].fetch EXCEPT !.at = "answered",
                                           !.data = Said(k[1], entry[k].fetch.header)])
    /\ UNCHANGED refusals

\* A request without a workspace is refused; others may fail.
FetchFails(k) ==
    /\ ~ AtRest(entry[k])
    /\ IF entry[k].fetch.header = Hub THEN UNCHANGED refusals ELSE Refused
    /\ FetchStep(k, NoFetch)

Deliver(k) ==
    /\ entry[k].fetch.at = "answered"
    /\ entry' = [entry EXCEPT ![k] = [data |-> @.fetch.data, invalid |-> FALSE, fetch |-> NoFetch]]
    /\ UNCHANGED <<place, change, books, told, moves, refusals, changes>>

-----------------------------------------------------------------------------
(* Changes.                                                                *)

Ask(c) ==
    /\ change = NoChange
    /\ changes < MaxChanges /\ changes' = changes + 1
    /\ change' = c
    /\ UNCHANGED <<place, entry, books, told, moves, refusals>>

\* submitTransaction, with a category of the list the form shows: a global one or one of the
\* workspace whose categories these are.
SubmitForm(withFile) ==
    /\ form /\ url # Hub
    /\ LET shown == entry[<<"categories", url>>].data
       IN  shown # NoData /\ \E c \in {Global, shown.of} :
             Ask([op |-> "create", at |-> IF withFile THEN "uploading" ELSE "sent",
                  meant |-> url, header |-> Header(url, Hub), category |-> c])

TransferBetween(op) ==
    /\ url # Hub /\ (IF op = "bridge" THEN form ELSE view = "proLabore")
    /\ Ask([op |-> op, at |-> "sent"])

ChangeStep(c) ==
    /\ change' = c
    /\ UNCHANGED <<place, entry, moves, changes>>

Uploaded ==
    /\ change.op = "create" /\ change.at = "uploading"
    /\ ChangeStep([change EXCEPT !.at = "sent", !.header = Header(url, Hub)])
    /\ UNCHANGED <<books, told, refusals>>

ChangeUnauthorized ==
    /\ change.op = "create" /\ change.at = "sent" /\ Refused
    /\ ChangeStep([change EXCEPT !.at = "waiting"])
    /\ UNCHANGED <<books, told>>

ChangeResent ==
    /\ change.op = "create" /\ change.at = "waiting"
    /\ ChangeStep([change EXCEPT !.at = "sent", !.header = Header(url, @)])
    /\ UNCHANGED <<books, told, refusals>>

\* TransactionService.create in the workspace of the header: the category must be its own
\* or global; the account is the workspace's default one, as the form sends none.
Allowed(c) == c.header # Hub /\ c.category \in {Global, c.header}

Book ==
    /\ change.op = "create" /\ change.at = "sent" /\ Allowed(change)
    /\ books' = [books EXCEPT ![change.header] = @ + 1]
    /\ ChangeStep([change EXCEPT !.at = "done"])
    /\ UNCHANGED <<told, refusals>>

BookTransfer ==
    /\ change.op \in {"bridge", "confirm"} /\ change.at = "sent"
    /\ books' = [w \in Workspaces |-> books[w] + 1]
    /\ ChangeStep([change EXCEPT !.at = "done"])
    /\ UNCHANGED <<told, refusals>>

\* The server refuses, or the answer is lost.
ChangeFails ==
    /\ change # NoChange /\ change.at \in {"sent", "done"}
    /\ IF change.op = "create" /\ change.at = "sent" /\ ~ Allowed(change)
       THEN UNCHANGED refusals ELSE Refused
    /\ ChangeStep(NoChange)
    /\ UNCHANGED <<books, told>>

\* invalidateQueries refetches what is being read; a fetch that is under way is replaced if
\* the entry has data, and else left to finish.  refetchQueries does it to every entry that
\* was fetched before.
RefetchIdle(e) == IF AtRest(e) THEN Begun(e, url) ELSE e   \* mutant
Refetch(e)     == IF AtRest(e) \/ e.data # NoData THEN Begun(e, url) ELSE e

Invalidated(k, marked, refetched) ==
    LET e == [entry[k] EXCEPT !.invalid = @ \/ k \in marked]
    IN  IF k \in marked \cap NowRead \/ (k \in refetched /\ e.data # NoData)
        THEN Refetch(e) ELSE e

Lists         == {"transactions"} \X Workspaces
Summaries(ws) == {"summary"} \X ws

\* onSuccess of useCreateTransaction (the summary of the workspace active when the form was
\* drawn last), of useCreateBridge (whose key for the summaries matches none) and of
\* useRecurringProLabore.
Succeeded ==
    /\ change # NoChange /\ change.at = "done"
    /\ \E ws \in CASE change.op = "create"  -> {{change.meant}, {active} \ {Hub}}
                   [] change.op = "bridge"  -> {{}}
                   [] change.op = "confirm" -> {Workspaces} :
         entry' = [k \in Keys |-> Invalidated(k, Lists \cup Summaries(ws), Summaries(ws))]
    /\ form' = (form /\ change.op # "create")
    /\ told' = [w \in Workspaces |->
                  LET e == entry[<<"transactions", w>>]
                  IN  IF AtRest(e) \/ e.data # NoData THEN books[w] ELSE told[w]]
    /\ change' = NoChange
    /\ UNCHANGED <<url, view, active, books, moves, refusals, changes>>

Next ==
    \/ \E w \in Workspaces, v \in {"dashboard", "proLabore"} : Visit(w, v)
    \/ GoToHub \/ OpenForm \/ CloseForm
    \/ \E k \in Keys : Unauthorized(k) \/ SendAgain(k) \/ Serve(k) \/ FetchFails(k) \/ Deliver(k)
    \/ \E withFile \in BOOLEAN : SubmitForm(withFile)
    \/ \E op \in {"bridge", "confirm"} : TransferBetween(op)
    \/ Uploaded \/ ChangeUnauthorized \/ ChangeResent
    \/ Book \/ BookTransfer \/ ChangeFails \/ Succeeded

Spec == Init /\ [][Next]_vars

-----------------------------------------------------------------------------
(* Properties.                                                             *)

\* No client's transactions are shown as another's: what is filed as a workspace's list is
\* its own, however navigations, 401s and retries mix, as the request of a page that is left
\* is aborted before it could be sent again for the next one.
ListsAreOwn == \A w \in Workspaces : entry[<<"transactions", w>>].data.of \in {w, Hub}

\* A list at rest shows every change this tab was told of, in all workspaces: reads that
\* overtook the change do not stay -- unless the list was being loaded for the first time.
ListsAreFresh ==
    \A w \in Workspaces :
        LET e == entry[<<"transactions", w>>]
        IN  e.data # NoData /\ ~ e.invalid /\ AtRest(e) => e.data.seen >= told[w]
===============================================================================
