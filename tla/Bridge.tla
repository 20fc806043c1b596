-------------------------------- MODULE Bridge --------------------------------
(***************************************************************************)
(* BridgeService.executeTransfer: money moved from the default account of  *)
(* one workspace to that of another as two transactions, the debit leg     *)
(* (fitid BRIDGE_OUT_<id>) and the credit leg (BRIDGE_IN_<id>).            *)
(*                                                                         *)
(* A caller that gives its own id ("keyed") may retry: existing legs are   *)
(* looked for before and inside the database transaction, and the unique   *)
(* index on (workspaceId, fitid) settles what those lookups cannot see.    *)
(* The manual route gives none, so each of its transfers has a fresh id.   *)
(*                                                                         *)
(* A call is a record in `call`; every awaited query is a step, so calls   *)
(* interleave with each other, with deletions of the legs and with crashes.*)
(***************************************************************************)
EXTENDS Integers, Sequences

CONSTANTS
    Callers,          \* slots for executions of executeTransfer
    Keyed,            \* transfer ids chosen by the caller (pro-labore pendings)
    Fresh,            \* transfer ids drawn with crypto.randomUUID()
    Workspaces,       \* each stands for its default account too
    Terms,            \* per id: from, to and amount, as normalised
    InitialBalance,   \* balance of each workspace's default account
    Closable,         \* the workspaces whose books an administrator closes
    MaxDeletions      \* bound: legs deleted by hand

Ids == Keyed \cup Fresh

TransferTerms == {t \in [from : Workspaces, to : Workspaces, amount : Nat \ {0}] :
                    t.from # t.to}

\* Other ids, equal workspaces and amounts that are not positive are refused
\* before anything is read.
ASSUME TermsAssumption   == Terms \in [Ids -> TransferTerms]
ASSUME BalanceAssumption == InitialBalance \in [Workspaces -> Int]
ASSUME ClosableAssumption == Closable \subseteq Workspaces
ASSUME KeysAssumption    == Keyed \cap Fresh = {}
ASSUME BoundAssumption   == MaxDeletions \in Nat

VARIABLES
    balance,    \* Account.balance of the default accounts
    leg,        \* the two Transaction rows of each transfer
    audit,      \* the BRIDGE_TRANSFER and DELETE audit rows of each account
    closed,     \* workspaces whose closedUntil covers today
    deletions,  \* bound counter
    call        \* the executions in progress

bridgeVars == <<balance, leg, audit, closed, deletions, call>>
rows       == <<balance, leg, audit, deletions>>

-----------------------------------------------------------------------------
(* The data.                                                               *)

\* A deleted leg leaves no row behind: "deleted" only remembers that it existed.
LegStates == {"none", "live", "deleted"}
Sides     == {"debit", "credit"}

AuditRow == [id : Ids, delta : Int, after : Int]

\* Between two awaits: about to check access, to look for the transfer, to read
\* the accounts, to look again inside the transaction, to write, to look once
\* more after P2002; done and failed are the two ways to return.
Stages == {"access", "lookup", "funds", "recheck", "write", "relookup", "done", "failed"}

IdleCall == [at |-> "idle"]

BridgeTypeOK ==
    /\ balance \in [Workspaces -> Int]
    /\ leg \in [Ids -> [Sides -> LegStates]]
    /\ audit \in [Workspaces -> Seq(AuditRow)]
    /\ closed \subseteq Workspaces
    /\ deletions \in 0..MaxDeletions
    /\ call \in [Callers -> {IdleCall} \cup [at : Stages, id : Ids]]

BridgeInit ==
    /\ balance = InitialBalance
    /\ leg = [i \in Ids |-> [s \in Sides |-> "none"]]
    /\ audit = [w \in Workspaces |-> << >>]
    /\ closed = {}
    /\ deletions = 0
    /\ call = [c \in Callers |-> IdleCall]

-----------------------------------------------------------------------------
(* Helpers                                                                 *)

Live(i, s)  == leg[i][s] = "live"
Whole(i)    == \A s \in Sides : Live(i, s)
Absent(i)   == \A s \in Sides : ~Live(i, s)

\* The account a leg is on, its workspace's default one, and what it adds to its balance.
WorkspaceOf(i, s) == IF s = "debit" THEN Terms[i].from ELSE Terms[i].to
DeltaOf(i, s)     == IF s = "debit" THEN -Terms[i].amount ELSE Terms[i].amount

\* createMany of the audit rows takes the balance each update returned.
EntryUnsigned(i, w, delta) ==                                     \* mutant
    [id |-> i, delta |-> Terms[i].amount, after |-> balance[w] + delta]
Entry(i, w, delta) == [id |-> i, delta |-> delta, after |-> balance[w] + delta]

\* The unique index on (workspaceId, fitid) lets both legs in.
NoIndex(i) == TRUE                                                \* mutant
Unique(i) == Absent(i)

At(c, stage) == call[c].at = stage
Move(c, stage) == call' = [call EXCEPT ![c].at = stage]

\* findExistingTransfer and validateExistingTransfer: both legs are the answer,
\* one leg is an inconsistency (409), none means going on.
LookFor(c, onward) ==
    LET i == call[c].id
    IN  Move(c, IF Whole(i) THEN "done" ELSE IF Absent(i) THEN onward ELSE "failed")

-----------------------------------------------------------------------------
(* executeTransfer, one action per await.                                  *)

StartTransfer(c, i) ==
    /\ At(c, "idle")
    /\ call' = [call EXCEPT ![c] = [at |-> "access", id |-> i]]
    /\ UNCHANGED <<rows, closed>>

\* Memberships and both closedUntil come from one query.  A keyed transfer is an owner's of
\* both workspaces, dated today: closed books refuse it.  The manual route takes any user and
\* any date: it is refused without both memberships or for a date in closed books, and lets
\* through other dates and, in BUSINESS workspaces, accountants.
Barred(i) == {Terms[i].from, Terms[i].to} \cap closed # {}
CheckAccess(c) ==
    /\ At(c, "access")
    /\ LET i == call[c].id
       IN  \E refused \in IF i \in Keyed THEN {Barred(i)} ELSE BOOLEAN :
              Move(c, IF refused THEN "failed" ELSE IF i \in Keyed THEN "lookup" ELSE "funds")
    /\ UNCHANGED <<rows, closed>>

LookUp(c) ==
    /\ At(c, "lookup")
    /\ LookFor(c, "funds")
    /\ UNCHANGED <<rows, closed>>

\* The balance that decides is read before the transaction is opened.
ReadFunds(c) ==
    /\ At(c, "funds")
    /\ LET i == call[c].id
       IN  Move(c, IF balance[Terms[i].from] < Terms[i].amount THEN "failed"
                   ELSE IF i \in Keyed THEN "recheck" ELSE "write")
    /\ UNCHANGED <<rows, closed>>

Recheck(c) ==
    /\ At(c, "recheck")
    /\ LookFor(c, "write")
    /\ UNCHANGED <<rows, closed>>

\* Both legs, both updates and both audit rows commit together; a leg that
\* exists raises P2002 and rolls all of it back.
WriteLegs(c) ==
    /\ At(c, "write")
    /\ LET i == call[c].id
           from == Terms[i].from
           to == Terms[i].to
           amount == Terms[i].amount
       IN  IF Unique(i)
           THEN /\ leg' = [leg EXCEPT ![i] = [s \in Sides |-> "live"]]
                /\ balance' = [balance EXCEPT ![from] = @ - amount, ![to] = @ + amount]
                /\ audit' = [audit EXCEPT ![from] = Append(@, Entry(i, from, -amount)),
                                          ![to]   = Append(@, Entry(i, to, amount))]
                /\ Move(c, "done")
           ELSE /\ Move(c, IF i \in Keyed THEN "relookup" ELSE "failed")
                /\ UNCHANGED <<leg, balance, audit>>
    /\ UNCHANGED <<closed, deletions>>

LookUpAgain(c) ==
    /\ At(c, "relookup")
    /\ LookFor(c, "failed")
    /\ UNCHANGED <<rows, closed>>

-----------------------------------------------------------------------------
(* The environment of a transfer.                                          *)

\* TransactionService.delete takes any paid transaction, also one leg alone.
DeleteLeg(i, s) ==
    LET w == WorkspaceOf(i, s)
        delta == DeltaOf(i, s)
    IN  /\ Live(i, s)
        /\ deletions < MaxDeletions
        /\ leg' = [leg EXCEPT ![i][s] = "deleted"]
        /\ balance' = [balance EXCEPT ![w] = @ - delta]
        /\ audit' = [audit EXCEPT ![w] = Append(@, Entry(i, w, -delta))]
        /\ deletions' = deletions + 1
        /\ UNCHANGED <<closed, call>>

\* An administrator closes or reopens a workspace's current period.
ToggleClosed(w) ==
    /\ closed' = IF w \in closed THEN closed \ {w} ELSE closed \cup {w}
    /\ UNCHANGED <<rows, call>>

TransferStep(c) ==
    \/ CheckAccess(c)
    \/ LookUp(c)
    \/ ReadFunds(c)
    \/ Recheck(c)
    \/ WriteLegs(c)
    \/ LookUpAgain(c)

BridgeEnvironment ==
    \/ \E i \in Ids, s \in Sides : DeleteLeg(i, s)
    \/ \E w \in Closable : ToggleClosed(w)

-----------------------------------------------------------------------------
(* Properties.                                                             *)

\* The legs of workspace w that exist.
LegsOf(w) == {x \in Ids \X Sides : Live(x[1], x[2]) /\ WorkspaceOf(x[1], x[2]) = w}

\* The audit rows of each account form a chain that ends at its balance.
BridgeAuditChain ==
    \A w \in Workspaces :
        LET before(k) == IF k = 1 THEN InitialBalance[w] ELSE audit[w][k - 1].after
        IN  /\ \A k \in DOMAIN audit[w] : audit[w][k].after = before(k) + audit[w][k].delta
            /\ balance[w] = before(Len(audit[w]) + 1)

\* The journal of each account: the amounts on its audit trail, in order.
Journaled == [w \in Workspaces |-> [k \in DOMAIN audit[w] |-> audit[w][k].delta]]

Books == INSTANCE Journal WITH Accounts <- Workspaces, journal <- Journaled
===============================================================================
