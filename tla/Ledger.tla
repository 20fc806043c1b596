-------------------------------- MODULE Ledger --------------------------------
(***************************************************************************)
(* One workspace's books: the bank movements waiting for review, the       *)
(* transactions, the account balances and the audit trail, and the HTTP    *)
(* and Telegram requests that change them concurrently.                    *)
(*                                                                         *)
(* BankMovementService, TransactionService and the two Telegram OCR        *)
(* services all work the same way: a handler reads rows with separate      *)
(* awaited queries, decides, and only then opens a database transaction.   *)
(* Other requests run between those reads and that transaction, so a       *)
(* request is a record in `req` that keeps what its handler read.  The     *)
(* database transaction itself is one atomic action: its updates are row   *)
(* locked increments, its failure rolls everything back (Abort).           *)
(***************************************************************************)
EXTENDS Integers, Sequences, FiniteSets, Functions

CONSTANTS
    Requests,         \* slots for requests in flight at the same time
    Movements,        \* the ids of the bank movements that may be received
    Manual,           \* the origin of a transaction no movement stands behind
    Statement,        \* what the bank or the OCR said of each movement
    Accounts,         \* the workspace's accounts
    InitialBalance,   \* Account.balance at creation, per account
    Amounts,          \* net amounts of manual transactions; a marketplace fee
                      \* above the gross value makes one negative
    Days,             \* days manual transactions are dated with and books closed at
    Business,         \* TRUE for a BUSINESS workspace, FALSE for a PERSONAL one
    MaxTransactions   \* bound: transactions ever created

Details == [account : Accounts, amount : Int, date : Nat \ {0}]

ASSUME StatementAssumption == Statement \in [Movements -> Details]
ASSUME ManualAssumption    == Manual \notin Movements
ASSUME BalanceAssumption   == InitialBalance \in [Accounts -> Int]
ASSUME AmountsAssumption   == Amounts \subseteq Int
ASSUME DaysAssumption      == Days \subseteq Nat \ {0}
ASSUME BusinessAssumption  == Business \in BOOLEAN
ASSUME BoundAssumption     == MaxTransactions \in Nat

VARIABLES
    movement,     \* BankMovement rows: status and the evidence in rawPayload
    ledger,       \* Transaction rows in order of creation; deleted ones stay
                  \* as tombstones (live = FALSE) so that ids are never reused
    balance,      \* Account.balance
    audit,        \* AuditLog rows of each account, in commit order
    outbox,       \* transactions with a TRANSACTION_EXPENSE_CREATED event
    closedUntil,  \* Workspace.closedUntil, 0 when null
    req           \* the requests in flight

vars  == <<movement, ledger, balance, audit, outbox, closedUntil, req>>
books == <<ledger, balance, audit, outbox>>

-----------------------------------------------------------------------------
(* The data.                                                               *)

TxIds    == 1..MaxTransactions
Statuses == {"ABSENT", "PENDING", "APPROVED", "REJECTED", "DELETED"}

MovementRow == [status : Statuses, sources : SUBSET Movements]

\* A posting: amount already signed as updateBalance gets it (INCOME +, EXPENSE -).
Posting == [account : Accounts, delta : Int, date : Nat \ {0}, paid : BOOLEAN, expense : BOOLEAN]

Transaction == [posting : Posting, origin : Movements \cup {Manual}, live : BOOLEAN]

AuditRow == [tx : TxIds, action : {"CREATE", "DELETE"},
             before : Int, delta : Int, after : Int]

\* What a handler in flight remembers.  before is the balance it read outside
\* the database transaction; exempt: the accountant's bypass of closed periods.
Approve == [op : {"approve"}, step : {"guard", "commit"}, movement : Movements,
            exempt : BOOLEAN, before : Int]
Confirm == [op : {"confirm"}, movement : Movements]
Reject  == [op : {"reject"}, movement : Movements]
Merge   == [op : {"merge"}, keep : Movements, discards : SUBSET Movements,
            sources : SUBSET Movements]
Create  == [op : {"create"}, posting : Posting, exempt : BOOLEAN, before : Int]
Delete  == [op : {"delete"}, step : {"guard", "commit"}, tx : TxIds,
            exempt : BOOLEAN, before : Int]

Idle == [op |-> "none"]

RequestState == {Idle} \cup Approve \cup Confirm \cup Reject \cup Merge \cup Create \cup Delete

TypeOK ==
    /\ movement \in [Movements -> MovementRow]
    /\ ledger \in Seq(Transaction)
    /\ Len(ledger) <= MaxTransactions
    /\ balance \in [Accounts -> Int]
    /\ audit \in [Accounts -> Seq(AuditRow)]
    /\ outbox \subseteq TxIds
    /\ closedUntil \in Nat
    /\ req \in [Requests -> RequestState]

Init ==
    /\ movement = [m \in Movements |-> [status |-> "ABSENT", sources |-> {m}]]
    /\ ledger = << >>
    /\ balance = InitialBalance
    /\ audit = [a \in Accounts |-> << >>]
    /\ outbox = {}
    /\ closedUntil = 0
    /\ req = [r \in Requests |-> Idle]

-----------------------------------------------------------------------------
(* Helpers: the row changes the database transactions are built from.      *)

Finish(r) == req' = [req EXCEPT ![r] = Idle]

\* dayjs(date).isSameOrBefore(closedUntil, 'day'), and the accountant's bypass.
Closed(date) == date <= closedUntil
Bypass(role) == role = "ACCOUNTANT" /\ Business

OpenOnTheDay(date, role) == date >= closedUntil \/ Bypass(role)   \* mutant
Open(date, role) == ~Closed(date) \/ Bypass(role)

Roles == {"EDITOR", "ACCOUNTANT"}

\* logSync inserts in the caller's database transaction.
JournalLater(a, row) == UNCHANGED audit                           \* mutant
Journal(a, row) == audit' = [audit EXCEPT ![a] = Append(@, row)]

\* updateBalance increments in the database and returns what it has become.
AfterFromRead(a, before, delta) == before + delta                 \* mutant
BalanceAfter(a, before, delta) == balance[a] + delta

\* TransactionRepository.create, AccountRepository.updateBalance and
\* AuditLogService.logSync for a new transaction; an unpaid one only gets a row.
Book(posting, origin, before) ==
    LET a == posting.account
        t == Len(ledger) + 1
        row == [tx |-> t, action |-> "CREATE", before |-> before,
                delta |-> posting.delta, after |-> BalanceAfter(a, before, posting.delta)]
    IN  /\ t <= MaxTransactions
        /\ ledger' = Append(ledger, [posting |-> posting, origin |-> origin, live |-> TRUE])
        /\ IF posting.paid
           THEN /\ balance' = [balance EXCEPT ![a] = @ + posting.delta]
                /\ Journal(a, row)
           ELSE UNCHANGED <<balance, audit>>

\* The transaction an approval creates: type by the sign, always paid.
ApprovalPosting(m) ==
    [account |-> Statement[m].account, delta |-> Statement[m].amount,
     date |-> Statement[m].date, paid |-> TRUE, expense |-> Statement[m].amount < 0]

\* Updates and deletions by primary key throw P2025 when the row is gone.
Exists(m) == movement[m].status \notin {"ABSENT", "DELETED"}

RowIgnored(t) == TRUE                                             \* mutant
RowExists(t) == ledger[t].live

\* updateMany finds the movement by id, workspace and status.
StillThere(m) == Exists(m)                                        \* mutant
StillPending(m) == movement[m].status = "PENDING"

\* deleteMany takes the merged rows away.
Removed(row) == [row EXCEPT !.status = "DELETED"]

-----------------------------------------------------------------------------
(* Receiving a movement.                                                   *)

Ingest(m) ==
    /\ movement[m].status = "ABSENT"
    /\ movement' = [movement EXCEPT ![m].status = "PENDING"]
    /\ UNCHANGED <<books, closedUntil, req>>

-----------------------------------------------------------------------------
(* BankMovementService.approve                                             *)

\* A plausible mistake: reserving the movement before the money is booked.
ReserveApproval(r, m) ==                                          \* mutant
    /\ movement[m].status = "PENDING"
    /\ movement' = [movement EXCEPT ![m].status = "APPROVED"]
    /\ UNCHANGED <<books, closedUntil, req>>

\* Anything but a PENDING row answers at once and changes nothing.
StartApproval(r, m) ==
    /\ movement[m].status = "PENDING"
    /\ req' = [req EXCEPT ![r] = [op |-> "approve", step |-> "guard", movement |-> m,
                                  exempt |-> FALSE, before |-> 0]]
    /\ UNCHANGED <<movement, books, closedUntil>>

ApproveRead(r, m) ==
    /\ req[r] = Idle
    /\ StartApproval(r, m)

\* The caller's role is fixed before the handler runs; it is chosen here,
\* where it is first used.
ApproveGuard(r, role) ==
    /\ req[r].op = "approve" /\ req[r].step = "guard"
    /\ LET s == Statement[req[r].movement]
       IN  IF Open(s.date, role)
           THEN req' = [req EXCEPT ![r] = [@ EXCEPT !.step = "commit",
                                                    !.exempt = Bypass(role),
                                                    !.before = balance[s.account]]]
           ELSE Finish(r)
    /\ UNCHANGED <<movement, books, closedUntil>>

\* The serializable transaction; updateMany(status = PENDING) with count 0 rolls back.
ApproveCommit(r) ==
    /\ req[r].op = "approve" /\ req[r].step = "commit"
    /\ LET m == req[r].movement
       IN  IF StillPending(m)
           THEN /\ Book(ApprovalPosting(m), m, req[r].before)
                /\ movement' = [movement EXCEPT ![m].status = "APPROVED"]
           ELSE UNCHANGED <<movement, ledger, balance, audit>>
    /\ Finish(r)
    /\ UNCHANGED <<outbox, closedUntil>>

-----------------------------------------------------------------------------
(* BankMovementService.reject, and the Telegram buttons.                   *)

StartRejection(r, m) ==
    /\ req[r] = Idle
    /\ movement[m].status = "PENDING"
    /\ req' = [req EXCEPT ![r] = [op |-> "reject", movement |-> m]]
    /\ UNCHANGED <<movement, books, closedUntil>>

RejectRead(r, m) == StartRejection(r, m)
OcrCancel(r, m)  == StartRejection(r, m)

\* The update names the row by id alone, so whatever its status has become.
RejectCommit(r) ==
    /\ req[r].op = "reject"
    /\ LET m == req[r].movement
       IN  IF Exists(m)
           THEN movement' = [movement EXCEPT ![m].status = "REJECTED"]
           ELSE UNCHANGED movement
    /\ Finish(r)
    /\ UNCHANGED <<books, closedUntil>>

\* The bot checks the movement itself, then calls approve, which reads it again.
OcrConfirm(r, m) ==
    /\ req[r] = Idle
    /\ movement[m].status = "PENDING"
    /\ Statement[m].amount # 0
    /\ req' = [req EXCEPT ![r] = [op |-> "confirm", movement |-> m]]
    /\ UNCHANGED <<movement, books, closedUntil>>

OcrApprove(r) ==
    /\ req[r].op = "confirm"
    /\ StartApproval(r, req[r].movement)

OcrTooLate(r) ==
    /\ req[r].op = "confirm"
    /\ movement[req[r].movement].status # "PENDING"
    /\ Finish(r)
    /\ UNCHANGED <<movement, books, closedUntil>>

-----------------------------------------------------------------------------
(* BankMovementService.merge: sources stands for rawPayload, the movements *)
(* whose original payload it still contains.                               *)

MergeRead(r, keep, discards) ==
    /\ req[r] = Idle
    /\ discards # {} /\ keep \notin discards
    /\ \A m \in discards \cup {keep} : movement[m].status = "PENDING"
    /\ req' = [req EXCEPT ![r] =
                 [op |-> "merge", keep |-> keep, discards |-> discards,
                  sources |-> UNION {movement[m].sources : m \in discards \cup {keep}}]]
    /\ UNCHANGED <<movement, books, closedUntil>>

\* Every update is by id: a missing row rolls back, a changed status does not.
MergeCommit(r) ==
    /\ req[r].op = "merge"
    /\ LET q == req[r]
       IN  IF \A m \in q.discards \cup {q.keep} : Exists(m)
           THEN movement' = [m \in Movements |->
                   IF m = q.keep THEN [movement[m] EXCEPT !.sources = q.sources]
                   ELSE IF m \in q.discards THEN Removed(movement[m])
                   ELSE movement[m]]
           ELSE UNCHANGED movement
    /\ Finish(r)
    /\ UNCHANGED <<books, closedUntil>>

-----------------------------------------------------------------------------
(* TransactionService.create and delete                                    *)

CreateGuard(r, posting, role) ==
    /\ req[r] = Idle
    /\ Len(ledger) < MaxTransactions
    /\ Open(posting.date, role)
    /\ req' = [req EXCEPT ![r] = [op |-> "create", posting |-> posting,
                                  exempt |-> Bypass(role),
                                  before |-> balance[posting.account]]]
    /\ UNCHANGED <<movement, books, closedUntil>>

CreateCommit(r) ==
    /\ req[r].op = "create"
    /\ Book(req[r].posting, Manual, req[r].before)
    /\ outbox' = IF req[r].posting.expense THEN outbox \cup {Len(ledger) + 1} ELSE outbox
    /\ Finish(r)
    /\ UNCHANGED <<movement, closedUntil>>

DeleteRead(r, t) ==
    /\ req[r] = Idle
    /\ t \in DOMAIN ledger /\ ledger[t].live
    /\ req' = [req EXCEPT ![r] = [op |-> "delete", step |-> "guard", tx |-> t,
                                  exempt |-> FALSE, before |-> 0]]
    /\ UNCHANGED <<movement, books, closedUntil>>

DeleteGuard(r, role) ==
    /\ req[r].op = "delete" /\ req[r].step = "guard"
    /\ LET p == ledger[req[r].tx].posting
       IN  IF Open(p.date, role)
           THEN req' = [req EXCEPT ![r] = [@ EXCEPT !.step = "commit",
                                                    !.exempt = Bypass(role),
                                                    !.before = balance[p.account]]]
           ELSE Finish(r)
    /\ UNCHANGED <<movement, books, closedUntil>>

\* The balance is given back first; deleting a row that is gone rolls it back.
DeleteCommit(r) ==
    /\ req[r].op = "delete" /\ req[r].step = "commit"
    /\ LET t == req[r].tx
           p == ledger[t].posting
           a == p.account
           row == [tx |-> t, action |-> "DELETE", before |-> req[r].before,
                   delta |-> -p.delta, after |-> BalanceAfter(a, req[r].before, -p.delta)]
       IN  IF RowExists(t)
           THEN /\ ledger' = [ledger EXCEPT ![t].live = FALSE]
                /\ IF p.paid
                   THEN /\ balance' = [balance EXCEPT ![a] = @ - p.delta]
                        /\ Journal(a, row)
                   ELSE UNCHANGED <<balance, audit>>
           ELSE UNCHANGED <<ledger, balance, audit>>
    /\ Finish(r)
    /\ UNCHANGED <<movement, outbox, closedUntil>>

-----------------------------------------------------------------------------
(* The environment.                                                        *)

\* A request dies between two awaits: the process restarts, the query times out
\* or the serializable transaction fails with 40001.  Nothing was written.
Abort(r) ==
    /\ req[r] # Idle
    /\ Finish(r)
    /\ UNCHANGED <<movement, books, closedUntil>>

\* closedUntil is only read by the backend; an administrator moves it.
CloseBooks(day) ==
    /\ day > closedUntil
    /\ closedUntil' = day
    /\ UNCHANGED <<movement, books, req>>

ManualPosting(a, amount, date, paid, expense) ==
    [account |-> a, delta |-> IF expense THEN -amount ELSE amount,
     date |-> date, paid |-> paid, expense |-> expense]

-----------------------------------------------------------------------------
(* The routes of BankMovementController and TransactionController, and the *)
(* buttons of the Telegram bot.                                            *)

ApproveMovement(r) ==
    \/ \E m \in Movements : ApproveRead(r, m)
    \/ \E role \in Roles : ApproveGuard(r, role)
    \/ ApproveCommit(r)

RejectMovement(r) == (\E m \in Movements : RejectRead(r, m)) \/ RejectCommit(r)

MergeMovements(r) ==
    \/ \E keep \in Movements, discards \in SUBSET Movements : MergeRead(r, keep, discards)
    \/ MergeCommit(r)

\* The approval and the rejection a button leads to are those above.
OcrDecision(r) ==
    \/ \E m \in Movements : OcrCancel(r, m) \/ OcrConfirm(r, m)
    \/ OcrApprove(r)
    \/ OcrTooLate(r)

CreateTransaction(r) ==
    \/ \E a \in Accounts, amount \in Amounts, date \in Days, paid, expense \in BOOLEAN,
          role \in Roles :
          CreateGuard(r, ManualPosting(a, amount, date, paid, expense), role)
    \/ CreateCommit(r)

DeleteTransaction(r) ==
    \/ \E t \in TxIds : DeleteRead(r, t)
    \/ \E role \in Roles : DeleteGuard(r, role)
    \/ DeleteCommit(r)

HandlerStep(r) ==
    \/ ApproveMovement(r) \/ RejectMovement(r) \/ MergeMovements(r)
    \/ OcrDecision(r)
    \/ CreateTransaction(r) \/ DeleteTransaction(r)
    \/ Abort(r)

Next ==
    \/ \E m \in Movements : Ingest(m)
    \/ \E r \in Requests : HandlerStep(r)
    \/ \E day \in Days : CloseBooks(day)

Spec == Init /\ [][Next]_vars

-----------------------------------------------------------------------------
(* Properties.                                                             *)

LivePaid(a) ==
    {t \in DOMAIN ledger : /\ ledger[t].live
                           /\ ledger[t].posting.paid
                           /\ ledger[t].posting.account = a}

Delta == [t \in DOMAIN ledger |-> ledger[t].posting.delta]

\* Account.balance is the opening balance plus the paid transactions that still
\* exist: what scripts/reconcile_account_balances.sql rebuilds.  Breaks if an
\* approval, a creation or a deletion is applied twice or half.
BalanceMatchesLedger ==
    \A a \in Accounts : balance[a] = InitialBalance[a] + SumFunctionOnSet(Delta, LivePaid(a))

\* balanceAfter of the audit row before the i-th one.
PreviousAfter(a, i) == IF i = 1 THEN InitialBalance[a] ELSE audit[a][i - 1].after

\* The audit trail of an account is a chain: each balanceAfter is the previous
\* one plus delta, and the last one is the balance.  It holds although the
\* handlers interleave, because balanceAfter comes from the update itself.
AuditChain ==
    \A a \in Accounts :
        /\ \A i \in DOMAIN audit[a] :
              audit[a][i].after = PreviousAfter(a, i) + audit[a][i].delta
        /\ balance[a] = PreviousAfter(a, Len(audit[a]) + 1)

\* The journal of each account: the deltas on its audit trail, in order.
Journaled == [a \in Accounts |-> [i \in DOMAIN audit[a] |-> audit[a][i].delta]]

Books == INSTANCE Journal WITH journal <- Journaled

\* Every handler keeps the journal contract: a balance moves only together with the
\* audit row that says by how much, and audit rows are only ever appended.
ChangesAreJournaled == Books!JSpec

\* A movement becomes at most one transaction, however many approvals of it race
\* and even if that transaction is deleted later.
BookedOnce ==
    \A t, u \in DOMAIN ledger :
        ledger[t].origin = ledger[u].origin /\ ledger[t].origin # Manual => t = u

Booked(m) == \E t \in DOMAIN ledger : ledger[t].origin = m

\* A movement shown as APPROVED has been booked: the status is never ahead of
\* the money.
ApprovedIsBooked == \A m \in Movements : movement[m].status = "APPROVED" => Booked(m)

\* A movement once seen rejected or merged away is never booked afterwards, by an
\* approval that had read it as PENDING before.
DiscardedIsNeverBooked ==
    [][\A m \in Movements :
         movement[m].status \in {"REJECTED", "DELETED"} /\ ~Booked(m) => ~Booked(m)']_vars

\* What a request past its guard is about to write, and whether that is in the closed period.
PostingOf(q) == CASE q.op = "approve" -> ApprovalPosting(q.movement)
                  [] q.op = "create"  -> q.posting
                  [] q.op = "delete"  -> ledger[q.tx].posting

ReadyToWrite(q) == q.op = "create" \/ (q.op \in {"approve", "delete"} /\ q.step = "commit")

LateWriter(r) == ReadyToWrite(req[r]) /\ ~req[r].exempt /\ Closed(PostingOf(req[r]).date)

\* Once the books are closed no request is let through to a date in the closed
\* period: only requests already past their guard when the books were closed
\* can still write there, so the number of late writers never grows.
ClosedBooksAdmitNobody ==
    [][closedUntil' = closedUntil => \A r \in Requests : LateWriter(r)' => LateWriter(r)]_vars
===============================================================================
