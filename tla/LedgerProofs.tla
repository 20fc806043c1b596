----------------------------- MODULE LedgerProofs -----------------------------
(***************************************************************************)
(* Proofs about Ledger, for any number of movements, accounts, concurrent  *)
(* requests and transactions.                                              *)
(***************************************************************************)
EXTENDS Ledger, Sums, TLAPS

\* A deletion in flight remembers a transaction that was really created: without
\* it the type of what DeleteCommit writes cannot be known.
DeletionsKnowTheirRow ==
    \A r \in Requests : req[r].op = "delete" => req[r].tx \in DOMAIN ledger

TypeInv == TypeOK /\ DeletionsKnowTheirRow

-----------------------------------------------------------------------------
(* Requests.                                                               *)

LEMMA FinishTyped ==
    ASSUME TypeInv, NEW r \in Requests, Finish(r)
    PROVE  /\ req' \in [Requests -> RequestState]
           /\ \A x \in Requests : req'[x].op = "delete" => x # r /\ req'[x] = req[x]
BY DEF TypeInv, TypeOK, Finish, RequestState, Idle

LEMMA SetTyped ==
    ASSUME TypeInv, NEW r \in Requests, NEW q \in RequestState,
           req' = [req EXCEPT ![r] = q]
    PROVE  /\ req' \in [Requests -> RequestState]
           /\ \A x \in Requests : req'[x] = IF x = r THEN q ELSE req[x]
BY DEF TypeInv, TypeOK

\* The operation tells which kind of record a request is.
LEMMA RequestKinds ==
    ASSUME NEW q \in RequestState
    PROVE  /\ q.op = "approve" => q \in Approve
           /\ q.op = "confirm" => q \in Confirm
           /\ q.op = "reject"  => q \in Reject
           /\ q.op = "merge"   => q \in Merge
           /\ q.op = "create"  => q \in Create
           /\ q.op = "delete"  => q \in Delete
BY DEF RequestState, Idle, Approve, Confirm, Reject, Merge, Create, Delete

-----------------------------------------------------------------------------
(* Type correctness, one lemma per kind of step.                           *)

\* A posting approved or entered by hand is a posting.
LEMMA ApprovalPostingTyped ==
    ASSUME NEW m \in Movements
    PROVE  ApprovalPosting(m) \in Posting
BY StatementAssumption DEF ApprovalPosting, Posting, Details

LEMMA ManualPostingTyped ==
    ASSUME NEW a \in Accounts, NEW amount \in Amounts, NEW date \in Days,
           NEW paid \in BOOLEAN, NEW expense \in BOOLEAN
    PROVE  ManualPosting(a, amount, date, paid, expense) \in Posting
BY AmountsAssumption, DaysAssumption DEF ManualPosting, Posting

\* Booking adds one row to the ledger and keeps every table well typed.
LEMMA BookTyped ==
    ASSUME TypeOK, NEW p \in Posting, NEW o \in Movements \cup {Manual}, NEW b \in Int,
           Book(p, o, b)
    PROVE  /\ ledger' \in Seq(Transaction)
           /\ Len(ledger') = Len(ledger) + 1
           /\ Len(ledger') <= MaxTransactions
           /\ balance' \in [Accounts -> Int]
           /\ audit' \in [Accounts -> Seq(AuditRow)]
<1> DEFINE tx  == [posting |-> p, origin |-> o, live |-> TRUE]
           row == [tx |-> Len(ledger) + 1, action |-> "CREATE", before |-> b,
                   delta |-> p.delta, after |-> balance[p.account] + p.delta]
<1>1. tx \in Transaction
  BY DEF Transaction
<1>2. p.account \in Accounts /\ p.delta \in Int
  BY DEF Posting
<1>3. row \in AuditRow
  BY <1>2, BoundAssumption DEF TypeOK, Book, AuditRow, TxIds
<1>4. /\ ledger' \in Seq(Transaction)
      /\ Len(ledger') = Len(ledger) + 1
      /\ Len(ledger') <= MaxTransactions
  <2>1. ledger' = Append(ledger, tx) /\ Len(ledger) + 1 <= MaxTransactions
    BY DEF Book, Journal, BalanceAfter
  <2> HIDE DEF tx
  <2>2. QED
    BY <1>1, <2>1 DEF TypeOK
<1>5. balance' \in [Accounts -> Int]
  BY <1>2 DEF TypeOK, Book
<1>6. audit' \in [Accounts -> Seq(AuditRow)]
  <2>1. audit' = audit \/ audit' = [audit EXCEPT ![p.account] = Append(@, row)]
    BY DEF Book, Journal, BalanceAfter
  <2> HIDE DEF row
  <2>2. audit \in [Accounts -> Seq(AuditRow)]
    BY DEF TypeOK
  <2>3. Append(audit[p.account], row) \in Seq(AuditRow)
    BY <1>2, <1>3, <2>2
  <2>4. QED
    BY <1>2, <2>1, <2>2, <2>3
<1>7. QED
  BY <1>4, <1>5, <1>6

\* Steps that only start, advance or finish a request.
LEMMA RequestStepTyped ==
    ASSUME TypeInv, NEW r \in Requests, NEW q \in RequestState,
           req' = [req EXCEPT ![r] = q],
           q.op = "delete" => q.tx \in DOMAIN ledger,
           UNCHANGED <<movement, books, closedUntil>>
    PROVE  TypeInv'
<1>1. TypeOK'
  BY SetTyped DEF TypeInv, TypeOK, books
<1>2. DeletionsKnowTheirRow'
  BY SetTyped DEF TypeInv, DeletionsKnowTheirRow, books
<1>3. QED
  BY <1>1, <1>2 DEF TypeInv

\* A movement that gets a new status stays a movement.
LEMMA StatusTyped ==
    ASSUME TypeOK, NEW m \in Movements, NEW s \in Statuses,
           movement' = [movement EXCEPT ![m].status = s]
    PROVE  movement' \in [Movements -> MovementRow]
<1> DEFINE new == [movement[m] EXCEPT !.status = s]
<1>1. movement \in [Movements -> MovementRow]
  BY DEF TypeOK
<1>2. new \in MovementRow
  BY <1>1 DEF MovementRow
<1>3. movement' = [movement EXCEPT ![m] = new]
  OBVIOUS
<1> HIDE DEF new
<1>4. QED
  BY <1>1, <1>2, <1>3

\* Ingest(m) gives a new movement the status PENDING.
LEMMA IngestTyped ==
    ASSUME TypeInv, NEW m \in Movements, Ingest(m)
    PROVE  TypeInv'
<1>1. movement' \in [Movements -> MovementRow]
  BY StatusTyped DEF TypeInv, Ingest, Statuses
<1>2. TypeOK'
  BY <1>1 DEF TypeInv, TypeOK, Ingest, books
<1>3. DeletionsKnowTheirRow'
  BY DEF TypeInv, DeletionsKnowTheirRow, Ingest, books
<1>4. QED
  BY <1>2, <1>3 DEF TypeInv

\* Moving closedUntil forward.
LEMMA CloseBooksTyped ==
    ASSUME TypeInv, NEW day \in Days, CloseBooks(day)
    PROVE  TypeInv'
BY DaysAssumption DEF TypeInv, TypeOK, DeletionsKnowTheirRow, CloseBooks, books

\* A handler that gives up, or answers without writing.
LEMMA GivingUpTyped ==
    ASSUME TypeInv, NEW r \in Requests, Finish(r), UNCHANGED <<movement, books, closedUntil>>
    PROVE  TypeInv'
<1>1. TypeOK'
  BY FinishTyped DEF TypeInv, TypeOK, books
<1>2. DeletionsKnowTheirRow'
  BY FinishTyped DEF TypeInv, DeletionsKnowTheirRow, books
<1>3. QED
  BY <1>1, <1>2 DEF TypeInv

\* What a request reads before its guard, and what it decides at the guard.
LEMMA StartTyped ==
    ASSUME TypeInv, NEW r \in Requests, NEW m \in Movements,
           StartApproval(r, m) \/ StartRejection(r, m) \/ OcrConfirm(r, m)
    PROVE  TypeInv'
<1>1. CASE StartApproval(r, m)
  <2> DEFINE q == [op |-> "approve", step |-> "guard", movement |-> m,
                   exempt |-> FALSE, before |-> 0]
  <2>1. q \in RequestState
    BY DEF RequestState, Approve
  <2>2. QED
    BY <1>1, <2>1, RequestStepTyped DEF StartApproval
<1>2. CASE StartRejection(r, m)
  <2> DEFINE q == [op |-> "reject", movement |-> m]
  <2>1. q \in RequestState
    BY DEF RequestState, Reject
  <2>2. QED
    BY <1>2, <2>1, RequestStepTyped DEF StartRejection
<1>3. CASE OcrConfirm(r, m)
  <2> DEFINE q == [op |-> "confirm", movement |-> m]
  <2>1. q \in RequestState
    BY DEF RequestState, Confirm
  <2>2. QED
    BY <1>3, <2>1, RequestStepTyped DEF OcrConfirm
<1>4. QED
  BY <1>1, <1>2, <1>3

LEMMA OcrApproveTyped ==
    ASSUME TypeInv, NEW r \in Requests, OcrApprove(r)
    PROVE  TypeInv'
<1>1. req[r] \in RequestState /\ req[r].op = "confirm"
  BY DEF TypeInv, TypeOK, OcrApprove
<1>2. req[r].movement \in Movements
  BY <1>1, RequestKinds DEF Confirm
<1>3. QED
  BY <1>2, StartTyped DEF OcrApprove

LEMMA MergeReadTyped ==
    ASSUME TypeInv, NEW r \in Requests, NEW keep \in Movements, NEW discards \in SUBSET Movements,
           MergeRead(r, keep, discards)
    PROVE  TypeInv'
<1> DEFINE sources == UNION {movement[m].sources : m \in discards \cup {keep}}
           q == [op |-> "merge", keep |-> keep, discards |-> discards, sources |-> sources]
<1>1. sources \subseteq Movements
  BY DEF TypeInv, TypeOK, MovementRow
<1>2. q \in RequestState
  BY <1>1 DEF RequestState, Merge
<1>3. QED
  BY <1>2, RequestStepTyped DEF MergeRead

LEMMA CreateGuardTyped ==
    ASSUME TypeInv, NEW r \in Requests, NEW p \in Posting, NEW role \in Roles,
           CreateGuard(r, p, role)
    PROVE  TypeInv'
<1> DEFINE q == [op |-> "create", posting |-> p, exempt |-> Bypass(role),
                 before |-> balance[p.account]]
<1>1. balance[p.account] \in Int
  BY DEF TypeInv, TypeOK, Posting
<1>2. Bypass(role) \in BOOLEAN
  BY BusinessAssumption DEF Bypass
<1>3. q \in RequestState
  BY <1>1, <1>2 DEF RequestState, Create
<1>4. QED
  BY <1>3, RequestStepTyped DEF CreateGuard

LEMMA DeleteReadTyped ==
    ASSUME TypeInv, NEW r \in Requests, NEW t \in TxIds, DeleteRead(r, t)
    PROVE  TypeInv'
<1> DEFINE q == [op |-> "delete", step |-> "guard", tx |-> t, exempt |-> FALSE, before |-> 0]
<1>1. q \in RequestState
  BY DEF RequestState, Delete
<1>2. QED
  BY <1>1, RequestStepTyped DEF DeleteRead

LEMMA ApproveGuardTyped ==
    ASSUME TypeInv, NEW r \in Requests, NEW role \in Roles, ApproveGuard(r, role)
    PROVE  TypeInv'
<1> DEFINE q == [req[r] EXCEPT !.step = "commit", !.exempt = Bypass(role),
                               !.before = balance[Statement[req[r].movement].account]]
<1>1. req[r] \in Approve
  BY RequestKinds DEF TypeInv, TypeOK, ApproveGuard
<1>2. balance[Statement[req[r].movement].account] \in Int
  BY <1>1, StatementAssumption DEF TypeInv, TypeOK, Approve, Details
<1>3. Bypass(role) \in BOOLEAN
  BY BusinessAssumption DEF Bypass
<1>4. q \in RequestState /\ q.op = "approve"
  BY <1>1, <1>2, <1>3 DEF RequestState, Approve
<1>5. \/ req' = [req EXCEPT ![r] = q]
      \/ Finish(r)
  BY DEF ApproveGuard
<1>6. UNCHANGED <<movement, books, closedUntil>>
  BY DEF ApproveGuard
<1>7. QED
  BY <1>4, <1>5, <1>6, RequestStepTyped, GivingUpTyped

LEMMA DeleteGuardTyped ==
    ASSUME TypeInv, NEW r \in Requests, NEW role \in Roles, DeleteGuard(r, role)
    PROVE  TypeInv'
<1> DEFINE q == [req[r] EXCEPT !.step = "commit", !.exempt = Bypass(role),
                               !.before = balance[ledger[req[r].tx].posting.account]]
<1>1. req[r] \in Delete /\ req[r].tx \in DOMAIN ledger
  BY RequestKinds DEF TypeInv, TypeOK, DeletionsKnowTheirRow, DeleteGuard
<1>2. ledger[req[r].tx] \in Transaction
  BY <1>1 DEF TypeInv, TypeOK
<1>3. balance[ledger[req[r].tx].posting.account] \in Int
  BY <1>2 DEF TypeInv, TypeOK, Transaction, Posting
<1>4. Bypass(role) \in BOOLEAN
  BY BusinessAssumption DEF Bypass
<1>5. q \in RequestState /\ q.tx \in DOMAIN ledger
  BY <1>1, <1>3, <1>4 DEF RequestState, Delete
<1>6. \/ req' = [req EXCEPT ![r] = q]
      \/ Finish(r)
  BY DEF DeleteGuard
<1>7. UNCHANGED <<movement, books, closedUntil>>
  BY DEF DeleteGuard
<1>8. QED
  BY <1>5, <1>6, <1>7, RequestStepTyped, GivingUpTyped

-----------------------------------------------------------------------------
(* The database transactions.                                              *)

LEMMA RejectCommitTyped ==
    ASSUME TypeInv, NEW r \in Requests, RejectCommit(r)
    PROVE  TypeInv'
<1>1. req[r].movement \in Movements
  BY RequestKinds DEF TypeInv, TypeOK, RejectCommit, Reject
<1>2. movement' \in [Movements -> MovementRow]
  BY <1>1, StatusTyped DEF TypeInv, TypeOK, RejectCommit, Statuses
<1>3. TypeOK'
  BY <1>2, FinishTyped DEF TypeInv, TypeOK, RejectCommit, books
<1>4. DeletionsKnowTheirRow'
  BY FinishTyped DEF TypeInv, DeletionsKnowTheirRow, RejectCommit, books
<1>5. QED
  BY <1>3, <1>4 DEF TypeInv

LEMMA MergeCommitTyped ==
    ASSUME TypeInv, NEW r \in Requests, MergeCommit(r)
    PROVE  TypeInv'
<1>1. req[r] \in Merge
  BY RequestKinds DEF TypeInv, TypeOK, MergeCommit
<1>2. movement' \in [Movements -> MovementRow]
  BY <1>1 DEF TypeInv, TypeOK, MergeCommit, Removed, Merge, MovementRow, Statuses
<1>3. TypeOK'
  BY <1>2, FinishTyped DEF TypeInv, TypeOK, MergeCommit, books
<1>4. DeletionsKnowTheirRow'
  BY FinishTyped DEF TypeInv, DeletionsKnowTheirRow, MergeCommit, books
<1>5. QED
  BY <1>3, <1>4 DEF TypeInv

LEMMA ApproveCommitTyped ==
    ASSUME TypeInv, NEW r \in Requests, ApproveCommit(r)
    PROVE  TypeInv'
<1> DEFINE m == req[r].movement
<1>1. req[r] \in Approve
  BY RequestKinds DEF TypeInv, TypeOK, ApproveCommit
<1>2. m \in Movements /\ req[r].before \in Int
  BY <1>1 DEF Approve
<1>3. movement' \in [Movements -> MovementRow]
  BY <1>2, StatusTyped DEF TypeInv, TypeOK, ApproveCommit, Statuses
<1>4. UNCHANGED <<outbox, closedUntil>> /\ Finish(r)
  BY DEF ApproveCommit
<1>5. CASE Book(ApprovalPosting(m), m, req[r].before)
  <2>1. /\ ledger' \in Seq(Transaction)
        /\ Len(ledger') = Len(ledger) + 1
        /\ Len(ledger') <= MaxTransactions
        /\ balance' \in [Accounts -> Int]
        /\ audit' \in [Accounts -> Seq(AuditRow)]
    BY <1>2, <1>5, BookTyped, ApprovalPostingTyped DEF TypeInv
  <2>2. TypeOK'
    BY <1>3, <1>4, <2>1, FinishTyped DEF TypeInv, TypeOK
  <2>3. DeletionsKnowTheirRow'
    BY <1>4, <2>1, FinishTyped DEF TypeInv, TypeOK, DeletionsKnowTheirRow
  <2>4. QED
    BY <2>2, <2>3 DEF TypeInv
<1>6. CASE UNCHANGED <<ledger, balance, audit>>
  <2>1. TypeOK'
    BY <1>3, <1>4, <1>6, FinishTyped DEF TypeInv, TypeOK
  <2>2. DeletionsKnowTheirRow'
    BY <1>4, <1>6, FinishTyped DEF TypeInv, DeletionsKnowTheirRow
  <2>3. QED
    BY <2>1, <2>2 DEF TypeInv
<1>7. QED
  BY <1>5, <1>6 DEF ApproveCommit

LEMMA CreateCommitTyped ==
    ASSUME TypeInv, NEW r \in Requests, CreateCommit(r)
    PROVE  TypeInv'
<1>1. req[r] \in Create
  BY RequestKinds DEF TypeInv, TypeOK, CreateCommit
<1>2. req[r].posting \in Posting /\ req[r].before \in Int
  BY <1>1 DEF Create
<1>3. /\ ledger' \in Seq(Transaction)
      /\ Len(ledger') = Len(ledger) + 1
      /\ Len(ledger') <= MaxTransactions
      /\ balance' \in [Accounts -> Int]
      /\ audit' \in [Accounts -> Seq(AuditRow)]
  BY <1>2, BookTyped DEF TypeInv, CreateCommit
<1>4. outbox' \subseteq TxIds
  <2>1. Len(ledger) \in Nat /\ outbox \subseteq TxIds
    BY DEF TypeInv, TypeOK
  <2>2. Len(ledger) + 1 \in TxIds
    BY <1>3, <2>1, BoundAssumption DEF TxIds
  <2>3. QED
    BY <2>1, <2>2 DEF CreateCommit
<1>5. TypeOK'
  BY <1>3, <1>4, FinishTyped DEF TypeInv, TypeOK, CreateCommit
<1>6. DeletionsKnowTheirRow'
  BY <1>3, FinishTyped DEF TypeInv, TypeOK, DeletionsKnowTheirRow, CreateCommit
<1>7. QED
  BY <1>5, <1>6 DEF TypeInv

LEMMA DeleteCommitTyped ==
    ASSUME TypeInv, NEW r \in Requests, DeleteCommit(r)
    PROVE  TypeInv'
<1> DEFINE t == req[r].tx
           p == ledger[t].posting
           row == [tx |-> t, action |-> "DELETE", before |-> req[r].before,
                   delta |-> -p.delta, after |-> balance[p.account] - p.delta]
<1>1. req[r] \in Delete /\ t \in DOMAIN ledger
  BY RequestKinds DEF TypeInv, TypeOK, DeletionsKnowTheirRow, DeleteCommit
<1>2. ledger[t] \in Transaction
  BY <1>1 DEF TypeInv, TypeOK
<1>3. p.account \in Accounts /\ p.delta \in Int
  BY <1>2 DEF Transaction, Posting
<1>4. row \in AuditRow
  BY <1>1, <1>3 DEF TypeInv, TypeOK, Delete, AuditRow
<1>5. ledger' \in Seq(Transaction) /\ Len(ledger') = Len(ledger)
  <2> DEFINE gone == [ledger[t] EXCEPT !.live = FALSE]
  <2>1. ledger' = ledger \/ ledger' = [ledger EXCEPT ![t] = gone]
    BY DEF DeleteCommit, Journal, BalanceAfter
  <2>2. gone \in Transaction
    BY <1>2 DEF Transaction
  <2> HIDE DEF gone
  <2>3. ledger \in Seq(Transaction)
    BY DEF TypeInv, TypeOK
  <2>4. QED
    BY <1>1, <2>1, <2>2, <2>3
<1>6. balance' \in [Accounts -> Int]
  BY <1>3, SMTT(30) DEF TypeInv, TypeOK, DeleteCommit
<1>7. audit' \in [Accounts -> Seq(AuditRow)]
  <2>1. audit' = audit \/ audit' = [audit EXCEPT ![p.account] = Append(@, row)]
    BY DEF DeleteCommit, Journal, BalanceAfter
  <2> HIDE DEF row
  <2>2. audit \in [Accounts -> Seq(AuditRow)]
    BY DEF TypeInv, TypeOK
  <2>3. Append(audit[p.account], row) \in Seq(AuditRow)
    BY <1>3, <1>4, <2>2
  <2>4. QED
    BY <1>3, <2>1, <2>2, <2>3
<1>8. TypeOK'
  BY <1>5, <1>6, <1>7, FinishTyped DEF TypeInv, TypeOK, DeleteCommit
<1>9. DeletionsKnowTheirRow'
  BY <1>5, FinishTyped DEF TypeInv, TypeOK, DeletionsKnowTheirRow, DeleteCommit
<1>10. QED
  BY <1>8, <1>9 DEF TypeInv

-----------------------------------------------------------------------------
(* The theorem.                                                            *)

LEMMA InitTyped == Init => TypeInv
BY BalanceAssumption, BoundAssumption
DEF Init, TypeInv, TypeOK, DeletionsKnowTheirRow, MovementRow, Statuses, RequestState, Idle

LEMMA NextTyped == TypeInv /\ [Next]_vars => TypeInv'
<1> SUFFICES ASSUME TypeInv, [Next]_vars PROVE TypeInv'
  OBVIOUS
<1>1. CASE UNCHANGED vars
  BY <1>1 DEF vars, TypeInv, TypeOK, DeletionsKnowTheirRow
<1>2. ASSUME NEW m \in Movements, Ingest(m) PROVE TypeInv'
  BY <1>2, IngestTyped
<1>3. ASSUME NEW day \in Days, CloseBooks(day) PROVE TypeInv'
  BY <1>3, CloseBooksTyped
<1>4. ASSUME NEW r \in Requests, HandlerStep(r) PROVE TypeInv'
  <2>1. ASSUME NEW m \in Movements,
               ApproveRead(r, m) \/ RejectRead(r, m) \/ OcrCancel(r, m) \/ OcrConfirm(r, m)
        PROVE  TypeInv'
    BY <2>1, StartTyped DEF ApproveRead, RejectRead, OcrCancel
  <2>2. ASSUME NEW role \in Roles, ApproveGuard(r, role) PROVE TypeInv'
    BY <2>2, ApproveGuardTyped
  <2>3. CASE ApproveCommit(r)
    BY <2>3, ApproveCommitTyped
  <2>4. CASE RejectCommit(r)
    BY <2>4, RejectCommitTyped
  <2>5. CASE OcrApprove(r)
    BY <2>5, OcrApproveTyped
  <2>6. CASE OcrTooLate(r)
    BY <2>6, GivingUpTyped DEF OcrTooLate
  <2>7. ASSUME NEW keep \in Movements, NEW discards \in SUBSET Movements,
               MergeRead(r, keep, discards)
        PROVE  TypeInv'
    BY <2>7, MergeReadTyped
  <2>8. CASE MergeCommit(r)
    BY <2>8, MergeCommitTyped
  <2>9. ASSUME NEW a \in Accounts, NEW amount \in Amounts, NEW date \in Days,
               NEW paid \in BOOLEAN, NEW expense \in BOOLEAN, NEW role \in Roles,
               CreateGuard(r, ManualPosting(a, amount, date, paid, expense), role)
        PROVE  TypeInv'
    BY <2>9, CreateGuardTyped, ManualPostingTyped
  <2>10. CASE CreateCommit(r)
    BY <2>10, CreateCommitTyped
  <2>11. ASSUME NEW t \in TxIds, DeleteRead(r, t) PROVE TypeInv'
    BY <2>11, DeleteReadTyped
  <2>12. ASSUME NEW role \in Roles, DeleteGuard(r, role) PROVE TypeInv'
    BY <2>12, DeleteGuardTyped
  <2>13. CASE DeleteCommit(r)
    BY <2>13, DeleteCommitTyped
  <2>14. CASE Abort(r)
    BY <2>14, GivingUpTyped DEF Abort
  <2>15. QED
    BY <1>4, <2>1, <2>2, <2>3, <2>4, <2>5, <2>6, <2>7, <2>8, <2>9, <2>10, <2>11, <2>12,
       <2>13, <2>14
       DEF HandlerStep, ApproveMovement, RejectMovement, MergeMovements, OcrDecision,
           CreateTransaction, DeleteTransaction
<1>5. QED
  BY <1>1, <1>2, <1>3, <1>4 DEF Next

\* Type correctness of the books, for every workspace and any number of requests
\* in flight; TypeInv is the inductive form.
THEOREM TypeInvariant == Spec => []TypeInv
<1>1. QED
  BY InitTyped, NextTyped, PTL DEF Spec

\* The tables keep their types whatever the handlers interleave.
THEOREM TypeCorrect == Spec => []TypeOK
<1>1. TypeInv => TypeOK
  BY DEF TypeInv
<1>2. QED
  BY <1>1, TypeInvariant, PTL

-----------------------------------------------------------------------------
(* Booking: a movement becomes at most one transaction.                    *)

\* The strengthening the two booking invariants need: as long as a movement may still be
\* approved, nothing has been booked for it.
UnreviewedIsUnbooked ==
    \A m \in Movements : movement[m].status \in {"ABSENT", "PENDING"} => ~Booked(m)

BookingInv == BookedOnce /\ ApprovedIsBooked /\ UnreviewedIsUnbooked

\* The origins of the transactions stay what they were.
SameOrigins ==
    /\ DOMAIN ledger' = DOMAIN ledger
    /\ \A t \in DOMAIN ledger : ledger'[t].origin = ledger[t].origin

\* No movement becomes approved, and none becomes open to review again.
ReviewGoesOn ==
    \A m \in Movements :
        /\ movement'[m].status = "APPROVED" => movement[m].status = "APPROVED"
        /\ movement'[m].status \in {"ABSENT", "PENDING"} =>
              movement[m].status \in {"ABSENT", "PENDING"}

LEMMA StatusSet ==
    ASSUME TypeOK, NEW m \in Movements, NEW s, movement' = [movement EXCEPT ![m].status = s]
    PROVE  \A k \in Movements :
              movement'[k].status = IF k = m THEN s ELSE movement[k].status
<1> DEFINE new == [movement[m] EXCEPT !.status = s]
<1>1. movement \in [Movements -> MovementRow]
  BY DEF TypeOK
<1>2. new.status = s
  BY <1>1 DEF MovementRow
<1>3. movement' = [movement EXCEPT ![m] = new]
  OBVIOUS
<1> HIDE DEF new
<1>4. QED
  BY <1>1, <1>2, <1>3

LEMMA QuietStep ==
    ASSUME BookingInv, SameOrigins, ReviewGoesOn
    PROVE  BookingInv'
<1>1. \A m \in Movements : Booked(m)' <=> Booked(m)
  BY DEF SameOrigins, Booked
<1>2. BookedOnce'
  BY DEF BookingInv, BookedOnce, SameOrigins
<1>3. ApprovedIsBooked' /\ UnreviewedIsUnbooked'
  BY <1>1 DEF BookingInv, ApprovedIsBooked, UnreviewedIsUnbooked, ReviewGoesOn
<1>4. QED
  BY <1>2, <1>3 DEF BookingInv

\* What Book adds to the ledger, and that it adds nothing else.
LEMMA BookAppends ==
    ASSUME TypeOK, NEW p \in Posting, NEW o, NEW b, Book(p, o, b)
    PROVE  /\ DOMAIN ledger' = DOMAIN ledger \cup {Len(ledger) + 1}
           /\ Len(ledger) + 1 \notin DOMAIN ledger
           /\ \A t \in DOMAIN ledger : ledger'[t] = ledger[t]
           /\ ledger'[Len(ledger) + 1].origin = o
<1> DEFINE tx == [posting |-> p, origin |-> o, live |-> TRUE]
<1>1. ledger \in Seq(Transaction) /\ ledger' = Append(ledger, tx)
  BY DEF TypeOK, Book
<1>2. tx.origin = o
  OBVIOUS
<1> HIDE DEF tx
<1>3. QED
  BY <1>1, <1>2

LEMMA ApproveCommitBooks ==
    ASSUME TypeInv, BookingInv, NEW r \in Requests, ApproveCommit(r)
    PROVE  BookingInv'
<1> DEFINE m == req[r].movement
<1>1. m \in Movements
  BY RequestKinds DEF TypeInv, TypeOK, ApproveCommit, Approve
<1>2. CASE movement[m].status # "PENDING"
  <2>1. SameOrigins /\ ReviewGoesOn
    BY <1>2 DEF ApproveCommit, StillPending, SameOrigins, ReviewGoesOn
  <2>2. QED
    BY <2>1, QuietStep
<1>3. CASE movement[m].status = "PENDING"
  <2>1. /\ DOMAIN ledger' = DOMAIN ledger \cup {Len(ledger) + 1}
        /\ Len(ledger) + 1 \notin DOMAIN ledger
        /\ \A t \in DOMAIN ledger : ledger'[t] = ledger[t]
        /\ ledger'[Len(ledger) + 1].origin = m
    BY <1>1, <1>3, BookAppends, ApprovalPostingTyped DEF TypeInv, ApproveCommit, StillPending
  <2>2. ~Booked(m)
    BY <1>1, <1>3 DEF BookingInv, UnreviewedIsUnbooked
  <2>3. BookedOnce'
    BY <2>1, <2>2 DEF BookingInv, BookedOnce, Booked
  <2>4. \A k \in Movements : Booked(k)' <=> Booked(k) \/ k = m
    BY <2>1 DEF Booked
  <2>5. \A k \in Movements :
           movement'[k].status = IF k = m THEN "APPROVED" ELSE movement[k].status
    BY <1>1, <1>3, StatusSet DEF ApproveCommit, StillPending, TypeInv
  <2>6. ApprovedIsBooked' /\ UnreviewedIsUnbooked'
    BY <2>4, <2>5 DEF BookingInv, ApprovedIsBooked, UnreviewedIsUnbooked
  <2>7. QED
    BY <2>3, <2>6 DEF BookingInv
<1>4. QED
  BY <1>2, <1>3

LEMMA CreateCommitBooks ==
    ASSUME TypeInv, BookingInv, NEW r \in Requests, CreateCommit(r)
    PROVE  BookingInv'
<1>1. req[r].posting \in Posting
  BY RequestKinds DEF TypeInv, TypeOK, CreateCommit, Create
<1>2. /\ DOMAIN ledger' = DOMAIN ledger \cup {Len(ledger) + 1}
      /\ \A t \in DOMAIN ledger : ledger'[t] = ledger[t]
      /\ ledger'[Len(ledger) + 1].origin = Manual
  BY <1>1, BookAppends DEF TypeInv, CreateCommit
<1>3. \A k \in Movements : Booked(k)' <=> Booked(k)
  BY <1>2, ManualAssumption DEF Booked
<1>4. BookedOnce'
  BY <1>2 DEF BookingInv, BookedOnce
<1>5. ApprovedIsBooked' /\ UnreviewedIsUnbooked'
  BY <1>3 DEF BookingInv, ApprovedIsBooked, UnreviewedIsUnbooked, CreateCommit
<1>6. QED
  BY <1>4, <1>5 DEF BookingInv

LEMMA DeleteKeepsOrigins ==
    ASSUME TypeInv, NEW r \in Requests, DeleteCommit(r)
    PROVE  SameOrigins
<1> DEFINE t    == req[r].tx
           gone == [ledger[t] EXCEPT !.live = FALSE]
<1>1. ledger \in Seq(Transaction) /\ t \in DOMAIN ledger
  BY DEF TypeInv, TypeOK, DeletionsKnowTheirRow, DeleteCommit
<1>2. gone.origin = ledger[t].origin
  BY <1>1 DEF Transaction
<1>3. ledger' = ledger \/ ledger' = [ledger EXCEPT ![t] = gone]
  BY DEF DeleteCommit, Journal, BalanceAfter
<1> HIDE DEF gone
<1>4. QED
  BY <1>1, <1>2, <1>3 DEF SameOrigins

LEMMA DeleteCommitBooks ==
    ASSUME TypeInv, BookingInv, NEW r \in Requests, DeleteCommit(r)
    PROVE  BookingInv'
<1>1. ReviewGoesOn
  BY DEF DeleteCommit, ReviewGoesOn
<1>2. QED
  BY <1>1, DeleteKeepsOrigins, QuietStep

\* A handler's step is one of the five database transactions or leaves every table alone.
LEMMA StepKinds ==
    ASSUME NEW r \in Requests, HandlerStep(r)
    PROVE  \/ RejectCommit(r) \/ MergeCommit(r)
           \/ ApproveCommit(r) \/ CreateCommit(r) \/ DeleteCommit(r)
           \/ UNCHANGED <<movement, books, closedUntil>>
<1>1. ASSUME NEW m \in Movements,
             ApproveRead(r, m) \/ RejectRead(r, m) \/ OcrCancel(r, m) \/ OcrConfirm(r, m)
      PROVE  UNCHANGED <<movement, books, closedUntil>>
  BY <1>1 DEF ApproveRead, StartApproval, RejectRead, OcrCancel, StartRejection, OcrConfirm
<1>2. ASSUME NEW role \in Roles, ApproveGuard(r, role) \/ DeleteGuard(r, role)
      PROVE  UNCHANGED <<movement, books, closedUntil>>
  BY <1>2 DEF ApproveGuard, DeleteGuard
<1>3. ASSUME OcrApprove(r) \/ OcrTooLate(r) \/ Abort(r)
      PROVE  UNCHANGED <<movement, books, closedUntil>>
  BY <1>3 DEF OcrApprove, StartApproval, OcrTooLate, Abort
<1>4. ASSUME NEW keep, NEW discards, MergeRead(r, keep, discards)
      PROVE  UNCHANGED <<movement, books, closedUntil>>
  BY <1>4 DEF MergeRead
<1>5. ASSUME NEW p, NEW role, CreateGuard(r, p, role)
      PROVE  UNCHANGED <<movement, books, closedUntil>>
  BY <1>5 DEF CreateGuard
<1>6. ASSUME NEW t, DeleteRead(r, t)
      PROVE  UNCHANGED <<movement, books, closedUntil>>
  BY <1>6 DEF DeleteRead
<1>7. QED
  BY <1>1, <1>2, <1>3, <1>4, <1>5, <1>6
  DEF HandlerStep, ApproveMovement, RejectMovement, MergeMovements, OcrDecision,
      CreateTransaction, DeleteTransaction

LEMMA BookingStep == TypeInv /\ BookingInv /\ [Next]_vars => BookingInv'
<1> SUFFICES ASSUME TypeInv, BookingInv, [Next]_vars PROVE BookingInv'
  OBVIOUS
<1>1. CASE UNCHANGED <<movement, ledger>>
  BY <1>1, QuietStep DEF SameOrigins, ReviewGoesOn
<1>2. ASSUME NEW m \in Movements, Ingest(m) PROVE BookingInv'
  <2>1. SameOrigins
    BY <1>2 DEF Ingest, books, SameOrigins
  <2>2. ReviewGoesOn
    BY <1>2, StatusSet DEF Ingest, ReviewGoesOn, TypeInv
  <2>3. QED
    BY <2>1, <2>2, QuietStep
<1>3. ASSUME NEW r \in Requests, RejectCommit(r) PROVE BookingInv'
  <2>1. SameOrigins
    BY <1>3 DEF RejectCommit, books, SameOrigins
  <2>2. req[r].movement \in Movements
    BY <1>3, RequestKinds DEF TypeInv, TypeOK, RejectCommit, Reject
  <2>3. ReviewGoesOn
    BY <1>3, <2>2, StatusSet DEF RejectCommit, ReviewGoesOn, TypeInv
  <2>4. QED
    BY <2>1, <2>3, QuietStep
<1>4. ASSUME NEW r \in Requests, MergeCommit(r) PROVE BookingInv'
  <2>1. SameOrigins
    BY <1>4 DEF MergeCommit, books, SameOrigins
  <2>2. \A k \in Movements : movement[k] \in MovementRow
    BY DEF TypeInv, TypeOK
  <2>3. ASSUME NEW k \in Movements
        PROVE  movement'[k].status \in {movement[k].status, "DELETED"}
    <3>1. \/ movement'[k] = movement[k]
          \/ movement'[k] = [movement[k] EXCEPT !.sources = req[r].sources]
          \/ movement'[k] = [movement[k] EXCEPT !.status = "DELETED"]
      BY <1>4 DEF MergeCommit, Removed
    <3>2. QED
      BY <2>2, <3>1 DEF MovementRow
  <2>4. ReviewGoesOn
    BY <2>3 DEF ReviewGoesOn
  <2>5. QED
    BY <2>1, <2>4, QuietStep
<1>5. ASSUME NEW r \in Requests, ApproveCommit(r) PROVE BookingInv'
  BY <1>5, ApproveCommitBooks
<1>6. ASSUME NEW r \in Requests, CreateCommit(r) PROVE BookingInv'
  BY <1>6, CreateCommitBooks
<1>7. ASSUME NEW r \in Requests, DeleteCommit(r) PROVE BookingInv'
  BY <1>7, DeleteCommitBooks
<1>8. CASE UNCHANGED vars
  BY <1>1, <1>8 DEF vars
<1>9. ASSUME NEW day \in Days, CloseBooks(day) PROVE BookingInv'
  BY <1>1, <1>9 DEF CloseBooks, books
<1>10. ASSUME NEW r \in Requests, HandlerStep(r) PROVE BookingInv'
  BY <1>1, <1>3, <1>4, <1>5, <1>6, <1>7, <1>10, StepKinds DEF books
<1>11. QED
  BY <1>2, <1>8, <1>9, <1>10 DEF Next

LEMMA BookingInit == Init => BookingInv
BY DEF Init, BookingInv, BookedOnce, ApprovedIsBooked, UnreviewedIsUnbooked, Booked

THEOREM BookingInvariant == Spec => []BookingInv
<1>1. QED
  BY BookingInit, BookingStep, TypeInvariant, PTL DEF Spec

\* No race of approvals, rejections, merges and deletions books a movement twice.
THEOREM MovementsAreBookedOnce == Spec => []BookedOnce
<1>1. BookingInv => BookedOnce
  BY DEF BookingInv
<1>2. QED
  BY <1>1, BookingInvariant, PTL

\* A movement is APPROVED only once its transaction exists.
THEOREM ApprovalsAreBooked == Spec => []ApprovedIsBooked
<1>1. BookingInv => ApprovedIsBooked
  BY DEF BookingInv
<1>2. QED
  BY <1>1, BookingInvariant, PTL

-----------------------------------------------------------------------------
(* Rejected and merged movements.                                          *)

LEMMA DiscardedStep ==
    ASSUME TypeInv, [Next]_vars, NEW m \in Movements,
           movement[m].status \in {"REJECTED", "DELETED"}, ~Booked(m)
    PROVE  ~Booked(m)'
<1>1. CASE UNCHANGED ledger
  BY <1>1 DEF Booked
<1>2. ASSUME NEW r \in Requests, ApproveCommit(r) PROVE ~Booked(m)'
  <2> DEFINE k == req[r].movement
  <2>1. k \in Movements
    BY <1>2, RequestKinds DEF TypeInv, TypeOK, ApproveCommit, Approve
  <2>2. CASE movement[k].status # "PENDING"
    BY <1>1, <1>2, <2>2 DEF ApproveCommit, StillPending
  <2>3. CASE movement[k].status = "PENDING"
    <3>1. /\ DOMAIN ledger' = DOMAIN ledger \cup {Len(ledger) + 1}
          /\ \A t \in DOMAIN ledger : ledger'[t] = ledger[t]
          /\ ledger'[Len(ledger) + 1].origin = k
      BY <1>2, <2>1, <2>3, BookAppends, ApprovalPostingTyped DEF TypeInv, ApproveCommit, StillPending
    <3>2. QED
      BY <2>3, <3>1 DEF Booked
  <2>4. QED
    BY <2>2, <2>3
<1>3. ASSUME NEW r \in Requests, CreateCommit(r) PROVE ~Booked(m)'
  <2>1. req[r].posting \in Posting
    BY <1>3, RequestKinds DEF TypeInv, TypeOK, CreateCommit, Create
  <2>2. /\ DOMAIN ledger' = DOMAIN ledger \cup {Len(ledger) + 1}
        /\ \A t \in DOMAIN ledger : ledger'[t] = ledger[t]
        /\ ledger'[Len(ledger) + 1].origin = Manual
    BY <1>3, <2>1, BookAppends DEF TypeInv, CreateCommit
  <2>3. QED
    BY <2>2, ManualAssumption DEF Booked
<1>4. ASSUME NEW r \in Requests, DeleteCommit(r) PROVE ~Booked(m)'
  BY <1>4, DeleteKeepsOrigins DEF SameOrigins, Booked
<1>5. CASE UNCHANGED vars
  BY <1>1, <1>5 DEF vars
<1>6. ASSUME NEW k \in Movements, Ingest(k) PROVE ~Booked(m)'
  BY <1>1, <1>6 DEF Ingest, books
<1>7. ASSUME NEW day \in Days, CloseBooks(day) PROVE ~Booked(m)'
  BY <1>1, <1>7 DEF CloseBooks, books
<1>8. ASSUME NEW r \in Requests, HandlerStep(r) PROVE ~Booked(m)'
  BY <1>1, <1>2, <1>3, <1>4, <1>8, StepKinds DEF RejectCommit, MergeCommit, books
<1>9. QED
  BY <1>5, <1>6, <1>7, <1>8 DEF Next

\* An approval that read a movement as PENDING never books it after it was rejected or
\* merged away: the status is checked again in the database transaction.
THEOREM DiscardedStaysUnbooked == Spec => DiscardedIsNeverBooked
<1>1. TypeInv /\ [Next]_vars =>
        [\A m \in Movements :
            movement[m].status \in {"REJECTED", "DELETED"} /\ ~Booked(m) => ~Booked(m)']_vars
  BY DiscardedStep
<1>2. QED
  BY <1>1, TypeInvariant, PTL DEF Spec, DiscardedIsNeverBooked

-----------------------------------------------------------------------------
(* The audit trail.                                                        *)

\* One entry more on the trail of one account, together with its balance.
Extends(a, row) ==
    /\ audit' = [audit EXCEPT ![a] = Append(@, row)]
    /\ balance' = [balance EXCEPT ![a] = @ + row.delta]
    /\ row.after = balance[a] + row.delta

\* All a step may do to the trails and the balances.
JournalStep ==
    \/ UNCHANGED <<balance, audit>>
    \/ \E a \in Accounts, row \in AuditRow : Extends(a, row)

LEMMA BookJournals ==
    ASSUME TypeOK, NEW p \in Posting, NEW o, NEW b \in Int, Book(p, o, b)
    PROVE  JournalStep
<1> DEFINE row == [tx |-> Len(ledger) + 1, action |-> "CREATE", before |-> b,
                   delta |-> p.delta, after |-> balance[p.account] + p.delta]
<1>1. p.account \in Accounts /\ p.delta \in Int
  BY DEF Posting
<1>2. row \in AuditRow
  BY <1>1, BoundAssumption DEF TypeOK, Book, AuditRow, TxIds
<1>3. CASE p.paid
  <2>1. Extends(p.account, row)
    BY <1>3 DEF Book, Journal, BalanceAfter, Extends
  <2>2. QED
    BY <1>1, <1>2, <2>1 DEF JournalStep
<1>4. CASE ~p.paid
  BY <1>4 DEF Book, JournalStep
<1>5. QED
  BY <1>3, <1>4

LEMMA DeleteJournals ==
    ASSUME TypeInv, NEW r \in Requests, DeleteCommit(r)
    PROVE  JournalStep
<1> DEFINE t == req[r].tx
           p == ledger[t].posting
           row == [tx |-> t, action |-> "DELETE", before |-> req[r].before,
                   delta |-> -p.delta, after |-> balance[p.account] - p.delta]
<1>1. req[r] \in Delete /\ t \in DOMAIN ledger
  BY RequestKinds DEF TypeInv, TypeOK, DeletionsKnowTheirRow, DeleteCommit
<1>2. ledger[t] \in Transaction
  BY <1>1 DEF TypeInv, TypeOK
<1>3. p.account \in Accounts /\ p.delta \in Int /\ balance[p.account] \in Int
  BY <1>2 DEF Transaction, Posting, TypeInv, TypeOK
<1>4. row \in AuditRow
  BY <1>1, <1>3 DEF Delete, AuditRow
<1>5. CASE UNCHANGED <<balance, audit>>
  BY <1>5 DEF JournalStep
<1>6. CASE /\ balance' = [balance EXCEPT ![p.account] = @ - p.delta]
           /\ audit' = [audit EXCEPT ![p.account] = Append(@, row)]
  <2>1. balance' = [balance EXCEPT ![p.account] = @ + row.delta]
    BY <1>3, <1>6 DEF TypeInv, TypeOK
  <2>2. row.after = balance[p.account] + row.delta
    BY <1>3
  <2>3. Extends(p.account, row)
    BY <1>6, <2>1, <2>2 DEF Extends
  <2>4. QED
    BY <1>3, <1>4, <2>3 DEF JournalStep
<1>7. QED
  BY <1>5, <1>6 DEF DeleteCommit, Journal, BalanceAfter

LEMMA EveryStepJournals ==
    ASSUME TypeInv, [Next]_vars
    PROVE  JournalStep
<1>1. CASE UNCHANGED <<balance, audit>>
  BY <1>1 DEF JournalStep
<1>2. ASSUME NEW r \in Requests, ApproveCommit(r) PROVE JournalStep
  <2>1. req[r].movement \in Movements /\ req[r].before \in Int
    BY <1>2, RequestKinds DEF TypeInv, TypeOK, ApproveCommit, Approve
  <2>2. \/ UNCHANGED <<balance, audit>>
        \/ Book(ApprovalPosting(req[r].movement), req[r].movement, req[r].before)
    BY <1>2 DEF ApproveCommit
  <2>3. QED
    BY <1>1, <2>1, <2>2, BookJournals, ApprovalPostingTyped DEF TypeInv
<1>3. ASSUME NEW r \in Requests, CreateCommit(r) PROVE JournalStep
  <2>1. req[r].posting \in Posting /\ req[r].before \in Int
    BY <1>3, RequestKinds DEF TypeInv, TypeOK, CreateCommit, Create
  <2>2. QED
    BY <1>3, <2>1, BookJournals DEF TypeInv, CreateCommit
<1>4. ASSUME NEW r \in Requests, DeleteCommit(r) PROVE JournalStep
  BY <1>4, DeleteJournals
<1>5. CASE UNCHANGED vars
  BY <1>1, <1>5 DEF vars
<1>6. ASSUME NEW k \in Movements, Ingest(k) PROVE JournalStep
  BY <1>1, <1>6 DEF Ingest, books
<1>7. ASSUME NEW day \in Days, CloseBooks(day) PROVE JournalStep
  BY <1>1, <1>7 DEF CloseBooks, books
<1>8. ASSUME NEW r \in Requests, HandlerStep(r) PROVE JournalStep
  BY <1>1, <1>2, <1>3, <1>4, <1>8, StepKinds DEF RejectCommit, MergeCommit, books
<1>9. QED
  BY <1>5, <1>6, <1>7, <1>8 DEF Next

LEMMA ExtensionKeepsChain ==
    ASSUME TypeOK, AuditChain, NEW a \in Accounts, NEW row \in AuditRow, Extends(a, row)
    PROVE  AuditChain'
<1> DEFINE n == Len(audit[a])
<1>1. /\ audit \in [Accounts -> Seq(AuditRow)]
      /\ balance \in [Accounts -> Int]
      /\ row.delta \in Int /\ row.after \in Int
  BY DEF TypeOK, AuditRow
<1>2. \A c \in Accounts \ {a} : audit'[c] = audit[c] /\ balance'[c] = balance[c]
  BY <1>1 DEF Extends
<1>3. audit'[a] = Append(audit[a], row) /\ balance'[a] = row.after
  BY <1>1 DEF Extends
<1>4. /\ n \in Nat
      /\ DOMAIN audit[a] = 1..n
      /\ DOMAIN audit'[a] = 1..(n + 1)
      /\ Len(audit'[a]) = n + 1
      /\ \A i \in 1..n : audit'[a][i] = audit[a][i]
      /\ audit'[a][n + 1] = row
  BY <1>1, <1>3
<1> HIDE DEF n
<1>5. \A i \in 1..(n + 1) : PreviousAfter(a, i)' = PreviousAfter(a, i)
  BY <1>4 DEF PreviousAfter
<1>6. \A i \in 1..n : audit[a][i].after = PreviousAfter(a, i) + audit[a][i].delta
  BY <1>4 DEF AuditChain
<1>7. balance[a] = PreviousAfter(a, n + 1)
  BY DEF AuditChain, n
<1>8. \A i \in DOMAIN audit'[a] :
         audit'[a][i].after = PreviousAfter(a, i)' + audit'[a][i].delta
  <2> SUFFICES ASSUME NEW i \in 1..(n + 1)
               PROVE  audit'[a][i].after = PreviousAfter(a, i)' + audit'[a][i].delta
    BY <1>4
  <2>1. CASE i \in 1..n
    BY <1>4, <1>5, <1>6, <2>1
  <2>2. CASE i = n + 1
    BY <1>4, <1>5, <1>7, <2>2 DEF Extends
  <2>3. QED
    BY <1>4, <2>1, <2>2
<1>9. balance'[a] = PreviousAfter(a, Len(audit[a]) + 1)'
  BY <1>3, <1>4 DEF PreviousAfter
<1>10. ASSUME NEW c \in Accounts \ {a}
       PROVE  /\ \A i \in DOMAIN audit'[c] :
                    audit'[c][i].after = PreviousAfter(c, i)' + audit'[c][i].delta
              /\ balance'[c] = PreviousAfter(c, Len(audit[c]) + 1)'
  BY <1>2 DEF AuditChain, PreviousAfter
<1>11. QED
  BY <1>8, <1>9, <1>10 DEF AuditChain

LEMMA AuditChainStep == TypeInv /\ AuditChain /\ [Next]_vars => AuditChain'
<1> SUFFICES ASSUME TypeInv, AuditChain, [Next]_vars PROVE AuditChain'
  OBVIOUS
<1>1. CASE UNCHANGED <<balance, audit>>
  BY <1>1 DEF AuditChain, PreviousAfter
<1>2. ASSUME NEW a \in Accounts, NEW row \in AuditRow, Extends(a, row) PROVE AuditChain'
  BY <1>2, ExtensionKeepsChain DEF TypeInv
<1>3. QED
  BY <1>1, <1>2, EveryStepJournals DEF JournalStep

\* However the handlers interleave, the rows of an account's audit trail add up, one after
\* the other, to its balance.
THEOREM AuditTrailIsAChain == Spec => []AuditChain
<1>1. Init => AuditChain
  BY DEF Init, AuditChain, PreviousAfter
<1>2. QED
  BY <1>1, AuditChainStep, TypeInvariant, PTL DEF Spec

\* The handlers implement the journal contract.
THEOREM LedgerImplementsJournal == Spec => ChangesAreJournaled
<1>1. Init => Books!JInit
  BY DEF Init, Books!JInit, Journaled
<1>2. TypeInv /\ TypeInv' /\ [Next]_vars => [Books!JNext]_<<balance, Journaled>>
  <2> SUFFICES ASSUME TypeInv, TypeInv', [Next]_vars
               PROVE  [Books!JNext]_<<balance, Journaled>>
    OBVIOUS
  <2>1. CASE UNCHANGED <<balance, audit>>
    BY <2>1 DEF Journaled
  <2>2. ASSUME NEW a \in Accounts, NEW row \in AuditRow, Extends(a, row)
        PROVE  Books!JNext
    <3>1. /\ audit \in [Accounts -> Seq(AuditRow)] /\ audit' \in [Accounts -> Seq(AuditRow)]
          /\ balance \in [Accounts -> Int] /\ balance' \in [Accounts -> Int]
          /\ row.delta \in Int
      BY DEF TypeInv, TypeOK, AuditRow
    <3>2. \A c \in Accounts \ {a} : Books!Kept(c)
      BY <2>2, <3>1 DEF Extends, Books!Kept, Journaled
    <3>3. Books!Posted(a)
      <4>1. audit'[a] = Append(audit[a], row) /\ balance'[a] - balance[a] = row.delta
        BY <2>2, <3>1 DEF Extends
      <4>2. /\ Journaled[a] = [i \in DOMAIN audit[a] |-> audit[a][i].delta]
            /\ Journaled'[a] = [i \in DOMAIN audit'[a] |-> audit'[a][i].delta]
        BY DEF Journaled
      <4>3. Journaled'[a] = Append(Journaled[a], row.delta)
        BY <3>1, <4>1, <4>2
      <4>4. QED
        BY <4>1, <4>3 DEF Books!Posted
    <3>4. Journaled' \in [Accounts -> Seq(Int)]
      <4>1. ASSUME NEW c \in Accounts
            PROVE  [i \in DOMAIN audit'[c] |-> audit'[c][i].delta] \in Seq(Int)
        <5> DEFINE trail  == audit'[c]
                   deltas == [i \in DOMAIN trail |-> trail[i].delta]
        <5>1. trail \in Seq(AuditRow)
          BY <3>1
        <5> HIDE DEF trail
        <5>2. Len(trail) \in Nat /\ DOMAIN trail = 1..Len(trail)
          BY <5>1
        <5>3. \A i \in DOMAIN trail : trail[i].delta \in Int
          <6> SUFFICES ASSUME NEW i \in DOMAIN trail PROVE trail[i].delta \in Int
            OBVIOUS
          <6>1. trail[i] \in AuditRow
            BY <5>1
          <6>2. QED
            BY <6>1 DEF AuditRow
        <5>4. deltas \in [1..Len(trail) -> Int]
          BY <5>2, <5>3
        <5> HIDE DEF deltas
        <5>5. deltas \in Seq(Int)
          BY <5>2, <5>4
        <5>6. QED
          BY <5>5 DEF deltas, trail
      <4>2. QED
        BY <4>1 DEF Journaled
    <3>5. QED
      BY <3>1, <3>2, <3>3, <3>4 DEF Books!JNext
  <2>3. QED
    BY <2>1, <2>2, EveryStepJournals DEF JournalStep
<1>3. QED
  BY <1>1, <1>2, TypeInvariant, PTL DEF Spec, ChangesAreJournaled, Books!JSpec

-----------------------------------------------------------------------------
(* The balances.                                                           *)

\* The transactions that count are finitely many, and each counts with an integer.
LEMMA LivePaidTyped ==
    ASSUME TypeOK, NEW a \in Accounts
    PROVE  /\ IsFiniteSet(LivePaid(a))
           /\ LivePaid(a) \subseteq DOMAIN ledger
           /\ \A t \in DOMAIN ledger : Delta[t] = ledger[t].posting.delta /\ Delta[t] \in Int
<1>1. ledger \in Seq(Transaction) /\ DOMAIN ledger = 1..Len(ledger) /\ Len(ledger) \in Nat
  BY DEF TypeOK
<1>2. LivePaid(a) \subseteq DOMAIN ledger
  BY DEF LivePaid
<1>3. IsFiniteSet(LivePaid(a))
  <2>1. IsFiniteSet(1..Len(ledger))
    BY <1>1, FS_Interval
  <2>. QED
    BY <1>1, <1>2, <2>1, FS_Subset
<1>4. \A t \in DOMAIN ledger : ledger[t].posting.delta \in Int
  <2>1. \A t \in DOMAIN ledger : ledger[t] \in Transaction
    BY <1>1
  <2>. QED
    BY <2>1 DEF Transaction, Posting
<1>. QED
  BY <1>2, <1>3, <1>4 DEF Delta

\* A new transaction counts from the start if it is paid, and the balance moves by it.
LEMMA BookBalances ==
    ASSUME TypeOK, BalanceMatchesLedger, NEW p \in Posting, NEW o, NEW b, Book(p, o, b)
    PROVE  BalanceMatchesLedger'
<1>. DEFINE t == Len(ledger) + 1
<1>1. /\ DOMAIN ledger' = DOMAIN ledger \cup {t} /\ t \notin DOMAIN ledger
      /\ \A u \in DOMAIN ledger : ledger'[u] = ledger[u]
  BY BookAppends
<1>2. ledger'[t].posting = p /\ ledger'[t].live
  BY DEF TypeOK, Book
<1>3. p.account \in Accounts /\ p.delta \in Int /\ balance \in [Accounts -> Int]
  BY DEF Posting, TypeOK
<1>. HIDE DEF t
<1>. SUFFICES ASSUME NEW a \in Accounts
              PROVE  balance'[a] = InitialBalance[a] + SumFunctionOnSet(Delta', LivePaid(a)')
  BY DEF BalanceMatchesLedger
<1>. USE LivePaidTyped
<1>4. balance[a] = InitialBalance[a] + SumFunctionOnSet(Delta, LivePaid(a))
  BY DEF BalanceMatchesLedger
<1>5. /\ \A u \in LivePaid(a) : Delta'[u] = Delta[u]
      /\ \A u \in DOMAIN ledger : Delta'[u] \in Int
      /\ Delta'[t] = p.delta
  BY <1>1, <1>2 DEF Delta
<1>6. SumFunctionOnSet(Delta', LivePaid(a)) = SumFunctionOnSet(Delta, LivePaid(a))
  BY <1>5, SumSame
<1>7. CASE p.paid /\ p.account = a
  <2>1. LivePaid(a)' = LivePaid(a) \cup {t}
    BY <1>1, <1>2, <1>7 DEF LivePaid
  <2>2. \A u \in LivePaid(a) : Delta'[u] \in Int
    BY <1>5
  <2>3. SumFunctionOnSet(Delta', LivePaid(a)') = p.delta + SumFunctionOnSet(Delta', LivePaid(a))
    BY <1>1, <1>3, <1>5, <2>1, <2>2, SumWith
  <2>4. balance'[a] = balance[a] + p.delta
    BY <1>3, <1>7 DEF Book
  <2>5. SumFunctionOnSet(Delta, LivePaid(a)) \in Int
    BY SumType
  <2>6. InitialBalance[a] \in Int
    BY BalanceAssumption
  <2>. HIDE DEF LivePaid
  <2>. QED
    BY <1>3, <1>4, <1>6, <2>3, <2>4, <2>5, <2>6
<1>8. CASE ~ (p.paid /\ p.account = a)
  <2>1. LivePaid(a)' = LivePaid(a)
    BY <1>1, <1>2, <1>8 DEF LivePaid
  <2>2. balance'[a] = balance[a]
    BY <1>3, <1>8 DEF Book
  <2>. QED
    BY <1>4, <1>6, <2>1, <2>2
<1>. QED
  BY <1>7, <1>8

\* A transaction that goes takes what it counted with along.
LEMMA DeleteBalances ==
    ASSUME TypeInv, BalanceMatchesLedger, NEW r \in Requests, DeleteCommit(r)
    PROVE  BalanceMatchesLedger'
<1>. DEFINE t == req[r].tx
            p == ledger[t].posting
            gone == [ledger[t] EXCEPT !.live = FALSE]
<1>1. CASE UNCHANGED <<ledger, balance>>
  BY <1>1 DEF BalanceMatchesLedger, LivePaid, Delta
<1>2. CASE ~ UNCHANGED <<ledger, balance>>
  <2>1. /\ ledger \in Seq(Transaction) /\ t \in DOMAIN ledger
        /\ balance \in [Accounts -> Int]
    BY DEF TypeInv, TypeOK, DeletionsKnowTheirRow, DeleteCommit
  <2>2. ledger[t] \in Transaction
    BY <2>1
  <2>3. gone.posting = p /\ gone.live = FALSE /\ p.account \in Accounts /\ p.delta \in Int
    BY <2>2 DEF Transaction, Posting
  <2>4. /\ ledger[t].live /\ ledger' = [ledger EXCEPT ![t] = gone]
        /\ balance' = IF p.paid THEN [balance EXCEPT ![p.account] = @ - p.delta] ELSE balance
    BY <1>2 DEF DeleteCommit, RowExists
  <2>. HIDE DEF gone, p, t
  <2>5. /\ DOMAIN ledger' = DOMAIN ledger
        /\ \A u \in DOMAIN ledger : ledger'[u].posting = ledger[u].posting
        /\ \A u \in DOMAIN ledger : ledger'[u].live <=> ledger[u].live /\ u # t
    BY <2>1, <2>3, <2>4 DEF p
  <2>. SUFFICES ASSUME NEW a \in Accounts
                PROVE  balance'[a] = InitialBalance[a] + SumFunctionOnSet(Delta', LivePaid(a)')
    BY DEF BalanceMatchesLedger
  <2>6. /\ IsFiniteSet(LivePaid(a)) /\ LivePaid(a) \subseteq DOMAIN ledger
        /\ \A u \in DOMAIN ledger : Delta[u] \in Int
    BY LivePaidTyped DEF TypeInv
  <2>7. balance[a] = InitialBalance[a] + SumFunctionOnSet(Delta, LivePaid(a))
    BY DEF BalanceMatchesLedger
  <2>8. Delta' = Delta
    BY <2>5 DEF Delta
  <2>9. LivePaid(a)' = LivePaid(a) \ {t}
    BY <2>5 DEF LivePaid
  <2>10. CASE p.paid /\ p.account = a
    <3>1. t \in LivePaid(a) /\ Delta[t] = p.delta
      BY <2>1, <2>4, <2>10 DEF LivePaid, Delta, p
    <3>2. SumFunctionOnSet(Delta, LivePaid(a)) = p.delta + SumFunctionOnSet(Delta, LivePaid(a) \ {t})
      BY <2>6, <3>1, SumWithout
    <3>3. balance'[a] = balance[a] - p.delta
      BY <2>1, <2>3, <2>4, <2>10
    <3>4. SumFunctionOnSet(Delta, LivePaid(a) \ {t}) \in Int
      BY <2>6, FS_Subset, SumType
    <3>5. InitialBalance[a] \in Int
      BY BalanceAssumption
    <3>. QED
      BY <2>3, <2>7, <2>8, <2>9, <3>2, <3>3, <3>4, <3>5
  <2>11. CASE ~ (p.paid /\ p.account = a)
    <3>1. LivePaid(a) \ {t} = LivePaid(a)
      BY <2>11 DEF LivePaid, p
    <3>2. balance'[a] = balance[a]
      BY <2>1, <2>3, <2>4, <2>11
    <3>. QED
      BY <2>7, <2>8, <2>9, <3>1, <3>2
  <2>. QED
    BY <2>10, <2>11
<1>. QED
  BY <1>1, <1>2

LEMMA BalanceStep == TypeInv /\ BalanceMatchesLedger /\ [Next]_vars => BalanceMatchesLedger'
<1>. SUFFICES ASSUME TypeInv, BalanceMatchesLedger, [Next]_vars PROVE BalanceMatchesLedger'
  OBVIOUS
<1>1. CASE UNCHANGED <<ledger, balance>>
  BY <1>1 DEF BalanceMatchesLedger, LivePaid, Delta
<1>2. ASSUME NEW r \in Requests, ApproveCommit(r) PROVE BalanceMatchesLedger'
  <2>1. ApprovalPosting(req[r].movement) \in Posting
    BY <1>2, RequestKinds, ApprovalPostingTyped DEF TypeInv, TypeOK, ApproveCommit, Approve
  <2>. QED
    BY <1>1, <1>2, <2>1, BookBalances DEF TypeInv, ApproveCommit
<1>3. ASSUME NEW r \in Requests, CreateCommit(r) PROVE BalanceMatchesLedger'
  <2>1. req[r].posting \in Posting
    BY <1>3, RequestKinds DEF TypeInv, TypeOK, CreateCommit, Create
  <2>. QED
    BY <1>3, <2>1, BookBalances DEF TypeInv, CreateCommit
<1>4. ASSUME NEW r \in Requests, HandlerStep(r) PROVE BalanceMatchesLedger'
  BY <1>1, <1>2, <1>3, <1>4, StepKinds, DeleteBalances DEF RejectCommit, MergeCommit, books
<1>. QED
  BY <1>1, <1>4 DEF Next, Ingest, CloseBooks, books, vars

\* However approvals, creations and deletions interleave, fail or are repeated, an account's
\* balance is its opening balance plus the paid transactions that still exist, as
\* scripts/reconcile_account_balances.sql computes it.
THEOREM BalancesAddUp == Spec => []BalanceMatchesLedger
<1>1. Init => BalanceMatchesLedger
  <2>. SUFFICES ASSUME Init, NEW a \in Accounts
                PROVE  balance[a] = InitialBalance[a] + SumFunctionOnSet(Delta, LivePaid(a))
    BY DEF BalanceMatchesLedger
  <2>1. LivePaid(a) = {}
    BY DEF Init, LivePaid
  <2>2. balance[a] = InitialBalance[a] /\ InitialBalance[a] \in Int
    BY BalanceAssumption DEF Init
  <2>. QED
    BY <2>1, <2>2, SumOfNone
<1>. QED
  BY <1>1, BalanceStep, TypeInvariant, PTL DEF Spec

-----------------------------------------------------------------------------
(* Closed books.                                                           *)

SamePostings ==
    \A t \in DOMAIN ledger : t \in DOMAIN ledger' /\ ledger'[t].posting = ledger[t].posting

LEMMA PostingsStay == TypeInv /\ [Next]_vars => SamePostings
<1> SUFFICES ASSUME TypeInv, [Next]_vars PROVE SamePostings
  OBVIOUS
<1>1. CASE UNCHANGED ledger
  BY <1>1 DEF SamePostings
<1>2. ASSUME NEW p \in Posting, NEW o, NEW b, Book(p, o, b) PROVE SamePostings
  BY <1>2, BookAppends DEF SamePostings, TypeInv
<1>3. ASSUME NEW r \in Requests, ApproveCommit(r) PROVE SamePostings
  <2>1. ApprovalPosting(req[r].movement) \in Posting
    BY <1>3, RequestKinds, ApprovalPostingTyped DEF TypeInv, TypeOK, ApproveCommit, Approve
  <2>2. QED
    BY <1>1, <1>2, <1>3, <2>1 DEF ApproveCommit
<1>4. ASSUME NEW r \in Requests, CreateCommit(r) PROVE SamePostings
  <2>1. req[r].posting \in Posting
    BY <1>4, RequestKinds DEF TypeInv, TypeOK, CreateCommit, Create
  <2>2. QED
    BY <1>2, <1>4, <2>1 DEF CreateCommit
<1>5. ASSUME NEW r \in Requests, DeleteCommit(r) PROVE SamePostings
  <2> DEFINE t    == req[r].tx
             gone == [ledger[t] EXCEPT !.live = FALSE]
  <2>1. ledger \in Seq(Transaction) /\ t \in DOMAIN ledger
    BY <1>5 DEF TypeInv, TypeOK, DeletionsKnowTheirRow, DeleteCommit
  <2>2. gone.posting = ledger[t].posting
    BY <2>1 DEF Transaction
  <2>3. ledger' = ledger \/ ledger' = [ledger EXCEPT ![t] = gone]
    BY <1>5 DEF DeleteCommit, Journal, BalanceAfter
  <2> HIDE DEF gone, t
  <2>4. QED
    BY <2>1, <2>2, <2>3 DEF SamePostings
<1>6. ASSUME NEW r \in Requests, HandlerStep(r) PROVE SamePostings
  BY <1>1, <1>3, <1>4, <1>5, <1>6, StepKinds DEF RejectCommit, MergeCommit, books
<1>7. QED
  BY <1>1, <1>6 DEF Next, Ingest, CloseBooks, books, vars

\* What request x is after a step of its own: done, on its way to its guard, or let through it.
Harmless(q) == ReadyToWrite(q) /\ ~ q.exempt => ~ Closed(PostingOf(q).date)

LEMMA OwnStepIsHarmless ==
    ASSUME TypeInv, NEW x \in Requests, HandlerStep(x)
    PROVE  /\ \A r \in Requests \ {x} : req'[r] = req[r]
           /\ ~ LateWriter(x)'
<1> DEFINE Goal == (\A r \in Requests \ {x} : req'[r] = req[r]) /\ ~ LateWriter(x)'
<1>1. CASE Finish(x)
  <2>1. req' = [req EXCEPT ![x] = Idle] /\ Idle \in RequestState
    BY <1>1 DEF Finish, RequestState
  <2>2. req'[x] = Idle /\ \A r \in Requests \ {x} : req'[r] = req[r]
    BY <2>1, SetTyped
  <2>3. QED
    BY <2>2 DEF LateWriter, ReadyToWrite, Idle
<1>2. ASSUME NEW q, req' = [req EXCEPT ![x] = q], ~ ReadyToWrite(q)
      PROVE  Goal
  <2>1. req'[x] = q /\ \A r \in Requests \ {x} : req'[r] = req[r]
    BY <1>2 DEF TypeInv, TypeOK
  <2>2. QED
    BY <1>2, <2>1 DEF LateWriter, ReadyToWrite
<1>3. ASSUME NEW m, StartApproval(x, m) \/ StartRejection(x, m) \/ OcrConfirm(x, m) PROVE Goal
  <2> DEFINE approve == [op |-> "approve", step |-> "guard", movement |-> m,
                         exempt |-> FALSE, before |-> 0]
             reject  == [op |-> "reject", movement |-> m]
             confirm == [op |-> "confirm", movement |-> m]
  <2>1. \/ req' = [req EXCEPT ![x] = approve]
        \/ req' = [req EXCEPT ![x] = reject]
        \/ req' = [req EXCEPT ![x] = confirm]
    BY <1>3 DEF StartApproval, StartRejection, OcrConfirm
  <2>2. ~ ReadyToWrite(approve) /\ ~ ReadyToWrite(reject) /\ ~ ReadyToWrite(confirm)
    BY DEF ReadyToWrite
  <2> HIDE DEF approve, reject, confirm
  <2>3. QED
    BY <1>2, <2>1, <2>2
<1>4. ASSUME NEW keep, NEW discards, MergeRead(x, keep, discards) PROVE Goal
  <2> DEFINE q == [op |-> "merge", keep |-> keep, discards |-> discards,
                   sources |-> UNION {movement[m].sources : m \in discards \cup {keep}}]
  <2>1. req' = [req EXCEPT ![x] = q]
    BY <1>4 DEF MergeRead
  <2>2. ~ ReadyToWrite(q)
    BY DEF ReadyToWrite
  <2> HIDE DEF q
  <2>3. QED
    BY <1>2, <2>1, <2>2
<1>5. ASSUME NEW t, DeleteRead(x, t) PROVE Goal
  <2> DEFINE q == [op |-> "delete", step |-> "guard", tx |-> t, exempt |-> FALSE, before |-> 0]
  <2>1. req' = [req EXCEPT ![x] = q]
    BY <1>5 DEF DeleteRead
  <2>2. ~ ReadyToWrite(q)
    BY DEF ReadyToWrite
  <2> HIDE DEF q
  <2>3. QED
    BY <1>2, <2>1, <2>2
<1>6. ASSUME NEW q, req' = [req EXCEPT ![x] = q], UNCHANGED <<ledger, closedUntil>>, Harmless(q)
      PROVE  Goal
  <2>1. req'[x] = q /\ \A r \in Requests \ {x} : req'[r] = req[r]
    BY <1>6 DEF TypeInv, TypeOK
  <2>2. QED
    BY <1>6, <2>1 DEF LateWriter, ReadyToWrite, Harmless, Closed, PostingOf
<1>7. ASSUME NEW role, ApproveGuard(x, role), ~ Finish(x) PROVE Goal
  <2> DEFINE q == [req[x] EXCEPT !.step = "commit", !.exempt = Bypass(role),
                                 !.before = balance[Statement[req[x].movement].account]]
  <2>1. req[x] \in Approve
    BY <1>7, RequestKinds DEF TypeInv, TypeOK, ApproveGuard
  <2>2. /\ req' = [req EXCEPT ![x] = q] /\ UNCHANGED <<ledger, closedUntil>>
        /\ Open(Statement[req[x].movement].date, role)
    BY <1>7 DEF ApproveGuard, books
  <2>3. q.op = "approve" /\ q.exempt = Bypass(role) /\ q.movement = req[x].movement
    BY <2>1 DEF Approve
  <2> HIDE DEF q
  <2>4. PostingOf(q).date = Statement[req[x].movement].date
    BY <2>3 DEF PostingOf, ApprovalPosting
  <2>5. Harmless(q)
    BY <2>2, <2>3, <2>4 DEF Harmless, Open
  <2>6. QED
    BY <1>6, <2>2, <2>5
<1>8. ASSUME NEW role, DeleteGuard(x, role), ~ Finish(x) PROVE Goal
  <2> DEFINE q == [req[x] EXCEPT !.step = "commit", !.exempt = Bypass(role),
                                 !.before = balance[ledger[req[x].tx].posting.account]]
  <2>1. req[x] \in Delete
    BY <1>8, RequestKinds DEF TypeInv, TypeOK, DeleteGuard
  <2>2. /\ req' = [req EXCEPT ![x] = q] /\ UNCHANGED <<ledger, closedUntil>>
        /\ Open(ledger[req[x].tx].posting.date, role)
    BY <1>8 DEF DeleteGuard, books
  <2>3. q.op = "delete" /\ q.exempt = Bypass(role) /\ q.tx = req[x].tx
    BY <2>1 DEF Delete
  <2> HIDE DEF q
  <2>4. PostingOf(q) = ledger[req[x].tx].posting
    BY <2>3 DEF PostingOf
  <2>5. Harmless(q)
    BY <2>2, <2>3, <2>4 DEF Harmless, Open
  <2>6. QED
    BY <1>6, <2>2, <2>5
<1>9. ASSUME NEW posting, NEW role, CreateGuard(x, posting, role) PROVE Goal
  <2> DEFINE q == [op |-> "create", posting |-> posting, exempt |-> Bypass(role),
                   before |-> balance[posting.account]]
  <2>1. /\ req' = [req EXCEPT ![x] = q] /\ UNCHANGED <<ledger, closedUntil>>
        /\ Open(posting.date, role)
    BY <1>9 DEF CreateGuard, books
  <2>2. PostingOf(q) = posting /\ q.exempt = Bypass(role)
    BY DEF PostingOf
  <2> HIDE DEF q
  <2>3. Harmless(q)
    BY <2>1, <2>2 DEF Harmless, Open
  <2>4. QED
    BY <1>6, <2>1, <2>3
<1>10. CASE ApproveMovement(x)
  BY <1>1, <1>3, <1>7, <1>10 DEF ApproveMovement, ApproveRead, ApproveCommit
<1>11. CASE RejectMovement(x) \/ MergeMovements(x)
  BY <1>1, <1>3, <1>4, <1>11
  DEF RejectMovement, MergeMovements, RejectRead, RejectCommit, MergeCommit
<1>12. CASE OcrDecision(x)
  BY <1>1, <1>3, <1>12 DEF OcrDecision, OcrCancel, OcrApprove, OcrTooLate
<1>13. CASE CreateTransaction(x)
  BY <1>1, <1>9, <1>13 DEF CreateTransaction, CreateCommit
<1>14. CASE DeleteTransaction(x)
  BY <1>1, <1>5, <1>8, <1>14 DEF DeleteTransaction, DeleteCommit
<1>15. QED
  BY <1>1, <1>10, <1>11, <1>12, <1>13, <1>14 DEF HandlerStep, Abort

LEMMA WaitingStaysHarmless ==
    ASSUME TypeInv, SamePostings, closedUntil' = closedUntil, NEW r \in Requests,
           req'[r] = req[r], LateWriter(r)'
    PROVE  LateWriter(r)
<1>1. CASE req[r].op = "delete"
  <2>1. req[r].tx \in DOMAIN ledger
    BY <1>1 DEF TypeInv, DeletionsKnowTheirRow
  <2>2. QED
    BY <1>1, <2>1 DEF LateWriter, ReadyToWrite, Closed, PostingOf, SamePostings
<1>2. CASE req[r].op # "delete"
  BY <1>2 DEF LateWriter, ReadyToWrite, Closed, PostingOf, ApprovalPosting
<1>3. QED
  BY <1>1, <1>2

LEMMA ClosedBooksStep ==
    TypeInv /\ [Next]_vars =>
        (closedUntil' = closedUntil => \A r \in Requests : LateWriter(r)' => LateWriter(r))
<1> SUFFICES ASSUME TypeInv, [Next]_vars, closedUntil' = closedUntil,
                    NEW r \in Requests, LateWriter(r)'
             PROVE  LateWriter(r)
  OBVIOUS
<1>1. SamePostings
  BY PostingsStay
<1>2. CASE UNCHANGED req
  BY <1>1, <1>2, WaitingStaysHarmless
<1>3. ASSUME NEW x \in Requests, HandlerStep(x) PROVE LateWriter(r)
  BY <1>1, <1>3, OwnStepIsHarmless, WaitingStaysHarmless
<1>4. QED
  BY <1>2, <1>3 DEF Next, Ingest, CloseBooks, vars

\* While the end of the closed period stays where it is, no approval, creation or deletion is
\* let through to a date in it.
THEOREM ClosedPeriodsStayClosed == Spec => ClosedBooksAdmitNobody
BY ClosedBooksStep, TypeInvariant, PTL DEF Spec, ClosedBooksAdmitNobody
===============================================================================
