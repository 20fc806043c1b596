SPECIFICATION Spec
CONSTANTS
    m1 = m1
    m2 = m2
    m3 = m3
    r1 = r1
    r2 = r2
    a1 = a1
    Requests = {r1, r2}
    Movements = {m1, m2}
    Accounts = {a1}
    Manual = Manual
    Statement <- MCStatement
    InitialBalance <- MCInitialBalance
    Amounts <- MCAmounts
    Days = {1}
    Business = TRUE
    MaxTransactions = 2
SYMMETRY Symmetry
INVARIANTS
    BalanceMatchesLedger
    AuditChain
    BookedOnce
    ApprovedIsBooked
PROPERTIES
    DiscardedIsNeverBooked
    ClosedBooksAdmitNobody
    ChangesAreJournaled
CHECK_DEADLOCK FALSE
