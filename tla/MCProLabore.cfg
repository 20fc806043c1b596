SPECIFICATION Spec
CONSTANTS
    c1 = c1
    c2 = c2
    s1 = s1
    f1 = f1
    pj = pj
    pf = pf
    Callers = {c1, c2}
    Fresh = {f1}
    Workspaces = {pj, pf}
    Schedules = {s1}
    Closable = {pj, pf}
    Keyed <- MCKeyed
    Terms <- MCTerms
    InitialBalance <- MCInitialBalance
    DayOfMonth <- MCDayOfMonth
    MonthDays <- MCMonthDays
    MaxDeletions = 1
SYMMETRY Symmetry
INVARIANTS
    CompletedWasTransferred
    MoneyMatchesLegs
PROPERTIES
    SettledStaysSettled
    TransfersAreJournaled
