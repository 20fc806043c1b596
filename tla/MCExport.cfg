SPECIFICATION ExportSpec
CONSTANTS
    m1 = m1
    Absent = Absent
    Txns = {t1, t2}
    Macros = {m1}
    Requests = {r1}
    Keys = {k1, k2}
    TxnRows <- MCTxnRows
    ConfigRows <- MCConfigRows
    MappingRows <- MCMappingRows
    Periods <- MCPeriods
    MaxEdits = 1
    MaxFaults = 1
SYMMETRY Symmetry
INVARIANTS FileIsComplete ValidatedGenerates ArchivedIsStored
