SPECIFICATION CacheSpec
CONSTANTS
    Accountants = {a1}
    Workspaces = {w1, w2}
    Calls = {c1, c2}
    BatchSize = 1
    MaxChanges = 1
    MaxRequests = 1
    MaxFaults = 1
INVARIANTS RefusedForCause OnlyMyClients
PROPERTY Converges
