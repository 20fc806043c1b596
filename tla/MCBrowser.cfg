SPECIFICATION BSpec
CONSTANTS
    b1 = b1
    b2 = b2
    k1 = k1
    k2 = k2
    Users = {alice}
    Requests = {b1, b2}
    Tabs = {b1, b2}
    Codes = {c1}
    Calls <- MCCalls
    MaxTokens = 5
    MaxPasswords = 1
INVARIANT SessionSurvives
PROPERTY CallsSettle
CHECK_DEADLOCK FALSE
