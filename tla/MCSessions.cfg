SPECIFICATION SSpec
CONSTANTS
    Users = {alice}
    Requests = {r1, r2}
    Codes = {c1, c2}
    MaxTokens = 3
    MaxPasswords = 2
SYMMETRY Symmetry
INVARIANTS SurvivorsOverlapped RotationKeepsOne
