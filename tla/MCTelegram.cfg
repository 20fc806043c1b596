SPECIFICATION Spec
CONSTANTS
    t1 = t1
    t2 = t2
    k1 = k1
    k2 = k2
    bia = bia
    chat1 = chat1
    chat2 = chat2
    ws = ws
    Requests = {t1, t2}
    Users = {bia}
    Chats = {chat1, chat2}
    Workspaces = {ws}
    None = None
    Codes = {k1, k2}
    MaxLinks = 2
    MaxDests = 2
    MaxReceipts = 1
SYMMETRY Symmetry
INVARIANTS
    CodeLinksOnce
    ReceiptsStayInTheLink
PROPERTIES
    NonMembersFileNothing
