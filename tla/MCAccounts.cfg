\* Two requests at a time about the people of one or two organisations.
SPECIFICATION Spec
CONSTANTS
    c1 = c1
    c2 = c2
    Clients = {c1, c2}
    Tenants = {"club", "arena"}
    First = "club"
    Emails = {"ann", "bob"}
    Founder = "ann"
    None = None
    MaxIds = 4
    MaxRequests = 4
    MaxFaults = 1
SYMMETRY Symmetry
INVARIANTS
    RowsHaveAccounts
    NoOrphans
    MembershipFollowsRow
PROPERTIES
    OwnersStay
CHECK_DEADLOCK FALSE
