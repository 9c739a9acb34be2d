SPECIFICATION Spec
CONSTANTS
    a1 = a1
    a2 = a2
    c1 = c1
    Admins = {a1, a2}
    Calls = {c1}
    ClientIds = {"stand", "shop"}
    Secrets = {"old", "new"}
    Known <- MCKnown
    Bodies <- MCBodies
    MaxInstances = 2
    MaxRequests = 2
    MaxAttempts = 2
    TokenLife = 2
    MaxCall = 1
SYMMETRY Symmetry
INVARIANTS
    TypeOK
    MirrorFollows
    CredentialsTested
    TokensExpire
CHECK_DEADLOCK FALSE
