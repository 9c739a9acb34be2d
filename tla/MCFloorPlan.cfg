\* Two requests of the integration page and one builder on one plan.
SPECIFICATION PlanSpec
CONSTANTS
    i1 = i1
    i2 = i2
    b1 = b1
    Configs = {"plan"}
    Levels <- MCLevels
    Height <- MCHeight
    MaxElements = 2
    Locations = {"bar"}
    Integrators = {i1, i2}
    Builders = {b1}
    MaxRetries = 1
    MaxRequests = 4
    MaxEdits = 1
SYMMETRY Symmetry
INVARIANTS
    PlanTypeOK
    
    SaveSettles
PROPERTIES
    MappingsKept
CHECK_DEADLOCK FALSE
