\* Two requests on one item of two products, two spaces and one location.
SPECIFICATION Spec
CONSTANTS
    x1 = x1
    x2 = x2
    Items = {"beer"}
    Products = {"lager", "ale"}
    Spaces = {"stadium", "arena"}
    Locations = {"bar"}
    Prices = {1, 2}
    Paid = {2}
    Shown = {2}
    Sheets <- MCSheets
    Catalogue <- MCCatalogue
    Chunk = 1
    Faults = TRUE
    Clients = {x1, x2}
    MaxRequests = 3
    MaxSales = 1
SYMMETRY Symmetry
INVARIANTS
    TypeOK
    PricesAreArchived
    MappedItemsAreShown
PROPERTIES
    OnlyAskedPricesMove
CHECK_DEADLOCK FALSE
