\* Two requests on one ingredient, two components and one menu item.
SPECIFICATION RecipeSpec
CONSTANTS
    x1 = x1
    x2 = x2
    Ingredients = {"tomato"}
    Components = {"sauce", "base"}
    Items = {"pizza"}
    Catalogues <- MCCatalogues
    Legacy <- MCLegacy
    Costs = {1, 2}
    Clients = {x1, x2}
    MaxRequests = 3
SYMMETRY Symmetry
INVARIANTS
    RecipeTypeOK
    StoredCostIsCurrent
CHECK_DEADLOCK FALSE
