SPECIFICATION Spec
CONSTANTS
    g1 = g1
    g2 = g2
    a1 = a1
    a2 = a2
    build = build
    NoRecipe = NoRecipe
    None = None
    GrantIds <- MCGrantIds
    ActionIds <- MCActionIds
    Recipes <- MCRecipes
    MaxUses = 2
    Ttl = 2
    MaxTime = 3
INVARIANTS
    TypeOK
    NoReplay
    UsesAreDurable
PROPERTY ImplementsCapability
