SPECIFICATION PersistentDiscard
CONSTANTS
    a1 = a1
    a2 = a2
    build = build
    NoRecipe = NoRecipe
    None = None
    ActionIds <- MCActionIds
    Recipes <- MCRecipes
    MaxGenerations = 2
    MaxEffects = 2
CHECK_DEADLOCK FALSE
INVARIANTS
    TypeOK
    AtMostOnce
    OutcomesTruthful
    GenerationsAccounted
    NoSilentLoss
    ExportCoversRecord
    DiscardedIsClean
PROPERTIES
    NoEffectForgotten
    SessionEnds
    DiscardConverges
