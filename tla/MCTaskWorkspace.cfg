SPECIFICATION Spec
CONSTANTS
    Atoms <- MCAtoms
    Names <- MCPaths
    Paths <- MCPaths
    NameOrder <- MCOrder
    PathOrder <- MCOrder
    Ignore = ".gitignore"
    Contents <- MCContents
    Inodes <- MCInodes
    Ignored <- MCIgnored
    MaxFiles = 2
    MaxEdits = 2
    Context = 1
    Proposals <- MCProposals
    MaxPatches = 3
INVARIANTS
    TypeOK
    CopiedWhole
    IgnoredStaysOut
    EveryLineAccounted
    AppliesAsWritten
    ExportReproduces
CHECK_DEADLOCK FALSE
