SPECIFICATION Spec
CONSTANTS
    Atoms <- MCAtoms
    Names <- MCPaths
    Paths <- MCPaths
    NameOrder <- MCOrder
    PathOrder <- MCOrder
    Ignore = ".gitignore"
    Contents <- MCUnmarked
    Inodes <- MCInodes
    Ignored <- MCIgnored
    MaxFiles = 2
    MaxEdits = 0
    Context = 1
    Proposals <- MCEdits
    MaxPatches = 1
INVARIANT Reproduces
CHECK_DEADLOCK FALSE
