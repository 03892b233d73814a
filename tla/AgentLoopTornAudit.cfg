SPECIFICATION Spec
CONSTANTS
    MaxTurns = 4
    MaxToolCalls = 2
    MaxRepeated = 2
    MaxFailures = 1
    MaxUses = 2
    MaxPending = 2
INVARIANT AuditStaysReadable
