SPECIFICATION Spec
CONSTANTS
    MaxCalls = 3
    MaxFaults = 1
    MaxBoots = 3
    Times = {0, 1, 2, 3}
INVARIANTS CreatedStays DeletedIsGone
PROPERTIES StartedIsUp CallsEnd Converges
