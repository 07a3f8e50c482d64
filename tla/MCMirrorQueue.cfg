SPECIFICATION QueueSpec
CONSTANTS
    MaxWrites = 2
    MaxCalls = 2
    MaxTrouble = 2
INVARIANTS NoLostWakeup
PROPERTY EventuallyMirrored
