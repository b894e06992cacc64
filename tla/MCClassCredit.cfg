SPECIFICATION ClassSpec
CONSTANTS
    NumShards = 2
    ClassSize = 2
    SlotLimit = 2
    Capacities = {1, 2, 3}
    Targets = {0, 3, 7, 10}
    Generations = {0, 3}
    MaxGeneration = 3
INVARIANTS CreditWithinTargets GenerationMarksCredit
PROPERTY RetainJustified
