SPECIFICATION FairAllocation
CONSTANTS
    NumChildren = 3
    MaxWord = 15
    Parents = {0, 3, 8, 15}
    Bases = {1, 10}
    Minimums = {0, 2}
    Maximums = {0, 4}
    Scores = {0, 3, 15}
INVARIANTS BoundsKept AssignsParent ScoresComeFirst
PROPERTY Terminates
