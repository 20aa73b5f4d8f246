\* Labels at the ends of a branch's reach.
SPECIFICATION Spec
CONSTANTS
    Lines <- FarLines
    Odd <- OddStems
    baseAddr = 65536
    MaxLines = 4
INVARIANTS BranchesReachLabels
