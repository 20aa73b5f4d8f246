\* Labels defined and used in every order.
SPECIFICATION Spec
CONSTANTS
    Lines <- MCLines
    Odd <- OddStems
    baseAddr = 65536
    MaxLines = 4
INVARIANTS TypeOK LabelsResolved VerdictExact OthersKept
