\* Command lines of up to four arguments.
SPECIFICATION Spec
CONSTANTS
    MEM_SIZE = 23
    HART_SLOT_BASE = 4
    HART_SLOT_SIZE = 8
    MAX_HARTS = 2
    STACK_SIZE = 4
    Args <- MCArgs
    stoi <- MCStoi
    Assembled <- MCAssembled
    Throwing = {"x.asm"}
    MaxArgs = 4
INVARIANTS ArgumentsAccounted RunsWhatFits
