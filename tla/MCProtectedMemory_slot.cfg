\* Two harts of eight bytes, two accesses.
SPECIFICATION Spec
CONSTANTS
    MEM_SIZE = 23
    HART_SLOT_BASE = 4
    HART_SLOT_SIZE = 8
    MAX_HARTS = 2
    STACK_SIZE = 4
    B = 4
    Programs <- MCPrograms
    Values <- MCValues
    Addresses <- MCAddresses
    MaxString = 3
    MaxFiles = 3
    MaxAccesses = 2
PROPERTIES OwnSlotOnly
