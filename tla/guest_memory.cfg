SPECIFICATION Spec
CONSTANTS
    VM = {v1, v2}
    MaxFrame = 12
    Fanout = 4
    EntriesPerPage = 2
    GuestPages = {0, 1, 2, 64, 65}
    Sizes = {3}
    MaxRegions = 2
    MaxUnmapped = 1
    LargeHost = 16
    Absent = Absent
    Released = Released
SYMMETRY VmSymmetry
INVARIANTS TypeOK 
PROPERTIES RefinesAddressSpaces
CHECK_DEADLOCK FALSE
