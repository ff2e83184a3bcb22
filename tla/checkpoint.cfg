SPECIFICATION Spec
CONSTANTS
    Path = {p1}
    VcpuCount = 2
    RegionCount = 2
    RamRegions = {2}
    Val = {0, 1}
    Blocks = {1, 2, 3, 4, 5, 6, 7}
    NoFile = NoFile
    None = None
INVARIANTS TypeOK VcpuRoundTrip NoStreamLeak
PROPERTIES CallEnds
