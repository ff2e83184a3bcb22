SPECIFICATION Spec
CONSTANTS
    Path = {p1}
    VcpuCount = 1
    RegionCount = 1
    RamRegions = {1}
    Val = {0, 1}
    Blocks = {1, 4, 7}
    NoFile = NoFile
    None = None
INVARIANT FileFormat
