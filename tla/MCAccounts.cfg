SPECIFICATION Spec
CONSTANTS
    Byte = {0, 1, 2}
    Number = {0, 1}
    Slot = {0, 1}
    Modes = {"Mirrored", "Delegated", "Undelegating"}
    MaxLen = 4
    Chunk <- MCChunk
    ALIGNMENT = 2
    MAX_DATA_CHUNK_SIZE = 2
    Target <- MCTarget
    MaxOps = 3
    r1 = r1
    r2 = r2
    Reader <- MCReader
    Words = 2
    MaxWrites = 3
    MaxReads = 1
    MaxReuse = 1
SYMMETRY MCSymmetry
INVARIANTS
    ChangesAreRecorded
PROPERTIES
    ReadsAreCommitted
    BehavesAsPlainAccount
CHECK_DEADLOCK FALSE
