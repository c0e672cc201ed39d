SPECIFICATION Spec
CONSTANTS
    MAX_CONFIGS = 4
    Lines <- SomeLines
    MaxLines = 5
    Width16 = 65536
    Width32 = 1048576
INVARIANTS
    TypeOK
    AsWritten
    LastIsDark
    ReadIfReadable
    VlcDecodesLogin
CHECK_DEADLOCK FALSE
