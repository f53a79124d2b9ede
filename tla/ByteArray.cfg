\* Blocks of 1, 2 and 3 bytes; bytes of 2 bits, integers of 4 and 6.
CONSTANTS
    Bases = {1, 2, 3}
    ByteBits = 2
    Bits32 = 4
    Bits64 = 6
    Ints <- MCInts
    Strings <- MCStrings
    MaxSize = 5
    MaxOps = 4
    Junk = Junk
SPECIFICATION Spec
INVARIANTS CurIsPosition  TypedRoundTrip
PROPERTIES BulkExact FlatSpec
CHECK_DEADLOCK FALSE
