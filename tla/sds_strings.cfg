\* One string, any sequence of calls.
CONSTANTS
    a = a  b = b  NUL = NUL  Junk = Junk
    Byte = {a, b, NUL}
    MaxLen <- Lengths
    MaxPrealloc = 4
    StaticBuf = 3
    Args <- Strings
    Seps <- Separators
    Positions <- SomePositions
    MaxString = 5
SPECIFICATION Spec
INVARIANTS TypeOK Represents RoomAsPromised SplitJoin
