SPECIFICATION Spec
CONSTANTS
    a = a
    b = b
    c = c
    None = None
    Procs <- TwoProcs
    Calls <- ClearCalls
    SIZE = 1
    MaxCount = 1
    Byte = {1}
INVARIANTS  RoomWakesWriter
