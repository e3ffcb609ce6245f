SPECIFICATION Spec
CONSTANTS
    a = a
    b = b
    c = c
    None = None
    Procs <- TwoProcs
    Calls <- DataCalls
    SIZE = 3
    MaxCount = 2
    Byte = {1, 2}
INVARIANTS TypeOK IInv
PROPERTIES ImplementsFifo
