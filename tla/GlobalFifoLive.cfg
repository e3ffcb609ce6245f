SPECIFICATION FairClientSpec
CONSTANTS
    a = a
    b = b
    None = None
    Procs <- TwoProcs
    Calls <- LiveCalls
    Programs <- LivePrograms
    SIZE = 1
    MaxCount = 1
    Byte = {1}
PROPERTIES SignalEndsCall NonblockReturns BytesWakeReader ProgramsHear
