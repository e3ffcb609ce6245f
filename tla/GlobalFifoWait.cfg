SPECIFICATION Spec
CONSTANTS
    a = a
    b = b
    c = c
    None = None
    Procs <- ThreeProcs
    Calls <- WaitCalls
    SIZE = 1
    MaxCount = 1
    Byte = {1}
INVARIANTS LockDiscipline NoSleepElsewhere EntryLifetime NoLostDataWakeup NoLostRoomWakeup NoSpuriousEOF NoStandoff
