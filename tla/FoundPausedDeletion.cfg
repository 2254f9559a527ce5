SPECIFICATION Spec
CONSTANTS
    runner1 = runner1
    runner2 = runner2
    web = web
    Procs <- MCProcs
    NoOne = nobody
    LockSeconds = 1
    Parks = {"deleting"}
    MaxNow = 2
    MaxWrites = 5
PROPERTY WriterSawExactStatus
