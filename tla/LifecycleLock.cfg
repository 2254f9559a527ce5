SPECIFICATION FairSpec
CONSTANTS
    runner = runner
    web = web
    main = main
    worker = worker
    s1 = s1
    s2 = s2
    f1 = f1
    f2 = f2
    f3 = f3
    None = none
    Procs <- MCProcs
    Threads <- MCThreads
    States <- MCStates
    Files <- MCTwoFiles
    MaxLevel = 2
    MaxFaults = 1
INVARIANT TypeOK
INVARIANT MutualExclusion
INVARIANT HolderKeepsFlock
INVARIANT RegistryTracksUsers
PROPERTY SomebodyGetsIn
