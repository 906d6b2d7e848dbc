SPECIFICATION FairSpec
CONSTANTS
    co1 = co1
    co2 = co2
    main = main
    Main = main
    Coroutines = {co1, co2}
    Wrapped = {co1}
    Natives <- AllNatives
    Polls <- AllPolls
    MaxFrames = 2
    Admit = {}
INVARIANTS NoPanic ResumeChain CallsAnswered
PROPERTIES CatchersCatch CoroutineDiscipline DriverProgresses
