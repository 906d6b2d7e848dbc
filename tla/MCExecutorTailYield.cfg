SPECIFICATION Spec
CONSTANTS
    co1 = co1
    co2 = co2
    main = main
    Main = main
    Coroutines = {co1, co2}
    Wrapped = {co1}
    Natives <- LibraryNatives
    Polls = {}
    MaxFrames = 2
    Admit = {"yield_without_frame"}
INVARIANTS NoPanic
