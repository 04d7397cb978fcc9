SPECIFICATION FairHostSpec
CONSTANT MaxEvents = 2
CONSTANT Keys = {"g", "x"}
INVARIANTS HostTypeOK CommandsFollowKeys OneCommandAfterQuit CleanExit
PROPERTIES QueueUsedAsMeant QuitEndsProgram KeysHandled
CHECK_DEADLOCK FALSE
