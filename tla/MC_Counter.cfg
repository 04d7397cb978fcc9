SPECIFICATION CounterSpec
CONSTANT PERIOD_THREAD = 25
CONSTANT LOW = 20
CONSTANT HIGH = 32
CONSTANT MaxTicks = 3
CONSTANT MaxKeys = 3
INVARIANTS CounterTypeOK NoKeyAwaitedInVain OneTickAfterQuit
PROPERTY OnlyMissedSignalHangs
CHECK_DEADLOCK FALSE
