SPECIFICATION FairBoardSpec
CONSTANT BUF_SIZE = 5
CONSTANT MaxCommands = 1
CONSTANT MaxFaults = 0
CONSTANT MaxPresses = 0
CONSTANT MaxTasks = 0
CONSTANT Commands <- MCUnknown
PROPERTY ErrorReported
CHECK_DEADLOCK FALSE
