SPECIFICATION FairBoardSpec
CONSTANT BUF_SIZE = 8
CONSTANT MaxCommands = 3
CONSTANT MaxFaults = 0
CONSTANT MaxPresses = 1
CONSTANT MaxTasks = 2
CONSTANT Commands <- MCAnswered
PROPERTIES EveryCommandAnswered ComputationEnds
CHECK_DEADLOCK FALSE
