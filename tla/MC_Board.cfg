SPECIFICATION BoardSpec
CONSTANT BUF_SIZE = 5
CONSTANT MaxCommands = 3
CONSTANT MaxFaults = 1
CONSTANT MaxPresses = 1
CONSTANT MaxTasks = 2
CONSTANT Commands <- MCCommands
INVARIANTS BoardTypeOK OnlyStolenByteBlocks Conversation OneResultAfterPress
CHECK_DEADLOCK FALSE
