SPECIFICATION FairRxSpec
CONSTANT MaxReplies = 3
CONSTANT MaxFaults = 2
CONSTANT Replies <- MCReplies
CONSTANT StrayMsg <- MCStrayMsg
CONSTANT StrayLen <- MCStrayLen
CONSTANT StrayType = {0, 255}
CONSTANT StrayByte = {0}
INVARIANTS RxTypeOK BufferHolds TableInBounds
PROPERTY MessagesArrive
CHECK_DEADLOCK FALSE
