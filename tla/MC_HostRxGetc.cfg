SPECIFICATION RxSpec
CONSTANT MaxReplies = 1
CONSTANT MaxFaults = 1
CONSTANT Replies <- MCReplies
CONSTANT StrayMsg <- MCStrayMsg
CONSTANT StrayLen <- MCStrayLen
CONSTANT StrayType = {0, 255}
CONSTANT StrayByte = {0}
CHECK_DEADLOCK FALSE
INVARIANT GetcReturnsAsDocumented
