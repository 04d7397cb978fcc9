SPECIFICATION FairTxSpec
CONSTANT BUF_SIZE = 4
CONSTANT MaxSends = 5
CONSTANT Bytes <- MCBytes
CONSTANT Msgs <- MCMsgs
INVARIANTS TxTypeOK NeverStalls
PROPERTIES BytesLeaveInOrder LineMoves
CHECK_DEADLOCK FALSE
