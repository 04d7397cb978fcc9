SPECIFICATION Spec
CONSTANT MaxEvents = 4
INVARIANTS TypeOK FaultOnlyIfRaced InOrderOnce OnlyEndDangles
PROPERTY FifoSpec
CHECK_DEADLOCK FALSE
