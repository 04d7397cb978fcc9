SPECIFICATION Hw09Spec
CONSTANT QUEUE_CAPACITY = 4
CONSTANT Pushers = {"keyboard_thread", "nucleo_thread"}
CONSTANT Popper = "main"
CONSTANT MaxPushes = 5
CONSTANT Thresholds = {0, 1, 5}
CONSTANT Points = {0, 3, 5, 6, 24, 25, 255}
INVARIANTS Hw09TypeOK SleepersHaveReason PushedNeverPopped ColoursFit
PROPERTY PipesMeet
CHECK_DEADLOCK FALSE
