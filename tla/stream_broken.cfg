CONSTANT MaxLines = 5
SPECIFICATION Spec
INVARIANT ReplayIsRecording
CHECK_DEADLOCK FALSE
