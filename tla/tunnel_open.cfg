CONSTANTS
    MaxRequests = 3
    Framings = {"open"}
    Local = FALSE
SPECIFICATION Spec
PROPERTY ResponsesEnd
CHECK_DEADLOCK FALSE
