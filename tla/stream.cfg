CONSTANT MaxLines = 5
SPECIFICATION Spec
INVARIANT TypeOK
INVARIANT CutsTheBody
INVARIANT ChunksAreEvents
INVARIANT ReplayRepeats
CHECK_DEADLOCK FALSE
