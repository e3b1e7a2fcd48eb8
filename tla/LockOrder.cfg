SPECIFICATION Spec
CONSTANTS
    HttpThreads = {"http1", "http2"}
INVARIANT OnlyKnownCycles
CHECK_DEADLOCK FALSE
