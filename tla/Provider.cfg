\* A chain of three models, batch and stream, with servers that may send any
\* three lines each, fail in every way, or fall silent.
CONSTANTS
    Models = {"m1", "m2", "m3"}
    Chain <- MCChain
    Statuses = {400, 401, 408, 429, 500}
    MaxLines = 3
SPECIFICATION Spec
INVARIANT HangUpBlamesAtMostTwo
PROPERTIES
    ImplementsIter
    CallsEnd
CHECK_DEADLOCK FALSE
