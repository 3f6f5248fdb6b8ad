\* The peer of a client with output leaves.
CONSTANTS
    MaxFd = 2
    MaxEvents = 3
    MaxChanges = 2
    MaxWaiting = 1
SPECIFICATION Spec
\* run() is left by an exception or a signal.
CHECK_DEADLOCK FALSE
INVARIANTS SendErrorsAreLocal
