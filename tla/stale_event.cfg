\* A batch holds events of a socket that an earlier event of the batch closed.
CONSTANTS
    MaxFd = 2
    MaxEvents = 3
    MaxChanges = 2
    MaxWaiting = 1
SPECIFICATION Spec
\* run() is left by an exception or a signal.
CHECK_DEADLOCK FALSE
PROPERTIES DisconnectedByOwnEvents
