\* Two descriptors; batches of three events, enough for one to close a socket,
\* the second to accept on its number and the third to be stale.
CONSTANTS
    MaxFd = 2
    MaxEvents = 3
    MaxChanges = 2
    MaxWaiting = 1
SPECIFICATION Spec
\* run() is left by an exception or a signal.
CHECK_DEADLOCK FALSE
INVARIANTS TypeOK NoClientForgotten OnlyStaleChangesFail
PROPERTIES ImplementsConnections InputIsReceived
