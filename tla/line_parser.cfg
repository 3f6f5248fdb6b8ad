\* Four lines of any kind, or three and a NUL byte anywhere between and inside their
\* words, received in pieces of up to four symbols.
CONSTANTS
    BufSize = 4
    MaxSent = 4
    MaxNuls = 1
SPECIFICATION Spec
\* The peer has sent all its lines, or the process died.
CHECK_DEADLOCK FALSE
INVARIANTS TypeOK ReadsDoNotMatter
PROPERTIES ImplementsGate ParseReturns
