\* A kicked client keeps the channel in its own map.
CONSTANTS
    f1 = f1  f2 = f2  f3 = f3  a = a  k1 = k1  k2 = k2
    Fd <- TwoSockets
    NoFd = NoFd
    Nick <- OneNameMore
    Key = {}
    LongKey = {}
    DefaultLimit = 3
    Chan = {1}
    HashChan = {1}
    Absent = Absent
    Null = Null
    CLIENT_CHANLIMIT = 3
    LimitArg = {}
    Letter = {}
    Verb = {"JOIN", "KICK"}
    MaxInvites = 1
SYMMETRY SocketSymmetry
SPECIFICATION Spec
\* The process may crash, and then nothing happens.
CHECK_DEADLOCK FALSE
INVARIANTS MapsAgree
