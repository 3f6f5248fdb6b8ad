\* Two sockets, keys and limits; everything that adds users or sets a key or limit.
CONSTANTS
    f1 = f1  f2 = f2  f3 = f3  a = a  k1 = k1  k2 = k2
    Fd <- TwoSockets
    NoFd = NoFd
    Nick <- OneNameMore
    Key = {k1, k2}
    LongKey = {k2}
    DefaultLimit = 2
    Chan = {1}
    HashChan = {1}
    Absent = Absent
    Null = Null
    CLIENT_CHANLIMIT = 3
    LimitArg <- LimitArgs
    Letter = {"k", "l"}
    Verb = {"JOIN", "PART", "KICK", "NICK", "MODE"}
    MaxInvites = 1
SYMMETRY SocketSymmetry
SPECIFICATION Spec
\* The process may crash, and then nothing happens.
CHECK_DEADLOCK FALSE
PROPERTIES HiddenSettingsAreOfCreation LimitExceededOnlyByNick
