\* Two sockets, two channels (one without a leading #) and every command.
CONSTANTS
    f1 = f1  f2 = f2  f3 = f3  a = a  k1 = k1  k2 = k2
    Fd <- TwoSockets
    NoFd = NoFd
    Nick <- TwoSockets
    Key = {}
    LongKey = {}
    DefaultLimit = 3
    Chan = {1, 2}
    HashChan = {1}
    Absent = Absent
    Null = Null
    CLIENT_CHANLIMIT = 1
    LimitArg = {}
    Letter = {"i"}
    Verb = {"JOIN", "PART", "KICK", "NICK", "QUIT", "INVITE", "MODE", "TOPIC", "PRIVMSG", "LIST", "WHO"}
    MaxInvites = 1
SYMMETRY SocketSymmetry
SPECIFICATION Spec
\* The process may crash, and then nothing happens.
CHECK_DEADLOCK FALSE
INVARIANTS TypeOK IInv ClosingHasOutput
PROPERTIES CrashHasStaleCause ImplementsConnections
