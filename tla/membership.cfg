\* Three sockets, one more nickname and a channel; the commands that move
\* clients in and out of it, rename them and write ranks.
CONSTANTS
    f1 = f1  f2 = f2  f3 = f3  a = a  k1 = k1  k2 = k2
    Fd <- ThreeSockets
    NoFd = NoFd
    Nick <- ThreeAndOneName
    Key = {}
    LongKey = {}
    DefaultLimit = 3
    Chan = {1}
    HashChan = {1}
    Absent = Absent
    Null = Null
    CLIENT_CHANLIMIT = 3
    LimitArg = {}
    Letter = {"o"}
    Verb = {"JOIN", "PART", "KICK", "NICK", "MODE", "WHO"}
    MaxInvites = 1
SYMMETRY SocketSymmetry
SPECIFICATION Spec
\* The process may crash, and then nothing happens.
CHECK_DEADLOCK FALSE
INVARIANTS EntriesLive NoEmptyChannel NothingLeftOver OnlyDefaultNicksClash RanksOfUsers OneOwner
PROPERTIES SeatTakenOverOnlyByClash SeatLostOnlyByKickOrClash
