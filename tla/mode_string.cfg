\* Two users of the channel at most, a nickname that is not on it, and strings of
\* up to four characters.
CONSTANTS
    f1 = f1  f2 = f2  a = a  k1 = k1  k2 = k2
    two = two  twoAndMore = twoAndMore  minusOne = minusOne
    Fd <- TwoSockets
    NoFd = NoFd
    Nick <- OneNameMore
    Key = {k1, k2}
    LongKey = {}
    DefaultLimit = 3
    Text = {two, twoAndMore, minusOne}
    Atoll <- AtollOfTexts
    MaxRead = 4
SYMMETRY SocketSymmetry
SPECIFICATION Spec
INVARIANTS TypeOK BroadcastsTellAll QueryTellsSettings
