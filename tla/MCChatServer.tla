----------------------------- MODULE MCChatServer -----------------------------
(***************************************************************************)
(* Instances of ChatServer for TLC, and the statements of the repository    *)
(* that the code does not keep.                                             *)
(***************************************************************************)
EXTENDS ChatServer, TLC

CONSTANTS f1, f2, f3, a, k1, k2

TwoSockets == {f1, f2}
ThreeSockets == {f1, f2, f3}
OneNameMore == {f1, f2, a}
ThreeAndOneName == {f1, f2, f3, a}

\* Parameters of +l: less than any number of users, equal and negative.
LimitArgs == {-1, 1, 2}

SocketSymmetry == Permutations(Fd)

--------------------------------------------------------------------------------
(* Statements of the repository that the code does not keep: each is the      *)
(* property of a run in which TLC finds it violated.                          *)

\* Server.cpp:1090 - KICK takes the client out of the channel and the channel out
\* of the client: a client is on the channels of its own map, and on no other.
MapsAgree == up => \A f \in connected : joined[f] = {c \in Chan : Seated(f, c)}

\* Server.cpp:877 - a name that channels.find() finds is an existing channel.
FoundIsChannel == \A c \in Chan : Found(c) => channels[c] # Null

\* Server.hpp:45 - "You must have channel op access or above to set channel mode".
ModesNeedOperator ==
    [][\A c \in Chan : /\ IsObject(c) /\ IsObject(c)'
                      /\ channels'[c].modes # channels[c].modes
         =>
            \E f \in connected :
                /\ OnChannel(f, c) /\ channels[c].auth[nick[f]] \in {OWNER, OPERATOR}
                /\ HandleMode(f)]_vars

================================================================================
