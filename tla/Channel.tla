-------------------------------- MODULE Channel --------------------------------
(***************************************************************************)
(* The class Channel (ref/src/Channel.cpp): one chat channel as a record,   *)
(* and its member functions as operators from a channel to a channel.       *)
(*                                                                          *)
(* A nickname is a member of Nick.  The default nickname "client<fd>" that  *)
(* Client(int) builds for a socket is represented by the socket itself, so  *)
(* Fd is a subset of Nick.  The empty string stands for "no key".           *)
(*                                                                          *)
(* Left out, because nothing reads them back into a decision: the name of   *)
(* the channel (the key under which the server keeps it), topic and times   *)
(* (text of replies only), owner (written, never read), and ban (addBan has *)
(* no caller, so checkBan is always false and joinClient never throws).     *)
(***************************************************************************)
EXTENDS Integers, FiniteSets

CONSTANTS
    Fd,           \* client sockets
    NoFd,         \* "no entry" in the map of users
    Nick,         \* nicknames
    Key,          \* non-empty channel keys
    LongKey,      \* the keys of more than 20 characters
    DefaultLimit  \* user_limit of a new channel (3 in the constructor)

ASSUME NickAssumption == Fd \subseteq Nick /\ "" \notin Nick /\ NoFd \notin Fd
ASSUME KeyAssumption == LongKey \subseteq Key /\ "" \notin Key
ASSUME LimitAssumption == DefaultLimit \in Int /\ DefaultLimit >= 2

\* The ranks of Channel.hpp.  std::map::operator[] inserts rank 0 for a
\* nickname without an entry, so 0 occurs although no constant names it.
OWNER == 1
OPERATOR == 2
COMMON == 3
NoAuth == -1

NoKey == ""
NoLimit == 999999999

\* Sockets are small numbers of type int: there are less of them than the limit
\* that stands for "none".
ASSUME FdAssumption == IsFiniteSet(Fd) /\ Cardinality(Fd) <= NoLimit

ModeLetter == {"i", "t", "n", "k", "l"}

ChannelState ==
    [users : [Nick -> Fd \cup {NoFd}],       \* map nickname -> client
     auth : [Nick -> {NoAuth} \cup 0..COMMON],
     modes : SUBSET ModeLetter,
     password : Key \cup {NoKey},
     user_limit : Int,
     invited : [Nick -> Nat]]                \* how often a nickname is listed

--------------------------------------------------------------------------------

\* Channel(name, key, client): the creator is the owner; a key is kept even
\* though mode k is not set.
NewChannel(n, f, key) ==
    [users |-> [m \in Nick |-> IF m = n THEN f ELSE NoFd],
     auth |-> [m \in Nick |-> IF m = n THEN OWNER ELSE NoAuth],
     modes |-> {"n", "t"},
     password |-> key,
     user_limit |-> DefaultLimit,
     invited |-> [m \in Nick |-> 0]]

Members(ch) == {n \in Nick : ch.users[n] # NoFd}

\* The sockets a broadcast to the channel writes to.
Sockets(ch) == {ch.users[n] : n \in Members(ch)}

\* auth[nick] of a copy of the map, as getAuth()[nick] reads it.
RankOf(ch, n) == IF ch.auth[n] = NoAuth THEN 0 ELSE ch.auth[n]

\* isOperator: every rank up to OPERATOR, the 0 of a nickname without an entry
\* included ...
IsOperator(ch, n) == RankOf(ch, n) <= OPERATOR

\* ... and the lookup leaves that 0 in the map.
AfterLookup(ch, n) == [ch EXCEPT !.auth[n] = RankOf(ch, n)]

JoinClient(ch, n, f, rank) ==
    [ch EXCEPT !.users[n] = f, !.auth[n] = rank]

\* Mutant of DeleteClient: users.erase is forgotten.
DeleteClientRankOnly(ch, n) == [ch EXCEPT !.auth[n] = NoAuth]

\* Mutant of DeleteClient: auth.erase is forgotten.
DeleteClientUserOnly(ch, n) == [ch EXCEPT !.users[n] = NoFd]

DeleteClient(ch, n) == [ch EXCEPT !.users[n] = NoFd, !.auth[n] = NoAuth]

AddInvited(ch, n) == [ch EXCEPT !.invited[n] = @ + 1]

\* isInvite, once it found an entry: one entry of the nickname is erased.
UseInvite(ch, n) == [ch EXCEPT !.invited[n] = @ - 1]

\* Mutant of IsFull: the client about to join is not counted.
IsFullWithoutNewcomer(ch) ==
    ch.user_limit >= 0 /\ Cardinality(Members(ch)) > ch.user_limit

\* size() + 1 > user_limit compares unsigned: a negative limit is huge.
IsFull(ch) ==
    /\ ch.user_limit >= 0
    /\ Cardinality(Members(ch)) + 1 > ch.user_limit

--------------------------------------------------------------------------------
(* What one letter of a MODE command does to the channel, once the sender   *)
(* passed isOperator.  An ignored letter leaves the channel as it is.       *)

ModeFlag(ch, on, m) ==
    [ch EXCEPT !.modes = IF on THEN @ \cup {m} ELSE @ \ {m}]

ModeKey(ch, on, key) ==
    IF key \in LongKey THEN ch
    ELSE IF on /\ "k" \notin ch.modes
      THEN [ch EXCEPT !.password = key, !.modes = @ \cup {"k"}]
    ELSE IF ~on /\ "k" \in ch.modes /\ key = ch.password
      THEN [ch EXCEPT !.password = NoKey, !.modes = @ \ {"k"}]
    ELSE ch

\* Mutant of TooSmall: a limit of 0 is taken for none.
TooSmallUnlessZero(ch, v) == v > 0 /\ v < Cardinality(Members(ch))

\* user_limit < size() compares unsigned: a negative limit is not too small.
TooSmall(ch, v) == v >= 0 /\ v < Cardinality(Members(ch))

\* Mutant of ModeLimit: -l erases the mode but keeps the limit.
ModeLimitKept(ch, on, v) ==
    IF ~on THEN [ch EXCEPT !.modes = @ \ {"l"}]
    ELSE IF TooSmall(ch, v) THEN ch
    ELSE [ch EXCEPT !.user_limit = v, !.modes = @ \cup {"l"}]

ModeLimit(ch, on, v) ==
    IF ~on /\ "l" \in ch.modes
      THEN [ch EXCEPT !.user_limit = NoLimit, !.modes = @ \ {"l"}]
    ELSE IF on /\ ~TooSmall(ch, v) /\ ~("l" \in ch.modes /\ v = ch.user_limit)
      THEN [ch EXCEPT !.user_limit = v, !.modes = @ \cup {"l"}]
    ELSE ch

\* +o of an operator, -o of a common member and a nickname that is not on the
\* channel are ignored.
ModeOp(ch, on, n) ==
    IF n \in Members(ch) /\ on # IsOperator(ch, n)
      THEN [ch EXCEPT !.auth[n] = IF on THEN OPERATOR ELSE COMMON]
    ELSE ch

--------------------------------------------------------------------------------
(* What a channel between two operations satisfies. *)

\* The two maps agree: a rank is held by a user of the channel only (an outsider
\* has the 0 of a lookup at most), and a user has an entry, so that looking up
\* the rank of a user never inserts one.
WellRanked(ch) ==
    \A n \in Nick :
        /\ ch.auth[n] \in OWNER..COMMON => n \in Members(ch)
        /\ n \in Members(ch) => ch.auth[n] # NoAuth

SingleOwner(ch) ==
    \A n, m \in Nick : ch.auth[n] = OWNER /\ ch.auth[m] = OWNER => n = m

\* Mode k has a key to ask for; without mode l only a built-in limit applies.
SettingsShown(ch) ==
    /\ "k" \in ch.modes => ch.password # NoKey
    /\ "l" \notin ch.modes => ch.user_limit \in {DefaultLimit, NoLimit}

\* JOIN asks for a key, and for room, that no mode shows.
HiddenKey(ch) == "k" \notin ch.modes /\ ch.password # NoKey
HiddenLimit(ch) == "l" \notin ch.modes /\ ch.user_limit # NoLimit

================================================================================
