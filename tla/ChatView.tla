-------------------------------- MODULE ChatView --------------------------------
(***************************************************************************)
(* The chat server together with what its clients learn from it: the        *)
(* nicknames that a user of a channel believes to be on it, after reading   *)
(* the JOIN, PART, KICK, NICK and QUIT messages and the list of names that  *)
(* the handlers send.                                                       *)
(*                                                                          *)
(* A step is one of ChatServer; added is who is told what by it.  Messages  *)
(* of one connection are read in the order in which they are sent, and none *)
(* is lost.                                                                 *)
(***************************************************************************)
EXTENDS ChatServer

VARIABLE view   \* view[f][c]: what a client f with a place on channel c believes

viewVars == <<vars, view>>

ViewInit == Init /\ view = [f \in Fd |-> [c \in Chan |-> {}]]

--------------------------------------------------------------------------------
(* Messages *)

\* The new views; a client without a place on a channel has none.
Read(views) ==
    view' = [g \in Fd |-> [c \in Chan |-> IF Seated(g, c)' THEN views[g][c] ELSE {}]]

\* Mutant of NameList: the list of names is that of the operators.
OperatorList(f, c) ==
    {n \in Members(Target(f, c, NoKey)) : IsOperator(Target(f, c, NoKey), n)}

\* The list of names is copied before the newcomer is added.
NameList(f, c) == Members(Target(f, c, NoKey))

\* JOIN is broadcast to the channel, the newcomer included; the names are its reply.
JoinRead(f, c) ==
    LET told(g) == {nick[f]} \cup IF g = f THEN NameList(f, c) ELSE {}
    IN  Read([g \in Fd |-> [view[g] EXCEPT ![c] = @ \cup told(g)]])

\* PART and KICK are broadcast before the entry is deleted.
LeftRead(n, c) == Read([g \in Fd |-> [view[g] EXCEPT ![c] = @ \ {n}]])

\* Who shares one of the channels of a client's own map
Audience(all, own) == UNION {Sockets(all[c]) : c \in own}

\* Mutant of Replaced: the message is put together after the nickname changed, so
\* its readers know nobody who is renamed.
Added(names, n, m) == names \cup {m}

Replaced(names, n, m) == IF n \in names THEN (names \ {n}) \cup {m} ELSE names

\* NICK names no channel: a reader renames wherever it knows the old nickname.
RenameRead(f, m) ==
    LET told == Audience(channels', joined'[f])
    IN  Read([g \in Fd |-> [c \in Chan |->
                IF g \in told THEN Replaced(view[g][c], nick[f], m) ELSE view[g][c]]])

\* QUIT is told to the others, at once; the channels list the client until it is
\* disconnected.
QuitRead(f) ==
    LET told == Audience(channels, joined[f]) \ {f}
    IN  Read([g \in Fd |-> [c \in Chan |->
                IF g \in told THEN view[g][c] \ {nick[f]} ELSE view[g][c]]])

--------------------------------------------------------------------------------

\* A disconnection tells nobody.
Quiet(f) ==
    \/ Accept(f) \/ PassAccepted(f) \/ PassRefused(f) \/ HandleReplyOnly(f)
    \/ ClientGone(f) \/ WriteReady(f)
    \/ \E c \in Chan, n \in Nick : HandleInvite(f, c, n)
    \/ HandleMode(f) \/ \E c \in Chan : HandleTopic(f, c)
    \/ HandlePrivmsg(f) \/ HandleList(f) \/ HandleWho(f)

JoinTold(f) ==
    /\ HandleJoin(f) \/ JoinNext(f)
    /\ \/ /\ task = NoTask /\ Cardinality(joined[f]) > CLIENT_CHANLIMIT
          /\ ReplyOnly(f) /\ Read(view)
       \/ \E c \in Chan, key \in Key \cup {NoKey} :
            /\ ClientJoinChannel(f, c, key)
            /\ IF channels[c] = Null \/ Refused(Target(f, c, key), f, key) THEN Read(view)
               ELSE JoinRead(f, c)

PartTold(f) ==
    /\ HandlePart(f)
    /\ \/ UNCHANGED channels /\ Read(view)
       \/ \E c \in Chan : IsObject(c) /\ LeaveChannel(f, c) /\ LeftRead(nick[f], c)

\* KICK of a nickname that is not on the channel names nobody.
KickTold(f) ==
    /\ HandleKick(f)
    /\ \/ UNCHANGED channels /\ Read(view)
       \/ \E c \in Chan, n \in Nick :
            /\ IsObject(c) /\ n \in Members(channels[c])
            /\ KickedFrom(f, c, n) /\ LeftRead(n, c)

NickTold(f, n) ==
    /\ HandleNick(f, n)
    /\ IF nick' = nick THEN Read(view) ELSE RenameRead(f, n)

QuitTold(f) ==
    /\ HandleQuit(f)
    /\ IF up' THEN QuitRead(f) ELSE Read(view)

ViewNext ==
    \E f \in Fd :
        \/ Quiet(f) /\ Read(view)
        \/ JoinTold(f) \/ PartTold(f) \/ KickTold(f) \/ QuitTold(f)
        \/ \E n \in Nick : NickTold(f, n)

ViewSpec == ViewInit /\ [][ViewNext]_viewVars

--------------------------------------------------------------------------------
(* What a step may never do *)

Users(c) == IF IsObject(c) THEN Members(channels[c]) ELSE {}

\* Nicknames f believes to be on the channel that are not, and the other way round
Ghosts(f, c) == view[f][c] \ Users(c)
Strangers(f, c) == IF Seated(f, c) THEN Users(c) \ view[f][c] ELSE {}

NicksClash == \E f, g \in connected : f # g /\ nick[f] = nick[g]

\* Whoever leaves a channel or changes its nickname is seen doing so: a user takes
\* somebody to be on the channel who is not only if that client was disconnected just
\* now - it lost its connection, or it said QUIT before the user joined.
GhostsOnlyByDisconnection ==
    [][\A f \in Fd, c \in Chan :
         Ghosts(f, c) = {} =>
            \/ \A n \in Ghosts(f, c)' : \E g \in connected \ connected' : nick[g] = n
            \/ NicksClash]_viewVars

\* Whoever is on a channel is known to its users, except for a client that said QUIT,
\* and for one that was kicked and is put back by NICK, which knows nobody itself.
StrangersOnlyByQuitOrReturn ==
    [][\A f \in Fd, c \in Chan :
         Strangers(f, c) = {} =>
            \/ \A n \in Strangers(f, c)' : \E g \in Fd :
                  \/ HandleQuit(g) /\ nick[g] = n
                  \/ ~Seated(g, c) /\ HandleNick(g, n)
            \/ ~Seated(f, c) /\ \E n \in Nick : HandleNick(f, n)
            \/ NicksClash]_viewVars

================================================================================
