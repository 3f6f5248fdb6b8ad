------------------------------ MODULE ChatServer ------------------------------
(***************************************************************************)
(* The chat server of ref/src/Server.cpp: its clients, its channels and     *)
(* every command handler.                                                   *)
(*                                                                          *)
(* The program is single threaded: kevent() returns an event, the event is  *)
(* handled to its end, and only then the next one.  One action is one       *)
(* handler - except for the commands that loop over a list in the line      *)
(* (JOIN, PART, KICK, MODE), where one action is one iteration: the next    *)
(* element of the line is drawn when it is needed, and the variable task    *)
(* keeps everything else out until the loop ends.                           *)
(*                                                                          *)
(* A dereference of a null Channel* ends the process (Segfault).            *)
(*                                                                          *)
(* How bytes reach the handlers (the event queue, line splitting, the       *)
(* position of PASS in the stream) is left to other modules: here a         *)
(* connected client may send any command at any time.                       *)
(***************************************************************************)
EXTENDS Channel

CONSTANTS
    Chan,              \* channel names, numbered in the order of the map
    HashChan,          \* the names that start with '#'
    Absent,            \* channels has no entry for the name
    Null,              \* channels has an entry that holds a null pointer
    CLIENT_CHANLIMIT,
    LimitArg,          \* BOUND: parameters of MODE +l
    Letter,            \* BOUND: mode letters in use
    Verb,              \* BOUND: commands in use
    MaxInvites         \* BOUND: invitations listed per nickname and channel

ASSUME ChanAssumption == Chan \subseteq Nat \ {0} /\ HashChan \subseteq Chan
ASSUME AbsentAssumption ==
    Absent # Null /\ Absent \notin ChannelState /\ Null \notin ChannelState
ASSUME BoundAssumption ==
    /\ CLIENT_CHANLIMIT \in Nat
    /\ LimitArg \subseteq Int
    /\ Letter \subseteq ModeLetter \cup {"o"}
    /\ MaxInvites \in Nat

VARIABLES
    up,          \* the process runs
    connected,   \* the keys of clients
    registered,  \* Client::reg
    closing,     \* Client::close
    nick,        \* Client::nickname
    joined,      \* Client::channels
    sendData,    \* the sockets whose send_data is not empty
    channels,    \* Server::channels
    task         \* the command whose loop is running

perClient == <<connected, registered, closing, nick>>
vars == <<up, perClient, joined, sendData, channels, task>>

NoTask == [verb |-> "none", fd |-> NoFd, chan |-> 0, last |-> ""]
LoopVerb == {"JOIN", "PART", "KICK", "MODE"}
Task ==
    {NoTask} \cup [verb : LoopVerb, fd : Fd, chan : Chan \cup {0}, last : Nick \cup {""}]

TypeOK ==
    /\ up \in BOOLEAN
    /\ connected \subseteq Fd
    /\ registered \subseteq Fd
    /\ closing \subseteq Fd
    /\ nick \in [Fd -> Nick]
    /\ joined \in [Fd -> SUBSET Chan]
    /\ sendData \subseteq Fd
    /\ channels \in [Chan -> ChannelState \cup {Absent, Null}]
    /\ task \in Task

\* Client(int socket) names the client after its socket.
DefaultNick(f) == f

Init ==
    /\ up = TRUE
    /\ connected = {} /\ registered = {} /\ closing = {}
    /\ nick = [f \in Fd |-> DefaultNick(f)]
    /\ joined = [f \in Fd |-> {}]
    /\ sendData = {}
    /\ channels = [c \in Chan |-> Absent]
    /\ task = NoTask

--------------------------------------------------------------------------------
(* Helpers *)

\* channels.find(c) != channels.end()
Found(c) == channels[c] # Absent
IsObject(c) == channels[c] \notin {Absent, Null}

\* Mutant of IsClient: the clients are looked for on the channels only.
IsSeatedClient(n) == \E g \in connected : nick[g] = n /\ joined[g] # {}

\* isClient: some client has the nickname, registered or not.
IsClient(n) == \E g \in connected : nick[g] = n

\* users.find(client.getNickname()) on the users of channel c
OnChannel(f, c) == nick[f] \in Members(channels[c])

\* Mutant of OrAbsent: the channel outlives its last user.
Kept(ch) == ch

\* A channel whose last user left is deleted.
OrAbsent(ch) == IF Members(ch) = {} THEN Absent ELSE ch

\* send_data[s] += ... for every socket s of S
Send(S) == sendData' = sendData \cup S

Segfault == up' = FALSE /\ UNCHANGED <<perClient, joined, sendData, channels, task>>

\* parseData appends the response of a command, "\r\n" at least, to the send
\* data of its sender.
ReplyOnly(f) ==
    /\ Send({f})
    /\ UNCHANGED <<up, perClient, joined, channels>>

\* Mutant of Ready: the lines after a QUIT are parsed too.
ReadyThoughClosing(f) == up /\ f \in connected

Ready(f) == up /\ f \in connected /\ f \notin closing

\* The line of a registered client starts with verb.
Command(f, verb) ==
    verb \in Verb /\ Ready(f) /\ f \in registered /\ task = NoTask

OneStep == task' = NoTask

\* The loop of a list command takes its next iteration.
Running(f, verb) == Ready(f) /\ task.verb = verb /\ task.fd = f

\* There may be more elements in the line, or this one was the last.
Loop(f, verb, c, last) ==
    task' \in {NoTask, [verb |-> verb, fd |-> f, chan |-> c, last |-> last]}

--------------------------------------------------------------------------------
(* Connections *)

Accept(f) ==
    /\ up /\ task = NoTask
    /\ f \notin connected
    /\ connected' = connected \cup {f}
    /\ registered' = registered \ {f}
    /\ closing' = closing \ {f}
    /\ nick' = [nick EXCEPT ![f] = DefaultNick(f)]
    /\ joined' = [joined EXCEPT ![f] = {}]
    /\ UNCHANGED <<up, sendData, channels, task>>

PassAccepted(f) ==
    /\ Ready(f) /\ task = NoTask
    /\ f \notin registered
    /\ registered' = registered \cup {f}
    /\ Send({f})
    /\ UNCHANGED <<up, connected, closing, nick, joined, channels, task>>

\* Mutant of PassRefused: the client is marked but told nothing.
PassRefusedSilently(f) ==
    /\ Ready(f) /\ task = NoTask
    /\ f \notin registered
    /\ closing' = closing \cup {f}
    /\ UNCHANGED <<up, connected, registered, nick, joined, sendData, channels, task>>

\* A wrong or missing password, or another command first.
PassRefused(f) ==
    /\ Ready(f) /\ task = NoTask
    /\ f \notin registered
    /\ closing' = closing \cup {f}
    /\ Send({f})
    /\ UNCHANGED <<up, connected, registered, nick, joined, channels, task>>

\* USER, PING, CAP, unknown commands, PASS lines that are only remembered, and
\* commands that stop at a missing parameter.
HandleReplyOnly(f) ==
    /\ Ready(f) /\ task = NoTask
    /\ ReplyOnly(f) /\ OneStep

\* disconnectClient.  The erased client's fields are gone; the model resets
\* them to those of the next client of this socket.
Disconnect(f) ==
    \/ /\ \E c \in joined[f] : ~IsObject(c)
       /\ Segfault
    \/ /\ \A c \in joined[f] : IsObject(c)
       /\ channels' = [c \in Chan |->
                         IF c \in joined[f]
                         THEN OrAbsent(DeleteClient(channels[c], nick[f]))
                         ELSE channels[c]]
       /\ sendData' = sendData \ {f}
       /\ connected' = connected \ {f}
       /\ registered' = registered \ {f}
       /\ closing' = closing \ {f}
       /\ nick' = [nick EXCEPT ![f] = DefaultNick(f)]
       /\ joined' = [joined EXCEPT ![f] = {}]
       /\ UNCHANGED <<up, task>>

\* recv() returns no data, send() fails, or kevent reports an error.
ClientGone(f) ==
    /\ up /\ task = NoTask
    /\ f \in connected
    /\ Disconnect(f)

\* The socket takes the send data; a client marked close is then disconnected.
WriteReady(f) ==
    /\ up /\ task = NoTask
    /\ f \in connected /\ f \in sendData
    /\ \/ f \in closing /\ Disconnect(f)
       \/ /\ f \notin closing
          /\ sendData' = sendData \ {f}
          /\ UNCHANGED <<up, perClient, joined, channels, task>>

\* The farewell is broadcast to every channel in the client's own map.
HandleQuit(f) ==
    /\ Command(f, "QUIT")
    /\ \/ /\ \E c \in joined[f] : ~IsObject(c)
          /\ Segfault
       \/ /\ \A c \in joined[f] : IsObject(c)
          /\ Send({f} \cup UNION {Sockets(channels[c]) : c \in joined[f]})
          /\ closing' = closing \cup {f}
          /\ UNCHANGED <<up, connected, registered, nick, joined, channels, task>>

--------------------------------------------------------------------------------
(* Names *)

\* Mutants of Renamed: the entry of the old nickname stays; its rank stays.
RenamedKeepsOld(ch, f, n) == JoinClient(ch, n, f, RankOf(ch, nick[f]))

RenamedKeepsRank(ch, f, n) ==
    JoinClient([ch EXCEPT !.users[nick[f]] = NoFd], n, f, RankOf(ch, nick[f]))

\* changeChannelNick: in every channel of the client's own map the entry of the
\* old nickname is deleted and one of the new nickname is added.
Renamed(ch, f, n) ==
    JoinClient(DeleteClient(ch, nick[f]), n, f, RankOf(ch, nick[f]))

HandleNick(f, n) ==
    /\ Command(f, "NICK")
    /\ OneStep
    /\ \/ IsClient(n) /\ ReplyOnly(f)
       \/ /\ ~IsClient(n)
          /\ \A c \in joined[f] : IsObject(c)
          /\ nick' = [nick EXCEPT ![f] = n]
          /\ channels' = [c \in Chan |-> IF c \in joined[f]
                                         THEN Renamed(channels[c], f, n)
                                         ELSE channels[c]]
          /\ Send({f} \cup UNION {Sockets(Renamed(channels[c], f, n)) : c \in joined[f]})
          /\ UNCHANGED <<up, connected, registered, closing, joined>>
       \/ /\ ~IsClient(n)
          /\ \E c \in joined[f] : ~IsObject(c)
          /\ Segfault

--------------------------------------------------------------------------------
(* Membership *)

\* A channel that is not found is created with the client as its owner and
\* stays even if the client is then refused.
Target(f, c, key) ==
    IF Found(c) THEN channels[c] ELSE NewChannel(nick[f], f, key)

\* Mutant of Refused: invitations are not asked for.
RefusedUninvited(ch, f, key) == IsFull(ch) \/ key # ch.password

Refused(ch, f, key) ==
    \/ IsFull(ch)
    \/ key # ch.password
    \/ "i" \in ch.modes /\ ch.invited[nick[f]] = 0

\* Mutant of Admitted: an entry under the same nickname is overwritten.
AdmittedAnyway(ch, f) == JoinClient(ch, nick[f], f, COMMON)

\* An invitation is used up; a nickname that is already on the channel gets no
\* second entry.
Admitted(ch, f) ==
    LET n == nick[f]
        invitee == IF "i" \in ch.modes THEN UseInvite(ch, n) ELSE ch
    IN  IF n \in Members(ch) THEN invitee ELSE JoinClient(invitee, n, f, COMMON)

ClientJoinChannel(f, c, key) ==
    LET ch == Target(f, c, key)
    IN  \/ channels[c] = Null /\ Segfault
        \/ /\ channels[c] # Null
           /\ Loop(f, "JOIN", 0, "")
           /\ UNCHANGED <<up, perClient>>
           /\ \/ /\ Refused(ch, f, key)
                 /\ channels' = [channels EXCEPT ![c] = ch]
                 /\ Send({f})
                 /\ UNCHANGED joined
              \/ /\ ~Refused(ch, f, key)
                 /\ channels' = [channels EXCEPT ![c] = Admitted(ch, f)]
                 /\ joined' = [joined EXCEPT ![f] = @ \cup {c}]
                 /\ Send({f} \cup Sockets(Admitted(ch, f)))

\* The number of channels is checked once, and a missing '#' is added to the
\* first name only.
HandleJoin(f) ==
    /\ Command(f, "JOIN")
    /\ \/ /\ Cardinality(joined[f]) > CLIENT_CHANLIMIT
          /\ ReplyOnly(f) /\ OneStep
       \/ /\ Cardinality(joined[f]) <= CLIENT_CHANLIMIT
          /\ \E c \in HashChan, key \in Key \cup {NoKey} : ClientJoinChannel(f, c, key)

JoinNext(f) ==
    /\ Running(f, "JOIN")
    /\ \E c \in Chan, key \in Key \cup {NoKey} : ClientJoinChannel(f, c, key)

\* Mutant of LeaveChannel: client.leaveChannel is forgotten.
LeaveChannelOnly(f, c) ==
    /\ Send({f} \cup Sockets(channels[c]))
    /\ channels' = [channels EXCEPT ![c] = OrAbsent(DeleteClient(@, nick[f]))]
    /\ UNCHANGED <<up, perClient, joined>>

\* clientLeaveChannel
LeaveChannel(f, c) ==
    /\ Send({f} \cup Sockets(channels[c]))
    /\ joined' = [joined EXCEPT ![f] = @ \ {c}]
    /\ channels' = [channels EXCEPT ![c] = OrAbsent(DeleteClient(@, nick[f]))]
    /\ UNCHANGED <<up, perClient>>

\* Mutant of PartChannel: the channel is used without a lookup.
PartUnknownChannel(f, c) == IF IsObject(c) THEN ReplyOnly(f) /\ OneStep ELSE Segfault

\* The first channel that is not found, or that the client is not on, ends the
\* command.
PartChannel(f, c) ==
    \/ ~Found(c) /\ ReplyOnly(f) /\ OneStep
    \/ channels[c] = Null /\ Segfault
    \/ IsObject(c) /\ ~OnChannel(f, c) /\ ReplyOnly(f) /\ OneStep
    \/ IsObject(c) /\ OnChannel(f, c) /\ LeaveChannel(f, c) /\ Loop(f, "PART", 0, "")

HandlePart(f) ==
    /\ Command(f, "PART") \/ Running(f, "PART")
    /\ \E c \in Chan : PartChannel(f, c)

\* clientKickedChannel: the channel forgets the user, but leaveChannel is called
\* on a copy of the client, so the client's own map keeps the channel.
KickedFrom(f, c, n) ==
    /\ Send({f} \cup Sockets(channels[c]))
    /\ channels' = [channels EXCEPT ![c] = OrAbsent(
                        IF n \in Members(@) THEN DeleteClient(@, n) ELSE @)]
    /\ UNCHANGED <<up, perClient, joined>>

\* One iteration of KICK.  Whether the nickname exists is asked of the last
\* nickname of the list in every iteration.
KickNick(f, c, n, last) ==
    \/ ~Found(c) /\ ReplyOnly(f)
    \/ Found(c) /\ ~IsClient(last) /\ ReplyOnly(f)
    \/ /\ IsObject(c) /\ IsClient(last)
       /\ ~OnChannel(f, c) \/ ~IsOperator(channels[c], nick[f])
       /\ ReplyOnly(f)
    \/ /\ IsObject(c) /\ IsClient(last)
       /\ OnChannel(f, c) /\ IsOperator(channels[c], nick[f])
       /\ KickedFrom(f, c, n)

\* The last element is the last nickname, or is followed by a comma alone.
KickStep(f, c, n, last) ==
    \/ /\ channels[c] = Null /\ IsClient(last)
       /\ Segfault
    \/ /\ KickNick(f, c, n, last)
       /\ Loop(f, "KICK", c, last)
       /\ OneStep => last \in {n, ""}

HandleKick(f) ==
    \E n \in Nick :
        \/ /\ Command(f, "KICK")
           /\ \E c \in Chan, last \in Nick \cup {""} : KickStep(f, c, n, last)
        \/ Running(f, "KICK") /\ KickStep(f, task.chan, n, task.last)

HandleInvite(f, c, n) ==
    /\ Command(f, "INVITE")
    /\ \/ channels[c] = Null /\ IsClient(n) /\ Segfault
       \/ /\ \/ ~Found(c)
             \/ ~IsClient(n)
             \/ /\ IsObject(c)
                /\ \/ ~OnChannel(f, c)
                   \/ n \in Members(channels[c])
                   \/ ~IsOperator(channels[c], nick[f])
          /\ ReplyOnly(f) /\ OneStep
       \/ /\ IsObject(c) /\ OnChannel(f, c)
          /\ n \notin Members(channels[c])
          /\ IsOperator(channels[c], nick[f])
          /\ channels[c].invited[n] < MaxInvites
          /\ channels' = [channels EXCEPT ![c] = AddInvited(@, n)]
          /\ \E g \in connected : nick[g] = n /\ Send({f, g})
          /\ UNCHANGED <<up, perClient, joined>> /\ OneStep

--------------------------------------------------------------------------------
(* Modes *)

\* The channels a letter the sender may use can make of ch, over all signs and
\* parameters.
Moded(ch, letter) ==
    CASE letter \in {"i", "t", "n"} -> {ModeFlag(ch, on, letter) : on \in BOOLEAN}
      [] letter = "k" -> {ModeKey(ch, on, key) : on \in BOOLEAN, key \in Key}
      [] letter = "l" -> {ModeLimit(ch, on, v) : on \in BOOLEAN, v \in LimitArg}
      [] letter = "o" -> {ModeOp(ch, on, n) : on \in BOOLEAN, n \in Nick}

\* One letter of the mode string.  Every letter asks isOperator, which leaves
\* rank 0 for a sender who is not on the channel; a change is broadcast at the
\* end of the command, to the users the channel has throughout the command.
ModeStep(f, c, letter) ==
    LET asked == AfterLookup(channels[c], nick[f])
    IN  \/ /\ ~IsOperator(channels[c], nick[f])
           /\ channels' = [channels EXCEPT ![c] = asked]
           /\ Send({f})
        \/ /\ IsOperator(channels[c], nick[f])
           /\ \E moded \in Moded(asked, letter) :
                /\ channels' = [channels EXCEPT ![c] = moded]
                /\ Send({f} \cup IF moded = asked THEN {} ELSE Sockets(asked))

\* Letters without effect: p s v m b, unknown ones, k and o without parameter.
ModeLetters(f, c) ==
    /\ \/ ReplyOnly(f)
       \/ \E letter \in Letter :
            IsObject(c) /\ ModeStep(f, c, letter) /\ UNCHANGED <<up, perClient, joined>>
    /\ Loop(f, "MODE", c, "")

HandleMode(f) ==
    \/ Command(f, "MODE") /\ \E c \in HashChan :
         \/ channels[c] = Null /\ Segfault
         \/ ~Found(c) /\ ReplyOnly(f) /\ OneStep
         \/ Found(c) /\ ModeLetters(f, c)
    \/ Running(f, "MODE") /\ ModeLetters(f, task.chan)
    \/ Running(f, "MODE") /\ channels[task.chan] = Null /\ Segfault

--------------------------------------------------------------------------------
(* Messages and queries *)

\* A channel's topic is not kept in the model: setting it is a broadcast.
HandleTopic(f, c) ==
    /\ Command(f, "TOPIC")
    /\ \/ channels[c] = Null /\ Segfault
       \/ ReplyOnly(f) /\ channels[c] # Null /\ OneStep
       \/ /\ IsObject(c) /\ OnChannel(f, c)
          /\ "t" \in channels[c].modes => IsOperator(channels[c], nick[f])
          /\ Send({f} \cup Sockets(channels[c]))
          /\ UNCHANGED <<up, perClient, joined, channels>> /\ OneStep

MsgToChannel(f, c) ==
    \/ channels[c] = Null /\ Segfault
    \/ ~Found(c) /\ ReplyOnly(f) /\ OneStep
    \/ /\ IsObject(c) /\ ~OnChannel(f, c) /\ "n" \in channels[c].modes
       /\ ReplyOnly(f) /\ OneStep
    \/ /\ IsObject(c)
       /\ "n" \in channels[c].modes => OnChannel(f, c)
       /\ Send({f} \cup Sockets(channels[c]))
       /\ UNCHANGED <<up, perClient, joined, channels>> /\ OneStep

\* The first client with the nickname; sockets have no order here.
MsgToUser(f, n) ==
    /\ \/ \E g \in connected : nick[g] = n /\ Send({f, g})
       \/ ~IsClient(n) /\ Send({f})
    /\ UNCHANGED <<up, perClient, joined, channels>> /\ OneStep

HandlePrivmsg(f) ==
    /\ Command(f, "PRIVMSG")
    /\ \/ \E c \in HashChan : MsgToChannel(f, c)
       \/ \E n \in Nick : MsgToUser(f, n)

\* LIST of one name looks it up with operator[], which inserts a null pointer
\* for a name without a channel; LIST of all dereferences every pointer.
HandleList(f) ==
    /\ Command(f, "LIST")
    /\ \/ \E c \in Chan :
            /\ channels' = [channels EXCEPT ![c] = IF Found(c) THEN @ ELSE Null]
            /\ Send({f}) /\ UNCHANGED <<up, perClient, joined>> /\ OneStep
       \/ (\A c \in Chan : channels[c] # Null) /\ ReplyOnly(f) /\ OneStep
       \/ (\E c \in Chan : channels[c] = Null) /\ Segfault

\* WHO of a channel walks all channels; it looks up members only, whose entries
\* exist, so nothing changes.
WhoChannel(f) ==
    \/ (\A c \in Chan : channels[c] # Null) /\ ReplyOnly(f) /\ OneStep
    \/ (\E c \in Chan : channels[c] = Null) /\ Segfault

FirstChannel(g) == CHOOSE c \in joined[g] : \A d \in joined[g] : c <= d

\* WHO of a nickname asks isOperator in the first channel of the own map of each
\* client with that nickname.
WhoNick(f, n) ==
    LET asked == {FirstChannel(g) : g \in {g \in connected : nick[g] = n /\ joined[g] # {}}}
    IN  \/ (\E c \in asked : ~IsObject(c)) /\ Segfault
        \/ /\ \A c \in asked : IsObject(c)
           /\ channels' = [c \in Chan |-> IF c \in asked THEN AfterLookup(channels[c], n)
                                          ELSE channels[c]]
           /\ Send({f}) /\ UNCHANGED <<up, perClient, joined>> /\ OneStep

HandleWho(f) ==
    /\ Command(f, "WHO")
    /\ WhoChannel(f) \/ \E n \in Nick : WhoNick(f, n)

--------------------------------------------------------------------------------

Next ==
    \E f \in Fd :
        \/ Accept(f)
        \/ PassAccepted(f)
        \/ PassRefused(f)
        \/ HandleReplyOnly(f)
        \/ ClientGone(f)
        \/ WriteReady(f)
        \/ HandleQuit(f)
        \/ \E n \in Nick : HandleNick(f, n)
        \/ HandleJoin(f)
        \/ JoinNext(f)
        \/ HandlePart(f)
        \/ HandleKick(f)
        \/ \E c \in Chan, n \in Nick : HandleInvite(f, c, n)
        \/ HandleMode(f)
        \/ \E c \in Chan : HandleTopic(f, c)
        \/ HandlePrivmsg(f)
        \/ HandleList(f)
        \/ HandleWho(f)

Spec == Init /\ [][Next]_vars

--------------------------------------------------------------------------------
(* Safety *)

\* An entry in the users of a channel belongs to a client that is connected and
\* registered, has that nickname now, and has the channel in its own map.  So a
\* broadcast never writes to a closed (or since reused) socket, and writes once
\* to a client: the copies of Client that a channel keeps do not go stale.
EntriesLive ==
    \A c \in Chan : IsObject(c) =>
        \A n \in Members(channels[c]) :
            LET f == channels[c].users[n]
            IN  /\ f \in connected /\ f \in registered
                /\ nick[f] = n
                /\ c \in joined[f]

\* A channel without users is deleted by whatever takes its last user away
\* (PART, KICK, disconnection), and a refused JOIN does not leave one behind.
NoEmptyChannel ==
    \A c \in Chan : IsObject(c) => Members(channels[c]) # {}

\* A rank is held by users of the channel only, and every user has one.
RanksOfUsers == \A c \in Chan : IsObject(c) => WellRanked(channels[c])

\* Renaming, promoting and leaving never make a second owner of a channel.
OneOwner == \A c \in Chan : IsObject(c) => SingleOwner(channels[c])

\* A channel that shows k has a key to ask for, and one that does not show l has no
\* limit but the built-in one.  (A key without k is possible, see below.)
ShownSettingsExist == \A c \in Chan : IsObject(c) => SettingsShown(channels[c])

\* A socket number that accept() may return again has no output, no
\* registration and no channels of the client that had it before.
NothingLeftOver ==
    \A f \in Fd \ connected :
        f \notin registered \cup closing \cup sendData /\ joined[f] = {}

\* A client marked close has output: only the write event that empties it
\* disconnects such a client, so without output it would stay forever.
ClosingHasOutput == closing \subseteq sendData

\* NICK refuses a nickname in use, so two clients share one only if it is the
\* default nickname of one of them, which accept() does not check.
OnlyDefaultNicksClash ==
    \A f, g \in connected :
        f # g /\ nick[f] = nick[g] => nick[f] \in {DefaultNick(f), DefaultNick(g)}

\* While a loop runs, its client can still be answered, and the channel of a
\* MODE command is not deleted under it.
TaskOK ==
    task # NoTask =>
        /\ task.fd \in connected /\ task.fd \in registered /\ task.fd \notin closing
        /\ task.verb = "MODE" => task.chan \in Chan /\ Found(task.chan)
        /\ task.verb = "KICK" => task.chan \in Chan

\* The inductive invariant.
IInv ==
    /\ TypeOK
    /\ TaskOK
    /\ NothingLeftOver
    /\ ClosingHasOutput
    /\ OnlyDefaultNicksClash
    /\ EntriesLive
    /\ NoEmptyChannel
    /\ RanksOfUsers
    /\ OneOwner
    /\ ShownSettingsExist

--------------------------------------------------------------------------------
(* Refinement *)

\* Whatever the clients send, the handlers do to a connection what the event loop
\* relies on: output for connected clients only, none left of a closed one, and a
\* client is marked close with output of its own.
Interface == INSTANCE Connections WITH clients <- connected, pending <- sendData
ImplementsConnections == Interface!SafeSpec

--------------------------------------------------------------------------------
(* What a step may never do *)

\* The entry of its nickname on the channel is the client's own.
Seated(f, c) ==
    IsObject(c) /\ nick[f] \in Nick /\ channels[c].users[nick[f]] = f

\* A limit below zero is none.
OverLimit(c) ==
    /\ IsObject(c)
    /\ channels[c].user_limit >= 0
    /\ Cardinality(Members(channels[c])) > channels[c].user_limit

\* JOIN checks the number of users against the limit and MODE +l the limit
\* against the number of users; neither lets a channel exceed its limit.  NICK
\* adds a client that was kicked without a check.
LimitExceededOnlyByNick ==
    [][\A c \in Chan : OverLimit(c)' /\ ~OverLimit(c) =>
         \E f \in Fd, n \in Nick : HandleNick(f, n)]_vars

\* When a client loses its place on a channel, the same step gives another client one
\* only by NICK, while both have the same nickname: what the other one finds under its
\* old nickname, rank included, is not its own.  JOIN under a nickname that is taken
\* leaves entry and rank to the client that has them.
SeatTakenOverOnlyByClash ==
    [][\A g \in Fd, c \in Chan :
         Seated(g, c) /\ ~Seated(g, c)' =>
            \A f \in Fd : ~Seated(f, c) /\ Seated(f, c)' =>
                /\ nick[f] = nick[g] /\ c \in joined[f]
                /\ \E n \in Nick : HandleNick(f, n)]_vars

\* A channel is created with the key of its first JOIN and the built-in limit, and
\* asks for them without showing k or l.  No command does that later: a key changes
\* only together with mode k, a limit only when l is or was shown, and what the modes
\* do not show was not shown before either.
HiddenSettingsAreOfCreation ==
    [][\A c \in Chan : IsObject(c) /\ IsObject(c)' =>
         LET old == channels[c]
             new == channels'[c]
         IN  /\ new.password # old.password => ("k" \in old.modes) # ("k" \in new.modes)
             /\ new.user_limit # old.user_limit => "l" \in old.modes \cup new.modes
             /\ HiddenKey(new) => HiddenKey(old)
             /\ HiddenLimit(new) => HiddenLimit(old)]_vars

\* The process dies of a null pointer only if LIST left one in channels, or a
\* client's own map names a channel that is gone: every other dereference in the
\* handlers is behind a lookup that found the channel.
CrashHasStaleCause ==
    [][up /\ ~up' =>
         \/ \E c \in Chan : channels[c] = Null
         \/ \E f \in connected : \E c \in joined[f] : channels[c] = Absent]_vars

\* A client whose own map keeps a channel loses its place there in two ways
\* only: KICK, or another client with the same nickname leaves or renames itself.
SeatLostOnlyByKickOrClash ==
    [][\A f \in connected, c \in Chan :
         Seated(f, c) /\ f \in connected' /\ c \in joined'[f] /\ ~Seated(f, c)' =>
            \/ \E g \in Fd : HandleKick(g)
            \/ \E g \in connected : g # f /\ nick[g] = nick[f]]_vars

================================================================================
