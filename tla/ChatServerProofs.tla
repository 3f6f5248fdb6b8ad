--------------------------- MODULE ChatServerProofs ---------------------------
(***************************************************************************)
(* The inductive invariant of the chat server, for every number of sockets, *)
(* nicknames and channels, and the theorems that follow from it.            *)
(***************************************************************************)
EXTENDS ChatServer, ChannelProofs, TLAPS

\* The four invariants that look at one channel at a time, as one.
ChannelsSound ==
    \A c \in Chan : IsObject(c) => Sound(channels[c]) /\ Members(channels[c]) # {}

\* What the invariant says of the clients alone.
ClientsOK ==
    TaskOK /\ NothingLeftOver /\ ClosingHasOutput /\ OnlyDefaultNicksClash

LEMMA ChannelsSoundThen ==
    ASSUME IInv PROVE ChannelsSound
BY DEF IInv, TypeOK, ChannelsSound, IsObject, Sound, NoEmptyChannel, RanksOfUsers,
       OneOwner, ShownSettingsExist

\* The invariant of the next state from its parts.
LEMMA IInvNext ==
    ASSUME TypeOK', ClientsOK', EntriesLive', ChannelsSound'
    PROVE  IInv'
BY DEF IInv, ClientsOK, ChannelsSound, Sound, NoEmptyChannel, RanksOfUsers, OneOwner,
       ShownSettingsExist

\* A broadcast writes to connected clients.
LEMMA SocketsConnected ==
    ASSUME IInv, NEW c \in Chan, IsObject(c)
    PROVE  Sockets(channels[c]) \subseteq connected
BY DEF IInv, EntriesLive, Sockets

\* Init establishes the invariant: no client, no channel.
LEMMA InitIInv == Init => IInv
<1> SUFFICES ASSUME Init PROVE IInv
  OBVIOUS
<1>1. TypeOK
  BY NickAssumption DEF Init, TypeOK, DefaultNick, Task
<1>2. \A c \in Chan : ~IsObject(c)
  BY DEF Init, IsObject
<1>3. TaskOK /\ NothingLeftOver /\ ClosingHasOutput /\ OnlyDefaultNicksClash
  BY DEF Init, TaskOK, NothingLeftOver, ClosingHasOutput, OnlyDefaultNicksClash
<1> QED
  BY <1>1, <1>2, <1>3 DEF IInv, EntriesLive, NoEmptyChannel, RanksOfUsers, OneOwner,
     ShownSettingsExist

\* A null dereference changes nothing but up.
LEMMA SegfaultIInv ==
    ASSUME IInv, Segfault PROVE IInv'
<1>1. TypeOK'
  BY DEF IInv, Segfault, perClient, TypeOK
<1>2. ClientsOK'
  BY DEF IInv, Segfault, perClient, ClientsOK, TaskOK, NothingLeftOver, ClosingHasOutput,
         OnlyDefaultNicksClash, Found
<1>3. EntriesLive'
  BY DEF IInv, Segfault, perClient, EntriesLive, IsObject
<1>4. ChannelsSound'
  BY ChannelsSoundThen DEF Segfault, ChannelsSound, IsObject
<1> QED
  BY <1>1, <1>2, <1>3, <1>4, IInvNext

LEMMA StutterIInv ==
    ASSUME IInv, UNCHANGED vars PROVE IInv'
<1>1. TypeOK'
  BY DEF IInv, vars, perClient, TypeOK
<1>2. ClientsOK'
  BY DEF IInv, vars, perClient, ClientsOK, TaskOK, NothingLeftOver, ClosingHasOutput,
         OnlyDefaultNicksClash, Found
<1>3. EntriesLive'
  BY DEF IInv, vars, perClient, EntriesLive, IsObject
<1>4. ChannelsSound'
  BY ChannelsSoundThen DEF vars, ChannelsSound, IsObject
<1> QED
  BY <1>1, <1>2, <1>3, <1>4, IInvNext

\* The client of a running loop is connected, registered and not closing.
LEMMA RunningClient ==
    ASSUME IInv, NEW f \in Fd, NEW verb \in LoopVerb, Running(f, verb)
    PROVE  /\ f \in connected /\ f \in registered /\ f \notin closing
           /\ task # NoTask /\ task.verb = verb /\ up
<1>1. task.verb = verb /\ task.fd = f /\ up
  BY DEF Running, Ready
<1>2. NoTask.verb = "none"
  BY DEF NoTask
<1>3. task # NoTask
  BY <1>1, <1>2 DEF LoopVerb
<1> QED
  BY <1>1, <1>3 DEF IInv, TaskOK

LEMMA CommandClient ==
    ASSUME NEW f \in Fd, NEW verb, Command(f, verb)
    PROVE  /\ f \in connected /\ f \in registered /\ f \notin closing
           /\ task = NoTask /\ up
BY DEF Command, Ready

\* However a loop goes on, its task is well formed.
LEMMA LoopTask ==
    ASSUME NEW f \in Fd, f \in connected, f \in registered, f \notin closing,
           NEW verb \in LoopVerb, NEW c \in Chan \cup {0}, NEW last \in Nick \cup {""},
           verb = "KICK" => c \in Chan,
           verb = "MODE" => c \in Chan /\ Found(c)',
           Loop(f, verb, c, last),
           UNCHANGED perClient
    PROVE  task' \in Task /\ TaskOK'
<1> DEFINE t == [verb |-> verb, fd |-> f, chan |-> c, last |-> last]
<1>1. t \in Task
  BY DEF Task
<1>2. CASE task' = NoTask
  BY <1>2 DEF Task, TaskOK
<1>3. CASE task' = t
  BY <1>1, <1>3 DEF TaskOK, perClient
<1> QED
  BY <1>2, <1>3 DEF Loop

LEMMA OneStepTask ==
    ASSUME OneStep PROVE task' \in Task /\ TaskOK'
BY DEF OneStep, Task, TaskOK

--------------------------------------------------------------------------------
(* Steps that leave the clients alone. *)

\* Output for connected clients, and in each channel nothing new but what the
\* operations on a channel may do to one that keeps (some of) its users.
LEMMA ChannelStep ==
    ASSUME IInv,
           UNCHANGED <<up, perClient, joined>>,
           NEW S \in SUBSET connected, sendData' = sendData \cup S,
           task' \in Task /\ TaskOK',
           channels' \in [Chan -> ChannelState \cup {Absent, Null}],
           \A c \in Chan :
              \/ channels'[c] = channels[c]
              \/ channels'[c] \in {Absent, Null}
              \/ /\ Sound(channels'[c]) /\ Members(channels'[c]) # {}
                 /\ IsObject(c)
                 /\ \A n \in Members(channels'[c]) :
                       channels'[c].users[n] = channels[c].users[n]
    PROVE  IInv'
<1>1. connected \subseteq Fd
  BY DEF IInv, TypeOK
<1>2. TypeOK'
  BY <1>1 DEF IInv, TypeOK, perClient
<1>3. ClientsOK'
  BY DEF IInv, perClient, ClientsOK, NothingLeftOver, ClosingHasOutput,
         OnlyDefaultNicksClash
<1>4. ChannelsSound'
  BY ChannelsSoundThen DEF ChannelsSound, IsObject
<1>5. EntriesLive'
  <2> SUFFICES ASSUME NEW c \in Chan, IsObject(c)',
                      NEW n \in Members(channels'[c])
               PROVE  LET f == channels'[c].users[n]
                      IN  /\ f \in connected /\ f \in registered
                          /\ nick[f] = n
                          /\ c \in joined[f]
    BY DEF EntriesLive, perClient
  <2>1. /\ IsObject(c) /\ channels'[c].users[n] = channels[c].users[n]
        /\ n \in Members(channels[c])
    BY DEF IsObject, Members
  <2> QED
    BY <2>1 DEF IInv, EntriesLive
<1> QED
  BY <1>2, <1>3, <1>4, <1>5, IInvNext

\* One channel changes.
LEMMA OneChannelStep ==
    ASSUME IInv,
           UNCHANGED <<up, perClient, joined>>,
           NEW S \in SUBSET connected, sendData' = sendData \cup S,
           task' \in Task /\ TaskOK',
           NEW c \in Chan, IsObject(c), NEW new,
           channels' = [channels EXCEPT ![c] = new],
           \/ new = Absent
           \/ /\ Sound(new) /\ Members(new) # {}
              /\ \A n \in Members(new) : new.users[n] = channels[c].users[n]
    PROVE  IInv'
<1>1. channels \in [Chan -> ChannelState \cup {Absent, Null}]
  BY DEF IInv, TypeOK
<1>2. channels' \in [Chan -> ChannelState \cup {Absent, Null}]
  BY <1>1 DEF Sound
<1>3. channels'[c] = new /\ \A d \in Chan \ {c} : channels'[d] = channels[d]
  BY <1>1
<1> QED
  BY <1>2, <1>3, ChannelStep

\* A handler that only answers its sender.
LEMMA AnswerStep ==
    ASSUME IInv, NEW S \in SUBSET connected, sendData' = sendData \cup S,
           UNCHANGED <<up, perClient, joined, channels>>,
           task' \in Task /\ TaskOK'
    PROVE  IInv'
<1>1. channels' \in [Chan -> ChannelState \cup {Absent, Null}]
  BY DEF IInv, TypeOK
<1> QED
  BY <1>1, ChannelStep

LEMMA ReplyOnlyIInv ==
    ASSUME IInv, NEW f \in connected, ReplyOnly(f), task' \in Task /\ TaskOK'
    PROVE  IInv'
BY AnswerStep DEF ReplyOnly, Send

\* The users an operator leaves on a channel it changed are those it had.
LEMMA SameUsers ==
    ASSUME NEW ch, NEW new, new.users = ch.users
    PROVE  /\ Members(new) = Members(ch)
           /\ \A n \in Members(new) : new.users[n] = ch.users[n]
BY DEF Members

--------------------------------------------------------------------------------
(* Connections *)

LEMMA AcceptIInv ==
    ASSUME IInv, NEW f \in Fd, Accept(f) PROVE IInv'
<1> USE DEF Accept
<1>1. TypeOK'
  BY NickAssumption DEF IInv, TypeOK, DefaultNick
<1>2. f \notin registered /\ f \notin closing /\ f \notin sendData
  BY DEF IInv, NothingLeftOver
<1>3. TaskOK' /\ NothingLeftOver' /\ ClosingHasOutput'
  BY <1>2 DEF IInv, TypeOK, TaskOK, NothingLeftOver, ClosingHasOutput, NoTask, Found
<1>4. OnlyDefaultNicksClash'
  BY DEF IInv, TypeOK, OnlyDefaultNicksClash, DefaultNick
<1>5. EntriesLive'
  BY <1>2 DEF IInv, TypeOK, EntriesLive, IsObject
<1>6. ChannelsSound'
  BY ChannelsSoundThen DEF ChannelsSound, IsObject
<1> QED
  BY <1>1, <1>3, <1>4, <1>5, <1>6, IInvNext DEF ClientsOK

LEMMA PassAcceptedIInv ==
    ASSUME IInv, NEW f \in Fd, PassAccepted(f) PROVE IInv'
<1> USE DEF PassAccepted, Ready, Send
<1>1. TypeOK'
  BY DEF IInv, TypeOK
<1>2. ClientsOK'
  BY DEF IInv, TypeOK, ClientsOK, TaskOK, NothingLeftOver, ClosingHasOutput,
         OnlyDefaultNicksClash, Found
<1>3. EntriesLive'
  BY DEF IInv, EntriesLive, IsObject
<1>4. ChannelsSound'
  BY ChannelsSoundThen DEF ChannelsSound, IsObject
<1> QED
  BY <1>1, <1>2, <1>3, <1>4, IInvNext

LEMMA PassRefusedIInv ==
    ASSUME IInv, NEW f \in Fd, PassRefused(f) PROVE IInv'
<1> USE DEF PassRefused, Ready, Send
<1>1. TypeOK'
  BY DEF IInv, TypeOK
<1>2. ClientsOK'
  BY DEF IInv, TypeOK, ClientsOK, TaskOK, NothingLeftOver, ClosingHasOutput,
         OnlyDefaultNicksClash, Found
<1>3. EntriesLive'
  BY DEF IInv, EntriesLive, IsObject
<1>4. ChannelsSound'
  BY ChannelsSoundThen DEF ChannelsSound, IsObject
<1> QED
  BY <1>1, <1>2, <1>3, <1>4, IInvNext

LEMMA HandleReplyOnlyIInv ==
    ASSUME IInv, NEW f \in Fd, HandleReplyOnly(f) PROVE IInv'
BY ReplyOnlyIInv, OneStepTask DEF HandleReplyOnly, Ready

\* disconnectClient: the entries that remain are those of other clients, because
\* every entry of the client is under its nickname in a channel of its own map.
LEMMA DisconnectIInv ==
    ASSUME IInv, NEW f \in Fd, f \in connected, task = NoTask, Disconnect(f)
    PROVE  IInv'
<1>1. CASE Segfault
  BY <1>1, SegfaultIInv
<1>2. CASE ~Segfault
  <2> DEFINE n == nick[f]
             left(c) == DeleteClient(channels[c], n)
  <2>1. /\ \A c \in joined[f] : IsObject(c)
        /\ channels' = [c \in Chan |-> IF c \in joined[f] THEN OrAbsent(left(c))
                                       ELSE channels[c]]
        /\ sendData' = sendData \ {f}
        /\ connected' = connected \ {f}
        /\ registered' = registered \ {f}
        /\ closing' = closing \ {f}
        /\ nick' = [nick EXCEPT ![f] = DefaultNick(f)]
        /\ joined' = [joined EXCEPT ![f] = {}]
        /\ up' = up /\ task' = task
    BY <1>2 DEF Disconnect
  <2>2. n \in Nick /\ joined[f] \subseteq Chan
    BY DEF IInv, TypeOK
  <2>3. \A c \in joined[f] :
           /\ Sound(left(c)) /\ Members(left(c)) = Members(channels[c]) \ {n}
           /\ \A m \in Nick \ {n} : left(c).users[m] = channels[c].users[m]
    BY <2>1, <2>2, ChannelsSoundThen, DeleteSound DEF ChannelsSound
  <2>4. \A c \in joined[f] : \/ channels'[c] = Absent
                             \/ channels'[c] = left(c) /\ Members(left(c)) # {}
    BY <2>1, <2>2 DEF OrAbsent
  <2>5. \A c \in Chan : c \notin joined[f] => channels'[c] = channels[c]
    BY <2>1
  <2>6. TypeOK'
    <3>1. channels' \in [Chan -> ChannelState \cup {Absent, Null}]
      <4>1. \A c \in Chan : channels'[c] \in ChannelState \cup {Absent, Null}
        BY <2>3, <2>4, <2>5 DEF IInv, TypeOK, Sound
      <4> QED
        BY <2>1, <4>1
    <3> QED
      BY <2>1, <3>1, NickAssumption DEF IInv, TypeOK, DefaultNick
  <2>7. ClientsOK'
    BY <2>1 DEF IInv, TypeOK, ClientsOK, TaskOK, NothingLeftOver, ClosingHasOutput,
                OnlyDefaultNicksClash
  <2>8. ChannelsSound'
    BY <2>3, <2>4, <2>5, ChannelsSoundThen DEF ChannelsSound, IsObject
  <2>9. EntriesLive'
    <3> SUFFICES ASSUME NEW c \in Chan, IsObject(c)', NEW m \in Members(channels'[c])
                 PROVE  LET g == channels'[c].users[m]
                        IN  /\ g \in connected' /\ g \in registered'
                            /\ nick'[g] = m
                            /\ c \in joined'[g]
      BY DEF EntriesLive
    <3> DEFINE g == channels'[c].users[m]
    <3>1. /\ IsObject(c) /\ m \in Members(channels[c]) /\ channels[c].users[m] = g
          /\ c \in joined[f] => m # n
      <4>1. CASE c \in joined[f]
        <5>1. IsObject(c) /\ channels'[c] = left(c)
          BY <2>1, <2>4, <4>1 DEF IsObject
        <5>2. m \in Nick \ {n} /\ m \in Members(channels[c])
          BY <2>3, <4>1, <5>1 DEF Members
        <5> QED
          BY <2>3, <4>1, <5>1, <5>2
      <4>2. CASE c \notin joined[f]
        BY <2>5, <4>2 DEF IsObject
      <4> QED
        BY <4>1, <4>2
    <3>2. g \in connected /\ g \in registered /\ nick[g] = m /\ c \in joined[g]
      BY <3>1 DEF IInv, EntriesLive
    <3>3. g # f
      BY <3>1, <3>2
    <3> QED
      BY <2>1, <3>2, <3>3 DEF IInv, TypeOK
  <2> QED
    BY <2>6, <2>7, <2>8, <2>9, IInvNext
<1> QED
  BY <1>1, <1>2

LEMMA ClientGoneIInv ==
    ASSUME IInv, NEW f \in Fd, ClientGone(f) PROVE IInv'
BY DisconnectIInv DEF ClientGone

\* Output is discarded for a client that is not closing only.
LEMMA WriteReadyIInv ==
    ASSUME IInv, NEW f \in Fd, WriteReady(f) PROVE IInv'
<1>1. CASE Disconnect(f)
  BY <1>1, DisconnectIInv DEF WriteReady
<1>2. CASE ~Disconnect(f)
  <2>1. /\ f \notin closing /\ sendData' = sendData \ {f}
        /\ UNCHANGED <<up, perClient, joined, channels, task>>
    BY <1>2 DEF WriteReady
  <2>2. TypeOK'
    BY <2>1 DEF IInv, TypeOK, perClient
  <2>3. ClientsOK'
    BY <2>1 DEF IInv, ClientsOK, TaskOK, NothingLeftOver, ClosingHasOutput,
                OnlyDefaultNicksClash, Found, perClient
  <2>4. EntriesLive'
    BY <2>1 DEF IInv, EntriesLive, IsObject, perClient
  <2>5. ChannelsSound'
    BY <2>1, ChannelsSoundThen DEF ChannelsSound, IsObject
  <2> QED
    BY <2>2, <2>3, <2>4, <2>5, IInvNext
<1> QED
  BY <1>1, <1>2

\* QUIT marks the client and gives it output.
LEMMA HandleQuitIInv ==
    ASSUME IInv, NEW f \in Fd, HandleQuit(f) PROVE IInv'
<1>1. CASE Segfault
  BY <1>1, SegfaultIInv
<1>2. CASE ~Segfault
  <2> DEFINE S == {f} \cup UNION {Sockets(channels[c]) : c \in joined[f]}
  <2>1. /\ \A c \in joined[f] : IsObject(c)
        /\ sendData' = sendData \cup S
        /\ closing' = closing \cup {f}
        /\ UNCHANGED <<up, connected, registered, nick, joined, channels, task>>
    BY <1>2 DEF HandleQuit, Send
  <2>2. f \in connected /\ task = NoTask
    BY CommandClient DEF HandleQuit
  <2>3. S \subseteq connected
    <3>1. joined[f] \subseteq Chan
      BY DEF IInv, TypeOK
    <3> QED
      BY <2>1, <2>2, <3>1, SocketsConnected
  <2>4. TypeOK'
    BY <2>1, <2>3 DEF IInv, TypeOK
  <2>5. ClientsOK'
    <3> HIDE DEF S
    <3>1. f \in S
      BY DEF S
    <3> QED
      BY <2>1, <2>2, <2>3, <3>1 DEF IInv, ClientsOK, TaskOK, NothingLeftOver,
         ClosingHasOutput, OnlyDefaultNicksClash
  <2>6. EntriesLive'
    BY <2>1 DEF IInv, EntriesLive, IsObject
  <2>7. ChannelsSound'
    BY <2>1, ChannelsSoundThen DEF ChannelsSound, IsObject
  <2> QED
    BY <2>4, <2>5, <2>6, <2>7, IInvNext
<1> QED
  BY <1>1, <1>2

--------------------------------------------------------------------------------
(* Names *)

\* A renamed entry keeps a channel sound: the rank moves to the new nickname only
\* after the old one has lost it.
LEMMA RenamedSound ==
    ASSUME IInv, NEW f \in Fd, NEW n \in Nick, NEW c \in Chan, IsObject(c)
    PROVE  /\ Sound(Renamed(channels[c], f, n))
           /\ Members(Renamed(channels[c], f, n)) =
                 (Members(channels[c]) \ {nick[f]}) \cup {n}
           /\ Renamed(channels[c], f, n).users[n] = f
           /\ \A m \in Nick \ {n, nick[f]} :
                 Renamed(channels[c], f, n).users[m] = channels[c].users[m]
<1> DEFINE ch == channels[c]
           b == nick[f]
           left == DeleteClient(ch, b)
           rank == RankOf(ch, b)
<1>1. Sound(ch) /\ b \in Nick
  BY ChannelsSoundThen DEF ChannelsSound, IInv, TypeOK
<1>2. rank \in 0..COMMON
  BY <1>1, RankOfType DEF Sound
<1>3. /\ Sound(left) /\ Members(left) = Members(ch) \ {b}
      /\ \A m \in Nick \ {b} : left.users[m] = ch.users[m] /\ left.auth[m] = ch.auth[m]
      /\ left.auth[b] = NoAuth
  BY <1>1, DeleteSound
<1>4. rank = OWNER => \A m \in Nick : left.auth[m] # OWNER
  <2> SUFFICES ASSUME rank = OWNER, NEW m \in Nick, left.auth[m] = OWNER PROVE FALSE
    OBVIOUS
  <2>1. m # b /\ ch.auth[m] = OWNER
    BY <1>3 DEF OWNER, NoAuth
  <2>2. ch.auth[b] = OWNER
    BY DEF RankOf, OWNER
  <2> QED
    BY <1>1, <2>1, <2>2 DEF Sound, SingleOwner
<1>5. Renamed(ch, f, n) = JoinClient(left, n, f, rank)
  BY DEF Renamed
<1> HIDE DEF left, rank
<1>6. /\ Sound(JoinClient(left, n, f, rank))
      /\ Members(JoinClient(left, n, f, rank)) = Members(left) \cup {n}
      /\ JoinClient(left, n, f, rank).users[n] = f
      /\ \A m \in Nick \ {n} : JoinClient(left, n, f, rank).users[m] = left.users[m]
  BY <1>2, <1>3, <1>4, JoinSound
<1> QED
  BY <1>3, <1>5, <1>6

LEMMA HandleNickIInv ==
    ASSUME IInv, NEW f \in Fd, NEW n \in Nick, HandleNick(f, n) PROVE IInv'
<1>1. f \in connected /\ f \in registered /\ f \notin closing /\ task = NoTask
  BY CommandClient DEF HandleNick
<1>2. CASE Segfault
  BY <1>2, SegfaultIInv
<1>3. CASE ReplyOnly(f)
  BY <1>1, <1>3, ReplyOnlyIInv, OneStepTask DEF HandleNick
<1>4. CASE ~Segfault /\ ~ReplyOnly(f)
  <2> DEFINE new(c) == Renamed(channels[c], f, n)
             S == {f} \cup UNION {Sockets(new(c)) : c \in joined[f]}
  <2>1. /\ ~IsClient(n)
        /\ \A c \in joined[f] : IsObject(c)
        /\ nick' = [nick EXCEPT ![f] = n]
        /\ channels' = [c \in Chan |-> IF c \in joined[f] THEN new(c) ELSE channels[c]]
        /\ sendData' = sendData \cup S
        /\ UNCHANGED <<up, connected, registered, closing, joined>>
        /\ task' = NoTask
    BY <1>4 DEF HandleNick, Send, OneStep
  <2>2. joined[f] \subseteq Chan /\ nick[f] \in Nick
    BY DEF IInv, TypeOK
  <2>3. \A c \in joined[f] :
           /\ Sound(new(c)) /\ Members(new(c)) = (Members(channels[c]) \ {nick[f]}) \cup {n}
           /\ new(c).users[n] = f
           /\ \A m \in Nick \ {n, nick[f]} : new(c).users[m] = channels[c].users[m]
    <3> SUFFICES ASSUME NEW c \in joined[f]
                 PROVE  /\ Sound(new(c))
                        /\ Members(new(c)) = (Members(channels[c]) \ {nick[f]}) \cup {n}
                        /\ new(c).users[n] = f
                        /\ \A m \in Nick \ {n, nick[f]} :
                              new(c).users[m] = channels[c].users[m]
      OBVIOUS
    <3>1. c \in Chan /\ IsObject(c)
      BY <2>1, <2>2
    <3> QED
      BY <2>1, <3>1, RenamedSound
  <2> HIDE DEF new
  <2>4. \A c \in Chan : \A m \in Members(channels[c]) :
           IsObject(c) => LET g == channels[c].users[m]
                          IN  g \in connected /\ g \in registered /\ nick[g] = m /\ c \in joined[g]
    BY DEF IInv, EntriesLive
  <2>5. S \subseteq connected
    <3> SUFFICES ASSUME NEW c \in joined[f], NEW m \in Members(new(c))
                 PROVE  new(c).users[m] \in connected
      BY <1>1 DEF Sockets
    <3>1. CASE m = n
      BY <1>1, <2>3, <3>1
    <3>2. CASE m # n
      BY <2>1, <2>2, <2>3, <2>4, <3>2 DEF Members
    <3> QED
      BY <3>1, <3>2
  <2> HIDE DEF S
  <2>6. TypeOK'
    <3>1. \A c \in Chan : channels'[c] \in ChannelState \cup {Absent, Null}
      BY <2>1, <2>3 DEF IInv, TypeOK, Sound
    <3>2. channels' \in [Chan -> ChannelState \cup {Absent, Null}]
      BY <2>1, <3>1
    <3> QED
      BY <2>1, <2>5, <3>2 DEF IInv, TypeOK, Task
  <2>7. ClientsOK'
    <3>1. TaskOK' /\ NothingLeftOver' /\ ClosingHasOutput'
      BY <2>1, <2>5 DEF IInv, TaskOK, NothingLeftOver, ClosingHasOutput
    <3>2. OnlyDefaultNicksClash'
      BY <2>1 DEF IInv, TypeOK, OnlyDefaultNicksClash, IsClient
    <3> QED
      BY <3>1, <3>2 DEF ClientsOK
  <2>8. ChannelsSound'
    <3> SUFFICES ASSUME NEW c \in Chan, IsObject(c)'
                 PROVE  Sound(channels'[c]) /\ Members(channels'[c]) # {}
      BY DEF ChannelsSound
    <3>1. CASE c \in joined[f]
      BY <2>1, <2>3, <3>1
    <3>2. CASE c \notin joined[f]
      BY <2>1, <3>2, ChannelsSoundThen DEF ChannelsSound, IsObject
    <3> QED
      BY <3>1, <3>2
  <2>9. EntriesLive'
    <3> SUFFICES ASSUME NEW c \in Chan, IsObject(c)', NEW m \in Members(channels'[c])
                 PROVE  LET g == channels'[c].users[m]
                        IN  /\ g \in connected /\ g \in registered
                            /\ nick'[g] = m
                            /\ c \in joined[g]
      BY <2>1 DEF EntriesLive
    <3> DEFINE g == channels'[c].users[m]
    <3>0. m \in Nick
      BY DEF Members
    <3>1. CASE c \in joined[f] /\ m = n
      <4>1. g = f
        BY <2>1, <2>3, <3>1
      <4> QED
        BY <1>1, <2>1, <3>1, <4>1 DEF IInv, TypeOK
    <3>2. CASE c \in joined[f] /\ m # n
      <4>1. channels'[c] = new(c) /\ IsObject(c)
        BY <2>1, <3>2
      <4>2. m \in Members(channels[c]) /\ m # nick[f] /\ channels[c].users[m] = g
        BY <2>3, <3>0, <3>2, <4>1
      <4>3. g \in connected /\ g \in registered /\ nick[g] = m /\ c \in joined[g]
        BY <2>4, <4>1, <4>2
      <4>4. g # f
        BY <4>2, <4>3
      <4> QED
        BY <2>1, <4>3, <4>4 DEF IInv, TypeOK
    <3>3. CASE c \notin joined[f]
      <4>1. channels'[c] = channels[c] /\ IsObject(c)
        BY <2>1, <3>3 DEF IsObject
      <4>2. g \in connected /\ g \in registered /\ nick[g] = m /\ c \in joined[g]
        BY <2>4, <4>1
      <4>3. g # f
        BY <3>3, <4>2
      <4> QED
        BY <2>1, <4>2, <4>3 DEF IInv, TypeOK
    <3> QED
      BY <3>1, <3>2, <3>3
  <2> QED
    BY <2>6, <2>7, <2>8, <2>9, IInvNext
<1> QED
  BY <1>2, <1>3, <1>4

--------------------------------------------------------------------------------
(* Membership *)

\* Admission adds the nickname of the client, under the client itself unless the
\* nickname is there already.
LEMMA AdmittedSound ==
    ASSUME NEW ch, Sound(ch), NEW f \in Fd, nick[f] \in Nick, NEW key,
           ~Refused(ch, f, key)
    PROVE  /\ Sound(Admitted(ch, f))
           /\ Members(Admitted(ch, f)) = Members(ch) \cup {nick[f]}
           /\ nick[f] \notin Members(ch) => Admitted(ch, f).users[nick[f]] = f
           /\ \A m \in Members(ch) : Admitted(ch, f).users[m] = ch.users[m]
<1> DEFINE n == nick[f]
           invitee == IF "i" \in ch.modes THEN UseInvite(ch, n) ELSE ch
<1>1. Sound(invitee) /\ invitee.users = ch.users
  BY UseInviteSound DEF Refused
<1>2. Members(invitee) = Members(ch)
  BY <1>1 DEF Members
<1>3. Admitted(ch, f) = IF n \in Members(ch) THEN invitee ELSE JoinClient(invitee, n, f, COMMON)
  BY DEF Admitted
<1> HIDE DEF invitee
<1>4. COMMON \in 0..COMMON /\ COMMON # OWNER
  BY DEF COMMON, OWNER
<1>5. CASE n \in Members(ch)
  BY <1>1, <1>2, <1>3, <1>5
<1>6. CASE n \notin Members(ch)
  <2>1. /\ Sound(JoinClient(invitee, n, f, COMMON))
        /\ Members(JoinClient(invitee, n, f, COMMON)) = Members(invitee) \cup {n}
        /\ JoinClient(invitee, n, f, COMMON).users[n] = f
        /\ \A m \in Nick \ {n} : JoinClient(invitee, n, f, COMMON).users[m] = invitee.users[m]
    BY <1>1, <1>4, JoinSound
  <2>2. Members(ch) \subseteq Nick \ {n}
    BY <1>6 DEF Members
  <2> QED
    BY <1>1, <1>2, <1>3, <1>6, <2>1, <2>2
<1> QED
  BY <1>5, <1>6

\* A client is not refused by the channel it has just created.
LEMMA CreatorAdmitted ==
    ASSUME NEW n \in Nick, NEW f \in Fd, NEW key \in Key \cup {NoKey}, nick[f] = n
    PROVE  ~Refused(NewChannel(n, f, key), f, key)
<1>1. ~IsFull(NewChannel(n, f, key))
  BY NewChannelSound
<1>2. NewChannel(n, f, key).password = key /\ "i" \notin NewChannel(n, f, key).modes
  BY DEF NewChannel
<1> QED
  BY <1>1, <1>2 DEF Refused

LEMMA ClientJoinChannelIInv ==
    ASSUME IInv, NEW f \in Fd, NEW c \in Chan, NEW key \in Key \cup {NoKey},
           f \in connected, f \in registered, f \notin closing,
           ClientJoinChannel(f, c, key)
    PROVE  IInv'
<1> DEFINE ch == Target(f, c, key)
           n == nick[f]
<1>0. n \in Nick /\ channels \in [Chan -> ChannelState \cup {Absent, Null}]
  BY DEF IInv, TypeOK
<1>1. CASE channels[c] = Null
  BY <1>1, SegfaultIInv DEF ClientJoinChannel
<1>2. CASE channels[c] # Null /\ Refused(ch, f, key)
  <2>1. Found(c)
    BY <1>0, <1>2, CreatorAdmitted DEF Target
  <2>2. ch = channels[c]
    BY <2>1 DEF Target
  <2>3. /\ UNCHANGED <<up, perClient, joined>> /\ sendData' = sendData \cup {f}
        /\ channels' = [channels EXCEPT ![c] = ch]
        /\ Loop(f, "JOIN", 0, "")
    BY <1>2 DEF ClientJoinChannel, Send
  <2>4. channels' = channels
    BY <1>0, <2>2, <2>3
  <2>5. task' \in Task /\ TaskOK'
    BY <2>3, LoopTask DEF LoopVerb
  <2> QED
    BY <2>3, <2>4, <2>5, AnswerStep
<1>3. CASE channels[c] # Null /\ ~Refused(ch, f, key)
  <2> DEFINE new == Admitted(ch, f)
  <2>1. /\ UNCHANGED <<up, perClient>>
        /\ channels' = [channels EXCEPT ![c] = new]
        /\ joined' = [joined EXCEPT ![f] = @ \cup {c}]
        /\ sendData' = sendData \cup ({f} \cup Sockets(new))
        /\ Loop(f, "JOIN", 0, "")
    BY <1>3 DEF ClientJoinChannel, Send
  <2>2. /\ Sound(ch)
        /\ \A m \in Members(ch) : \/ IsObject(c) /\ m \in Members(channels[c])
                                                 /\ ch.users[m] = channels[c].users[m]
                                  \/ m = n /\ ch.users[m] = f
    <3>1. CASE Found(c)
      BY <1>3, <3>1, ChannelsSoundThen DEF Target, ChannelsSound, Found, IsObject
    <3>2. CASE ~Found(c)
      <4>1. ch = NewChannel(n, f, key)
        BY <3>2 DEF Target
      <4>2. Sound(ch) /\ Members(ch) = {n}
        BY <1>0, <4>1, NewChannelSound
      <4>3. ch.users[n] = f
        BY <1>0, <4>1 DEF NewChannel
      <4> QED
        BY <4>2, <4>3
    <3> QED
      BY <3>1, <3>2
  <2>3. /\ Sound(new) /\ Members(new) = Members(ch) \cup {n}
        /\ n \notin Members(ch) => new.users[n] = f
        /\ \A m \in Members(ch) : new.users[m] = ch.users[m]
    BY <1>0, <1>3, <2>2, AdmittedSound
  <2> HIDE DEF ch, new
  <2>4. \A m \in Members(new) :
           LET g == new.users[m]
           IN  /\ g \in connected /\ g \in registered
               /\ nick[g] = m
               /\ g = f \/ c \in joined[g]
    BY <2>2, <2>3 DEF IInv, EntriesLive
  <2>5. Sockets(new) \subseteq connected
    BY <2>4 DEF Sockets
  <2>6. channels'[c] = new /\ \A d \in Chan \ {c} : channels'[d] = channels[d]
    BY <1>0, <2>1
  <2>7. task' \in Task /\ TaskOK'
    BY <2>1, LoopTask DEF LoopVerb
  <2>8. TypeOK'
    <3>1. channels' \in [Chan -> ChannelState \cup {Absent, Null}]
      BY <1>0, <2>1, <2>3 DEF Sound
    <3> QED
      BY <2>1, <2>5, <2>7, <3>1 DEF IInv, TypeOK, perClient
  <2>9. ClientsOK'
    BY <2>1, <2>5, <2>7 DEF IInv, TypeOK, ClientsOK, NothingLeftOver, ClosingHasOutput,
                            OnlyDefaultNicksClash, perClient
  <2>10. ChannelsSound'
    BY <2>3, <2>6, ChannelsSoundThen DEF ChannelsSound, IsObject
  <2>11. EntriesLive'
    <3>1. connected' = connected /\ registered' = registered /\ nick' = nick
      BY <2>1 DEF perClient
    <3>2. /\ c \in joined'[f]
          /\ \A g \in Fd, d \in Chan : d \in joined[g] => d \in joined'[g]
      BY <2>1 DEF IInv, TypeOK
    <3> SUFFICES ASSUME NEW d \in Chan, IsObject(d)', NEW m \in Members(channels'[d])
                 PROVE  LET g == channels'[d].users[m]
                        IN  /\ g \in connected /\ g \in registered
                            /\ nick[g] = m
                            /\ d \in joined'[g]
      BY <3>1 DEF EntriesLive
    <3> DEFINE g == channels'[d].users[m]
    <3>3. CASE d = c
      BY <2>4, <2>6, <3>2, <3>3 DEF IInv, TypeOK
    <3>4. CASE d # c
      <4>1. channels'[d] = channels[d] /\ IsObject(d)
        BY <2>6, <3>4 DEF IsObject
      <4>2. g \in connected /\ g \in registered /\ nick[g] = m /\ d \in joined[g]
        BY <4>1 DEF IInv, EntriesLive
      <4> QED
        BY <3>2, <4>2 DEF IInv, TypeOK
    <3> QED
      BY <3>3, <3>4
  <2> QED
    BY <2>8, <2>9, <2>10, <2>11, IInvNext
<1> QED
  BY <1>1, <1>2, <1>3

LEMMA HandleJoinIInv ==
    ASSUME IInv, NEW f \in Fd, HandleJoin(f) PROVE IInv'
<1>1. f \in connected /\ f \in registered /\ f \notin closing
  BY CommandClient DEF HandleJoin
<1>2. CASE ReplyOnly(f) /\ OneStep
  BY <1>1, <1>2, ReplyOnlyIInv, OneStepTask
<1>3. CASE \E c \in HashChan, key \in Key \cup {NoKey} : ClientJoinChannel(f, c, key)
  BY <1>1, <1>3, ClientJoinChannelIInv, ChanAssumption
<1> QED
  BY <1>2, <1>3 DEF HandleJoin

LEMMA JoinNextIInv ==
    ASSUME IInv, NEW f \in Fd, JoinNext(f) PROVE IInv'
<1>1. f \in connected /\ f \in registered /\ f \notin closing
  BY RunningClient DEF JoinNext, LoopVerb
<1> QED
  BY <1>1, ClientJoinChannelIInv DEF JoinNext

\* The user that leaves is removed under its nickname, from the channel and from
\* its own map; a channel without users goes.
LEMMA LeaveChannelIInv ==
    ASSUME IInv, NEW f \in Fd, NEW c \in Chan, f \in connected,
           IsObject(c), LeaveChannel(f, c), task' \in Task /\ TaskOK'
    PROVE  IInv'
<1> DEFINE n == nick[f]
           left == DeleteClient(channels[c], n)
<1>0. n \in Nick /\ channels \in [Chan -> ChannelState \cup {Absent, Null}]
  BY DEF IInv, TypeOK
<1>1. /\ UNCHANGED <<up, perClient>>
      /\ sendData' = sendData \cup ({f} \cup Sockets(channels[c]))
      /\ joined' = [joined EXCEPT ![f] = @ \ {c}]
      /\ channels' = [channels EXCEPT ![c] = OrAbsent(left)]
  BY DEF LeaveChannel, Send
<1>2. Sockets(channels[c]) \subseteq connected
  BY SocketsConnected
<1>3. /\ Sound(left) /\ Members(left) = Members(channels[c]) \ {n}
      /\ \A m \in Nick \ {n} : left.users[m] = channels[c].users[m]
  BY <1>0, ChannelsSoundThen, DeleteSound DEF ChannelsSound
<1>4. /\ \/ channels'[c] = Absent
         \/ channels'[c] = left /\ Members(left) # {}
      /\ \A d \in Chan \ {c} : channels'[d] = channels[d]
  BY <1>0, <1>1 DEF OrAbsent
<1> HIDE DEF left
<1>5. TypeOK'
  <2>1. \A d \in Chan : channels'[d] \in ChannelState \cup {Absent, Null}
    BY <1>0, <1>3, <1>4 DEF Sound
  <2>2. channels' \in [Chan -> ChannelState \cup {Absent, Null}]
    BY <1>0, <1>1, <2>1
  <2> QED
    BY <1>1, <1>2, <2>2 DEF IInv, TypeOK, perClient
<1>6. ClientsOK'
  BY <1>1, <1>2 DEF IInv, TypeOK, ClientsOK, NothingLeftOver, ClosingHasOutput,
                    OnlyDefaultNicksClash, perClient
<1>7. ChannelsSound'
  BY <1>3, <1>4, ChannelsSoundThen DEF ChannelsSound, IsObject
<1>8. EntriesLive'
  <2> SUFFICES ASSUME NEW d \in Chan, IsObject(d)', NEW m \in Members(channels'[d])
               PROVE  LET g == channels'[d].users[m]
                      IN  /\ g \in connected /\ g \in registered
                          /\ nick[g] = m
                          /\ d \in joined'[g]
    BY <1>1 DEF EntriesLive, perClient
  <2> DEFINE g == channels'[d].users[m]
  <2>1. /\ IsObject(d) /\ m \in Members(channels[d]) /\ channels[d].users[m] = g
        /\ d = c => m # n
    BY <1>3, <1>4 DEF IsObject, Members
  <2>2. g \in connected /\ g \in registered /\ nick[g] = m /\ d \in joined[g]
    BY <2>1 DEF IInv, EntriesLive
  <2>3. d = c => g # f
    BY <2>1, <2>2
  <2> QED
    BY <1>1, <2>2, <2>3 DEF IInv, TypeOK
<1> QED
  BY <1>5, <1>6, <1>7, <1>8, IInvNext

LEMMA HandlePartIInv ==
    ASSUME IInv, NEW f \in Fd, HandlePart(f) PROVE IInv'
<1>1. f \in connected /\ f \in registered /\ f \notin closing
  BY CommandClient, RunningClient DEF HandlePart, LoopVerb
<1>2. PICK c \in Chan : PartChannel(f, c)
  BY DEF HandlePart
<1>3. CASE Segfault
  BY <1>3, SegfaultIInv
<1>4. CASE ReplyOnly(f) /\ OneStep
  BY <1>1, <1>4, ReplyOnlyIInv, OneStepTask
<1>5. CASE IsObject(c) /\ LeaveChannel(f, c) /\ Loop(f, "PART", 0, "")
  <2>1. UNCHANGED perClient
    BY <1>5 DEF LeaveChannel
  <2>2. task' \in Task /\ TaskOK'
    BY <1>1, <1>5, <2>1, LoopTask DEF LoopVerb
  <2> QED
    BY <1>1, <1>5, <2>2, LeaveChannelIInv
<1> QED
  BY <1>2, <1>3, <1>4, <1>5 DEF PartChannel

\* KICK removes an entry of one channel; the client's own map is left alone.
LEMMA KickedFromIInv ==
    ASSUME IInv, NEW f \in connected, NEW c \in Chan, NEW n \in Nick, IsObject(c),
           KickedFrom(f, c, n),
           task' \in Task /\ TaskOK'
    PROVE  IInv'
<1> DEFINE ch == channels[c]
           left == IF n \in Members(ch) THEN DeleteClient(ch, n) ELSE ch
<1>1. /\ UNCHANGED <<up, perClient, joined>>
      /\ sendData' = sendData \cup ({f} \cup Sockets(ch))
      /\ channels' = [channels EXCEPT ![c] = OrAbsent(left)]
  BY DEF KickedFrom, Send
<1>2. ({f} \cup Sockets(ch)) \in SUBSET connected
  BY SocketsConnected
<1>3. Sound(ch)
  BY ChannelsSoundThen DEF ChannelsSound
<1>4. Sound(left) /\ \A m \in Members(left) : left.users[m] = ch.users[m]
  BY <1>3, DeleteSound DEF Members
<1>5. \/ OrAbsent(left) = Absent
      \/ /\ Sound(OrAbsent(left)) /\ Members(OrAbsent(left)) # {}
         /\ \A m \in Members(OrAbsent(left)) : OrAbsent(left).users[m] = ch.users[m]
  BY <1>4 DEF OrAbsent
<1> QED
  BY <1>1, <1>2, <1>5, OneChannelStep

LEMMA KickStepIInv ==
    ASSUME IInv, NEW f \in Fd, NEW c \in Chan, NEW n \in Nick, NEW last \in Nick \cup {""},
           f \in connected, f \in registered, f \notin closing,
           KickStep(f, c, n, last)
    PROVE  IInv'
<1>1. CASE Segfault
  BY <1>1, SegfaultIInv
<1>2. CASE KickNick(f, c, n, last) /\ Loop(f, "KICK", c, last)
  <2>1. UNCHANGED perClient
    BY <1>2 DEF KickNick, ReplyOnly, KickedFrom
  <2>2. task' \in Task /\ TaskOK'
    BY <1>2, <2>1, LoopTask DEF LoopVerb
  <2>3. CASE ReplyOnly(f)
    BY <2>2, <2>3, ReplyOnlyIInv
  <2>4. CASE IsObject(c) /\ KickedFrom(f, c, n)
    BY <2>2, <2>4, KickedFromIInv
  <2> QED
    BY <1>2, <2>3, <2>4 DEF KickNick
<1> QED
  BY <1>1, <1>2 DEF KickStep

LEMMA HandleKickIInv ==
    ASSUME IInv, NEW f \in Fd, HandleKick(f) PROVE IInv'
<1>1. PICK n \in Nick :
         \/ /\ Command(f, "KICK")
            /\ \E c \in Chan, last \in Nick \cup {""} : KickStep(f, c, n, last)
         \/ Running(f, "KICK") /\ KickStep(f, task.chan, n, task.last)
  BY DEF HandleKick
<1>2. CASE Command(f, "KICK") /\ \E c \in Chan, last \in Nick \cup {""} : KickStep(f, c, n, last)
  BY <1>2, CommandClient, KickStepIInv
<1>3. CASE Running(f, "KICK") /\ KickStep(f, task.chan, n, task.last)
  <2>1. /\ f \in connected /\ f \in registered /\ f \notin closing
        /\ task # NoTask /\ task.verb = "KICK"
    BY <1>3, RunningClient DEF LoopVerb
  <2>2. task.chan \in Chan /\ task.last \in Nick \cup {""}
    BY <2>1 DEF IInv, TypeOK, Task, TaskOK
  <2> QED
    BY <1>3, <2>1, <2>2, KickStepIInv
<1> QED
  BY <1>1, <1>2, <1>3

LEMMA HandleInviteIInv ==
    ASSUME IInv, NEW f \in Fd, NEW c \in Chan, NEW n \in Nick, HandleInvite(f, c, n)
    PROVE  IInv'
<1>1. f \in connected
  BY CommandClient DEF HandleInvite
<1>2. CASE Segfault
  BY <1>2, SegfaultIInv
<1>3. CASE ReplyOnly(f) /\ OneStep
  BY <1>1, <1>3, ReplyOnlyIInv, OneStepTask
<1>4. CASE ~Segfault /\ ~(ReplyOnly(f) /\ OneStep)
  <2>1. /\ IsObject(c)
        /\ channels' = [channels EXCEPT ![c] = AddInvited(channels[c], n)]
        /\ \E g \in connected : sendData' = sendData \cup {f, g}
        /\ UNCHANGED <<up, perClient, joined>> /\ OneStep
    BY <1>4 DEF HandleInvite, Send
  <2>2. PICK g \in connected : sendData' = sendData \cup {f, g}
    BY <2>1
  <2>3. {f, g} \in SUBSET connected
    BY <1>1
  <2>4. Sound(channels[c]) /\ Members(channels[c]) # {}
    BY <2>1, ChannelsSoundThen DEF ChannelsSound
  <2>5. Sound(AddInvited(channels[c], n)) /\ AddInvited(channels[c], n).users = channels[c].users
    BY <2>4, AddInvitedSound
  <2>6. /\ Members(AddInvited(channels[c], n)) # {}
        /\ \A m \in Members(AddInvited(channels[c], n)) :
              AddInvited(channels[c], n).users[m] = channels[c].users[m]
    BY <2>4, <2>5, SameUsers
  <2>7. task' \in Task /\ TaskOK'
    BY <2>1, OneStepTask
  <2> QED
    BY <2>1, <2>2, <2>3, <2>5, <2>6, <2>7, OneChannelStep
<1> QED
  BY <1>2, <1>3, <1>4

--------------------------------------------------------------------------------
(* Modes *)

\* No letter changes the users of a channel, and every one keeps it sound.
LEMMA ModedSound ==
    ASSUME NEW ch, Sound(ch), NEW letter \in Letter, NEW moded \in Moded(ch, letter)
    PROVE  Sound(moded) /\ moded.users = ch.users
<1>1. CASE letter \in {"i", "t", "n"}
  <2>1. PICK on \in BOOLEAN : moded = ModeFlag(ch, on, letter)
    BY <1>1 DEF Moded
  <2> QED
    BY <1>1, <2>1, ModeFlagSound
<1>2. CASE letter = "k"
  <2>1. PICK on \in BOOLEAN, key \in Key : moded = ModeKey(ch, on, key)
    BY <1>2 DEF Moded
  <2> QED
    BY <2>1, ModeKeySound
<1>3. CASE letter = "l"
  <2>1. PICK on \in BOOLEAN, v \in LimitArg : moded = ModeLimit(ch, on, v)
    BY <1>3 DEF Moded
  <2> QED
    BY <2>1, ModeLimitSound, BoundAssumption
<1>4. CASE letter = "o"
  <2>1. PICK on \in BOOLEAN, n \in Nick : moded = ModeOp(ch, on, n)
    BY <1>4 DEF Moded
  <2> QED
    BY <2>1, ModeOpSound
<1> QED
  BY <1>1, <1>2, <1>3, <1>4, BoundAssumption DEF ModeLetter

LEMMA ModeStepIInv ==
    ASSUME IInv, NEW f \in connected, NEW c \in Chan, NEW letter \in Letter, IsObject(c),
           ModeStep(f, c, letter), UNCHANGED <<up, perClient, joined>>,
           task' \in Task /\ TaskOK'
    PROVE  IInv'
<1> DEFINE ch == channels[c]
           asked == AfterLookup(ch, nick[f])
<1>1. Sound(ch) /\ Members(ch) # {} /\ nick[f] \in Nick
  BY ChannelsSoundThen DEF ChannelsSound, IInv, TypeOK
<1>2. Sound(asked) /\ asked.users = ch.users
  BY <1>1, LookupSound
<1> HIDE DEF asked
<1>3. \E new : \E S \in SUBSET connected :
         /\ Sound(new) /\ new.users = ch.users
         /\ channels' = [channels EXCEPT ![c] = new]
         /\ sendData' = sendData \cup S
  <2>1. CASE ~IsOperator(ch, nick[f])
    <3>1. channels' = [channels EXCEPT ![c] = asked] /\ sendData' = sendData \cup {f}
      BY <2>1 DEF ModeStep, Send, asked
    <3> QED
      BY <1>2, <3>1
  <2>2. CASE IsOperator(ch, nick[f])
    <3>1. PICK moded \in Moded(asked, letter) :
             /\ channels' = [channels EXCEPT ![c] = moded]
             /\ sendData' = sendData \cup
                              ({f} \cup IF moded = asked THEN {} ELSE Sockets(asked))
      BY <2>2 DEF ModeStep, Send, asked
    <3>2. Sound(moded) /\ moded.users = ch.users
      BY <1>2, ModedSound
    <3>3. Sockets(asked) \subseteq connected
      BY <1>2, SocketsConnected DEF Sockets, Members
    <3>4. ({f} \cup IF moded = asked THEN {} ELSE Sockets(asked)) \in SUBSET connected
      BY <3>3
    <3> QED
      BY <3>1, <3>2, <3>4
  <2> QED
    BY <2>1, <2>2
<1>4. PICK new : \E S \in SUBSET connected :
         /\ Sound(new) /\ new.users = ch.users
         /\ channels' = [channels EXCEPT ![c] = new]
         /\ sendData' = sendData \cup S
  BY <1>3
<1>5. Members(new) # {} /\ \A m \in Members(new) : new.users[m] = channels[c].users[m]
  BY <1>1, <1>4, SameUsers
<1> QED
  BY <1>4, <1>5, OneChannelStep

LEMMA ModeLettersIInv ==
    ASSUME IInv, NEW f \in Fd, NEW c \in Chan, Found(c),
           f \in connected, f \in registered, f \notin closing,
           ModeLetters(f, c)
    PROVE  IInv'
<1>1. UNCHANGED perClient /\ Loop(f, "MODE", c, "")
  BY DEF ModeLetters, ReplyOnly
<1>2. Found(c)'
  <2>1. CASE ReplyOnly(f)
    BY <2>1 DEF ReplyOnly, Found
  <2>2. CASE \E letter \in Letter : IsObject(c) /\ ModeStep(f, c, letter)
    <3>1. PICK letter \in Letter : IsObject(c) /\ ModeStep(f, c, letter)
      BY <2>2
    <3> DEFINE asked == AfterLookup(channels[c], nick[f])
    <3>2. Sound(asked)
      BY <3>1, ChannelsSoundThen, LookupSound DEF ChannelsSound, IInv, TypeOK
    <3>3. channels \in [Chan -> ChannelState \cup {Absent, Null}]
      BY DEF IInv, TypeOK
    <3>4. \E new : Sound(new) /\ channels' = [channels EXCEPT ![c] = new]
      <4>1. CASE channels' = [channels EXCEPT ![c] = asked]
        BY <3>2, <4>1
      <4>2. CASE \E moded \in Moded(asked, letter) : channels' = [channels EXCEPT ![c] = moded]
        BY <3>2, <4>2, ModedSound
      <4> QED
        BY <3>1, <4>1, <4>2 DEF ModeStep
    <3> QED
      BY <3>3, <3>4, AbsentAssumption DEF Found, Sound
  <2> QED
    BY <2>1, <2>2 DEF ModeLetters
<1>3. task' \in Task /\ TaskOK'
  BY <1>1, <1>2, LoopTask DEF LoopVerb
<1>4. CASE ReplyOnly(f)
  BY <1>3, <1>4, ReplyOnlyIInv
<1>5. CASE \E letter \in Letter :
              IsObject(c) /\ ModeStep(f, c, letter) /\ UNCHANGED <<up, perClient, joined>>
  BY <1>3, <1>5, ModeStepIInv
<1> QED
  BY <1>4, <1>5 DEF ModeLetters

LEMMA HandleModeIInv ==
    ASSUME IInv, NEW f \in Fd, HandleMode(f) PROVE IInv'
<1>1. f \in connected /\ f \in registered /\ f \notin closing
  BY CommandClient, RunningClient DEF HandleMode, LoopVerb
<1>2. CASE Segfault
  BY <1>2, SegfaultIInv
<1>3. CASE ReplyOnly(f) /\ OneStep
  BY <1>1, <1>3, ReplyOnlyIInv, OneStepTask
<1>4. CASE \E c \in HashChan : Found(c) /\ ModeLetters(f, c)
  BY <1>1, <1>4, ModeLettersIInv, ChanAssumption
<1>5. CASE Running(f, "MODE") /\ ModeLetters(f, task.chan)
  <2>1. task # NoTask /\ task.verb = "MODE"
    BY <1>5, RunningClient DEF LoopVerb
  <2>2. task.chan \in Chan /\ Found(task.chan)
    BY <2>1 DEF IInv, TaskOK
  <2> QED
    BY <1>1, <1>5, <2>2, ModeLettersIInv
<1> QED
  BY <1>2, <1>3, <1>4, <1>5 DEF HandleMode

--------------------------------------------------------------------------------
(* Messages and queries *)

LEMMA HandleTopicIInv ==
    ASSUME IInv, NEW f \in Fd, NEW c \in Chan, HandleTopic(f, c) PROVE IInv'
<1>1. f \in connected
  BY CommandClient DEF HandleTopic
<1>2. CASE Segfault
  BY <1>2, SegfaultIInv
<1>3. CASE ReplyOnly(f) /\ OneStep
  BY <1>1, <1>3, ReplyOnlyIInv, OneStepTask
<1>4. CASE /\ IsObject(c) /\ Send({f} \cup Sockets(channels[c]))
           /\ UNCHANGED <<up, perClient, joined, channels>> /\ OneStep
  <2>1. {f} \cup Sockets(channels[c]) \in SUBSET connected
    BY <1>1, <1>4, SocketsConnected
  <2> QED
    BY <1>4, <2>1, OneStepTask, AnswerStep DEF Send
<1> QED
  BY <1>2, <1>3, <1>4 DEF HandleTopic

LEMMA HandlePrivmsgIInv ==
    ASSUME IInv, NEW f \in Fd, HandlePrivmsg(f) PROVE IInv'
<1>1. f \in connected
  BY CommandClient DEF HandlePrivmsg
<1>2. CASE Segfault
  BY <1>2, SegfaultIInv
<1>3. CASE ReplyOnly(f) /\ OneStep
  BY <1>1, <1>3, ReplyOnlyIInv, OneStepTask
<1>4. CASE \E S \in SUBSET connected : /\ Send(S) /\ OneStep
                                       /\ UNCHANGED <<up, perClient, joined, channels>>
  BY <1>4, OneStepTask, AnswerStep DEF Send
<1>5. ASSUME NEW c \in HashChan, MsgToChannel(f, c)
      PROVE  \/ Segfault
             \/ ReplyOnly(f) /\ OneStep
             \/ \E S \in SUBSET connected : /\ Send(S) /\ OneStep
                                            /\ UNCHANGED <<up, perClient, joined, channels>>
  <2>1. IsObject(c) => {f} \cup Sockets(channels[c]) \in SUBSET connected
    BY <1>1, SocketsConnected, ChanAssumption
  <2> QED
    BY <1>5, <2>1 DEF MsgToChannel
<1>6. ASSUME NEW n \in Nick, MsgToUser(f, n)
      PROVE  \E S \in SUBSET connected : /\ Send(S) /\ OneStep
                                         /\ UNCHANGED <<up, perClient, joined, channels>>
  BY <1>1, <1>6 DEF MsgToUser
<1> QED
  BY <1>2, <1>3, <1>4, <1>5, <1>6 DEF HandlePrivmsg

LEMMA HandleListIInv ==
    ASSUME IInv, NEW f \in Fd, HandleList(f) PROVE IInv'
<1>1. f \in connected
  BY CommandClient DEF HandleList
<1>2. CASE Segfault
  BY <1>2, SegfaultIInv
<1>3. CASE ReplyOnly(f) /\ OneStep
  BY <1>1, <1>3, ReplyOnlyIInv, OneStepTask
<1>4. CASE \E c \in Chan :
             /\ channels' = [channels EXCEPT ![c] = IF Found(c) THEN @ ELSE Null]
             /\ Send({f}) /\ UNCHANGED <<up, perClient, joined>> /\ OneStep
  <2>1. PICK c \in Chan :
             channels' = [channels EXCEPT ![c] = IF Found(c) THEN channels[c] ELSE Null]
    BY <1>4
  <2>2. channels \in [Chan -> ChannelState \cup {Absent, Null}]
    BY DEF IInv, TypeOK
  <2>3. channels' \in [Chan -> ChannelState \cup {Absent, Null}]
    BY <2>1, <2>2
  <2>4. \A d \in Chan : channels'[d] = channels[d] \/ channels'[d] \in {Absent, Null}
    BY <2>1, <2>2
  <2>5. {f} \in SUBSET connected /\ sendData' = sendData \cup {f}
    BY <1>1, <1>4 DEF Send
  <2> QED
    BY <1>4, <2>3, <2>4, <2>5, OneStepTask, ChannelStep
<1> QED
  BY <1>2, <1>3, <1>4 DEF HandleList

LEMMA HandleWhoIInv ==
    ASSUME IInv, NEW f \in Fd, HandleWho(f) PROVE IInv'
<1>1. f \in connected
  BY CommandClient DEF HandleWho
<1>2. CASE Segfault
  BY <1>2, SegfaultIInv
<1>3. CASE ReplyOnly(f) /\ OneStep
  BY <1>1, <1>3, ReplyOnlyIInv, OneStepTask
<1>4. ASSUME NEW n \in Nick, WhoNick(f, n), ~Segfault
      PROVE  IInv'
  <2> DEFINE asked == {FirstChannel(g) : g \in {g \in connected : nick[g] = n /\ joined[g] # {}}}
             new(c) == AfterLookup(channels[c], n)
  <2>1. /\ \A c \in asked : IsObject(c)
        /\ channels' = [c \in Chan |-> IF c \in asked THEN new(c) ELSE channels[c]]
        /\ Send({f}) /\ UNCHANGED <<up, perClient, joined>> /\ OneStep
    BY <1>4 DEF WhoNick
  <2> HIDE DEF asked
  <2>2. \A c \in Chan : c \in asked => Sound(channels[c]) /\ Members(channels[c]) # {}
    BY <2>1, ChannelsSoundThen DEF ChannelsSound
  <2>3. \A c \in Chan : c \in asked => Sound(new(c)) /\ new(c).users = channels[c].users
    BY <2>2, LookupSound
  <2> HIDE DEF new
  <2>4. \A c \in Chan : c \in asked =>
           /\ Members(new(c)) # {}
           /\ \A m \in Members(new(c)) : new(c).users[m] = channels[c].users[m]
    BY <2>2, <2>3, SameUsers
  <2>5. channels' \in [Chan -> ChannelState \cup {Absent, Null}]
    <3>1. \A c \in Chan : channels'[c] \in ChannelState \cup {Absent, Null}
      BY <2>1, <2>3 DEF IInv, TypeOK, Sound
    <3> QED
      BY <2>1, <3>1
  <2>6. \A c \in Chan :
           \/ channels'[c] = channels[c]
           \/ /\ Sound(channels'[c]) /\ Members(channels'[c]) # {}
              /\ IsObject(c)
              /\ \A m \in Members(channels'[c]) :
                    channels'[c].users[m] = channels[c].users[m]
    BY <2>1, <2>3, <2>4
  <2>7. {f} \in SUBSET connected /\ sendData' = sendData \cup {f}
    BY <1>1, <2>1 DEF Send
  <2> QED
    BY <2>1, <2>5, <2>6, <2>7, OneStepTask, ChannelStep
<1> QED
  BY <1>2, <1>3, <1>4 DEF HandleWho, WhoChannel

--------------------------------------------------------------------------------

\* Every step of the server keeps the invariant.
LEMMA NextIInv ==
    ASSUME IInv, [Next]_vars PROVE IInv'
<1>1. CASE UNCHANGED vars
  BY <1>1, StutterIInv
<1>2. ASSUME NEW f \in Fd,
             \/ Accept(f) \/ PassAccepted(f) \/ PassRefused(f) \/ HandleReplyOnly(f)
             \/ ClientGone(f) \/ WriteReady(f) \/ HandleQuit(f)
             \/ \E n \in Nick : HandleNick(f, n)
      PROVE  IInv'
  BY <1>2, AcceptIInv, PassAcceptedIInv, PassRefusedIInv, HandleReplyOnlyIInv,
     ClientGoneIInv, WriteReadyIInv, HandleQuitIInv, HandleNickIInv
<1>3. ASSUME NEW f \in Fd,
             \/ HandleJoin(f) \/ JoinNext(f) \/ HandlePart(f) \/ HandleKick(f)
             \/ \E c \in Chan, n \in Nick : HandleInvite(f, c, n)
             \/ HandleMode(f)
      PROVE  IInv'
  BY <1>3, HandleJoinIInv, JoinNextIInv, HandlePartIInv, HandleKickIInv, HandleInviteIInv,
     HandleModeIInv
<1>4. ASSUME NEW f \in Fd,
             \/ \E c \in Chan : HandleTopic(f, c)
             \/ HandlePrivmsg(f) \/ HandleList(f) \/ HandleWho(f)
      PROVE  IInv'
  BY <1>4, HandleTopicIInv, HandlePrivmsgIInv, HandleListIInv, HandleWhoIInv
<1> QED
  BY <1>1, <1>2, <1>3, <1>4 DEF Next

\* The inductive invariant holds in every reachable state, for every number of
\* sockets, nicknames and channels: it covers every handler of Server.cpp.
THEOREM Inductive == Spec => []IInv
<1>1. Init => IInv
  BY InitIInv
<1>2. IInv /\ [Next]_vars => IInv'
  BY NextIInv
<1> QED
  BY <1>1, <1>2, PTL DEF Spec

\* Type correctness: in particular no invitation is used that was not listed.
THEOREM TypeCorrect == Spec => []TypeOK
<1>1. IInv => TypeOK
  BY DEF IInv
<1> QED
  BY <1>1, Inductive, PTL

\* The copies of Client kept in a channel are those of clients that are connected
\* under that nickname: a broadcast never reaches a closed or reused socket.
THEOREM BroadcastsReachLiveClients == Spec => []EntriesLive
<1>1. IInv => EntriesLive
  BY DEF IInv
<1> QED
  BY <1>1, Inductive, PTL

\* The server never keeps a channel without users.
THEOREM ChannelsHaveUsers == Spec => []NoEmptyChannel
<1>1. IInv => NoEmptyChannel
  BY DEF IInv
<1> QED
  BY <1>1, Inductive, PTL

\* Ranks are those of users: lookups insert 0 only, and no user is without a rank.
THEOREM RanksAreSound == Spec => []RanksOfUsers
<1>1. IInv => RanksOfUsers
  BY DEF IInv
<1> QED
  BY <1>1, Inductive, PTL

\* However clients rename, promote, kick and leave, a channel has one owner at most.
THEOREM OwnersAreUnique == Spec => []OneOwner
<1>1. IInv => OneOwner
  BY DEF IInv
<1> QED
  BY <1>1, Inductive, PTL

\* A closing client always has the output whose sending disconnects it.
THEOREM ClosingIsFlushed == Spec => []ClosingHasOutput
<1>1. IInv => ClosingHasOutput
  BY DEF IInv
<1> QED
  BY <1>1, Inductive, PTL

\* A socket that is not connected has nothing of its last client: accept() can hand
\* out its number again.
THEOREM FreeSocketsAreClean == Spec => []NothingLeftOver
<1>1. IInv => NothingLeftOver
  BY DEF IInv
<1> QED
  BY <1>1, Inductive, PTL

\* Two clients with one nickname: it is the default nickname of one of them.
THEOREM ClashesAreOfDefaults == Spec => []OnlyDefaultNicksClash
<1>1. IInv => OnlyDefaultNicksClash
  BY DEF IInv
<1> QED
  BY <1>1, Inductive, PTL

================================================================================
