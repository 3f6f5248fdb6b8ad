---------------------------- MODULE ChatServerSteps ----------------------------
(***************************************************************************)
(* What no step of the chat server does, in a state that satisfies the      *)
(* inductive invariant of ChatServerProofs.                                 *)
(***************************************************************************)
EXTENDS ChatServerProofs, WellFoundedInduction

--------------------------------------------------------------------------------
(* What a handler does to a channel that stays: the settings change as MODE  *)
(* says, and no handler but JOIN and NICK adds a user.                       *)

Tells(old, new) ==
    /\ new.password # old.password => ("k" \in old.modes) # ("k" \in new.modes)
    /\ new.user_limit # old.user_limit => "l" \in old.modes \cup new.modes
    /\ HiddenKey(new) => HiddenKey(old)
    /\ HiddenLimit(new) => HiddenLimit(old)

SettingsTold ==
    \A c \in Chan : IsObject(c) /\ IsObject(c)' => Tells(channels[c], channels'[c])

AddsNobody(ch, new) == \A n \in Nick : new.users[n] \in {NoFd, ch.users[n]}

Keeps(ch, new) == AddsNobody(ch, new) /\ Tells(ch, new)

ChannelsKept ==
    \A c \in Chan : IsObject(c) /\ IsObject(c)' => Keeps(channels[c], channels'[c])

LEMMA SoundIsObject ==
    ASSUME NEW new, Sound(new) PROVE new \notin {Absent, Null}
BY AbsentAssumption DEF Sound

LEMMA SameTells ==
    ASSUME NEW ch, NEW new,
           new.modes = ch.modes, new.password = ch.password, new.user_limit = ch.user_limit
    PROVE  Tells(ch, new)
BY DEF Tells, HiddenKey, HiddenLimit

LEMMA SameKeeps ==
    ASSUME NEW ch, NEW new, new.users = ch.users,
           new.modes = ch.modes, new.password = ch.password, new.user_limit = ch.user_limit
    PROVE  Keeps(ch, new)
BY SameTells DEF Keeps, AddsNobody

LEMMA SameChannelsKept ==
    ASSUME UNCHANGED channels PROVE ChannelsKept
BY SameKeeps DEF ChannelsKept

LEMMA OneChannelKept ==
    ASSUME IInv, NEW c \in Chan, NEW new, channels' = [channels EXCEPT ![c] = new],
           IsObject(c) => new = Absent \/ Keeps(channels[c], new)
    PROVE  ChannelsKept
<1>1. channels \in [Chan -> ChannelState \cup {Absent, Null}]
  BY DEF IInv, TypeOK
<1>2. \A d \in Chan \ {c} : channels'[d] = channels[d]
  BY <1>1
<1>3. channels'[c] = new
  BY <1>1
<1> QED
  BY <1>2, <1>3, SameKeeps DEF ChannelsKept, IsObject

\* Deleting a client takes its own entry only.
LEMMA DeleteKeeps ==
    ASSUME NEW ch, Sound(ch), NEW n \in Nick
    PROVE  /\ Keeps(ch, DeleteClient(ch, n))
           /\ Keeps(ch, OrAbsent(DeleteClient(ch, n)))
              \/ OrAbsent(DeleteClient(ch, n)) = Absent
<1> DEFINE new == DeleteClient(ch, n)
<1>1. new.users[n] = NoFd
  BY DEF DeleteClient, Sound, ChannelState
<1>2. \A m \in Nick \ {n} : new.users[m] = ch.users[m]
  BY DeleteSound
<1>3. new.modes = ch.modes /\ new.password = ch.password /\ new.user_limit = ch.user_limit
  BY DEF DeleteClient, Sound, ChannelState
<1>4. Keeps(ch, new)
  BY <1>1, <1>2, <1>3, SameTells DEF Keeps, AddsNobody
<1> QED
  BY <1>4 DEF OrAbsent

LEMMA LookupKeeps ==
    ASSUME NEW ch, Sound(ch), NEW n \in Nick PROVE Keeps(ch, AfterLookup(ch, n))
<1>1. /\ AfterLookup(ch, n).users = ch.users /\ AfterLookup(ch, n).modes = ch.modes
      /\ AfterLookup(ch, n).password = ch.password
      /\ AfterLookup(ch, n).user_limit = ch.user_limit
  BY DEF AfterLookup, Sound, ChannelState
<1> QED
  BY <1>1, SameKeeps

\* k and l change with what they stand for, i, t, n and o leave it alone.
LEMMA ModedKeeps ==
    ASSUME NEW ch, Sound(ch), NEW letter \in Letter, NEW moded \in Moded(ch, letter)
    PROVE  Keeps(ch, moded)
<1>1. ch \in ChannelState
  BY DEF Sound
<1>2. AddsNobody(ch, moded)
  BY ModedSound DEF AddsNobody
<1>3. CASE letter \in {"i", "t", "n"}
  <2>1. PICK on \in BOOLEAN : moded = ModeFlag(ch, on, letter)
    BY <1>3 DEF Moded
  <2>2. /\ moded.password = ch.password /\ moded.user_limit = ch.user_limit
        /\ moded.modes = IF on THEN ch.modes \cup {letter} ELSE ch.modes \ {letter}
    BY <1>1, <2>1 DEF ModeFlag, ChannelState
  <2> QED
    BY <1>2, <1>3, <2>2 DEF Keeps, Tells, HiddenKey, HiddenLimit
<1>4. CASE letter = "k"
  <2>1. PICK on \in BOOLEAN, key \in Key : moded = ModeKey(ch, on, key)
    BY <1>4 DEF Moded
  <2>2. CASE moded = ch
    BY <2>2, SameKeeps
  <2>3. CASE "k" \notin ch.modes /\ moded = [ch EXCEPT !.password = key, !.modes = @ \cup {"k"}]
    <3>1. moded.user_limit = ch.user_limit /\ moded.modes = ch.modes \cup {"k"}
      BY <1>1, <2>3 DEF ChannelState
    <3> QED
      BY <1>2, <2>3, <3>1 DEF Keeps, Tells, HiddenKey, HiddenLimit
  <2>4. CASE "k" \in ch.modes /\ moded = [ch EXCEPT !.password = NoKey, !.modes = @ \ {"k"}]
    <3>1. /\ moded.user_limit = ch.user_limit /\ moded.modes = ch.modes \ {"k"}
          /\ moded.password = NoKey
      BY <1>1, <2>4 DEF ChannelState
    <3> QED
      BY <1>2, <2>4, <3>1 DEF Keeps, Tells, HiddenKey, HiddenLimit
  <2> QED
    BY <2>1, <2>2, <2>3, <2>4 DEF ModeKey
<1>5. CASE letter = "l"
  <2>1. PICK on \in BOOLEAN, v \in LimitArg : moded = ModeLimit(ch, on, v)
    BY <1>5 DEF Moded
  <2>2. CASE moded = ch
    BY <2>2, SameKeeps
  <2>3. CASE moded = [ch EXCEPT !.user_limit = v, !.modes = @ \cup {"l"}]
    <3>1. moded.password = ch.password /\ moded.modes = ch.modes \cup {"l"}
      BY <1>1, <2>3 DEF ChannelState
    <3> QED
      BY <1>2, <3>1 DEF Keeps, Tells, HiddenKey, HiddenLimit
  <2>4. CASE "l" \in ch.modes /\ moded = [ch EXCEPT !.user_limit = NoLimit, !.modes = @ \ {"l"}]
    <3>1. /\ moded.password = ch.password /\ moded.modes = ch.modes \ {"l"}
          /\ moded.user_limit = NoLimit
      BY <1>1, <2>4 DEF ChannelState
    <3> QED
      BY <1>2, <2>4, <3>1 DEF Keeps, Tells, HiddenKey, HiddenLimit
  <2> QED
    BY <2>1, <2>2, <2>3, <2>4 DEF ModeLimit
<1>6. CASE letter = "o"
  <2>1. PICK on \in BOOLEAN, n \in Nick : moded = ModeOp(ch, on, n)
    BY <1>6 DEF Moded
  <2>2. moded.modes = ch.modes /\ moded.password = ch.password /\ moded.user_limit = ch.user_limit
    BY <1>1, <2>1 DEF ModeOp, ChannelState
  <2> QED
    BY <1>2, <2>2, SameTells DEF Keeps
<1> QED
  BY <1>3, <1>4, <1>5, <1>6, BoundAssumption DEF ModeLetter

\* A client that leaves takes its entry out of the channels of its own map.
LEMMA DisconnectKept ==
    ASSUME IInv, NEW f \in Fd, Disconnect(f) PROVE ChannelsKept
<1>1. CASE Segfault
  BY <1>1, SameChannelsKept DEF Segfault
<1>2. CASE ~Segfault
  <2>1. channels' = [c \in Chan |-> IF c \in joined[f]
                                    THEN OrAbsent(DeleteClient(channels[c], nick[f]))
                                    ELSE channels[c]]
    BY <1>2 DEF Disconnect
  <2> SUFFICES ASSUME NEW c \in Chan, IsObject(c), IsObject(c)'
               PROVE  Keeps(channels[c], channels'[c])
    BY DEF ChannelsKept
  <2>2. Sound(channels[c]) /\ nick[f] \in Nick
    BY ChannelsSoundThen DEF ChannelsSound, IInv, TypeOK
  <2>3. CASE c \in joined[f]
    <3>1. channels'[c] = OrAbsent(DeleteClient(channels[c], nick[f])) /\ channels'[c] # Absent
      BY <2>1, <2>3 DEF IsObject
    <3> QED
      BY <2>2, <3>1, DeleteKeeps
  <2>4. CASE c \notin joined[f]
    BY <2>1, <2>4, SameKeeps
  <2> QED
    BY <2>3, <2>4
<1> QED
  BY <1>1, <1>2

LEMMA HandlePartKept ==
    ASSUME IInv, NEW f \in Fd, HandlePart(f) PROVE ChannelsKept
<1>1. PICK c \in Chan : PartChannel(f, c)
  BY DEF HandlePart
<1>2. CASE UNCHANGED channels
  BY <1>2, SameChannelsKept
<1>3. CASE IsObject(c) /\ LeaveChannel(f, c)
  <2>1. channels' = [channels EXCEPT ![c] = OrAbsent(DeleteClient(channels[c], nick[f]))]
    BY <1>3 DEF LeaveChannel
  <2>2. Sound(channels[c]) /\ nick[f] \in Nick
    BY <1>3, ChannelsSoundThen DEF ChannelsSound, IInv, TypeOK
  <2> QED
    BY <2>1, <2>2, DeleteKeeps, OneChannelKept
<1> QED
  BY <1>1, <1>2, <1>3 DEF PartChannel, ReplyOnly, Segfault

LEMMA KickStepKept ==
    ASSUME IInv, NEW f \in Fd, NEW c \in Chan, NEW n \in Nick, NEW last,
           KickStep(f, c, n, last)
    PROVE  ChannelsKept
<1>1. CASE UNCHANGED channels
  BY <1>1, SameChannelsKept
<1>2. CASE IsObject(c) /\ KickedFrom(f, c, n)
  <2> DEFINE ch == channels[c]
             left == OrAbsent(IF n \in Members(ch) THEN DeleteClient(ch, n) ELSE ch)
  <2>1. channels' = [channels EXCEPT ![c] = left]
    BY <1>2 DEF KickedFrom
  <2>2. Sound(ch)
    BY <1>2, ChannelsSoundThen DEF ChannelsSound
  <2>3. left = Absent \/ Keeps(ch, left)
    BY <2>2, DeleteKeeps, SameKeeps DEF OrAbsent
  <2> HIDE DEF left
  <2> QED
    BY <2>1, <2>3, OneChannelKept
<1> QED
  BY <1>1, <1>2 DEF KickStep, KickNick, ReplyOnly, Segfault

LEMMA HandleKickKept ==
    ASSUME IInv, NEW f \in Fd, HandleKick(f) PROVE ChannelsKept
<1>1. PICK n \in Nick :
         \/ Command(f, "KICK") /\ \E c \in Chan, last \in Nick \cup {""} : KickStep(f, c, n, last)
         \/ Running(f, "KICK") /\ KickStep(f, task.chan, n, task.last)
  BY DEF HandleKick
<1>2. CASE \E c \in Chan, last \in Nick \cup {""} : KickStep(f, c, n, last)
  BY <1>2, KickStepKept
<1>3. CASE Running(f, "KICK") /\ KickStep(f, task.chan, n, task.last)
  <2>1. task.chan \in Chan
    BY <1>3, RunningClient DEF LoopVerb, IInv, TaskOK
  <2> QED
    BY <1>3, <2>1, KickStepKept
<1> QED
  BY <1>1, <1>2, <1>3

LEMMA ModeLettersKept ==
    ASSUME IInv, NEW f \in Fd, NEW c \in Chan, ModeLetters(f, c) PROVE ChannelsKept
<1>1. CASE ReplyOnly(f)
  BY <1>1, SameChannelsKept DEF ReplyOnly
<1>2. CASE \E letter \in Letter : IsObject(c) /\ ModeStep(f, c, letter)
  <2>1. PICK letter \in Letter : IsObject(c) /\ ModeStep(f, c, letter)
    BY <1>2
  <2> DEFINE ch == channels[c]
             asked == AfterLookup(ch, nick[f])
  <2>2. Sound(ch) /\ nick[f] \in Nick
    BY <2>1, ChannelsSoundThen DEF ChannelsSound, IInv, TypeOK
  <2>3. /\ Sound(asked) /\ Keeps(ch, asked) /\ asked.users = ch.users
        /\ asked.modes = ch.modes /\ asked.password = ch.password
        /\ asked.user_limit = ch.user_limit
    BY <2>2, LookupSound, LookupKeeps DEF AfterLookup, Sound, ChannelState
  <2>4. CASE channels' = [channels EXCEPT ![c] = asked]
    BY <2>3, <2>4, OneChannelKept
  <2> HIDE DEF asked
  <2>5. CASE \E moded \in Moded(asked, letter) : channels' = [channels EXCEPT ![c] = moded]
    <3>1. PICK moded \in Moded(asked, letter) : channels' = [channels EXCEPT ![c] = moded]
      BY <2>5
    <3>2. Keeps(asked, moded)
      BY <2>3, ModedKeeps
    <3>3. Keeps(ch, moded)
      BY <2>3, <3>2 DEF Keeps, AddsNobody, Tells, HiddenKey, HiddenLimit
    <3> QED
      BY <3>1, <3>3, OneChannelKept
  <2> QED
    BY <2>1, <2>4, <2>5 DEF ModeStep, asked
<1> QED
  BY <1>1, <1>2 DEF ModeLetters

LEMMA HandleModeKept ==
    ASSUME IInv, NEW f \in Fd, HandleMode(f) PROVE ChannelsKept
<1>1. CASE UNCHANGED channels
  BY <1>1, SameChannelsKept
<1>2. CASE \E c \in HashChan : ModeLetters(f, c)
  BY <1>2, ModeLettersKept, ChanAssumption
<1>3. CASE Running(f, "MODE") /\ ModeLetters(f, task.chan)
  <2>1. task.chan \in Chan
    BY <1>3, RunningClient DEF LoopVerb, IInv, TaskOK
  <2> QED
    BY <1>3, <2>1, ModeLettersKept
<1> QED
  BY <1>1, <1>2, <1>3 DEF HandleMode, ReplyOnly, Segfault

LEMMA HandleInviteKept ==
    ASSUME IInv, NEW f \in Fd, NEW c \in Chan, NEW n \in Nick, HandleInvite(f, c, n)
    PROVE  ChannelsKept
<1>1. CASE UNCHANGED channels
  BY <1>1, SameChannelsKept
<1>2. CASE IsObject(c) /\ channels' = [channels EXCEPT ![c] = AddInvited(channels[c], n)]
  <2> DEFINE ch == channels[c]
  <2>1. ch \in ChannelState
    BY <1>2, ChannelsSoundThen DEF ChannelsSound, Sound
  <2>2. /\ AddInvited(ch, n).users = ch.users /\ AddInvited(ch, n).modes = ch.modes
        /\ AddInvited(ch, n).password = ch.password
        /\ AddInvited(ch, n).user_limit = ch.user_limit
    BY <2>1 DEF AddInvited, ChannelState
  <2>3. Keeps(ch, AddInvited(ch, n))
    BY <2>2, SameKeeps
  <2> QED
    BY <1>2, <2>3, OneChannelKept
<1> QED
  BY <1>1, <1>2 DEF HandleInvite, ReplyOnly, Segfault

\* LIST and WHO change entries of channels, but no users.
LEMMA HandleListKept ==
    ASSUME IInv, NEW f \in Fd, HandleList(f) PROVE ChannelsKept
<1>1. CASE UNCHANGED channels
  BY <1>1, SameChannelsKept
<1>2. CASE \E c \in Chan : channels' = [channels EXCEPT ![c] = IF Found(c) THEN @ ELSE Null]
  <2>1. PICK c \in Chan :
          channels' = [channels EXCEPT ![c] = IF Found(c) THEN channels[c] ELSE Null]
    BY <1>2
  <2>2. IsObject(c) => Keeps(channels[c], IF Found(c) THEN channels[c] ELSE Null)
    BY SameKeeps DEF IsObject, Found
  <2> QED
    BY <2>1, <2>2, OneChannelKept
<1> QED
  BY <1>1, <1>2 DEF HandleList, ReplyOnly, Segfault

LEMMA HandleWhoKept ==
    ASSUME IInv, NEW f \in Fd, HandleWho(f) PROVE ChannelsKept
<1>1. CASE UNCHANGED channels
  BY <1>1, SameChannelsKept
<1>2. ASSUME NEW n \in Nick, WhoNick(f, n), ~UNCHANGED channels
      PROVE  ChannelsKept
  <2> DEFINE asked == {FirstChannel(g) : g \in {g \in connected : nick[g] = n /\ joined[g] # {}}}
  <2>1. channels' = [c \in Chan |-> IF c \in asked THEN AfterLookup(channels[c], n)
                                    ELSE channels[c]]
    BY <1>2 DEF WhoNick, Segfault
  <2> HIDE DEF asked
  <2> SUFFICES ASSUME NEW c \in Chan, IsObject(c)
               PROVE  Keeps(channels[c], channels'[c])
    BY DEF ChannelsKept
  <2>2. Keeps(channels[c], AfterLookup(channels[c], n))
    BY ChannelsSoundThen, LookupKeeps DEF ChannelsSound
  <2> QED
    BY <2>1, <2>2, SameKeeps
<1> QED
  BY <1>1, <1>2 DEF HandleWho, WhoChannel, ReplyOnly, Segfault

\* JOIN adds a user, but not in the place of another one, and leaves the settings of
\* a channel that it found alone.
JoinKept ==
    \A c \in Chan : IsObject(c) /\ IsObject(c)' =>
        /\ \A n \in Members(channels[c]) : channels'[c].users[n] = channels[c].users[n]
        /\ Tells(channels[c], channels'[c])

LEMMA ClientJoinChannelKept ==
    ASSUME IInv, NEW f \in Fd, NEW c \in Chan, NEW key, ClientJoinChannel(f, c, key)
    PROVE  JoinKept
<1>1. CASE UNCHANGED channels
  BY <1>1, SameTells DEF JoinKept
<1>2. CASE ~UNCHANGED channels
  <2> DEFINE ch == Target(f, c, key)
  <2>1. \/ channels' = [channels EXCEPT ![c] = ch]
        \/ ~Refused(ch, f, key) /\ channels' = [channels EXCEPT ![c] = Admitted(ch, f)]
    BY <1>2 DEF ClientJoinChannel, Segfault
  <2>2. IsObject(c) => ch = channels[c] /\ Sound(ch)
    BY ChannelsSoundThen DEF Target, Found, IsObject, ChannelsSound
  <2>3. nick[f] \in Nick /\ channels \in [Chan -> ChannelState \cup {Absent, Null}]
    BY DEF IInv, TypeOK
  <2> HIDE DEF ch
  <2> SUFFICES ASSUME NEW d \in Chan, IsObject(d)
               PROVE  /\ \A n \in Members(channels[d]) :
                            channels'[d].users[n] = channels[d].users[n]
                      /\ Tells(channels[d], channels'[d])
    BY DEF JoinKept
  <2>4. CASE channels'[d] = channels[d]
    BY <2>4, SameTells
  <2>5. CASE d = c /\ ~Refused(ch, f, key) /\ channels' = [channels EXCEPT ![c] = Admitted(ch, f)]
    <3>1. ch = channels[d] /\ channels'[d] = Admitted(ch, f) /\ ch \in ChannelState /\ Sound(ch)
      BY <2>2, <2>3, <2>5 DEF Sound
    <3>2. \A n \in Members(ch) : Admitted(ch, f).users[n] = ch.users[n]
      BY <2>3, <2>5, <3>1, AdmittedSound
    <3>3. /\ Admitted(ch, f).modes = ch.modes /\ Admitted(ch, f).password = ch.password
          /\ Admitted(ch, f).user_limit = ch.user_limit
      BY <3>1 DEF Admitted, JoinClient, UseInvite, ChannelState
    <3> QED
      BY <3>1, <3>2, <3>3, SameTells
  <2> QED
    BY <2>1, <2>2, <2>3, <2>4, <2>5
<1> QED
  BY <1>1, <1>2

\* NICK moves entries and leaves the settings alone.
LEMMA HandleNickTells ==
    ASSUME IInv, NEW f \in Fd, NEW n \in Nick, HandleNick(f, n) PROVE SettingsTold
<1>1. CASE UNCHANGED channels
  BY <1>1, SameTells DEF SettingsTold
<1>2. CASE ~UNCHANGED channels
  <2>1. channels' = [c \in Chan |-> IF c \in joined[f] THEN Renamed(channels[c], f, n)
                                    ELSE channels[c]]
    BY <1>2 DEF HandleNick, ReplyOnly, Segfault
  <2> SUFFICES ASSUME NEW c \in Chan, IsObject(c)
               PROVE  Tells(channels[c], channels'[c])
    BY DEF SettingsTold
  <2> DEFINE ch == channels[c]
             renamed == Renamed(ch, f, n)
  <2>2. ch \in ChannelState
    BY ChannelsSoundThen DEF ChannelsSound, Sound
  <2>3. /\ renamed.modes = ch.modes /\ renamed.password = ch.password
        /\ renamed.user_limit = ch.user_limit
    BY <2>2 DEF Renamed, JoinClient, DeleteClient, ChannelState
  <2>4. channels'[c] = IF c \in joined[f] THEN renamed ELSE ch
    BY <2>1
  <2> HIDE DEF renamed
  <2> QED
    BY <2>3, <2>4, SameTells
<1> QED
  BY <1>1, <1>2

\* Every step is NICK, the admission of a client, or one that adds nobody.
LEMMA NextKept ==
    ASSUME IInv, [Next]_vars
    PROVE  \/ ChannelsKept
           \/ JoinKept /\ UNCHANGED nick
           \/ \E f \in Fd, n \in Nick : HandleNick(f, n)
<1>1. CASE UNCHANGED channels
  BY <1>1, SameChannelsKept
<1>2. ASSUME NEW f \in Fd, ~UNCHANGED channels,
             \/ Accept(f) \/ PassAccepted(f) \/ PassRefused(f) \/ HandleReplyOnly(f)
             \/ ClientGone(f) \/ WriteReady(f) \/ HandleQuit(f)
      PROVE  ChannelsKept
  <2>1. Disconnect(f)
    BY <1>2 DEF Accept, PassAccepted, PassRefused, HandleReplyOnly, ReplyOnly, ClientGone,
                WriteReady, HandleQuit, Segfault
  <2> QED
    BY <2>1, DisconnectKept
<1>3. ASSUME NEW f \in Fd, ~UNCHANGED channels, HandleJoin(f) \/ JoinNext(f)
      PROVE  JoinKept /\ UNCHANGED nick
  <2>1. PICK c \in Chan, key \in Key \cup {NoKey} : ClientJoinChannel(f, c, key)
    BY <1>3, ChanAssumption DEF HandleJoin, JoinNext, ReplyOnly
  <2> QED
    BY <2>1, ClientJoinChannelKept DEF ClientJoinChannel, Segfault, perClient
<1>4. ASSUME NEW f \in Fd,
             \/ HandlePart(f) \/ HandleKick(f)
             \/ \E c \in Chan, n \in Nick : HandleInvite(f, c, n)
             \/ HandleMode(f)
      PROVE  ChannelsKept
  BY <1>4, HandlePartKept, HandleKickKept, HandleInviteKept, HandleModeKept
<1>5. ASSUME NEW f \in Fd, ~UNCHANGED channels,
             \/ \E c \in Chan : HandleTopic(f, c)
             \/ HandlePrivmsg(f) \/ HandleList(f) \/ HandleWho(f)
      PROVE  ChannelsKept
  <2>1. ~HandlePrivmsg(f) /\ \A c \in Chan : ~HandleTopic(f, c)
    BY <1>5 DEF HandleTopic, HandlePrivmsg, MsgToChannel, MsgToUser, ReplyOnly, Segfault
  <2> QED
    BY <1>5, <2>1, HandleListKept, HandleWhoKept
<1> QED
  BY <1>1, <1>2, <1>3, <1>4, <1>5 DEF Next, vars

\* No command makes a channel ask for a key or for room that its modes do not show:
\* only a channel that was created so does, until the mode is set.
THEOREM OnlyCreationHidesSettings == Spec => HiddenSettingsAreOfCreation
<1>1. IInv /\ [Next]_vars => SettingsTold
  BY NextKept, HandleNickTells DEF ChannelsKept, Keeps, JoinKept, SettingsTold
<1>2. IInv /\ [Next]_vars =>
         [\A c \in Chan : IsObject(c) /\ IsObject(c)' =>
            LET old == channels[c]
                new == channels'[c]
            IN  /\ new.password # old.password => ("k" \in old.modes) # ("k" \in new.modes)
                /\ new.user_limit # old.user_limit => "l" \in old.modes \cup new.modes
                /\ HiddenKey(new) => HiddenKey(old)
                /\ HiddenLimit(new) => HiddenLimit(old)]_vars
  BY <1>1 DEF SettingsTold, Tells
<1> QED
  BY <1>2, Inductive, PTL DEF Spec, HiddenSettingsAreOfCreation

--------------------------------------------------------------------------------
(* Seats: how they are taken over. *)

\* A client that has a seat has the channel in its own map.
LEMMA SeatedClient ==
    ASSUME IInv, NEW f, NEW c \in Chan, Seated(f, c), f \in Fd
    PROVE  f \in connected /\ nick[f] \in Members(channels[c]) /\ c \in joined[f]
<1>1. nick[f] \in Members(channels[c])
  BY NickAssumption DEF Seated, Members
<1> QED
  BY <1>1 DEF Seated, IInv, EntriesLive

\* The new nickname has no entry on any channel, because no client has it: so the
\* client that is renamed is the only one that gets a seat, and the entry that is
\* taken is the one of its old nickname.
LEMMA NickTakesOver ==
    ASSUME IInv, IInv', NEW h \in Fd, NEW n \in Nick, HandleNick(h, n),
           NEW f \in Fd, NEW g \in Fd, NEW c \in Chan,
           Seated(g, c), ~Seated(g, c)', ~Seated(f, c), Seated(f, c)'
    PROVE  f = h /\ nick[f] = nick[g] /\ c \in joined[f]
<1> DEFINE ch == channels[c]
<1>1. /\ ~IsClient(n) /\ nick' = [nick EXCEPT ![h] = n] /\ UNCHANGED connected
      /\ \A d \in joined[h] : IsObject(d)
      /\ channels' = [d \in Chan |-> IF d \in joined[h] THEN Renamed(channels[d], h, n)
                                     ELSE channels[d]]
  BY DEF HandleNick, ReplyOnly, Segfault, Seated, IsObject, perClient
<1>2. nick \in [Fd -> Nick] /\ IsObject(c)
  BY DEF IInv, TypeOK, Seated
<1>3. n \notin Members(ch)
  BY <1>1, <1>2 DEF IInv, EntriesLive, IsClient
<1>4. ch.users[n] = NoFd
  BY <1>3 DEF Members
<1>5. nick[g] # n /\ g \in connected
  BY <1>1, SeatedClient DEF IsClient
<1>6. c \in joined[h]
  <2> SUFFICES ASSUME channels'[c] = ch PROVE FALSE
    BY <1>1
  <2>1. CASE f = h
    BY <1>1, <1>2, <1>4, <2>1, NickAssumption DEF Seated
  <2>2. CASE f # h
    BY <1>1, <1>2, <2>2 DEF Seated, IsObject
  <2> QED
    BY <2>1, <2>2
<1>7. /\ channels'[c] = Renamed(ch, h, n)
      /\ Members(Renamed(ch, h, n)) = (Members(ch) \ {nick[h]}) \cup {n}
      /\ \A m \in Nick \ {n, nick[h]} : Renamed(ch, h, n).users[m] = ch.users[m]
      /\ Renamed(ch, h, n) \notin {Absent, Null}
  <2>1. channels'[c] = Renamed(ch, h, n)
    BY <1>1, <1>6
  <2>2. /\ Sound(Renamed(ch, h, n))
        /\ Members(Renamed(ch, h, n)) = (Members(ch) \ {nick[h]}) \cup {n}
        /\ \A m \in Nick \ {n, nick[h]} : Renamed(ch, h, n).users[m] = ch.users[m]
    <3>1. IsObject(c)
      BY <1>2
    <3> QED
      BY <3>1, RenamedSound, SMTT(30)
  <2>3. Renamed(ch, h, n) \notin {Absent, Null}
    BY <2>2, SoundIsObject
  <2> QED
    BY <2>1, <2>2, <2>3
<1>8. f = h
  <2> SUFFICES ASSUME f # h PROVE FALSE
    OBVIOUS
  <2>1. nick'[f] = nick[f] /\ f \in connected' /\ nick'[f] \in Members(channels'[c])
    <3>1. nick'[f] \in Members(channels'[c])
      BY NickAssumption DEF Seated, Members
    <3> QED
      BY <1>1, <1>2, <3>1 DEF IInv, EntriesLive, Seated
  <2>2. nick[f] # n
    BY <1>1, <2>1 DEF IsClient
  <2>3. nick[f] # nick[h]
    BY <1>7, <2>1, <2>2
  <2> QED
    BY <1>2, <1>7, <2>1, <2>2, <2>3 DEF Seated
<1>9. nick[g] = nick[h]
  <2> SUFFICES ASSUME nick[g] # nick[h] PROVE FALSE
    OBVIOUS
  <2>1. nick'[g] = nick[g]
    BY <1>1, <1>2
  <2> QED
    BY <1>2, <1>5, <1>7, <2>1 DEF Seated, IsObject
<1> QED
  BY <1>6, <1>8, <1>9

LEMMA SeatTakenOver ==
    ASSUME IInv, [Next]_vars, NEW f \in Fd, NEW g \in Fd, NEW c \in Chan,
           Seated(g, c), ~Seated(g, c)', ~Seated(f, c), Seated(f, c)'
    PROVE  /\ nick[f] = nick[g] /\ c \in joined[f]
           /\ \E n \in Nick : HandleNick(f, n)
<1>1. IInv'
  BY NextIInv
<1>2. IsObject(c) /\ IsObject(c)'
  BY DEF Seated
<1>3. CASE ChannelsKept
  <2>1. nick'[f] \in Nick /\ channels'[c].users[nick'[f]] = f
    BY DEF Seated
  <2>2. channels[c].users[nick'[f]] = f
    BY <1>2, <1>3, <2>1, NickAssumption DEF ChannelsKept, Keeps, AddsNobody
  <2>3. nick'[f] \in Members(channels[c])
    BY <2>1, <2>2, NickAssumption DEF Members
  <2>4. nick[f] = nick'[f]
    BY <1>2, <2>2, <2>3 DEF IInv, EntriesLive
  <2> QED
    BY <1>2, <2>1, <2>2, <2>4 DEF Seated
<1>4. CASE JoinKept /\ UNCHANGED nick
  BY <1>2, <1>4, SeatedClient DEF JoinKept, Seated
<1>5. CASE \E h \in Fd, n \in Nick : HandleNick(h, n)
  BY <1>1, <1>5, NickTakesOver
<1> QED
  BY <1>3, <1>4, <1>5, NextKept

\* A client takes another one's place on a channel only by NICK, if both have the
\* same nickname and its own map names the channel.
THEOREM SeatsAreTakenOverByClash == Spec => SeatTakenOverOnlyByClash
<1>1. IInv /\ [Next]_vars =>
         [\A g \in Fd, c \in Chan :
            Seated(g, c) /\ ~Seated(g, c)' =>
               \A f \in Fd : ~Seated(f, c) /\ Seated(f, c)' =>
                   /\ nick[f] = nick[g] /\ c \in joined[f]
                   /\ \E n \in Nick : HandleNick(f, n)]_vars
  BY SeatTakenOver
<1> QED
  BY <1>1, Inductive, PTL DEF Spec, SeatTakenOverOnlyByClash

--------------------------------------------------------------------------------
(* Crashes: the pointers that are used without a check. *)

StaleCause ==
    \/ \E c \in Chan : channels[c] = Null
    \/ \E f \in connected : \E c \in joined[f] : channels[c] = Absent

\* A name in a client's own map that is not one of a channel object.
LEMMA StaleName ==
    ASSUME IInv, NEW f \in connected, NEW c \in joined[f], ~IsObject(c)
    PROVE  StaleCause
<1>1. c \in Chan
  BY DEF IInv, TypeOK
<1> QED
  BY <1>1 DEF StaleCause, IsObject

\* The first channel of a client's own map is in that map.
LEMMA FirstChannelJoined ==
    ASSUME IInv, NEW g \in connected, joined[g] # {}
    PROVE  FirstChannel(g) \in joined[g]
<1>1. joined[g] \subseteq Nat
  BY ChanAssumption DEF IInv, TypeOK
<1>2. PICK c \in joined[g] : \A d \in joined[g] : ~(<<d, c>> \in OpToRel(<, Nat))
  BY <1>1, NatLessThanWellFounded, WFMin
<1>3. \A d \in joined[g] : d < c => <<d, c>> \in OpToRel(<, Nat)
  BY <1>1 DEF OpToRel
<1>4. \A d \in joined[g] : ~(d < c)
  BY <1>2, <1>3
<1>5. \A d \in joined[g] : c <= d
  BY <1>1, <1>4
<1> QED
  BY <1>5 DEF FirstChannel

LEMMA NextCrash ==
    ASSUME IInv, [Next]_vars, up, ~up' PROVE StaleCause
<1> SUFFICES ASSUME NEW f \in Fd,
                    \/ Accept(f) \/ PassAccepted(f) \/ PassRefused(f) \/ HandleReplyOnly(f)
                    \/ ClientGone(f) \/ WriteReady(f) \/ HandleQuit(f)
                    \/ \E n \in Nick : HandleNick(f, n)
                    \/ HandleJoin(f) \/ JoinNext(f) \/ HandlePart(f) \/ HandleKick(f)
                    \/ \E c \in Chan, n \in Nick : HandleInvite(f, c, n)
                    \/ HandleMode(f)
                    \/ \E c \in Chan : HandleTopic(f, c)
                    \/ HandlePrivmsg(f) \/ HandleList(f) \/ HandleWho(f)
             PROVE  StaleCause
  BY DEF Next, vars
<1>1. CASE Accept(f) \/ PassAccepted(f) \/ PassRefused(f) \/ HandleReplyOnly(f)
  BY <1>1 DEF Accept, PassAccepted, PassRefused, HandleReplyOnly, ReplyOnly
<1>2. CASE ClientGone(f) \/ WriteReady(f) \/ HandleQuit(f)
  BY <1>2, StaleName DEF ClientGone, WriteReady, HandleQuit, Command, Ready, Disconnect
<1>3. CASE \E n \in Nick : HandleNick(f, n)
  BY <1>3, StaleName DEF HandleNick, Command, Ready, ReplyOnly
<1>4. CASE HandleJoin(f) \/ JoinNext(f)
  <2>1. ReplyOnly(f) \/ \E c \in Chan, key \in Key \cup {NoKey} : ClientJoinChannel(f, c, key)
    BY <1>4, ChanAssumption DEF HandleJoin, JoinNext
  <2> QED
    BY <2>1 DEF ReplyOnly, ClientJoinChannel, StaleCause
<1>5. CASE HandlePart(f)
  BY <1>5 DEF HandlePart, PartChannel, LeaveChannel, ReplyOnly, StaleCause
<1>6. CASE HandleKick(f)
  <2>1. PICK c \in Chan, n \in Nick, last \in Nick \cup {""} : KickStep(f, c, n, last)
    <3>1. Running(f, "KICK") => task.chan \in Chan /\ task.last \in Nick \cup {""}
      BY RunningClient DEF LoopVerb, IInv, TypeOK, Task, TaskOK
    <3> QED
      BY <1>6, <3>1 DEF HandleKick
  <2> QED
    BY <2>1 DEF KickStep, KickNick, KickedFrom, ReplyOnly, StaleCause
<1>7. CASE \E c \in Chan, n \in Nick : HandleInvite(f, c, n)
  BY <1>7 DEF HandleInvite, ReplyOnly, StaleCause
<1>8. CASE HandleMode(f)
  <2>1. Running(f, "MODE") => task.chan \in Chan
    BY RunningClient DEF LoopVerb, IInv, TaskOK
  <2>2. \A c \in Chan : ModeLetters(f, c) => up' = up
    BY DEF ModeLetters, ReplyOnly
  <2> QED
    BY <1>8, <2>1, <2>2, ChanAssumption DEF HandleMode, ReplyOnly, StaleCause
<1>9. CASE \E c \in Chan : HandleTopic(f, c)
  BY <1>9 DEF HandleTopic, ReplyOnly, StaleCause
<1>10. CASE HandlePrivmsg(f)
  BY <1>10, ChanAssumption DEF HandlePrivmsg, MsgToChannel, MsgToUser, ReplyOnly, StaleCause
<1>11. CASE HandleList(f)
  BY <1>11 DEF HandleList, ReplyOnly, StaleCause
<1>12. CASE HandleWho(f)
  <2>1. CASE WhoChannel(f)
    BY <2>1 DEF WhoChannel, ReplyOnly, StaleCause
  <2>2. CASE \E n \in Nick : WhoNick(f, n)
    <3>1. PICK n \in Nick : WhoNick(f, n)
      BY <2>2
    <3>2. PICK g \in connected : joined[g] # {} /\ ~IsObject(FirstChannel(g))
      BY <3>1 DEF WhoNick
    <3> QED
      BY <3>2, FirstChannelJoined, StaleName
  <2> QED
    BY <1>12, <2>1, <2>2 DEF HandleWho
<1> QED
  BY <1>1, <1>2, <1>3, <1>4, <1>5, <1>6, <1>7, <1>8, <1>9, <1>10, <1>11, <1>12

\* Whatever the clients send, the server dereferences a null Channel* only if LIST
\* left one in channels, or if a client's own map names a channel that is gone.
THEOREM CrashesHaveStaleCause == Spec => CrashHasStaleCause
<1>1. IInv /\ [Next]_vars =>
         [up /\ ~up' =>
            \/ \E c \in Chan : channels[c] = Null
            \/ \E f \in connected : \E c \in joined[f] : channels[c] = Absent]_vars
  BY NextCrash DEF StaleCause
<1> QED
  BY <1>1, Inductive, PTL DEF Spec, CrashHasStaleCause

--------------------------------------------------------------------------------
(* Seats: how they are lost. *)

MemberStays(n, c) ==
    IsObject(c)' /\ channels'[c].users[n] = channels[c].users[n]

LEMMA SameChannelsStay ==
    ASSUME NEW c \in Chan, IsObject(c), NEW n, UNCHANGED channels PROVE MemberStays(n, c)
BY DEF MemberStays, IsObject

LEMMA OneChannelStays ==
    ASSUME IInv, NEW c \in Chan, IsObject(c), NEW n, NEW d \in Chan, NEW new,
           channels' = [channels EXCEPT ![d] = new],
           d = c => new \notin {Absent, Null} /\ new.users[n] = channels[c].users[n]
    PROVE  MemberStays(n, c)
<1>1. channels \in [Chan -> ChannelState \cup {Absent, Null}]
  BY DEF IInv, TypeOK
<1>2. channels'[c] = IF d = c THEN new ELSE channels[c]
  BY <1>1
<1> QED
  BY <1>2 DEF MemberStays, IsObject

\* Who leaves does not take another user along, nor the channel.
LEMMA DeleteStays ==
    ASSUME NEW ch, Sound(ch), NEW m \in Nick, NEW n \in Members(ch), m # n
    PROVE  /\ OrAbsent(DeleteClient(ch, m)) \notin {Absent, Null}
           /\ OrAbsent(DeleteClient(ch, m)).users[n] = ch.users[n]
<1>1. n \in Nick /\ n \in Members(DeleteClient(ch, m))
  BY DeleteSound DEF Members
<1>2. OrAbsent(DeleteClient(ch, m)) = DeleteClient(ch, m)
  BY <1>1 DEF OrAbsent
<1> QED
  BY <1>1, <1>2, DeleteSound, SoundIsObject

LEMMA DisconnectStays ==
    ASSUME IInv, NEW g \in Fd, Disconnect(g), NEW c \in Chan, IsObject(c),
           NEW n \in Members(channels[c]), nick[g] # n
    PROVE  MemberStays(n, c)
<1>1. CASE Segfault
  BY <1>1, SameChannelsStay DEF Segfault
<1>2. CASE channels' = [d \in Chan |-> IF d \in joined[g]
                                       THEN OrAbsent(DeleteClient(channels[d], nick[g]))
                                       ELSE channels[d]]
  <2>1. Sound(channels[c]) /\ nick[g] \in Nick
    BY ChannelsSoundThen DEF ChannelsSound, IInv, TypeOK
  <2>2. channels'[c] = IF c \in joined[g] THEN OrAbsent(DeleteClient(channels[c], nick[g]))
                       ELSE channels[c]
    BY <1>2
  <2> QED
    BY <2>1, <2>2, DeleteStays DEF MemberStays, IsObject
<1> QED
  BY <1>1, <1>2 DEF Disconnect

\* NICK of somebody else takes a nickname that no user has.
LEMMA HandleNickStays ==
    ASSUME IInv, NEW g \in Fd, NEW m \in Nick, HandleNick(g, m), NEW c \in Chan, IsObject(c),
           NEW n \in Members(channels[c]), nick[g] # n
    PROVE  MemberStays(n, c)
<1>1. CASE UNCHANGED channels
  BY <1>1, SameChannelsStay
<1>2. CASE /\ ~IsClient(m)
           /\ channels' = [d \in Chan |-> IF d \in joined[g] THEN Renamed(channels[d], g, m)
                                          ELSE channels[d]]
  <2>1. m # n /\ n \in Nick
    BY <1>2 DEF IInv, EntriesLive, IsClient, Members
  <2>2. channels'[c] = IF c \in joined[g] THEN Renamed(channels[c], g, m) ELSE channels[c]
    BY <1>2
  <2>3. /\ Renamed(channels[c], g, m) \notin {Absent, Null}
        /\ Renamed(channels[c], g, m).users[n] = channels[c].users[n]
    BY <2>1, RenamedSound, SoundIsObject
  <2> QED
    BY <2>2, <2>3 DEF MemberStays, IsObject
<1> QED
  BY <1>1, <1>2 DEF HandleNick, ReplyOnly, Segfault

LEMMA ClientJoinChannelStays ==
    ASSUME IInv, NEW g \in Fd, NEW d \in Chan, NEW key, ClientJoinChannel(g, d, key),
           NEW c \in Chan, IsObject(c), NEW n \in Members(channels[c])
    PROVE  MemberStays(n, c)
<1> DEFINE ch == Target(g, d, key)
<1>1. CASE UNCHANGED channels
  BY <1>1, SameChannelsStay
<1>2. CASE \/ channels' = [channels EXCEPT ![d] = ch]
           \/ ~Refused(ch, g, key) /\ channels' = [channels EXCEPT ![d] = Admitted(ch, g)]
  <2>1. d = c => ch = channels[c] /\ Sound(ch)
    BY ChannelsSoundThen DEF Target, Found, IsObject, ChannelsSound
  <2>2. nick[g] \in Nick
    BY DEF IInv, TypeOK
  <2> HIDE DEF ch
  <2>3. d = c => ch \notin {Absent, Null} /\ ch.users[n] = channels[c].users[n]
    BY <2>1, SoundIsObject
  <2>4. d = c /\ ~Refused(ch, g, key) =>
           /\ Admitted(ch, g) \notin {Absent, Null}
           /\ Admitted(ch, g).users[n] = channels[c].users[n]
    BY <2>1, <2>2, AdmittedSound, SoundIsObject
  <2> QED
    BY <1>2, <2>3, <2>4, OneChannelStays
<1> QED
  BY <1>1, <1>2 DEF ClientJoinChannel, Segfault

LEMMA HandlePartStays ==
    ASSUME IInv, NEW g \in Fd, HandlePart(g), NEW c \in Chan, IsObject(c),
           NEW n \in Members(channels[c])
    PROVE  \/ MemberStays(n, c)
           \/ g \in connected /\ nick[g] = n /\ c \notin joined'[g]
<1>1. PICK d \in Chan : PartChannel(g, d)
  BY DEF HandlePart
<1>2. CASE UNCHANGED channels
  BY <1>2, SameChannelsStay
<1>3. CASE LeaveChannel(g, d)
  <2>1. /\ channels' = [channels EXCEPT ![d] = OrAbsent(DeleteClient(channels[d], nick[g]))]
        /\ joined' = [joined EXCEPT ![g] = joined[g] \ {d}]
    BY <1>3 DEF LeaveChannel
  <2>2. Sound(channels[c]) /\ nick[g] \in Nick /\ joined \in [Fd -> SUBSET Chan]
    BY ChannelsSoundThen DEF ChannelsSound, IInv, TypeOK
  <2>3. g \in connected
    BY RunningClient, CommandClient DEF HandlePart, LoopVerb
  <2>4. CASE d = c /\ nick[g] = n
    BY <2>1, <2>2, <2>3, <2>4
  <2>5. CASE d = c /\ nick[g] # n
    <3>1. /\ OrAbsent(DeleteClient(channels[d], nick[g])) \notin {Absent, Null}
          /\ OrAbsent(DeleteClient(channels[d], nick[g])).users[n] = channels[c].users[n]
      BY <2>2, <2>5, DeleteStays
    <3> QED
      BY <2>1, <3>1, OneChannelStays
  <2>6. CASE d # c
    BY <2>1, <2>6, OneChannelStays
  <2> QED
    BY <2>4, <2>5, <2>6
<1> QED
  BY <1>1, <1>2, <1>3 DEF PartChannel, ReplyOnly, Segfault

\* MODE, INVITE and WHO leave the users of a channel alone.
LEMMA ModeLettersStay ==
    ASSUME IInv, NEW g \in Fd, NEW d \in Chan, ModeLetters(g, d), NEW c \in Chan, IsObject(c),
           NEW n \in Members(channels[c])
    PROVE  MemberStays(n, c)
<1>1. CASE ReplyOnly(g)
  BY <1>1, SameChannelsStay DEF ReplyOnly
<1>2. CASE \E letter \in Letter : IsObject(d) /\ ModeStep(g, d, letter)
  <2>1. PICK letter \in Letter : IsObject(d) /\ ModeStep(g, d, letter)
    BY <1>2
  <2> DEFINE asked == AfterLookup(channels[d], nick[g])
  <2>2. Sound(channels[d]) /\ nick[g] \in Nick
    BY <2>1, ChannelsSoundThen DEF ChannelsSound, IInv, TypeOK
  <2>3. Sound(asked) /\ asked.users = channels[d].users
    BY <2>2, LookupSound
  <2> HIDE DEF asked
  <2>4. \E new : /\ Sound(new) /\ new.users = channels[d].users
                 /\ channels' = [channels EXCEPT ![d] = new]
    <3>1. CASE channels' = [channels EXCEPT ![d] = asked]
      BY <2>3, <3>1
    <3>2. CASE \E moded \in Moded(asked, letter) : channels' = [channels EXCEPT ![d] = moded]
      BY <2>3, <3>2, ModedSound
    <3> QED
      BY <2>1, <3>1, <3>2 DEF ModeStep, asked
  <2>5. PICK new : /\ Sound(new) /\ new.users = channels[d].users
                   /\ channels' = [channels EXCEPT ![d] = new]
    BY <2>4
  <2>6. d = c => new \notin {Absent, Null} /\ new.users[n] = channels[c].users[n]
    BY <2>5, SoundIsObject
  <2> QED
    BY <2>5, <2>6, OneChannelStays
<1> QED
  BY <1>1, <1>2 DEF ModeLetters

LEMMA HandleModeStays ==
    ASSUME IInv, NEW g \in Fd, HandleMode(g), NEW c \in Chan, IsObject(c),
           NEW n \in Members(channels[c])
    PROVE  MemberStays(n, c)
<1>1. CASE UNCHANGED channels
  BY <1>1, SameChannelsStay
<1>2. CASE \E d \in HashChan : ModeLetters(g, d)
  BY <1>2, ModeLettersStay, ChanAssumption
<1>3. CASE Running(g, "MODE") /\ ModeLetters(g, task.chan)
  <2>1. task.chan \in Chan
    BY <1>3, RunningClient DEF LoopVerb, IInv, TaskOK
  <2> QED
    BY <1>3, <2>1, ModeLettersStay
<1> QED
  BY <1>1, <1>2, <1>3 DEF HandleMode, ReplyOnly, Segfault

LEMMA HandleInviteStays ==
    ASSUME IInv, NEW g \in Fd, NEW d \in Chan, NEW m \in Nick, HandleInvite(g, d, m),
           NEW c \in Chan, IsObject(c), NEW n \in Members(channels[c])
    PROVE  MemberStays(n, c)
<1>1. CASE UNCHANGED channels
  BY <1>1, SameChannelsStay
<1>2. CASE IsObject(d) /\ channels' = [channels EXCEPT ![d] = AddInvited(channels[d], m)]
  <2>1. Sound(channels[d])
    BY <1>2, ChannelsSoundThen DEF ChannelsSound
  <2>2. Sound(AddInvited(channels[d], m)) /\ AddInvited(channels[d], m).users = channels[d].users
    BY <2>1, AddInvitedSound
  <2> QED
    BY <1>2, <2>2, SoundIsObject, OneChannelStays
<1> QED
  BY <1>1, <1>2 DEF HandleInvite, ReplyOnly, Segfault

LEMMA HandleListStays ==
    ASSUME IInv, NEW g \in Fd, HandleList(g), NEW c \in Chan, IsObject(c), NEW n
    PROVE  MemberStays(n, c)
<1>1. CASE UNCHANGED channels
  BY <1>1, SameChannelsStay
<1>2. CASE \E d \in Chan : channels' = [channels EXCEPT ![d] = IF Found(d) THEN @ ELSE Null]
  <2>1. PICK d \in Chan :
          channels' = [channels EXCEPT ![d] = IF Found(d) THEN channels[d] ELSE Null]
    BY <1>2
  <2> QED
    BY <2>1, OneChannelStays DEF IsObject, Found
<1> QED
  BY <1>1, <1>2 DEF HandleList, ReplyOnly, Segfault

LEMMA HandleWhoStays ==
    ASSUME IInv, NEW g \in Fd, HandleWho(g), NEW c \in Chan, IsObject(c), NEW n
    PROVE  MemberStays(n, c)
<1>1. CASE UNCHANGED channels
  BY <1>1, SameChannelsStay
<1>2. ASSUME NEW m \in Nick, WhoNick(g, m), ~UNCHANGED channels
      PROVE  MemberStays(n, c)
  <2> DEFINE asked == {FirstChannel(h) : h \in {h \in connected : nick[h] = m /\ joined[h] # {}}}
  <2>1. channels' = [d \in Chan |-> IF d \in asked THEN AfterLookup(channels[d], m)
                                    ELSE channels[d]]
    BY <1>2 DEF WhoNick, Segfault
  <2> HIDE DEF asked
  <2>2. Sound(AfterLookup(channels[c], m)) /\ AfterLookup(channels[c], m).users = channels[c].users
    BY ChannelsSoundThen, LookupSound DEF ChannelsSound
  <2>3. channels'[c] = IF c \in asked THEN AfterLookup(channels[c], m) ELSE channels[c]
    BY <2>1
  <2> QED
    BY <2>2, <2>3, SoundIsObject DEF MemberStays, IsObject
<1> QED
  BY <1>1, <1>2 DEF HandleWho, WhoChannel, ReplyOnly, Segfault

\* A user stays, unless somebody is kicked or a client of this nickname leaves the
\* server or the channel, or renames itself.
LEMMA NextStays ==
    ASSUME IInv, [Next]_vars, \A g \in Fd : ~HandleKick(g),
           NEW c \in Chan, IsObject(c), NEW n \in Members(channels[c]),
           \A g \in connected : nick[g] = n =>
              g \in connected' /\ c \in joined'[g] /\ nick'[g] = nick[g]
    PROVE  MemberStays(n, c)
<1>1. CASE UNCHANGED channels
  BY <1>1, SameChannelsStay
<1>2. ASSUME NEW g \in Fd, ~UNCHANGED channels,
             \/ Accept(g) \/ PassAccepted(g) \/ PassRefused(g) \/ HandleReplyOnly(g)
             \/ ClientGone(g) \/ WriteReady(g) \/ HandleQuit(g)
      PROVE  MemberStays(n, c)
  <2>1. g \in connected /\ Disconnect(g) /\ ~Segfault
    BY <1>2 DEF Accept, PassAccepted, PassRefused, HandleReplyOnly, ReplyOnly, ClientGone,
                WriteReady, HandleQuit, Segfault
  <2>2. g \notin connected'
    BY <2>1 DEF Disconnect
  <2> QED
    BY <2>1, <2>2, DisconnectStays
<1>3. ASSUME NEW g \in Fd, NEW m \in Nick, HandleNick(g, m), ~UNCHANGED channels
      PROVE  MemberStays(n, c)
  <2>1. g \in connected /\ ~IsClient(m) /\ nick' = [nick EXCEPT ![g] = m]
    BY <1>3, CommandClient DEF HandleNick, ReplyOnly, Segfault
  <2>2. nick'[g] # nick[g]
    BY <2>1 DEF IsClient, IInv, TypeOK
  <2> QED
    BY <1>3, <2>1, <2>2, HandleNickStays
<1>4. ASSUME NEW g \in Fd,
             \/ HandleJoin(g) \/ JoinNext(g) \/ HandlePart(g)
             \/ \E d \in Chan, m \in Nick : HandleInvite(g, d, m)
             \/ HandleMode(g)
      PROVE  MemberStays(n, c)
  <2>1. CASE HandleJoin(g)
    <3>1. ReplyOnly(g) \/ \E d \in Chan, key \in Key \cup {NoKey} : ClientJoinChannel(g, d, key)
      BY <2>1, ChanAssumption DEF HandleJoin
    <3> QED
      BY <3>1, SameChannelsStay, ClientJoinChannelStays DEF ReplyOnly
  <2>2. CASE JoinNext(g)
    BY <2>2, ClientJoinChannelStays DEF JoinNext
  <2>3. CASE HandlePart(g)
    BY <2>3, HandlePartStays
  <2> QED
    BY <1>4, <2>1, <2>2, <2>3, HandleInviteStays, HandleModeStays
<1>5. ASSUME NEW g \in Fd, ~UNCHANGED channels,
             \/ \E d \in Chan : HandleTopic(g, d)
             \/ HandlePrivmsg(g) \/ HandleList(g) \/ HandleWho(g)
      PROVE  MemberStays(n, c)
  <2>1. ~HandlePrivmsg(g) /\ \A d \in Chan : ~HandleTopic(g, d)
    BY <1>5 DEF HandleTopic, HandlePrivmsg, MsgToChannel, MsgToUser, ReplyOnly, Segfault
  <2> QED
    BY <1>5, <2>1, HandleListStays, HandleWhoStays
<1> QED
  BY <1>1, <1>2, <1>3, <1>4, <1>5 DEF Next, vars

\* NICK takes the seats of the client along.
LEMMA RenamedSeat ==
    ASSUME IInv, [Next]_vars, NEW f \in connected, f \in connected', nick'[f] # nick[f],
           NEW c \in Chan, Seated(f, c)
    PROVE  Seated(f, c)'
<1>1. nick \in [Fd -> Nick] /\ connected \subseteq Fd
  BY DEF IInv, TypeOK
<1>2. PICK g \in Fd, n \in Nick : HandleNick(g, n) /\ nick' # nick
  <2>1. ASSUME NEW g \in Fd, Accept(g) \/ Disconnect(g) PROVE FALSE
    <3>1. CASE Accept(g)
      BY <1>1, <3>1 DEF Accept
    <3>2. CASE Disconnect(g)
      BY <1>1, <3>2 DEF Disconnect, Segfault, perClient
    <3> QED
      BY <2>1, <3>1, <3>2
  <2>2. PICK g \in Fd : \/ \E n \in Nick : HandleNick(g, n)
                        \/ UNCHANGED nick
    <3>1. ASSUME NEW g \in Fd,
                 \/ PassAccepted(g) \/ PassRefused(g) \/ HandleReplyOnly(g)
                 \/ ClientGone(g) \/ WriteReady(g) \/ HandleQuit(g)
          PROVE  UNCHANGED nick
      BY <2>1, <3>1 DEF PassAccepted, PassRefused, HandleReplyOnly, ReplyOnly, ClientGone,
                  WriteReady, HandleQuit, Segfault, perClient
    <3>2. ASSUME NEW g \in Fd,
                 \/ HandleJoin(g) \/ JoinNext(g) \/ HandlePart(g)
                 \/ \E d \in Chan, m \in Nick : HandleInvite(g, d, m)
          PROVE  UNCHANGED nick
      BY <3>2 DEF HandleJoin, JoinNext, ClientJoinChannel, HandlePart, PartChannel,
                  LeaveChannel, HandleInvite, ReplyOnly, Segfault, perClient
    <3>3. ASSUME NEW g \in Fd, HandleKick(g) PROVE UNCHANGED nick
      BY <3>3 DEF HandleKick, KickStep, KickNick, KickedFrom, ReplyOnly, Segfault, perClient
    <3>4. ASSUME NEW g \in Fd, HandleMode(g) PROVE UNCHANGED nick
      BY <3>4 DEF HandleMode, ModeLetters, ReplyOnly, Segfault, perClient
    <3>5. ASSUME NEW g \in Fd,
                 \/ \E d \in Chan : HandleTopic(g, d)
                 \/ HandlePrivmsg(g) \/ HandleList(g) \/ HandleWho(g)
          PROVE  UNCHANGED nick
      BY <3>5 DEF HandleTopic, HandlePrivmsg, MsgToChannel, MsgToUser, HandleList, HandleWho,
                  WhoChannel, WhoNick, ReplyOnly, Segfault, perClient
    <3>6. ~UNCHANGED vars
      BY DEF vars, perClient
    <3> QED
      BY <2>1, <3>1, <3>2, <3>3, <3>4, <3>5, <3>6 DEF Next
  <2> QED
    BY <2>2
<1>3. /\ nick' = [nick EXCEPT ![g] = n] /\ f = g
      /\ channels' = [d \in Chan |-> IF d \in joined[g] THEN Renamed(channels[d], g, n)
                                     ELSE channels[d]]
  <2>1. /\ nick' = [nick EXCEPT ![g] = n]
        /\ channels' = [d \in Chan |-> IF d \in joined[g] THEN Renamed(channels[d], g, n)
                                       ELSE channels[d]]
    BY <1>2 DEF HandleNick, ReplyOnly, Segfault, perClient
  <2> QED
    BY <1>1, <2>1
<1>4. IsObject(c) /\ c \in joined[f]
  <2>1. IsObject(c) /\ channels[c].users[nick[f]] = f /\ f \in Fd /\ nick[f] \in Nick
    BY <1>1 DEF Seated
  <2>2. nick[f] \in Members(channels[c])
    BY <2>1, NickAssumption DEF Members
  <2> QED
    BY <2>1, <2>2 DEF IInv, EntriesLive
<1>5. channels'[c] = Renamed(channels[c], f, n)
  BY <1>3, <1>4
<1>6. Renamed(channels[c], f, n) \notin {Absent, Null} /\ Renamed(channels[c], f, n).users[n] = f
  BY <1>1, <1>4, RenamedSound, SoundIsObject
<1>7. nick'[f] = n
  BY <1>1, <1>3
<1> QED
  BY <1>5, <1>6, <1>7 DEF Seated, IsObject

LEMMA SeatLost ==
    ASSUME IInv, [Next]_vars, NEW f \in connected, NEW c \in Chan,
           Seated(f, c), f \in connected', c \in joined'[f], ~Seated(f, c)'
    PROVE  \/ \E g \in Fd : HandleKick(g)
           \/ \E g \in connected : g # f /\ nick[g] = nick[f]
<1> SUFFICES ASSUME \A g \in Fd : ~HandleKick(g),
                    \A g \in connected : g # f => nick[g] # nick[f]
             PROVE  FALSE
  OBVIOUS
<1>1. nick'[f] = nick[f]
  BY RenamedSeat
<1>2. nick[f] \in Members(channels[c]) /\ IsObject(c)
  BY NickAssumption DEF Seated, Members, IInv, TypeOK
<1>3. MemberStays(nick[f], c)
  BY <1>1, <1>2, NextStays
<1> QED
  BY <1>1, <1>3 DEF MemberStays, Seated

\* A client keeps its places on the channels of its own map, until it is kicked or
\* another client of the same nickname leaves or renames itself.
THEOREM SeatsAreLostByKickOrClash == Spec => SeatLostOnlyByKickOrClash
<1>1. IInv /\ [Next]_vars =>
         [\A f \in connected, c \in Chan :
            Seated(f, c) /\ f \in connected' /\ c \in joined'[f] /\ ~Seated(f, c)' =>
               \/ \E g \in Fd : HandleKick(g)
               \/ \E g \in connected : g # f /\ nick[g] = nick[f]]_vars
  BY SeatLost
<1> QED
  BY <1>1, Inductive, PTL DEF Spec, SeatLostOnlyByKickOrClash

--------------------------------------------------------------------------------
(* Limits: no handler but NICK takes a channel over its limit.  JOIN counts  *)
(* the newcomer, MODE +l looks at the users, and everything else leaves the  *)
(* limit alone and adds nobody.                                              *)

Crowded(ch) ==
    ch.user_limit >= 0 /\ Cardinality(Members(ch)) > ch.user_limit

\* What an operation does to a channel does not take it over its limit.
KeepsLimit(ch, new) == Crowded(new) => Crowded(ch)

LimitsKept == \A c \in Chan : OverLimit(c)' => OverLimit(c)

\* The users of a channel are clients of different sockets.
FewUsers(ch) ==
    IsFiniteSet(Members(ch)) /\ Cardinality(Members(ch)) <= Cardinality(Fd)

--------------------------------------------------------------------------------
(* Operations on a channel *)

LEMMA UsersAreFew ==
    ASSUME IInv, NEW c \in Chan, IsObject(c) PROVE FewUsers(channels[c])
<1> DEFINE ch == channels[c]
<1>1. ch \in ChannelState /\ Members(ch) \subseteq Nick
  BY DEF IInv, TypeOK, IsObject, Members
<1>2. \A n \in Members(ch) : ch.users[n] \in Fd /\ nick[ch.users[n]] = n
  BY <1>1 DEF IInv, EntriesLive, TypeOK
<1> DEFINE socket == [n \in Members(ch) |-> ch.users[n]]
<1>3. socket \in Injection(Members(ch), Fd)
  BY <1>2 DEF Injection, IsInjective
<1> QED
  BY <1>3, FdAssumption, FS_Injection DEF FewUsers

\* A channel with the same limit and no new users.
LEMMA NoNewUsersKeepLimit ==
    ASSUME NEW ch \in ChannelState, FewUsers(ch), NEW new \in ChannelState,
           new.user_limit = ch.user_limit, Members(new) \subseteq Members(ch)
    PROVE  KeepsLimit(ch, new)
<1>1. /\ Cardinality(Members(new)) <= Cardinality(Members(ch))
      /\ IsFiniteSet(Members(new))
  BY FS_Subset DEF FewUsers
<1>2. Cardinality(Members(new)) \in Nat /\ Cardinality(Members(ch)) \in Nat
  BY <1>1, FS_CardinalityType DEF FewUsers
<1>3. ch.user_limit \in Int
  BY DEF ChannelState
<1> QED
  BY <1>1, <1>2, <1>3 DEF KeepsLimit, Crowded

LEMMA DeleteKeepsLimit ==
    ASSUME NEW ch, Sound(ch), FewUsers(ch), NEW n \in Nick
    PROVE  KeepsLimit(ch, DeleteClient(ch, n))
<1>1. /\ DeleteClient(ch, n) \in ChannelState
      /\ Members(DeleteClient(ch, n)) \subseteq Members(ch)
  BY DeleteSound DEF Sound
<1>2. ch \in ChannelState /\ DeleteClient(ch, n).user_limit = ch.user_limit
  BY DEF Sound, ChannelState, DeleteClient
<1> QED
  BY <1>1, <1>2, NoNewUsersKeepLimit

LEMMA LookupKeepsLimit ==
    ASSUME NEW ch, Sound(ch), FewUsers(ch), NEW n \in Nick
    PROVE  KeepsLimit(ch, AfterLookup(ch, n))
<1>1. /\ AfterLookup(ch, n) \in ChannelState
      /\ AfterLookup(ch, n).users = ch.users
  BY LookupSound DEF Sound
<1>2. ch \in ChannelState /\ AfterLookup(ch, n).user_limit = ch.user_limit
  BY DEF Sound, ChannelState, AfterLookup
<1> QED
  BY <1>1, <1>2, NoNewUsersKeepLimit DEF Members

LEMMA InvitationKeepsLimit ==
    ASSUME NEW ch, Sound(ch), FewUsers(ch), NEW n \in Nick
    PROVE  KeepsLimit(ch, AddInvited(ch, n))
<1>1. /\ AddInvited(ch, n) \in ChannelState
      /\ AddInvited(ch, n).users = ch.users
  BY AddInvitedSound DEF Sound
<1>2. ch \in ChannelState /\ AddInvited(ch, n).user_limit = ch.user_limit
  BY DEF Sound, ChannelState, AddInvited
<1> QED
  BY <1>1, <1>2, NoNewUsersKeepLimit DEF Members

\* JOIN: a channel that is not full has room for one more.
LEMMA AdmittedKeepsLimit ==
    ASSUME NEW ch, Sound(ch), IsFiniteSet(Members(ch)), ~IsFull(ch),
           NEW f \in Fd, nick[f] \in Nick, NEW new,
           new.user_limit = ch.user_limit,
           Members(new) \subseteq Members(ch) \cup {nick[f]}
    PROVE  ~Crowded(new)
<1> DEFINE more == Members(ch) \cup {nick[f]}
<1>1. IsFiniteSet(more) /\ Cardinality(more) <= Cardinality(Members(ch)) + 1
  <2> DEFINE S == Members(ch)
             n == nick[f]
  <2>1. IsFiniteSet(S) /\ Cardinality(S) \in Nat
    BY FS_CardinalityType
  <2> HIDE DEF S, n
  <2>2. /\ IsFiniteSet(S \cup {n})
        /\ Cardinality(S \cup {n}) = IF n \in S THEN Cardinality(S) ELSE Cardinality(S) + 1
    BY <2>1, FS_AddElement
  <2>3. IsFiniteSet(S \cup {n}) /\ Cardinality(S \cup {n}) <= Cardinality(S) + 1
    BY <2>1, <2>2
  <2> QED
    BY <2>3 DEF S, n
<1>2. IsFiniteSet(Members(new)) /\ Cardinality(Members(new)) <= Cardinality(more)
  BY <1>1, FS_Subset
<1>3. /\ Cardinality(Members(new)) \in Nat
      /\ Cardinality(more) \in Nat
      /\ Cardinality(Members(ch)) \in Nat
  BY <1>1, <1>2, FS_CardinalityType
<1>4. ch.user_limit \in Int
  BY DEF Sound, ChannelState
<1> QED
  BY <1>1, <1>2, <1>3, <1>4 DEF IsFull, Crowded

\* +l asks for the number of users, -l leaves a limit no channel reaches.
LEMMA ModeLimitKeepsLimit ==
    ASSUME NEW ch \in ChannelState, FewUsers(ch), NEW on \in BOOLEAN, NEW v \in Int
    PROVE  KeepsLimit(ch, ModeLimit(ch, on, v))
<1> DEFINE set == [ch EXCEPT !.user_limit = v, !.modes = @ \cup {"l"}]
           cleared == [ch EXCEPT !.user_limit = NoLimit, !.modes = @ \ {"l"}]
<1>1. /\ Cardinality(Members(ch)) \in Nat /\ Cardinality(Fd) \in Nat
      /\ Cardinality(Members(ch)) <= Cardinality(Fd)
  BY FdAssumption, FS_CardinalityType DEF FewUsers
<1>2. set.users = ch.users /\ set.user_limit = v
  BY DEF ChannelState
<1>3. cleared.users = ch.users /\ cleared.user_limit = NoLimit
  BY DEF ChannelState
<1>4. CASE ModeLimit(ch, on, v) = ch
  BY <1>4 DEF KeepsLimit
<1>5. CASE ModeLimit(ch, on, v) = set /\ ~TooSmall(ch, v)
  <2>1. ~Crowded(set)
    BY <1>1, <1>2, <1>5 DEF Crowded, TooSmall, Members
  <2> QED
    BY <1>5, <2>1 DEF KeepsLimit
<1>6. CASE ModeLimit(ch, on, v) = cleared
  <2>1. Cardinality(Members(ch)) <= NoLimit /\ NoLimit \in Int
    BY <1>1, FdAssumption, NoLimitType
  <2>2. ~Crowded(cleared)
    BY <1>1, <1>3, <2>1 DEF Crowded, Members
  <2> QED
    BY <1>6, <2>2 DEF KeepsLimit
<1> QED
  BY <1>4, <1>5, <1>6 DEF ModeLimit

LEMMA ModedKeepsLimit ==
    ASSUME NEW ch, Sound(ch), FewUsers(ch), NEW letter \in Letter,
           NEW moded \in Moded(ch, letter)
    PROVE  KeepsLimit(ch, moded)
<1>1. ch \in ChannelState
  BY DEF Sound
<1>2. Sound(moded) /\ moded.users = ch.users
  BY ModedSound
<1>3. moded \in ChannelState /\ Members(moded) = Members(ch)
  BY <1>2 DEF Sound, Members
<1>4. CASE letter = "l"
  <2>1. PICK on \in BOOLEAN, v \in LimitArg : moded = ModeLimit(ch, on, v)
    BY <1>4 DEF Moded
  <2> QED
    BY <1>1, <2>1, ModeLimitKeepsLimit, BoundAssumption
<1>5. CASE letter # "l"
  <2>1. moded.user_limit = ch.user_limit
    <3>1. CASE \E on \in BOOLEAN : moded = ModeFlag(ch, on, letter)
      BY <1>1, <3>1 DEF ModeFlag, ChannelState
    <3>2. CASE \E on \in BOOLEAN, key \in Key : moded = ModeKey(ch, on, key)
      BY <1>1, <3>2 DEF ModeKey, ChannelState
    <3>3. CASE \E on \in BOOLEAN, n \in Nick : moded = ModeOp(ch, on, n)
      BY <1>1, <3>3 DEF ModeOp, ChannelState
    <3> QED
      BY <1>5, <3>1, <3>2, <3>3, BoundAssumption DEF Moded, ModeLetter
  <2> QED
    BY <1>1, <1>3, <2>1, NoNewUsersKeepLimit
<1> QED
  BY <1>4, <1>5

--------------------------------------------------------------------------------
(* Actions *)

LEMMA SameChannelsKeepLimits ==
    ASSUME UNCHANGED channels PROVE LimitsKept
BY DEF LimitsKept, OverLimit, IsObject

LEMMA OneChannelKeepsLimit ==
    ASSUME IInv, NEW c \in Chan, NEW new, channels' = [channels EXCEPT ![c] = new],
           \/ new \in {Absent, Null}
           \/ IsObject(c) /\ KeepsLimit(channels[c], new)
           \/ ~Crowded(new)
    PROVE  LimitsKept
<1>1. channels'[c] = new /\ \A d \in Chan \ {c} : channels'[d] = channels[d]
  BY DEF IInv, TypeOK
<1>2. \A d \in Chan \ {c} : OverLimit(d)' => OverLimit(d)
  BY <1>1 DEF OverLimit, IsObject
<1>3. OverLimit(c)' => OverLimit(c)
  BY <1>1 DEF OverLimit, IsObject, KeepsLimit, Crowded
<1> QED
  BY <1>2, <1>3 DEF LimitsKept

LEMMA ObjectIsTame ==
    ASSUME IInv, NEW c \in Chan, IsObject(c)
    PROVE  Sound(channels[c]) /\ FewUsers(channels[c])
BY ChannelsSoundThen, UsersAreFew DEF ChannelsSound

LEMMA DisconnectLimits ==
    ASSUME IInv, NEW f \in Fd, Disconnect(f) PROVE LimitsKept
<1>1. CASE Segfault
  BY <1>1, SameChannelsKeepLimits DEF Segfault
<1>2. CASE channels' = [c \in Chan |-> IF c \in joined[f]
                                      THEN OrAbsent(DeleteClient(channels[c], nick[f]))
                                      ELSE channels[c]]
           /\ \A c \in joined[f] : IsObject(c)
  <2> SUFFICES ASSUME NEW c \in Chan, OverLimit(c)' PROVE OverLimit(c)
    BY DEF LimitsKept
  <2>1. CASE c \notin joined[f]
    BY <1>2, <2>1 DEF OverLimit, IsObject
  <2>2. CASE c \in joined[f]
    <3>1. IsObject(c) /\ nick[f] \in Nick
      BY <1>2, <2>2 DEF IInv, TypeOK
    <3>2. KeepsLimit(channels[c], DeleteClient(channels[c], nick[f]))
      BY <3>1, ObjectIsTame, DeleteKeepsLimit
    <3>3. channels'[c] \in {Absent, DeleteClient(channels[c], nick[f])}
      BY <1>2, <2>2 DEF OrAbsent
    <3> QED
      BY <3>1, <3>2, <3>3 DEF OverLimit, IsObject, KeepsLimit, Crowded
  <2> QED
    BY <2>1, <2>2
<1> QED
  BY <1>1, <1>2 DEF Disconnect

LEMMA ClientJoinChannelLimits ==
    ASSUME IInv, NEW f \in Fd, NEW c \in Chan, NEW key \in Key \cup {NoKey},
           ClientJoinChannel(f, c, key)
    PROVE  LimitsKept
<1> DEFINE ch == Target(f, c, key)
           new == Admitted(ch, f)
<1>0. nick[f] \in Nick /\ channels \in [Chan -> ChannelState \cup {Absent, Null}]
  BY DEF IInv, TypeOK
<1>1. CASE UNCHANGED channels
  BY <1>1, SameChannelsKeepLimits
<1>2. CASE channels[c] # Null /\ Refused(ch, f, key) /\ channels' = [channels EXCEPT ![c] = ch]
  <2>1. ch = channels[c]
    BY <1>0, <1>2, CreatorAdmitted DEF Target
  <2> QED
    BY <1>0, <1>2, <2>1, SameChannelsKeepLimits
<1>3. CASE channels[c] # Null /\ ~Refused(ch, f, key) /\ channels' = [channels EXCEPT ![c] = new]
  <2>1. Sound(ch) /\ IsFiniteSet(Members(ch))
    <3>1. CASE Found(c)
      BY <1>3, <3>1, ObjectIsTame DEF Target, Found, IsObject, FewUsers
    <3>2. CASE ~Found(c)
      <4>1. Sound(ch) /\ Members(ch) = {nick[f]}
        BY <1>0, <3>2, NewChannelSound DEF Target
      <4> QED
        BY <4>1, FS_Singleton
    <3> QED
      BY <3>1, <3>2
  <2>2. ~IsFull(ch)
    BY <1>3 DEF Refused
  <2>3. Members(new) = Members(ch) \cup {nick[f]}
    BY <1>0, <1>3, <2>1, AdmittedSound
  <2> HIDE DEF ch
  <2>4. new.user_limit = ch.user_limit
    BY <2>1 DEF Sound, ChannelState, Admitted, UseInvite, JoinClient
  <2>5. ~Crowded(new)
    BY <1>0, <2>1, <2>2, <2>3, <2>4, AdmittedKeepsLimit
  <2> HIDE DEF new
  <2> QED
    BY <1>3, <2>5, OneChannelKeepsLimit
<1> QED
  BY <1>1, <1>2, <1>3 DEF ClientJoinChannel, Segfault

LEMMA HandlePartLimits ==
    ASSUME IInv, NEW f \in Fd, HandlePart(f) PROVE LimitsKept
<1>1. PICK c \in Chan : PartChannel(f, c)
  BY DEF HandlePart
<1>2. CASE UNCHANGED channels
  BY <1>2, SameChannelsKeepLimits
<1>3. CASE IsObject(c) /\ LeaveChannel(f, c)
  <2>1. channels' = [channels EXCEPT ![c] = OrAbsent(DeleteClient(channels[c], nick[f]))]
    BY <1>3 DEF LeaveChannel
  <2>2. KeepsLimit(channels[c], DeleteClient(channels[c], nick[f]))
    BY <1>3, ObjectIsTame, DeleteKeepsLimit DEF IInv, TypeOK
  <2>3. OrAbsent(DeleteClient(channels[c], nick[f]))
          \in {Absent, DeleteClient(channels[c], nick[f])}
    BY DEF OrAbsent
  <2> QED
    BY <1>3, <2>1, <2>2, <2>3, OneChannelKeepsLimit
<1> QED
  BY <1>1, <1>2, <1>3 DEF PartChannel, ReplyOnly, Segfault

LEMMA KickStepLimits ==
    ASSUME IInv, NEW f \in Fd, NEW c \in Chan, NEW n \in Nick, NEW last,
           KickStep(f, c, n, last)
    PROVE  LimitsKept
<1>1. CASE UNCHANGED channels
  BY <1>1, SameChannelsKeepLimits
<1>2. CASE IsObject(c) /\ KickedFrom(f, c, n)
  <2> DEFINE ch == channels[c]
             left == OrAbsent(IF n \in Members(ch) THEN DeleteClient(ch, n) ELSE ch)
  <2>1. channels' = [channels EXCEPT ![c] = left]
    BY <1>2 DEF KickedFrom
  <2>2. KeepsLimit(ch, DeleteClient(ch, n))
    BY <1>2, ObjectIsTame, DeleteKeepsLimit
  <2>3. left = Absent \/ KeepsLimit(ch, left)
    BY <2>2 DEF OrAbsent, KeepsLimit
  <2> HIDE DEF left
  <2> QED
    BY <1>2, <2>1, <2>3, OneChannelKeepsLimit
<1> QED
  BY <1>1, <1>2 DEF KickStep, KickNick, ReplyOnly, Segfault

LEMMA HandleKickLimits ==
    ASSUME IInv, NEW f \in Fd, HandleKick(f) PROVE LimitsKept
<1>1. PICK n \in Nick :
         \/ Command(f, "KICK") /\ \E c \in Chan, last \in Nick \cup {""} : KickStep(f, c, n, last)
         \/ Running(f, "KICK") /\ KickStep(f, task.chan, n, task.last)
  BY DEF HandleKick
<1>2. CASE \E c \in Chan, last \in Nick \cup {""} : KickStep(f, c, n, last)
  BY <1>2, KickStepLimits
<1>3. CASE Running(f, "KICK") /\ KickStep(f, task.chan, n, task.last)
  <2>1. task.chan \in Chan
    BY <1>3, RunningClient DEF LoopVerb, IInv, TaskOK
  <2> QED
    BY <1>3, <2>1, KickStepLimits
<1> QED
  BY <1>1, <1>2, <1>3

LEMMA ModeLettersLimits ==
    ASSUME IInv, NEW f \in Fd, NEW c \in Chan, ModeLetters(f, c) PROVE LimitsKept
<1>1. CASE ReplyOnly(f)
  BY <1>1, SameChannelsKeepLimits DEF ReplyOnly
<1>2. CASE \E letter \in Letter : IsObject(c) /\ ModeStep(f, c, letter)
  <2>1. PICK letter \in Letter : IsObject(c) /\ ModeStep(f, c, letter)
    BY <1>2
  <2> DEFINE asked == AfterLookup(channels[c], nick[f])
  <2>2. nick[f] \in Nick /\ Sound(channels[c]) /\ FewUsers(channels[c])
    BY <2>1, ObjectIsTame DEF IInv, TypeOK
  <2>3. KeepsLimit(channels[c], asked)
    BY <2>2, LookupKeepsLimit
  <2>4. Sound(asked) /\ FewUsers(asked)
    BY <2>2, LookupSound DEF FewUsers, Members
  <2>5. CASE channels' = [channels EXCEPT ![c] = asked]
    BY <2>1, <2>3, <2>5, OneChannelKeepsLimit
  <2> HIDE DEF asked
  <2>6. ASSUME NEW moded \in Moded(asked, letter), channels' = [channels EXCEPT ![c] = moded]
        PROVE  LimitsKept
    <3>1. KeepsLimit(asked, moded)
      BY <2>4, ModedKeepsLimit
    <3>2. KeepsLimit(channels[c], moded)
      BY <2>3, <3>1 DEF KeepsLimit
    <3> QED
      BY <2>1, <2>6, <3>2, OneChannelKeepsLimit
  <2> QED
    BY <2>1, <2>5, <2>6 DEF ModeStep, asked
<1> QED
  BY <1>1, <1>2 DEF ModeLetters

LEMMA HandleModeLimits ==
    ASSUME IInv, NEW f \in Fd, HandleMode(f) PROVE LimitsKept
<1>1. CASE UNCHANGED channels
  BY <1>1, SameChannelsKeepLimits
<1>2. CASE \E c \in HashChan : ModeLetters(f, c)
  BY <1>2, ModeLettersLimits, ChanAssumption
<1>3. CASE Running(f, "MODE") /\ ModeLetters(f, task.chan)
  <2>1. task.chan \in Chan
    BY <1>3, RunningClient DEF LoopVerb, IInv, TaskOK
  <2> QED
    BY <1>3, <2>1, ModeLettersLimits
<1> QED
  BY <1>1, <1>2, <1>3 DEF HandleMode, ReplyOnly, Segfault

LEMMA HandleInviteLimits ==
    ASSUME IInv, NEW f \in Fd, NEW c \in Chan, NEW n \in Nick, HandleInvite(f, c, n)
    PROVE  LimitsKept
<1>1. CASE UNCHANGED channels
  BY <1>1, SameChannelsKeepLimits
<1>2. CASE IsObject(c) /\ channels' = [channels EXCEPT ![c] = AddInvited(channels[c], n)]
  <2>1. KeepsLimit(channels[c], AddInvited(channels[c], n))
    BY <1>2, ObjectIsTame, InvitationKeepsLimit
  <2> QED
    BY <1>2, <2>1, OneChannelKeepsLimit
<1> QED
  BY <1>1, <1>2 DEF HandleInvite, ReplyOnly, Segfault

LEMMA HandleListLimits ==
    ASSUME IInv, NEW f \in Fd, HandleList(f) PROVE LimitsKept
<1>1. CASE UNCHANGED channels
  BY <1>1, SameChannelsKeepLimits
<1>2. CASE \E c \in Chan : channels' = [channels EXCEPT ![c] = IF Found(c) THEN @ ELSE Null]
  <2>1. PICK c \in Chan :
          channels' = [channels EXCEPT ![c] = IF Found(c) THEN channels[c] ELSE Null]
    BY <1>2
  <2>2. CASE Found(c)
    <3>1. channels' = channels
      BY <2>1, <2>2 DEF IInv, TypeOK
    <3> QED
      BY <3>1, SameChannelsKeepLimits
  <2>3. CASE ~Found(c)
    BY <2>1, <2>3, OneChannelKeepsLimit
  <2> QED
    BY <2>2, <2>3
<1> QED
  BY <1>1, <1>2 DEF HandleList, ReplyOnly, Segfault

LEMMA HandleWhoLimits ==
    ASSUME IInv, NEW f \in Fd, HandleWho(f) PROVE LimitsKept
<1>1. CASE UNCHANGED channels
  BY <1>1, SameChannelsKeepLimits
<1>2. ASSUME NEW n \in Nick, WhoNick(f, n), ~UNCHANGED channels
      PROVE  LimitsKept
  <2> DEFINE asked == {FirstChannel(g) : g \in {g \in connected : nick[g] = n /\ joined[g] # {}}}
  <2>1. /\ channels' = [c \in Chan |-> IF c \in asked THEN AfterLookup(channels[c], n)
                                      ELSE channels[c]]
        /\ \A c \in asked : IsObject(c)
    BY <1>2 DEF WhoNick, Segfault
  <2> HIDE DEF asked
  <2> SUFFICES ASSUME NEW c \in Chan, OverLimit(c)' PROVE OverLimit(c)
    BY DEF LimitsKept
  <2>2. CASE c \notin asked
    BY <2>1, <2>2 DEF OverLimit, IsObject
  <2>3. CASE c \in asked
    <3>1. IsObject(c) /\ KeepsLimit(channels[c], AfterLookup(channels[c], n))
      BY <2>1, <2>3, ObjectIsTame, LookupKeepsLimit
    <3>2. channels'[c] = AfterLookup(channels[c], n)
      BY <2>1, <2>3
    <3> QED
      BY <3>1, <3>2 DEF OverLimit, KeepsLimit, Crowded
  <2> QED
    BY <2>2, <2>3
<1> QED
  BY <1>1, <1>2 DEF HandleWho, WhoChannel, ReplyOnly, Segfault

LEMMA NextLimits ==
    ASSUME IInv, [Next]_vars, \A f \in Fd, n \in Nick : ~HandleNick(f, n)
    PROVE  LimitsKept
<1>1. CASE UNCHANGED channels
  BY <1>1, SameChannelsKeepLimits
<1>2. ASSUME NEW f \in Fd, ~UNCHANGED channels,
             \/ Accept(f) \/ PassAccepted(f) \/ PassRefused(f) \/ HandleReplyOnly(f)
             \/ ClientGone(f) \/ WriteReady(f) \/ HandleQuit(f)
      PROVE  LimitsKept
  <2>1. Disconnect(f)
    BY <1>2 DEF Accept, PassAccepted, PassRefused, HandleReplyOnly, ReplyOnly, ClientGone,
                WriteReady, HandleQuit, Segfault
  <2> QED
    BY <2>1, DisconnectLimits
<1>3. ASSUME NEW f \in Fd,
             \/ HandleJoin(f) \/ JoinNext(f) \/ HandlePart(f) \/ HandleKick(f)
             \/ \E c \in Chan, n \in Nick : HandleInvite(f, c, n)
             \/ HandleMode(f)
      PROVE  LimitsKept
  <2>1. CASE HandleJoin(f)
    <3>1. ReplyOnly(f) \/ \E c \in Chan, key \in Key \cup {NoKey} : ClientJoinChannel(f, c, key)
      BY <2>1, ChanAssumption DEF HandleJoin
    <3> QED
      BY <3>1, SameChannelsKeepLimits, ClientJoinChannelLimits DEF ReplyOnly
  <2>2. CASE JoinNext(f)
    BY <2>2, ClientJoinChannelLimits DEF JoinNext
  <2> QED
    BY <1>3, <2>1, <2>2, HandlePartLimits, HandleKickLimits, HandleInviteLimits,
       HandleModeLimits
<1>4. ASSUME NEW f \in Fd, ~UNCHANGED channels,
             \/ \E c \in Chan : HandleTopic(f, c)
             \/ HandlePrivmsg(f) \/ HandleList(f) \/ HandleWho(f)
      PROVE  LimitsKept
  <2>1. ~HandlePrivmsg(f) /\ \A c \in Chan : ~HandleTopic(f, c)
    BY <1>4 DEF HandleTopic, HandlePrivmsg, MsgToChannel, MsgToUser, ReplyOnly, Segfault
  <2> QED
    BY <1>4, <2>1, HandleListLimits, HandleWhoLimits
<1> QED
  BY <1>1, <1>2, <1>3, <1>4 DEF Next, vars

\* JOIN and MODE +l never take a channel over its limit, nor does anything else but
\* NICK, which adds a kicked client without a look at the limit.
THEOREM LimitsAreExceededByNick == Spec => LimitExceededOnlyByNick
<1>1. IInv /\ [Next]_vars =>
         [\A c \in Chan : OverLimit(c)' /\ ~OverLimit(c) =>
            \E f \in Fd, n \in Nick : HandleNick(f, n)]_vars
  BY NextLimits DEF LimitsKept
<1> QED
  BY <1>1, Inductive, PTL DEF Spec, LimitExceededOnlyByNick

================================================================================
