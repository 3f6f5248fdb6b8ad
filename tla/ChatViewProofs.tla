----------------------------- MODULE ChatViewProofs -----------------------------
(***************************************************************************)
(* What the users of a channel believe about each other, for every number   *)
(* of sockets, nicknames and channels: by which steps a belief may become   *)
(* wrong.                                                                   *)
(*                                                                          *)
(* A handler is described twice, by what it does to the entries of the      *)
(* channels and by what it tells; both are then compared.                   *)
(***************************************************************************)
EXTENDS ChatView, ChatServerProofs

--------------------------------------------------------------------------------
(* Entries: the users of all channels as one table. *)

EntryIn(ch, n) == IF ch \notin {Absent, Null} THEN ch.users[n] ELSE NoFd

Entry(n, c) == EntryIn(channels[c], n)

SameEntries == \A n \in Nick, c \in Chan : Entry(n, c)' = Entry(n, c)

LEMMA UsersAreEntries ==
    ASSUME NEW c \in Chan
    PROVE  /\ Users(c) = {n \in Nick : Entry(n, c) # NoFd}
           /\ Users(c)' = {n \in Nick : Entry(n, c)' # NoFd}
BY DEF Users, Entry, EntryIn, IsObject, Members

LEMMA SeatIsEntry ==
    ASSUME IInv, IInv', NEW f \in Fd, NEW c \in Chan
    PROVE  /\ nick[f] \in Nick /\ nick'[f] \in Nick
           /\ Seated(f, c) <=> Entry(nick[f], c) = f
           /\ \A n \in Nick : n = nick'[f] => (Seated(f, c)' <=> Entry(n, c)' = f)
<1>1. nick[f] \in Nick /\ nick'[f] \in Nick
  BY DEF IInv, TypeOK
<1>2. f # NoFd
  BY NickAssumption
<1>3. Seated(f, c) <=> Entry(nick[f], c) = f
  BY <1>1, <1>2 DEF Seated, Entry, EntryIn, IsObject
<1>4. ASSUME NEW n \in Nick, n = nick'[f] PROVE Seated(f, c)' <=> Entry(n, c)' = f
  BY <1>1, <1>2, <1>4 DEF Seated, Entry, EntryIn, IsObject
<1> QED
  BY <1>1, <1>3, <1>4

\* An entry is that of a client with this nickname now, which has the channel in its
\* own map.
LEMMA EntryLive ==
    ASSUME IInv, NEW n \in Nick, NEW c \in Chan, Entry(n, c) # NoFd
    PROVE  /\ Entry(n, c) \in connected /\ Entry(n, c) \in Fd
           /\ nick[Entry(n, c)] = n /\ c \in joined[Entry(n, c)]
<1>1. IsObject(c) /\ Entry(n, c) = channels[c].users[n] /\ n \in Members(channels[c])
  BY DEF Entry, EntryIn, IsObject, Members
<1>2. connected \subseteq Fd
  BY DEF IInv, TypeOK
<1> QED
  BY <1>1, <1>2 DEF IInv, EntriesLive

LEMMA SoundEntry ==
    ASSUME NEW ch, Sound(ch), NEW n PROVE EntryIn(ch, n) = ch.users[n]
BY AbsentAssumption DEF Sound, EntryIn

LEMMA OneChannelEntries ==
    ASSUME IInv, NEW c \in Chan, NEW new, channels' = [channels EXCEPT ![c] = new],
           NEW n \in Nick, NEW d \in Chan
    PROVE  Entry(n, d)' = IF d = c THEN EntryIn(new, n) ELSE Entry(n, d)
<1>1. channels'[d] = IF d = c THEN new ELSE channels[d]
  BY DEF IInv, TypeOK
<1> QED
  BY <1>1 DEF Entry

LEMMA SameChannelsEntries ==
    ASSUME UNCHANGED channels PROVE SameEntries
BY DEF SameEntries, Entry

\* deleteClient, and the deletion of the channel with its last user, take one entry.
LEMMA DeletedEntry ==
    ASSUME NEW ch, Sound(ch), NEW n \in Nick, NEW m \in Nick
    PROVE  EntryIn(OrAbsent(DeleteClient(ch, n)), m) = IF m = n THEN NoFd ELSE EntryIn(ch, m)
<1> DEFINE new == DeleteClient(ch, n)
<1>1. Sound(new) /\ Members(new) = Members(ch) \ {n} /\ (m # n => new.users[m] = ch.users[m])
  BY DeleteSound
<1>2. m \notin Members(new) => new.users[m] = NoFd
  BY DEF Members
<1>3. new.users[m] = IF m = n THEN NoFd ELSE ch.users[m]
  BY <1>1, <1>2
<1> HIDE DEF new
<1>4. CASE Members(new) = {}
  <2>1. OrAbsent(new) = Absent
    BY <1>4 DEF OrAbsent
  <2>2. new.users[m] = NoFd
    BY <1>2, <1>4
  <2> QED
    BY <1>3, <2>1, <2>2, SoundEntry DEF EntryIn, new
<1>5. CASE Members(new) # {}
  <2>1. OrAbsent(new) = new
    BY <1>5 DEF OrAbsent
  <2> QED
    BY <1>1, <1>3, <2>1, SoundEntry DEF new
<1> QED
  BY <1>4, <1>5

--------------------------------------------------------------------------------
(* Handlers that tell nobody *)

LEMMA SameUsersEntries ==
    ASSUME IInv, NEW c \in Chan, IsObject(c), NEW new, Sound(new),
           new.users = channels[c].users, channels' = [channels EXCEPT ![c] = new]
    PROVE  SameEntries
<1> SUFFICES ASSUME NEW n \in Nick, NEW d \in Chan PROVE Entry(n, d)' = Entry(n, d)
  BY DEF SameEntries
<1>1. Sound(channels[c])
  BY ChannelsSoundThen DEF ChannelsSound
<1>2. EntryIn(new, n) = Entry(n, c)
  BY <1>1, SoundEntry DEF Entry
<1> QED
  BY <1>2, OneChannelEntries

LEMMA ModeLettersEntries ==
    ASSUME IInv, NEW g \in Fd, NEW d \in Chan, ModeLetters(g, d)
    PROVE  SameEntries
<1>1. CASE ReplyOnly(g)
  BY <1>1, SameChannelsEntries DEF ReplyOnly
<1>2. CASE \E letter \in Letter : IsObject(d) /\ ModeStep(g, d, letter)
  <2>1. PICK letter \in Letter : IsObject(d) /\ ModeStep(g, d, letter)
    BY <1>2
  <2> DEFINE asked == AfterLookup(channels[d], nick[g])
  <2>2. Sound(channels[d]) /\ nick[g] \in Nick
    BY <2>1, ChannelsSoundThen DEF ChannelsSound, IInv, TypeOK
  <2>3. Sound(asked) /\ asked.users = channels[d].users
    BY <2>2, LookupSound
  <2> HIDE DEF asked
  <2>4. CASE channels' = [channels EXCEPT ![d] = asked]
    BY <2>1, <2>3, <2>4, SameUsersEntries
  <2>5. CASE \E moded \in Moded(asked, letter) : channels' = [channels EXCEPT ![d] = moded]
    <3>1. PICK moded \in Moded(asked, letter) : channels' = [channels EXCEPT ![d] = moded]
      BY <2>5
    <3>2. Sound(moded) /\ moded.users = channels[d].users
      BY <2>3, ModedSound
    <3> QED
      BY <2>1, <3>1, <3>2, SameUsersEntries
  <2> QED
    BY <2>1, <2>4, <2>5 DEF ModeStep, asked
<1> QED
  BY <1>1, <1>2 DEF ModeLetters

LEMMA HandleModeEntries ==
    ASSUME IInv, NEW g \in Fd, HandleMode(g) PROVE SameEntries
<1>1. CASE UNCHANGED channels
  BY <1>1, SameChannelsEntries
<1>2. CASE \E d \in HashChan : ModeLetters(g, d)
  BY <1>2, ModeLettersEntries, ChanAssumption
<1>3. CASE Running(g, "MODE") /\ ModeLetters(g, task.chan)
  <2>1. task.chan \in Chan
    BY <1>3, RunningClient DEF LoopVerb, IInv, TaskOK
  <2> QED
    BY <1>3, <2>1, ModeLettersEntries
<1> QED
  BY <1>1, <1>2, <1>3 DEF HandleMode, ReplyOnly, Segfault

LEMMA HandleInviteEntries ==
    ASSUME IInv, NEW g \in Fd, NEW d \in Chan, NEW m \in Nick, HandleInvite(g, d, m)
    PROVE  SameEntries
<1>1. CASE UNCHANGED channels
  BY <1>1, SameChannelsEntries
<1>2. CASE IsObject(d) /\ channels' = [channels EXCEPT ![d] = AddInvited(channels[d], m)]
  <2>1. Sound(channels[d])
    BY <1>2, ChannelsSoundThen DEF ChannelsSound
  <2>2. Sound(AddInvited(channels[d], m)) /\ AddInvited(channels[d], m).users = channels[d].users
    BY <2>1, AddInvitedSound
  <2> QED
    BY <1>2, <2>2, SameUsersEntries
<1> QED
  BY <1>1, <1>2 DEF HandleInvite, ReplyOnly, Segfault

LEMMA HandleListEntries ==
    ASSUME IInv, NEW g \in Fd, HandleList(g) PROVE SameEntries
<1>1. CASE UNCHANGED channels
  BY <1>1, SameChannelsEntries
<1>2. ASSUME NEW d \in Chan,
             channels' = [channels EXCEPT ![d] = IF Found(d) THEN channels[d] ELSE Null]
      PROVE  SameEntries
  <2> SUFFICES ASSUME NEW n \in Nick, NEW c \in Chan PROVE Entry(n, c)' = Entry(n, c)
    BY DEF SameEntries
  <2>1. EntryIn(IF Found(d) THEN channels[d] ELSE Null, n) = EntryIn(channels[d], n)
    BY DEF EntryIn, Found
  <2> QED
    BY <1>2, <2>1, OneChannelEntries DEF Entry
<1> QED
  BY <1>1, <1>2 DEF HandleList, ReplyOnly, Segfault

LEMMA HandleWhoEntries ==
    ASSUME IInv, NEW g \in Fd, HandleWho(g) PROVE SameEntries
<1>1. CASE UNCHANGED channels
  BY <1>1, SameChannelsEntries
<1>2. ASSUME NEW m \in Nick, WhoNick(g, m), ~UNCHANGED channels PROVE SameEntries
  <2> DEFINE asked == {FirstChannel(h) : h \in {h \in connected : nick[h] = m /\ joined[h] # {}}}
  <2>1. /\ \A c \in asked : IsObject(c)
        /\ channels' = [d \in Chan |-> IF d \in asked THEN AfterLookup(channels[d], m)
                                       ELSE channels[d]]
    BY <1>2 DEF WhoNick, Segfault
  <2> HIDE DEF asked
  <2> SUFFICES ASSUME NEW n \in Nick, NEW c \in Chan PROVE Entry(n, c)' = Entry(n, c)
    BY DEF SameEntries
  <2>2. CASE c \in asked
    <3>1. Sound(channels[c])
      BY <2>1, <2>2, ChannelsSoundThen DEF ChannelsSound
    <3>2. Sound(AfterLookup(channels[c], m))
          /\ AfterLookup(channels[c], m).users = channels[c].users
      BY <3>1, LookupSound
    <3>3. channels'[c] = AfterLookup(channels[c], m)
      BY <2>1, <2>2
    <3> QED
      BY <3>1, <3>2, <3>3, SoundEntry DEF Entry
  <2>3. CASE c \notin asked
    <3>1. channels'[c] = channels[c]
      BY <2>1, <2>3
    <3> QED
      BY <3>1 DEF Entry
  <2> QED
    BY <2>2, <2>3
<1> QED
  BY <1>1, <1>2 DEF HandleWho, WhoChannel, ReplyOnly, Segfault

\* The entries of a disconnected client disappear.
Taken ==
    \E g \in connected \ connected' : \A n \in Nick, c \in Chan :
       Entry(n, c)' = Entry(n, c) \/ (Entry(n, c)' = NoFd /\ nick[g] = n)

LEMMA DisconnectEntries ==
    ASSUME IInv, NEW f \in connected, Disconnect(f)
    PROVE  SameEntries \/ Taken
<1>1. CASE Segfault
  BY <1>1, SameChannelsEntries DEF Segfault
<1>2. CASE /\ \A c \in joined[f] : IsObject(c)
           /\ channels' = [c \in Chan |-> IF c \in joined[f]
                                          THEN OrAbsent(DeleteClient(channels[c], nick[f]))
                                          ELSE channels[c]]
           /\ connected' = connected \ {f}
  <2>1. nick[f] \in Nick
    BY DEF IInv, TypeOK
  <2>2. ASSUME NEW n \in Nick, NEW c \in Chan 
        PROVE  Entry(n, c)' = Entry(n, c) \/ (Entry(n, c)' = NoFd /\ nick[f] = n)
    <3>1. CASE c \in joined[f]
      <4>1. Sound(channels[c])
        BY <1>2, <3>1, ChannelsSoundThen DEF ChannelsSound
      <4>2. channels'[c] = OrAbsent(DeleteClient(channels[c], nick[f]))
        BY <1>2, <3>1
      <4> QED
        BY <2>1, <4>1, <4>2, DeletedEntry DEF Entry
    <3>2. CASE c \notin joined[f]
      BY <1>2, <3>2 DEF Entry
    <3> QED
      BY <3>1, <3>2
  <2> QED
    BY <1>2, <2>2 DEF Taken
<1> QED
  BY <1>1, <1>2 DEF Disconnect

\* What nobody is told changes no entry, but for a disconnection.
LEMMA QuietEntries ==
    ASSUME IInv, NEW f \in Fd, Quiet(f)
    PROVE  SameEntries \/ Taken
<1>1. CASE UNCHANGED channels
  BY <1>1, SameChannelsEntries
<1>2. CASE \/ Accept(f) \/ PassAccepted(f) \/ PassRefused(f) \/ HandleReplyOnly(f)
           \/ ClientGone(f) \/ WriteReady(f)
  <2>1. CASE f \in connected /\ Disconnect(f)
    BY <2>1, DisconnectEntries
  <2>2. UNCHANGED channels \/ (f \in connected /\ Disconnect(f))
    BY <1>2 DEF Accept, PassAccepted, PassRefused, HandleReplyOnly, ReplyOnly, ClientGone,
                WriteReady
  <2> QED
    BY <1>1, <2>1, <2>2
<1>3. CASE \/ \E c \in Chan, n \in Nick : HandleInvite(f, c, n)
           \/ HandleMode(f) \/ HandleList(f) \/ HandleWho(f)
  BY <1>3, HandleInviteEntries, HandleModeEntries, HandleListEntries, HandleWhoEntries
<1>4. CASE HandlePrivmsg(f) \/ \E c \in Chan : HandleTopic(f, c)
  <2>1. UNCHANGED channels
    BY <1>4 DEF HandleTopic, HandlePrivmsg, MsgToChannel, MsgToUser, ReplyOnly, Segfault
  <2> QED
    BY <1>1, <2>1
<1> QED
  BY <1>2, <1>3, <1>4 DEF Quiet

--------------------------------------------------------------------------------
(* Handlers that tell *)

\* Nothing changes, and nobody is told anything.
Silent == SameEntries /\ Read(view)

\* Somebody is gone without a word.
Vanished == Taken /\ Read(view)

\* f enters c.
Joined(f, c) ==
    /\ nick' = nick
    /\ \A n \in Nick, d \in Chan :
          Entry(n, d)' = IF d = c /\ n = nick[f] /\ Entry(n, d) = NoFd THEN f ELSE Entry(n, d)
    /\ \A g \in Fd, d \in Chan : Seated(g, d)' =>
          view'[g][d] = IF d # c THEN view[g][d]
                        ELSE view[g][d] \cup {nick[f]} \cup IF g = f THEN Users(c) ELSE {}
    /\ \A g \in Fd, d \in Chan : ~Seated(g, d)' => view'[g][d] = {}

\* The entry of n leaves c.
Left(n, c) ==
    /\ nick' = nick
    /\ \A m \in Nick, d \in Chan :
          Entry(m, d)' = IF d = c /\ m = n THEN NoFd ELSE Entry(m, d)
    /\ \A g \in Fd, d \in Chan : Seated(g, d)' =>
          view'[g][d] = IF d = c THEN view[g][d] \ {n} ELSE view[g][d]
    /\ \A g \in Fd, d \in Chan : ~Seated(g, d)' => view'[g][d] = {}

\* f is called m from now on.
Renames(f, m) ==
    /\ f \in connected /\ ~IsClient(m) /\ nick' = [nick EXCEPT ![f] = m]
    /\ joined' = joined
    /\ \A n \in Nick, c \in Chan :
          Entry(n, c)' = IF c \notin joined[f] THEN Entry(n, c)
                         ELSE IF n = m THEN f
                         ELSE IF n = nick[f] THEN NoFd
                         ELSE Entry(n, c)
    /\ RenameRead(f, m)

\* Each client has a view of each channel.
ViewOK == view = [g \in Fd |-> [c \in Chan |-> view[g][c]]]

LEMMA ReadView ==
    ASSUME NEW views, Read(views)
    PROVE  /\ \A g \in Fd, c \in Chan :
                 view'[g][c] = IF Seated(g, c)' THEN views[g][c] ELSE {}
           /\ ViewOK'
<1>1. \A g \in Fd, c \in Chan : view'[g][c] = IF Seated(g, c)' THEN views[g][c] ELSE {}
  BY DEF Read
<1>2. ViewOK'
  BY DEF Read, ViewOK
<1> QED
  BY <1>1, <1>2

LEMMA JoinedIs ==
    ASSUME IInv, ViewOK, NEW f \in Fd, NEW c \in Chan, NEW key \in Key \cup {NoKey},
           ClientJoinChannel(f, c, key), channels[c] # Null,
           ~Refused(Target(f, c, key), f, key), JoinRead(f, c)
    PROVE  Joined(f, c)
<1> DEFINE ch == Target(f, c, key)
           n == nick[f]
<1>1. /\ channels' = [channels EXCEPT ![c] = Admitted(ch, f)] /\ nick' = nick
  BY DEF ClientJoinChannel, perClient
<1>2. n \in Nick
  BY DEF IInv, TypeOK
<1>3. /\ Sound(ch)
      /\ \A m \in Nick : EntryIn(Admitted(ch, f), m)
                           = IF m = n /\ Entry(m, c) = NoFd THEN f ELSE Entry(m, c)
  <2>1. CASE Found(c)
    <3>1. ch = channels[c] /\ IsObject(c)
      BY <2>1 DEF Target, Found, IsObject
    <3>2. Sound(ch)
      BY <3>1, ChannelsSoundThen DEF ChannelsSound
    <3> HIDE DEF ch
    <3>3. /\ Sound(Admitted(ch, f))
          /\ Members(Admitted(ch, f)) = Members(ch) \cup {n}
          /\ n \notin Members(ch) => Admitted(ch, f).users[n] = f
          /\ \A m \in Members(ch) : Admitted(ch, f).users[m] = ch.users[m]
      BY <1>2, <3>2, AdmittedSound DEF ch
    <3>4. ASSUME NEW m \in Nick
          PROVE  Admitted(ch, f).users[m] = IF m = n /\ ch.users[m] = NoFd THEN f
                                            ELSE ch.users[m]
      BY <3>3 DEF Members
    <3>5. \A m \in Nick : Entry(m, c) = ch.users[m]
      BY <3>1, <3>2, SoundEntry DEF Entry
    <3> QED
      BY <3>2, <3>3, <3>4, <3>5, SoundEntry
  <2>2. CASE ~Found(c)
    <3>1. ch = NewChannel(n, f, key)
      BY <2>2 DEF Target
    <3>2. Sound(ch) /\ Members(ch) = {n}
      BY <1>2, <3>1, NewChannelSound
    <3>3. \A m \in Nick : ch.users[m] = IF m = n THEN f ELSE NoFd
      BY <3>1 DEF NewChannel
    <3> HIDE DEF ch
    <3>4. /\ Sound(Admitted(ch, f))
          /\ Members(Admitted(ch, f)) = Members(ch) \cup {n}
          /\ \A m \in Members(ch) : Admitted(ch, f).users[m] = ch.users[m]
      BY <1>2, <3>2, AdmittedSound DEF ch
    <3>5. ASSUME NEW m \in Nick
          PROVE  Admitted(ch, f).users[m] = IF m = n THEN f ELSE NoFd
      BY <3>2, <3>3, <3>4 DEF Members
    <3>6. \A m \in Nick : Entry(m, c) = NoFd
      BY <2>2 DEF Entry, EntryIn, Found
    <3> QED
      BY <3>2, <3>4, <3>5, <3>6, SoundEntry
  <2> QED
    BY <2>1, <2>2
<1>4. \A m \in Nick, d \in Chan :
        Entry(m, d)' = IF d = c /\ m = n /\ Entry(m, d) = NoFd THEN f ELSE Entry(m, d)
  BY <1>1, <1>3, OneChannelEntries
<1>5. NameList(f, c) \cup {n} = Users(c) \cup {n}
  <2>1. CASE IsObject(c)
    BY <2>1 DEF NameList, Target, Found, IsObject, Users
  <2>2. CASE ~IsObject(c)
    <3>1. ~Found(c) /\ Users(c) = {}
      BY <2>2 DEF IsObject, Found, Users
    <3>2. NameList(f, c) = Members(NewChannel(n, f, NoKey))
      BY <3>1 DEF NameList, Target
    <3>3. NameList(f, c) = {n}
      BY <1>2, <3>2, NewChannelSound
    <3> QED
      BY <3>1, <3>3
  <2> QED
    BY <2>1, <2>2
<1> HIDE DEF n
<1>6. ASSUME NEW g \in Fd, NEW d \in Chan
      PROVE  /\ ~Seated(g, d)' => view'[g][d] = {}
             /\ Seated(g, d)' =>
                  view'[g][d] = IF d # c THEN view[g][d]
                                ELSE view[g][d] \cup ({n} \cup IF g = f THEN NameList(f, c) ELSE {})
  <2> DEFINE told(h) == {n} \cup IF h = f THEN NameList(f, c) ELSE {}
             views == [h \in Fd |-> [view[h] EXCEPT ![c] = @ \cup told(h)]]
  <2>1. Read(views)
    BY DEF JoinRead, n
  <2>2. view'[g][d] = IF Seated(g, d)' THEN views[g][d] ELSE {}
    BY <2>1 DEF Read
  <2>3. view[g] = [e \in Chan |-> view[g][e]]
    BY DEF ViewOK
  <2> HIDE DEF told
  <2>4. views[g][d] = IF d # c THEN view[g][d] ELSE view[g][d] \cup told(g)
    BY <2>3
  <2> QED
    BY <2>2, <2>4 DEF told
<1>7. ASSUME NEW g \in Fd, NEW d \in Chan, Seated(g, d)'
      PROVE  view'[g][d] = IF d # c THEN view[g][d]
                           ELSE view[g][d] \cup {n} \cup IF g = f THEN Users(c) ELSE {}
  BY <1>5, <1>6, <1>7
<1> QED
  BY <1>1, <1>4, <1>6, <1>7 DEF Joined, n

LEMMA JoinTells ==
    ASSUME IInv, ViewOK, NEW f \in Fd, JoinTold(f)
    PROVE  Silent \/ \E c \in Chan : Joined(f, c)
<1>1. CASE ReplyOnly(f) /\ Read(view)
  BY <1>1, SameChannelsEntries DEF ReplyOnly, Silent
<1>2. ASSUME NEW c \in Chan, NEW key \in Key \cup {NoKey}, ClientJoinChannel(f, c, key),
             channels[c] = Null \/ Refused(Target(f, c, key), f, key), Read(view)
      PROVE  Silent
  <2>1. CASE channels[c] = Null
    BY <1>2, <2>1, SameChannelsEntries DEF ClientJoinChannel, Segfault, Silent
  <2>2. CASE channels[c] # Null
    <3>1. /\ channels' = [channels EXCEPT ![c] = Target(f, c, key)]
          /\ Refused(Target(f, c, key), f, key)
      BY <1>2, <2>2 DEF ClientJoinChannel
    <3>2. Found(c)
      <4>1. nick[f] \in Nick
        BY DEF IInv, TypeOK
      <4> QED
        BY <3>1, <4>1, CreatorAdmitted DEF Target
    <3>3. UNCHANGED channels
      BY <3>1, <3>2 DEF Target, IInv, TypeOK
    <3> QED
      BY <1>2, <3>3, SameChannelsEntries DEF Silent
  <2> QED
    BY <2>1, <2>2
<1>3. ASSUME NEW c \in Chan, NEW key \in Key \cup {NoKey}, ClientJoinChannel(f, c, key),
             ~(channels[c] = Null \/ Refused(Target(f, c, key), f, key)), JoinRead(f, c)
      PROVE  Joined(f, c)
  BY <1>3, JoinedIs
<1> QED
  BY <1>1, <1>2, <1>3 DEF JoinTold

LEMMA LeftIs ==
    ASSUME IInv, ViewOK, NEW c \in Chan, IsObject(c), NEW n \in Nick,
           channels' = [channels EXCEPT ![c] = OrAbsent(DeleteClient(channels[c], n))],
           UNCHANGED nick, LeftRead(n, c)
    PROVE  Left(n, c)
<1>1. Sound(channels[c])
  BY ChannelsSoundThen DEF ChannelsSound
<1>2. ASSUME NEW m \in Nick, NEW d \in Chan
      PROVE  Entry(m, d)' = IF d = c /\ m = n THEN NoFd ELSE Entry(m, d)
  <2> DEFINE new == OrAbsent(DeleteClient(channels[c], n))
  <2> HIDE DEF new
  <2>1. Entry(m, d)' = IF d = c THEN EntryIn(new, m) ELSE Entry(m, d)
    BY OneChannelEntries DEF new
  <2>2. EntryIn(new, m) = IF m = n THEN NoFd ELSE EntryIn(channels[c], m)
    BY <1>1, DeletedEntry DEF new
  <2>3. Entry(m, c) = EntryIn(channels[c], m)
    BY DEF Entry
  <2> QED
    BY <2>1, <2>2, <2>3
<1>3. ASSUME NEW g \in Fd, NEW d \in Chan
      PROVE  view'[g][d] = IF Seated(g, d)'
                           THEN (IF d = c THEN view[g][d] \ {n} ELSE view[g][d]) ELSE {}
  <2>1. view[g] = [e \in Chan |-> view[g][e]]
    BY DEF ViewOK
  <2> DEFINE views == [h \in Fd |-> [view[h] EXCEPT ![c] = @ \ {n}]]
  <2>2. view'[g][d] = IF Seated(g, d)' THEN views[g][d] ELSE {}
    BY DEF LeftRead, Read
  <2>3. views[g][d] = IF d = c THEN view[g][d] \ {n} ELSE view[g][d]
    BY <2>1
  <2> QED
    BY <2>2, <2>3
<1> QED
  BY <1>2, <1>3 DEF Left

LEMMA PartTells ==
    ASSUME IInv, ViewOK, NEW f \in Fd, PartTold(f)
    PROVE  Silent \/ \E n \in Nick, c \in Chan : Left(n, c)
<1>1. CASE UNCHANGED channels /\ Read(view)
  BY <1>1, SameChannelsEntries DEF Silent
<1>2. ASSUME NEW c \in Chan, IsObject(c), LeaveChannel(f, c), LeftRead(nick[f], c)
      PROVE  nick[f] \in Nick /\ Left(nick[f], c)
  <2>1. nick[f] \in Nick
    BY DEF IInv, TypeOK
  <2>2. /\ channels' = [channels EXCEPT ![c] = OrAbsent(DeleteClient(channels[c], nick[f]))]
        /\ UNCHANGED nick
    BY <1>2 DEF LeaveChannel, perClient
  <2> QED
    BY <1>2, <2>1, <2>2, LeftIs
<1> QED
  BY <1>1, <1>2 DEF PartTold

LEMMA KickTells ==
    ASSUME IInv, ViewOK, NEW f \in Fd, KickTold(f)
    PROVE  Silent \/ \E n \in Nick, c \in Chan : Left(n, c)
<1>1. CASE UNCHANGED channels /\ Read(view)
  BY <1>1, SameChannelsEntries DEF Silent
<1>2. ASSUME NEW c \in Chan, NEW n \in Nick, IsObject(c), n \in Members(channels[c]),
             KickedFrom(f, c, n), LeftRead(n, c)
      PROVE  Left(n, c)
  <2>1. /\ channels' = [channels EXCEPT ![c] = OrAbsent(DeleteClient(channels[c], n))]
        /\ UNCHANGED nick
    BY <1>2 DEF KickedFrom, perClient
  <2> QED
    BY <1>2, <2>1, LeftIs
<1> QED
  BY <1>1, <1>2 DEF KickTold

LEMMA NickTells ==
    ASSUME IInv, NEW f \in Fd, NEW m \in Nick, NickTold(f, m)
    PROVE  Silent \/ Renames(f, m)
<1>1. f \in connected /\ nick \in [Fd -> Nick]
  BY CommandClient DEF NickTold, HandleNick, IInv, TypeOK
<1>2. CASE UNCHANGED channels /\ UNCHANGED nick
  BY <1>2, SameChannelsEntries DEF NickTold, Silent
<1>3. CASE /\ ~IsClient(m)
           /\ \A c \in joined[f] : IsObject(c)
           /\ nick' = [nick EXCEPT ![f] = m] /\ joined' = joined
           /\ channels' = [c \in Chan |-> IF c \in joined[f] THEN Renamed(channels[c], f, m)
                                          ELSE channels[c]]
  <2>1. nick[f] # m
    BY <1>1, <1>3 DEF IsClient
  <2>2. nick' # nick
    BY <1>1, <1>3, <2>1
  <2>3. RenameRead(f, m)
    BY <2>2 DEF NickTold
  <2>4. ASSUME NEW n \in Nick, NEW c \in Chan
        PROVE  Entry(n, c)' = IF c \notin joined[f] THEN Entry(n, c)
                              ELSE IF n = m THEN f
                              ELSE IF n = nick[f] THEN NoFd
                              ELSE Entry(n, c)
    <3>1. CASE c \notin joined[f]
      <4>1. channels'[c] = channels[c]
        BY <1>3, <3>1
      <4> QED
        BY <3>1, <4>1 DEF Entry
    <3>2. CASE c \in joined[f]
      <4> DEFINE ch == channels[c]
                 new == Renamed(ch, f, m)
      <4>1. IsObject(c) /\ channels'[c] = new
        BY <1>3, <3>2
      <4>2. /\ Sound(new) /\ Members(new) = (Members(ch) \ {nick[f]}) \cup {m}
            /\ new.users[m] = f
            /\ \A i \in Nick \ {m, nick[f]} : new.users[i] = ch.users[i]
        BY <4>1, RenamedSound
      <4>3. Sound(ch)
        BY <4>1, ChannelsSoundThen DEF ChannelsSound
      <4> HIDE DEF new
      <4>4. new.users[n] = IF n = m THEN f ELSE IF n = nick[f] THEN NoFd ELSE ch.users[n]
        BY <2>1, <4>2 DEF Members
      <4> QED
        BY <3>2, <4>1, <4>2, <4>3, <4>4, SoundEntry DEF Entry
    <3> QED
      BY <3>1, <3>2
  <2> QED
    BY <1>1, <1>3, <2>3, <2>4 DEF Renames
<1>4. HandleNick(f, m)
  BY DEF NickTold
<1> QED
  BY <1>2, <1>3, <1>4 DEF HandleNick, ReplyOnly, Segfault, perClient

\* QUIT changes no entry and makes nobody believe in anybody.
LEMMA QuitTells ==
    ASSUME IInv, NEW f \in Fd, QuitTold(f)
    PROVE  /\ HandleQuit(f) /\ SameEntries
           /\ \A g \in Fd, c \in Chan : view'[g][c] \subseteq view[g][c]
           /\ \A g \in Fd, c \in Chan : ~Seated(g, c)' => view'[g][c] = {}
<1>1. HandleQuit(f) /\ SameEntries
  BY SameChannelsEntries DEF QuitTold, HandleQuit, Segfault
<1>2. CASE QuitRead(f)
  <2> DEFINE told == Audience(channels, joined[f]) \ {f}
             views == [g \in Fd |-> [c \in Chan |->
                         IF g \in told THEN view[g][c] \ {nick[f]} ELSE view[g][c]]]
  <2>1. Read(views)
    BY <1>2 DEF QuitRead
  <2> HIDE DEF told
  <2> QED
    BY <1>1, <2>1, ReadView
<1>3. CASE Read(view)
  BY <1>1, <1>3, ReadView
<1> QED
  BY <1>2, <1>3 DEF QuitTold

\* What a step may be
LEMMA ViewSteps ==
    ASSUME IInv, ViewOK, ViewNext
    PROVE  \/ Silent \/ Vanished
           \/ \E f \in Fd, c \in Chan : Joined(f, c)
           \/ \E n \in Nick, c \in Chan : Left(n, c)
           \/ \E f \in Fd, m \in Nick : HandleNick(f, m) /\ Renames(f, m)
           \/ \E f \in Fd : QuitTold(f)
<1>1. ASSUME NEW f \in Fd, Quiet(f), Read(view) PROVE Silent \/ Vanished
  BY <1>1, QuietEntries DEF Silent, Vanished
<1>2. ASSUME NEW f \in Fd, NEW m \in Nick, NickTold(f, m)
      PROVE  Silent \/ (HandleNick(f, m) /\ Renames(f, m))
  BY <1>2, NickTells DEF NickTold
<1> QED
  BY <1>1, <1>2, JoinTells, PartTells, KickTells DEF ViewNext

--------------------------------------------------------------------------------
(* A step of the view is a step of the server. *)

LEMMA ViewNextIsNext == ASSUME ViewNext PROVE Next
<1>1. PICK f \in Fd : \/ Quiet(f) \/ JoinTold(f) \/ PartTold(f) \/ KickTold(f) \/ QuitTold(f)
                      \/ \E n \in Nick : NickTold(f, n)
  BY DEF ViewNext
<1>2. CASE Quiet(f)
  BY <1>2 DEF Quiet, Next
<1>3. CASE JoinTold(f) \/ PartTold(f) \/ KickTold(f) \/ QuitTold(f)
  BY <1>3 DEF JoinTold, PartTold, KickTold, QuitTold, Next
<1>4. CASE \E n \in Nick : NickTold(f, n)
  BY <1>4 DEF NickTold, Next
<1> QED
  BY <1>1, <1>2, <1>3, <1>4

\* What is added is only watching: every step is one of the handlers, so that all
\* that is proved of them holds here too.
THEOREM ViewsOnlyWatch == ViewSpec => Spec
<1>1. ViewInit => Init
  BY DEF ViewInit
<1>2. [ViewNext]_viewVars => [Next]_vars
  BY ViewNextIsNext DEF viewVars
<1> QED
  BY <1>1, <1>2, PTL DEF ViewSpec, Spec

LEMMA ViewNextReads == ASSUME ViewNext PROVE \E views : Read(views)
<1>1. ASSUME NEW f \in Fd, JoinTold(f) PROVE \E views : Read(views)
  BY <1>1 DEF JoinTold, JoinRead
<1>2. ASSUME NEW f \in Fd, PartTold(f) \/ KickTold(f) PROVE \E views : Read(views)
  BY <1>2 DEF PartTold, KickTold, LeftRead
<1>3. ASSUME NEW f \in Fd, NEW n \in Nick, NickTold(f, n) PROVE \E views : Read(views)
  BY <1>3 DEF NickTold, RenameRead
<1>4. ASSUME NEW f \in Fd, QuitTold(f) PROVE \E views : Read(views)
  BY <1>4 DEF QuitTold, QuitRead
<1> QED
  BY <1>1, <1>2, <1>3, <1>4 DEF ViewNext

LEMMA ViewInductive == ViewSpec => [](IInv /\ ViewOK)
<1>1. ViewInit => ViewOK
  BY DEF ViewInit, ViewOK
<1>2. ViewOK /\ [ViewNext]_viewVars => ViewOK'
  <2>1. CASE ViewNext
    BY <2>1, ViewNextReads, ReadView
  <2>2. ViewOK /\ UNCHANGED viewVars => ViewOK'
    BY DEF viewVars, ViewOK
  <2> QED
    BY <2>1, <2>2
<1> QED
  BY <1>1, <1>2, ViewsOnlyWatch, Inductive, PTL DEF ViewSpec

--------------------------------------------------------------------------------
(* Who is seated hears of what happens on the channel. *)

LEMMA RenamesRead ==
    ASSUME IInv, IInv', NEW f \in Fd, NEW m \in Nick, Renames(f, m),
           NEW g \in Fd, NEW c \in Chan, Seated(g, c)'
    PROVE  \/ view'[g][c] = Replaced(view[g][c], nick[f], m)
           \/ c \notin joined[f] /\ view'[g][c] = view[g][c]
<1> DEFINE told == Audience(channels', joined'[f])
           views == [h \in Fd |-> [d \in Chan |->
                       IF h \in told THEN Replaced(view[h][d], nick[f], m) ELSE view[h][d]]]
<1>1. Read(views) /\ joined' = joined
  BY DEF Renames, RenameRead
<1>2. c \in joined[f] => g \in told
  <2>1. ASSUME c \in joined'[f] PROVE g \in Audience(channels', joined'[f])
    <3>1. g # NoFd
      BY NickAssumption
    <3>2. g \in Sockets(channels'[c])
      BY <3>1 DEF Seated, Sockets, Members
    <3> QED
      BY <2>1, <3>2 DEF Audience
  <2> QED
    BY <1>1, <2>1
<1> HIDE DEF told
<1>3. view'[g][c] = IF g \in told THEN Replaced(view[g][c], nick[f], m) ELSE view[g][c]
  BY <1>1, ReadView
<1> QED
  BY <1>2, <1>3

--------------------------------------------------------------------------------
(* Ghosts *)

LEMMA NoGhostByRenaming ==
    ASSUME IInv, IInv', NEW f \in Fd, NEW m \in Nick, Renames(f, m), ~NicksClash,
           NEW g \in Fd, NEW c \in Chan, view[g][c] \subseteq Users(c), Seated(g, c)'
    PROVE  view'[g][c] \subseteq Users(c)'
<1> DEFINE old == nick[f]
<1>1. old \in Nick /\ f # NoFd /\ f \in connected
  BY NickAssumption DEF IInv, TypeOK, Renames
<1>2. /\ Users(c) = {n \in Nick : Entry(n, c) # NoFd}
      /\ Users(c)' = {n \in Nick : Entry(n, c)' # NoFd}
  BY UsersAreEntries
<1>3. \A n \in Nick : Entry(n, c)' = IF c \notin joined[f] THEN Entry(n, c)
                                     ELSE IF n = m THEN f
                                     ELSE IF n = old THEN NoFd
                                     ELSE Entry(n, c)
  BY DEF Renames
<1>4. \/ view'[g][c] = Replaced(view[g][c], old, m)
      \/ c \notin joined[f] /\ view'[g][c] = view[g][c]
  BY RenamesRead
<1>5. CASE c \in joined[f]
  <2>1. view'[g][c] \subseteq (view[g][c] \ {old}) \cup {m}
    BY <1>4, <1>5 DEF Replaced
  <2>2. (Users(c) \ {old}) \cup {m} \subseteq Users(c)'
    BY <1>1, <1>2, <1>3, <1>5
  <2> QED
    BY <2>1, <2>2
<1>6. CASE c \notin joined[f]
  <2>1. old \notin Users(c)
    <3>1. SUFFICES ASSUME Entry(old, c) # NoFd PROVE FALSE
      BY <1>2
    <3>2. /\ Entry(old, c) \in connected /\ Entry(old, c) \in Fd
          /\ nick[Entry(old, c)] = old /\ c \in joined[Entry(old, c)]
      BY <1>1, <3>1, EntryLive
    <3>3. Entry(old, c) # f
      BY <1>6, <3>2
    <3> QED
      BY <1>1, <3>2, <3>3 DEF NicksClash
  <2>2. view'[g][c] = view[g][c]
    BY <1>4, <2>1 DEF Replaced
  <2>3. Users(c)' = Users(c)
    BY <1>2, <1>3, <1>6
  <2> QED
    BY <2>2, <2>3
<1> QED
  BY <1>5, <1>6

LEMMA NoGhosts ==
    ASSUME IInv, IInv', ViewOK, ViewNext, ~NicksClash,
           NEW g \in Fd, NEW c \in Chan, Ghosts(g, c) = {}
    PROVE  \A n \in Ghosts(g, c)' : \E h \in connected \ connected' : nick[h] = n
<1>1. view[g][c] \subseteq Users(c)
  BY DEF Ghosts
<1>2. /\ Users(c) = {n \in Nick : Entry(n, c) # NoFd}
      /\ Users(c)' = {n \in Nick : Entry(n, c)' # NoFd}
  BY UsersAreEntries
<1>3. view'[g][c] \subseteq Users(c)' => Ghosts(g, c)' = {}
  BY DEF Ghosts
<1>4. ASSUME Silent PROVE view'[g][c] \subseteq Users(c)'
  <2>1. view'[g][c] \subseteq view[g][c]
    BY <1>4, ReadView DEF Silent
  <2> QED
    BY <1>1, <1>2, <1>4, <2>1 DEF Silent, SameEntries
<1>5. ASSUME NEW f \in Fd, NEW d \in Chan, Joined(f, d) PROVE view'[g][c] \subseteq Users(c)'
  <2>1. nick[f] \in Nick /\ f # NoFd
    BY NickAssumption DEF IInv, TypeOK
  <2>2. Users(c) \subseteq Users(c)' /\ (c = d => nick[f] \in Users(c)')
    BY <1>2, <1>5, <2>1 DEF Joined
  <2>3. view'[g][c] \subseteq view[g][c] \cup (IF c = d THEN {nick[f]} \cup Users(c) ELSE {})
    <3>1. Seated(g, c)' =>
            view'[g][c] = IF c # d THEN view[g][c]
                          ELSE view[g][c] \cup {nick[f]} \cup IF g = f THEN Users(d) ELSE {}
      BY <1>5 DEF Joined
    <3>2. ~Seated(g, c)' => view'[g][c] = {}
      BY <1>5 DEF Joined
    <3> QED
      BY <3>1, <3>2
  <2> QED
    BY <1>1, <2>2, <2>3
<1>6. ASSUME NEW n \in Nick, NEW d \in Chan, Left(n, d) PROVE view'[g][c] \subseteq Users(c)'
  <2>1. view'[g][c] \subseteq IF c = d THEN view[g][c] \ {n} ELSE view[g][c]
    BY <1>6 DEF Left
  <2>2. Users(c)' = IF c = d THEN Users(c) \ {n} ELSE Users(c)
    BY <1>2, <1>6 DEF Left
  <2> QED
    BY <1>1, <2>1, <2>2
<1>7. ASSUME NEW f \in Fd, NEW m \in Nick, Renames(f, m) PROVE view'[g][c] \subseteq Users(c)'
  <2>1. CASE Seated(g, c)'
    BY <1>1, <1>7, <2>1, NoGhostByRenaming
  <2>2. CASE ~Seated(g, c)'
    <3>1. view'[g][c] = {}
      BY <1>7, <2>2, ReadView DEF Renames, RenameRead
    <3> QED
      BY <3>1
  <2> QED
    BY <2>1, <2>2
<1>8. ASSUME NEW f \in Fd, QuitTold(f) PROVE view'[g][c] \subseteq Users(c)'
  <2>1. SameEntries /\ view'[g][c] \subseteq view[g][c]
    BY <1>8, QuitTells
  <2> QED
    BY <1>1, <1>2, <2>1 DEF SameEntries
<1>9. ASSUME Vanished, NEW n \in Ghosts(g, c)'
      PROVE  \E h \in connected \ connected' : nick[h] = n
  <2>1. view'[g][c] \subseteq view[g][c]
    BY <1>9, ReadView DEF Vanished
  <2>2. n \in Users(c) /\ n \notin Users(c)'
    BY <1>1, <1>9, <2>1 DEF Ghosts
  <2>3. n \in Nick /\ Entry(n, c)' # Entry(n, c)
    BY <1>2, <2>2
  <2> QED
    BY <1>9, <2>3 DEF Vanished, Taken
<1> QED
  BY <1>3, <1>4, <1>5, <1>6, <1>7, <1>8, <1>9, ViewSteps

\* Every way to leave a channel or a nickname is told: whoever comes to believe in a
\* user that is not there believes in the client that is disconnected in this step, of
\* which nobody is told.
THEOREM GhostsAreDisconnected == ViewSpec => GhostsOnlyByDisconnection
<1>1. IInv /\ IInv' /\ ViewOK /\ [ViewNext]_viewVars =>
        [\A f \in Fd, c \in Chan :
           Ghosts(f, c) = {} =>
              \/ \A n \in Ghosts(f, c)' : \E g \in connected \ connected' : nick[g] = n
              \/ NicksClash]_viewVars
  BY NoGhosts
<1> QED
  BY <1>1, ViewInductive, PTL DEF ViewSpec, GhostsOnlyByDisconnection

--------------------------------------------------------------------------------
(* Strangers *)

\* Who keeps its nickname and its entry has had its seat before.
LEMMA SeatedBefore ==
    ASSUME IInv, IInv', NEW g \in Fd, NEW c \in Chan, Seated(g, c)',
           \A n \in Nick : Entry(n, c)' \in {NoFd, Entry(n, c)}
    PROVE  Seated(g, c)
<1>1. nick'[g] \in Nick /\ g # NoFd
  BY NickAssumption DEF IInv, TypeOK
<1> SUFFICES ASSUME NEW n \in Nick, n = nick'[g] PROVE Seated(g, c)
  BY <1>1
<1>2. Entry(n, c)' = g
  BY SeatIsEntry
<1>3. Entry(n, c) = g
  BY <1>1, <1>2
<1>4. nick[g] = n
  BY <1>1, <1>3, EntryLive
<1> QED
  BY <1>3, <1>4, SeatIsEntry

LEMMA NoStrangerByRenaming ==
    ASSUME IInv, IInv', NEW f \in Fd, NEW m \in Nick, Renames(f, m),
           NEW g \in Fd, NEW c \in Chan, Seated(f, c), Strangers(g, c) = {}, Seated(g, c)'
    PROVE  Users(c)' \subseteq view'[g][c]
<1> DEFINE old == nick[f]
<1>1. /\ old \in Nick /\ f # NoFd /\ g # NoFd /\ nick[g] \in Nick
      /\ nick' = [nick EXCEPT ![f] = m] /\ nick \in [Fd -> Nick]
  BY NickAssumption DEF IInv, TypeOK, Renames
<1>2. Entry(old, c) = f
  BY SeatIsEntry
<1>3. c \in joined[f]
  BY <1>1, <1>2, EntryLive
<1>4. \A n \in Nick : Entry(n, c)' = IF n = m THEN f
                                     ELSE IF n = old THEN NoFd
                                     ELSE Entry(n, c)
  BY <1>3 DEF Renames
<1>5. Seated(g, c)
  <2>1. CASE g # f
    <3>1. nick'[g] = nick[g]
      BY <1>1, <2>1
    <3> SUFFICES ASSUME NEW n \in Nick, n = nick[g] PROVE Seated(g, c)
      BY <1>1
    <3>2. Entry(n, c)' = g
      BY <3>1, SeatIsEntry
    <3>3. Entry(n, c) = g
      BY <1>1, <1>4, <2>1, <3>2
    <3> QED
      BY <3>3, SeatIsEntry
  <2> QED
    BY <2>1
<1>6. Users(c) \subseteq view[g][c]
  BY <1>5 DEF Strangers
<1>7. /\ Users(c) = {n \in Nick : Entry(n, c) # NoFd}
      /\ Users(c)' = {n \in Nick : Entry(n, c)' # NoFd}
  BY UsersAreEntries
<1>8. old \in Users(c) /\ Users(c)' \subseteq (Users(c) \ {old}) \cup {m}
  <2>1. m # old
    BY <1>1 DEF Renames, IsClient
  <2> QED
    BY <1>1, <1>2, <1>4, <1>7, <2>1
<1>9. view'[g][c] = Replaced(view[g][c], old, m)
  BY <1>3, RenamesRead
<1> QED
  BY <1>6, <1>8, <1>9 DEF Replaced

\* Who renames itself without a seat may be back on the channel.
LEMMA StrangerByReturn ==
    ASSUME IInv, IInv', NEW f \in Fd, NEW m \in Nick, Renames(f, m), ~NicksClash,
           NEW g \in Fd, NEW c \in Chan, g # f, ~Seated(f, c), Strangers(g, c) = {},
           Seated(g, c)'
    PROVE  Users(c)' \ view'[g][c] \subseteq {m}
<1> DEFINE old == nick[f]
<1>1. /\ old \in Nick /\ f # NoFd /\ g # NoFd /\ nick[g] \in Nick /\ f \in connected
      /\ nick' = [nick EXCEPT ![f] = m] /\ nick \in [Fd -> Nick]
  BY NickAssumption DEF IInv, TypeOK, Renames
<1>2. /\ Users(c) = {n \in Nick : Entry(n, c) # NoFd}
      /\ Users(c)' = {n \in Nick : Entry(n, c)' # NoFd}
  BY UsersAreEntries
<1>3. old \notin Users(c)
  <2>1. SUFFICES ASSUME Entry(old, c) # NoFd PROVE FALSE
    BY <1>2
  <2>2. /\ Entry(old, c) \in connected /\ Entry(old, c) \in Fd
        /\ nick[Entry(old, c)] = old
    BY <1>1, <2>1, EntryLive
  <2>3. Entry(old, c) # f
    BY SeatIsEntry
  <2> QED
    BY <1>1, <2>2, <2>3 DEF NicksClash
<1>4. \A n \in Nick : Entry(n, c)' = IF c \notin joined[f] THEN Entry(n, c)
                                     ELSE IF n = m THEN f
                                     ELSE IF n = old THEN NoFd
                                     ELSE Entry(n, c)
  BY DEF Renames
<1>5. Seated(g, c)
  <2>1. nick'[g] = nick[g]
    BY <1>1
  <2> SUFFICES ASSUME NEW n \in Nick, n = nick[g] PROVE Seated(g, c)
    BY <1>1
  <2>2. Entry(n, c)' = g
    BY <2>1, SeatIsEntry
  <2>3. Entry(n, c) = g
    BY <1>1, <1>4, <2>2
  <2> QED
    BY <2>3, SeatIsEntry
<1>6. Users(c) \subseteq view[g][c]
  BY <1>5 DEF Strangers
<1>7. Users(c)' \subseteq Users(c) \cup {m}
  BY <1>2, <1>4
<1>8. Users(c) \subseteq view'[g][c]
  <2>1. \/ view'[g][c] = Replaced(view[g][c], old, m)
        \/ view'[g][c] = view[g][c]
    BY RenamesRead
  <2> QED
    BY <1>3, <1>6, <2>1 DEF Replaced
<1> QED
  BY <1>7, <1>8

\* Who says QUIT is forgotten at once.
LEMMA StrangerByQuit ==
    ASSUME IInv, IInv', NEW f \in Fd, QuitTold(f),
           NEW g \in Fd, NEW c \in Chan, Strangers(g, c) = {}, Seated(g, c)'
    PROVE  Users(c)' \ view'[g][c] \subseteq {nick[f]}
<1>1. SameEntries
  BY QuitTells
<1>2. Seated(g, c)
  BY <1>1, SeatedBefore DEF SameEntries
<1>3. Users(c)' = Users(c)
  BY <1>1, UsersAreEntries DEF SameEntries
<1>4. Users(c) \subseteq view[g][c]
  BY <1>2 DEF Strangers
<1>5. view[g][c] \subseteq view'[g][c] \cup {nick[f]}
  <2>1. CASE QuitRead(f)
    <3> DEFINE told == Audience(channels, joined[f]) \ {f}
               views == [h \in Fd |-> [d \in Chan |->
                           IF h \in told THEN view[h][d] \ {nick[f]} ELSE view[h][d]]]
    <3>1. Read(views)
      BY <2>1 DEF QuitRead
    <3> HIDE DEF told
    <3>2. view'[g][c] = IF g \in told THEN view[g][c] \ {nick[f]} ELSE view[g][c]
      BY <3>1 DEF Read
    <3> QED
      BY <3>2
  <2>2. CASE Read(view)
    BY <2>2, ReadView
  <2> QED
    BY <2>1, <2>2 DEF QuitTold
<1> QED
  BY <1>3, <1>4, <1>5

LEMMA NoStrangers ==
    ASSUME IInv, IInv', ViewOK, ViewNext, ~NicksClash,
           NEW g \in Fd, NEW c \in Chan, Strangers(g, c) = {},
           Seated(g, c) \/ \A i \in Nick : ~HandleNick(g, i),
           NEW n \in Strangers(g, c)'
    PROVE  \E f \in Fd : \/ HandleQuit(f) /\ nick[f] = n
                         \/ ~Seated(f, c) /\ HandleNick(f, n)
<1>1. Seated(g, c)' /\ n \in Users(c)' /\ n \notin view'[g][c]
  BY DEF Strangers
<1>2. /\ Users(c) = {i \in Nick : Entry(i, c) # NoFd}
      /\ Users(c)' = {i \in Nick : Entry(i, c)' # NoFd}
  BY UsersAreEntries
<1>3. Seated(g, c) => Users(c) \subseteq view[g][c]
  BY DEF Strangers
<1>4. ASSUME Silent \/ Vanished PROVE Users(c)' \subseteq view'[g][c]
  <2>1. \A i \in Nick : Entry(i, c)' \in {NoFd, Entry(i, c)}
    BY <1>4 DEF Silent, SameEntries, Vanished, Taken
  <2>2. Seated(g, c)
    BY <1>1, <2>1, SeatedBefore
  <2>3. view'[g][c] = view[g][c]
    BY <1>1, <1>4, ReadView DEF Silent, Vanished
  <2>4. Users(c)' \subseteq Users(c)
    BY <1>2, <2>1
  <2> QED
    BY <1>3, <2>2, <2>3, <2>4
<1>5. ASSUME NEW f \in Fd, NEW d \in Chan, Joined(f, d) PROVE Users(c)' \subseteq view'[g][c]
  <2>1. nick[f] \in Nick
    BY DEF IInv, TypeOK
  <2>2. Users(c)' \subseteq Users(c) \cup (IF c = d THEN {nick[f]} ELSE {})
    BY <1>2, <1>5 DEF Joined
  <2>3. view'[g][c] = IF c # d THEN view[g][c]
                      ELSE view[g][c] \cup {nick[f]} \cup IF g = f THEN Users(c) ELSE {}
    BY <1>1, <1>5 DEF Joined
  <2>4. CASE g = f /\ c = d
    BY <2>2, <2>3, <2>4
  <2>5. CASE ~(g = f /\ c = d)
    <3>1. \A i \in Nick : Entry(i, c)' = g => Entry(i, c) = g
      BY <1>5, <2>5 DEF Joined
    <3>2. nick' = nick /\ nick[g] \in Nick
      BY <1>5 DEF Joined, IInv, TypeOK
    <3>3. \A i \in Nick : i = nick'[g] => Entry(i, c)' = g
      BY <1>1, SeatIsEntry
    <3>4. Entry(nick[g], c) = g
      BY <3>1, <3>2, <3>3
    <3>5. Seated(g, c)
      BY <3>4, SeatIsEntry
    <3> QED
      BY <1>3, <2>2, <2>3, <3>5
  <2> QED
    BY <2>4, <2>5
<1>6. ASSUME NEW left \in Nick, NEW d \in Chan, Left(left, d) PROVE Users(c)' \subseteq view'[g][c]
  <2>1. \A i \in Nick : Entry(i, c)' \in {NoFd, Entry(i, c)}
    BY <1>6 DEF Left
  <2>2. Seated(g, c)
    BY <1>1, <2>1, SeatedBefore
  <2>3. Users(c)' = IF c = d THEN Users(c) \ {left} ELSE Users(c)
    BY <1>2, <1>6 DEF Left
  <2>4. view'[g][c] = IF c = d THEN view[g][c] \ {left} ELSE view[g][c]
    BY <1>1, <1>6 DEF Left
  <2> QED
    BY <1>3, <2>2, <2>3, <2>4
<1>7. ASSUME NEW f \in Fd, NEW m \in Nick, HandleNick(f, m), Renames(f, m), Seated(f, c)
      PROVE  Users(c)' \subseteq view'[g][c]
  BY <1>1, <1>7, NoStrangerByRenaming
<1>8. ASSUME NEW f \in Fd, NEW m \in Nick, HandleNick(f, m), Renames(f, m), ~Seated(f, c)
      PROVE  n = m
  BY <1>1, <1>8, StrangerByReturn
<1>9. ASSUME NEW f \in Fd, QuitTold(f) PROVE HandleQuit(f) /\ nick[f] = n
  BY <1>1, <1>9, StrangerByQuit, QuitTells
<1> QED
  BY <1>1, <1>4, <1>5, <1>6, <1>7, <1>8, <1>9, ViewSteps

\* Whoever enters a channel or takes a nickname there is known to all its users, and
\* knows them, with the exceptions of who says QUIT and of who returns by NICK.
THEOREM StrangersQuitOrReturn == ViewSpec => StrangersOnlyByQuitOrReturn
<1>1. IInv /\ IInv' /\ ViewOK /\ [ViewNext]_viewVars =>
        [\A f \in Fd, c \in Chan :
           Strangers(f, c) = {} =>
              \/ \A n \in Strangers(f, c)' : \E g \in Fd :
                    \/ HandleQuit(g) /\ nick[g] = n
                    \/ ~Seated(g, c) /\ HandleNick(g, n)
              \/ ~Seated(f, c) /\ \E n \in Nick : HandleNick(f, n)
              \/ NicksClash]_viewVars
  BY NoStrangers
<1> QED
  BY <1>1, ViewInductive, PTL DEF ViewSpec, StrangersOnlyByQuitOrReturn

================================================================================
