----------------------------- MODULE ChannelProofs -----------------------------
(***************************************************************************)
(* What the operations of Channel return, for every set of sockets,         *)
(* nicknames and keys: the lemmas the proofs about the server rest on.      *)
(***************************************************************************)
EXTENDS Channel, FiniteSetTheorems, TLAPS

\* A channel as it may be in the middle of an operation.
Sound(ch) ==
    /\ ch \in ChannelState
    /\ WellRanked(ch)
    /\ SingleOwner(ch)
    /\ SettingsShown(ch)

\* Channel's constructor makes a sound channel with its creator as only user,
\* and room for one more: the creator's own JOIN does not find it full.
LEMMA NewChannelSound ==
    ASSUME NEW n \in Nick, NEW f \in Fd, NEW key \in Key \cup {NoKey}
    PROVE  /\ Sound(NewChannel(n, f, key))
           /\ Members(NewChannel(n, f, key)) = {n}
           /\ ~IsFull(NewChannel(n, f, key))
<1> DEFINE ch == NewChannel(n, f, key)
<1>1. ch \in ChannelState
  BY LimitAssumption DEF NewChannel, ChannelState, ModeLetter, OWNER, COMMON, NoAuth
<1>2. Members(ch) = {n}
  BY NickAssumption DEF NewChannel, Members
<1>3. WellRanked(ch)
  BY <1>2 DEF WellRanked, NewChannel, OWNER, COMMON, NoAuth
<1>4. SingleOwner(ch)
  BY DEF SingleOwner, NewChannel, OWNER, NoAuth
<1>5. SettingsShown(ch)
  BY DEF SettingsShown, NewChannel
<1>6. ~IsFull(ch)
  <2>1. Cardinality(Members(ch)) = 1
    BY <1>2, FS_Singleton
  <2>2. ch.user_limit = DefaultLimit
    BY DEF NewChannel
  <2> QED
    BY <2>1, <2>2, LimitAssumption DEF IsFull
<1> QED
  BY <1>1, <1>2, <1>3, <1>4, <1>5, <1>6 DEF Sound

\* The rank that getAuth()[nick] reads is a rank.
LEMMA RankOfType ==
    ASSUME NEW ch \in ChannelState, NEW n \in Nick
    PROVE  RankOf(ch, n) \in 0..COMMON
BY DEF RankOf, ChannelState, COMMON, NoAuth

\* The insertion by isOperator() changes no user and keeps a channel sound.
LEMMA LookupSound ==
    ASSUME NEW ch, Sound(ch), NEW n \in Nick
    PROVE  /\ Sound(AfterLookup(ch, n))
           /\ AfterLookup(ch, n).users = ch.users
<1> DEFINE new == AfterLookup(ch, n)
<1>1. ch \in ChannelState /\ RankOf(ch, n) \in 0..COMMON
  BY RankOfType DEF Sound
<1>2. new \in ChannelState /\ new.users = ch.users /\ Members(new) = Members(ch)
  BY <1>1 DEF AfterLookup, ChannelState, Members
<1>3. new.auth = [ch.auth EXCEPT ![n] = RankOf(ch, n)]
  BY <1>1 DEF AfterLookup, ChannelState
<1>4. \A m \in Nick : new.auth[m] = ch.auth[m] \/ (new.auth[m] = 0 /\ ch.auth[m] = NoAuth)
  BY <1>1, <1>3 DEF RankOf, ChannelState
<1>5. WellRanked(new)
  BY <1>2, <1>4 DEF Sound, WellRanked, OWNER, COMMON, NoAuth
<1>6. SingleOwner(new)
  BY <1>4 DEF Sound, SingleOwner, OWNER, NoAuth
<1>7. SettingsShown(new)
  BY <1>1 DEF Sound, SettingsShown, AfterLookup, ChannelState
<1> QED
  BY <1>2, <1>5, <1>6, <1>7 DEF Sound

\* deleteClient erases the nickname from both maps, and nothing else.
LEMMA DeleteSound ==
    ASSUME NEW ch, Sound(ch), NEW n \in Nick
    PROVE  /\ Sound(DeleteClient(ch, n))
           /\ Members(DeleteClient(ch, n)) = Members(ch) \ {n}
           /\ \A m \in Nick \ {n} : /\ DeleteClient(ch, n).users[m] = ch.users[m]
                                    /\ DeleteClient(ch, n).auth[m] = ch.auth[m]
           /\ DeleteClient(ch, n).auth[n] = NoAuth
<1> DEFINE new == DeleteClient(ch, n)
<1>1. ch \in ChannelState
  BY DEF Sound
<1>2. /\ new.users = [ch.users EXCEPT ![n] = NoFd]
      /\ new.auth = [ch.auth EXCEPT ![n] = NoAuth]
      /\ new.modes = ch.modes /\ new.password = ch.password
      /\ new.user_limit = ch.user_limit /\ new.invited = ch.invited
  BY <1>1 DEF DeleteClient, ChannelState
<1>3. new \in ChannelState
  BY <1>1 DEF DeleteClient, ChannelState
<1>4. \A m \in Nick \ {n} : new.users[m] = ch.users[m] /\ new.auth[m] = ch.auth[m]
  BY <1>1, <1>2 DEF ChannelState
<1>5. new.users[n] = NoFd /\ new.auth[n] = NoAuth
  BY <1>1, <1>2 DEF ChannelState
<1>6. Members(new) = Members(ch) \ {n}
  BY <1>4, <1>5 DEF Members
<1>7. WellRanked(new)
  BY <1>4, <1>5, <1>6 DEF Sound, WellRanked, OWNER, COMMON, NoAuth
<1>8. SingleOwner(new)
  BY <1>4, <1>5 DEF Sound, SingleOwner, OWNER, NoAuth
<1>9. SettingsShown(new)
  BY <1>2 DEF Sound, SettingsShown
<1> QED
  BY <1>3, <1>4, <1>5, <1>6, <1>7, <1>8, <1>9 DEF Sound

\* joinClient enters a nickname in both maps; it may bring the rank of owner only
\* if no other nickname has it.
LEMMA JoinSound ==
    ASSUME NEW ch, Sound(ch), NEW n \in Nick, NEW f \in Fd, NEW rank \in 0..COMMON,
           rank = OWNER => \A m \in Nick : ch.auth[m] # OWNER
    PROVE  /\ Sound(JoinClient(ch, n, f, rank))
           /\ Members(JoinClient(ch, n, f, rank)) = Members(ch) \cup {n}
           /\ JoinClient(ch, n, f, rank).users[n] = f
           /\ \A m \in Nick \ {n} : JoinClient(ch, n, f, rank).users[m] = ch.users[m]
<1> DEFINE new == JoinClient(ch, n, f, rank)
<1>1. ch \in ChannelState
  BY DEF Sound
<1>2. /\ new.users = [ch.users EXCEPT ![n] = f]
      /\ new.auth = [ch.auth EXCEPT ![n] = rank]
      /\ new.modes = ch.modes /\ new.password = ch.password
      /\ new.user_limit = ch.user_limit
  BY <1>1 DEF JoinClient, ChannelState
<1>3. new \in ChannelState
  BY <1>1 DEF JoinClient, ChannelState
<1>4. \A m \in Nick \ {n} : new.users[m] = ch.users[m] /\ new.auth[m] = ch.auth[m]
  BY <1>1, <1>2 DEF ChannelState
<1>5. new.users[n] = f /\ new.auth[n] = rank
  BY <1>1, <1>2 DEF ChannelState
<1>6. Members(new) = Members(ch) \cup {n}
  BY <1>4, <1>5, NickAssumption DEF Members
<1>7. WellRanked(new)
  BY <1>4, <1>5, <1>6 DEF Sound, WellRanked, OWNER, COMMON, NoAuth
<1>8. SingleOwner(new)
  BY <1>4, <1>5 DEF Sound, SingleOwner
<1>9. SettingsShown(new)
  BY <1>2 DEF Sound, SettingsShown
<1> QED
  BY <1>3, <1>4, <1>5, <1>6, <1>7, <1>8, <1>9 DEF Sound

\* An invitation is listed, or used up if one is there; nothing else changes.
LEMMA AddInvitedSound ==
    ASSUME NEW ch, Sound(ch), NEW n \in Nick
    PROVE  Sound(AddInvited(ch, n)) /\ AddInvited(ch, n).users = ch.users
<1>1. ch \in ChannelState
  BY DEF Sound
<1>2. /\ AddInvited(ch, n) \in ChannelState
      /\ AddInvited(ch, n).users = ch.users /\ AddInvited(ch, n).auth = ch.auth
      /\ AddInvited(ch, n).modes = ch.modes /\ AddInvited(ch, n).password = ch.password
      /\ AddInvited(ch, n).user_limit = ch.user_limit
  BY <1>1 DEF AddInvited, ChannelState
<1> QED
  BY <1>2 DEF Sound, WellRanked, SingleOwner, SettingsShown, Members

LEMMA UseInviteSound ==
    ASSUME NEW ch, Sound(ch), NEW n \in Nick, ch.invited[n] # 0
    PROVE  Sound(UseInvite(ch, n)) /\ UseInvite(ch, n).users = ch.users
<1>1. ch \in ChannelState
  BY DEF Sound
<1>2. /\ UseInvite(ch, n) \in ChannelState
      /\ UseInvite(ch, n).users = ch.users /\ UseInvite(ch, n).auth = ch.auth
      /\ UseInvite(ch, n).modes = ch.modes /\ UseInvite(ch, n).password = ch.password
      /\ UseInvite(ch, n).user_limit = ch.user_limit
  BY <1>1 DEF UseInvite, ChannelState
<1> QED
  BY <1>2 DEF Sound, WellRanked, SingleOwner, SettingsShown, Members

\* A letter i, t or n changes the modes only.
LEMMA ModeFlagSound ==
    ASSUME NEW ch, Sound(ch), NEW on \in BOOLEAN, NEW m \in {"i", "t", "n"}
    PROVE  Sound(ModeFlag(ch, on, m)) /\ ModeFlag(ch, on, m).users = ch.users
<1> DEFINE new == ModeFlag(ch, on, m)
<1>1. ch \in ChannelState
  BY DEF Sound
<1>2. /\ new \in ChannelState
      /\ new.users = ch.users /\ new.auth = ch.auth
      /\ new.password = ch.password /\ new.user_limit = ch.user_limit
      /\ new.modes = IF on THEN ch.modes \cup {m} ELSE ch.modes \ {m}
  BY <1>1 DEF ModeFlag, ChannelState, ModeLetter
<1>3. SettingsShown(new)
  BY <1>2 DEF Sound, SettingsShown
<1> QED
  BY <1>2, <1>3 DEF Sound, WellRanked, SingleOwner, Members

\* Letter k sets or clears the mode together with the key.
LEMMA ModeKeySound ==
    ASSUME NEW ch, Sound(ch), NEW on \in BOOLEAN, NEW key \in Key
    PROVE  Sound(ModeKey(ch, on, key)) /\ ModeKey(ch, on, key).users = ch.users
<1> DEFINE set == [ch EXCEPT !.password = key, !.modes = @ \cup {"k"}]
           cleared == [ch EXCEPT !.password = NoKey, !.modes = @ \ {"k"}]
<1>1. ch \in ChannelState
  BY DEF Sound
<1>2. Sound(set) /\ set.users = ch.users
  <2>1. /\ set \in ChannelState
        /\ set.users = ch.users /\ set.auth = ch.auth /\ set.user_limit = ch.user_limit
        /\ set.password = key /\ set.modes = ch.modes \cup {"k"}
    BY <1>1 DEF ChannelState, ModeLetter
  <2>2. SettingsShown(set)
    BY <2>1, KeyAssumption DEF Sound, SettingsShown, NoKey
  <2> QED
    BY <2>1, <2>2 DEF Sound, WellRanked, SingleOwner, Members
<1>3. Sound(cleared) /\ cleared.users = ch.users
  <2>1. /\ cleared \in ChannelState
        /\ cleared.users = ch.users /\ cleared.auth = ch.auth
        /\ cleared.user_limit = ch.user_limit
        /\ cleared.modes = ch.modes \ {"k"}
    BY <1>1 DEF ChannelState, ModeLetter
  <2>2. SettingsShown(cleared)
    BY <2>1 DEF Sound, SettingsShown
  <2> QED
    BY <2>1, <2>2 DEF Sound, WellRanked, SingleOwner, Members
<1>4. ModeKey(ch, on, key) \in {ch, set, cleared}
  BY DEF ModeKey
<1> QED
  BY <1>2, <1>3, <1>4

LEMMA NoLimitType == NoLimit \in Int
BY SMT DEF NoLimit

\* Letter l sets the mode together with a limit, and clears both.
LEMMA ModeLimitSound ==
    ASSUME NEW ch, Sound(ch), NEW on \in BOOLEAN, NEW v \in Int
    PROVE  Sound(ModeLimit(ch, on, v)) /\ ModeLimit(ch, on, v).users = ch.users
<1> DEFINE set == [ch EXCEPT !.user_limit = v, !.modes = @ \cup {"l"}]
           cleared == [ch EXCEPT !.user_limit = NoLimit, !.modes = @ \ {"l"}]
<1>1. ch \in ChannelState
  BY DEF Sound
<1>2. Sound(set) /\ set.users = ch.users
  <2>1. /\ set \in ChannelState
        /\ set.users = ch.users /\ set.auth = ch.auth /\ set.password = ch.password
        /\ set.modes = ch.modes \cup {"l"}
    BY <1>1 DEF ChannelState, ModeLetter
  <2>2. SettingsShown(set)
    BY <2>1 DEF Sound, SettingsShown
  <2> QED
    BY <2>1, <2>2 DEF Sound, WellRanked, SingleOwner, Members
<1>3. Sound(cleared) /\ cleared.users = ch.users
  <2>1. /\ cleared \in ChannelState
        /\ cleared.users = ch.users /\ cleared.auth = ch.auth
        /\ cleared.password = ch.password
        /\ cleared.user_limit = NoLimit /\ cleared.modes = ch.modes \ {"l"}
    BY <1>1, NoLimitType DEF ChannelState, ModeLetter
  <2>2. SettingsShown(cleared)
    BY <2>1 DEF Sound, SettingsShown
  <2> QED
    BY <2>1, <2>2 DEF Sound, WellRanked, SingleOwner, Members
<1>4. ModeLimit(ch, on, v) \in {ch, set, cleared}
  BY DEF ModeLimit
<1> QED
  BY <1>2, <1>3, <1>4

\* Letter o gives the rank of an operator, or of a common user, to a user of the
\* channel: no owner appears.
LEMMA ModeOpSound ==
    ASSUME NEW ch, Sound(ch), NEW on \in BOOLEAN, NEW n \in Nick
    PROVE  Sound(ModeOp(ch, on, n)) /\ ModeOp(ch, on, n).users = ch.users
<1> DEFINE rank == IF on THEN OPERATOR ELSE COMMON
           new == [ch EXCEPT !.auth[n] = rank]
<1>1. CASE ~(n \in Members(ch) /\ on # IsOperator(ch, n))
  BY <1>1 DEF ModeOp
<1>2. CASE n \in Members(ch) /\ on # IsOperator(ch, n)
  <2>1. ModeOp(ch, on, n) = new
    BY <1>2 DEF ModeOp
  <2>2. ch \in ChannelState
    BY DEF Sound
  <2>3. new \in ChannelState
    BY <2>2 DEF ChannelState, OPERATOR, COMMON
  <2>4. /\ new.users = ch.users
        /\ new.modes = ch.modes /\ new.password = ch.password
        /\ new.user_limit = ch.user_limit
        /\ new.auth = [ch.auth EXCEPT ![n] = rank]
    BY <2>2 DEF ChannelState
  <2>5. /\ \A m \in Nick \ {n} : new.auth[m] = ch.auth[m]
        /\ new.auth[n] = rank
    BY <2>2, <2>4 DEF ChannelState
  <2>6. Members(new) = Members(ch)
    BY <2>4 DEF Members
  <2>7. WellRanked(new)
    BY <1>2, <2>5, <2>6 DEF Sound, WellRanked, OWNER, OPERATOR, COMMON, NoAuth
  <2>8. SingleOwner(new)
    BY <2>5 DEF Sound, SingleOwner, OWNER, OPERATOR, COMMON
  <2>9. SettingsShown(new)
    BY <2>4 DEF Sound, SettingsShown
  <2> QED
    BY <2>1, <2>3, <2>4, <2>7, <2>8, <2>9 DEF Sound
<1> QED
  BY <1>1, <1>2

================================================================================
