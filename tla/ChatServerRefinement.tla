------------------------- MODULE ChatServerRefinement -------------------------
(***************************************************************************)
(* The chat server implements the interface of connections: whatever the    *)
(* clients send, a step of a handler is a step of Connections or leaves the *)
(* connections alone.  What the output and the marks have to satisfy after  *)
(* a step is in the inductive invariant, so only what a handler does to     *)
(* them is left to be looked at.                                            *)
(***************************************************************************)
EXTENDS ChatServerProofs

\* A handler of client f: it adds output, and closes nobody but f.
Serves(f) ==
    /\ f \in connected \ closing
    /\ up /\ UNCHANGED <<up, connected>>
    /\ sendData \subseteq sendData'
    /\ closing' \in {closing, closing \cup {f}}

LEMMA ServesThenServe ==
    ASSUME IInv, IInv', NEW f \in Fd, Serves(f) PROVE Interface!Serve(f)
<1>1. sendData \subseteq connected /\ sendData' \subseteq connected
  BY DEF Serves, IInv, TypeOK, NothingLeftOver
<1>2. sendData' = sendData \cup sendData'
  BY DEF Serves
<1>3. f \in closing' => f \in sendData'
  BY DEF IInv, ClosingHasOutput
<1> QED
  BY <1>1, <1>2, <1>3 DEF Serves, Interface!Serve

LEMMA SegfaultStops ==
    ASSUME up, Segfault PROVE Interface!Stop
BY DEF Segfault, perClient, Interface!Stop

LEMMA DisconnectDrops ==
    ASSUME up, NEW f \in connected, Disconnect(f)
    PROVE  Interface!Stop \/ (Interface!Gone(f) /\ UNCHANGED up)
BY SegfaultStops DEF Disconnect, Interface!Gone

LEMMA AcceptRefines ==
    ASSUME IInv, NEW f \in Fd, Accept(f) PROVE Interface!Accept(f)
BY DEF Accept, Interface!Accept, IInv, NothingLeftOver

LEMMA ClientGoneRefines ==
    ASSUME NEW f \in Fd, ClientGone(f) PROVE Interface!Stop \/ Interface!Drop(f)
BY DisconnectDrops DEF ClientGone, Interface!Drop

LEMMA WriteReadyRefines ==
    ASSUME NEW f \in Fd, WriteReady(f)
    PROVE  Interface!Stop \/ Interface!Farewell(f) \/ Interface!Flush(f)
<1>1. CASE f \in closing
  BY <1>1, DisconnectDrops DEF WriteReady, Interface!Farewell
<1>2. CASE f \notin closing
  BY <1>2 DEF WriteReady, perClient, Interface!Flush
<1> QED
  BY <1>1, <1>2

\* The handlers of a client, by what their branches are made of.
LEMMA ReplyServes ==
    ASSUME NEW f \in connected \ closing, up, ReplyOnly(f) PROVE Serves(f)
BY DEF ReplyOnly, Send, perClient, Serves

LEMMA SendServes ==
    ASSUME NEW f \in connected \ closing, up, NEW S, Send(S), UNCHANGED <<up, perClient>>
    PROVE  Serves(f)
BY DEF Send, perClient, Serves

LEMMA RegistrationServes ==
    ASSUME NEW f \in Fd, PassAccepted(f) \/ PassRefused(f) \/ HandleReplyOnly(f)
    PROVE  Serves(f)
BY ReplyServes DEF PassAccepted, PassRefused, HandleReplyOnly, Ready, Send, Serves

LEMMA HandleQuitServes ==
    ASSUME NEW f \in Fd, HandleQuit(f) PROVE Segfault \/ Serves(f)
BY DEF HandleQuit, Command, Ready, Send, Serves

LEMMA HandleNickServes ==
    ASSUME NEW f \in Fd, NEW n \in Nick, HandleNick(f, n) PROVE Segfault \/ Serves(f)
<1>1. f \in connected \ closing /\ up
  BY DEF HandleNick, Command, Ready
<1>2. CASE ReplyOnly(f)
  BY <1>1, <1>2, ReplyServes
<1>3. CASE /\ sendData \subseteq sendData'
           /\ UNCHANGED <<up, connected, closing>>
  BY <1>1, <1>3 DEF Serves
<1> QED
  BY <1>1, <1>2, <1>3 DEF HandleNick, Send

LEMMA JoinServes ==
    ASSUME IInv, NEW f \in Fd, HandleJoin(f) \/ JoinNext(f) PROVE Segfault \/ Serves(f)
<1>1. f \in connected \ closing /\ up
  BY DEF HandleJoin, JoinNext, Command, Running, Ready
<1>2. CASE ReplyOnly(f)
  BY <1>1, <1>2, ReplyServes
<1>3. ASSUME NEW c, NEW key, ClientJoinChannel(f, c, key)
      PROVE  Segfault \/ Serves(f)
  BY <1>1, <1>3, SendServes DEF ClientJoinChannel
<1> QED
  BY <1>2, <1>3 DEF HandleJoin, JoinNext

LEMMA PartServes ==
    ASSUME IInv, NEW f \in Fd, HandlePart(f) PROVE Segfault \/ Serves(f)
<1>1. f \in connected \ closing /\ up
  BY DEF HandlePart, Command, Running, Ready
<1>2. PICK c \in Chan : PartChannel(f, c)
  BY DEF HandlePart
<1> QED
  BY <1>1, <1>2, ReplyServes, SendServes DEF PartChannel, LeaveChannel

LEMMA KickServes ==
    ASSUME IInv, NEW f \in Fd, HandleKick(f) PROVE Segfault \/ Serves(f)
<1>1. f \in connected \ closing /\ up
  BY DEF HandleKick, Command, Running, Ready
<1>2. PICK c, n, last : KickStep(f, c, n, last)
  BY DEF HandleKick
<1>3. Segfault \/ ReplyOnly(f) \/ KickedFrom(f, c, n)
  BY <1>2 DEF KickStep, KickNick
<1> QED
  BY <1>1, <1>3, ReplyServes, SendServes DEF KickedFrom

LEMMA InviteServes ==
    ASSUME NEW f \in Fd, NEW c \in Chan, NEW n \in Nick, HandleInvite(f, c, n)
    PROVE  Segfault \/ Serves(f)
<1>1. f \in connected \ closing /\ up
  BY DEF HandleInvite, Command, Ready
<1> QED
  BY <1>1, ReplyServes, SendServes DEF HandleInvite

LEMMA ModeServes ==
    ASSUME NEW f \in Fd, HandleMode(f) PROVE Segfault \/ Serves(f)
<1>1. f \in connected \ closing /\ up
  BY DEF HandleMode, Command, Running, Ready
<1>2. ASSUME NEW c, ModeLetters(f, c) PROVE Serves(f)
  <2>1. CASE ReplyOnly(f)
    BY <1>1, <2>1, ReplyServes
  <2>2. CASE \E S : Send(S) /\ UNCHANGED <<up, perClient>>
    BY <1>1, <2>2, SendServes
  <2> QED
    BY <1>2, <2>1, <2>2 DEF ModeLetters, ModeStep
<1>3. CASE ReplyOnly(f)
  BY <1>1, <1>3, ReplyServes
<1> QED
  BY <1>2, <1>3 DEF HandleMode

LEMMA MessageServes ==
    ASSUME NEW f \in Fd,
           (\E c \in Chan : HandleTopic(f, c)) \/ HandlePrivmsg(f) \/ HandleList(f) \/ HandleWho(f)
    PROVE  Segfault \/ Serves(f)
<1>1. f \in connected \ closing /\ up
  BY DEF HandleTopic, HandlePrivmsg, HandleList, HandleWho, Command, Ready
<1>2. CASE ReplyOnly(f)
  BY <1>1, <1>2, ReplyServes
<1>3. CASE \E S : Send(S) /\ UNCHANGED <<up, perClient>>
  BY <1>1, <1>3, SendServes
<1>4. CASE \E c \in Chan : HandleTopic(f, c)
  BY <1>2, <1>3, <1>4 DEF HandleTopic
<1>5. CASE HandlePrivmsg(f)
  <2>1. ASSUME NEW c, MsgToChannel(f, c) PROVE Segfault \/ Serves(f)
    BY <1>2, <1>3, <2>1 DEF MsgToChannel
  <2>2. ASSUME NEW n, MsgToUser(f, n) PROVE Serves(f)
    <3>1. UNCHANGED <<up, perClient>>
      BY <2>2 DEF MsgToUser
    <3>2. PICK S : Send(S)
      BY <2>2 DEF MsgToUser
    <3> QED
      BY <1>1, <3>1, <3>2, SendServes
  <2> QED
    BY <1>5, <2>1, <2>2 DEF HandlePrivmsg
<1>6. CASE HandleList(f)
  BY <1>2, <1>3, <1>6 DEF HandleList
<1>7. CASE HandleWho(f)
  BY <1>2, <1>3, <1>7 DEF HandleWho, WhoChannel, WhoNick
<1> QED
  BY <1>4, <1>5, <1>6, <1>7

\* Every step is one of the interface, or changes nothing of it.
LEMMA NextRefines ==
    ASSUME IInv, [Next]_vars PROVE [Interface!Next]_(Interface!vars)
<1>1. IInv'
  BY NextIInv
<1>2. CASE UNCHANGED vars
  BY <1>2 DEF vars, perClient, Interface!vars
<1>3. ASSUME NEW f \in Fd, Accept(f) \/ ClientGone(f) \/ WriteReady(f)
      PROVE  Interface!Next
  BY <1>3, AcceptRefines, ClientGoneRefines, WriteReadyRefines DEF Interface!Next
<1>4. ASSUME NEW f \in Fd,
             \/ PassAccepted(f) \/ PassRefused(f) \/ HandleReplyOnly(f)
             \/ HandleQuit(f) \/ \E n \in Nick : HandleNick(f, n)
             \/ HandleJoin(f) \/ JoinNext(f) \/ HandlePart(f) \/ HandleKick(f)
             \/ \E c \in Chan, n \in Nick : HandleInvite(f, c, n)
             \/ HandleMode(f) \/ \E c \in Chan : HandleTopic(f, c)
             \/ HandlePrivmsg(f) \/ HandleList(f) \/ HandleWho(f)
      PROVE  Interface!Next
  <2>1. Segfault \/ Serves(f)
    BY <1>4, RegistrationServes, HandleQuitServes, HandleNickServes, JoinServes, PartServes,
       KickServes, InviteServes, ModeServes, MessageServes
  <2>2. up
    BY <1>4 DEF PassAccepted, PassRefused, HandleReplyOnly, HandleQuit, HandleNick, HandleJoin,
                JoinNext, HandlePart, HandleKick, HandleInvite, HandleMode, HandleTopic,
                HandlePrivmsg, HandleList, HandleWho, Command, Running, Ready
  <2>3. CASE Segfault
    BY <2>2, <2>3, SegfaultStops DEF Interface!Next
  <2>4. CASE Serves(f)
    BY <1>1, <2>4, ServesThenServe DEF Interface!Next
  <2> QED
    BY <2>1, <2>3, <2>4
<1> QED
  BY <1>2, <1>3, <1>4 DEF Next

\* Whatever the clients send, the handlers keep to the interface that the event loop
\* relies on: output for connected clients only, nothing left of a closed connection,
\* and no client is marked close without output of its own.
THEOREM HandlersImplementConnections == Spec => ImplementsConnections
<1>1. Init => Interface!Init
  BY DEF Init, Interface!Init
<1>2. IInv /\ [Next]_vars => [Interface!Next]_(Interface!vars)
  BY NextRefines
<1> QED
  BY <1>1, <1>2, Inductive, PTL DEF Spec, ImplementsConnections, Interface!SafeSpec

================================================================================
