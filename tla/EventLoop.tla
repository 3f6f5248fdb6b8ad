------------------------------- MODULE EventLoop -------------------------------
(***************************************************************************)
(* The loop of Server::run and the kernel queue it talks to.                *)
(*                                                                          *)
(* kevent() first applies the entries of change_list, one by one; those     *)
(* that fail come back as error events, and are then all that comes back,   *)
(* or make the call fail if there is no room for them.  Otherwise it waits  *)
(* and returns a batch of events, which the loop handles in order.  Nothing *)
(* in a batch or in change_list knows that a socket was closed since, and   *)
(* accept() returns the lowest free number, the one just closed for         *)
(* instance.  The field stale (history only: no guard reads it) marks what  *)
(* was meant for a connection that has ended.                               *)
(*                                                                          *)
(* What a line of a client does is left to ChatServer: here it leaves       *)
(* output for any clients, and its own client open or marked close.         *)
(***************************************************************************)
EXTENDS Integers, Sequences, FiniteSets

CONSTANTS
    MaxFd,        \* descriptors the process may still open
    MaxEvents,    \* room for events in a call of kevent() (8 in the code)
    MaxChanges,   \* BOUND: change_list may have grown to this when a message is sent
    MaxWaiting    \* BOUND: connections that wait for accept()

ASSUME EventLoopAssumption ==
    /\ MaxFd \in Nat /\ MaxEvents \in Nat \ {0}
    /\ MaxChanges \in Nat /\ MaxWaiting \in Nat

Fd == 1..MaxFd
ServerSocket == 0
Filter == {"READ", "WRITE"}

Change == [fd : Fd, filter : Filter, op : {"add", "disable"}, stale : BOOLEAN]
Event == [fd : Fd \cup {ServerSocket}, filter : Filter \cup {"ERROR"}, stale : BOOLEAN]

VARIABLES
    status,    \* "running", or why run() was left
    phase,     \* in kevent(), at an event, or in parseData
    clients,   \* the keys of clients; also the sockets open in the kernel
    closing,   \* Client::close
    sendData,  \* the sockets whose send_data is not empty
    changes,   \* change_list
    events,    \* the part of event_list that is not handled yet
    filter,    \* the kernel's filters: "none", "on" or "off"
    waiting,   \* connections that wait for accept()
    input,     \* the sockets with data to receive
    gone       \* the sockets whose peer closed or reset the connection

perClient == <<clients, closing, sendData>>
network == <<waiting, input, gone>>
vars == <<status, phase, perClient, changes, events, filter, network>>

TypeOK ==
    /\ status \in {"running", "acceptError", "keventError", "SIGPIPE"}
    /\ phase \in {"kevent", "event", "parse"}
    /\ clients \subseteq Fd /\ closing \subseteq clients /\ sendData \subseteq clients
    /\ changes \in Seq(Change)
    /\ events \in Seq(Event)
    /\ filter \in [Fd -> [Filter -> {"none", "on", "off"}]]
    /\ waiting \in Nat
    /\ input \subseteq clients /\ gone \subseteq clients

NoFilter == [t \in Filter |-> "none"]

Init ==
    /\ status = "running" /\ phase = "kevent"
    /\ clients = {} /\ closing = {} /\ sendData = {}
    /\ changes = <<>> /\ events = <<>>
    /\ filter = [f \in Fd |-> NoFilter]
    /\ waiting = 0 /\ input = {} /\ gone = {}

--------------------------------------------------------------------------------
(* kevent() *)

At(p) == status = "running" /\ phase = p

\* EV_ADD | EV_ENABLE, or EV_DISABLE
Entry(f, t, op) == [fd |-> f, filter |-> t, op |-> op, stale |-> FALSE]
EventOf(f, t) == [fd |-> f, filter |-> t, stale |-> FALSE]

\* EBADF for a closed socket, ENOENT for a filter that is not registered
Fails(c) ==
    \/ c.fd \notin clients
    \/ c.op = "disable" /\ filter[c.fd][c.filter] = "none"

Applied(c) ==
    [filter EXCEPT ![c.fd][c.filter] = IF c.op = "add" THEN "on" ELSE "off"]

ApplyChange ==
    /\ At("kevent") /\ changes # <<>>
    /\ changes' = Tail(changes)
    /\ LET c == Head(changes)
       IN  \/ ~Fails(c) /\ filter' = Applied(c) /\ UNCHANGED <<status, events>>
           \/ /\ Fails(c) /\ Len(events) < MaxEvents
              /\ events' = Append(events, [fd |-> c.fd, filter |-> "ERROR", stale |-> c.stale])
              /\ UNCHANGED <<status, filter>>
           \/ /\ Fails(c) /\ Len(events) >= MaxEvents
              /\ status' = "keventError"
              /\ UNCHANGED <<events, filter>>
    /\ UNCHANGED <<phase, perClient, network>>

ReturnErrors ==
    /\ At("kevent") /\ changes = <<>> /\ events # <<>>
    /\ phase' = "event"
    /\ UNCHANGED <<status, perClient, changes, events, filter, network>>

\* Whether a socket can take output is up to the network: a WRITE event is
\* ready, but need not be in the batch.
Ready ==
    {EventOf(f, "READ") : f \in {f \in input \cup gone : filter[f]["READ"] = "on"}}
    \cup {EventOf(f, "WRITE") : f \in {f \in clients : filter[f]["WRITE"] = "on"}}
    \cup {EventOf(s, "READ") : s \in {s \in {ServerSocket} : waiting > 0}}

\* Batches of n events, in any order
Batches(n) == {b \in [1..n -> Ready] : \A i, j \in 1..n : b[i] = b[j] => i = j}

Collect ==
    /\ At("kevent") /\ changes = <<>> /\ events = <<>>
    /\ \E n \in 1..MaxEvents : events' \in Batches(n)
    /\ phase' = "event"
    /\ UNCHANGED <<status, perClient, changes, filter, network>>

--------------------------------------------------------------------------------
(* The handling of an event *)

\* The event at hand is the next one of the batch, of this filter.
Handling(f, t) ==
    At("event") /\ Head(events).fd = f /\ Head(events).filter = t

Outlived(s, f) == [i \in DOMAIN s |-> [s[i] EXCEPT !.stale = @ \/ s[i].fd = f]]

\* The loop goes on with the rest of the batch.
Rest(batch) ==
    /\ events' = Tail(batch)
    /\ phase' = IF Tail(batch) = <<>> THEN "kevent" ELSE "event"

\* Mutant of Closed: send_data.erase is forgotten.
ClosedWithOutput(f) ==
    /\ clients' = clients \ {f}
    /\ closing' = closing \ {f}
    /\ filter' = [filter EXCEPT ![f] = NoFilter]
    /\ input' = input \ {f} /\ gone' = gone \ {f}
    /\ Rest(Outlived(events, f))
    /\ UNCHANGED <<status, sendData, waiting>>

\* disconnectClient: close() takes the filters with it, but the batch and
\* change_list stay as they are.  Without a client of this number nothing changes:
\* clients[] inserts one that is erased again.
Closed(f) ==
    /\ clients' = clients \ {f}
    /\ closing' = closing \ {f}
    /\ sendData' = sendData \ {f}
    /\ filter' = [filter EXCEPT ![f] = NoFilter]
    /\ input' = input \ {f} /\ gone' = gone \ {f}
    /\ Rest(Outlived(events, f))
    /\ UNCHANGED <<status, waiting>>

Disconnect(f) == Closed(f) /\ changes' = Outlived(changes, f)

HandleError(f) == Handling(f, "ERROR") /\ Disconnect(f)

FreeFd == Fd \ clients
LowestFree == CHOOSE f \in FreeFd : \A g \in FreeFd : f <= g

\* Both filters of a new client are registered.
Registered(f) == <<Entry(f, "READ", "add"), Entry(f, "WRITE", "add")>>

\* accept() fails without a descriptor, or when the peer is not waiting any more;
\* the exception ends run().
HandleAccept ==
    /\ Handling(ServerSocket, "READ")
    /\ \/ /\ waiting = 0 \/ FreeFd = {}
          /\ status' = "acceptError"
          /\ UNCHANGED <<phase, perClient, changes, events, filter, network>>
       \/ /\ waiting > 0 /\ FreeFd # {}
          /\ waiting' = waiting - 1
          /\ clients' = clients \cup {LowestFree}
          /\ changes' = changes \o Registered(LowestFree)
          /\ Rest(events)
          /\ UNCHANGED <<status, closing, sendData, filter, input, gone>>

Ignored ==
    /\ Rest(events)
    /\ UNCHANGED <<status, perClient, changes, filter, network>>

\* recv() has nothing to return: the peer left, or the event is not for this
\* connection.  It may also report a reset before the data.
HandleRead(f) ==
    /\ Handling(f, "READ")
    /\ \/ f \notin clients /\ Ignored
       \/ f \in clients /\ (f \notin input \/ f \in gone) /\ Disconnect(f)
       \/ /\ f \in input
          /\ input' = input \ {f}
          /\ phase' = "parse"
          /\ UNCHANGED <<status, perClient, changes, events, filter, waiting, gone>>

Parsing(f) == At("parse") /\ Head(events).fd = f

\* Mutant of Message: the receiver's filter is left as it is.
MessageUnannounced(f, g) ==
    /\ Parsing(f) /\ f \notin closing /\ g \in clients
    /\ Len(changes) < MaxChanges
    /\ sendData' = sendData \cup {g}
    /\ UNCHANGED <<status, phase, clients, closing, changes, events, filter, network>>

\* A line of f sends a message to g (directMsg, or one turn of a broadcast).
Message(f, g) ==
    /\ Parsing(f) /\ f \notin closing /\ g \in clients
    /\ Len(changes) < MaxChanges
    /\ sendData' = sendData \cup {g}
    /\ changes' = Append(changes, Entry(g, "WRITE", "add"))
    /\ UNCHANGED <<status, phase, clients, closing, events, filter, network>>

\* Mutant of SwitchToWrite: READ is switched off whether there is output or not.
SwitchToWriteAlways(f, pending) ==
    <<Entry(f, "READ", "disable"), Entry(f, "WRITE", "add")>>

\* READ is switched off until the output is flushed.
SwitchToWrite(f, pending) ==
    IF f \in pending THEN <<Entry(f, "READ", "disable"), Entry(f, "WRITE", "add")>>
    ELSE <<>>

\* parseData returns: f has output if a line was complete, and may be marked
\* close, with output, by a line that was.
ParseEnd(f) ==
    /\ Parsing(f)
    /\ \/ UNCHANGED <<sendData, closing>>
       \/ f \notin closing /\ sendData' = sendData \cup {f}
          /\ closing' \in {closing, closing \cup {f}}
    /\ changes' = changes \o SwitchToWrite(f, sendData')
    /\ Rest(events)
    /\ UNCHANGED <<status, clients, filter, network>>

\* Mutant of SwitchToRead: READ stays as it is.
SwitchOffWrite(f) == <<Entry(f, "WRITE", "disable")>>

SwitchToRead(f) == <<Entry(f, "WRITE", "disable"), Entry(f, "READ", "add")>>

\* Mutant of Flushed: the client marked close stays.
FlushedAndKept(f) ==
    /\ sendData' = sendData \ {f}
    /\ changes' = changes \o SwitchToRead(f)
    /\ Rest(events)
    /\ UNCHANGED <<status, clients, closing, filter, network>>

\* Mutant of Flushed: the loop does not continue with the next event after the
\* disconnection.
FlushedNotSkipped(f) ==
    \/ /\ f \in closing /\ Closed(f)
       /\ changes' = Outlived(changes, f) \o SwitchToRead(f)
    \/ /\ f \notin closing
       /\ sendData' = sendData \ {f}
       /\ changes' = changes \o SwitchToRead(f)
       /\ Rest(events)
       /\ UNCHANGED <<status, clients, closing, filter, network>>

\* All output is cleared, whether send() took all of it or not.
Flushed(f) ==
    \/ f \in closing /\ Disconnect(f)
    \/ /\ f \notin closing
       /\ sendData' = sendData \ {f}
       /\ changes' = changes \o SwitchToRead(f)
       /\ Rest(events)
       /\ UNCHANGED <<status, clients, closing, filter, network>>

\* send() on a connection the peer closed or reset succeeds, fails, or raises
\* SIGPIPE, which nothing in the program handles.
HandleWrite(f) ==
    /\ Handling(f, "WRITE")
    /\ \/ f \notin sendData /\ Ignored
       \/ f \in sendData /\ Flushed(f)
       \/ f \in sendData \cap gone /\ Disconnect(f)
       \/ /\ f \in sendData \cap gone
          /\ status' = "SIGPIPE"
          /\ UNCHANGED <<phase, perClient, changes, events, filter, network>>

--------------------------------------------------------------------------------
(* The network *)

Connect ==
    /\ waiting < MaxWaiting /\ waiting' = waiting + 1
    /\ UNCHANGED <<status, phase, perClient, changes, events, filter, input, gone>>

\* A peer that waits for accept() gives up.
GiveUp ==
    /\ waiting > 0 /\ waiting' = waiting - 1
    /\ UNCHANGED <<status, phase, perClient, changes, events, filter, input, gone>>

PeerSends(f) ==
    /\ f \in clients \ gone /\ input' = input \cup {f}
    /\ UNCHANGED <<status, phase, perClient, changes, events, filter, waiting, gone>>

PeerLeaves(f) ==
    /\ f \in clients /\ gone' = gone \cup {f}
    /\ UNCHANGED <<status, phase, perClient, changes, events, filter, waiting, input>>

--------------------------------------------------------------------------------

\* What the thread of the server does.
Thread ==
    \/ ApplyChange \/ ReturnErrors \/ Collect
    \/ HandleAccept
    \/ \E f \in Fd :
        \/ HandleError(f) \/ HandleRead(f) \/ ParseEnd(f) \/ HandleWrite(f)
        \/ \E g \in Fd : Message(f, g)

Network == Connect \/ GiveUp \/ \E f \in Fd : PeerSends(f) \/ PeerLeaves(f)

Next == Thread \/ Network

\* The filter of a socket is among those that kevent() returns.
Reported(f, t) == Collect /\ \E i \in DOMAIN events' : events'[i] = EventOf(f, t)

\* The thread goes on while there is something to do.  The queue is served in
\* turn, so a filter that is ready again and again is returned some time; for
\* WRITE this says that a peer takes its output, or leaves.
Fairness ==
    /\ WF_vars(Thread)
    /\ \A f \in Fd, t \in Filter : SF_vars(Reported(f, t))

Spec == Init /\ [][Next]_vars /\ Fairness

--------------------------------------------------------------------------------
(* Safety *)

About(c, f, t) == c.fd = f /\ c.filter = t

\* The filter t of f will be on when the entries of change_list are applied.
WillBeOn(f, t) ==
    \/ \E i \in DOMAIN changes :
         /\ About(changes[i], f, t) /\ changes[i].op = "add"
         /\ \A j \in DOMAIN changes : j > i => ~About(changes[j], f, t)
    \/ /\ \A j \in DOMAIN changes : ~About(changes[j], f, t)
       /\ filter[f][t] = "on"

\* Output is never left without a WRITE event to flush it, and a client without
\* output is never left without READ events - although entries of a closed
\* connection may be applied to the next one of the same number.
NoClientForgotten ==
    \A f \in clients :
        /\ f \in sendData => WillBeOn(f, "WRITE")
        /\ f \notin sendData => WillBeOn(f, "READ")

\* An entry of change_list fails only if the connection it was made for has ended:
\* the loop never disconnects a client because of an entry of its own.
OnlyStaleChangesFail ==
    \A i \in DOMAIN events : events[i].filter = "ERROR" => events[i].stale

\* Whatever the batches and the errors, a connection goes through what the command
\* handlers rely on, and the last output of a client marked close is flushed.
Interface ==
    INSTANCE Connections WITH up <- (status = "running"), pending <- sendData
ImplementsConnections == Interface!Spec

\* What a peer sends is received, or the connection ends.
InputIsReceived ==
    \A f \in Fd : f \in input ~> f \notin input \/ status # "running"

================================================================================
