# A verification project for the chat server

TLA+ modules that model the IRC server of `src/ref`, TLC runs that check them on
small instances, and theorems about them that TLAPS checks for every instance.

Paths are relative to the repository; `Server.cpp:505` means
`src/ref/src/Server.cpp`, line 505.

## 1. The system

`ircserv <port> <password>` is one process with one thread. `run()`
(`Server.cpp:98`) calls `kevent()`, handles each returned event to its end and
starts again. There is no lock and no other thread; what makes the program hard is
that its state is **copied and cross-referenced by nickname**:

| state | owner | keyed by | holds |
|---|---|---|---|
| `clients` | Server | socket | `Client`: nickname, registered, close flag, buffer, its own map of channels |
| `channels` | Server | name | pointer to `Channel` |
| `Channel::users` | Channel | nickname | a **copy** of the `Client` at the time it joined or renamed itself |
| `Channel::auth` | Channel | nickname | rank: owner 1, operator 2, common 3; `operator[]` inserts 0 |
| `Channel::invited` | Channel | - | copies of invited clients, compared by nickname |
| `Client::channels` | Client | name | a **copy** of the `Channel` at the time of JOIN (only its name is used) |
| `send_data` | Server | socket | output that waits for a write event |
| `change_list`, `event_list` | Server | - | entries for the kernel queue; the batch of events it returned |

### Components

| component | where | state | operations | what must hold | modelled |
|---|---|---|---|---|---|
| Channel | `Channel.cpp` | users, auth, modes, key, limit, invitations | constructor, joinClient, deleteClient, isOperator, setOperator, changeAuth, addInvited, isInvite, mode and limit setters | the maps agree, one owner, no command hides a key or a limit | yes |
| Client | `Client.cpp` | nickname, reg, close, channels, buffer, pre_cmd | accessors, joinChannel, leaveChannel | its own map agrees with the channels | yes |
| Command handlers | `Server.cpp:232-1492`, `1654-1727` | clients, channels, send_data | one per command, disconnectClient | no dangling copies, no empty channel, limits and ranks respected, no null pointer; users are told what changes | yes |
| Line parser and registration | `parseData`, `Server.cpp:1495` | buffer, pre_cmd, reg | splits the stream, gates by PASS, dispatches | nothing runs before PASS or after QUIT; reads may end anywhere | yes |
| Event loop | `run`, `Server.cpp:98` | kqueue, change_list, event_list | accept, read, write, error | a closing client is disconnected, nobody is left without events, a reused socket gets no stale ones | yes |
| Shutdown | `deleteChannel`, `closeClient` | - | once, after an exception | - | no |
| main | `main.cpp` | - | argument checks | - | no |
| Echo pair | `src/test` | - | recv and send in turn | nobody waits forever | no |
| First draft, socket exercise, scripts | `src/PROJECT`, `src/TEST`, `src/ref/*.sh` | - | - | - | no |

The components interact by direct calls: a read event appends to the client's
buffer and calls `parseData`; the handlers change `clients` and `channels` and append
to `send_data` of any socket; the write event flushes `send_data` and calls
`disconnectClient` for a client that is marked close.

### What is hard to test

`PROJECT.json` lists each hazard at its line. They fall into six groups.

- **Stale copies.** KICK calls `leaveChannel` on a copy; NICK must replace the copies
  in all channels; a socket number is used again.
- **Maps that insert.** `channels[name]` of LIST and `auth[nick]` of `isOperator`
  create entries: a null pointer, an operator's rank 0.
- **Identity by nickname.** Default nicknames are not checked for duplicates, so
  two clients can be one key.
- **Long command sequences.** A client has to be kicked, the channel has to be
  deleted, and only then does its QUIT crash the server.
- **Stale events.** A batch, and `change_list`, outlive the sockets they are about, and
  `accept()` hands out the lowest free number: the one just closed, for instance.
- **Streams.** A read ends anywhere, PASS counts only when the next command comes,
  and a line is put back into the buffer; what the others read of a command (NICK,
  QUIT, MODE) is put together by hand.

## 2. The modules

| module | stands for |
|---|---|
| `Channel` | class Channel: a channel as a record, its member functions as operators |
| `ChatServer` (EXTENDS Channel) | the server: clients, channels, every handler as an action; the properties |
| `EventLoop` | `run()`, `change_list`, `event_list`, and the kernel queue |
| `LineParser` | `recv()` into the buffer of one connection, `parseData`, the password gate |
| `ModeString` (EXTENDS Channel) | `handleMode` letter by letter with the text of its broadcast, the reply to a query, and a client that reads them |
| `ChatView` (EXTENDS ChatServer) | what each user of a channel believes about its users, from the messages it gets |
| `Connections` | abstract: what handlers and event loop promise each other about connections |
| `Gate` | abstract: what the password gate promises |
| `MCChatServer`, `MCChatView`, `MCEventLoop`, `MCModeString` | constants for TLC; statements of the repository that the code does not keep |
| `ChannelProofs` (EXTENDS Channel) | lemmas about the operators |
| `ChatServerProofs` (EXTENDS ChatServer, ChannelProofs) | the inductive invariant and what follows from it |
| `ChatServerSteps` (EXTENDS ChatServerProofs) | theorems about steps: seats, settings, crashes and limits |
| `ChatServerRefinement` (EXTENDS ChatServerProofs) | ChatServer implements Connections |
| `EventLoopProofs` | the invariant of the loop, and that it implements Connections |
| `LineParserProofs` | the invariant of the parser, and that it implements Gate |
| `ModeStringProofs` (EXTENDS ModeString, ChannelProofs) | what a reader of MODE's text learns |
| `ChatViewProofs` (EXTENDS ChatView, ChatServerProofs) | what each handler tells, against what it does |

How they fit together:

```
       Gate  <=  LineParser         (one connection: bytes to commands)
                     |  commands
 Channel  ->  ChatServer  =>  Connections  <=  EventLoop   (all connections: events)
    |             |
 ModeString    ChatView             (what is told to the other users)
```

`A => B` is a refinement that is checked and proved. `Connections` is the contract
between the two halves of the program: each half is modelled with the other one
replaced by what the contract allows, and each is shown to keep its side.

### ChatServer: state

| variable | code |
|---|---|
| `up` | the process runs; FALSE after a null pointer was dereferenced |
| `connected` | keys of `clients` |
| `registered`, `closing`, `nick`, `joined` | `reg`, `close`, `nickname`, `channels` of each client |
| `sendData` | the sockets whose `send_data` is not empty |
| `channels` | `Server::channels`: `Absent`, `Null` (an entry with a null pointer) or a channel |
| `task` | the command whose loop is running |

A channel is a record of `users` (nickname to socket: the one field of the copied
Client that matters besides the key), `auth`, `modes`, `password`, `user_limit` and
`invited` (how often each nickname is listed).

### ChatServer: actions

One action is one handler, from its guard to the response that `parseData` appends
to `send_data`. JOIN, PART, KICK and MODE loop over a list in the line: there one
action is one iteration, `task` holds what the loop carries (for KICK the channel
and the last nickname of the list), and no other action is enabled until the loop
ends. So the length of a list has no bound and the elements need not be enumerated
together.

- `Accept`, `PassAccepted`, `PassRefused`, `ClientGone`, `WriteReady`, `HandleQuit`:
  the life of a connection. `Disconnect` is `disconnectClient`.
- `HandleNick` with `Renamed` (`changeChannelNick`), `HandleJoin` and `JoinNext` with
  `ClientJoinChannel`, `HandlePart`, `HandleKick` with `KickedFrom`, `HandleInvite`.
- `HandleMode` with `ModeStep` and the four operators `ModeFlag`, `ModeKey`,
  `ModeLimit`, `ModeOp` of `Channel`.
- `HandleTopic`, `HandlePrivmsg`, `HandleList`, `HandleWho`: LIST inserts a null
  pointer, WHO a rank.
- `HandleReplyOnly`: USER, PING, CAP, unknown commands and the returns at a missing
  parameter.

`Segfault` is the dereference of a null `Channel*`; afterwards nothing happens, which
is why the configurations do not check for deadlock.

### EventLoop

`changes` is `change_list`, `events` the part of `event_list` the `for` loop has not
handled, `filter` what the kernel has registered per socket. `phase` says where the
thread is: in `kevent()`, at an event, or in `parseData`. The rest is the
environment: connections that wait, sockets with input, peers that left.

- `kevent()` is three actions. `ApplyChange` applies one entry; one that fails
  becomes an error event, or lets the call fail when there is no room left (then
  `run()` throws). `ReturnErrors` returns when there were failures. `Collect` returns
  any ready events, in any order. A socket can be ready for writing without being
  in the batch: whether it takes output is up to the network.
- `HandleError`, `HandleAccept`, `HandleRead`, `HandleWrite` are the branches of the
  loop. `Message` (`directMsg`, a turn of `broadcast`) and `ParseEnd` are what a line
  may do, as `Connections` allows it.
- `accept()` returns the lowest free number; `Outlived` marks what is left in the two
  lists about a socket that was closed. The mark is history: no guard reads it.
- `send()` to a peer that is gone succeeds, fails or raises SIGPIPE.

### LineParser

`wire` is what the peer sent and the server has not received, `buffer` is
`Client::buffer`, `text` the local copy in `parseData`, `preCmd` the remembered PASS
line. A read takes any prefix of the wire up to `BufSize`. One action is one turn of
the loop; `PassChecked` puts the line back in front of the buffer with the extra LF
that the code leaves. The stream is made of words, CR, LF and NUL; a word is a command
with its parameters. `addBuffer` is given a C string, so a read counts up to its first
NUL byte only (`CString`): the rest of the read is lost. A read of exactly the buffer's
size writes behind it (`buf[n] = 0`); the process then goes on or dies.

### ModeString and ChatView

`ModeString` keeps the locals of `handleMode` (`flag`, `pre_flag`, `ch_modes`,
`ch_params`, whether parameters are left) and handles one character per action; at
the end of the string the text is read by a client (`Heard`) that starts with the
settings it knew. `ChatView` adds to each step of `ChatServer` who is told what by
it; each of its steps conjoins a ChatServer action with an update of `view`, and
`ViewsOnlyWatch` says that this adds no behaviour.

### Abstractions

- The default nickname `client<fd>` is represented by the socket: `Fd \subseteq Nick`.
- Channel names are numbers in the order of the map (`begin()` is the least); the
  names of `Chan \ HashChan` do not start with `#`.
- Text of replies, topics, times, user and host names, and `Channel::owner` (written,
  never read) are left out. `addBan` has no caller, so `checkBan` is always false and
  `joinClient` never throws.
- The amount of output is reduced to "some or none": that is what the write event
  asks. The broadcast of MODE is made at the letter that changes something: the
  users of the channel do not change within the command (`ModeString` has the text).
- Of several clients with one nickname the code takes the one with the lowest
  socket, the model any of them.
- `erase(std::remove(...))` with one iterator is undefined when nothing was removed;
  it is taken as the no-op that the C++ library of the target (kqueue: macOS) makes
  of it.
- In `ChatServer` the PASS gate is a choice (a client that is not registered may be
  accepted or refused at any time); `LineParser` says which lines do it.
- In `LineParser` the NUL byte may stand anywhere, inside a word too, which it makes two.
  The characters of a word are not in the model, so what comes of parts of words is
  any word: of a word whose beginning is lost (`LeftOver`), and of words between
  which the line end is lost (`Joined`). The code allows no more than that. `sent`
  holds the lines without the NUL bytes; with one among them it says nothing about what
  the server should do, and `ReadsDoNotMatter` is stated of streams without.
- In `ChatView` a connection delivers its messages in order and all of them.

### Bounds

`LimitArg`, `Letter`, `Verb` and `MaxInvites` bound the inputs of `ChatServer`,
`MaxChanges` and `MaxWaiting` those of `EventLoop`, `MaxSent` and `MaxNuls` those of
`LineParser`, `MaxRead` that of `ModeString`. They are constants, and the proofs hold for all their
values. `DefaultLimit` is 3 in the code; the run `settings` uses 2 so that two clients
fill a channel (the assumption is only that it is at least 2: a creator's own JOIN must
not find the channel full). `MaxEvents` is 8 in the code and 3 in the run, `BufSize`
1024 and 4.

## 3. The runs

| run | instance | shows |
|---|---|---|
| `membership` | 3 sockets, 4 nicknames, 1 channel; JOIN PART KICK NICK MODE o WHO | copies of clients are live, channels die with their last user, a free socket number carries nothing, nicknames clash only with a default one, `auth` agrees with `users`, one owner at most, a place is lost only by KICK or a clash of nicknames, and taken over only by NICK in a clash |
| `settings` | 2 sockets, 3 nicknames, 2 keys (one too long for +k), 1 channel; JOIN PART KICK NICK MODE k l | a key or limit that no mode shows is one of the creation; only NICK takes a channel over its limit |
| `commands` | 2 sockets, 2 channels, all commands | the inductive invariant; a closing client has output; why the process can crash; the handlers implement `Connections` |
| `event_loop` | 2 socket numbers, batches of 3 | nobody is left without the event it needs; only entries of ended connections fail; the loop implements `Connections` with its liveness; input is received |
| `line_parser` | 4 lines of any kind, or 3 and a NUL byte, reads of 1 to 4 symbols | without a NUL byte the pieces do not matter; with and without, the loop implements `Gate` and ends |
| `mode_string` | 2 users and a nickname that is not on the channel, strings of 4 characters, 2 keys, 3 limits | whoever reads the broadcasts or the reply knows the settings |
| `view` | 2 sockets, 3 nicknames, 1 channel; JOIN PART KICK NICK QUIT | a user's list of names is right, up to those that are disconnected, say QUIT or return by NICK after a KICK |

Three sockets are needed for what two others do to a third: the owner, the one it
kicks, and one whose default nickname clashes. Two channels are needed for loops
that meet different channels and for WHO, which looks at the first one. Negative,
equal and too small limits all occur (`LimitArgs`). A batch of three is the least in
which one event closes a socket, the second accepts on its number and the third is
stale; two entries of `change_list` that fail leave room for one more, and three do
not fit a batch that is full. Four lines hold a wrong and a right PASS and two commands,
and a read of up to four symbols ends at every place of a line and behind it. A NUL
byte counts as one of the four (`MaxSent`): one is enough to lose a line end, with
lines before and behind it. Four
characters hold two signs and two letters, a sign that repeats included. `view` with
three sockets was checked as well (537,649 states); it is not a run because it adds no
case. With two channels it does not end in reasonable time: that a NICK on one channel
does no harm to the lists of another, which it renames as well, is left to
the proof. The sockets are symmetric where no liveness is checked.

The other runs check a statement of the repository each, and TLC finds it violated
by what the code does; `findings` in `PROJECT.json` quotes the line.

| run | statement | what happens |
|---|---|---|
| `kick_copy` | KICK takes the channel out of the client (`Server.cpp:1090`) | it is taken out of a copy |
| `list_inserts` | a found name is an existing channel (`Server.cpp:877`) | LIST inserted a null pointer |
| `outsider_mode` | modes need channel operator access (`Server.hpp:45`) | a missing rank reads 0 |
| `stale_event` | a closed client's events leave the queue (`Server.cpp:134`) | an entry left in `change_list` fails for the next client of the number, which is disconnected |
| `sigpipe` | a failing send closes that connection (`Server.cpp:206`) | it can end the process |

Other divergences show in the models without a run of their own: a negative limit
passes an unsigned comparison (`Server.cpp:1341`), a client on the maximum of channels
is admitted to one more (`505`), a default nickname is not checked (`158`), a kicked
client that renames itself is back with rank 0 (`1671`), a client that joined under
a nickname which another one has on the channel takes over that entry and its rank with
its next NICK (`1671`), and a channel created with a key asks for it without mode k
(`Channel.cpp:17`). `ModeLimit`, `HandleJoin`,
`Accept` and `Renamed` say so, and the properties that hold
(`LimitExceededOnlyByNick`, `OnlyDefaultNicksClash`, `StrangersOnlyByQuitOrReturn`,
`SeatTakenOverOnlyByClash`, `HiddenSettingsAreOfCreation`) are stated around them.

### Fairness

- `EventLoop`: `WF_vars(Thread)`: the one thread goes on while there is something to
  do. `SF_vars(Reported(f, t))`, for each socket and filter: the kernel serves the
  queue in turn, so a filter that is ready again and again is among the events some
  time. For WRITE this says that a peer takes its output some time, or leaves. It is
  strong fairness because a filter is off and on again while others are served; a
  weak one would allow to starve a socket whose READ is switched off at each turn.
- `LineParser`: `WF_vars(Recv)` and `WF_vars(ParseData)`: input is received, which is
  what `EventLoop!InputIsReceived` shows, and the loop runs on. Nothing is assumed of
  the peer.
- `Connections`: `WF_vars(Farewell(f))`: a client marked close is not kept forever.
  `EventLoop` is shown to have it.
- `ChatServer`, `ModeString` and `ChatView` state safety only and assume none.

## 4. The proofs

Assumptions: `Fd \subseteq Nick`, `NoFd` is no socket and the empty string no nickname
and no key; there are finitely many sockets, less than 999999999, which stands for "no
limit"; channel names are positive numbers; `Absent` and `Null` are no channel
records; a new channel has room for two; `LimitArg` are integers and `Letter` mode
letters; a text that is read as a number is no nickname and not the number itself; the
bounds of `EventLoop`, `LineParser` and `ModeString` are natural numbers, and a batch and
a read are not empty. They are the named ASSUMEs of the modules.

### The chat server

**The inductive invariant** `IInv` is the conjunction of the safety invariants with
`TypeOK` and `TaskOK`. They need one another:

- `EntriesLive` (a copy in a channel is of a connected client with this nickname and
  this channel in its own map) is what makes *everything else* local: NICK is safe
  because a nickname nobody has can have no entry in a channel, disconnection is
  because all entries of a client are in the channels of its own map. It is
  one-sided on purpose: the own map may name more channels (KICK).
- `RanksOfUsers` says that the two maps of a channel agree; it allows rank 0 for
  outsiders and shows that a *user* never reads a missing rank. `OneOwner` needs it,
  since NICK moves a rank by deleting and inserting.
- `NothingLeftOver` is needed by `Accept`: the new client of a socket starts clean.
- `OnlyDefaultNicksClash` and `ClosingHasOutput` are about clients alone and close
  under all actions; `TaskOK` says that no loop outlives its client, which is how
  the guard "not closing" of each line enters the proof.

`ChannelProofs` shows once for each operator of `Channel` that it keeps a channel
`Sound` and what it does to the users. `ChatServerProofs` has one lemma per action;
most of them are instances of `ChannelStep`: output for connected clients and, in
each channel, no user that was not there. NICK, JOIN, PART and disconnection change
both sides of `EntriesLive` and have longer proofs. `Inductive` combines them.

The theorems about steps go through the actions once more with `IInv` at hand. One
round is shared: `NextKept` says of each step that it keeps the users of each channel or
loses some and changes settings as MODE says (`ChannelsKept`), or is a JOIN, which
leaves the entries there are to their clients (`JoinKept`), or a NICK. `OnlyCreationHidesSettings`
follows at once; for `SeatsAreTakenOverByClash` it remains to look at NICK, where
`EntriesLive` says whose the entry is that the new nickname gets.
`LimitsAreExceededByNick` compares cardinalities: by `EntriesLive` the users of a channel
are different sockets, so they are finitely many and adding or removing one is
counted right.

### The event loop

`LInv` is `TypeOK` with the place of the thread (`PhaseOK`) and three facts about
`change_list` and the filters:

- `EntriesGood`: an entry that is not stale is about a connected client, a connected
  client has each filter registered or an add entry waiting, and a disable entry that
  is not stale has a registered filter, or an add entry before it. This is
  why an entry of a client's own connection cannot fail.
- `NobodyForgotten`: `NoClientForgotten`, stated of any list of entries, filters,
  clients and pending output, so that a lemma can say what one entry does to it.
- `ErrorsStale`: the error events of a batch are stale.

`EntriesGood` is what `OnlyStaleChangesFail` needs to be inductive; `WillBeOn` looks at
the *last* entry for a filter, so `NoClientForgotten` survives stale entries that are
applied to a new connection: those of the new connection come after them.

### The line parser

`TypeOK` is inductive, with one lemma: the line that is taken from `text` ends inside
it, so what is left is again a text. `PasswordGate` follows from the type invariant with
the refinement mapping of `LineParser`: the door is a function of `close`, `reg` and
`preCmd`, and each turn is a step of `Gate` or a stutter.

`CutsDoNotMatter` needs to know where the parser is in the stream. Its invariant is
`CleanRInv`, which is `RInv` as long as the peer sent no NUL byte. Then nothing of a read
is lost, and the words before the first line end of the buffer are one at most, since
the buffer is the beginning of lines that were sent (`OneCommand`). `RInv`
says, while the connection is served (`Serving`):

- `Aligned(k, a)`: the bytes that were not parsed, those on the wire included, spell the
  lines behind the first `a` that were sent. `Ends` says so with a function that gives
  the place where each line ends, and so does the number of LFs, which tells how many
  lines arrived. `k` is 1 while the line that opened the door waits, put back behind a
  LF: that is the one time when the bytes are not those of the wire.
- `AtDoor`: before the door opens, the first `a` lines were PASS and CAP, and `preCmd` is
  the last PASS of them. `Inside`: behind it, what was handled is the lines from the one
  that opened the door to the last one parsed.

A connection that ends (`Ending`) has met a line that the password before it bars, or
a QUIT. The places of a line's end and the first line of a kind are least elements of
sets of numbers, which exist because `<` is well founded (`WFMin`): where a pen-and-paper
proof would be an induction over the lines, `Ends` and `Serving` carry the fact along
from step to step.

### What is told

`ModeStringProofs`: `MInv` says that whoever knew what was broadcast before and reads the
text so far knows the settings now (`Reading`). `Learns` states it with a table of the
states of the reader, one for each character, that a step extends by one character and
perhaps one parameter (`LearnsMore`); `OneReading` shows that the table is the recursive
function `Readings`. The rest is what each letter changes against what it says, of which
`+l` is the one that needs an argument from outside: a missing number reads as 0, and
that is less than the number of users, who are on the channel while the command runs
(`Populated`). A query starts from nothing, so `ReplyTells` shows it for any channel
that is `Sound`.

`ChatViewProofs` looks at all channels as one table of entries, by nickname and channel,
and describes each handler twice: by the entries it changes and by what it tells.
`ViewSteps` sums this up in six kinds of steps (`Silent`, `Taken`, `Joined`, `Left`,
`Renames`, QUIT), for which the two are compared. NICK is the one that is not local: it
changes the entries of the channels in the client's own map, but a reader renames
wherever it knows the old nickname. By `EntriesLive` nobody else has an entry under that
nickname, unless two clients have it; hence `NicksClash` in the properties. A kicked
client is why `Seated` is in them: its own map still has the channel, so its NICK is an
entry there again.

### The theorems

| theorem | module | property |
|---|---|---|
| `Inductive` | `ChatServerProofs` | `[]IInv` |
| `TypeCorrect` | | `[]TypeOK` |
| `BroadcastsReachLiveClients` | | `[]EntriesLive` |
| `ChannelsHaveUsers` | | `[]NoEmptyChannel` |
| `RanksAreSound`, `OwnersAreUnique` | | `[]RanksOfUsers`, `[]OneOwner` |
| `ClosingIsFlushed`, `FreeSocketsAreClean` | | `[]ClosingHasOutput`, `[]NothingLeftOver` |
| `ClashesAreOfDefaults` | | `[]OnlyDefaultNicksClash` |
| `SeatsAreTakenOverByClash` | `ChatServerSteps` | `SeatTakenOverOnlyByClash` |
| `SeatsAreLostByKickOrClash` | | `SeatLostOnlyByKickOrClash` |
| `CrashesHaveStaleCause` | | `CrashHasStaleCause` |
| `OnlyCreationHidesSettings` | | `HiddenSettingsAreOfCreation` |
| `LimitsAreExceededByNick` | | `LimitExceededOnlyByNick` |
| `HandlersImplementConnections` | `ChatServerRefinement` | `ImplementsConnections` |
| `LoopInductive`, `LoopTypeCorrect` | `EventLoopProofs` | `[]LInv`, `[]TypeOK` |
| `NobodyIsForgotten` | | `[]NoClientForgotten` |
| `ErrorsAreStale` | | `[]OnlyStaleChangesFail` |
| `LoopImplementsConnections` | | the safety of `Connections` |
| `ParserTypeCorrect` | `LineParserProofs` | `[]TypeOK` |
| `PasswordGate` | | `ImplementsGate` |
| `CutsDoNotMatter` | | `[]ReadsDoNotMatter` |
| `ModeInductive`, `ModeTypeCorrect` | `ModeStringProofs` | `[]MInv`, `[]TypeOK` |
| `FollowersKnow` | | `[]BroadcastsTellAll` |
| `QueriesTell` | | `[]QueryTellsSettings` |
| `ViewsOnlyWatch` | `ChatViewProofs` | `ViewSpec => Spec` |
| `GhostsAreDisconnected` | | `GhostsOnlyByDisconnection` |
| `StrangersQuitOrReturn` | | `StrangersOnlyByQuitOrReturn` |

`CrashesHaveStaleCause` bounds the crashes of the server: apart from LIST and KICK,
which create the two causes, no command sequence of any number of clients makes a
handler use a null `Channel*`.

### Only model-checked

- Liveness: `InputIsReceived`, `ParseReturns`, and the fairness of `Connections` in
  `EventLoop`. It is out of the prover's reach. All other properties of the passing
  runs are theorems.
- That the reader of `ModeString` and the reference definitions of `LineParser` say what
  they should: the proofs are about them as they are written.

## 5. Not modelled

- `deleteChannel` and `closeClient`: undefined behaviour on the way to exit.
- `main` and `init`: straight-line checks and I/O before the first event.
- How much of the output a `send()` takes, and the content of `send_data`: a partly
  sent text (`Server.cpp:213`) and the assignment at `1563` are listed as hazards.
- The time between a signal and the loop: the program installs no handler.
- `src/test`: two small blocking processes, an exercise the server does not use.
- `src/PROJECT` (a skeleton without handlers), `src/TEST`, scripts and notes.

## 6. What could come next

1. `EchoPair`: the two processes of `src/test` and how they come to wait for each
   other.
2. Output as a sequence of messages with partial `send()`s, in `EventLoop`.
3. An abstract channel (who is on it, its settings) that `ChatServer` implements.
