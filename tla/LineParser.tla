------------------------------ MODULE LineParser ------------------------------
(***************************************************************************)
(* How the bytes of one connection become commands: recv() into the buffer  *)
(* of the client and the loop of Server::parseData, with the password gate. *)
(*                                                                          *)
(* The stream carries words (a command with its parameters is one word: a   *)
(* read that ends inside a word and one that ends behind it leave the same  *)
(* work), CR and LF; the network cuts it into reads anywhere.  A peer ends  *)
(* its lines with CR LF; empty lines occur.  A PASS line is the word        *)
(* "right", "wrong" or "bare" (no parameter).  NUL bytes occur too: what a  *)
(* read brings behind one is lost, and a line may be put together from what *)
(* is left of several.                                                      *)
(*                                                                          *)
(* One action is one turn of the loop.                                      *)
(***************************************************************************)
EXTENDS Integers, Sequences, FiniteSets

CONSTANTS
    BufSize,    \* what recv() returns at most (1024 in the code)
    MaxSent,    \* BOUND: lines and NUL bytes a peer sends
    MaxNuls     \* BOUND: NUL bytes among them

ASSUME LineParserAssumption ==
    BufSize \in Nat \ {0} /\ MaxSent \in Nat /\ MaxNuls \in Nat

CR == "CR"
LF == "LF"
NUL == "NUL"
Space == {CR, LF}
PassWord == {"right", "wrong", "bare"}
Word == PassWord \cup {"CAP", "NICK", "QUIT"}
NoWord == ""
Line == Word \cup {NoWord}
Bytes == Seq(Word \cup Space)
Stream == Seq(Word \cup Space \cup {NUL})

VARIABLES
    up,        \* the process runs
    wire,      \* bytes the peer sent that were not received
    buffer,    \* Client::buffer
    preCmd,    \* Client::pre_cmd: the last PASS line, or none
    reg,       \* Client::reg
    close,     \* Client::close
    parsing,   \* parseData runs
    text,      \* its local copy of the buffer
    sent,      \* history: the lines the peer sent
    nuls,      \* history: how many NUL bytes were among them
    handled    \* history: the commands of a registered client that were dispatched

gate == <<preCmd, reg, close, handled>>
vars == <<up, wire, buffer, gate, parsing, text, sent, nuls>>

TypeOK ==
    /\ up \in BOOLEAN /\ parsing \in BOOLEAN /\ reg \in BOOLEAN /\ close \in BOOLEAN
    /\ wire \in Stream /\ buffer \in Bytes /\ text \in Bytes
    /\ nuls \in Nat
    /\ nuls = 0 => wire \in Bytes
    /\ preCmd \in PassWord \cup {NoWord}
    /\ sent \in Seq(Line) /\ handled \in Seq(Line)

Init ==
    /\ up = TRUE /\ parsing = FALSE /\ reg = FALSE /\ close = FALSE
    /\ wire = <<>> /\ buffer = <<>> /\ text = <<>> /\ preCmd = NoWord
    /\ sent = <<>> /\ nuls = 0 /\ handled = <<>>

--------------------------------------------------------------------------------
(* The stream *)

Ended(w) == IF w = NoWord THEN <<CR, LF>> ELSE <<w, CR, LF>>

PeerSends(w) ==
    /\ Len(sent) + nuls < MaxSent
    /\ sent' = Append(sent, w)
    /\ wire' = wire \o Ended(w)
    /\ UNCHANGED <<up, buffer, gate, parsing, text, nuls>>

Drop(s, n) == SubSeq(s, n + 1, Len(s))

\* Something on the way holds a NUL byte, between two symbols or inside a word,
\* which it makes two.
PeerSendsNul ==
    /\ nuls < MaxNuls /\ Len(sent) + nuls < MaxSent
    /\ nuls' = nuls + 1
    /\ \E i \in 0..Len(wire), half \in {<<>>} \cup {<<w>> : w \in Word} :
        /\ half # <<>> => i > 0 /\ wire[i] \in Word
        /\ wire' = SubSeq(wire, 1, i) \o <<NUL>> \o half \o Drop(wire, i)
    /\ UNCHANGED <<up, buffer, gate, parsing, text, sent>>

First(S) == CHOOSE i \in S : \A j \in S : i <= j
Last(S) == CHOOSE i \in S : \A j \in S : j <= i

\* Mutant of LineEnds: a CR ends a line.
CarriageReturns(s) == {i \in DOMAIN s : s[i] = CR}

\* find("\r\n")
LineEnds(s) == {i \in 1..(Len(s) - 1) : s[i] = CR /\ s[i + 1] = LF}

Nuls(s) == {i \in DOMAIN s : s[i] = NUL}

\* The string that addBuffer makes of the array: it ends before the first NUL byte.
CString(s) == IF Nuls(s) = {} THEN s ELSE SubSeq(s, 1, First(Nuls(s)) - 1)

\* What stays on the wire: of a word in which a read ends the rest remains, and if
\* what the read brought of it is lost, the rest is a word of its own.
LeftOver(read, rest) ==
    IF Nuls(read) # {} /\ read[Len(read)] \in Word
    THEN {rest} \cup {<<w>> \o rest : w \in Word}
    ELSE {rest}

\* The words before the first line end.  They are one command: when a NUL byte cost
\* the line end between two words, any command may come of them.
FirstLine(s) == {i \in DOMAIN s : s[i] \in Word /\ \A j \in LineEnds(s) : i < j}
Joined(s) ==
    IF \A i, j \in FirstLine(s) : i = j THEN {s}
    ELSE {SubSeq(s, 1, First(FirstLine(s)) - 1) \o <<w>> \o Drop(s, Last(FirstLine(s))) :
            w \in Word}

\* buf[n] = 0 writes behind the buffer when recv() filled it: the process goes
\* on, or dies of it.
Recv ==
    /\ up /\ ~parsing
    /\ \E n \in 1..Len(wire) :
        LET read == SubSeq(wire, 1, n)
        IN  /\ n <= BufSize
            /\ wire' \in LeftOver(read, Drop(wire, n))
            /\ buffer' \in Joined(buffer \o CString(read))
            /\ up' \in IF n = BufSize THEN BOOLEAN ELSE {TRUE}
    /\ text' = buffer' /\ parsing' = TRUE
    /\ UNCHANGED <<gate, sent, nuls>>

--------------------------------------------------------------------------------
(* parseData *)

Pos == First(LineEnds(text))

\* The line keeps its CR.
CurrentLine == SubSeq(text, 1, Pos)

\* Mutant of Method: leading space is not skipped.
FirstSymbol == text[1]

\* buffer_stream >> method skips leading space.
Method ==
    LET words == {i \in 1..Pos : text[i] \notin Space}
    IN  IF words = {} THEN NoWord ELSE text[First(words)]

\* Mutant of Consumed: the line stays.
NotConsumed == text

\* buffer.substr(pos + 2)
Consumed == Drop(text, Pos + 1)

\* A turn of the loop that finds a line.
Turn == up /\ parsing /\ ~close /\ LineEnds(text) # {}

StopClosing ==
    /\ up /\ parsing /\ close
    /\ parsing' = FALSE
    /\ UNCHANGED <<up, wire, buffer, gate, text, sent, nuls>>

\* Mutant of KeepRest: what is left of the buffer is dropped.
ForgetRest ==
    /\ up /\ parsing /\ ~close /\ LineEnds(text) = {}
    /\ buffer' = <<>> /\ parsing' = FALSE
    /\ UNCHANGED <<up, wire, gate, text, sent, nuls>>

KeepRest ==
    /\ up /\ parsing /\ ~close /\ LineEnds(text) = {}
    /\ buffer' = text /\ parsing' = FALSE
    /\ UNCHANGED <<up, wire, gate, text, sent, nuls>>

\* A PASS line is remembered only.
PassOffered ==
    /\ Turn /\ ~reg /\ Method \in PassWord
    /\ preCmd' = Method
    /\ text' = Consumed
    /\ UNCHANGED <<up, wire, buffer, reg, close, handled, parsing, sent, nuls>>

\* Another line after a PASS line: the password is checked now (handlePass), and
\* the line is put in front of the buffer once more.  It has its CR already, so
\* what is cut off the new buffer leaves a LF before the line.
PassChecked ==
    /\ Turn /\ ~reg /\ Method \notin PassWord \cup {"CAP"} /\ preCmd # NoWord
    /\ preCmd' = NoWord
    /\ text' = Drop(CurrentLine \o <<CR, LF>> \o text, Pos + 1)
    /\ IF preCmd = "right" THEN reg' = TRUE /\ UNCHANGED close
       ELSE close' = TRUE /\ UNCHANGED reg
    /\ UNCHANGED <<up, wire, buffer, handled, parsing, sent, nuls>>

\* Mutant of PassMissing: the line is refused, but the connection stays.
PassMissingStays ==
    /\ Turn /\ ~reg /\ Method \notin PassWord \cup {"CAP"} /\ preCmd = NoWord
    /\ text' = Consumed
    /\ UNCHANGED <<up, wire, buffer, gate, parsing, sent, nuls>>

PassMissing ==
    /\ Turn /\ ~reg /\ Method \notin PassWord \cup {"CAP"} /\ preCmd = NoWord
    /\ buffer' = <<>> /\ close' = TRUE /\ parsing' = FALSE
    /\ UNCHANGED <<up, wire, preCmd, reg, handled, text, sent, nuls>>

\* Mutant of Registered: a line after a PASS line is dispatched.
RegisteredOrOffered == reg \/ preCmd # NoWord

Registered == reg

\* CAP passes the gate, and is answered by an empty line.
CapIgnored ==
    /\ Turn /\ ~reg /\ Method = "CAP"
    /\ text' = Consumed
    /\ UNCHANGED <<up, wire, buffer, gate, parsing, sent, nuls>>

Dispatch ==
    /\ Turn /\ Registered /\ Method # "QUIT"
    /\ handled' = Append(handled, Method)
    /\ text' = Consumed
    /\ UNCHANGED <<up, wire, buffer, preCmd, reg, close, parsing, sent, nuls>>

\* QUIT leaves the loop; the buffer keeps what it was at the beginning.
Quit ==
    /\ Turn /\ Registered /\ Method = "QUIT"
    /\ handled' = Append(handled, Method)
    /\ close' = TRUE /\ parsing' = FALSE
    /\ UNCHANGED <<up, wire, buffer, preCmd, reg, text, sent, nuls>>

ParseData ==
    \/ StopClosing \/ KeepRest \/ PassOffered \/ PassChecked \/ PassMissing
    \/ CapIgnored \/ Dispatch \/ Quit

Next == Recv \/ ParseData \/ PeerSendsNul \/ \E w \in Line : PeerSends(w)

\* The loop runs on, and input is received (EventLoop!InputIsReceived).
Spec == Init /\ [][Next]_vars /\ WF_vars(Recv) /\ WF_vars(ParseData)

--------------------------------------------------------------------------------
(* Safety *)

\* The lines that arrived completely
Arrived == SubSeq(sent, 1, Len(sent) - Cardinality({i \in DOMAIN wire : wire[i] = LF}))

\* The first line that is neither PASS nor CAP decides, with the last PASS line
\* before it; from that line on all lines are commands, up to QUIT.
Decisive(l) == {i \in DOMAIN l : l[i] \notin PassWord \cup {"CAP"}}
Offers(l) == {i \in DOMAIN l : l[i] \in PassWord /\ \A j \in Decisive(l) : i < j}
Admitted(l) ==
    Decisive(l) # {} /\ Offers(l) # {} /\ l[Last(Offers(l))] = "right"

Commands(l) ==
    LET quits == {i \in Decisive(l) : l[i] = "QUIT"}
        end == IF quits = {} THEN Len(l) ELSE First(quits)
    IN  IF Admitted(l) THEN SubSeq(l, First(Decisive(l)), end) ELSE <<>>

\* Unless the peer sends NUL bytes: between two reads, the commands that were
\* dispatched and the fate of the connection depend on the complete lines that
\* arrived, and not on how the network cut them: no line is lost, doubled, glued to
\* another or left in the buffer.  (With a NUL byte it depends on the cut what is lost.)
ReadsDoNotMatter ==
    up /\ ~parsing /\ nuls = 0 =>
        /\ handled = Commands(Arrived)
        /\ reg = Admitted(Arrived)
        /\ close = (Decisive(Arrived) # {} /\
                       (Admitted(Arrived) => "QUIT" \in {handled[i] : i \in DOMAIN handled}))

\* No order of PASS, CAP and other lines runs a command without the right password
\* being the last one offered.
Password ==
    INSTANCE Gate WITH
        Command <- Line,
        door <- IF close THEN "shut" ELSE IF reg THEN "open"
                ELSE IF preCmd = NoWord THEN "locked"
                ELSE IF preCmd = "right" THEN "right" ELSE "wrong",
        ran <- handled
ImplementsGate == Password!Spec

\* The loop ends, although it puts lines back into its buffer.
ParseReturns == parsing ~> ~parsing \/ ~up

================================================================================
