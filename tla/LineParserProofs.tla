--------------------------- MODULE LineParserProofs ---------------------------
(***************************************************************************)
(* Type correctness of the line parser, the password gate, and that reads   *)
(* do not matter as long as the peer sends no NUL byte: for reads of any    *)
(* size, any number of lines and any order of them.                         *)
(***************************************************************************)
EXTENDS LineParser, SequenceTheorems, FiniteSetTheorems, FunctionTheorems,
        WellFoundedInduction, TLAPS

ByteSet == Word \cup Space
StreamSet == Word \cup Space \cup {NUL}

--------------------------------------------------------------------------------
(* The operators on the text *)

LEMMA FirstIsLeast ==
    ASSUME NEW S \in SUBSET Nat, S # {}
    PROVE  First(S) \in S /\ \A j \in S : First(S) <= j
<1>1. PICK i \in S : \A j \in S : ~(<<j, i>> \in OpToRel(<, Nat))
  BY NatLessThanWellFounded, WFMin
<1>2. \A j \in S : j < i => <<j, i>> \in OpToRel(<, Nat)
  BY DEF OpToRel
<1>3. \A j \in S : ~(j < i)
  BY <1>1, <1>2
<1>4. \A j \in S : i <= j
  BY <1>3
<1> QED
  BY <1>4 DEF First

LEMMA DropType ==
    ASSUME NEW s \in Seq(ByteSet), NEW n \in Nat PROVE Drop(s, n) \in Seq(ByteSet)
<1>1. Len(s) \in Nat
  OBVIOUS
<1>2. \A i \in (n + 1)..Len(s) : s[i] \in ByteSet
  BY <1>1
<1> QED
  BY <1>1, <1>2, SubSeqProperties DEF Drop

LEMMA SliceType ==
    ASSUME NEW S, NEW s \in Seq(S), NEW m \in Nat \ {0}, NEW n \in Nat, n <= Len(s)
    PROVE  SubSeq(s, m, n) \in Seq(S)
<1>1. \A i \in m..n : s[i] \in S
  <2>1. Len(s) \in Nat
    OBVIOUS
  <2> QED
    BY <2>1
<1> QED
  BY <1>1, SubSeqProperties

\* A line ends inside the text.
LEMMA PosType ==
    ASSUME text \in Seq(ByteSet), LineEnds(text) # {}
    PROVE  Pos \in 1..(Len(text) - 1)
<1>1. LineEnds(text) \in SUBSET Nat /\ LineEnds(text) \subseteq 1..(Len(text) - 1)
  BY DEF LineEnds
<1> QED
  BY <1>1, FirstIsLeast DEF Pos

\* What a line begins with is a word, or nothing.
LEMMA MethodType ==
    ASSUME text \in Seq(ByteSet), LineEnds(text) # {} PROVE Method \in Line
<1> DEFINE words == {i \in 1..Pos : text[i] \notin Space}
<1>1. Pos \in Nat /\ Pos <= Len(text) /\ Len(text) \in Nat
  BY PosType
<1>2. CASE words = {}
  BY <1>2 DEF Method, Line
<1>3. CASE words # {}
  <2>1. words \in SUBSET Nat
    BY <1>1
  <2>2. First(words) \in words
    BY <1>3, <2>1, FirstIsLeast
  <2> HIDE DEF words
  <2>3. Method = text[First(words)]
    BY <1>3 DEF Method, words
  <2>4. First(words) \in 1..Len(text) /\ text[First(words)] \notin Space
    BY <1>1, <2>2 DEF words
  <2>5. text[First(words)] \in ByteSet
    BY <2>4
  <2> QED
    BY <2>3, <2>4, <2>5 DEF Line, ByteSet
<1> QED
  BY <1>2, <1>3

--------------------------------------------------------------------------------
(* Type correctness *)

LEMMA InitTypeOK == Init => TypeOK
<1> SUFFICES ASSUME Init PROVE TypeOK
  OBVIOUS
<1>1. <<>> \in Bytes /\ <<>> \in Stream /\ <<>> \in Seq(Line)
  BY DEF Bytes, Stream
<1> QED
  BY <1>1 DEF Init, TypeOK

LEMMA PeerSendsTypeOK ==
    ASSUME TypeOK, NEW w \in Line, PeerSends(w) PROVE TypeOK'
<1>1. Ended(w) \in Seq(ByteSet) /\ Ended(w) \in Seq(StreamSet)
  <2>1. CASE w = NoWord
    BY <2>1 DEF Ended, ByteSet, StreamSet, Space
  <2>2. CASE w # NoWord
    BY <2>2 DEF Ended, Line, ByteSet, StreamSet, Space
  <2> QED
    BY <2>1, <2>2
<1>2. wire' = wire \o Ended(w) /\ nuls' = nuls
  BY DEF PeerSends
<1>3. wire' \in Stream
  <2>1. wire \in Seq(StreamSet)
    BY DEF TypeOK, Stream, StreamSet
  <2> QED
    BY <1>1, <1>2, <2>1, ConcatProperties DEF Stream, StreamSet
<1>4. nuls' = 0 => wire' \in Bytes
  <2>1. nuls = 0 => wire \in Seq(ByteSet)
    BY DEF TypeOK, Bytes, ByteSet
  <2> QED
    BY <1>1, <1>2, <2>1, ConcatProperties DEF Bytes, ByteSet
<1>5. sent' \in Seq(Line)
  BY DEF PeerSends, TypeOK
<1> QED
  BY <1>2, <1>3, <1>4, <1>5 DEF PeerSends, gate, TypeOK

LEMMA PeerSendsNulTypeOK ==
    ASSUME TypeOK, PeerSendsNul PROVE TypeOK'
<1>1. PICK i \in 0..Len(wire), half \in {<<>>} \cup {<<w>> : w \in Word} :
         wire' = SubSeq(wire, 1, i) \o <<NUL>> \o half \o Drop(wire, i)
  BY DEF PeerSendsNul
<1>2. wire \in Seq(StreamSet) /\ Len(wire) \in Nat /\ i \in Nat /\ i <= Len(wire)
  BY DEF TypeOK, Stream, StreamSet
<1>3. SubSeq(wire, 1, i) \in Seq(StreamSet) /\ Drop(wire, i) \in Seq(StreamSet)
  BY <1>2, SliceType DEF Drop
<1>4. <<NUL>> \in Seq(StreamSet) /\ half \in Seq(StreamSet)
  <2>1. \A x \in StreamSet : <<x>> \in Seq(StreamSet)
    OBVIOUS
  <2>2. NUL \in StreamSet /\ Word \subseteq StreamSet
    BY DEF StreamSet
  <2>3. CASE half = <<>>
    BY <2>1, <2>2, <2>3
  <2>4. CASE half # <<>>
    <3>1. PICK w \in Word : half = <<w>>
      BY <2>4
    <3> QED
      BY <2>1, <2>2, <3>1
  <2> QED
    BY <2>3, <2>4
<1>5. wire' \in Seq(StreamSet)
  BY <1>1, <1>3, <1>4, ConcatProperties
<1>6. nuls' \in Nat /\ nuls' # 0
  BY DEF PeerSendsNul, TypeOK
<1> QED
  BY <1>5, <1>6 DEF PeerSendsNul, gate, TypeOK, Stream, StreamSet

\* What addBuffer is given holds no NUL byte.
LEMMA CStringType ==
    ASSUME NEW s \in Seq(StreamSet)
    PROVE  /\ CString(s) \in Seq(ByteSet)
           /\ s \in Seq(ByteSet) => CString(s) = s /\ Nuls(s) = {}
<1>1. Len(s) \in Nat /\ DOMAIN s = 1..Len(s) /\ Nuls(s) \subseteq 1..Len(s)
  BY DEF Nuls
<1>2. \A i \in 1..Len(s) : i \notin Nuls(s) => s[i] \in ByteSet
  BY <1>1 DEF Nuls, StreamSet, ByteSet
<1>3. CASE Nuls(s) = {}
  <2>1. SubSeq(s, 1, Len(s)) = s
    BY SubSeqFull
  <2>2. SubSeq(s, 1, Len(s)) \in Seq(ByteSet)
    BY <1>1, <1>2, <1>3, SubSeqProperties
  <2> QED
    BY <1>3, <2>1, <2>2 DEF CString
<1>4. CASE Nuls(s) # {}
  <2>1. First(Nuls(s)) \in Nuls(s) /\ \A j \in Nuls(s) : First(Nuls(s)) <= j
    BY <1>1, <1>4, FirstIsLeast
  <2> DEFINE m == First(Nuls(s)) - 1
  <2>2. m \in Nat /\ m <= Len(s) /\ \A i \in 1..m : i \in 1..Len(s) /\ i \notin Nuls(s)
    BY <1>1, <2>1
  <2>3. CString(s) = SubSeq(s, 1, m)
    BY <1>4 DEF CString
  <2> HIDE DEF m
  <2>4. SubSeq(s, 1, m) \in Seq(ByteSet)
    BY <1>2, <2>2, SubSeqProperties
  <2>5. s \notin Seq(ByteSet)
    <3>1. NUL \notin ByteSet
      BY DEF ByteSet, Word, PassWord, Space, NUL, CR, LF
    <3>2. s[First(Nuls(s))] = NUL /\ First(Nuls(s)) \in 1..Len(s)
      BY <1>1, <2>1 DEF Nuls
    <3> QED
      BY <3>1, <3>2
  <2> QED
    BY <2>3, <2>4, <2>5
<1> QED
  BY <1>3, <1>4

LEMMA LastIsIn ==
    ASSUME NEW s, NEW S \in SUBSET (1..Len(s)), Len(s) \in Nat, S # {} PROVE Last(S) \in S
<1> DEFINE T == {Len(s) - i : i \in S}
<1>1. T \in SUBSET Nat /\ T # {}
  <2>1. \A i \in S : Len(s) - i \in Nat
    OBVIOUS
  <2> QED
    BY <2>1
<1>2. First(T) \in T /\ \A j \in T : First(T) <= j
  <2> HIDE DEF T
  <2> QED
    BY <1>1, FirstIsLeast
<1>3. PICK i \in S : First(T) = Len(s) - i
  BY <1>2
<1>4. \A j \in S : Len(s) - j \in T
  OBVIOUS
<1>5. \A j \in S : Len(s) - i <= Len(s) - j
  <2> HIDE DEF T
  <2> QED
    BY <1>2, <1>3, <1>4
<1>6. \A j \in S : j <= i
  BY <1>5
<1> QED
  BY <1>6 DEF Last

\* Words that run together leave a text.
LEMMA JoinedType ==
    ASSUME NEW s \in Seq(ByteSet), NEW t \in Joined(s) PROVE t \in Seq(ByteSet)
<1>1. Len(s) \in Nat /\ FirstLine(s) \in SUBSET (1..Len(s))
  BY DEF FirstLine
<1>2. CASE \A i, j \in FirstLine(s) : i = j
  BY <1>2 DEF Joined
<1>3. CASE ~ \A i, j \in FirstLine(s) : i = j
  <2>1. PICK w \in Word :
           t = SubSeq(s, 1, First(FirstLine(s)) - 1) \o <<w>> \o Drop(s, Last(FirstLine(s)))
    BY <1>3 DEF Joined
  <2>2. First(FirstLine(s)) \in 1..Len(s) /\ Last(FirstLine(s)) \in 1..Len(s)
    BY <1>1, <1>3, FirstIsLeast, LastIsIn
  <2> DEFINE m == First(FirstLine(s)) - 1
             n == Last(FirstLine(s))
  <2>3. m \in Nat /\ m <= Len(s) /\ n \in Nat
    BY <1>1, <2>2
  <2> HIDE DEF m, n
  <2>4. SubSeq(s, 1, m) \in Seq(ByteSet)
    BY <2>3, SliceType
  <2>5. Drop(s, n) \in Seq(ByteSet) /\ <<w>> \in Seq(ByteSet)
    BY <2>3, DropType DEF ByteSet
  <2>6. SubSeq(s, 1, m) \o <<w>> \o Drop(s, n) \in Seq(ByteSet)
    BY <2>4, <2>5, ConcatProperties
  <2> QED
    BY <2>1, <2>6 DEF m, n
<1> QED
  BY <1>2, <1>3

LEMMA RecvTypeOK ==
    ASSUME TypeOK, Recv PROVE TypeOK'
<1>1. PICK n \in 1..Len(wire) :
         /\ wire' \in LeftOver(SubSeq(wire, 1, n), Drop(wire, n))
         /\ buffer' \in Joined(buffer \o CString(SubSeq(wire, 1, n)))
         /\ up' \in IF n = BufSize THEN BOOLEAN ELSE {TRUE}
  BY DEF Recv
<1> DEFINE read == SubSeq(wire, 1, n)
           rest == Drop(wire, n)
<1>2. /\ wire \in Seq(StreamSet) /\ buffer \in Seq(ByteSet)
      /\ Len(wire) \in Nat /\ n \in Nat /\ n <= Len(wire)
  BY DEF TypeOK, Stream, StreamSet, Bytes, ByteSet
<1>3. read \in Seq(StreamSet) /\ rest \in Seq(StreamSet)
  BY <1>2, SliceType DEF Drop
<1>4. wire' \in Stream
  <2> HIDE DEF read, rest
  <2>1. wire' = rest \/ \E w \in Word : wire' = <<w>> \o rest
    BY <1>1 DEF LeftOver, read, rest
  <2>2. \A w \in Word : <<w>> \in Seq(StreamSet)
    BY DEF StreamSet
  <2>3. \A w \in Word : <<w>> \o rest \in Seq(StreamSet)
    BY <1>3, <2>2, ConcatProperties
  <2> QED
    BY <1>3, <2>1, <2>3 DEF Stream, StreamSet
<1>5. nuls' = 0 => wire' \in Bytes
  <2> SUFFICES ASSUME nuls' = 0 PROVE wire' \in Bytes
    OBVIOUS
  <2>1. wire \in Seq(ByteSet)
    BY DEF Recv, TypeOK, Bytes, ByteSet
  <2>2. read \in Seq(ByteSet) /\ rest \in Seq(ByteSet)
    BY <1>2, <2>1, SliceType DEF Drop
  <2>3. Nuls(read) = {}
    <3> HIDE DEF read
    <3> QED
      BY <1>3, <2>2, CStringType
  <2>4. wire' = rest
    BY <1>1, <2>3 DEF LeftOver
  <2> QED
    BY <2>2, <2>4 DEF Bytes, ByteSet
<1>6. buffer' \in Seq(ByteSet)
  <2> HIDE DEF read, rest
  <2>1. buffer \o CString(read) \in Seq(ByteSet)
    BY <1>2, <1>3, CStringType, ConcatProperties
  <2> QED
    BY <1>1, <2>1, JoinedType DEF read
<1>7. up' \in BOOLEAN
  BY <1>1
<1> QED
  BY <1>4, <1>5, <1>6, <1>7 DEF Recv, gate, TypeOK, Bytes, ByteSet

\* The text of the next turn of the loop is one of words and line ends again.
LEMMA TextType ==
    ASSUME TypeOK, LineEnds(text) # {}
    PROVE  /\ Consumed \in Seq(ByteSet)
           /\ Drop(CurrentLine \o <<CR, LF>> \o text, Pos + 1) \in Seq(ByteSet)
           /\ Method \in Line
<1>1. text \in Seq(ByteSet) /\ Len(text) \in Nat
  BY DEF TypeOK, Bytes, ByteSet
<1>2. Pos \in Nat /\ Pos <= Len(text)
  BY <1>1, PosType
<1>3. Consumed \in Seq(ByteSet)
  BY <1>1, <1>2, DropType DEF Consumed
<1>4. CurrentLine \in Seq(ByteSet)
  <2>1. \A i \in 1..Pos : text[i] \in ByteSet
    BY <1>1, <1>2
  <2> QED
    BY <1>2, <2>1, SubSeqProperties DEF CurrentLine
<1>5. <<CR, LF>> \in Seq(ByteSet)
  BY DEF ByteSet, Space
<1>6. CurrentLine \o <<CR, LF>> \o text \in Seq(ByteSet)
  BY <1>1, <1>4, <1>5, ConcatProperties
<1>7. Drop(CurrentLine \o <<CR, LF>> \o text, Pos + 1) \in Seq(ByteSet)
  <2> HIDE DEF CurrentLine, Pos
  <2>1. Pos + 1 \in Nat
    BY <1>2
  <2> QED
    BY <1>6, <2>1, DropType
<1>8. Method \in Line
  BY <1>1, MethodType
<1> QED
  BY <1>3, <1>7, <1>8

LEMMA ParseDataTypeOK ==
    ASSUME TypeOK, ParseData PROVE TypeOK'
<1>1. CASE StopClosing \/ KeepRest \/ PassMissing
  <2>1. buffer' \in Bytes
    <3>1. CASE StopClosing
      BY <3>1 DEF StopClosing, TypeOK
    <3>2. CASE KeepRest
      BY <3>2 DEF KeepRest, TypeOK
    <3>3. CASE PassMissing
      <4>1. <<>> \in Bytes
        BY DEF Bytes
      <4> QED
        BY <3>3, <4>1 DEF PassMissing
    <3> QED
      BY <1>1, <3>1, <3>2, <3>3
  <2>2. close' \in BOOLEAN /\ UNCHANGED <<up, wire, preCmd, reg, handled, text, sent, nuls>>
    BY <1>1 DEF StopClosing, KeepRest, PassMissing, gate, TypeOK
  <2>3. parsing' = FALSE
    BY <1>1 DEF StopClosing, KeepRest, PassMissing
  <2> QED
    BY <2>1, <2>2, <2>3 DEF TypeOK
<1>2. ASSUME LineEnds(text) # {},
             text' \in {Consumed, Drop(CurrentLine \o <<CR, LF>> \o text, Pos + 1)}
      PROVE  text' \in Bytes
  BY <1>2, TextType DEF Bytes, ByteSet
<1>3. CASE PassOffered \/ CapIgnored
  BY <1>2, <1>3 DEF PassOffered, CapIgnored, Turn, gate, TypeOK
<1>4. CASE PassChecked
  BY <1>2, <1>4 DEF PassChecked, Turn, gate, TypeOK
<1>5. CASE Dispatch \/ Quit
  <2>1. handled' = Append(handled, Method) /\ Method \in Line
    BY <1>5, TextType DEF Dispatch, Quit, Turn
  <2>2. handled' \in Seq(Line)
    BY <2>1 DEF TypeOK
  <2> QED
    BY <1>2, <1>5, <2>2 DEF Dispatch, Quit, Turn, gate, TypeOK
<1> QED
  BY <1>1, <1>3, <1>4, <1>5 DEF ParseData

LEMMA NextTypeOK ==
    ASSUME TypeOK, [Next]_vars PROVE TypeOK'
<1>1. CASE UNCHANGED vars
  BY <1>1 DEF vars, gate, TypeOK
<1> QED
  BY <1>1, PeerSendsTypeOK, PeerSendsNulTypeOK, RecvTypeOK, ParseDataTypeOK DEF Next

\* The parser keeps to its types: what it takes for the command of a line is a word of
\* the stream, or nothing, whatever it cut off and put back.
THEOREM ParserTypeCorrect == Spec => []TypeOK
<1>1. Init => TypeOK
  BY InitTypeOK
<1>2. TypeOK /\ [Next]_vars => TypeOK'
  BY NextTypeOK
<1> QED
  BY <1>1, <1>2, PTL DEF Spec

--------------------------------------------------------------------------------
(* The password gate *)

LEMMA NextPassesGate ==
    ASSUME TypeOK, [Next]_vars
    PROVE  [Password!Offer \/ Password!Open \/ Password!Refuse \/ Password!Run]_(Password!vars)
<1>1. CASE UNCHANGED gate
  BY <1>1 DEF gate, Password!vars
<1>2. CASE PassOffered
  BY <1>2 DEF PassOffered, Turn, PassWord, NoWord, Password!Offer
<1>3. CASE PassChecked
  BY <1>3 DEF PassChecked, Turn, NoWord, Password!Open, Password!Refuse
<1>4. CASE PassMissing
  BY <1>4 DEF PassMissing, Turn, Password!Refuse
<1>5. CASE Dispatch \/ Quit
  <2>1. Method \in Line
    BY <1>5, TextType DEF Dispatch, Quit, Turn
  <2> QED
    BY <1>5, <2>1 DEF Dispatch, Quit, Turn, Registered, Password!Run
<1> QED
  BY <1>1, <1>2, <1>3, <1>4, <1>5
  DEF Next, vars, PeerSends, PeerSendsNul, Recv, ParseData, StopClosing, KeepRest, CapIgnored, gate

\* In whatever order PASS, CAP and other lines arrive, and however they are cut: a
\* command runs only behind a password that was right and was the last one offered.
THEOREM PasswordGate == Spec => ImplementsGate
<1>1. Init => Password!Init
  BY DEF Init, Password!Init
<1>2. TypeOK /\ [Next]_vars
        => [Password!Offer \/ Password!Open \/ Password!Refuse \/ Password!Run]_(Password!vars)
  BY NextPassesGate
<1> QED
  BY <1>1, <1>2, ParserTypeCorrect, PTL DEF Spec, ImplementsGate, Password!Spec

--------------------------------------------------------------------------------
(* What is left of a sequence, and its line ends *)

LEMMA DropProperties ==
    ASSUME NEW s \in Seq(ByteSet), NEW n \in 0..Len(s)
    PROVE  /\ Drop(s, n) \in Seq(ByteSet)
           /\ Len(Drop(s, n)) = Len(s) - n
           /\ \A i \in 1..(Len(s) - n) : Drop(s, n)[i] = s[n + i]
<1>1. Len(s) \in Nat /\ n \in Nat
  OBVIOUS
<1>2. \A i \in (n + 1)..Len(s) : s[i] \in ByteSet
  BY <1>1
<1>3. Drop(s, n) = SubSeq(s, n + 1, Len(s))
  BY DEF Drop
<1>4. n + 1 \in Int /\ Len(s) \in Int
  BY <1>1
<1>5. /\ SubSeq(s, n + 1, Len(s)) \in Seq(ByteSet)
      /\ Len(SubSeq(s, n + 1, Len(s))) = IF n + 1 <= Len(s) THEN Len(s) - (n + 1) + 1 ELSE 0
      /\ \A i \in 1..(Len(s) - (n + 1) + 1) : SubSeq(s, n + 1, Len(s))[i] = s[n + 1 + i - 1]
  BY <1>2, <1>4, SubSeqProperties
<1> QED
  BY <1>1, <1>3, <1>5

LEMMA DropConcat ==
    ASSUME NEW s \in Seq(ByteSet), NEW t \in Seq(ByteSet), NEW n \in 0..Len(s)
    PROVE  Drop(s \o t, n) = Drop(s, n) \o t
<1>1. /\ s \o t \in Seq(ByteSet)
      /\ Len(s \o t) = Len(s) + Len(t)
      /\ \A i \in 1..Len(s) + Len(t) : (s \o t)[i] = IF i <= Len(s) THEN s[i] ELSE t[i - Len(s)]
      /\ Len(s) \in Nat /\ Len(t) \in Nat
  BY ConcatProperties
<1>2. n \in 0..Len(s \o t)
  BY <1>1
<1> DEFINE d == Drop(s \o t, n)
           e == Drop(s, n) \o t
<1>3. d \in Seq(ByteSet) /\ Len(d) = Len(s \o t) - n
      /\ \A i \in 1..(Len(s \o t) - n) : d[i] = (s \o t)[n + i]
  BY <1>1, <1>2, DropProperties
<1>4. /\ Drop(s, n) \in Seq(ByteSet)
      /\ Len(Drop(s, n)) = Len(s) - n
      /\ \A i \in 1..(Len(s) - n) : Drop(s, n)[i] = s[n + i]
  BY DropProperties
<1>5. /\ e \in Seq(ByteSet) /\ Len(e) = Len(Drop(s, n)) + Len(t)
      /\ \A i \in 1..(Len(Drop(s, n)) + Len(t)) :
           e[i] = IF i <= Len(Drop(s, n)) THEN Drop(s, n)[i] ELSE t[i - Len(Drop(s, n))]
  BY <1>4, ConcatProperties
<1>6. ASSUME NEW i \in 1..Len(d) PROVE d[i] = e[i]
  <2> HIDE DEF d, e
  <2>0. i \in Nat /\ i >= 1 /\ i <= Len(s) + Len(t) - n /\ n \in Nat
    BY <1>1, <1>3
  <2>1. CASE i <= Len(s) - n
    BY <2>0, <2>1, <1>1, <1>3, <1>4, <1>5
  <2>2. CASE ~(i <= Len(s) - n)
    <3>1. d[i] = t[n + i - Len(s)]
      BY <2>0, <2>2, <1>1, <1>3
    <3>2. e[i] = t[i - (Len(s) - n)]
      BY <2>0, <2>2, <1>1, <1>4, <1>5
    <3>3. n + i - Len(s) = i - (Len(s) - n)
      BY <2>0, <1>1
    <3> QED
      BY <3>1, <3>2, <3>3
  <2> QED
    BY <2>1, <2>2
<1>7. Len(d) = Len(e)
  <2> HIDE DEF d, e
  <2> QED
    BY <1>1, <1>3, <1>4, <1>5
<1>8. d = e
  <2> HIDE DEF d, e
  <2> QED
    BY <1>3, <1>5, <1>6, <1>7, SeqEqual
<1> QED
  BY <1>8

LEMMA DropDrop ==
    ASSUME NEW s \in Seq(ByteSet), NEW m \in Nat, NEW n \in Nat, m + n <= Len(s)
    PROVE  Drop(Drop(s, m), n) = Drop(s, m + n)
<1>1. Len(s) \in Nat
  OBVIOUS
<1>2. m \in 0..Len(s) /\ m + n \in 0..Len(s)
  BY <1>1
<1>3. /\ Drop(s, m) \in Seq(ByteSet) /\ Len(Drop(s, m)) = Len(s) - m
      /\ \A i \in 1..(Len(s) - m) : Drop(s, m)[i] = s[m + i]
  BY <1>2, DropProperties
<1>4. n \in 0..Len(Drop(s, m))
  BY <1>1, <1>3
<1> DEFINE d == Drop(Drop(s, m), n)
           e == Drop(s, m + n)
<1>5. /\ d \in Seq(ByteSet) /\ Len(d) = Len(s) - m - n
      /\ \A i \in 1..(Len(s) - m - n) : d[i] = Drop(s, m)[n + i]
  BY <1>3, <1>4, DropProperties
<1>6. /\ e \in Seq(ByteSet) /\ Len(e) = Len(s) - (m + n)
      /\ \A i \in 1..(Len(s) - (m + n)) : e[i] = s[m + n + i]
  BY <1>2, DropProperties
<1>7. Len(d) = Len(e) /\ \A i \in 1..Len(d) : d[i] = e[i]
  <2> HIDE DEF d, e
  <2> QED
    BY <1>1, <1>3, <1>5, <1>6
<1>8. d = e
  <2> HIDE DEF d, e
  <2> QED
    BY <1>5, <1>6, <1>7, SeqEqual
<1> QED
  BY <1>8

LEMMA DropNothing ==
    ASSUME NEW s \in Seq(ByteSet) PROVE Drop(s, 0) = s
BY SubSeqFull DEF Drop

LFs(s) == Cardinality({i \in DOMAIN s : s[i] = LF})

LEMMA LFsType ==
    ASSUME NEW s \in Seq(ByteSet)
    PROVE  LFs(s) \in Nat /\ IsFiniteSet({i \in DOMAIN s : s[i] = LF})
<1>1. Len(s) \in Nat /\ DOMAIN s = 1..Len(s)
  OBVIOUS
<1>2. IsFiniteSet(1..Len(s))
  BY <1>1, FS_Interval
<1>3. IsFiniteSet({i \in DOMAIN s : s[i] = LF})
  BY <1>1, <1>2, FS_Subset
<1> QED
  BY <1>3, FS_CardinalityType DEF LFs

LEMMA LFsConcat ==
    ASSUME NEW s \in Seq(ByteSet), NEW t \in Seq(ByteSet)
    PROVE  LFs(s \o t) = LFs(s) + LFs(t)
<1> DEFINE A == {i \in DOMAIN s : s[i] = LF}
           B == {i \in DOMAIN t : t[i] = LF}
           C == {i \in DOMAIN (s \o t) : (s \o t)[i] = LF}
           D == C \ A
           f == [i \in B |-> i + Len(s)]
<1>1. /\ s \o t \in Seq(ByteSet)
      /\ Len(s \o t) = Len(s) + Len(t)
      /\ \A i \in 1..Len(s) + Len(t) : (s \o t)[i] = IF i <= Len(s) THEN s[i] ELSE t[i - Len(s)]
      /\ Len(s) \in Nat /\ Len(t) \in Nat
      /\ DOMAIN (s \o t) = 1..(Len(s) + Len(t)) /\ DOMAIN s = 1..Len(s) /\ DOMAIN t = 1..Len(t)
  BY ConcatProperties
<1>2. IsFiniteSet(A) /\ IsFiniteSet(B) /\ IsFiniteSet(C)
  BY <1>1, LFsType
<1>3. A \subseteq C
  BY <1>1
<1>4. \A i \in D : i - Len(s) \in B /\ i = i - Len(s) + Len(s)
  BY <1>1
<1>5. \A i \in B : i + Len(s) \in D
  BY <1>1
<1>6. ExistsBijection(B, D)
  <2>1. f \in [B -> D]
    BY <1>5
  <2>2. \A a, b \in B : f[a] = f[b] => a = b
    BY <1>1
  <2>3. \A d \in D : \E b \in B : f[b] = d
    <3> SUFFICES ASSUME NEW d \in D PROVE \E b \in B : f[b] = d
      OBVIOUS
    <3>1. d - Len(s) \in B /\ d = d - Len(s) + Len(s)
      BY <1>4
    <3> HIDE DEF B, D
    <3>2. f[d - Len(s)] = d
      BY <3>1
    <3> QED
      BY <3>1, <3>2
  <2> HIDE DEF f, B, D
  <2>4. f \in Bijection(B, D)
    BY <2>1, <2>2, <2>3, Fun_IsBij
  <2> QED
    BY <2>4, Fun_ExistsBij
<1> HIDE DEF A, B, C
<1>7. Cardinality(D) = Cardinality(B) /\ IsFiniteSet(D)
  BY <1>2, <1>6, FS_Bijection
<1>8. C \cap A = A
  BY <1>3
<1>9. Cardinality(D) = Cardinality(C) - Cardinality(A)
  BY <1>2, <1>8, FS_Difference
<1>10. Cardinality(A) \in Nat /\ Cardinality(B) \in Nat /\ Cardinality(C) \in Nat
  BY <1>2, FS_CardinalityType
<1>11. Cardinality(C) = Cardinality(A) + Cardinality(B)
  <2> HIDE DEF D
  <2> QED
    BY <1>7, <1>9, <1>10
<1> QED
  BY <1>11 DEF LFs, A, B, C

LEMMA EndedIsLine ==
    ASSUME NEW w \in Line
    PROVE  /\ Ended(w) \in Seq(ByteSet)
           /\ Len(Ended(w)) = IF w = NoWord THEN 2 ELSE 3
           /\ w = NoWord => Ended(w)[1] = CR /\ Ended(w)[2] = LF
           /\ w # NoWord => Ended(w)[1] = w /\ Ended(w)[2] = CR /\ Ended(w)[3] = LF
           /\ w # NoWord => w \notin Space
           /\ LFs(Ended(w)) = 1
<1>1. CASE w = NoWord
  <2>1. {i \in DOMAIN Ended(w) : Ended(w)[i] = LF} = {2}
    BY <1>1 DEF Ended, CR, LF
  <2> QED
    BY <1>1, <2>1, FS_Singleton DEF Ended, LFs, ByteSet, Space
<1>2. CASE w # NoWord
  <2>1. w \in Word /\ w # CR /\ w # LF
    BY <1>2 DEF Line, Word, PassWord, CR, LF
  <2>2. {i \in DOMAIN Ended(w) : Ended(w)[i] = LF} = {3}
    BY <1>2, <2>1 DEF Ended, CR, LF
  <2> QED
    BY <1>2, <2>1, <2>2, FS_Singleton DEF Ended, LFs, ByteSet, Space
<1> QED
  BY <1>1, <1>2

LEMMA Split ==
    ASSUME NEW s \in Seq(ByteSet), NEW n \in 0..Len(s)
    PROVE  /\ s = SubSeq(s, 1, n) \o Drop(s, n)
           /\ SubSeq(s, 1, n) \in Seq(ByteSet) /\ Len(SubSeq(s, 1, n)) = n
           /\ \A i \in 1..n : SubSeq(s, 1, n)[i] = s[i]
<1>1. Len(s) \in Nat /\ n \in Nat
  OBVIOUS
<1>2. SubSeq(s, 1, n) \o SubSeq(s, n + 1, Len(s)) = SubSeq(s, 1, Len(s))
  <2>1. 1 \in 1..Len(s) + 1 /\ n \in (1 - 1)..Len(s) /\ Len(s) \in n..Len(s)
    BY <1>1
  <2> QED
    BY <2>1, ConcatAdjacentSubSeq
<1>3. \A i \in 1..n : s[i] \in ByteSet
  BY <1>1
<1>4. /\ SubSeq(s, 1, n) \in Seq(ByteSet)
      /\ Len(SubSeq(s, 1, n)) = IF 1 <= n THEN n - 1 + 1 ELSE 0
      /\ \A i \in 1..(n - 1 + 1) : SubSeq(s, 1, n)[i] = s[1 + i - 1]
  BY <1>1, <1>3, SubSeqProperties
<1>5. SubSeq(s, 1, Len(s)) = s
  BY SubSeqFull
<1>6. Len(SubSeq(s, 1, n)) = n /\ \A i \in 1..n : SubSeq(s, 1, n)[i] = s[i]
  BY <1>1, <1>4
<1> QED
  BY <1>2, <1>4, <1>5, <1>6 DEF Drop

--------------------------------------------------------------------------------
(* Bytes that spell lines *)

\* Behind the first p bytes, s has line w, which ends with byte q.
LineIs(s, p, w, q) ==
    IF w = NoWord THEN q = p + 2 /\ s[p + 1] = CR /\ s[p + 2] = LF
    ELSE q = p + 3 /\ s[p + 1] = w /\ s[p + 2] = CR /\ s[p + 3] = LF

\* A line is where its bytes are.
LEMMA LineMoved ==
    ASSUME NEW s, NEW t, NEW p \in Nat, NEW q, NEW w, LineIs(s, p, w, q),
           NEW r \in Int, \A j \in (p + 1)..(p + 3) : j <= q => t[j + r] = s[j]
    PROVE  LineIs(t, p + r, w, q + r)
<1>1. CASE w = NoWord
  <2>1. q = p + 2 /\ s[p + 1] = CR /\ s[p + 2] = LF
    BY <1>1 DEF LineIs
  <2>2. t[p + 1 + r] = CR /\ t[p + 2 + r] = LF
    BY <2>1
  <2>3. p + 1 + r = p + r + 1 /\ p + 2 + r = p + r + 2
    OBVIOUS
  <2>4. t[p + r + 1] = CR /\ t[p + r + 2] = LF
    BY <2>2, <2>3
  <2> QED
    BY <1>1, <2>1, <2>4 DEF LineIs
<1>2. CASE w # NoWord
  <2>1. q = p + 3 /\ s[p + 1] = w /\ s[p + 2] = CR /\ s[p + 3] = LF
    BY <1>2 DEF LineIs
  <2>2. t[p + 1 + r] = w /\ t[p + 2 + r] = CR /\ t[p + 3 + r] = LF
    BY <2>1
  <2>3. p + 1 + r = p + r + 1 /\ p + 2 + r = p + r + 2 /\ p + 3 + r = p + r + 3
    OBVIOUS
  <2>4. t[p + r + 1] = w /\ t[p + r + 2] = CR /\ t[p + r + 3] = LF
    BY <2>2, <2>3
  <2> QED
    BY <1>2, <2>1, <2>4 DEF LineIs
<1> QED
  BY <1>1, <1>2

\* s is the lines of l from the one behind the first a on: f[i] is where line i ends.
Ends(f, s, l, a) ==
    /\ f \in [a..Len(l) -> Nat]
    /\ f[a] = 0 /\ f[Len(l)] = Len(s)
    /\ \A i \in (a + 1)..Len(l) : LineIs(s, f[i - 1], l[i], f[i])
    /\ \A i, j \in a..Len(l) : i <= j => f[i] <= f[j]
Spells(s, l, a) == LFs(s) = Len(l) - a /\ \E f : Ends(f, s, l, a)

LEMMA SpellsNothing == Spells(<<>>, <<>>, 0)
<1>1. Ends([i \in 0..0 |-> 0], <<>>, <<>>, 0)
  BY DEF Ends
<1>2. LFs(<<>>) = 0
  <2>1. {i \in DOMAIN <<>> : <<>>[i] = LF} = {}
    OBVIOUS
  <2> QED
    BY <2>1, FS_EmptySet DEF LFs
<1> QED
  BY <1>1, <1>2 DEF Spells

LEMMA SpellsLine ==
    ASSUME NEW s \in Seq(ByteSet), NEW l \in Seq(Line), NEW a \in 0..Len(l),
           Spells(s, l, a), s # <<>>
    PROVE  a < Len(l)
<1>1. Len(s) \in Nat /\ Len(s) # 0 /\ Len(l) \in Nat /\ a \in Nat
  OBVIOUS
<1>2. PICK f : Ends(f, s, l, a)
  BY DEF Spells
<1> QED
  BY <1>1, <1>2 DEF Ends

\* One line more at the end
LEMMA SpellsMore ==
    ASSUME NEW s \in Seq(ByteSet), NEW l \in Seq(Line), NEW a \in 0..Len(l),
           Spells(s, l, a), NEW w \in Line
    PROVE  Spells(s \o Ended(w), Append(l, w), a)
<1> DEFINE m == Append(l, w)
           e == Ended(w)
           t == s \o e
<1>1. /\ Len(s) \in Nat /\ Len(l) \in Nat /\ a \in Nat /\ a <= Len(l)
      /\ Len(m) = Len(l) + 1 /\ \A i \in 1..Len(l) : m[i] = l[i]
      /\ m[Len(l) + 1] = w
  BY AppendProperties
<1>2. /\ e \in Seq(ByteSet) /\ Len(e) = IF w = NoWord THEN 2 ELSE 3
      /\ w = NoWord => e[1] = CR /\ e[2] = LF
      /\ w # NoWord => e[1] = w /\ e[2] = CR /\ e[3] = LF
      /\ LFs(e) = 1
  BY EndedIsLine
<1>3. /\ Len(t) = Len(s) + Len(e)
      /\ \A i \in 1..Len(s) + Len(e) : t[i] = IF i <= Len(s) THEN s[i] ELSE e[i - Len(s)]
  BY <1>2, ConcatProperties
<1>4. LFs(t) = Len(m) - a
  <2>1. LFs(t) = LFs(s) + LFs(e)
    BY <1>2, LFsConcat
  <2> QED
    BY <1>1, <1>2, <2>1 DEF Spells
<1>5. PICK f : Ends(f, s, l, a)
  BY DEF Spells
<1> DEFINE g == [i \in a..Len(m) |-> IF i <= Len(l) THEN f[i] ELSE Len(t)]
<1> HIDE DEF m, e, t
<1>6. g \in [a..Len(m) -> Nat]
  BY <1>1, <1>2, <1>3, <1>5 DEF Ends
<1>7. g[a] = 0 /\ g[Len(m)] = Len(t)
  BY <1>1, <1>5 DEF Ends
<1>8. ASSUME NEW i \in (a + 1)..Len(m) PROVE LineIs(t, g[i - 1], m[i], g[i])
  <2>1. CASE i <= Len(l)
    <3>1. g[i - 1] = f[i - 1] /\ g[i] = f[i] /\ m[i] = l[i] /\ i \in (a + 1)..Len(l)
      BY <1>1, <2>1
    <3>2. LineIs(s, f[i - 1], l[i], f[i]) /\ f[i - 1] \in Nat /\ f[i] <= Len(s)
      BY <1>1, <1>5, <3>1 DEF Ends
    <3>3. ASSUME NEW j \in 1..Len(s) PROVE t[j + 0] = s[j]
      <4>1. j \in 1..Len(s) + Len(e) /\ j <= Len(s) /\ j + 0 = j
        BY <1>1, <1>2
      <4> QED
        BY <4>1, <1>3
    <3> DEFINE p == f[i - 1]
               q == f[i]
               r == 0
    <3>4. /\ p \in Nat /\ q \in Nat /\ r \in Int /\ p + r = p /\ q + r = q
          /\ \A j \in (p + 1)..(p + 3) : j <= q => t[j + r] = s[j]
      <4>1. p \in Nat /\ q \in Nat /\ q <= Len(s)
        <5>1. f \in [a..Len(l) -> Nat] /\ i \in a..Len(l)
          BY <1>1, <1>5, <3>1 DEF Ends
        <5> QED
          BY <3>2, <5>1
      <4>2. ASSUME NEW j \in (p + 1)..(p + 3), j <= q PROVE t[j + r] = s[j]
        <5>1. j \in 1..Len(s)
          BY <1>1, <4>1, <4>2
        <5> QED
          BY <3>3, <5>1
      <4> QED
        BY <4>1, <4>2
    <3>5. LineIs(s, p, l[i], q)
      BY <3>2
    <3> HIDE DEF p, q, r
    <3>6. LineIs(t, p + r, l[i], q + r)
      BY <3>4, <3>5, LineMoved
    <3> QED
      BY <3>1, <3>4, <3>6 DEF p, q
  <2>2. CASE ~(i <= Len(l))
    <3>1. i = Len(l) + 1 /\ g[i] = Len(t) /\ m[i] = w
      BY <1>1, <2>2
    <3>2. g[i - 1] = Len(s)
      BY <1>1, <1>5, <3>1 DEF Ends
    <3>3. \A j \in (0 + 1)..(0 + 3) : j <= Len(e) => t[j + Len(s)] = e[j]
      <4> SUFFICES ASSUME NEW j \in 1..3, j <= Len(e) PROVE t[j + Len(s)] = e[j]
        OBVIOUS
      <4>1. Len(e) \in Nat /\ ~(j + Len(s) <= Len(s)) /\ j + Len(s) - Len(s) = j
        BY <1>1, <1>2
      <4>2. j + Len(s) \in 1..Len(s) + Len(e)
        BY <1>1, <4>1
      <4> QED
        BY <1>3, <4>1, <4>2
    <3>4. LineIs(e, 0, w, Len(e))
      BY <1>2 DEF LineIs
    <3> DEFINE p == 0
    <3>5. LineIs(t, p + Len(s), w, Len(e) + Len(s))
      <4>1. /\ p \in Nat /\ Len(s) \in Int /\ LineIs(e, p, w, Len(e))
            /\ \A j \in (p + 1)..(p + 3) : j <= Len(e) => t[j + Len(s)] = e[j]
        BY <1>1, <3>3, <3>4
      <4> HIDE DEF p
      <4> QED
        BY <4>1, LineMoved
    <3>6. 0 + Len(s) = Len(s) /\ Len(e) + Len(s) = Len(t)
      BY <1>1, <1>2, <1>3
    <3> QED
      BY <3>1, <3>2, <3>5, <3>6
  <2> QED
    BY <2>1, <2>2
<1>9. ASSUME NEW i \in a..Len(m), NEW j \in a..Len(m), i <= j PROVE g[i] <= g[j]
  <2>1. \A k \in a..Len(l) : f[k] \in Nat /\ f[k] <= Len(s)
    <3>1. /\ f \in [a..Len(l) -> Nat] /\ f[Len(l)] = Len(s)
          /\ \A k1, k2 \in a..Len(l) : k1 <= k2 => f[k1] <= f[k2]
      BY <1>5 DEF Ends
    <3>2. Len(l) \in a..Len(l) /\ \A k \in a..Len(l) : k <= Len(l)
      BY <1>1
    <3> QED
      BY <3>1, <3>2
  <2>2. CASE j <= Len(l)
    <3>1. i <= Len(l) /\ i \in a..Len(l) /\ j \in a..Len(l)
      BY <1>1, <1>9, <2>2
    <3>2. f[i] <= f[j]
      BY <1>5, <1>9, <3>1 DEF Ends
    <3> QED
      BY <1>1, <1>9, <2>2, <3>1, <3>2
  <2>3. CASE ~(j <= Len(l))
    BY <1>1, <1>2, <1>3, <1>9, <2>1, <2>3
  <2> QED
    BY <2>2, <2>3
<1>10. Ends(g, t, m, a)
  <2> HIDE DEF g
  <2> QED
    BY <1>6, <1>7, <1>8, <1>9 DEF Ends
<1> QED
  BY <1>4, <1>10 DEF Spells, m, e, t

\* The first line, and what is left behind it
LEMMA SpellsFirst ==
    ASSUME NEW s \in Seq(ByteSet), NEW l \in Seq(Line), NEW a \in 0..Len(l),
           Spells(s, l, a), a < Len(l)
    PROVE  LET n == Len(Ended(l[a + 1])) IN
           /\ l[a + 1] \in Line
           /\ n <= Len(s)
           /\ \A i \in 1..n : s[i] = Ended(l[a + 1])[i]
           /\ Spells(Drop(s, n), l, a + 1)
<1> DEFINE w == l[a + 1]
           e == Ended(w)
           n == Len(e)
           d == Drop(s, n)
<1>1. /\ Len(s) \in Nat /\ Len(l) \in Nat /\ a \in Nat /\ a + 1 \in 1..Len(l)
      /\ w \in Line
  OBVIOUS
<1>2. /\ e \in Seq(ByteSet) /\ n = IF w = NoWord THEN 2 ELSE 3
      /\ w = NoWord => e[1] = CR /\ e[2] = LF
      /\ w # NoWord => e[1] = w /\ e[2] = CR /\ e[3] = LF
      /\ LFs(e) = 1
  BY <1>1, EndedIsLine
<1>3. PICK f : Ends(f, s, l, a)
  BY DEF Spells
<1> HIDE DEF w, e, n, d
<1>4. LineIs(s, 0, w, f[a + 1]) /\ f[a + 1] <= Len(s)
  <2>1. LineIs(s, f[a + 1 - 1], l[a + 1], f[a + 1]) /\ a + 1 - 1 = a
    BY <1>1, <1>3 DEF Ends
  <2>2. f[a] = 0 /\ f[a + 1] <= f[Len(l)] /\ f[Len(l)] = Len(s)
    BY <1>1, <1>3 DEF Ends
  <2> QED
    BY <2>1, <2>2 DEF w
<1>5. f[a + 1] = n /\ n \in Nat /\ n <= Len(s) /\ \A i \in 1..n : s[i] = e[i]
  <2>1. CASE w = NoWord
    BY <1>2, <1>4, <2>1 DEF LineIs
  <2>2. CASE w # NoWord
    BY <1>2, <1>4, <2>2 DEF LineIs
  <2> QED
    BY <2>1, <2>2
<1>6. /\ d \in Seq(ByteSet) /\ Len(d) = Len(s) - n
      /\ \A i \in 1..(Len(s) - n) : d[i] = s[n + i]
  <2>1. n \in 0..Len(s)
    BY <1>1, <1>5
  <2> QED
    BY <2>1, DropProperties DEF d
<1>7. LFs(d) = Len(l) - (a + 1)
  <2>1. /\ s = SubSeq(s, 1, n) \o d
        /\ SubSeq(s, 1, n) \in Seq(ByteSet) /\ Len(SubSeq(s, 1, n)) = n
        /\ \A i \in 1..n : SubSeq(s, 1, n)[i] = s[i]
    <3>1. n \in 0..Len(s)
      BY <1>1, <1>5
    <3> QED
      BY <3>1, Split DEF d
  <2>2. SubSeq(s, 1, n) = e
    <3>1. Len(SubSeq(s, 1, n)) = Len(e)
      BY <2>1 DEF n
    <3>2. \A i \in 1..Len(SubSeq(s, 1, n)) : SubSeq(s, 1, n)[i] = e[i]
      BY <1>5, <2>1
    <3> QED
      BY <1>2, <2>1, <3>1, <3>2, SeqEqual
  <2>3. LFs(s) = LFs(e) + LFs(d)
    BY <1>2, <1>6, <2>1, <2>2, LFsConcat
  <2>4. LFs(d) \in Nat
    BY <1>6, LFsType
  <2> QED
    BY <1>1, <1>2, <2>3, <2>4 DEF Spells
<1> DEFINE g == [i \in (a + 1)..Len(l) |-> f[i] - n]
<1>8. g \in [(a + 1)..Len(l) -> Nat]
  <2>1. \A i \in (a + 1)..Len(l) : f[i] \in Nat /\ f[i] >= f[a + 1]
    BY <1>1, <1>3 DEF Ends
  <2> QED
    BY <1>5, <2>1
<1>9. g[a + 1] = 0 /\ g[Len(l)] = Len(d)
  <2>1. f[Len(l)] = Len(s) /\ Len(l) \in (a + 1)..Len(l) /\ a + 1 \in (a + 1)..Len(l)
    BY <1>1, <1>3 DEF Ends
  <2> QED
    BY <1>5, <1>6, <2>1
<1>10. ASSUME NEW i \in ((a + 1) + 1)..Len(l) PROVE LineIs(d, g[i - 1], l[i], g[i])
  <2> DEFINE p == f[i - 1]
             q == f[i]
  <2>1. LineIs(s, p, l[i], q) /\ q \in Nat /\ q <= Len(s) /\ p \in Nat /\ p >= n
    BY <1>1, <1>3, <1>5 DEF Ends
  <2>2. g[i - 1] = p + (0 - n) /\ g[i] = q + (0 - n)
    BY <1>1, <1>5, <2>1
  <2> HIDE DEF p, q, g
  <2>3. ASSUME NEW j \in (p + 1)..(p + 3), j <= q PROVE d[j + (0 - n)] = s[j]
    <3>1. j + (0 - n) \in 1..(Len(s) - n) /\ n + (j + (0 - n)) = j
      BY <1>1, <1>5, <2>1, <2>3
    <3> QED
      BY <1>6, <3>1
  <2>4. 0 - n \in Int
    BY <1>5
  <2>5. LineIs(d, p + (0 - n), l[i], q + (0 - n))
    BY <2>1, <2>3, <2>4, LineMoved
  <2> QED
    BY <2>2, <2>5
<1>11. ASSUME NEW i \in (a + 1)..Len(l), NEW j \in (a + 1)..Len(l), i <= j PROVE g[i] <= g[j]
  <2>1. f[i] <= f[j] /\ f[i] \in Nat /\ f[j] \in Nat
    <3>1. i \in a..Len(l) /\ j \in a..Len(l)
      BY <1>1
    <3> HIDE DEF g
    <3> QED
      BY <1>3, <1>11, <3>1 DEF Ends
  <2> QED
    BY <1>5, <2>1
<1>12. Ends(g, d, l, a + 1)
  <2> HIDE DEF g
  <2> QED
    BY <1>8, <1>9, <1>10, <1>11 DEF Ends
<1> QED
  BY <1>1, <1>5, <1>7, <1>12 DEF Spells, w, e, n, d

--------------------------------------------------------------------------------
(* The next line of the text *)

LEMMA FirstIs ==
    ASSUME NEW S \in SUBSET Nat, NEW m \in S, \A j \in S : m <= j
    PROVE  First(S) = m
<1>1. First(S) \in S /\ First(S) <= m /\ m <= First(S)
  BY FirstIsLeast
<1>2. First(S) \in Nat /\ m \in Nat
  BY <1>1
<1> QED
  BY <1>1, <1>2

\* The line that the loop finds is the next line of the peer, also when it was put
\* back behind a LF; and what the loop leaves spells the lines after it.
LEMMA LineFound ==
    ASSUME text \in Seq(ByteSet), wire \in Seq(ByteSet), LineEnds(text) # {},
           NEW k \in {0, 1}, k = 1 => text[1] = LF,
           NEW l \in Seq(Line), NEW a \in 0..Len(l), Spells(Drop(text \o wire, k), l, a)
    PROVE  /\ a < Len(l) /\ Method = l[a + 1]
           /\ Consumed \in Seq(ByteSet)
           /\ Spells(Consumed \o wire, l, a + 1)
           /\ LFs(wire) <= Len(l) - (a + 1)
<1> DEFINE s == Drop(text \o wire, k)
           w == l[a + 1]
           e == Ended(w)
           n == Len(e)
           P == k + n - 1
<1>1. Pos \in 1..(Len(text) - 1) /\ Len(text) \in Nat /\ Len(wire) \in Nat /\ Len(text) >= 2
  BY PosType
<1>2. /\ text \o wire \in Seq(ByteSet) /\ Len(text \o wire) = Len(text) + Len(wire)
      /\ \A i \in 1..Len(text) : (text \o wire)[i] = text[i]
  BY <1>1, ConcatProperties
<1>3. /\ s \in Seq(ByteSet) /\ Len(s) = Len(text) + Len(wire) - k
      /\ \A i \in 1..(Len(text) - k) : s[i] = text[k + i]
  <2>1. k \in 0..Len(text \o wire)
    BY <1>1, <1>2
  <2>2. /\ s \in Seq(ByteSet) /\ Len(s) = Len(text \o wire) - k
        /\ \A i \in 1..(Len(text \o wire) - k) : s[i] = (text \o wire)[k + i]
    BY <1>2, <2>1, DropProperties
  <2> HIDE DEF s
  <2>3. \A i \in 1..(Len(text) - k) :
          i \in 1..(Len(text \o wire) - k) /\ k + i \in 1..Len(text)
    BY <1>1, <1>2
  <2> QED
    BY <1>2, <2>2, <2>3
<1>4. a < Len(l)
  <2>1. s # <<>>
    BY <1>1, <1>3
  <2> HIDE DEF s
  <2> QED
    BY <1>3, <2>1, SpellsLine DEF s
<1>5. /\ w \in Line /\ n <= Len(s) /\ \A i \in 1..n : s[i] = e[i]
      /\ Spells(Drop(s, n), l, a + 1)
  <2> HIDE DEF s
  <2>1. Spells(s, l, a)
    BY DEF s
  <2> QED
    BY <1>3, <1>4, <2>1, SpellsFirst
<1>6. /\ e \in Seq(ByteSet) /\ n = IF w = NoWord THEN 2 ELSE 3
      /\ w = NoWord => e[1] = CR /\ e[2] = LF
      /\ w # NoWord => e[1] = w /\ e[2] = CR /\ e[3] = LF
      /\ w # NoWord => w \notin Space
  BY <1>5, EndedIsLine
<1> HIDE DEF s, w, e, n
<1>7. ASSUME NEW j \in LineEnds(text) PROVE P <= j
  <2>1. j \in 1..(Len(text) - 1) /\ text[j] = CR /\ text[j + 1] = LF
    BY DEF LineEnds
  <2>2. j # k
    BY <2>1 DEF CR, LF
  <2>3. CASE w = NoWord
    BY <1>6, <2>1, <2>2, <2>3
  <2>4. CASE w # NoWord
    <3>1. j # k + 1
      <4> SUFFICES ASSUME j = k + 1 PROVE FALSE
        OBVIOUS
      <4>1. s[1] = text[k + 1]
        <5>1. 1 \in 1..(Len(text) - k)
          BY <1>1, <2>1
        <5> QED
          BY <1>3, <5>1
      <4>2. s[1] = w
        BY <1>5, <1>6, <2>4
      <4> QED
        BY <1>6, <2>1, <2>4, <4>1, <4>2 DEF Space
    <3> QED
      BY <1>6, <2>1, <2>2, <2>4, <3>1
  <2> QED
    BY <2>3, <2>4
<1>8. P \in LineEnds(text)
  <2>1. P <= Pos /\ Pos \in LineEnds(text)
    <3>1. LineEnds(text) \in SUBSET Nat
      BY DEF LineEnds
    <3> QED
      BY <1>7, <3>1, FirstIsLeast DEF Pos
  <2>2. n \in {2, 3} /\ P \in 1..(Len(text) - 1)
    BY <1>1, <1>6, <2>1
  <2>3. s[n - 1] = CR /\ s[n] = LF
    BY <1>5, <1>6
  <2>4. s[n - 1] = text[k + (n - 1)] /\ s[n] = text[k + n]
    <3>1. n - 1 \in 1..(Len(text) - k) /\ n \in 1..(Len(text) - k)
      BY <1>1, <2>2
    <3> QED
      BY <1>3, <3>1
  <2>5. k + (n - 1) = P /\ k + n = P + 1
    BY <2>2
  <2> QED
    BY <2>2, <2>3, <2>4, <2>5 DEF LineEnds
<1>9. Pos = P
  <2>1. LineEnds(text) \in SUBSET Nat
    BY DEF LineEnds
  <2> HIDE DEF P
  <2> QED
    BY <1>7, <1>8, <2>1, FirstIs DEF Pos
<1>10. Method = w
  <2> DEFINE words == {i \in 1..Pos : text[i] \notin Space}
  <2>1. CASE w = NoWord
    <3>1. P = k + 1 /\ s[1] = CR
      BY <1>5, <1>6, <2>1
    <3>2. text[k + 1] = CR
      BY <1>1, <1>3, <3>1
    <3>3. words = {}
      BY <1>9, <3>1, <3>2 DEF Space
    <3> QED
      BY <2>1, <3>3 DEF Method
  <2>2. CASE w # NoWord
    <3>1. P = k + 2 /\ s[1] = w /\ s[2] = CR
      BY <1>5, <1>6, <2>2
    <3>2. text[k + 1] = w /\ text[k + 2] = CR
      <4>1. Len(text) >= P + 1
        BY <1>1, <1>9
      <4>2. 1 \in 1..(Len(text) - k) /\ 2 \in 1..(Len(text) - k)
        BY <1>1, <3>1, <4>1
      <4>3. s[1] = text[k + 1] /\ s[2] = text[k + 2]
        BY <1>3, <4>2
      <4> QED
        BY <3>1, <4>3
    <3>3. words = {k + 1}
      <4>1. w \notin Space /\ CR \in Space /\ Pos = k + 2
        BY <1>6, <1>9, <2>2, <3>1 DEF Space
      <4>2. ASSUME NEW i \in 1..Pos, text[i] \notin Space PROVE i = k + 1
        <5>1. i \in 1..(k + 2) /\ i # k + 2
          BY <3>2, <4>1, <4>2
        <5>2. k \in {0, 1} /\ (k = 1 => text[1] \in Space)
          BY <1>6 DEF Space
        <5> QED
          BY <4>2, <5>1, <5>2
      <4>3. k + 1 \in 1..Pos /\ text[k + 1] \notin Space
        BY <1>6, <3>2, <4>1
      <4> QED
        BY <4>2, <4>3
    <3>4. First(words) = k + 1
      <4>1. words \in SUBSET Nat /\ k + 1 \in words /\ \A j \in words : k + 1 <= j
        BY <3>3
      <4> HIDE DEF words
      <4> QED
        BY <4>1, FirstIs
    <3> QED
      BY <3>2, <3>3, <3>4 DEF Method
  <2> QED
    BY <2>1, <2>2
<1>11. Consumed \in Seq(ByteSet) /\ Consumed \o wire = Drop(s, n)
  <2>1. n \in Nat /\ Pos + 1 = k + n /\ k + n <= Len(text)
    BY <1>1, <1>6, <1>9
  <2>2. k + n \in 0..Len(text) /\ k + n <= Len(text \o wire) /\ k \in Nat
    BY <1>1, <1>2, <2>1
  <2>3. Consumed = Drop(text, k + n)
    BY <2>1 DEF Consumed
  <2>4. Drop(text \o wire, k + n) = Drop(text, k + n) \o wire
    BY <2>2, DropConcat
  <2>5. Drop(Drop(text \o wire, k), n) = Drop(text \o wire, k + n)
    BY <1>2, <2>1, <2>2, DropDrop
  <2> QED
    BY <2>2, <2>3, <2>4, <2>5, DropProperties DEF s
<1>12. LFs(wire) <= Len(l) - (a + 1)
  <2>1. LFs(Consumed \o wire) = Len(l) - (a + 1)
    BY <1>5, <1>11 DEF Spells
  <2>2. /\ LFs(Consumed \o wire) = LFs(Consumed) + LFs(wire)
        /\ LFs(Consumed) \in Nat /\ LFs(wire) \in Nat
    BY <1>11, LFsConcat, LFsType
  <2> QED
    BY <2>1, <2>2
<1> QED
  BY <1>4, <1>5, <1>10, <1>11, <1>12 DEF w

\* What PassChecked makes of the text: the old text behind a LF.
LEMMA PutBack ==
    ASSUME text \in Seq(ByteSet), wire \in Seq(ByteSet), LineEnds(text) # {},
           NEW t, t = Drop(CurrentLine \o <<CR, LF>> \o text, Pos + 1)
    PROVE  /\ t \in Seq(ByteSet) /\ t # <<>> /\ t[1] = LF /\ LineEnds(t) # {}
           /\ Drop(t \o wire, 1) = text \o wire
<1> DEFINE x == CurrentLine \o <<CR, LF>>
<1>1. Pos \in 1..(Len(text) - 1) /\ Len(text) \in Nat
  BY PosType
<1>2. CurrentLine \in Seq(ByteSet) /\ Len(CurrentLine) = Pos
  <2>1. Pos \in 0..Len(text)
    BY <1>1
  <2> QED
    BY <2>1, Split DEF CurrentLine
<1>3. <<CR, LF>> \in Seq(ByteSet) /\ <<LF>> \in Seq(ByteSet)
  BY DEF ByteSet, Space
<1>4. x \in Seq(ByteSet) /\ Len(x) = Pos + 2 /\ x[Pos + 2] = LF
  <2>1. /\ x \in Seq(ByteSet) /\ Len(x) = Len(CurrentLine) + Len(<<CR, LF>>)
        /\ \A i \in 1..(Len(CurrentLine) + Len(<<CR, LF>>)) :
             x[i] = IF i <= Len(CurrentLine) THEN CurrentLine[i]
                    ELSE <<CR, LF>>[i - Len(CurrentLine)]
    BY <1>2, <1>3, ConcatProperties
  <2>2. Len(<<CR, LF>>) = 2 /\ Pos \in Nat
    BY <1>1
  <2> HIDE DEF x
  <2>3. x[Pos + 2] = <<CR, LF>>[Pos + 2 - Pos] /\ Pos + 2 - Pos = 2
    BY <1>2, <2>1, <2>2
  <2> QED
    BY <1>2, <2>1, <2>2, <2>3
<1>5. Drop(x, Pos + 1) = <<LF>>
  <2>1. Pos + 1 \in 0..Len(x)
    BY <1>1, <1>4
  <2> HIDE DEF x
  <2>2. /\ Drop(x, Pos + 1) \in Seq(ByteSet)
        /\ Len(Drop(x, Pos + 1)) = Len(x) - (Pos + 1)
        /\ \A i \in 1..(Len(x) - (Pos + 1)) : Drop(x, Pos + 1)[i] = x[Pos + 1 + i]
    BY <1>4, <2>1, DropProperties
  <2>3. Len(x) - (Pos + 1) = 1 /\ Pos + 1 + 1 = Pos + 2
    BY <1>1, <1>4
  <2>4. Len(Drop(x, Pos + 1)) = 1 /\ Drop(x, Pos + 1)[1] = LF
    <3>1. 1 \in 1..(Len(x) - (Pos + 1))
      BY <2>3
    <3>2. Drop(x, Pos + 1)[1] = x[Pos + 1 + 1]
      BY <2>2, <3>1
    <3> QED
      BY <1>4, <2>2, <2>3, <3>2
  <2>5. Len(<<LF>>) = 1 /\ <<LF>>[1] = LF
    OBVIOUS
  <2>6. \A i \in 1..1 : Drop(x, Pos + 1)[i] = <<LF>>[i]
    BY <2>4, <2>5
  <2> QED
    BY <1>3, <2>2, <2>4, <2>5, <2>6, SeqEqual
<1>6. t = <<LF>> \o text
  <2>1. Pos + 1 \in 0..Len(x)
    BY <1>1, <1>4
  <2> HIDE DEF x
  <2>2. Drop(x \o text, Pos + 1) = Drop(x, Pos + 1) \o text
    BY <1>4, <2>1, DropConcat
  <2> QED
    BY <1>5, <2>2 DEF x
<1>7. /\ t \in Seq(ByteSet) /\ Len(t) = 1 + Len(text)
      /\ t[1] = LF /\ \A i \in 1..Len(text) : t[i + 1] = text[i]
  <2> DEFINE y == <<LF>>
  <2>1. y \in Seq(ByteSet) /\ Len(y) = 1 /\ y[1] = LF /\ t = y \o text
    BY <1>3, <1>6
  <2> HIDE DEF y
  <2>2. /\ t \in Seq(ByteSet) /\ Len(t) = Len(y) + Len(text)
        /\ \A i \in 1..(Len(y) + Len(text)) :
             t[i] = IF i <= Len(y) THEN y[i] ELSE text[i - Len(y)]
    <3> DEFINE z == y \o text
    <3>1. /\ z \in Seq(ByteSet) /\ Len(z) = Len(y) + Len(text)
          /\ \A i \in 1..(Len(y) + Len(text)) :
               z[i] = IF i <= Len(y) THEN y[i] ELSE text[i - Len(y)]
      BY <2>1, ConcatProperties
    <3>2. z = t
      BY <2>1
    <3> HIDE DEF z
    <3> QED
      BY <3>1, <3>2
  <2>3. \A i \in 1..(1 + Len(text)) : t[i] = IF i <= 1 THEN y[i] ELSE text[i - 1]
    BY <2>1, <2>2
  <2>4. 1 \in 1..(1 + Len(text))
    BY <1>1
  <2>5. ASSUME NEW i \in 1..Len(text) PROVE t[i + 1] = text[i]
    <3> DEFINE j == i + 1
    <3>1. j \in 1..(1 + Len(text)) /\ ~(j <= 1) /\ j - 1 = i
      BY <1>1
    <3> HIDE DEF j
    <3>2. t[j] = text[j - 1]
      BY <2>3, <3>1
    <3>3. t[j] = text[i]
      BY <3>1, <3>2
    <3> QED
      BY <3>3 DEF j
  <2>6. t[1] = LF
    <3>1. t[1] = IF 1 <= 1 THEN y[1] ELSE text[1 - 1]
      BY <2>3, <2>4
    <3> QED
      BY <2>1, <3>1
  <2> QED
    BY <2>1, <2>2, <2>5, <2>6
<1>8. Pos + 1 \in LineEnds(t)
  <2>1. LineEnds(text) \in SUBSET Nat
    BY DEF LineEnds
  <2>2. Pos \in LineEnds(text)
    BY <2>1, FirstIsLeast DEF Pos
  <2>3. text[Pos] = CR /\ text[Pos + 1] = LF
    BY <2>2 DEF LineEnds
  <2>4. t[Pos + 1] = CR /\ t[Pos + 1 + 1] = LF
    <3>1. Pos \in 1..Len(text) /\ Pos + 1 \in 1..Len(text)
      BY <1>1
    <3> HIDE DEF Pos
    <3> QED
      BY <1>7, <2>3, <3>1
  <2> HIDE DEF Pos
  <2> QED
    BY <1>1, <1>7, <2>4 DEF LineEnds
<1>9. Drop(t \o wire, 1) = text \o wire
  <2>1. 1 \in 0..Len(t)
    BY <1>1, <1>7
  <2>2. Drop(t \o wire, 1) = Drop(t, 1) \o wire
    BY <1>7, <2>1, DropConcat
  <2>3. /\ Drop(t, 1) \in Seq(ByteSet) /\ Len(Drop(t, 1)) = Len(t) - 1
        /\ \A i \in 1..(Len(t) - 1) : Drop(t, 1)[i] = t[1 + i]
    BY <1>7, <2>1, DropProperties
  <2>4. Len(Drop(t, 1)) = Len(text)
    BY <1>1, <1>7, <2>3
  <2>6. ASSUME NEW i \in 1..Len(Drop(t, 1)) PROVE Drop(t, 1)[i] = text[i]
    <3>1. i \in 1..Len(text) /\ i \in 1..(Len(t) - 1) /\ 1 + i = i + 1
      BY <1>1, <1>7, <2>4
    <3>2. Drop(t, 1)[i] = t[1 + i]
      BY <2>3, <3>1
    <3> QED
      BY <1>7, <3>1, <3>2
  <2>5. Drop(t, 1) = text
    BY <2>3, <2>4, <2>6, SeqEqual
  <2> QED
    BY <2>2, <2>5
<1>10. t # <<>> /\ LineEnds(t) # {}
  <2>1. Len(t) # 0
    BY <1>1, <1>7
  <2> QED
    BY <1>8, <2>1
<1> QED
  BY <1>7, <1>9, <1>10

\* A buffer without a whole line holds no LF: those of the lines to come are on the wire.
LEMMA NoLine ==
    ASSUME NEW s \in Seq(ByteSet), wire \in Seq(ByteSet), LineEnds(s) = {},
           NEW l \in Seq(Line), NEW a \in 0..Len(l), Spells(s \o wire, l, a)
    PROVE  LFs(wire) = Len(l) - a
<1>1. Len(s) \in Nat /\ Len(wire) \in Nat
  OBVIOUS
<1>2. /\ s \o wire \in Seq(ByteSet) /\ Len(s \o wire) = Len(s) + Len(wire)
      /\ \A i \in 1..Len(s) : (s \o wire)[i] = s[i]
  BY <1>1, ConcatProperties
<1>3. {i \in DOMAIN s : s[i] = LF} = {}
  <2>1. CASE s = <<>>
    BY <2>1
  <2>2. CASE s # <<>>
    <3> DEFINE w == l[a + 1]
               e == Ended(w)
               n == Len(e)
    <3>1. s \o wire # <<>>
      BY <1>1, <1>2, <2>2
    <3>2. a < Len(l)
      BY <1>2, <3>1, SpellsLine
    <3>3. w \in Line /\ n <= Len(s \o wire) /\ \A i \in 1..n : (s \o wire)[i] = e[i]
      BY <1>2, <3>2, SpellsFirst
    <3>4. /\ n = IF w = NoWord THEN 2 ELSE 3
          /\ w = NoWord => e[1] = CR /\ e[2] = LF
          /\ w # NoWord => e[1] = w /\ e[2] = CR /\ e[3] = LF
          /\ w # NoWord => w \notin Space
      BY <3>3, EndedIsLine
    <3> HIDE DEF w, e, n
    <3>5. Len(s) < n
      <4> SUFFICES ASSUME ~(Len(s) < n) PROVE FALSE
        OBVIOUS
      <4>1. n \in {2, 3} /\ n <= Len(s) /\ e[n - 1] = CR /\ e[n] = LF
        BY <1>1, <3>4
      <4>2. s[n - 1] = CR /\ s[n - 1 + 1] = LF /\ n - 1 \in 1..(Len(s) - 1)
        BY <1>1, <1>2, <3>3, <4>1
      <4> QED
        BY <4>2 DEF LineEnds
    <3>6. ASSUME NEW i \in 1..Len(s) PROVE s[i] # LF
      <4>1. s[i] = e[i] /\ i \in 1..2 /\ i < n
        BY <1>1, <1>2, <3>3, <3>4, <3>5
      <4>2. CASE w = NoWord
        BY <3>4, <4>1, <4>2 DEF CR, LF
      <4>3. CASE w # NoWord
        BY <3>4, <4>1, <4>3 DEF CR, LF, Space
      <4> QED
        BY <4>2, <4>3
    <3> QED
      BY <3>6
  <2> QED
    BY <2>1, <2>2
<1>4. LFs(s) = 0
  BY <1>3, FS_EmptySet DEF LFs
<1>5. LFs(s \o wire) = LFs(s) + LFs(wire) /\ LFs(wire) \in Nat
  BY LFsConcat, LFsType
<1> QED
  BY <1>4, <1>5 DEF Spells

\* A buffer that is the beginning of lines has one command before its first line end.
LEMMA OneCommand ==
    ASSUME NEW s \in Seq(ByteSet), NEW t \in Seq(ByteSet), NEW l \in Seq(Line),
           NEW a \in 0..Len(l), Spells(s \o t, l, a)
    PROVE  Joined(s) = {s}
<1> SUFFICES ASSUME NEW i \in FirstLine(s) PROVE i = 1
  BY DEF Joined
<1>1. Len(s) \in Nat /\ Len(t) \in Nat
  OBVIOUS
<1>2. i \in 1..Len(s) /\ s[i] \in Word /\ \A j \in LineEnds(s) : i < j
  BY DEF FirstLine
<1>3. /\ s \o t \in Seq(ByteSet) /\ Len(s \o t) = Len(s) + Len(t)
      /\ \A j \in 1..Len(s) : (s \o t)[j] = s[j]
  BY <1>1, ConcatProperties
<1> DEFINE w == l[a + 1]
           e == Ended(w)
           n == Len(e)
<1>4. a < Len(l)
  <2>1. s \o t # <<>>
    BY <1>1, <1>2, <1>3
  <2> QED
    BY <1>3, <2>1, SpellsLine
<1>5. w \in Line /\ n <= Len(s \o t) /\ \A j \in 1..n : (s \o t)[j] = e[j]
  BY <1>3, <1>4, SpellsFirst
<1>6. /\ n = IF w = NoWord THEN 2 ELSE 3
      /\ w = NoWord => e[1] = CR /\ e[2] = LF
      /\ w # NoWord => e[1] = w /\ e[2] = CR /\ e[3] = LF
  BY <1>5, EndedIsLine
<1> HIDE DEF w, e, n
<1>7. i < n
  <2> SUFFICES ASSUME ~(i < n) PROVE FALSE
    OBVIOUS
  <2>1. n \in {2, 3} /\ n <= Len(s) /\ e[n - 1] = CR /\ e[n] = LF
    BY <1>1, <1>2, <1>6
  <2>2. s[n - 1] = CR /\ s[n - 1 + 1] = LF /\ n - 1 \in 1..(Len(s) - 1)
    BY <1>1, <1>3, <1>5, <2>1
  <2>3. i < n - 1
    BY <1>2, <2>2 DEF LineEnds
  <2> QED
    BY <1>2, <2>1, <2>3
<1>8. n = 3 => s[2] = CR \/ i # 2
  <2> SUFFICES ASSUME n = 3, i = 2 PROVE s[2] = CR
    OBVIOUS
  <2>1. 2 \in 1..Len(s) /\ 2 \in 1..n /\ e[2] = CR
    BY <1>2, <1>6
  <2> QED
    BY <1>3, <1>5, <2>1
<1>9. CR \notin Word
  BY DEF CR, Word, PassWord
<1> QED
  BY <1>2, <1>6, <1>7, <1>8, <1>9

--------------------------------------------------------------------------------
(* Prefixes of the lines that were sent *)

Preamble == PassWord \cup {"CAP"}

\* Line d is the first that is neither PASS nor CAP.
Decides(l, d) ==
    d \in 1..Len(l) /\ l[d] \notin Preamble /\ \A i \in 1..(d - 1) : l[i] \in Preamble

\* The last PASS line among the first n is p, or there is none.
LastOffer(l, n, p) ==
    IF p = NoWord THEN \A i \in 1..n : l[i] \notin PassWord
    ELSE \E o \in 1..n : /\ l[o] = p /\ p \in PassWord
                         /\ \A i \in (o + 1)..n : l[i] \notin PassWord

Waiting(l, n, p) == (\A i \in 1..n : l[i] \in Preamble) /\ LastOffer(l, n, p)
Opened(l, d) == Decides(l, d) /\ LastOffer(l, d - 1, "right")
Barred(l, d) == Decides(l, d) /\ \E p \in {NoWord, "wrong", "bare"} : LastOffer(l, d - 1, p)

\* Lines d to e are commands without QUIT.
NoQuit(l, d, e) == \A i \in d..e : l[i] # "QUIT"

LEMMA PrefixGrows ==
    ASSUME NEW l \in Seq(Line), NEW w \in Line, NEW d \in 1..Len(l), NEW n \in 0..Len(l)
    PROVE  LET m == Append(l, w) IN
           /\ Len(m) = Len(l) + 1
           /\ \A p : Waiting(l, n, p) => Waiting(m, n, p)
           /\ Opened(l, d) => Opened(m, d)
           /\ Barred(l, d) => Barred(m, d)
           /\ NoQuit(l, d, n) => NoQuit(m, d, n)
           /\ SubSeq(m, d, n) = SubSeq(l, d, n)
<1> DEFINE m == Append(l, w)
<1>1. /\ Len(m) = Len(l) + 1 /\ \A i \in 1..Len(l) : m[i] = l[i]
      /\ m \in Seq(Line) /\ Len(l) \in Nat
  BY AppendProperties
<1> HIDE DEF m
<1>2. \A j \in 0..Len(l) : \A p : LastOffer(l, j, p) => LastOffer(m, j, p)
  <2> SUFFICES ASSUME NEW j \in 0..Len(l), NEW p, LastOffer(l, j, p) PROVE LastOffer(m, j, p)
    OBVIOUS
  <2>1. \A i \in 1..j : m[i] = l[i]
    BY <1>1
  <2>2. CASE p = NoWord
    BY <2>1, <2>2 DEF LastOffer
  <2>3. CASE p # NoWord
    <3>1. PICK o \in 1..j : l[o] = p /\ p \in PassWord /\ \A i \in (o + 1)..j : l[i] \notin PassWord
      BY <2>3 DEF LastOffer
    <3>2. m[o] = p /\ \A i \in (o + 1)..j : m[i] \notin PassWord
      BY <1>1, <2>1, <3>1
    <3> QED
      BY <2>3, <3>1, <3>2 DEF LastOffer
  <2> QED
    BY <2>2, <2>3
<1>3. Decides(l, d) => Decides(m, d)
  BY <1>1 DEF Decides
<1>4. d - 1 \in 0..Len(l)
  BY <1>1
<1>5. SubSeq(m, d, n) = SubSeq(l, d, n)
  <2>1. CASE n < d
    BY <1>1, <2>1, SubSeqEmpty
  <2>2. CASE d <= n
    <3>1. \A i \in d..n : m[i] = l[i] /\ l[i] \in Line
      BY <1>1
    <3>2. /\ SubSeq(l, d, n) \in Seq(Line) /\ Len(SubSeq(l, d, n)) = n - d + 1
          /\ \A i \in 1..(n - d + 1) : SubSeq(l, d, n)[i] = l[d + i - 1]
      BY <1>1, <2>2, <3>1, SubSeqProperties
    <3>3. /\ SubSeq(m, d, n) \in Seq(Line) /\ Len(SubSeq(m, d, n)) = n - d + 1
          /\ \A i \in 1..(n - d + 1) : SubSeq(m, d, n)[i] = m[d + i - 1]
      BY <1>1, <2>2, <3>1, SubSeqProperties
    <3>4. \A i \in 1..(n - d + 1) : d + i - 1 \in d..n
      BY <1>1
    <3> QED
      BY <3>1, <3>2, <3>3, <3>4, SeqEqual
  <2> QED
    BY <1>1, <2>1, <2>2
<1>6. \A p : Waiting(l, n, p) => Waiting(m, n, p)
  BY <1>1, <1>2 DEF Waiting
<1>7. Opened(l, d) => Opened(m, d)
  BY <1>2, <1>3, <1>4 DEF Opened
<1>8. Barred(l, d) => Barred(m, d)
  BY <1>2, <1>3, <1>4 DEF Barred
<1>9. NoQuit(l, d, n) => NoQuit(m, d, n)
  BY <1>1 DEF NoQuit
<1> QED
  BY <1>1, <1>5, <1>6, <1>7, <1>8, <1>9 DEF m

\* One line more of the preamble
LEMMA WaitingNext ==
    ASSUME NEW l \in Seq(Line), NEW n \in Nat, n < Len(l), NEW p, Waiting(l, n, p)
    PROVE  /\ l[n + 1] \in PassWord => Waiting(l, n + 1, l[n + 1])
           /\ l[n + 1] = "CAP" => Waiting(l, n + 1, p)
           /\ l[n + 1] \notin Preamble /\ p = "right" => Opened(l, n + 1)
           /\ l[n + 1] \notin Preamble /\ p \in {NoWord, "wrong", "bare"} => Barred(l, n + 1)
<1>1. Len(l) \in Nat /\ n + 1 \in 1..Len(l) /\ n + 1 - 1 = n
  OBVIOUS
<1>2. \A i \in 1..(n + 1) : i = n + 1 \/ i \in 1..n
  OBVIOUS
<1>3. ASSUME l[n + 1] \in PassWord PROVE Waiting(l, n + 1, l[n + 1])
  <2>1. \A i \in 1..(n + 1) : l[i] \in Preamble
    BY <1>2, <1>3 DEF Waiting, Preamble
  <2>2. l[n + 1] # NoWord
    BY <1>3 DEF PassWord, NoWord
  <2>3. \A i \in (n + 1 + 1)..(n + 1) : FALSE
    OBVIOUS
  <2> QED
    BY <1>1, <1>3, <2>1, <2>2, <2>3 DEF Waiting, LastOffer
<1>4. ASSUME l[n + 1] = "CAP" PROVE Waiting(l, n + 1, p)
  <2>1. \A i \in 1..(n + 1) : l[i] \in Preamble
    BY <1>2, <1>4 DEF Waiting, Preamble
  <2>2. l[n + 1] \notin PassWord
    BY <1>4 DEF PassWord
  <2>3. CASE p = NoWord
    BY <1>2, <2>1, <2>2, <2>3 DEF Waiting, LastOffer
  <2>4. CASE p # NoWord
    <3>1. PICK o \in 1..n : l[o] = p /\ p \in PassWord /\ \A i \in (o + 1)..n : l[i] \notin PassWord
      BY <2>4 DEF Waiting, LastOffer
    <3>2. \A i \in (o + 1)..(n + 1) : i = n + 1 \/ i \in (o + 1)..n
      OBVIOUS
    <3>3. o \in 1..(n + 1)
      OBVIOUS
    <3> QED
      BY <2>1, <2>2, <2>4, <3>1, <3>2, <3>3 DEF Waiting, LastOffer
  <2> QED
    BY <2>3, <2>4
<1>5. ASSUME l[n + 1] \notin Preamble PROVE Decides(l, n + 1) /\ LastOffer(l, n + 1 - 1, p)
  BY <1>1, <1>5 DEF Waiting, Decides
<1> QED
  BY <1>3, <1>4, <1>5 DEF Opened, Barred

--------------------------------------------------------------------------------
(* What the definitions over the lines make of a prefix *)

LEMMA LastIs ==
    ASSUME NEW S \in SUBSET Nat, NEW m \in S, \A j \in S : j <= m
    PROVE  Last(S) = m
<1>1. \E i \in S : \A j \in S : j <= i
  OBVIOUS
<1>2. Last(S) \in S /\ \A j \in S : j <= Last(S)
  BY <1>1 DEF Last
<1>3. m <= Last(S) /\ Last(S) <= m /\ m \in Nat /\ Last(S) \in Nat
  BY <1>2
<1> QED
  BY <1>3

LEMMA PrefixOf ==
    ASSUME NEW l \in Seq(Line), NEW n \in 0..Len(l), NEW k, k = SubSeq(l, 1, n)
    PROVE  k \in Seq(Line) /\ Len(k) = n /\ DOMAIN k = 1..n /\ \A i \in 1..n : k[i] = l[i]
<1>1. n \in Nat /\ Len(l) \in Nat /\ \A i \in 1..n : l[i] \in Line
  OBVIOUS
<1>2. /\ k \in Seq(Line) /\ Len(k) = IF 1 <= n THEN n - 1 + 1 ELSE 0
      /\ \A i \in 1..(n - 1 + 1) : k[i] = l[1 + i - 1]
  BY <1>1, SubSeqProperties
<1> QED
  BY <1>1, <1>2

LEMMA WaitingPrefix ==
    ASSUME NEW l \in Seq(Line), NEW n \in 0..Len(l), NEW p, Waiting(l, n, p)
    PROVE  LET k == SubSeq(l, 1, n) IN
           Decisive(k) = {} /\ ~Admitted(k) /\ Commands(k) = <<>>
<1> DEFINE k == SubSeq(l, 1, n)
<1>1. DOMAIN k = 1..n /\ \A i \in 1..n : k[i] = l[i]
  BY PrefixOf
<1> HIDE DEF k
<1>2. Decisive(k) = {}
  BY <1>1 DEF Decisive, Waiting, Preamble
<1> QED
  BY <1>2 DEF Admitted, Commands, k

LEMMA DecidedPrefix ==
    ASSUME NEW l \in Seq(Line), NEW n \in 0..Len(l), NEW d \in 1..n, Decides(l, d)
    PROVE  LET k == SubSeq(l, 1, n) IN
           /\ Decisive(k) # {} /\ First(Decisive(k)) = d
           /\ Offers(k) = {i \in 1..(d - 1) : l[i] \in PassWord}
<1> DEFINE k == SubSeq(l, 1, n)
<1>1. DOMAIN k = 1..n /\ \A i \in 1..n : k[i] = l[i]
  BY PrefixOf
<1> HIDE DEF k
<1>2. d \in Decisive(k) /\ Decisive(k) \in SUBSET Nat
  BY <1>1 DEF Decisive, Decides, Preamble
<1>3. \A j \in Decisive(k) : d <= j
  <2> SUFFICES ASSUME NEW j \in Decisive(k), ~(d <= j) PROVE FALSE
    OBVIOUS
  <2>1. j \in 1..n /\ l[j] \notin Preamble
    BY <1>1 DEF Decisive, Preamble
  <2>2. j \in 1..(d - 1)
    BY <2>1
  <2> QED
    BY <2>1, <2>2 DEF Decides
<1>4. First(Decisive(k)) = d
  BY <1>2, <1>3, FirstIs
<1>5. Offers(k) = {i \in 1..(d - 1) : l[i] \in PassWord}
  <2>1. ASSUME NEW i \in Offers(k) PROVE i \in 1..(d - 1) /\ l[i] \in PassWord
    BY <1>1, <1>2 DEF Offers
  <2>2. ASSUME NEW i \in 1..(d - 1), l[i] \in PassWord PROVE i \in Offers(k)
    <3>1. i \in DOMAIN k /\ k[i] \in PassWord
      BY <1>1, <2>2
    <3>2. \A j \in Decisive(k) : i < j
      BY <1>2, <1>3
    <3> QED
      BY <3>1, <3>2 DEF Offers
  <2> QED
    BY <2>1, <2>2
<1> QED
  BY <1>2, <1>4, <1>5 DEF k

LEMMA LastOfOffers ==
    ASSUME NEW l \in Seq(Line), NEW d \in 1..Len(l), NEW p,
           LastOffer(l, d - 1, p), NEW S, S = {i \in 1..(d - 1) : l[i] \in PassWord}
    PROVE  IF p = NoWord THEN S = {} ELSE S # {} /\ l[Last(S)] = p
<1>1. CASE p = NoWord
  BY <1>1 DEF LastOffer
<1>2. CASE p # NoWord
  <2>1. PICK o \in 1..(d - 1) :
           l[o] = p /\ p \in PassWord /\ \A i \in (o + 1)..(d - 1) : l[i] \notin PassWord
    BY <1>2 DEF LastOffer
  <2>2. S \in SUBSET Nat /\ o \in S
    BY <2>1
  <2>3. \A j \in S : j <= o
    BY <2>1
  <2>4. Last(S) = o
    BY <2>2, <2>3, LastIs
  <2> QED
    BY <1>2, <2>1, <2>2, <2>4
<1> QED
  BY <1>1, <1>2

LEMMA BarredPrefix ==
    ASSUME NEW l \in Seq(Line), NEW n \in 0..Len(l), NEW d \in 1..n, Barred(l, d)
    PROVE  LET k == SubSeq(l, 1, n) IN
           Decisive(k) # {} /\ ~Admitted(k) /\ Commands(k) = <<>>
<1> DEFINE k == SubSeq(l, 1, n)
<1>1. Decisive(k) # {} /\ Offers(k) = {i \in 1..(d - 1) : l[i] \in PassWord}
  BY DecidedPrefix DEF Barred
<1>2. PICK p \in {NoWord, "wrong", "bare"} : LastOffer(l, d - 1, p)
  BY DEF Barred
<1>3. DOMAIN k = 1..n /\ (\A i \in 1..n : k[i] = l[i]) /\ d \in 1..Len(l)
  BY PrefixOf
<1>4. IF p = NoWord THEN Offers(k) = {} ELSE Offers(k) # {} /\ l[Last(Offers(k))] = p
  BY <1>1, <1>2, <1>3, LastOfOffers
<1> HIDE DEF k
<1>5. ASSUME p # NoWord PROVE k[Last(Offers(k))] = p
  <2>1. Offers(k) \in SUBSET Nat /\ Offers(k) # {}
    BY <1>1, <1>4, <1>5
  <2>2. Last(Offers(k)) \in 1..n
    <3>1. PICK o \in 1..(d - 1) :
             l[o] = p /\ p \in PassWord /\ \A i \in (o + 1)..(d - 1) : l[i] \notin PassWord
      BY <1>2, <1>5 DEF LastOffer
    <3>2. o \in Offers(k) /\ \A j \in Offers(k) : j <= o
      BY <1>1, <3>1
    <3>3. Last(Offers(k)) = o
      BY <2>1, <3>2, LastIs
    <3> QED
      BY <3>3
  <2> QED
    BY <1>3, <1>4, <1>5, <2>2
<1>6. ~Admitted(k)
  <2>1. CASE p = NoWord
    BY <1>4, <2>1 DEF Admitted
  <2>2. CASE p # NoWord
    BY <1>2, <1>5, <2>2 DEF Admitted, NoWord
  <2> QED
    BY <2>1, <2>2
<1> QED
  BY <1>1, <1>6 DEF Commands, k

\* From the line that opens the door on, the commands are the lines up to a QUIT.
LEMMA OpenedPrefix ==
    ASSUME NEW l \in Seq(Line), NEW n \in 0..Len(l), NEW d \in 1..n, Opened(l, d)
    PROVE  LET k == SubSeq(l, 1, n) IN
           /\ Decisive(k) # {} /\ Admitted(k)
           /\ NoQuit(l, d, n) => Commands(k) = SubSeq(l, d, n)
           /\ \A e \in d..n : l[e] = "QUIT" /\ NoQuit(l, d, e - 1) => Commands(k) = SubSeq(l, d, e)
<1> DEFINE k == SubSeq(l, 1, n)
<1>1. /\ Decisive(k) # {} /\ First(Decisive(k)) = d
      /\ Offers(k) = {i \in 1..(d - 1) : l[i] \in PassWord}
  BY DecidedPrefix DEF Opened
<1>2. /\ k \in Seq(Line) /\ Len(k) = n /\ DOMAIN k = 1..n /\ \A i \in 1..n : k[i] = l[i]
      /\ d \in 1..Len(l) /\ n \in Nat /\ Len(l) \in Nat
  BY PrefixOf
<1>3. \A e \in d..n : SubSeq(k, d, e) = SubSeq(l, d, e)
  <2> SUFFICES ASSUME NEW e \in d..n PROVE SubSeq(k, d, e) = SubSeq(l, d, e)
    OBVIOUS
  <2>1. SubSeq(SubSeq(l, 1, n), d, e) = SubSeq(l, 1 + d - 1, 1 + e - 1)
    <3>1. 1 \in 1..Len(l) /\ n \in 1..Len(l) /\ d \in 1..(n - 1 + 1) /\ e \in 1..(n - 1 + 1)
      BY <1>2
    <3> QED
      BY <3>1, SubSeqOfSubSeq
  <2>2. 1 + d - 1 = d /\ 1 + e - 1 = e
    BY <1>2
  <2> QED
    BY <2>1, <2>2
<1> HIDE DEF k
<1>4. Admitted(k)
  <2>1. PICK o \in 1..(d - 1) :
           l[o] = "right" /\ \A i \in (o + 1)..(d - 1) : l[i] \notin PassWord
    BY DEF Opened, LastOffer, NoWord
  <2>2. Offers(k) \in SUBSET Nat /\ o \in Offers(k) /\ \A j \in Offers(k) : j <= o
    BY <1>1, <2>1 DEF PassWord
  <2>3. Last(Offers(k)) = o
    BY <2>2, LastIs
  <2>4. k[o] = "right"
    BY <1>2, <2>1
  <2> QED
    BY <1>1, <2>2, <2>3, <2>4 DEF Admitted
<1> DEFINE quits == {i \in Decisive(k) : k[i] = "QUIT"}
           end == IF quits = {} THEN Len(k) ELSE First(quits)
<1>5. Commands(k) = SubSeq(k, d, end)
  BY <1>1, <1>4 DEF Commands
<1>6. \A i \in quits : i \in d..n /\ l[i] = "QUIT"
  <2> SUFFICES ASSUME NEW i \in quits PROVE i \in d..n /\ l[i] = "QUIT"
    OBVIOUS
  <2>1. i \in 1..n /\ k[i] = "QUIT" /\ l[i] \notin Preamble
    BY <1>2 DEF Decisive, Preamble
  <2>2. ~(i < d)
    <3> SUFFICES ASSUME i < d PROVE FALSE
      OBVIOUS
    <3>1. i \in 1..(d - 1)
      BY <2>1
    <3> QED
      BY <2>1, <3>1 DEF Opened, Decides
  <2> QED
    BY <1>2, <2>1, <2>2
<1>7. ASSUME NoQuit(l, d, n) PROVE Commands(k) = SubSeq(l, d, n)
  <2>1. quits = {}
    BY <1>6, <1>7 DEF NoQuit
  <2>2. end = n /\ n \in d..n
    BY <1>2, <2>1
  <2> HIDE DEF end
  <2> QED
    BY <1>3, <1>5, <2>2
<1>8. ASSUME NEW e \in d..n, l[e] = "QUIT", NoQuit(l, d, e - 1) PROVE Commands(k) = SubSeq(l, d, e)
  <2>1. e \in quits
    <3>1. e \in 1..n /\ k[e] = "QUIT"
      BY <1>2, <1>8
    <3> QED
      BY <1>2, <3>1 DEF Decisive, PassWord
  <2>2. quits \in SUBSET Nat /\ \A j \in quits : e <= j
    <3>1. ASSUME NEW j \in quits PROVE j \in Nat /\ e <= j
      <4>1. j \in d..n /\ l[j] = "QUIT"
        BY <1>6
      <4>2. j \notin d..(e - 1)
        BY <1>8, <4>1 DEF NoQuit
      <4> QED
        BY <4>1, <4>2
    <3> QED
      BY <3>1
  <2>3. end = e
    <3> HIDE DEF quits
    <3> QED
      BY <2>1, <2>2, FirstIs
  <2> HIDE DEF end
  <2> QED
    BY <1>3, <1>5, <2>3
<1> QED
  BY <1>1, <1>4, <1>7, <1>8 DEF k

LEMMA Glued ==
    ASSUME NEW s \in Seq(ByteSet), NEW t \in Seq(ByteSet), NEW u \in Seq(ByteSet)
    PROVE  s \o (t \o u) = (s \o t) \o u
BY ConcatAssociative

--------------------------------------------------------------------------------
(* The invariant *)

\* What parseData goes on with
Rest == IF parsing THEN text ELSE buffer

\* The bytes that were not parsed are the lines behind the first a; while k = 1 the line
\* that opened the door waits behind a LF.
Aligned(k, a) ==
    /\ k \in {0, 1} /\ a \in 0..Len(sent)
    /\ Spells(Drop(Rest \o wire, k), sent, a)
    /\ k = 1 => parsing /\ text[1] = LF /\ LineEnds(text) # {}
    /\ ~parsing => LineEnds(buffer) = {}

\* What the first a lines made of the client, line d being the one that opened the door
AtDoor(k, a) == k = 0 /\ ~reg /\ handled = <<>> /\ Waiting(sent, a, preCmd)
Inside(k, a, d) ==
    /\ reg /\ d \in 1..Len(sent) /\ Opened(sent, d)
    /\ d - 1 <= a /\ (k = 1 <=> a = d - 1)
    /\ NoQuit(sent, d, a) /\ handled = SubSeq(sent, d, a)

Serving == \E k, a : Aligned(k, a) /\ (AtDoor(k, a) \/ \E d : Inside(k, a, d))

\* Lines that arrived: the LF of the others is on the wire.
ArrivedLines == Len(sent) - LFs(wire)

TurnedAway(d) ==
    ~reg /\ handled = <<>> /\ d \in 1..Len(sent) /\ d <= ArrivedLines /\ Barred(sent, d)
HasQuit(d, e) ==
    /\ reg /\ d \in 1..Len(sent) /\ e \in d..Len(sent) /\ e <= ArrivedLines
    /\ Opened(sent, d) /\ NoQuit(sent, d, e - 1) /\ sent[e] = "QUIT"
    /\ handled = SubSeq(sent, d, e)

Ending == (\E d : TurnedAway(d)) \/ (\E d, e : HasQuit(d, e))

RInv == up => IF close THEN Ending ELSE Serving

\* While the peer sent no NUL byte
CleanRInv == nuls = 0 => RInv

LEMMA InitRInv == Init => RInv
<1> SUFFICES ASSUME Init PROVE Serving
  BY DEF Init, RInv
<1>1. <<>> \in Seq(ByteSet)
  OBVIOUS
<1>2. Rest = <<>> /\ wire = <<>> /\ sent = <<>> /\ <<>> \o <<>> = <<>>
  BY DEF Init, Rest
<1>3. Drop(Rest \o wire, 0) = <<>>
  BY <1>1, <1>2, DropNothing
<1>4. Aligned(0, 0)
  <2>1. LineEnds(<<>>) = {}
    BY DEF LineEnds
  <2> QED
    BY <1>2, <1>3, <2>1, SpellsNothing DEF Aligned, Init
<1>5. AtDoor(0, 0)
  BY DEF AtDoor, Waiting, LastOffer, Init
<1> QED
  BY <1>4, <1>5 DEF Serving

\* A turn of the loop: the next line is taken, and what follows stays aligned.
LEMMA TurnTaken ==
    ASSUME TypeOK, nuls = 0, Turn, NEW k, NEW a, Aligned(k, a)
    PROVE  /\ a \in Nat /\ a < Len(sent) /\ a + 1 \in 1..Len(sent) /\ Method = sent[a + 1]
           /\ a + 1 <= ArrivedLines
           /\ text' = Consumed /\ UNCHANGED <<wire, parsing, sent>> => Aligned(0, a + 1)'
<1>1. /\ text \in Seq(ByteSet) /\ wire \in Seq(ByteSet) /\ sent \in Seq(Line)
      /\ LineEnds(text) # {} /\ parsing /\ Len(sent) \in Nat
  BY DEF TypeOK, Bytes, ByteSet, Turn
<1>2. /\ k \in {0, 1} /\ a \in 0..Len(sent) /\ (k = 1 => text[1] = LF)
      /\ Spells(Drop(text \o wire, k), sent, a)
  BY <1>1 DEF Aligned, Rest
<1>3. /\ a < Len(sent) /\ Method = sent[a + 1]
      /\ Consumed \in Seq(ByteSet)
      /\ Spells(Consumed \o wire, sent, a + 1)
      /\ LFs(wire) <= Len(sent) - (a + 1)
  BY <1>1, <1>2, LineFound
<1>4. a \in Nat /\ a + 1 \in 1..Len(sent) /\ a + 1 \in 0..Len(sent)
  BY <1>1, <1>2, <1>3
<1>5. a + 1 <= ArrivedLines
  <2>1. LFs(wire) \in Nat
    BY <1>1, LFsType
  <2> QED
    BY <1>1, <1>3, <1>4, <2>1 DEF ArrivedLines
<1>6. ASSUME text' = Consumed, UNCHANGED <<wire, parsing, sent>>
      PROVE  Aligned(0, a + 1)'
  <2>1. Rest' = Consumed
    BY <1>1, <1>6 DEF Rest
  <2>2. Drop(Consumed \o wire, 0) = Consumed \o wire
    <3>1. Consumed \o wire \in Seq(ByteSet)
      BY <1>1, <1>3, ConcatProperties
    <3> QED
      BY <3>1, DropNothing
  <2>3. Spells(Drop(Rest \o wire, 0), sent, a + 1)'
    BY <1>3, <1>6, <2>1, <2>2
  <2> QED
    BY <1>1, <1>4, <1>6, <2>3 DEF Aligned
<1> QED
  BY <1>3, <1>4, <1>5, <1>6

LEMMA PeerSendsRInv ==
    ASSUME TypeOK, nuls = 0, RInv, NEW w \in Line, PeerSends(w) PROVE RInv'
<1>1. /\ sent' = Append(sent, w) /\ wire' = wire \o Ended(w)
      /\ UNCHANGED <<up, buffer, preCmd, reg, close, handled, parsing, text>>
      /\ sent \in Seq(Line) /\ Len(sent) \in Nat
      /\ wire \in Seq(ByteSet) /\ text \in Seq(ByteSet) /\ buffer \in Seq(ByteSet)
  BY DEF PeerSends, gate, TypeOK, Bytes, ByteSet
<1>2. Ended(w) \in Seq(ByteSet) /\ LFs(Ended(w)) = 1
  BY EndedIsLine
<1>3. \A d \in 1..Len(sent), n \in 0..Len(sent) :
        /\ \A p : Waiting(sent, n, p) => Waiting(sent', n, p)
        /\ Opened(sent, d) => Opened(sent', d)
        /\ Barred(sent, d) => Barred(sent', d)
        /\ NoQuit(sent, d, n) => NoQuit(sent', d, n)
        /\ SubSeq(sent', d, n) = SubSeq(sent, d, n)
  BY <1>1, PrefixGrows
<1>4. /\ Len(sent') = Len(sent) + 1 /\ \A i \in 1..Len(sent) : sent'[i] = sent[i]
      /\ 1..Len(sent) \subseteq 1..Len(sent') /\ 0..Len(sent) \subseteq 0..Len(sent')
  BY <1>1, AppendProperties
<1>5. ArrivedLines' = ArrivedLines
  <2>1. LFs(wire') = LFs(wire) + 1 /\ LFs(wire) \in Nat
    BY <1>1, <1>2, LFsConcat, LFsType
  <2> QED
    BY <1>1, <1>4, <2>1 DEF ArrivedLines
<1>6. ASSUME Ending PROVE Ending'
  <2>1. CASE \E d : TurnedAway(d)
    <3>1. PICK d : TurnedAway(d)
      BY <2>1
    <3>2. d \in 1..Len(sent') /\ Barred(sent', d) /\ d <= ArrivedLines'
      BY <1>3, <1>4, <1>5, <3>1 DEF TurnedAway
    <3>3. TurnedAway(d)'
      BY <1>1, <3>1, <3>2 DEF TurnedAway
    <3> QED
      BY <3>3 DEF Ending
  <2>2. CASE \E d, e : HasQuit(d, e)
    <3>1. PICK d, e : HasQuit(d, e)
      BY <2>2
    <3>2. d \in 1..Len(sent) /\ e \in d..Len(sent) /\ e \in 0..Len(sent) /\ e - 1 \in 0..Len(sent)
          /\ e \in 1..Len(sent)
      BY <1>1, <3>1 DEF HasQuit
    <3>3. /\ Opened(sent', d) /\ NoQuit(sent', d, e - 1) /\ sent'[e] = "QUIT"
          /\ SubSeq(sent', d, e) = SubSeq(sent, d, e)
      BY <1>3, <1>4, <3>1, <3>2 DEF HasQuit
    <3>4. HasQuit(d, e)'
      BY <1>1, <1>4, <1>5, <3>1, <3>2, <3>3 DEF HasQuit
    <3> QED
      BY <3>4 DEF Ending
  <2> QED
    BY <1>6, <2>1, <2>2 DEF Ending
<1>7. ASSUME NEW k, NEW a, Aligned(k, a) PROVE Aligned(k, a)'
  <2>1. Rest' = Rest /\ Rest \in Seq(ByteSet)
    BY <1>1 DEF Rest
  <2>2. Rest \o wire \in Seq(ByteSet) /\ Len(Rest \o wire) = Len(Rest) + Len(wire)
    BY <1>1, <2>1, ConcatProperties
  <2>3. Rest \o (wire \o Ended(w)) = (Rest \o wire) \o Ended(w)
    BY <1>1, <1>2, <2>1, Glued
  <2>4. k \in 0..Len(Rest \o wire)
    <3>1. CASE k = 0
      BY <2>2, <3>1
    <3>2. CASE k = 1
      <4>1. LineEnds(text) # {} /\ Rest = text
        BY <1>7, <3>2 DEF Aligned, Rest
      <4>2. Len(text) >= 2
        BY <1>1, <4>1, PosType
      <4> QED
        BY <1>1, <2>2, <3>2, <4>1, <4>2
    <3> QED
      BY <1>7, <3>1, <3>2 DEF Aligned
  <2>5. Drop((Rest \o wire) \o Ended(w), k) = Drop(Rest \o wire, k) \o Ended(w)
    BY <1>2, <2>2, <2>4, DropConcat
  <2>6. Drop(Rest \o wire, k) \in Seq(ByteSet)
    BY <2>2, <2>4, DropProperties
  <2>7. Spells(Drop(Rest \o wire, k) \o Ended(w), Append(sent, w), a)
    BY <1>1, <1>7, <2>6, SpellsMore DEF Aligned
  <2>8. Spells(Drop(Rest \o wire, k), sent, a)'
    BY <1>1, <2>1, <2>3, <2>5, <2>7
  <2> QED
    BY <1>1, <1>4, <1>7, <2>8 DEF Aligned
<1>8. ASSUME NEW k, NEW a, Aligned(k, a), AtDoor(k, a) PROVE AtDoor(k, a)'
  <2>1. a \in 0..Len(sent) /\ (sent = <<>> \/ 1 \in 1..Len(sent))
    BY <1>1, <1>8 DEF Aligned
  <2>2. Waiting(sent', a, preCmd)
    <3>1. CASE sent = <<>>
      <4>1. a = 0
        BY <2>1, <3>1
      <4> QED
        BY <1>8, <4>1 DEF AtDoor, Waiting, LastOffer
    <3>2. CASE sent # <<>>
      BY <1>3, <1>8, <2>1, <3>2 DEF AtDoor
    <3> QED
      BY <3>1, <3>2
  <2> QED
    BY <1>1, <1>8, <2>2 DEF AtDoor
<1>9. ASSUME NEW k, NEW a, Aligned(k, a), NEW d, Inside(k, a, d) PROVE Inside(k, a, d)'
  <2>1. a \in 0..Len(sent) /\ d \in 1..Len(sent)
    BY <1>9 DEF Aligned, Inside
  <2>2. Opened(sent', d) /\ NoQuit(sent', d, a) /\ SubSeq(sent', d, a) = SubSeq(sent, d, a)
    BY <1>3, <1>9, <2>1 DEF Inside
  <2> QED
    BY <1>1, <1>4, <1>9, <2>1, <2>2 DEF Inside
<1>10. ASSUME Serving PROVE Serving'
  BY <1>7, <1>8, <1>9, <1>10 DEF Serving
<1> QED
  BY <1>1, <1>6, <1>10 DEF RInv

LEMMA RecvRInv ==
    ASSUME TypeOK, nuls = 0, RInv, Recv PROVE RInv'
<1>1. PICK n \in 1..Len(wire) :
         /\ wire' \in LeftOver(SubSeq(wire, 1, n), Drop(wire, n))
         /\ buffer' \in Joined(buffer \o CString(SubSeq(wire, 1, n)))
  BY DEF Recv
<1>2. /\ up /\ ~parsing /\ text' = buffer' /\ parsing' = TRUE
      /\ UNCHANGED <<preCmd, reg, close, handled, sent>>
  BY DEF Recv, gate
<1>3. /\ wire \in Seq(ByteSet) /\ buffer \in Seq(ByteSet) /\ sent \in Seq(Line)
      /\ n \in 0..Len(wire) /\ Len(sent) \in Nat
  BY DEF TypeOK, Bytes, ByteSet
<1>4. /\ wire = SubSeq(wire, 1, n) \o Drop(wire, n)
      /\ SubSeq(wire, 1, n) \in Seq(ByteSet) /\ Drop(wire, n) \in Seq(ByteSet)
  BY <1>3, Split, DropProperties
<1> DEFINE read == SubSeq(wire, 1, n)
<1>5. CString(read) = read /\ wire' = Drop(wire, n)
  <2>1. read \in Seq(StreamSet) /\ Nuls(read) = {}
    <3>1. read \in Seq(StreamSet)
      <4>1. Seq(ByteSet) \subseteq Seq(StreamSet)
        BY DEF ByteSet, StreamSet
      <4> QED
        BY <1>4, <4>1
    <3> HIDE DEF read
    <3> QED
      BY <1>4, <3>1, CStringType DEF read
  <2> QED
    BY <1>1, <2>1 DEF CString, LeftOver
<1>6. ArrivedLines <= ArrivedLines' /\ ArrivedLines \in Int /\ ArrivedLines' \in Int
  <2>1. /\ LFs(wire) = LFs(SubSeq(wire, 1, n)) + LFs(Drop(wire, n))
        /\ LFs(SubSeq(wire, 1, n)) \in Nat /\ LFs(Drop(wire, n)) \in Nat
    BY <1>4, LFsConcat, LFsType
  <2> QED
    BY <1>2, <1>3, <1>5, <2>1 DEF ArrivedLines
<1>7. ASSUME Ending PROVE Ending'
  <2>1. \A d : TurnedAway(d) => TurnedAway(d)'
    BY <1>2, <1>3, <1>6 DEF TurnedAway
  <2>2. \A d, e : HasQuit(d, e) => HasQuit(d, e)'
    BY <1>2, <1>3, <1>6 DEF HasQuit
  <2> QED
    BY <1>7, <2>1, <2>2 DEF Ending
<1>8. ASSUME Serving PROVE Serving'
  <2>1. PICK k, a : Aligned(k, a) /\ (AtDoor(k, a) \/ \E d : Inside(k, a, d))
    BY <1>8 DEF Serving
  <2>2. k = 0
    BY <1>2, <2>1 DEF Aligned
  <2>3. (buffer \o read) \o Drop(wire, n) = buffer \o wire
    <3> HIDE DEF read
    <3>1. buffer \o (read \o Drop(wire, n)) = (buffer \o read) \o Drop(wire, n)
      BY <1>3, <1>4, Glued DEF read
    <3> QED
      BY <1>4, <3>1 DEF read
  <2>4. buffer' = buffer \o read
    <3>1. buffer \o wire \in Seq(ByteSet) /\ buffer \o read \in Seq(ByteSet)
      BY <1>3, <1>4, ConcatProperties
    <3>2. Drop(buffer \o wire, 0) = buffer \o wire
      BY <3>1, DropNothing
    <3>3. Spells((buffer \o read) \o Drop(wire, n), sent, a) /\ a \in 0..Len(sent)
      BY <1>2, <2>1, <2>2, <2>3, <3>2 DEF Aligned, Rest
    <3> HIDE DEF read
    <3>4. Joined(buffer \o read) = {buffer \o read}
      BY <1>3, <1>4, <3>1, <3>3, OneCommand
    <3> QED
      BY <1>1, <1>5, <3>4 DEF read
  <2>5. Rest' \o wire' = Rest \o wire
    BY <1>2, <1>5, <2>3, <2>4 DEF Rest
  <2>6. Aligned(k, a)'
    BY <1>2, <2>1, <2>2, <2>5 DEF Aligned
  <2>7. AtDoor(k, a) => AtDoor(k, a)'
    BY <1>2 DEF AtDoor
  <2>8. \A d : Inside(k, a, d) => Inside(k, a, d)'
    BY <1>2 DEF Inside
  <2> QED
    BY <2>1, <2>6, <2>7, <2>8 DEF Serving
<1> QED
  BY <1>2, <1>7, <1>8 DEF RInv

\* The loop stops: what it leaves in the buffer holds no whole line.
LEMMA LoopEndsRInv ==
    ASSUME TypeOK, RInv, StopClosing \/ KeepRest PROVE RInv'
<1>1. CASE StopClosing
  <2>1. up /\ close /\ UNCHANGED <<up, close, wire, reg, handled, sent>>
    BY <1>1 DEF StopClosing, gate
  <2>2. Ending => Ending'
    BY <2>1 DEF Ending, TurnedAway, HasQuit, ArrivedLines
  <2> QED
    BY <2>1, <2>2 DEF RInv
<1>2. CASE KeepRest
  <2>1. /\ up /\ ~close /\ parsing /\ LineEnds(text) = {}
        /\ parsing' = FALSE /\ buffer' = text
        /\ UNCHANGED <<up, close, wire, preCmd, reg, handled, sent>>
    BY <1>2 DEF KeepRest, gate
  <2>2. Rest' = Rest
    BY <2>1 DEF Rest
  <2>3. PICK k, a : Aligned(k, a) /\ (AtDoor(k, a) \/ \E d : Inside(k, a, d))
    BY <2>1 DEF RInv, Serving
  <2>4. Aligned(k, a)' /\ k = 0
    BY <2>1, <2>2, <2>3 DEF Aligned
  <2>5. AtDoor(k, a) => AtDoor(k, a)'
    BY <2>1 DEF AtDoor
  <2>6. \A d : Inside(k, a, d) => Inside(k, a, d)'
    BY <2>1 DEF Inside
  <2> QED
    BY <2>1, <2>3, <2>4, <2>5, <2>6 DEF RInv, Serving
<1> QED
  BY <1>1, <1>2

\* Before the door is open, the loop has taken PASS and CAP lines only.
LEMMA DoorRInv ==
    ASSUME TypeOK, nuls = 0, RInv, PassOffered \/ CapIgnored \/ PassMissing \/ PassChecked
    PROVE  RInv'
<1>1. /\ Turn /\ ~reg /\ up /\ ~close /\ parsing /\ LineEnds(text) # {}
      /\ UNCHANGED <<up, wire, sent, handled>>
  BY DEF PassOffered, CapIgnored, PassMissing, PassChecked, Turn, gate
<1>2. PICK k, a : Aligned(k, a) /\ AtDoor(k, a)
  BY <1>1 DEF RInv, Serving, Inside
<1>3. /\ a \in Nat /\ a < Len(sent) /\ a + 1 \in 1..Len(sent) /\ Method = sent[a + 1]
      /\ a + 1 <= ArrivedLines
      /\ text' = Consumed /\ UNCHANGED <<wire, parsing, sent>> => Aligned(0, a + 1)'
  BY <1>1, <1>2, TurnTaken
<1>4. /\ handled = <<>> /\ Waiting(sent, a, preCmd) /\ k = 0
      /\ preCmd \in PassWord \cup {NoWord} /\ sent \in Seq(Line) /\ Len(sent) \in Nat
  BY <1>2 DEF AtDoor, TypeOK
<1>5. /\ sent[a + 1] \in PassWord => Waiting(sent, a + 1, sent[a + 1])
      /\ sent[a + 1] = "CAP" => Waiting(sent, a + 1, preCmd)
      /\ sent[a + 1] \notin Preamble /\ preCmd = "right" => Opened(sent, a + 1)
      /\ sent[a + 1] \notin Preamble /\ preCmd # "right" => Barred(sent, a + 1)
  BY <1>3, <1>4, WaitingNext DEF PassWord
<1>6. CASE PassOffered
  <2>1. /\ Method \in PassWord /\ preCmd' = Method /\ text' = Consumed
        /\ UNCHANGED <<reg, close, parsing>>
    BY <1>6 DEF PassOffered
  <2>2. Aligned(0, a + 1)'
    BY <1>1, <1>3, <2>1
  <2>3. AtDoor(0, a + 1)'
    BY <1>1, <1>3, <1>4, <1>5, <2>1 DEF AtDoor
  <2> QED
    BY <1>1, <2>1, <2>2, <2>3 DEF RInv, Serving
<1>7. CASE CapIgnored
  <2>1. Method = "CAP" /\ text' = Consumed /\ UNCHANGED <<preCmd, reg, close, parsing>>
    BY <1>7 DEF CapIgnored, gate
  <2>2. Aligned(0, a + 1)'
    BY <1>1, <1>3, <2>1
  <2>3. AtDoor(0, a + 1)'
    BY <1>1, <1>3, <1>4, <1>5, <2>1 DEF AtDoor
  <2> QED
    BY <1>1, <2>1, <2>2, <2>3 DEF RInv, Serving
<1>8. ASSUME sent[a + 1] \notin Preamble, preCmd # "right", close', UNCHANGED reg
      PROVE  RInv'
  <2>1. ArrivedLines' = ArrivedLines
    BY <1>1 DEF ArrivedLines
  <2>2. TurnedAway(a + 1)'
    BY <1>1, <1>3, <1>4, <1>5, <1>8, <2>1 DEF TurnedAway
  <2> QED
    BY <1>8, <2>2 DEF RInv, Ending
<1>9. CASE PassMissing
  <2>1. Method \notin Preamble /\ preCmd = NoWord /\ close' /\ UNCHANGED reg
    BY <1>9 DEF PassMissing, Preamble
  <2> QED
    BY <1>3, <1>8, <2>1 DEF NoWord
<1>10. CASE PassChecked
  <2>1. /\ Method \notin Preamble
        /\ text' = Drop(CurrentLine \o <<CR, LF>> \o text, Pos + 1)
        /\ IF preCmd = "right" THEN reg' = TRUE /\ UNCHANGED close
           ELSE close' = TRUE /\ UNCHANGED reg
        /\ UNCHANGED parsing
    BY <1>10 DEF PassChecked, Preamble
  <2>2. CASE preCmd # "right"
    BY <1>3, <1>8, <2>1, <2>2
  <2>3. CASE preCmd = "right"
    <3>1. text \in Seq(ByteSet) /\ wire \in Seq(ByteSet)
      BY DEF TypeOK, Bytes, ByteSet
    <3>2. text'[1] = LF /\ LineEnds(text') # {} /\ Drop(text' \o wire, 1) = text \o wire
      BY <1>1, <2>1, <3>1, PutBack
    <3>3. Drop(text \o wire, 0) = text \o wire
      <4>1. text \o wire \in Seq(ByteSet)
        BY <3>1, ConcatProperties
      <4> QED
        BY <4>1, DropNothing
    <3>4. Aligned(1, a)'
      <4>1. Spells(text \o wire, sent, a) /\ a \in 0..Len(sent)
        BY <1>1, <1>2, <1>4, <3>3 DEF Aligned, Rest
      <4>2. Rest' = text'
        BY <1>1, <2>1 DEF Rest
      <4>3. Spells(Drop(Rest \o wire, 1), sent, a)'
        BY <1>1, <3>2, <4>1, <4>2
      <4> QED
        BY <1>1, <2>1, <3>2, <4>1, <4>3 DEF Aligned
    <3>5. Inside(1, a, a + 1)'
      <4>1. Opened(sent, a + 1)
        BY <1>3, <1>5, <2>1, <2>3
      <4>2. SubSeq(sent, a + 1, a) = <<>>
        BY <1>3, SubSeqEmpty
      <4>3. NoQuit(sent, a + 1, a)
        BY <1>3 DEF NoQuit
      <4> QED
        BY <1>1, <1>3, <1>4, <2>1, <2>3, <4>1, <4>2, <4>3 DEF Inside
    <3> QED
      BY <1>1, <2>1, <2>3, <3>4, <3>5 DEF RInv, Serving
  <2> QED
    BY <2>2, <2>3
<1> QED
  BY <1>6, <1>7, <1>9, <1>10

\* Behind the door, the line that opened it and all that follow are commands.
LEMMA InsideRInv ==
    ASSUME TypeOK, nuls = 0, RInv, Dispatch \/ Quit PROVE RInv'
<1>1. /\ Turn /\ reg /\ up /\ ~close /\ handled' = Append(handled, Method)
      /\ UNCHANGED <<up, wire, sent, reg>>
  BY DEF Dispatch, Quit, Turn, Registered
<1>2. PICK k, a, d : Aligned(k, a) /\ Inside(k, a, d)
  BY <1>1 DEF RInv, Serving, AtDoor
<1>3. /\ a \in Nat /\ a < Len(sent) /\ a + 1 \in 1..Len(sent) /\ Method = sent[a + 1]
      /\ a + 1 <= ArrivedLines
      /\ text' = Consumed /\ UNCHANGED <<wire, parsing, sent>> => Aligned(0, a + 1)'
  BY <1>1, <1>2, TurnTaken
<1>4. /\ d \in 1..Len(sent) /\ d - 1 <= a /\ Opened(sent, d) /\ NoQuit(sent, d, a)
      /\ handled = SubSeq(sent, d, a) /\ sent \in Seq(Line) /\ Len(sent) \in Nat
  BY <1>2 DEF Inside, TypeOK
<1>5. a + 1 \in d..Len(sent) /\ a + 1 - 1 = a
  BY <1>3, <1>4
<1>6. handled' = SubSeq(sent, d, a + 1)
  <2> DEFINE n == a + 1
  <2>3. SubSeq(sent, d, n) = SubSeq(sent, d, n - 1) \o <<sent[n]>>
    <3>1. n \in d..Len(sent)
      BY <1>5
    <3> HIDE DEF n
    <3> QED
      BY <1>4, <3>1, SubSeqRecursiveSecond
  <2>1. SubSeq(sent, d, a + 1) = SubSeq(sent, d, a) \o <<sent[a + 1]>>
    BY <1>3, <1>4, <2>3
  <2>2. Append(handled, Method) = handled \o <<Method>>
    <3>1. handled \in Seq(Line) /\ Method \in Line
      BY <1>3, <1>4 DEF TypeOK
    <3> QED
      BY <3>1, AppendIsConcat
  <2> QED
    BY <1>1, <1>3, <1>4, <1>5, <2>1, <2>2
<1>7. CASE Dispatch
  <2>1. sent[a + 1] # "QUIT" /\ text' = Consumed /\ UNCHANGED <<close, parsing>>
    BY <1>3, <1>7 DEF Dispatch
  <2>2. Aligned(0, a + 1)'
    BY <1>1, <1>3, <2>1
  <2>3. NoQuit(sent, d, a + 1)
    <3>1. \A i \in d..(a + 1) : i = a + 1 \/ i \in d..a
      BY <1>3, <1>4
    <3> QED
      BY <1>4, <2>1, <3>1 DEF NoQuit
  <2>4. Inside(0, a + 1, d)'
    BY <1>1, <1>3, <1>4, <1>6, <2>3 DEF Inside
  <2> QED
    BY <1>1, <2>1, <2>2, <2>4 DEF RInv, Serving
<1>8. CASE Quit
  <2>1. sent[a + 1] = "QUIT" /\ close'
    BY <1>3, <1>8 DEF Quit
  <2>2. ArrivedLines' = ArrivedLines
    BY <1>1 DEF ArrivedLines
  <2>3. HasQuit(d, a + 1)'
    BY <1>1, <1>3, <1>4, <1>5, <1>6, <2>1, <2>2 DEF HasQuit
  <2> QED
    BY <2>1, <2>3 DEF RInv, Ending
<1> QED
  BY <1>7, <1>8

LEMMA NextRInv ==
    ASSUME TypeOK, CleanRInv, [Next]_vars PROVE CleanRInv'
<1>1. CASE UNCHANGED vars
  BY <1>1 DEF vars, gate, CleanRInv, RInv, Ending, Serving, TurnedAway, HasQuit,
              ArrivedLines, Aligned, AtDoor, Inside, Rest
<1>2. CASE PeerSendsNul
  <2>1. nuls' # 0
    BY <1>2 DEF PeerSendsNul, TypeOK
  <2> QED
    BY <2>1 DEF CleanRInv
<1>3. CASE ParseData \/ Recv \/ \E w \in Line : PeerSends(w)
  <2>1. nuls' = nuls
    BY <1>3 DEF Recv, ParseData, PeerSends, StopClosing, KeepRest, PassOffered, PassChecked,
                PassMissing, CapIgnored, Dispatch, Quit
  <2> SUFFICES ASSUME nuls = 0 PROVE RInv'
    BY <2>1 DEF CleanRInv
  <2>2. RInv
    BY DEF CleanRInv
  <2> QED
    BY <1>3, <2>2, PeerSendsRInv, RecvRInv, LoopEndsRInv, DoorRInv, InsideRInv DEF ParseData
<1> QED
  BY <1>1, <1>2, <1>3 DEF Next

LEMMA RInvTellsCommands ==
    ASSUME TypeOK, CleanRInv PROVE ReadsDoNotMatter
<1> SUFFICES ASSUME up, ~parsing, nuls = 0
             PROVE  /\ handled = Commands(Arrived)
                    /\ reg = Admitted(Arrived)
                    /\ close = (Decisive(Arrived) # {} /\
                         (Admitted(Arrived) => "QUIT" \in {handled[i] : i \in DOMAIN handled}))
  BY DEF ReadsDoNotMatter
<1>1. /\ sent \in Seq(Line) /\ Len(sent) \in Nat /\ reg \in BOOLEAN /\ close \in BOOLEAN
      /\ wire \in Seq(ByteSet) /\ buffer \in Seq(ByteSet)
  BY DEF TypeOK, Bytes, ByteSet
<1>2. Arrived = SubSeq(sent, 1, ArrivedLines) /\ LFs(wire) \in Nat
  BY <1>1, LFsType DEF Arrived, ArrivedLines, LFs
<1>3. ASSUME NEW d \in 1..Len(sent), NEW e \in d..Len(sent), handled = SubSeq(sent, d, e)
      PROVE  {handled[i] : i \in DOMAIN handled} = {sent[i] : i \in d..e}
  <2>1. /\ handled \in Seq(Line) /\ Len(handled) = e - d + 1
        /\ \A i \in 1..(e - d + 1) : handled[i] = sent[d + i - 1]
    <3>1. \A i \in d..e : sent[i] \in Line
      BY <1>1
    <3>2. d \in Int /\ e \in Int /\ d <= e
      BY <1>1
    <3> QED
      BY <1>3, <3>1, <3>2, SubSeqProperties
  <2>2. DOMAIN handled = 1..(e - d + 1)
    BY <2>1
  <2>3. \A i \in d..e : i - d + 1 \in DOMAIN handled /\ handled[i - d + 1] = sent[i]
    <3> SUFFICES ASSUME NEW i \in d..e
                 PROVE  i - d + 1 \in DOMAIN handled /\ handled[i - d + 1] = sent[i]
      OBVIOUS
    <3> DEFINE j == i - d + 1
    <3>1. j \in 1..(e - d + 1) /\ d + j - 1 = i
      BY <1>1
    <3> HIDE DEF j
    <3>2. j \in DOMAIN handled /\ handled[j] = sent[i]
      BY <2>1, <2>2, <3>1
    <3> QED
      BY <3>2 DEF j
  <2>4. \A i \in DOMAIN handled : d + i - 1 \in d..e /\ handled[i] = sent[d + i - 1]
    BY <1>1, <2>1, <2>2
  <2>5. \A x \in {sent[i] : i \in d..e} : x \in {handled[i] : i \in DOMAIN handled}
    BY <2>3
  <2>6. \A x \in {handled[i] : i \in DOMAIN handled} : x \in {sent[i] : i \in d..e}
    BY <2>4
  <2> QED
    BY <2>5, <2>6
<1>6. Admitted(Arrived) \in BOOLEAN
  BY DEF Admitted
<1>4. CASE ~close
  <2>1. PICK k, a : Aligned(k, a) /\ (AtDoor(k, a) \/ \E d : Inside(k, a, d))
    BY <1>4 DEF CleanRInv, RInv, Serving
  <2>2. /\ k = 0 /\ a \in 0..Len(sent) /\ LineEnds(buffer) = {}
        /\ Spells(Drop(buffer \o wire, 0), sent, a)
    BY <2>1 DEF Aligned, Rest
  <2>3. Spells(buffer \o wire, sent, a)
    <3>1. buffer \o wire \in Seq(ByteSet)
      BY <1>1, ConcatProperties
    <3> QED
      BY <2>2, <3>1, DropNothing
  <2>4. ArrivedLines = a
    <3>1. LFs(wire) = Len(sent) - a
      BY <1>1, <2>2, <2>3, NoLine
    <3> QED
      BY <1>1, <1>2, <2>2, <3>1 DEF ArrivedLines
  <2>5. CASE AtDoor(k, a)
    <3>1. Decisive(Arrived) = {} /\ ~Admitted(Arrived) /\ Commands(Arrived) = <<>>
      BY <1>1, <1>2, <2>2, <2>4, <2>5, WaitingPrefix DEF AtDoor
    <3> QED
      BY <1>1, <1>4, <1>6, <2>5, <3>1 DEF AtDoor
  <2>6. CASE \E d : Inside(k, a, d)
    <3>1. PICK d : Inside(k, a, d)
      BY <2>6
    <3>2. d \in 1..Len(sent) /\ d \in 1..a /\ a \in d..Len(sent)
      BY <1>1, <2>2, <3>1 DEF Inside
    <3>3. Decisive(Arrived) # {} /\ Admitted(Arrived) /\ Commands(Arrived) = SubSeq(sent, d, a)
      BY <1>1, <1>2, <2>2, <2>4, <3>1, <3>2, OpenedPrefix DEF Inside
    <3>4. "QUIT" \notin {handled[i] : i \in DOMAIN handled}
      <4>1. {handled[i] : i \in DOMAIN handled} = {sent[i] : i \in d..a}
        BY <1>3, <3>1, <3>2 DEF Inside
      <4> QED
        BY <3>1, <4>1 DEF Inside, NoQuit
    <3> QED
      BY <1>1, <1>4, <3>1, <3>3, <3>4 DEF Inside
  <2> QED
    BY <2>1, <2>5, <2>6
<1>5. CASE close
  <2>1. Ending
    BY <1>5 DEF CleanRInv, RInv
  <2>2. ASSUME NEW d \in 1..Len(sent), d <= ArrivedLines
        PROVE  ArrivedLines \in 0..Len(sent) /\ d \in 1..ArrivedLines
    BY <1>1, <1>2, <2>2 DEF ArrivedLines
  <2>3. CASE \E d : TurnedAway(d)
    <3>1. PICK d : TurnedAway(d)
      BY <2>3
    <3>2. Decisive(Arrived) # {} /\ ~Admitted(Arrived) /\ Commands(Arrived) = <<>>
      BY <1>1, <1>2, <2>2, <3>1, BarredPrefix DEF TurnedAway
    <3> QED
      BY <1>1, <1>5, <1>6, <3>1, <3>2 DEF TurnedAway
  <2>4. CASE \E d, e : HasQuit(d, e)
    <3>1. PICK d, e : HasQuit(d, e)
      BY <2>4
    <3>2. d \in 1..Len(sent) /\ e \in d..Len(sent) /\ e <= ArrivedLines
      BY <3>1 DEF HasQuit
    <3>3. ArrivedLines \in 0..Len(sent) /\ d \in 1..ArrivedLines /\ e \in d..ArrivedLines
      BY <1>1, <1>2, <3>2 DEF ArrivedLines
    <3>4. Decisive(Arrived) # {} /\ Admitted(Arrived) /\ Commands(Arrived) = SubSeq(sent, d, e)
      BY <1>1, <1>2, <3>1, <3>3, OpenedPrefix DEF HasQuit
    <3>5. "QUIT" \in {handled[i] : i \in DOMAIN handled}
      <4>1. {handled[i] : i \in DOMAIN handled} = {sent[i] : i \in d..e}
        BY <1>3, <3>1, <3>2 DEF HasQuit
      <4>2. e \in d..e
        BY <3>2
      <4> QED
        BY <3>1, <4>1, <4>2 DEF HasQuit
    <3> QED
      BY <1>1, <1>5, <3>1, <3>4, <3>5 DEF HasQuit
  <2> QED
    BY <2>1, <2>3, <2>4 DEF Ending
<1> QED
  BY <1>1, <1>4, <1>5

\* However the network cuts the stream of a peer that sends no NUL byte into reads, the
\* commands that run and the fate of the connection are those of the complete lines that
\* arrived: parseData loses no line, doubles none and glues none to another, although it
\* keeps what is left of a read for the next one and puts the line that opens the door back.
THEOREM CutsDoNotMatter == Spec => []ReadsDoNotMatter
<1>1. Init => CleanRInv
  BY InitRInv DEF CleanRInv
<1>2. TypeOK /\ CleanRInv /\ [Next]_vars => CleanRInv'
  BY NextRInv
<1>3. TypeOK /\ CleanRInv => ReadsDoNotMatter
  BY RInvTellsCommands
<1> QED
  BY <1>1, <1>2, <1>3, ParserTypeCorrect, PTL DEF Spec

================================================================================
