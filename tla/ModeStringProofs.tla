---------------------------- MODULE ModeStringProofs ----------------------------
(***************************************************************************)
(* Whoever reads the broadcasts of MODE, or the reply to a query, knows the *)
(* settings of the channel: for mode strings of every length, and every set *)
(* of sockets, nicknames, keys and limits.                                  *)
(***************************************************************************)
EXTENDS ModeString, ChannelProofs, SequenceTheorems, WellFoundedInduction

--------------------------------------------------------------------------------
(* The reader *)

Arg == Key \cup {NoKey} \cup Text \cup Nick \cup Int

\* A reader of a text that found this many parameters at most.
Reader(count) == [on : BOOLEAN, next : 1..(count + 1), settings : Settings]

\* f lists the states of a reader of text, which finds all the parameters it needs.
Follows(f, s, text, args) ==
    /\ f \in [0..Len(text) -> Reader(Len(args))]
    /\ f[0] = [on |-> TRUE, next |-> 1, settings |-> s]
    /\ \A i \in 1..Len(text) : f[i] = Reads(f[i - 1], text[i], args)

\* A reader of text who knew s knows t, reads on under a sign, and has taken every
\* parameter.
Learns(s, text, args, on, t) ==
    \E f : /\ Follows(f, s, text, args)
           /\ f[Len(text)] = [on |-> on, next |-> Len(args) + 1, settings |-> t]

\* There is one way to read a text.
LEMMA OneReading ==
    ASSUME NEW s, NEW text \in Seq(Symbol), NEW args,
           NEW f, Follows(f, s, text, args)
    PROVE  Readings(s, text, args) = f
<1> DEFINE Step(g, i) == IF i = 0 THEN [on |-> TRUE, next |-> 1, settings |-> s]
                         ELSE Reads(g[i - 1], text[i], args)
           Table(g) == [i \in 0..Len(text) |-> Step(g, i)]
           r == CHOOSE g : g = Table(g)
<1>1. Len(text) \in Nat
  OBVIOUS
<1>2. f = Table(f)
  <2>1. \A i \in 0..Len(text) : f[i] = Step(f, i)
    BY <1>1 DEF Follows
  <2> QED
    BY <2>1 DEF Follows
<1>3. r = Table(r)
  <2> HIDE DEF Table
  <2> QED
    BY <1>2
<1>4. \A i \in 0..Len(text) : r[i] = f[i]
  <2> DEFINE Bad == {i \in 0..Len(text) : r[i] # f[i]}
  <2> SUFFICES ASSUME Bad # {} PROVE FALSE
    OBVIOUS
  <2>1. Bad \in SUBSET Nat
    BY <1>1
  <2> HIDE DEF r
  <2>2. PICK i \in Bad : \A j \in Bad : ~(<<j, i>> \in OpToRel(<, Nat))
    BY <2>1, NatLessThanWellFounded, WFMin
  <2>3. i \in 0..Len(text) /\ r[i] # f[i]
    OBVIOUS
  <2>4. r[i] = Step(r, i) /\ f[i] = Step(f, i)
    BY <1>2, <1>3, <2>3
  <2>5. CASE i = 0
    BY <2>3, <2>4, <2>5
  <2>6. CASE i # 0
    <3>1. i - 1 \in 0..Len(text) /\ i - 1 < i /\ i \in Nat /\ i - 1 \in Nat
      BY <1>1, <2>3, <2>6
    <3>2. <<i - 1, i>> \in OpToRel(<, Nat)
      BY <3>1 DEF OpToRel
    <3>3. r[i - 1] = f[i - 1]
      BY <2>2, <3>1, <3>2
    <3> QED
      BY <2>3, <2>4, <2>6, <3>3
  <2> QED
    BY <2>5, <2>6
<1>5. r = f
  <2> HIDE DEF r, Step
  <2> QED
    BY <1>2, <1>3, <1>4
<1> QED
  BY <1>5 DEF Readings

\* What a reader has learned is what it has heard.
LEMMA HeardIsLearned ==
    ASSUME NEW s, NEW text \in Seq(Symbol), NEW args, NEW on, NEW t,
           Learns(s, text, args, on, t)
    PROVE  Heard(s, text, args) = t
<1>1. PICK f : /\ Follows(f, s, text, args)
               /\ f[Len(text)] = [on |-> on, next |-> Len(args) + 1, settings |-> t]
  BY DEF Learns
<1>2. Readings(s, text, args) = f
  BY <1>1, OneReading
<1> QED
  BY <1>1, <1>2 DEF Heard

\* Nothing said, nothing learned.
LEMMA LearnsNothing ==
    ASSUME NEW s \in Settings PROVE Learns(s, <<>>, <<>>, TRUE, s)
<1> DEFINE f == [i \in 0..0 |-> [on |-> TRUE, next |-> 1, settings |-> s]]
<1>1. Follows(f, s, <<>>, <<>>)
  BY DEF Follows, Reader
<1>2. f[Len(<<>>)] = [on |-> TRUE, next |-> Len(<<>>) + 1, settings |-> s]
  OBVIOUS
<1> HIDE DEF f
<1> QED
  BY <1>1, <1>2 DEF Learns

\* A character more, and perhaps a parameter more.
LEMMA LearnsMore ==
    ASSUME NEW s, NEW text \in Seq(Symbol), NEW args \in Seq(Arg), NEW on \in BOOLEAN,
           NEW t \in Settings, Learns(s, text, args, on, t),
           NEW c \in Symbol, NEW more \in Seq(Arg),
           Len(more) >= Len(args), \A i \in 1..Len(args) : more[i] = args[i],
           NEW up \in BOOLEAN, NEW u \in Settings,
           Reads([on |-> on, next |-> Len(args) + 1, settings |-> t], c, more)
             = [on |-> up, next |-> Len(more) + 1, settings |-> u]
    PROVE  Learns(s, Append(text, c), more, up, u)
<1>1. PICK f : /\ Follows(f, s, text, args)
               /\ f[Len(text)] = [on |-> on, next |-> Len(args) + 1, settings |-> t]
  BY DEF Learns
<1> DEFINE new == Append(text, c)
           last == [on |-> up, next |-> Len(more) + 1, settings |-> u]
           g == [i \in 0..Len(new) |-> IF i <= Len(text) THEN f[i] ELSE last]
<1>2. /\ Len(text) \in Nat /\ Len(args) \in Nat /\ Len(more) \in Nat
      /\ Len(new) = Len(text) + 1 /\ \A i \in 1..Len(text) : new[i] = text[i]
      /\ new[Len(text) + 1] = c
  BY AppendProperties
<1> HIDE DEF new
<1>3. f \in [0..Len(text) -> Reader(Len(args))]
  BY <1>1 DEF Follows
<1>4. g \in [0..Len(new) -> Reader(Len(more))]
  <2>1. ASSUME NEW i \in 0..Len(new) PROVE g[i] \in Reader(Len(more))
    <3>1. CASE i <= Len(text)
      <4>1. i \in 0..Len(text)
        BY <1>2, <3>1
      <4>2. f[i] \in Reader(Len(args))
        BY <1>3, <4>1
      <4> QED
        BY <1>2, <3>1, <4>2 DEF Reader
    <3>2. CASE ~(i <= Len(text))
      <4>1. last \in Reader(Len(more))
        BY <1>2 DEF Reader
      <4> QED
        BY <3>2, <4>1
    <3> QED
      BY <3>1, <3>2
  <2> QED
    BY <2>1
<1>5. g[0] = [on |-> TRUE, next |-> 1, settings |-> s]
  BY <1>1, <1>2 DEF Follows
<1>6. ASSUME NEW i \in 1..Len(new) PROVE g[i] = Reads(g[i - 1], new[i], more)
  <2>1. CASE i <= Len(text)
    <3>1. i \in 1..Len(text) /\ i \in 0..Len(text) /\ i - 1 \in 0..Len(text)
      BY <1>2, <2>1
    <3>2. /\ f[i] = Reads(f[i - 1], text[i], args)
          /\ f[i] \in Reader(Len(args)) /\ f[i - 1] \in Reader(Len(args))
      BY <1>1, <1>3, <3>1 DEF Follows
    <3>3. Reads(f[i - 1], text[i], more) = Reads(f[i - 1], text[i], args)
      <4> DEFINE r == f[i - 1]
                 d == text[i]
      <4>1. CASE d \notin {"+", "-"} /\ (d \in {"k", "o"} \/ (d = "l" /\ r.on))
        <5>1. f[i] = [r EXCEPT !.next = @ + 1, !.settings = Told(@, r.on, d, args[r.next])]
          BY <3>2, <4>1 DEF Reads
        <5>2. f[i].next = r.next + 1
          BY <3>2, <5>1 DEF Reader
        <5>3. r.next \in 1..Len(args)
          BY <1>2, <3>2, <5>2 DEF Reader
        <5>4. more[r.next] = args[r.next]
          BY <5>3
        <5> QED
          BY <4>1, <5>4 DEF Reads
      <4>2. CASE ~(d \notin {"+", "-"} /\ (d \in {"k", "o"} \/ (d = "l" /\ r.on)))
        BY <4>2 DEF Reads
      <4> QED
        BY <4>1, <4>2
    <3>4. g[i] = f[i] /\ g[i - 1] = f[i - 1] /\ new[i] = text[i]
      BY <1>2, <2>1, <3>1
    <3> QED
      BY <3>2, <3>3, <3>4
  <2>2. CASE ~(i <= Len(text))
    <3>1. i = Len(text) + 1
      BY <1>2, <2>2
    <3>2. g[i] = last /\ g[i - 1] = f[Len(text)] /\ new[i] = c
      BY <1>2, <3>1
    <3> QED
      BY <1>1, <3>2
  <2> QED
    BY <2>1, <2>2
<1>7. Follows(g, s, new, more)
  <2> HIDE DEF g
  <2> QED
    BY <1>4, <1>5, <1>6 DEF Follows
<1>8. g[Len(new)] = last
  BY <1>2
<1> HIDE DEF g
<1> QED
  BY <1>7, <1>8 DEF Learns, new

LEMMA LenAtLeast == ASSUME NEW S, NEW q \in Seq(S) PROVE Len(q) >= Len(q)
BY LenProperties

\* A character without a parameter
LEMMA LearnsPlain ==
    ASSUME NEW s, NEW text \in Seq(Symbol), NEW args \in Seq(Arg), NEW on \in BOOLEAN,
           NEW t \in Settings, Learns(s, text, args, on, t),
           NEW c \in Symbol, NEW up \in BOOLEAN, NEW u \in Settings,
           Reads([on |-> on, next |-> Len(args) + 1, settings |-> t], c, args)
             = [on |-> up, next |-> Len(args) + 1, settings |-> u]
    PROVE  Learns(s, Append(text, c), args, up, u)
<1>1. Len(args) >= Len(args)
  BY LenAtLeast
<1> QED
  BY <1>1, LearnsMore

\* A sign
LEMMA LearnsSign ==
    ASSUME NEW s, NEW text \in Seq(Symbol), NEW args \in Seq(Arg), NEW on \in BOOLEAN,
           NEW t \in Settings, Learns(s, text, args, on, t), NEW up \in BOOLEAN
    PROVE  Learns(s, Append(text, IF up THEN "+" ELSE "-"), args, up, t)
<1> DEFINE c == IF up THEN "+" ELSE "-"
           r == [on |-> on, next |-> Len(args) + 1, settings |-> t]
<1>1. c \in Symbol
  BY DEF Symbol
<1>2. Reads(r, c, args) = [on |-> up, next |-> Len(args) + 1, settings |-> t]
  BY DEF Reads
<1> HIDE DEF c
<1> QED
  BY <1>1, <1>2, LearnsPlain DEF c

\* A letter that has no parameter
LEMMA LearnsLetter ==
    ASSUME NEW s, NEW text \in Seq(Symbol), NEW args \in Seq(Arg), NEW on \in BOOLEAN,
           NEW t \in Settings, Learns(s, text, args, on, t),
           NEW c \in ModeLetter, ~(c = "k" \/ (c = "l" /\ on)),
           Told(t, on, c, "") \in Settings
    PROVE  Learns(s, Append(text, c), args, on, Told(t, on, c, ""))
<1> DEFINE r == [on |-> on, next |-> Len(args) + 1, settings |-> t]
<1>1. c \in Symbol /\ c \notin {"+", "-", "k", "o"}
  BY DEF Symbol, ModeLetter
<1>2. Reads(r, c, args)
        = [on |-> on, next |-> Len(args) + 1, settings |-> Told(t, on, c, "")]
  BY <1>1 DEF Reads
<1> DEFINE u == Told(t, on, c, "")
<1>3. u \in Settings
  OBVIOUS
<1> HIDE DEF u
<1> QED
  BY <1>1, <1>2, <1>3, LearnsPlain DEF u

\* A letter that has one
LEMMA LearnsParam ==
    ASSUME NEW s, NEW text \in Seq(Symbol), NEW args \in Seq(Arg), NEW on \in BOOLEAN,
           NEW t \in Settings, Learns(s, text, args, on, t),
           NEW c \in {"k", "o", "l"}, c = "l" => on, NEW arg \in Arg,
           Told(t, on, c, arg) \in Settings
    PROVE  Learns(s, Append(text, c), Append(args, arg), on, Told(t, on, c, arg))
<1> DEFINE r == [on |-> on, next |-> Len(args) + 1, settings |-> t]
           more == Append(args, arg)
<1>1. c \in Symbol /\ c \notin {"+", "-"}
  BY DEF Symbol, ModeLetter
<1>2. /\ more \in Seq(Arg) /\ Len(more) = Len(args) + 1 /\ Len(args) \in Nat
      /\ \A i \in 1..Len(args) : more[i] = args[i]
      /\ more[Len(args) + 1] = arg
  BY AppendProperties
<1> HIDE DEF more
<1>3. Reads(r, c, more)
        = [on |-> on, next |-> Len(more) + 1, settings |-> Told(t, on, c, arg)]
  BY <1>1, <1>2 DEF Reads
<1>4. Len(more) >= Len(args)
  BY <1>2
<1>5. Learns(s, Append(text, c), more, on, Told(t, on, c, arg))
  BY <1>1, <1>2, <1>3, <1>4, LearnsMore
<1> QED
  BY <1>5 DEF more

--------------------------------------------------------------------------------
(* The reply to a query *)

\* A letter of the reply that has no parameter
LEMMA LearnsFlagOf ==
    ASSUME NEW text \in Seq(Symbol), NEW args \in Seq(Arg), NEW t \in Settings,
           Learns(Blank, text, args, TRUE, t), NEW c,
           NEW m \in {"i", "n", "t"}, Told(t, TRUE, m, "") \in Settings,
           NEW u, u = IF m \in c.modes THEN Told(t, TRUE, m, "") ELSE t
    PROVE  /\ text \o OneOf(c, m, m) \in Seq(Symbol) /\ u \in Settings
           /\ Learns(Blank, text \o OneOf(c, m, m), args, TRUE, u)
<1>1. m \in ModeLetter /\ m \in Symbol /\ ~(m = "k" \/ (m = "l" /\ TRUE))
  BY DEF ModeLetter, Symbol
<1>2. CASE m \notin c.modes
  <2>1. OneOf(c, m, m) = <<>>
    BY <1>2 DEF OneOf
  <2>2. text \o <<>> = text
    BY ConcatEmptySeq
  <2> QED
    BY <1>2, <2>1, <2>2
<1>3. CASE m \in c.modes
  <2>1. OneOf(c, m, m) = <<m>> /\ text \o <<m>> = Append(text, m)
    BY <1>1, <1>3, AppendIsConcat DEF OneOf
  <2>2. Append(text, m) \in Seq(Symbol)
    BY <1>1, AppendProperties
  <2>3. Learns(Blank, Append(text, m), args, TRUE, Told(t, TRUE, m, ""))
    BY <1>1, LearnsLetter
  <2> QED
    BY <1>3, <2>1, <2>2, <2>3
<1> QED
  BY <1>2, <1>3

\* A letter of the reply that has one
LEMMA LearnsParamOf ==
    ASSUME NEW text \in Seq(Symbol), NEW args \in Seq(Arg), NEW t \in Settings,
           Learns(Blank, text, args, TRUE, t), NEW c, NEW m \in {"k", "l"},
           NEW arg \in Arg, Told(t, TRUE, m, arg) \in Settings,
           NEW u, u = IF m \in c.modes THEN Told(t, TRUE, m, arg) ELSE t
    PROVE  /\ text \o OneOf(c, m, m) \in Seq(Symbol) /\ args \o OneOf(c, m, arg) \in Seq(Arg)
           /\ u \in Settings
           /\ Learns(Blank, text \o OneOf(c, m, m), args \o OneOf(c, m, arg), TRUE, u)
<1>1. m \in Symbol
  BY DEF ModeLetter, Symbol
<1>2. CASE m \notin c.modes
  <2>1. OneOf(c, m, m) = <<>> /\ OneOf(c, m, arg) = <<>>
    BY <1>2 DEF OneOf
  <2>2. text \o <<>> = text /\ args \o <<>> = args
    BY ConcatEmptySeq
  <2> QED
    BY <1>2, <2>1, <2>2
<1>3. CASE m \in c.modes
  <2>1. OneOf(c, m, m) = <<m>> /\ text \o <<m>> = Append(text, m)
    BY <1>1, <1>3, AppendIsConcat DEF OneOf
  <2>2. OneOf(c, m, arg) = <<arg>> /\ args \o <<arg>> = Append(args, arg)
    BY <1>3, AppendIsConcat DEF OneOf
  <2>3. Append(text, m) \in Seq(Symbol) /\ Append(args, arg) \in Seq(Arg)
    BY <1>1, AppendProperties
  <2>4. Learns(Blank, Append(text, m), Append(args, arg), TRUE, Told(t, TRUE, m, arg))
    BY LearnsParam
  <2> QED
    BY <1>3, <2>1, <2>2, <2>3, <2>4
<1> QED
  BY <1>2, <1>3

\* What a letter tells is again a list of settings.
LEMMA ToldType ==
    ASSUME NEW s \in Settings, NEW on \in BOOLEAN, NEW c \in {"o"} \cup ModeLetter, NEW arg,
           c = "o" => arg \in Nick, c = "k" /\ on => arg \in Key \cup {NoKey},
           c = "l" /\ on => Value(arg) \in Int
    PROVE  Told(s, on, c, arg) \in Settings
<1>1. NoLimit \in Int
  BY NoLimitType
<1>2. CASE c = "o"
  BY <1>2 DEF Told, Settings
<1>3. CASE c = "k"
  BY <1>3 DEF Told, Settings, ModeLetter
<1>4. CASE c = "l"
  BY <1>1, <1>4 DEF Told, Settings, ModeLetter
<1>5. CASE c \in ModeLetter \ {"k", "l"}
  BY <1>5 DEF Told, Settings, ModeLetter
<1> QED
  BY <1>2, <1>3, <1>4, <1>5

LEMMA ShownType ==
    ASSUME NEW c \in ChannelState PROVE Shown(c) \in Settings
<1>1. {n \in Members(c) : IsOperator(c, n)} \in SUBSET Nick
  BY DEF Members
<1> QED
  BY <1>1, NoLimitType DEF Shown, Settings, ChannelState

\* The reply to a query about any channel tells its settings.
LEMMA ReplyTells ==
    ASSUME NEW c \in ChannelState
    PROVE  Heard(Blank, ReplyModes(c), ReplyParams(c)) = [Shown(c) EXCEPT !.operators = {}]
<1> DEFINE If(t, m, arg) == IF m \in c.modes THEN Told(t, TRUE, m, arg) ELSE t
           t1 == If(Blank, "i", "")
           t2 == If(t1, "k", c.password)
           t3 == If(t2, "l", c.user_limit)
           t4 == If(t3, "n", "")
           t5 == If(t4, "t", "")
           m0 == <<"+">>
           m1 == m0 \o OneOf(c, "i", "i")
           m2 == m1 \o OneOf(c, "k", "k")
           m3 == m2 \o OneOf(c, "l", "l")
           m4 == m3 \o OneOf(c, "n", "n")
           m5 == m4 \o OneOf(c, "t", "t")
           p1 == <<>> \o OneOf(c, "k", c.password)
           p2 == p1 \o OneOf(c, "l", c.user_limit)
<1>1. /\ c.modes \subseteq ModeLetter /\ c.password \in Key \cup {NoKey} /\ c.user_limit \in Int
      /\ c.password \in Arg /\ c.user_limit \in Arg /\ "" \in Arg
  BY DEF ChannelState, Arg, NoKey
<1>2. Value(c.user_limit) = c.user_limit
  BY <1>1, NumberAssumption DEF Value
<1>3. /\ "i" \in ModeLetter /\ "k" \in ModeLetter /\ "l" \in ModeLetter
      /\ "n" \in ModeLetter /\ "t" \in ModeLetter
  BY DEF ModeLetter
<1>4. Blank \in Settings
  BY NoLimitType DEF Blank, Settings
<1>5. m0 \in Seq(Symbol) /\ <<>> \in Seq(Arg) /\ Learns(Blank, m0, <<>>, TRUE, Blank)
  <2>0. <<>> \in Seq(Symbol) /\ <<>> \in Seq(Arg)
    BY EmptySeq
  <2>1. Learns(Blank, <<>>, <<>>, TRUE, Blank)
    BY <1>4, LearnsNothing
  <2>2. Learns(Blank, Append(<<>>, IF TRUE THEN "+" ELSE "-"), <<>>, TRUE, Blank)
    BY <1>4, <2>0, <2>1, LearnsSign
  <2>3. Append(<<>>, IF TRUE THEN "+" ELSE "-") = m0
    OBVIOUS
  <2>4. m0 \in Seq(Symbol)
    BY DEF Symbol
  <2> QED
    BY <2>0, <2>2, <2>3, <2>4
<1> HIDE DEF m0
<1>6. /\ m1 \in Seq(Symbol) /\ t1 \in Settings /\ Learns(Blank, m1, <<>>, TRUE, t1)
  <2>1. Told(Blank, TRUE, "i", "") \in Settings
    BY <1>3, <1>4, ToldType
  <2> QED
    BY <1>4, <1>5, <2>1, LearnsFlagOf
<1> HIDE DEF m1, t1
<1>7. /\ m2 \in Seq(Symbol) /\ p1 \in Seq(Arg) /\ t2 \in Settings
      /\ Learns(Blank, m2, p1, TRUE, t2)
  <2>1. Told(t1, TRUE, "k", c.password) \in Settings
    BY <1>1, <1>3, <1>6, ToldType
  <2> QED
    BY <1>1, <1>5, <1>6, <2>1, LearnsParamOf
<1> HIDE DEF m2, t2, p1
<1>8. /\ m3 \in Seq(Symbol) /\ p2 \in Seq(Arg) /\ t3 \in Settings
      /\ Learns(Blank, m3, p2, TRUE, t3)
  <2>1. Told(t2, TRUE, "l", c.user_limit) \in Settings
    BY <1>1, <1>2, <1>3, <1>7, ToldType
  <2> QED
    BY <1>1, <1>7, <2>1, LearnsParamOf
<1> HIDE DEF m3, t3, p2
<1>9. /\ m4 \in Seq(Symbol) /\ t4 \in Settings /\ Learns(Blank, m4, p2, TRUE, t4)
  <2>1. Told(t3, TRUE, "n", "") \in Settings
    BY <1>3, <1>8, ToldType
  <2> QED
    BY <1>8, <2>1, LearnsFlagOf
<1> HIDE DEF m4, t4
<1>10. /\ m5 \in Seq(Symbol) /\ Learns(Blank, m5, p2, TRUE, t5)
  <2>1. Told(t4, TRUE, "t", "") \in Settings
    BY <1>3, <1>9, ToldType
  <2> QED
    BY <1>8, <1>9, <2>1, LearnsFlagOf
<1> HIDE DEF m5, t5
<1>11. Heard(Blank, m5, p2) = t5
  BY <1>10, HeardIsLearned
<1>12. m5 = ReplyModes(c) /\ p2 = ReplyParams(c)
  <2>1. \A s : <<>> \o OneOf(c, "k", s) = OneOf(c, "k", s)
    BY DEF OneOf
  <2> QED
    BY <2>1 DEF m0, m1, m2, m3, m4, m5, p1, p2, ReplyModes, ReplyParams
<1>13. t5 = [Shown(c) EXCEPT !.operators = {}]
  <2>1. t1 = [Blank EXCEPT !.modes = c.modes \cap {"i"}]
    BY DEF t1, Told, Blank
  <2>2. t2 = [modes |-> c.modes \cap {"i", "k"}, key |-> Shown(c).key,
              limit |-> NoLimit, operators |-> {}]
    BY <2>1 DEF t2, Told, Blank, Shown
  <2>3. t3 = [modes |-> c.modes \cap {"i", "k", "l"}, key |-> Shown(c).key,
              limit |-> Shown(c).limit, operators |-> {}]
    BY <1>2, <2>2 DEF t3, Told, Shown
  <2>4. t4 = [modes |-> c.modes \cap {"i", "k", "l", "n"}, key |-> Shown(c).key,
              limit |-> Shown(c).limit, operators |-> {}]
    BY <2>3 DEF t4, Told
  <2>5. t5 = [modes |-> c.modes \cap {"i", "k", "l", "n", "t"}, key |-> Shown(c).key,
              limit |-> Shown(c).limit, operators |-> {}]
    BY <2>4 DEF t5, Told
  <2>6. c.modes \cap {"i", "k", "l", "n", "t"} = c.modes
    BY <1>1 DEF ModeLetter
  <2>7. /\ Shown(c).modes = c.modes
        /\ Shown(c) = [modes |-> Shown(c).modes, key |-> Shown(c).key,
                       limit |-> Shown(c).limit, operators |-> Shown(c).operators]
    BY DEF Shown
  <2> QED
    BY <2>5, <2>6, <2>7
<1> QED
  BY <1>11, <1>12, <1>13

--------------------------------------------------------------------------------
(* What a letter changes is what it tells *)

KeyShownOf(c) == IF "k" \in c.modes THEN c.password ELSE NoKey
LimitShownOf(c) == IF "l" \in c.modes THEN c.user_limit ELSE NoLimit

LEMMA ShownFields ==
    ASSUME NEW c
    PROVE  Shown(c) = [modes |-> c.modes, key |-> KeyShownOf(c), limit |-> LimitShownOf(c),
                       operators |-> Shown(c).operators]
BY DEF Shown, KeyShownOf, LimitShownOf

\* What a letter tells, field by field
LEMMA ToldFields ==
    ASSUME NEW c, NEW on \in BOOLEAN, NEW arg
    PROVE  /\ \A m \in {"i", "t", "n"} : Told(Shown(c), on, m, "")
                = [modes |-> IF on THEN c.modes \cup {m} ELSE c.modes \ {m},
                   key |-> KeyShownOf(c), limit |-> LimitShownOf(c),
                   operators |-> Shown(c).operators]
           /\ Told(Shown(c), on, "k", arg)
                = [modes |-> IF on THEN c.modes \cup {"k"} ELSE c.modes \ {"k"},
                   key |-> IF on THEN arg ELSE NoKey, limit |-> LimitShownOf(c),
                   operators |-> Shown(c).operators]
           /\ Told(Shown(c), on, "l", arg)
                = [modes |-> IF on THEN c.modes \cup {"l"} ELSE c.modes \ {"l"},
                   key |-> KeyShownOf(c), limit |-> IF on THEN Value(arg) ELSE NoLimit,
                   operators |-> Shown(c).operators]
           /\ Told(Shown(c), on, "o", arg)
                = [modes |-> c.modes, key |-> KeyShownOf(c), limit |-> LimitShownOf(c),
                   operators |-> IF on THEN Shown(c).operators \cup {arg}
                                 ELSE Shown(c).operators \ {arg}]
<1> DEFINE s == Shown(c)
           k == KeyShownOf(c)
           l == LimitShownOf(c)
           o == Shown(c).operators
<1>1. s = [modes |-> c.modes, key |-> k, limit |-> l, operators |-> o]
  BY ShownFields
<1> HIDE DEF s, k, l, o
<1>2. \A m \in {"i", "t", "n"} : Told(s, on, m, "")
        = [modes |-> IF on THEN c.modes \cup {m} ELSE c.modes \ {m},
           key |-> k, limit |-> l, operators |-> o]
  BY <1>1 DEF Told
<1>3. Told(s, on, "k", arg)
        = [modes |-> IF on THEN c.modes \cup {"k"} ELSE c.modes \ {"k"},
           key |-> IF on THEN arg ELSE NoKey, limit |-> l, operators |-> o]
  BY <1>1 DEF Told
<1>4. Told(s, on, "l", arg)
        = [modes |-> IF on THEN c.modes \cup {"l"} ELSE c.modes \ {"l"},
           key |-> k, limit |-> IF on THEN Value(arg) ELSE NoLimit, operators |-> o]
  BY <1>1 DEF Told
<1>5. Told(s, on, "o", arg)
        = [modes |-> c.modes, key |-> k, limit |-> l,
           operators |-> IF on THEN o \cup {arg} ELSE o \ {arg}]
  BY <1>1 DEF Told
<1> QED
  BY <1>2, <1>3, <1>4, <1>5 DEF s, k, l, o

LEMMA LookupShown ==
    ASSUME NEW c \in ChannelState, NEW n \in Nick PROVE Shown(AfterLookup(c, n)) = Shown(c)
<1> DEFINE new == AfterLookup(c, n)
<1>1. /\ new.users = c.users /\ new.modes = c.modes /\ new.password = c.password
      /\ new.user_limit = c.user_limit
      /\ new.auth = [c.auth EXCEPT ![n] = RankOf(c, n)]
  BY DEF AfterLookup, ChannelState
<1>2. \A m \in Nick : RankOf(new, m) = RankOf(c, m)
  BY <1>1, RankOfType DEF RankOf, ChannelState, NoAuth, COMMON
<1>3. Members(new) = Members(c)
  BY <1>1 DEF Members
<1>4. {m \in Members(new) : IsOperator(new, m)} = {m \in Members(c) : IsOperator(c, m)}
  BY <1>2, <1>3 DEF IsOperator, Members
<1>5. Shown(new).operators = Shown(c).operators
  BY <1>4 DEF Shown
<1>6. KeyShownOf(new) = KeyShownOf(c) /\ LimitShownOf(new) = LimitShownOf(c)
  BY <1>1 DEF KeyShownOf, LimitShownOf
<1> HIDE DEF new
<1> QED
  BY <1>1, <1>5, <1>6, ShownFields DEF new

\* A change of modes, key or limit does not touch the ranks.
LEMMA OperatorsKept ==
    ASSUME NEW c, NEW d, d.users = c.users, d.auth = c.auth
    PROVE  Shown(d).operators = Shown(c).operators
BY DEF Shown, Members, IsOperator, RankOf

LEMMA FlagShown ==
    ASSUME NEW c \in ChannelState, NEW on \in BOOLEAN, NEW m \in {"i", "t", "n"}
    PROVE  Shown(ModeFlag(c, on, m)) = Told(Shown(c), on, m, "")
<1> DEFINE new == ModeFlag(c, on, m)
<1>1. /\ new.users = c.users /\ new.auth = c.auth /\ new.password = c.password
      /\ new.user_limit = c.user_limit
      /\ new.modes = IF on THEN c.modes \cup {m} ELSE c.modes \ {m}
  BY DEF ModeFlag, ChannelState
<1>2. Shown(new).operators = Shown(c).operators
  BY <1>1, OperatorsKept
<1>3. KeyShownOf(new) = KeyShownOf(c) /\ LimitShownOf(new) = LimitShownOf(c)
  BY <1>1 DEF KeyShownOf, LimitShownOf
<1> HIDE DEF new
<1>4. Told(Shown(c), on, m, "")
        = [modes |-> IF on THEN c.modes \cup {m} ELSE c.modes \ {m},
           key |-> KeyShownOf(c), limit |-> LimitShownOf(c),
           operators |-> Shown(c).operators]
  BY ToldFields
<1> QED
  BY <1>1, <1>2, <1>3, <1>4, ShownFields DEF new

LEMMA KeyShown ==
    ASSUME NEW c \in ChannelState, NEW on \in BOOLEAN, NEW key \in Key,
           ModeKey(c, on, key) # c
    PROVE  Shown(ModeKey(c, on, key)) = Told(Shown(c), on, "k", key)
<1> DEFINE new == ModeKey(c, on, key)
<1>1. \/ on /\ new = [c EXCEPT !.password = key, !.modes = @ \cup {"k"}]
      \/ ~on /\ new = [c EXCEPT !.password = NoKey, !.modes = @ \ {"k"}]
  BY DEF ModeKey
<1>2. /\ new.users = c.users /\ new.auth = c.auth /\ new.user_limit = c.user_limit
      /\ on => new.password = key
      /\ new.modes = IF on THEN c.modes \cup {"k"} ELSE c.modes \ {"k"}
  BY <1>1 DEF ChannelState
<1>3. Shown(new).operators = Shown(c).operators
  BY <1>2, OperatorsKept
<1>4. KeyShownOf(new) = (IF on THEN key ELSE NoKey) /\ LimitShownOf(new) = LimitShownOf(c)
  BY <1>2 DEF KeyShownOf, LimitShownOf
<1> HIDE DEF new
<1>5. Told(Shown(c), on, "k", key)
        = [modes |-> IF on THEN c.modes \cup {"k"} ELSE c.modes \ {"k"},
           key |-> (IF on THEN key ELSE NoKey), limit |-> LimitShownOf(c),
           operators |-> Shown(c).operators]
  BY ToldFields
<1> QED
  BY <1>2, <1>3, <1>4, <1>5, ShownFields DEF new

LEMMA LimitShown ==
    ASSUME NEW c \in ChannelState, NEW on \in BOOLEAN, NEW arg, NEW v \in Int,
           on => Value(arg) = v, ModeLimit(c, on, v) # c
    PROVE  Shown(ModeLimit(c, on, v)) = Told(Shown(c), on, "l", arg)
<1> DEFINE new == ModeLimit(c, on, v)
<1>1. \/ on /\ new = [c EXCEPT !.user_limit = v, !.modes = @ \cup {"l"}]
      \/ ~on /\ new = [c EXCEPT !.user_limit = NoLimit, !.modes = @ \ {"l"}]
  BY DEF ModeLimit
<1>2. /\ new.users = c.users /\ new.auth = c.auth /\ new.password = c.password
      /\ on => new.user_limit = v
      /\ new.modes = IF on THEN c.modes \cup {"l"} ELSE c.modes \ {"l"}
  BY <1>1 DEF ChannelState
<1>3. Shown(new).operators = Shown(c).operators
  BY <1>2, OperatorsKept
<1>4. KeyShownOf(new) = KeyShownOf(c) /\ LimitShownOf(new) = (IF on THEN v ELSE NoLimit)
  BY <1>2 DEF KeyShownOf, LimitShownOf
<1> HIDE DEF new
<1>5. Told(Shown(c), on, "l", arg)
        = [modes |-> IF on THEN c.modes \cup {"l"} ELSE c.modes \ {"l"},
           key |-> KeyShownOf(c), limit |-> (IF on THEN v ELSE NoLimit),
           operators |-> Shown(c).operators]
  <2>1. (IF on THEN Value(arg) ELSE NoLimit) = (IF on THEN v ELSE NoLimit)
    OBVIOUS
  <2>2. Told(Shown(c), on, "l", arg)
          = [modes |-> IF on THEN c.modes \cup {"l"} ELSE c.modes \ {"l"},
             key |-> KeyShownOf(c), limit |-> (IF on THEN Value(arg) ELSE NoLimit),
             operators |-> Shown(c).operators]
    BY ToldFields
  <2> QED
    BY <2>1, <2>2
<1> QED
  BY <1>2, <1>3, <1>4, <1>5, ShownFields DEF new

LEMMA OpShown ==
    ASSUME NEW c \in ChannelState, NEW on \in BOOLEAN, NEW n \in Nick,
           ModeOp(c, on, n) # c
    PROVE  Shown(ModeOp(c, on, n)) = Told(Shown(c), on, "o", n)
<1> DEFINE new == ModeOp(c, on, n)
<1>1. /\ n \in Members(c)
      /\ new = [c EXCEPT !.auth[n] = IF on THEN OPERATOR ELSE COMMON]
  BY DEF ModeOp
<1>2. /\ new.users = c.users /\ new.modes = c.modes /\ new.password = c.password
      /\ new.user_limit = c.user_limit
      /\ new.auth = [c.auth EXCEPT ![n] = IF on THEN OPERATOR ELSE COMMON]
  BY <1>1 DEF ChannelState
<1>3. /\ Members(new) = Members(c)
      /\ \A m \in Nick \ {n} : RankOf(new, m) = RankOf(c, m)
      /\ RankOf(new, n) = IF on THEN OPERATOR ELSE COMMON
  BY <1>2 DEF Members, RankOf, ChannelState, OPERATOR, COMMON, NoAuth
<1> HIDE DEF new
<1>4. {m \in Members(new) : IsOperator(new, m)}
        = IF on THEN {m \in Members(c) : IsOperator(c, m)} \cup {n}
          ELSE {m \in Members(c) : IsOperator(c, m)} \ {n}
  BY <1>1, <1>3 DEF Members, IsOperator, OPERATOR, COMMON
<1>5. /\ Shown(c).operators = {m \in Members(c) : IsOperator(c, m)}
      /\ Shown(new).operators = {m \in Members(new) : IsOperator(new, m)}
  BY DEF Shown
<1>6. KeyShownOf(new) = KeyShownOf(c) /\ LimitShownOf(new) = LimitShownOf(c)
  BY <1>2 DEF KeyShownOf, LimitShownOf
<1>7. Told(Shown(c), on, "o", n)
        = [modes |-> c.modes, key |-> KeyShownOf(c), limit |-> LimitShownOf(c),
           operators |-> IF on THEN Shown(c).operators \cup {n}
                         ELSE Shown(c).operators \ {n}]
  BY ToldFields
<1> QED
  BY <1>2, <1>4, <1>5, <1>6, <1>7, ShownFields DEF new

--------------------------------------------------------------------------------
(* The broadcasts *)

\* The reader of the text so far, who knew what was broadcast before, knows the
\* settings, and reads on under the sign written last.
Reading ==
    \E on \in BOOLEAN :
        /\ Learns(known, chModes, chParams, on, Shown(ch))
        /\ preFlag = 1 => on
        /\ preFlag = -1 => ~on

\* Nobody leaves the channel.
Populated == IsFiniteSet(Members(ch)) /\ Members(ch) # {}

AtRest == sender = "" => chModes = <<>> /\ chParams = <<>> /\ preFlag = 0

MInv == TypeOK /\ Sound(ch) /\ Populated /\ Reading /\ AtRest

LEMMA InitMInv == Init => MInv
<1> SUFFICES ASSUME Init PROVE MInv
  OBVIOUS
<1>0. PICK users \in SUBSET Fd, key \in Key \cup {NoKey} : \E owner \in users :
        ch = [NewChannel(owner, owner, key) EXCEPT
                !.users = [n \in Nick |-> IF n \in users THEN n ELSE NoFd],
                !.auth = [n \in Nick |-> IF n = owner THEN OWNER
                                         ELSE IF n \in users THEN COMMON ELSE NoAuth]]
  BY DEF Init
<1>1. PICK owner \in users :
        ch = [NewChannel(owner, owner, key) EXCEPT
                !.users = [n \in Nick |-> IF n \in users THEN n ELSE NoFd],
                !.auth = [n \in Nick |-> IF n = owner THEN OWNER
                                         ELSE IF n \in users THEN COMMON ELSE NoAuth]]
  BY <1>0
<1>2. /\ ch.users = [n \in Nick |-> IF n \in users THEN n ELSE NoFd]
      /\ ch.auth = [n \in Nick |-> IF n = owner THEN OWNER
                                   ELSE IF n \in users THEN COMMON ELSE NoAuth]
      /\ ch.modes = {"n", "t"} /\ ch.password = key /\ ch.user_limit = DefaultLimit
  BY <1>1 DEF NewChannel
<1>3. ch \in ChannelState
  <2>1. [n \in Nick |-> IF n \in users THEN n ELSE NoFd] \in [Nick -> Fd \cup {NoFd}]
    OBVIOUS
  <2>2. [n \in Nick |-> IF n = owner THEN OWNER ELSE IF n \in users THEN COMMON ELSE NoAuth]
          \in [Nick -> {NoAuth} \cup 0..COMMON]
    BY DEF OWNER, COMMON, NoAuth
  <2> QED
    BY <1>1, <2>1, <2>2, LimitAssumption DEF NewChannel, ChannelState, ModeLetter
<1>4. Members(ch) = users
  BY <1>2, NickAssumption DEF Members
<1>5. Sound(ch)
  <2>1. WellRanked(ch)
    <3>1. \A n \in Nick : ch.auth[n] = IF n = owner THEN OWNER
                                      ELSE IF n \in users THEN COMMON ELSE NoAuth
      BY <1>2
    <3> QED
      BY <1>4, <3>1 DEF WellRanked, OWNER, COMMON, NoAuth
  <2>2. SingleOwner(ch)
    BY <1>2 DEF SingleOwner, OWNER, COMMON, NoAuth
  <2>3. SettingsShown(ch)
    BY <1>2 DEF SettingsShown
  <2> QED
    BY <1>3, <2>1, <2>2, <2>3 DEF Sound
<1>6. Populated
  BY <1>4, FdAssumption, FS_Subset DEF Populated
<1>7. known = Shown(ch) /\ known \in Settings
  BY <1>3, ShownType DEF Init
<1>8. chModes = <<>> /\ chParams = <<>> /\ preFlag = 0
  BY DEF Init
<1>9. Learns(known, chModes, chParams, TRUE, Shown(ch))
  BY <1>7, <1>8, LearnsNothing
<1>10. Reading
  <2>1. (preFlag = 1 => TRUE) /\ (preFlag = -1 => ~TRUE)
    BY <1>8
  <2> QED
    BY <1>9, <2>1 DEF Reading
<1>11. TypeOK
  <2>1. chModes \in Seq(Symbol) /\ chParams \in Seq(Key \cup Text \cup Nick)
    BY <1>8, EmptySeq
  <2> QED
    BY <1>3, <1>7, <2>1 DEF Init, TypeOK
<1> QED
  BY <1>5, <1>6, <1>8, <1>10, <1>11 DEF MInv, AtRest

\* A letter that is announced is heard.
LEMMA AnnounceReading ==
    ASSUME MInv, NEW on \in BOOLEAN, NEW letter \in {"o"} \cup ModeLetter, NEW arg,
           Announce(letter, on, arg), ch' \in ChannelState, known' = known,
           WithParam(letter, on) => arg \in Key \cup Text \cup Nick,
           Shown(ch') = Told(Shown(ch), on, letter, arg)
    PROVE  /\ Reading' /\ chModes' \in Seq(Symbol)
           /\ chParams' \in Seq(Key \cup Text \cup Nick) /\ preFlag' \in {-1, 0, 1}
<1> DEFINE P == Key \cup Text \cup Nick
           sign == IF on THEN "+" ELSE "-"
<1>1. PICK o \in BOOLEAN :
        /\ Learns(known, chModes, chParams, o, Shown(ch))
        /\ preFlag = 1 => o
        /\ preFlag = -1 => ~o
  BY DEF MInv, Reading
<1>2. /\ chModes \in Seq(Symbol) /\ chParams \in Seq(P) /\ preFlag \in {-1, 0, 1}
      /\ Shown(ch) \in Settings /\ Shown(ch') \in Settings
  BY ShownType DEF MInv, TypeOK
<1>3. chParams \in Seq(Arg) /\ P \subseteq Arg
  BY <1>2, SeqMonotonic DEF Arg
<1>4. preFlag' = (IF on THEN 1 ELSE -1) /\ letter \in Symbol /\ sign \in Symbol
  BY DEF Announce, Symbol
<1> DEFINE signed == chModes \o Sign(on)
<1>5. signed \in Seq(Symbol) /\ Learns(known, signed, chParams, on, Shown(ch))
  <2>1. CASE Sign(on) = <<sign>>
    <3>1. signed = Append(chModes, sign)
      BY <1>2, <1>4, <2>1, AppendIsConcat
    <3>2. Append(chModes, sign) \in Seq(Symbol)
      BY <1>2, <1>4, AppendProperties
    <3>3. Learns(known, Append(chModes, sign), chParams, on, Shown(ch))
      BY <1>1, <1>2, <1>3, LearnsSign
    <3> QED
      BY <3>1, <3>2, <3>3
  <2>2. CASE Sign(on) = <<>> /\ o = on
    <3>1. signed = chModes
      BY <1>2, <2>2, ConcatEmptySeq
    <3> QED
      BY <1>1, <1>2, <2>2, <3>1
  <2>3. Sign(on) = <<sign>> \/ (Sign(on) = <<>> /\ o = on)
    BY <1>1, <1>2 DEF Sign
  <2> QED
    BY <2>1, <2>2, <2>3
<1>6. chModes' = Append(signed, letter)
  <2>1. chModes' = (chModes \o Sign(on)) \o <<letter>>
    BY DEF Announce
  <2> HIDE DEF signed
  <2> QED
    BY <1>4, <1>5, <2>1, AppendIsConcat DEF signed
<1> HIDE DEF signed
<1>7. chModes' \in Seq(Symbol)
  BY <1>4, <1>5, <1>6, AppendProperties
<1>8. /\ chParams' \in Seq(P)
      /\ Learns(known, chModes', chParams', on, Shown(ch'))
  <2>1. CASE WithParam(letter, on)
    <3>1. chParams' = Append(chParams, arg) /\ arg \in P /\ arg \in Arg
      BY <1>3, <2>1 DEF Announce
    <3>2. letter \in {"k", "o", "l"} /\ (letter = "l" => on)
      BY <2>1 DEF WithParam
    <3>3. Learns(known, Append(signed, letter), Append(chParams, arg), on,
                 Told(Shown(ch), on, letter, arg))
      BY <1>2, <1>3, <1>5, <3>1, <3>2, LearnsParam
    <3>4. Append(chParams, arg) \in Seq(P)
      BY <1>2, <3>1, AppendProperties
    <3> QED
      BY <1>6, <3>1, <3>3, <3>4
  <2>2. CASE ~WithParam(letter, on)
    <3>1. chParams' = chParams
      BY <2>2 DEF Announce
    <3>2. letter \in ModeLetter /\ letter \notin {"k", "o"} /\ ~(letter = "l" /\ on)
      BY <2>2 DEF WithParam
    <3>3. Told(Shown(ch), on, letter, "") = Told(Shown(ch), on, letter, arg)
      BY <3>2 DEF Told
    <3>4. Learns(known, Append(signed, letter), chParams, on, Told(Shown(ch), on, letter, ""))
      BY <1>2, <1>3, <1>5, <3>2, <3>3, LearnsLetter
    <3> QED
      BY <1>2, <1>6, <3>1, <3>3, <3>4
  <2> QED
    BY <2>1, <2>2
<1>9. Reading'
  BY <1>4, <1>8 DEF Reading
<1> QED
  BY <1>4, <1>7, <1>8, <1>9

\* Asking for the rank of the sender shows to nobody.
LEMMA AskedShown ==
    ASSUME MInv, sender # ""
    PROVE  /\ Sound(Asked) /\ Asked \in ChannelState
           /\ Members(Asked) = Members(ch) /\ Shown(Asked) = Shown(ch)
<1>1. sender \in Nick /\ Sound(ch) /\ ch \in ChannelState
  BY DEF MInv, TypeOK
<1>2. Sound(Asked) /\ Asked.users = ch.users
  BY <1>1, LookupSound DEF Asked
<1>3. Shown(Asked) = Shown(ch)
  BY <1>1, LookupShown DEF Asked
<1> QED
  BY <1>2, <1>3 DEF Sound, Members

\* A character that changes nothing that shows
LEMMA QuietMInv ==
    ASSUME MInv, Sound(ch'), Members(ch') = Members(ch), Shown(ch') = Shown(ch),
           UNCHANGED <<sender, preFlag, chModes, chParams, known>>,
           read' \in Nat, exhausted' \in BOOLEAN, flag' \in {1, -1}
    PROVE  MInv'
<1>1. TypeOK'
  BY DEF MInv, TypeOK, Sound
<1>2. Populated' /\ AtRest'
  BY DEF MInv, Populated, AtRest
<1>3. Reading'
  BY DEF MInv, Reading
<1> QED
  BY <1>1, <1>2, <1>3 DEF MInv

LEMMA CharacterRead ==
    ASSUME MInv, Character PROVE sender # "" /\ read' \in Nat /\ UNCHANGED <<sender, known>>
<1>1. \A n \in Nat : n + 1 \in Nat
  OBVIOUS
<1>2. read \in Nat /\ read' = read + 1
  BY DEF MInv, TypeOK, Character
<1>3. read' \in Nat
  BY <1>1, <1>2
<1>4. sender # "" /\ UNCHANGED <<sender, known>>
  BY DEF Character
<1> QED
  BY <1>3, <1>4

LEMMA FlagKept == ASSUME MInv, UNCHANGED flag PROVE flag' \in {1, -1}
BY DEF MInv, TypeOK

LEMMA DeniedMInv ==
    ASSUME MInv, Character, Denied, exhausted' \in BOOLEAN PROVE MInv'
<1>1. sender # "" /\ ch' = Asked /\ read' \in Nat /\ flag' \in {1, -1}
      /\ UNCHANGED <<sender, preFlag, chModes, chParams, known>>
  BY CharacterRead, FlagKept DEF Denied
<1>2. /\ Sound(Asked) /\ Members(Asked) = Members(ch) /\ Shown(Asked) = Shown(ch)
  BY <1>1, AskedShown
<1> QED
  BY <1>1, <1>2, QuietMInv

LEMMA UnheardMInv ==
    ASSUME MInv, Character, Unheard, exhausted' \in BOOLEAN PROVE MInv'
<1>1. ch' = ch /\ read' \in Nat /\ flag' \in {1, -1}
      /\ UNCHANGED <<sender, preFlag, chModes, chParams, known>>
  BY CharacterRead, FlagKept DEF Unheard
<1>2. Sound(ch)
  BY DEF MInv
<1> QED
  BY <1>1, <1>2, QuietMInv

\* A letter that changes what it tells
LEMMA ChangedMInv ==
    ASSUME MInv, Character, exhausted' \in BOOLEAN,
           NEW letter \in {"o"} \cup ModeLetter, NEW arg, NEW moded,
           Changed(letter, arg, moded), Sound(moded), moded.users = Asked.users,
           moded # Asked => /\ Shown(moded) = Told(Shown(Asked), On, letter, arg)
                            /\ WithParam(letter, On) => arg \in Key \cup Text \cup Nick
    PROVE  MInv'
<1>1. /\ sender # "" /\ read' \in Nat /\ flag' \in {1, -1} /\ On \in BOOLEAN
      /\ UNCHANGED <<sender, known>> /\ ch' = moded
  BY CharacterRead, FlagKept DEF Changed, On
<1>2. /\ Members(Asked) = Members(ch) /\ Shown(Asked) = Shown(ch)
  BY <1>1, AskedShown
<1>3. Members(moded) = Members(ch)
  BY <1>2 DEF Members
<1>4. CASE moded = Asked
  <2>1. UNCHANGED <<preFlag, chModes, chParams>>
    BY <1>4 DEF Changed
  <2> QED
    BY <1>1, <1>2, <1>3, <1>4, <2>1, QuietMInv
<1>5. CASE moded # Asked
  <2>1. Announce(letter, On, arg)
    BY <1>5 DEF Changed
  <2>2. ch' \in ChannelState
    BY <1>1 DEF Sound
  <2>3. Shown(ch') = Told(Shown(ch), On, letter, arg)
    BY <1>1, <1>2, <1>5
  <2>4. /\ Reading' /\ chModes' \in Seq(Symbol)
        /\ chParams' \in Seq(Key \cup Text \cup Nick) /\ preFlag' \in {-1, 0, 1}
    BY <1>1, <1>5, <2>1, <2>2, <2>3, AnnounceReading
  <2>5. TypeOK'
    BY <1>1, <2>2, <2>4 DEF MInv, TypeOK
  <2>6. Populated' /\ AtRest' /\ Sound(ch)'
    BY <1>1, <1>3 DEF MInv, Populated, AtRest
  <2> QED
    BY <2>4, <2>5, <2>6 DEF MInv
<1> QED
  BY <1>4, <1>5

LEMMA BeginMInv == ASSUME MInv, NEW n \in Nick, Begin(n) PROVE MInv'
<1>1. n # ""
  BY NickAssumption
<1>2. sender' = n /\ UNCHANGED <<ch, read, exhausted, flag, preFlag, chModes, chParams, known>>
  BY DEF Begin, loop
<1>3. TypeOK' /\ Populated' /\ AtRest' /\ Sound(ch)'
  BY <1>1, <1>2 DEF MInv, TypeOK, Populated, AtRest
<1>4. Reading'
  BY <1>2 DEF MInv, Reading
<1> QED
  BY <1>3, <1>4 DEF MInv

LEMMA SignReadMInv == ASSUME MInv, SignRead PROVE MInv'
<1>1. /\ read' \in Nat /\ exhausted' \in BOOLEAN /\ flag' \in {1, -1}
      /\ UNCHANGED <<ch, sender, preFlag, chModes, chParams, known>>
  <2>1. Character /\ flag' \in {1, -1} /\ UNCHANGED <<ch, exhausted, preFlag, chModes, chParams>>
    BY DEF SignRead
  <2>2. exhausted \in BOOLEAN
    BY DEF MInv, TypeOK
  <2> QED
    BY <2>1, <2>2, CharacterRead
<1>2. Sound(ch)
  BY DEF MInv
<1> QED
  BY <1>1, <1>2, QuietMInv

LEMMA OtherLetterMInv == ASSUME MInv, OtherLetter PROVE MInv'
<1>1. Character /\ Unheard /\ exhausted' \in BOOLEAN
  BY DEF MInv, TypeOK, OtherLetter
<1> QED
  BY <1>1, UnheardMInv

LEMMA FlagLetterMInv ==
    ASSUME MInv, NEW letter \in {"i", "t", "n"}, FlagLetter(letter) PROVE MInv'
<1>1. Character /\ exhausted' \in BOOLEAN /\ sender # "" /\ On \in BOOLEAN
  BY DEF MInv, TypeOK, FlagLetter, Character, On
<1>2. CASE Denied
  BY <1>1, <1>2, DeniedMInv
<1>3. CASE Changed(letter, "", ModeFlag(Asked, On, letter))
  <2>1. Sound(Asked) /\ Asked \in ChannelState
    BY <1>1, AskedShown
  <2> DEFINE moded == ModeFlag(Asked, On, letter)
  <2>2. Sound(moded) /\ moded.users = Asked.users
    BY <1>1, <2>1, ModeFlagSound
  <2>3. Shown(moded) = Told(Shown(Asked), On, letter, "")
    BY <1>1, <2>1, FlagShown
  <2>4. letter \in {"o"} \cup ModeLetter /\ ~WithParam(letter, On)
    BY DEF ModeLetter, WithParam
  <2> HIDE DEF moded
  <2>5. Changed(letter, "", moded)
    BY <1>3 DEF moded
  <2> QED
    BY <1>1, <2>2, <2>3, <2>4, <2>5, ChangedMInv
<1> QED
  BY <1>2, <1>3 DEF FlagLetter

LEMMA KeyLetterMInv ==
    ASSUME MInv, NEW arg \in Key \cup {""}, KeyLetter(arg) PROVE MInv'
<1>1. Character /\ exhausted' \in BOOLEAN /\ sender # "" /\ On \in BOOLEAN
  BY DEF MInv, TypeOK, KeyLetter, Param, Character, On
<1>2. CASE Unheard
  BY <1>1, <1>2, UnheardMInv
<1>3. CASE Denied
  BY <1>1, <1>3, DeniedMInv
<1>4. CASE arg # "" /\ Changed("k", arg, ModeKey(Asked, On, arg))
  <2>1. Sound(Asked) /\ Asked \in ChannelState /\ arg \in Key
    BY <1>1, <1>4, AskedShown
  <2> DEFINE moded == ModeKey(Asked, On, arg)
  <2>2. Sound(moded) /\ moded.users = Asked.users
    BY <1>1, <2>1, ModeKeySound
  <2>3. moded # Asked => Shown(moded) = Told(Shown(Asked), On, "k", arg)
    BY <1>1, <2>1, KeyShown
  <2>4. "k" \in {"o"} \cup ModeLetter /\ arg \in Key \cup Text \cup Nick
    BY <2>1 DEF ModeLetter
  <2> HIDE DEF moded
  <2>5. Changed("k", arg, moded)
    BY <1>4 DEF moded
  <2> QED
    BY <1>1, <2>2, <2>3, <2>4, <2>5, ChangedMInv
<1> QED
  BY <1>2, <1>3, <1>4 DEF KeyLetter

\* A limit of 0 is below the number of users ...
LEMMA ZeroIsTooSmall ==
    ASSUME NEW c, IsFiniteSet(Members(c)), Members(c) # {} PROVE TooSmall(c, 0)
<1> DEFINE n == Cardinality(Members(c))
<1>1. n \in Nat /\ n # 0
  BY FS_CardinalityType, FS_EmptySet
<1> HIDE DEF n
<1>2. 0 >= 0 /\ 0 < n
  BY <1>1
<1> QED
  BY <1>2 DEF TooSmall, n

LEMMA ZeroIsInt == 0 \in Int
OBVIOUS

\* ... so that a missing one is never announced.
LEMMA LimitLetterMInv ==
    ASSUME MInv, NEW arg \in Text \cup {""}, LimitLetter(arg) PROVE MInv'
<1>1. Character /\ exhausted' \in BOOLEAN /\ sender # "" /\ On \in BOOLEAN
  BY DEF MInv, TypeOK, LimitLetter, Param, Character, On
<1>2. CASE Denied
  BY <1>1, <1>2, DeniedMInv
<1> DEFINE v == IF arg = "" THEN 0 ELSE Atoll[arg]
           moded == ModeLimit(Asked, On, v)
<1>3. CASE Changed("l", arg, moded)
  <2>1. Sound(Asked) /\ Asked \in ChannelState /\ Members(Asked) = Members(ch)
    BY <1>1, AskedShown
  <2>2. v \in Int /\ (arg # "" => Value(arg) = v)
    <3>1. CASE arg = ""
      <4>1. v = 0
        BY <3>1
      <4>2. 0 \in Int
        BY ZeroIsInt
      <4> HIDE DEF v
      <4> QED
        BY <3>1, <4>1, <4>2
    <3>2. CASE arg # ""
      <4>1. arg \in Text /\ Atoll[arg] \in Int
        BY <3>2, TextAssumption
      <4> QED
        BY <3>2, <4>1 DEF Value
    <3> QED
      BY <3>1, <3>2
  <2>3. Sound(moded) /\ moded.users = Asked.users
    BY <1>1, <2>1, <2>2, ModeLimitSound
  <2>4. ASSUME On, moded # Asked PROVE arg # ""
    <3>1. TooSmall(Asked, 0)
      <4>1. IsFiniteSet(Members(Asked)) /\ Members(Asked) # {}
        BY <2>1 DEF MInv, Populated
      <4> QED
        BY <4>1, ZeroIsTooSmall
    <3>2. ~TooSmall(Asked, v)
      BY <2>4 DEF ModeLimit
    <3>3. v # 0
      <4> HIDE DEF v
      <4> QED
        BY <3>1, <3>2
    <3> QED
      BY <3>3
  <2>5. moded # Asked => Shown(moded) = Told(Shown(Asked), On, "l", arg)
    BY <1>1, <2>1, <2>2, <2>4, LimitShown
  <2>6. moded # Asked /\ WithParam("l", On) => arg \in Key \cup Text \cup Nick
    BY <2>4 DEF WithParam
  <2>7. "l" \in {"o"} \cup ModeLetter
    BY DEF ModeLetter
  <2> HIDE DEF moded, v
  <2> QED
    BY <1>1, <1>3, <2>3, <2>5, <2>6, <2>7, ChangedMInv
<1> QED
  BY <1>2, <1>3 DEF LimitLetter

LEMMA OpLetterMInv ==
    ASSUME MInv, NEW arg \in Nick \cup {""}, OpLetter(arg) PROVE MInv'
<1>1. Character /\ exhausted' \in BOOLEAN /\ sender # "" /\ On \in BOOLEAN
  BY DEF MInv, TypeOK, OpLetter, Param, Character, On
<1>2. CASE Unheard
  BY <1>1, <1>2, UnheardMInv
<1>3. CASE Denied
  BY <1>1, <1>3, DeniedMInv
<1>4. CASE arg # "" /\ Changed("o", arg, ModeOp(Asked, On, arg))
  <2>1. Sound(Asked) /\ Asked \in ChannelState /\ arg \in Nick
    BY <1>1, <1>4, AskedShown
  <2> DEFINE moded == ModeOp(Asked, On, arg)
  <2>2. Sound(moded) /\ moded.users = Asked.users
    BY <1>1, <2>1, ModeOpSound
  <2>3. moded # Asked => Shown(moded) = Told(Shown(Asked), On, "o", arg)
    BY <1>1, <2>1, OpShown
  <2>4. "o" \in {"o"} \cup ModeLetter /\ arg \in Key \cup Text \cup Nick
    BY <2>1
  <2> HIDE DEF moded
  <2>5. Changed("o", arg, moded)
    BY <1>4 DEF moded
  <2> QED
    BY <1>1, <2>2, <2>3, <2>4, <2>5, ChangedMInv
<1> QED
  BY <1>2, <1>3, <1>4 DEF OpLetter

\* What is broadcast is all that the reader needs.
LEMMA FinishMInv == ASSUME MInv, Finish PROVE MInv'
<1>1. PICK on \in BOOLEAN : Learns(known, chModes, chParams, on, Shown(ch))
  BY DEF MInv, Reading
<1>2. Heard(known, chModes, chParams) = Shown(ch) /\ Shown(ch) \in Settings
  BY <1>1, HeardIsLearned, ShownType DEF MInv, TypeOK
<1>3. /\ known' = Shown(ch) /\ ch' = ch /\ sender' = ""
      /\ read' = 0 /\ exhausted' = FALSE /\ flag' = 1 /\ preFlag' = 0
      /\ chModes' = <<>> /\ chParams' = <<>>
  BY <1>2 DEF Finish
<1>4. Learns(known', <<>>, <<>>, TRUE, Shown(ch'))
  BY <1>2, <1>3, LearnsNothing
<1>5. Reading'
  <2>1. preFlag' = 0
    BY <1>3
  <2>2. (preFlag' = 1 => TRUE) /\ (preFlag' = -1 => ~TRUE)
    BY <2>1
  <2> QED
    BY <1>3, <1>4, <2>2 DEF Reading
<1>6. TypeOK'
  <2>1. <<>> \in Seq(Symbol) /\ <<>> \in Seq(Key \cup Text \cup Nick)
    BY EmptySeq
  <2> QED
    BY <1>2, <1>3, <2>1 DEF MInv, TypeOK
<1>7. Sound(ch)' /\ Populated' /\ AtRest'
  BY <1>3 DEF MInv, Populated, AtRest
<1> QED
  BY <1>5, <1>6, <1>7 DEF MInv

LEMMA NextMInv == MInv /\ [Next]_vars => MInv'
<1> SUFFICES ASSUME MInv, [Next]_vars PROVE MInv'
  OBVIOUS
<1>1. CASE UNCHANGED vars
  <2>1. TypeOK' /\ Populated' /\ AtRest' /\ Sound(ch)'
    BY <1>1 DEF MInv, TypeOK, Populated, AtRest, vars, loop
  <2>2. Reading'
    BY <1>1 DEF MInv, Reading, vars, loop
  <2> QED
    BY <2>1, <2>2 DEF MInv
<1>2. CASE Next
  BY <1>2, BeginMInv, SignReadMInv, OtherLetterMInv, FlagLetterMInv, KeyLetterMInv,
     LimitLetterMInv, OpLetterMInv, FinishMInv DEF Next
<1> QED
  BY <1>1, <1>2

\* Between two commands nothing is left to hear.
LEMMA MInvTellsAll == MInv => BroadcastsTellAll
<1> SUFFICES ASSUME MInv, sender = "" PROVE known = Shown(ch)
  BY DEF BroadcastsTellAll
<1>1. chModes = <<>> /\ chParams = <<>> /\ known \in Settings
  BY DEF MInv, AtRest, TypeOK
<1>2. PICK on \in BOOLEAN : Learns(known, <<>>, <<>>, on, Shown(ch))
  BY <1>1 DEF MInv, Reading
<1>3. <<>> \in Seq(Symbol)
  BY EmptySeq
<1>4. Heard(known, <<>>, <<>>) = Shown(ch)
  BY <1>2, <1>3, HeardIsLearned
<1>5. Heard(known, <<>>, <<>>) = known
  BY <1>1, <1>3, LearnsNothing, HeardIsLearned
<1> QED
  BY <1>4, <1>5

\* The inductive invariant of the MODE command
THEOREM ModeInductive == Spec => []MInv
<1>1. Init => MInv
  BY InitMInv
<1>2. MInv /\ [Next]_vars => MInv'
  BY NextMInv
<1> QED
  BY <1>1, <1>2, PTL DEF Spec

\* The locals of handleMode and the channel keep their types; a parameter of the
\* broadcast is never missing.
THEOREM ModeTypeCorrect == Spec => []TypeOK
<1>1. MInv => TypeOK
  BY DEF MInv
<1> QED
  BY <1>1, ModeInductive, PTL

\* Whoever follows the broadcasts knows the settings after each command, however long
\* its mode string is.
THEOREM FollowersKnow == Spec => []BroadcastsTellAll
BY MInvTellsAll, ModeInductive, PTL

\* The reply to a query tells the settings, in every state.
THEOREM QueriesTell == Spec => []QueryTellsSettings
<1>1. MInv => QueryTellsSettings
  BY ReplyTells DEF MInv, TypeOK, QueryTellsSettings
<1> QED
  BY <1>1, ModeInductive, PTL

=============================================================================
