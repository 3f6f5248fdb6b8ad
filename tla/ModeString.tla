------------------------------- MODULE ModeString -------------------------------
(***************************************************************************)
(* One MODE command after the other on one channel: Server::handleMode,     *)
(* letter by letter, with the text it puts together for the broadcast, and  *)
(* the settings that a user of the channel knows who reads these texts.     *)
(*                                                                          *)
(* What a letter does to the channel is Channel's, as in ChatServer; there  *)
(* a change is just announced, here the announcement has to say what        *)
(* changed: letters under the right sign, and the parameters of those that  *)
(* have one in the order of the letters.                                    *)
(*                                                                          *)
(* Left out: the replies to the sender, and the ":" before the last part of *)
(* the text.                                                                *)
(***************************************************************************)
EXTENDS Channel, Sequences

CONSTANTS
    Text,       \* parameters of +l
    Atoll,      \* the numbers atoll() makes of them; 0 for those that are too long
    MaxRead     \* BOUND: characters of the mode string

ASSUME TextAssumption == Atoll \in [Text -> Int] /\ "" \notin Text /\ Text \cap Nick = {}
\* The number that a text stands for is not the text.
ASSUME NumberAssumption == Text \cap Int = {}
ASSUME MaxReadAssumption == MaxRead \in Nat

VARIABLES
    ch,         \* the channel
    sender,     \* the nickname whose command is handled, or none
    read,       \* characters read so far
    exhausted,  \* the line has no more parameters
    flag,       \* the sign read last
    preFlag,    \* pre_flag: the sign written last, 0 before the first
    chModes,    \* ch_modes
    chParams,   \* ch_params
    known       \* the settings a user of the channel knows

loop == <<read, exhausted, flag, preFlag, chModes, chParams>>
vars == <<ch, sender, loop, known>>

Settings ==
    [modes : SUBSET ModeLetter, key : Key \cup {NoKey}, limit : Int, operators : SUBSET Nick]
Symbol == {"+", "-", "o"} \cup ModeLetter

TypeOK ==
    /\ ch \in ChannelState
    /\ sender \in Nick \cup {""}
    /\ read \in Nat /\ exhausted \in BOOLEAN
    /\ flag \in {-1, 1} /\ preFlag \in {-1, 0, 1}
    /\ chModes \in Seq(Symbol)
    /\ chParams \in Seq(Key \cup Text \cup Nick)
    /\ known \in Settings

\* What the settings of a channel look like from outside; the key and the limit
\* show with their letters only.
Shown(c) ==
    [modes |-> c.modes,
     key |-> IF "k" \in c.modes THEN c.password ELSE NoKey,
     limit |-> IF "l" \in c.modes THEN c.user_limit ELSE NoLimit,
     operators |-> {n \in Members(c) : IsOperator(c, n)}]

\* A channel with its owner and users that joined later, all knowing its settings.
Init ==
    /\ \E users \in SUBSET Fd, key \in Key \cup {NoKey} : \E owner \in users :
         ch = [NewChannel(owner, owner, key) EXCEPT
                 !.users = [n \in Nick |-> IF n \in users THEN n ELSE NoFd],
                 !.auth = [n \in Nick |-> IF n = owner THEN OWNER
                                          ELSE IF n \in users THEN COMMON ELSE NoAuth]]
    /\ known = Shown(ch)
    /\ sender = "" /\ read = 0 /\ exhausted = FALSE /\ flag = 1 /\ preFlag = 0
    /\ chModes = <<>> /\ chParams = <<>>

--------------------------------------------------------------------------------
(* The text *)

\* Mutant of Sign: a - after a + is not written.
FirstSign(on) == IF preFlag # 0 THEN <<>> ELSE IF on THEN <<"+">> ELSE <<"-">>

\* A sign is written when it is not the one written last.
Sign(on) ==
    IF on /\ preFlag \in {-1, 0} THEN <<"+">>
    ELSE IF ~on /\ preFlag \in {1, 0} THEN <<"-">>
    ELSE <<>>

\* Mutant of WithParam: -l announces its parameter as well.
WithAnyParam(letter, on) == letter \in {"k", "o", "l"}

WithParam(letter, on) == letter \in {"k", "o"} \/ (letter = "l" /\ on)

Announce(letter, on, arg) ==
    /\ chModes' = chModes \o Sign(on) \o <<letter>>
    /\ chParams' = IF WithParam(letter, on) THEN Append(chParams, arg) ELSE chParams
    /\ preFlag' = IF on THEN 1 ELSE -1

--------------------------------------------------------------------------------
(* handleMode *)

Begin(n) ==
    /\ sender = ""
    /\ sender' = n
    /\ UNCHANGED <<ch, loop, known>>

Character == sender # "" /\ read < MaxRead /\ read' = read + 1 /\ UNCHANGED <<sender, known>>

SignRead ==
    /\ Character
    /\ flag' \in {1, -1}
    /\ UNCHANGED <<ch, exhausted, preFlag, chModes, chParams>>

On == flag = 1

\* isOperator was asked for the sender.
Asked == AfterLookup(ch, sender)

\* A letter whose change is moded; the sender may have to be told why there is
\* none, or none is needed.
Changed(letter, arg, moded) ==
    /\ IsOperator(ch, sender)
    /\ ch' = moded
    /\ IF moded = Asked THEN UNCHANGED <<preFlag, chModes, chParams>>
       ELSE Announce(letter, On, arg)
    /\ UNCHANGED flag

Unheard == ch' = ch /\ UNCHANGED <<flag, preFlag, chModes, chParams>>

Denied == ~IsOperator(ch, sender) /\ ch' = Asked /\ UNCHANGED <<flag, preFlag, chModes, chParams>>

\* p s v m b and unknown letters
OtherLetter == Character /\ Unheard /\ UNCHANGED exhausted

FlagLetter(letter) ==
    /\ Character
    /\ Denied \/ Changed(letter, "", ModeFlag(Asked, On, letter))
    /\ UNCHANGED exhausted

\* The next word of the line: one of S, or none, and then none for all letters
\* to come.
Param(S, arg) ==
    \/ ~exhausted /\ arg \in S /\ UNCHANGED exhausted
    \/ arg = "" /\ exhausted' = TRUE

\* Without a key isOperator is not asked.
KeyLetter(arg) ==
    /\ Character /\ Param(Key, arg)
    /\ \/ arg = "" /\ Unheard
       \/ arg # "" /\ Denied
       \/ arg # "" /\ Changed("k", arg, ModeKey(Asked, On, arg))

\* No parameter counts as 0, which is below any number of users.
LimitLetter(arg) ==
    /\ Character /\ Param(Text, arg)
    /\ \/ Denied
       \/ Changed("l", arg, ModeLimit(Asked, On, IF arg = "" THEN 0 ELSE Atoll[arg]))

OpLetter(arg) ==
    /\ Character /\ Param(Nick, arg)
    /\ \/ arg = "" /\ Unheard
       \/ arg # "" /\ Denied
       \/ arg # "" /\ Changed("o", arg, ModeOp(Asked, On, arg))

--------------------------------------------------------------------------------
(* The reader *)

\* The number in a text, or the number that was written as one
Value(arg) == IF arg \in Text THEN Atoll[arg] ELSE arg

\* What a letter under a sign tells a reader.
Told(s, on, letter, arg) ==
    CASE letter = "o" -> [s EXCEPT !.operators = IF on THEN @ \cup {arg} ELSE @ \ {arg}]
      [] letter = "k" -> [s EXCEPT !.modes = IF on THEN @ \cup {"k"} ELSE @ \ {"k"},
                                   !.key = IF on THEN arg ELSE NoKey]
      [] letter = "l" -> [s EXCEPT !.modes = IF on THEN @ \cup {"l"} ELSE @ \ {"l"},
                                   !.limit = IF on THEN Value(arg) ELSE NoLimit]
      [] OTHER -> [s EXCEPT !.modes = IF on THEN @ \cup {letter} ELSE @ \ {letter}]

\* One character of the text; k, o and +l take the next parameter.
Reads(r, c, args) ==
    IF c \in {"+", "-"} THEN [r EXCEPT !.on = (c = "+")]
    ELSE IF c \in {"k", "o"} \/ (c = "l" /\ r.on)
      THEN [r EXCEPT !.next = @ + 1, !.settings = Told(@, r.on, c, args[r.next])]
    ELSE [r EXCEPT !.settings = Told(@, r.on, c, "")]

\* The reader after each character
Readings(s, text, args) ==
    LET after[i \in 0..Len(text)] ==
          IF i = 0 THEN [on |-> TRUE, next |-> 1, settings |-> s]
          ELSE Reads(after[i - 1], text[i], args)
    IN  after

Heard(s, text, args) == Readings(s, text, args)[Len(text)].settings

\* The end of the string: what changed is broadcast, and the locals are gone.
Finish ==
    /\ sender # ""
    /\ known' = Heard(known, chModes, chParams)
    /\ sender' = ""
    /\ read' = 0 /\ exhausted' = FALSE /\ flag' = 1 /\ preFlag' = 0
    /\ chModes' = <<>> /\ chParams' = <<>>
    /\ UNCHANGED ch

Next ==
    \/ \E n \in Nick : Begin(n)
    \/ SignRead
    \/ OtherLetter
    \/ \E letter \in {"i", "t", "n"} : FlagLetter(letter)
    \/ \E arg \in Key \cup {""} : KeyLetter(arg)
    \/ \E arg \in Text \cup {""} : LimitLetter(arg)
    \/ \E arg \in Nick \cup {""} : OpLetter(arg)
    \/ Finish

Spec == Init /\ [][Next]_vars

--------------------------------------------------------------------------------
(* The reply to a MODE command without a mode string *)

\* getChannelModeResponse: the letters in the order of the set, and the key and
\* the limit in the order in which their letters come.
OneOf(c, m, answer) == IF m \in c.modes THEN <<answer>> ELSE <<>>

ReplyModes(c) ==
    <<"+">> \o OneOf(c, "i", "i") \o OneOf(c, "k", "k") \o OneOf(c, "l", "l")
            \o OneOf(c, "n", "n") \o OneOf(c, "t", "t")

\* Mutant of ReplyParams: the limit comes first.
ReplyParamsSwapped(c) == OneOf(c, "l", c.user_limit) \o OneOf(c, "k", c.password)

ReplyParams(c) == OneOf(c, "k", c.password) \o OneOf(c, "l", c.user_limit)

--------------------------------------------------------------------------------
(* Safety *)

\* Whoever follows the broadcasts of MODE knows the settings of the channel: every
\* change is announced, with its sign and its own parameter, and nothing else is.
BroadcastsTellAll == sender = "" => known = Shown(ch)

\* The reply to a query tells the settings that have a letter, in an order in which
\* each letter finds its parameter.
Blank == [modes |-> {}, key |-> NoKey, limit |-> NoLimit, operators |-> {}]
QueryTellsSettings ==
    Heard(Blank, ReplyModes(ch), ReplyParams(ch))
        = [Shown(ch) EXCEPT !.operators = {}]

================================================================================
