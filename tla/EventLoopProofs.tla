---------------------------- MODULE EventLoopProofs ----------------------------
(***************************************************************************)
(* The event loop for any number of descriptors, any size of a batch and    *)
(* any length of change_list: its types, what its entries in change_list    *)
(* are good for, and the steps of Connections.                              *)
(***************************************************************************)
EXTENDS EventLoop, WellFoundedInduction, TLAPS

\* An event is handled while the batch is not empty, and a line is parsed of a
\* client that exists.
PhaseOK ==
    /\ phase # "kevent" => events # <<>>
    /\ phase = "parse" => Head(events).fd \in clients

Adds(c, f, t) == About(c, f, t) /\ c.op = "add"

\* Entries that are not stale are for connected clients, and what they disable is
\* registered, or will be when they are applied.
EntriesGood(ch, fl, cl) ==
    /\ \A i \in DOMAIN ch : ~ch[i].stale => ch[i].fd \in cl
    /\ \A i \in DOMAIN ch : ~ch[i].stale /\ ch[i].op = "disable" =>
         \/ fl[ch[i].fd][ch[i].filter] # "none"
         \/ \E j \in DOMAIN ch : j < i /\ Adds(ch[j], ch[i].fd, ch[i].filter)
    /\ \A f \in cl, t \in Filter :
         fl[f][t] # "none" \/ \E j \in DOMAIN ch : Adds(ch[j], f, t)

\* WillBeOn, of any list and filters
On(ch, fl, f, t) ==
    \/ \E i \in DOMAIN ch :
         /\ About(ch[i], f, t) /\ ch[i].op = "add"
         /\ \A j \in DOMAIN ch : j > i => ~About(ch[j], f, t)
    \/ /\ \A j \in DOMAIN ch : ~About(ch[j], f, t)
       /\ fl[f][t] = "on"

NobodyForgotten(ch, fl, cl, pending) ==
    \A f \in cl :
        /\ f \in pending => On(ch, fl, f, "WRITE")
        /\ f \notin pending => On(ch, fl, f, "READ")

ErrorsStale(ev) == \A i \in DOMAIN ev : ev[i].filter = "ERROR" => ev[i].stale

Good ==
    /\ EntriesGood(changes, filter, clients)
    /\ NobodyForgotten(changes, filter, clients, sendData)
    /\ ErrorsStale(events)

LInv == TypeOK /\ PhaseOK /\ Good

FilterType == [Fd -> [Filter -> {"none", "on", "off"}]]

--------------------------------------------------------------------------------
(* Lists of changes *)

LEMMA EntryType ==
    ASSUME NEW f \in Fd, NEW t \in Filter, NEW op \in {"add", "disable"}
    PROVE  /\ Entry(f, t, op) \in Change
           /\ ~Entry(f, t, op).stale /\ Entry(f, t, op).fd = f
           /\ Entry(f, t, op).filter = t /\ Entry(f, t, op).op = op
BY DEF Entry, Change

LEMMA MapIsSeq ==
    ASSUME NEW S, NEW n \in Nat, NEW m, m = [i \in 1..n |-> m[i]], \A i \in 1..n : m[i] \in S
    PROVE  m \in Seq(S) /\ Len(m) = n
<1>1. m \in [1..n -> S]
  OBVIOUS
<1>2. m \in Seq(S)
  BY <1>1
<1> QED
  BY <1>1, <1>2

LEMMA OutlivedIsMap ==
    ASSUME NEW S, NEW s \in Seq(S), NEW f
    PROVE  /\ Len(s) \in Nat /\ DOMAIN s = 1..Len(s)
           /\ Outlived(s, f) = [i \in 1..Len(s) |-> Outlived(s, f)[i]]
           /\ DOMAIN Outlived(s, f) = DOMAIN s
           /\ \A i \in DOMAIN s :
                Outlived(s, f)[i] = [s[i] EXCEPT !.stale = s[i].stale \/ s[i].fd = f]
<1>1. Len(s) \in Nat /\ DOMAIN s = 1..Len(s)
  OBVIOUS
<1> QED
  BY <1>1, Zenon DEF Outlived

LEMMA OutlivedChanges ==
    ASSUME NEW s \in Seq(Change), NEW f \in Fd
    PROVE  /\ Outlived(s, f) \in Seq(Change)
           /\ DOMAIN Outlived(s, f) = DOMAIN s
           /\ \A i \in DOMAIN s :
                /\ Outlived(s, f)[i].fd = s[i].fd
                /\ Outlived(s, f)[i].filter = s[i].filter
                /\ Outlived(s, f)[i].op = s[i].op
                /\ ~Outlived(s, f)[i].stale => ~s[i].stale /\ s[i].fd # f
<1>1. \A i \in DOMAIN s : s[i] \in Change
  OBVIOUS
<1>2. ASSUME NEW i \in DOMAIN s
      PROVE  /\ Outlived(s, f)[i] \in Change
             /\ Outlived(s, f)[i].fd = s[i].fd
             /\ Outlived(s, f)[i].filter = s[i].filter
             /\ Outlived(s, f)[i].op = s[i].op
             /\ Outlived(s, f)[i].stale = (s[i].stale \/ s[i].fd = f)
  <2>1. Outlived(s, f)[i] = [s[i] EXCEPT !.stale = s[i].stale \/ s[i].fd = f]
    BY OutlivedIsMap
  <2> QED
    BY <1>1, <2>1 DEF Change
<1>3. Outlived(s, f) \in Seq(Change)
  BY <1>2, OutlivedIsMap, MapIsSeq
<1> QED
  BY <1>2, <1>3, OutlivedIsMap

LEMMA OutlivedEvents ==
    ASSUME NEW s \in Seq(Event), NEW f \in Fd
    PROVE  /\ Outlived(s, f) \in Seq(Event)
           /\ Len(Outlived(s, f)) = Len(s)
           /\ ErrorsStale(s) => ErrorsStale(Outlived(s, f))
<1>1. \A i \in DOMAIN s : s[i] \in Event
  OBVIOUS
<1>2. DOMAIN Outlived(s, f) = DOMAIN s
  BY OutlivedIsMap
<1>3. ASSUME NEW i \in DOMAIN s
      PROVE  /\ Outlived(s, f)[i] \in Event
             /\ Outlived(s, f)[i].filter = s[i].filter
             /\ s[i].stale => Outlived(s, f)[i].stale
  <2>1. Outlived(s, f)[i] = [s[i] EXCEPT !.stale = s[i].stale \/ s[i].fd = f]
    BY OutlivedIsMap
  <2> QED
    BY <1>1, <2>1 DEF Event
<1>4. Outlived(s, f) \in Seq(Event) /\ Len(Outlived(s, f)) = Len(s)
  BY <1>3, OutlivedIsMap, MapIsSeq
<1>5. ErrorsStale(s) => ErrorsStale(Outlived(s, f))
  BY <1>2, <1>3 DEF ErrorsStale
<1> QED
  BY <1>4, <1>5

\* One more entry for a connected client
LEMMA AppendGood ==
    ASSUME NEW ch \in Seq(Change), NEW fl \in FilterType, NEW cl \in SUBSET Fd,
           EntriesGood(ch, fl, cl), NEW e \in Change, ~e.stale, e.fd \in cl
    PROVE  EntriesGood(Append(ch, e), fl, cl)
<1> DEFINE new == Append(ch, e)
<1>1. /\ DOMAIN new = 1..(Len(ch) + 1) /\ DOMAIN ch = 1..Len(ch) /\ Len(ch) \in Nat
      /\ \A i \in DOMAIN ch : new[i] = ch[i]
      /\ new[Len(ch) + 1] = e
  OBVIOUS
<1> HIDE DEF new
<1>2. \A i \in DOMAIN new : ~new[i].stale => new[i].fd \in cl
  BY <1>1 DEF EntriesGood
<1>3. \A f \in cl, t \in Filter :
         fl[f][t] # "none" \/ \E j \in DOMAIN ch : Adds(ch[j], f, t)
  BY DEF EntriesGood
<1>4. \A f \in cl, t \in Filter :
         fl[f][t] # "none" \/ \E j \in DOMAIN new : Adds(new[j], f, t)
  BY <1>1, <1>3
<1>5. ASSUME NEW i \in DOMAIN new, ~new[i].stale, new[i].op = "disable"
      PROVE  \/ fl[new[i].fd][new[i].filter] # "none"
             \/ \E j \in DOMAIN new : j < i /\ Adds(new[j], new[i].fd, new[i].filter)
  <2>1. CASE i \in DOMAIN ch
    <3>1. \/ fl[ch[i].fd][ch[i].filter] # "none"
          \/ \E j \in DOMAIN ch : j < i /\ Adds(ch[j], ch[i].fd, ch[i].filter)
      BY <1>1, <1>5, <2>1 DEF EntriesGood
    <3> QED
      BY <1>1, <2>1, <3>1
  <2>2. CASE i = Len(ch) + 1
    <3>1. e.filter \in Filter
      BY DEF Change
    <3>2. fl[e.fd][e.filter] # "none" \/ \E j \in DOMAIN ch : Adds(ch[j], e.fd, e.filter)
      BY <1>3, <3>1
    <3> QED
      BY <1>1, <2>2, <3>2
  <2> QED
    BY <1>1, <2>1, <2>2
<1> QED
  BY <1>2, <1>4, <1>5 DEF EntriesGood, new

LEMMA AppendOn ==
    ASSUME NEW ch \in Seq(Change), NEW fl, NEW f, NEW t, NEW e \in Change,
           Adds(e, f, t) \/ (~About(e, f, t) /\ On(ch, fl, f, t))
    PROVE  On(Append(ch, e), fl, f, t)
<1> DEFINE new == Append(ch, e)
<1>1. /\ DOMAIN new = 1..(Len(ch) + 1) /\ DOMAIN ch = 1..Len(ch) /\ Len(ch) \in Nat
      /\ \A i \in DOMAIN ch : new[i] = ch[i]
      /\ new[Len(ch) + 1] = e
  OBVIOUS
<1> HIDE DEF new
<1>2. CASE Adds(e, f, t)
  BY <1>1, <1>2 DEF On, Adds, new
<1>3. CASE ~About(e, f, t) /\ On(ch, fl, f, t)
  <2>1. CASE \E i \in DOMAIN ch :
               /\ About(ch[i], f, t) /\ ch[i].op = "add"
               /\ \A j \in DOMAIN ch : j > i => ~About(ch[j], f, t)
    BY <1>1, <1>3, <2>1 DEF On, new
  <2>2. CASE (\A j \in DOMAIN ch : ~About(ch[j], f, t)) /\ fl[f][t] = "on"
    BY <1>1, <1>3, <2>2 DEF On, new
  <2> QED
    BY <1>3, <2>1, <2>2 DEF On
<1> QED
  BY <1>2, <1>3

\* What the loop appends is two entries, or one.
LEMMA AppendTwo ==
    ASSUME NEW ch \in Seq(Change), NEW a \in Change, NEW b \in Change
    PROVE  /\ ch \o <<a, b>> = Append(Append(ch, a), b)
           /\ ch \o <<a, b>> \in Seq(Change)
OBVIOUS

LEMMA TailGood ==
    ASSUME NEW ch \in Seq(Change), ch # <<>>, NEW cl \in SUBSET Fd,
           NEW fl \in FilterType, NEW new \in FilterType, EntriesGood(ch, fl, cl),
           \A f \in cl, t \in Filter : fl[f][t] # "none" => new[f][t] # "none",
           \A f \in cl, t \in Filter : Adds(Head(ch), f, t) => new[f][t] # "none"
    PROVE  EntriesGood(Tail(ch), new, cl)
<1> DEFINE rest == Tail(ch)
<1>1. /\ Len(ch) \in Nat \ {0} /\ DOMAIN ch = 1..Len(ch)
      /\ DOMAIN rest = 1..(Len(ch) - 1) /\ Head(ch) = ch[1]
      /\ \A i \in DOMAIN rest : rest[i] = ch[i + 1] /\ rest[i] \in Change
  OBVIOUS
<1> HIDE DEF rest
<1>2. \A i \in DOMAIN rest : ~rest[i].stale => rest[i].fd \in cl
  BY <1>1 DEF EntriesGood
<1>3. ASSUME NEW f \in cl, NEW t \in Filter, NEW j \in DOMAIN ch, Adds(ch[j], f, t)
      PROVE  new[f][t] # "none" \/ (j - 1 \in DOMAIN rest /\ Adds(rest[j - 1], f, t))
  <2>1. CASE j = 1
    BY <1>1, <1>3, <2>1
  <2>2. CASE j # 1
    BY <1>1, <1>3, <2>2
  <2> QED
    BY <2>1, <2>2
<1>4. ASSUME NEW f \in cl, NEW t \in Filter
      PROVE  new[f][t] # "none" \/ \E j \in DOMAIN rest : Adds(rest[j], f, t)
  <2>1. fl[f][t] # "none" \/ \E j \in DOMAIN ch : Adds(ch[j], f, t)
    BY DEF EntriesGood
  <2> QED
    BY <1>3, <2>1
<1>5. ASSUME NEW i \in DOMAIN rest, ~rest[i].stale, rest[i].op = "disable"
      PROVE  \/ new[rest[i].fd][rest[i].filter] # "none"
             \/ \E j \in DOMAIN rest : j < i /\ Adds(rest[j], rest[i].fd, rest[i].filter)
  <2>1. rest[i] = ch[i + 1] /\ i + 1 \in DOMAIN ch /\ rest[i].fd \in cl /\ rest[i].filter \in Filter
    BY <1>1, <1>2, <1>5 DEF Change
  <2>2. CASE fl[rest[i].fd][rest[i].filter] # "none"
    BY <2>1, <2>2
  <2>3. CASE \E j \in DOMAIN ch : j < i + 1 /\ Adds(ch[j], rest[i].fd, rest[i].filter)
    <3>1. PICK j \in DOMAIN ch : j < i + 1 /\ Adds(ch[j], rest[i].fd, rest[i].filter)
      BY <2>3
    <3>2. j - 1 < i
      BY <1>1, <3>1
    <3> QED
      BY <1>3, <2>1, <3>1, <3>2
  <2> QED
    BY <1>5, <2>1, <2>2, <2>3 DEF EntriesGood
<1> QED
  BY <1>2, <1>4, <1>5 DEF EntriesGood, rest

LEMMA TailOn ==
    ASSUME NEW ch \in Seq(Change), ch # <<>>, NEW fl, NEW new, NEW f, NEW t,
           On(ch, fl, f, t),
           ~About(Head(ch), f, t) => new[f][t] = fl[f][t],
           Adds(Head(ch), f, t) => new[f][t] = "on"
    PROVE  On(Tail(ch), new, f, t)
<1> DEFINE rest == Tail(ch)
<1>1. /\ Len(ch) \in Nat \ {0} /\ DOMAIN ch = 1..Len(ch)
      /\ DOMAIN rest = 1..(Len(ch) - 1) /\ Head(ch) = ch[1]
      /\ \A i \in DOMAIN rest : rest[i] = ch[i + 1]
  OBVIOUS
<1> HIDE DEF rest
<1>2. CASE \E i \in DOMAIN ch :
             /\ About(ch[i], f, t) /\ ch[i].op = "add"
             /\ \A j \in DOMAIN ch : j > i => ~About(ch[j], f, t)
  <2>1. PICK i \in DOMAIN ch :
             /\ About(ch[i], f, t) /\ ch[i].op = "add"
             /\ \A j \in DOMAIN ch : j > i => ~About(ch[j], f, t)
    BY <1>2
  <2>2. CASE i = 1
    <3>1. \A j \in DOMAIN rest : ~About(rest[j], f, t)
      BY <1>1, <2>1, <2>2
    <3> QED
      BY <1>1, <2>1, <2>2, <3>1 DEF On, Adds, rest
  <2>3. CASE i # 1
    <3>1. i - 1 \in DOMAIN rest /\ rest[i - 1] = ch[i]
      BY <1>1, <2>3
    <3>2. \A j \in DOMAIN rest : j > i - 1 => ~About(rest[j], f, t)
      BY <1>1, <2>1
    <3> QED
      BY <2>1, <3>1, <3>2 DEF On, rest
  <2> QED
    BY <2>2, <2>3
<1>3. CASE (\A j \in DOMAIN ch : ~About(ch[j], f, t)) /\ fl[f][t] = "on"
  BY <1>1, <1>3 DEF On, rest
<1> QED
  BY <1>2, <1>3 DEF On

\* A connection ends: its entries become stale, those of the others stay as good.
LEMMA OutlivedGood ==
    ASSUME NEW ch \in Seq(Change), NEW cl \in SUBSET Fd, NEW fl \in FilterType,
           NEW new \in FilterType, EntriesGood(ch, fl, cl), NEW f \in Fd,
           \A g \in Fd \ {f} : new[g] = fl[g]
    PROVE  EntriesGood(Outlived(ch, f), new, cl \ {f})
<1> DEFINE marked == Outlived(ch, f)
<1>1. /\ DOMAIN marked = DOMAIN ch
      /\ \A i \in DOMAIN ch :
           /\ ch[i] \in Change
           /\ marked[i].fd = ch[i].fd
           /\ marked[i].filter = ch[i].filter
           /\ marked[i].op = ch[i].op
           /\ ~marked[i].stale => ~ch[i].stale /\ ch[i].fd # f
  BY OutlivedChanges
<1> HIDE DEF marked
<1>2. \A i \in DOMAIN ch : \A g, t : Adds(ch[i], g, t) => Adds(marked[i], g, t)
  BY <1>1 DEF Adds, About
<1>3. \A i \in DOMAIN marked : ~marked[i].stale => marked[i].fd \in cl \ {f}
  BY <1>1 DEF EntriesGood
<1>4. ASSUME NEW g \in cl \ {f}, NEW t \in Filter
      PROVE  new[g][t] # "none" \/ \E j \in DOMAIN marked : Adds(marked[j], g, t)
  <2>1. fl[g][t] # "none" \/ \E j \in DOMAIN ch : Adds(ch[j], g, t)
    BY DEF EntriesGood
  <2> QED
    BY <1>1, <1>2, <2>1
<1>5. ASSUME NEW i \in DOMAIN marked, ~marked[i].stale, marked[i].op = "disable"
      PROVE  \/ new[marked[i].fd][marked[i].filter] # "none"
             \/ \E j \in DOMAIN marked : j < i /\ Adds(marked[j], marked[i].fd, marked[i].filter)
  <2>1. \/ fl[ch[i].fd][ch[i].filter] # "none"
        \/ \E j \in DOMAIN ch : j < i /\ Adds(ch[j], ch[i].fd, ch[i].filter)
    BY <1>1, <1>5 DEF EntriesGood
  <2>2. ch[i].fd \in Fd \ {f}
    BY <1>1, <1>5 DEF Change
  <2> QED
    BY <1>1, <1>2, <1>5, <2>1, <2>2
<1> QED
  BY <1>3, <1>4, <1>5 DEF EntriesGood, marked

LEMMA OutlivedOn ==
    ASSUME NEW ch \in Seq(Change), NEW fl, NEW new, NEW f \in Fd, NEW g, NEW t,
           new[g] = fl[g], On(ch, fl, g, t)
    PROVE  On(Outlived(ch, f), new, g, t)
<1> DEFINE marked == Outlived(ch, f)
<1>1. /\ DOMAIN marked = DOMAIN ch
      /\ \A i \in DOMAIN ch :
           About(marked[i], g, t) = About(ch[i], g, t) /\ marked[i].op = ch[i].op
  BY OutlivedChanges DEF About
<1> HIDE DEF marked
<1>2. CASE \E i \in DOMAIN ch :
             /\ About(ch[i], g, t) /\ ch[i].op = "add"
             /\ \A j \in DOMAIN ch : j > i => ~About(ch[j], g, t)
  BY <1>1, <1>2 DEF On, marked
<1>3. CASE (\A j \in DOMAIN ch : ~About(ch[j], g, t)) /\ fl[g][t] = "on"
  BY <1>1, <1>3 DEF On, marked
<1> QED
  BY <1>2, <1>3 DEF On

--------------------------------------------------------------------------------
(* kevent() *)

LEMMA InitLInv == Init => LInv
<1> SUFFICES ASSUME Init PROVE LInv
  OBVIOUS
<1>1. NoFilter \in [Filter -> {"none", "on", "off"}]
  BY DEF NoFilter
<1>2. TypeOK
  BY <1>1 DEF Init, TypeOK
<1> QED
  BY <1>2 DEF Init, LInv, PhaseOK, Good, EntriesGood, NobodyForgotten, ErrorsStale

\* An entry that fails is one for a connection that has ended.
LEMMA FailsIsStale ==
    ASSUME LInv, changes # <<>>, Fails(Head(changes))
    PROVE  /\ Head(changes).stale
           /\ \A f \in clients, t \in Filter : ~Adds(Head(changes), f, t)
<1> DEFINE c == Head(changes)
<1>1. c = changes[1] /\ 1 \in DOMAIN changes /\ c \in Change /\ DOMAIN changes \subseteq Nat \ {0}
  BY DEF LInv, TypeOK
<1> HIDE DEF c
<1>2. Fails(c)
  BY DEF c
<1>3. c.fd \in Fd /\ c.filter \in Filter /\ c.op \in {"add", "disable"}
  BY <1>1 DEF Change
<1>4. ASSUME ~c.stale PROVE FALSE
  <2>1. c.fd \in clients
    BY <1>1, <1>4 DEF LInv, Good, EntriesGood
  <2>2. c.op = "disable" /\ filter[c.fd][c.filter] = "none"
    BY <1>2, <2>1 DEF Fails
  <2>3. \E j \in DOMAIN changes : j < 1 /\ Adds(changes[j], c.fd, c.filter)
    BY <1>1, <1>4, <2>2 DEF LInv, Good, EntriesGood
  <2> QED
    BY <1>1, <2>3
<1>5. \A f \in clients, t \in Filter : ~Adds(c, f, t)
  BY <1>2 DEF Fails, Adds, About
<1> QED
  BY <1>4, <1>5 DEF c

LEMMA ApplyChangeLInv ==
    ASSUME LInv, ApplyChange PROVE LInv'
<1> DEFINE c == Head(changes)
<1>1. /\ At("kevent") /\ changes # <<>> /\ changes' = Tail(changes)
      /\ UNCHANGED <<phase, perClient, network>>
      /\ \/ ~Fails(c) /\ filter' = Applied(c) /\ UNCHANGED <<status, events>>
         \/ /\ Fails(c)
            /\ events' = Append(events, [fd |-> c.fd, filter |-> "ERROR", stale |-> c.stale])
            /\ UNCHANGED <<status, filter>>
         \/ Fails(c) /\ status' = "keventError" /\ UNCHANGED <<events, filter>>
  BY DEF ApplyChange
<1>2. /\ changes \in Seq(Change) /\ c \in Change /\ Tail(changes) \in Seq(Change)
      /\ events \in Seq(Event) /\ filter \in FilterType /\ clients \in SUBSET Fd
  BY <1>1 DEF LInv, TypeOK, FilterType
<1>3. c.fd \in Fd /\ c.filter \in Filter /\ c.op \in {"add", "disable"} /\ c.stale \in BOOLEAN
  BY <1>2 DEF Change
<1>4. Fails(c) => c.stale /\ \A f \in clients, t \in Filter : ~Adds(c, f, t)
  BY <1>1, FailsIsStale
<1> HIDE DEF c
<1>5. /\ filter' \in FilterType
      /\ \A f \in clients, t \in Filter :
           /\ ~About(c, f, t) => filter'[f][t] = filter[f][t]
           /\ Adds(c, f, t) => filter'[f][t] = "on"
           /\ filter[f][t] # "none" => filter'[f][t] # "none"
  <2>1. CASE filter' = Applied(c)
    BY <1>2, <1>3, <2>1 DEF Applied, FilterType, About, Adds
  <2>2. CASE Fails(c) /\ filter' = filter
    BY <1>2, <1>4, <2>2
  <2> QED
    BY <1>1, <2>1, <2>2
<1>6. events' \in Seq(Event) /\ ErrorsStale(events')
  <2>1. CASE events' = events
    BY <1>2, <2>1 DEF LInv, Good
  <2>2. CASE Fails(c) /\ events' = Append(events, [fd |-> c.fd, filter |-> "ERROR", stale |-> c.stale])
    <3>1. [fd |-> c.fd, filter |-> "ERROR", stale |-> c.stale] \in Event
      BY <1>3 DEF Event
    <3>2. \A i \in 1..Len(events) : events[i].filter = "ERROR" => events[i].stale
      BY <1>2 DEF LInv, Good, ErrorsStale
    <3>3. c.stale
      BY <1>4, <2>2
    <3> QED
      BY <1>2, <2>2, <3>1, <3>2, <3>3 DEF ErrorsStale
  <2> QED
    BY <1>1, <2>1, <2>2
<1>7. EntriesGood(changes', filter', clients)
  BY <1>1, <1>2, <1>5, TailGood DEF LInv, Good, c
<1>8. NobodyForgotten(changes', filter', clients, sendData)
  <2>1. ASSUME NEW f \in clients, NEW t \in Filter, On(changes, filter, f, t)
        PROVE  On(changes', filter', f, t)
    BY <1>1, <1>2, <1>5, <2>1, TailOn DEF c
  <2> QED
    BY <2>1 DEF LInv, Good, NobodyForgotten, Filter
<1>9. TypeOK'
  BY <1>1, <1>2, <1>5, <1>6 DEF LInv, TypeOK, FilterType, perClient, network
<1>10. PhaseOK'
  BY <1>1 DEF At, PhaseOK
<1> QED
  BY <1>1, <1>6, <1>7, <1>8, <1>9, <1>10 DEF LInv, Good, perClient

LEMMA ReturnErrorsLInv ==
    ASSUME LInv, ReturnErrors PROVE LInv'
BY DEF LInv, ReturnErrors, TypeOK, PhaseOK, Good, perClient, network

LEMMA CollectLInv ==
    ASSUME LInv, Collect PROVE LInv'
<1>1. PICK n \in 1..MaxEvents : events' \in Batches(n)
  BY DEF Collect
<1>2. n \in Nat \ {0}
  BY EventLoopAssumption
<1>3. \A e \in Ready : e \in Event /\ e.filter # "ERROR"
  <2>1. ASSUME NEW f \in Fd \cup {ServerSocket}, NEW t \in Filter
        PROVE  EventOf(f, t) \in Event /\ EventOf(f, t).filter # "ERROR"
    BY DEF EventOf, Event, Filter
  <2>2. \A e \in Ready : \E f \in Fd \cup {ServerSocket}, t \in Filter : e = EventOf(f, t)
    BY DEF LInv, TypeOK, Ready, Filter
  <2> QED
    BY <2>1, <2>2
<1>4. events' \in [1..n -> Ready]
  BY <1>1 DEF Batches
<1>5. events' \in Seq(Event) /\ events' # <<>>
  <2>1. events' \in [1..n -> Event]
    BY <1>3, <1>4
  <2> QED
    BY <1>2, <2>1
<1>6. ErrorsStale(events')
  BY <1>3, <1>4 DEF ErrorsStale
<1>7. phase' = "event" /\ UNCHANGED <<status, perClient, changes, filter, network>>
  BY DEF Collect
<1>8. TypeOK'
  BY <1>5, <1>7 DEF LInv, TypeOK, perClient, network
<1> QED
  BY <1>5, <1>6, <1>7, <1>8 DEF LInv, PhaseOK, Good, perClient

--------------------------------------------------------------------------------
(* The handling of an event *)

\* The loop goes on behind the first event of the batch.
LEMMA RestOK ==
    ASSUME NEW batch \in Seq(Event), batch # <<>>, ErrorsStale(batch), Rest(batch)
    PROVE  /\ events' \in Seq(Event) /\ ErrorsStale(events')
           /\ phase' \in {"kevent", "event"} /\ PhaseOK'
<1>1. events' \in Seq(Event)
  BY DEF Rest
<1>2. ErrorsStale(events')
  BY DEF Rest, ErrorsStale
<1> QED
  BY <1>1, <1>2 DEF Rest, PhaseOK

LEMMA ClosedLInv ==
    ASSUME LInv, NEW f \in Fd, events # <<>>, Disconnect(f) PROVE LInv'
<1>1. /\ clients' = clients \ {f} /\ closing' = closing \ {f} /\ sendData' = sendData \ {f}
      /\ filter' = [filter EXCEPT ![f] = NoFilter]
      /\ input' = input \ {f} /\ gone' = gone \ {f}
      /\ Rest(Outlived(events, f)) /\ UNCHANGED <<status, waiting>>
      /\ changes' = Outlived(changes, f)
  BY DEF Disconnect, Closed
<1>2. /\ changes \in Seq(Change) /\ events \in Seq(Event) /\ filter \in FilterType
      /\ clients \in SUBSET Fd
  BY DEF LInv, TypeOK, FilterType
<1>3. /\ Outlived(events, f) \in Seq(Event) /\ Outlived(events, f) # <<>>
      /\ ErrorsStale(Outlived(events, f))
  BY <1>2, OutlivedEvents DEF LInv, Good
<1>4. /\ events' \in Seq(Event) /\ ErrorsStale(events')
      /\ phase' \in {"kevent", "event"} /\ PhaseOK'
  BY <1>1, <1>3, RestOK
<1>5. NoFilter \in [Filter -> {"none", "on", "off"}]
  BY DEF NoFilter
<1>6. filter' \in FilterType /\ \A g \in Fd \ {f} : filter'[g] = filter[g]
  BY <1>1, <1>2, <1>5 DEF FilterType
<1>7. changes' \in Seq(Change)
  BY <1>1, <1>2, OutlivedChanges
<1>8. EntriesGood(changes', filter', clients')
  BY <1>1, <1>2, <1>6, OutlivedGood DEF LInv, Good
<1>9. NobodyForgotten(changes', filter', clients', sendData')
  <2>1. ASSUME NEW g \in clients', NEW t, On(changes, filter, g, t)
        PROVE  On(changes', filter', g, t)
    BY <1>1, <1>2, <1>6, <2>1, OutlivedOn
  <2> QED
    BY <1>1, <2>1 DEF LInv, Good, NobodyForgotten
<1>10. TypeOK'
  BY <1>1, <1>4, <1>6, <1>7 DEF LInv, TypeOK, FilterType
<1> QED
  BY <1>4, <1>8, <1>9, <1>10 DEF LInv, Good

LEMMA IgnoredLInv ==
    ASSUME LInv, events # <<>>, Ignored PROVE LInv'
<1>1. Rest(events) /\ UNCHANGED <<status, perClient, changes, filter, network>>
  BY DEF Ignored
<1>2. /\ events' \in Seq(Event) /\ ErrorsStale(events')
      /\ phase' \in {"kevent", "event"} /\ PhaseOK'
  BY <1>1, RestOK DEF LInv, TypeOK, Good
<1>3. TypeOK'
  BY <1>1, <1>2 DEF LInv, TypeOK, perClient, network
<1> QED
  BY <1>1, <1>2, <1>3 DEF LInv, Good, perClient

LEMMA LowestFreeType ==
    ASSUME FreeFd # {} PROVE LowestFree \in Fd \ clients
<1>1. FreeFd \subseteq Nat /\ FreeFd = Fd \ clients
  BY EventLoopAssumption DEF FreeFd, Fd
<1>2. PICK f \in FreeFd : \A g \in FreeFd : ~(<<g, f>> \in OpToRel(<, Nat))
  BY <1>1, NatLessThanWellFounded, WFMin
<1>3. \A g \in FreeFd : g < f => <<g, f>> \in OpToRel(<, Nat)
  BY <1>1 DEF OpToRel
<1>4. \A g \in FreeFd : ~(g < f)
  BY <1>2, <1>3
<1>5. \A g \in FreeFd : f <= g
  BY <1>1, <1>4
<1> QED
  BY <1>1, <1>5 DEF LowestFree

\* An entry for a filter of f is not about other filters.
LEMMA EntryAbout ==
    ASSUME NEW f, NEW t, NEW op, NEW g, NEW u
    PROVE  /\ About(Entry(f, t, op), g, u) <=> f = g /\ t = u
           /\ Adds(Entry(f, t, op), g, u) <=> f = g /\ t = u /\ op = "add"
BY DEF About, Adds, Entry

LEMMA HandleAcceptLInv ==
    ASSUME LInv, HandleAccept PROVE LInv'
<1>1. CASE status' = "acceptError" /\ UNCHANGED <<phase, perClient, changes, events, filter, network>>
  BY <1>1 DEF LInv, TypeOK, PhaseOK, Good, perClient, network
<1>2. CASE /\ waiting > 0 /\ FreeFd # {} /\ waiting' = waiting - 1
           /\ clients' = clients \cup {LowestFree}
           /\ changes' = changes \o Registered(LowestFree)
           /\ Rest(events)
           /\ UNCHANGED <<status, closing, sendData, filter, input, gone>>
  <2> DEFINE f == LowestFree
             a == Entry(f, "READ", "add")
             b == Entry(f, "WRITE", "add")
  <2>1. f \in Fd \ clients
    BY <1>2, LowestFreeType
  <2> HIDE DEF f
  <2>2. /\ events # <<>> /\ events \in Seq(Event)
        /\ changes \in Seq(Change) /\ filter \in FilterType /\ clients \in SUBSET Fd
    BY DEF HandleAccept, Handling, At, LInv, PhaseOK, TypeOK, FilterType
  <2>3. /\ a \in Change /\ ~a.stale /\ a.fd = f /\ b \in Change /\ ~b.stale /\ b.fd = f
    BY <2>1, EntryType DEF Filter
  <2>4. /\ changes' = Append(Append(changes, a), b) /\ changes' \in Seq(Change)
        /\ Append(changes, a) \in Seq(Change)
    BY <1>2, <2>2, <2>3, AppendTwo DEF Registered, f
  <2>5. /\ events' \in Seq(Event) /\ ErrorsStale(events')
        /\ phase' \in {"kevent", "event"} /\ PhaseOK'
    BY <1>2, <2>2, RestOK DEF LInv, Good
  <2>6. clients' = clients \cup {f} /\ clients' \in SUBSET Fd
    BY <1>2, <2>1, <2>2 DEF f
  <2>7. \A t \in Filter : Adds(a, f, t) \/ Adds(b, f, t)
    BY EntryAbout DEF Filter
  <2>8. EntriesGood(changes', filter, clients')
    <3>1. /\ DOMAIN changes' = 1..(Len(changes) + 2) /\ DOMAIN changes = 1..Len(changes)
          /\ Len(changes) \in Nat
          /\ \A i \in DOMAIN changes : changes'[i] = changes[i]
          /\ changes'[Len(changes) + 1] = a /\ changes'[Len(changes) + 2] = b
      BY <2>2, <2>3, <2>4
    <3>2. a.op = "add" /\ b.op = "add"
      BY DEF Entry
    <3> HIDE DEF a, b
    <3>3. \A i \in DOMAIN changes' : i \in DOMAIN changes \/ changes'[i] \in {a, b}
      BY <3>1
    <3>4. \A i \in DOMAIN changes' : ~changes'[i].stale => changes'[i].fd \in clients'
      BY <2>3, <2>6, <3>1, <3>3 DEF LInv, Good, EntriesGood
    <3>5. ASSUME NEW i \in DOMAIN changes', ~changes'[i].stale, changes'[i].op = "disable"
          PROVE  \/ filter[changes'[i].fd][changes'[i].filter] # "none"
                 \/ \E j \in DOMAIN changes' :
                      j < i /\ Adds(changes'[j], changes'[i].fd, changes'[i].filter)
      <4>1. i \in DOMAIN changes
        BY <3>2, <3>3, <3>5
      <4>2. \/ filter[changes[i].fd][changes[i].filter] # "none"
            \/ \E j \in DOMAIN changes :
                 j < i /\ Adds(changes[j], changes[i].fd, changes[i].filter)
        BY <3>1, <3>5, <4>1 DEF LInv, Good, EntriesGood
      <4> QED
        BY <3>1, <4>1, <4>2
    <3>6. ASSUME NEW g \in clients', NEW t \in Filter
          PROVE  filter[g][t] # "none" \/ \E j \in DOMAIN changes' : Adds(changes'[j], g, t)
      <4>1. CASE g = f
        BY <2>7, <3>1, <4>1
      <4>2. CASE g \in clients
        <5>1. filter[g][t] # "none" \/ \E j \in DOMAIN changes : Adds(changes[j], g, t)
          BY <4>2 DEF LInv, Good, EntriesGood
        <5> QED
          BY <3>1, <5>1
      <4> QED
        BY <2>6, <4>1, <4>2
    <3> QED
      BY <3>4, <3>5, <3>6 DEF EntriesGood
  <2>9. NobodyForgotten(changes', filter, clients', sendData)
    <3>1. ASSUME NEW g \in clients, NEW t, On(changes, filter, g, t)
          PROVE  On(changes', filter, g, t)
      <4>1. ~About(a, g, t) /\ ~About(b, g, t)
        BY <2>1, EntryAbout
      <4> QED
        BY <2>2, <2>3, <2>4, <3>1, <4>1, AppendOn
    <3>2. On(changes', filter, f, "READ")
      <4>1. Adds(a, f, "READ") /\ ~About(b, f, "READ")
        BY EntryAbout
      <4>2. On(Append(changes, a), filter, f, "READ")
        BY <2>2, <2>3, <4>1, AppendOn
      <4> QED
        BY <2>3, <2>4, <4>1, <4>2, AppendOn
    <3>3. f \notin sendData
      BY <2>1 DEF LInv, TypeOK
    <3> QED
      BY <2>6, <3>1, <3>2, <3>3 DEF LInv, Good, NobodyForgotten
  <2>10. TypeOK'
    <3>1. waiting' \in Nat
      BY <1>2 DEF LInv, TypeOK
    <3> QED
      BY <1>2, <2>4, <2>5, <2>6, <3>1 DEF LInv, TypeOK, FilterType
  <2> QED
    BY <1>2, <2>5, <2>8, <2>9, <2>10 DEF LInv, Good
<1> QED
  BY <1>1, <1>2 DEF HandleAccept

\* One more entry at the end of change_list, for a connected client
LEMMA OneMore ==
    ASSUME NEW ch \in Seq(Change), NEW cl \in SUBSET Fd, EntriesGood(ch, filter, cl),
           filter \in FilterType, NEW f \in cl, NEW t \in Filter, NEW op \in {"add", "disable"}
    PROVE  /\ Append(ch, Entry(f, t, op)) \in Seq(Change)
           /\ EntriesGood(Append(ch, Entry(f, t, op)), filter, cl)
           /\ \A g, u : On(ch, filter, g, u) /\ (f # g \/ t # u) =>
                On(Append(ch, Entry(f, t, op)), filter, g, u)
           /\ op = "add" => On(Append(ch, Entry(f, t, op)), filter, f, t)
<1>1. Entry(f, t, op) \in Change /\ ~Entry(f, t, op).stale /\ Entry(f, t, op).fd = f
  BY EntryType
<1>2. EntriesGood(Append(ch, Entry(f, t, op)), filter, cl)
  BY <1>1, AppendGood
<1>3. ASSUME NEW g, NEW u, On(ch, filter, g, u), f # g \/ t # u
      PROVE  On(Append(ch, Entry(f, t, op)), filter, g, u)
  BY <1>1, <1>3, EntryAbout, AppendOn
<1>4. op = "add" => On(Append(ch, Entry(f, t, op)), filter, f, t)
  BY <1>1, EntryAbout, AppendOn
<1> QED
  BY <1>1, <1>2, <1>3, <1>4

\* A filter of a client switched off, and the other one switched on
LEMMA Switched ==
    ASSUME LInv, NEW f \in clients, NEW off \in Filter, NEW on \in Filter, off # on,
           changes' = changes \o <<Entry(f, off, "disable"), Entry(f, on, "add")>>
    PROVE  /\ changes' \in Seq(Change) /\ EntriesGood(changes', filter, clients)
           /\ \A g \in clients \ {f}, t \in Filter :
                On(changes, filter, g, t) => On(changes', filter, g, t)
           /\ On(changes', filter, f, on)
<1> DEFINE a == Entry(f, off, "disable")
           b == Entry(f, on, "add")
           first == Append(changes, a)
<1>1. /\ changes \in Seq(Change) /\ filter \in FilterType /\ clients \in SUBSET Fd
      /\ EntriesGood(changes, filter, clients)
  BY DEF LInv, TypeOK, FilterType, Good
<1>2. a \in Change /\ b \in Change
  BY <1>1, EntryType
<1>3. changes' = Append(first, b)
  BY <1>1, <1>2, AppendTwo
<1>4. /\ first \in Seq(Change) /\ EntriesGood(first, filter, clients)
      /\ \A g, t : On(changes, filter, g, t) /\ f # g => On(first, filter, g, t)
  BY <1>1, OneMore
<1> HIDE DEF first
<1>5. /\ Append(first, b) \in Seq(Change) /\ EntriesGood(Append(first, b), filter, clients)
      /\ \A g, t : On(first, filter, g, t) /\ f # g => On(Append(first, b), filter, g, t)
      /\ On(Append(first, b), filter, f, on)
  BY <1>1, <1>4, OneMore
<1> QED
  BY <1>3, <1>4, <1>5

LEMMA HandleReadLInv ==
    ASSUME LInv, NEW f \in Fd, HandleRead(f) PROVE LInv'
<1>1. events # <<>> /\ Head(events).fd = f
  BY DEF HandleRead, Handling, At, LInv, PhaseOK
<1>2. CASE Ignored \/ Disconnect(f)
  BY <1>1, <1>2, IgnoredLInv, ClosedLInv
<1>3. CASE /\ f \in input /\ input' = input \ {f} /\ phase' = "parse"
           /\ UNCHANGED <<status, perClient, changes, events, filter, waiting, gone>>
  <2>1. f \in clients
    BY <1>3 DEF LInv, TypeOK
  <2>2. TypeOK' /\ PhaseOK'
    BY <1>1, <1>3, <2>1 DEF LInv, TypeOK, PhaseOK, perClient
  <2> QED
    BY <1>3, <2>2 DEF LInv, Good, perClient
<1> QED
  BY <1>2, <1>3 DEF HandleRead

LEMMA MessageLInv ==
    ASSUME LInv, NEW f \in Fd, NEW g \in Fd, Message(f, g) PROVE LInv'
<1>1. /\ g \in clients /\ sendData' = sendData \cup {g}
      /\ changes' = Append(changes, Entry(g, "WRITE", "add"))
      /\ UNCHANGED <<status, phase, clients, closing, events, filter, network>>
  BY DEF Message
<1>2. /\ changes \in Seq(Change) /\ filter \in FilterType /\ clients \in SUBSET Fd
      /\ EntriesGood(changes, filter, clients)
  BY DEF LInv, TypeOK, FilterType, Good
<1>3. /\ changes' \in Seq(Change) /\ EntriesGood(changes', filter, clients)
      /\ \A h, t : On(changes, filter, h, t) /\ (g # h \/ t # "WRITE") =>
           On(changes', filter, h, t)
      /\ On(changes', filter, g, "WRITE")
  BY <1>1, <1>2, OneMore DEF Filter
<1>4. NobodyForgotten(changes', filter, clients, sendData')
  BY <1>1, <1>3 DEF LInv, Good, NobodyForgotten
<1>5. TypeOK' /\ PhaseOK'
  BY <1>1, <1>3 DEF LInv, TypeOK, PhaseOK, network
<1> QED
  BY <1>1, <1>3, <1>4, <1>5 DEF LInv, Good

LEMMA ParseEndLInv ==
    ASSUME LInv, NEW f \in Fd, ParseEnd(f) PROVE LInv'
<1>1. /\ phase = "parse" /\ Head(events).fd = f /\ sendData' \in {sendData, sendData \cup {f}}
      /\ closing' \in {closing, closing \cup {f}}
      /\ changes' = changes \o SwitchToWrite(f, sendData')
      /\ Rest(events) /\ UNCHANGED <<status, clients, filter, network>>
  BY DEF ParseEnd, Parsing, At
<1>2. /\ f \in clients /\ events # <<>> /\ events \in Seq(Event) /\ changes \in Seq(Change)
      /\ EntriesGood(changes, filter, clients) /\ ErrorsStale(events)
  BY <1>1 DEF LInv, TypeOK, PhaseOK, Good
<1>3. /\ events' \in Seq(Event) /\ ErrorsStale(events')
      /\ phase' \in {"kevent", "event"} /\ PhaseOK'
  BY <1>1, <1>2, RestOK
<1>4. /\ changes' \in Seq(Change) /\ EntriesGood(changes', filter, clients)
      /\ NobodyForgotten(changes', filter, clients, sendData')
  <2>1. CASE f \in sendData'
    <3>1. changes' = changes \o <<Entry(f, "READ", "disable"), Entry(f, "WRITE", "add")>>
      BY <1>1, <2>1 DEF SwitchToWrite
    <3>2. /\ changes' \in Seq(Change) /\ EntriesGood(changes', filter, clients)
          /\ \A g \in clients \ {f}, t \in Filter :
               On(changes, filter, g, t) => On(changes', filter, g, t)
          /\ On(changes', filter, f, "WRITE")
      BY <1>2, <3>1, Switched DEF Filter
    <3> QED
      BY <1>1, <2>1, <3>2 DEF LInv, Good, NobodyForgotten, Filter
  <2>2. CASE f \notin sendData'
    <3>1. changes' = changes /\ sendData' = sendData
      BY <1>1, <1>2, <2>2 DEF SwitchToWrite
    <3> QED
      BY <1>2, <3>1 DEF LInv, Good
  <2> QED
    BY <2>1, <2>2
<1>5. TypeOK'
  BY <1>1, <1>2, <1>3, <1>4 DEF LInv, TypeOK, network
<1> QED
  BY <1>1, <1>3, <1>4, <1>5 DEF LInv, Good

LEMMA FlushedLInv ==
    ASSUME LInv, NEW f \in Fd, events # <<>>, f \in sendData, Flushed(f) PROVE LInv'
<1>1. CASE Disconnect(f)
  BY <1>1, ClosedLInv
<1>2. CASE /\ sendData' = sendData \ {f} /\ changes' = changes \o SwitchToRead(f)
           /\ Rest(events) /\ UNCHANGED <<status, clients, closing, filter, network>>
  <2>1. f \in clients /\ events \in Seq(Event) /\ ErrorsStale(events)
    BY DEF LInv, TypeOK, Good
  <2>2. /\ events' \in Seq(Event) /\ ErrorsStale(events')
        /\ phase' \in {"kevent", "event"} /\ PhaseOK'
    BY <1>2, <2>1, RestOK
  <2>3. /\ changes' \in Seq(Change) /\ EntriesGood(changes', filter, clients)
        /\ \A g \in clients \ {f}, t \in Filter :
             On(changes, filter, g, t) => On(changes', filter, g, t)
        /\ On(changes', filter, f, "READ")
    BY <1>2, <2>1, Switched DEF SwitchToRead, Filter
  <2>4. NobodyForgotten(changes', filter, clients, sendData')
    BY <1>2, <2>3 DEF LInv, Good, NobodyForgotten, Filter
  <2>5. TypeOK'
    BY <1>2, <2>2, <2>3 DEF LInv, TypeOK, network
  <2> QED
    BY <1>2, <2>2, <2>3, <2>4, <2>5 DEF LInv, Good
<1> QED
  BY <1>1, <1>2 DEF Flushed

LEMMA HandleWriteLInv ==
    ASSUME LInv, NEW f \in Fd, HandleWrite(f) PROVE LInv'
<1>1. events # <<>>
  BY DEF HandleWrite, Handling, At, LInv, PhaseOK
<1>2. CASE Ignored \/ Disconnect(f)
  BY <1>1, <1>2, IgnoredLInv, ClosedLInv
<1>3. CASE f \in sendData /\ Flushed(f)
  BY <1>1, <1>3, FlushedLInv
<1>4. CASE status' = "SIGPIPE" /\ UNCHANGED <<phase, perClient, changes, events, filter, network>>
  BY <1>4 DEF LInv, TypeOK, PhaseOK, Good, perClient, network
<1> QED
  BY <1>2, <1>3, <1>4 DEF HandleWrite

LEMMA HandleErrorLInv ==
    ASSUME LInv, NEW f \in Fd, HandleError(f) PROVE LInv'
<1>1. events # <<>> /\ Disconnect(f)
  BY DEF HandleError, Handling, At, LInv, PhaseOK
<1> QED
  BY <1>1, ClosedLInv

LEMMA NetworkLInv ==
    ASSUME LInv, Network PROVE LInv'
<1>1. /\ UNCHANGED <<status, phase, perClient, changes, events, filter>>
      /\ waiting' \in Nat /\ input' \subseteq clients /\ gone' \subseteq clients
  BY DEF Network, Connect, GiveUp, PeerSends, PeerLeaves, LInv, TypeOK
<1> QED
  BY <1>1 DEF LInv, TypeOK, PhaseOK, Good, perClient

LEMMA NextLInv ==
    ASSUME LInv, [Next]_vars PROVE LInv'
<1>1. CASE UNCHANGED vars
  BY <1>1 DEF vars, perClient, network, LInv, TypeOK, PhaseOK, Good
<1> QED
  BY <1>1, ApplyChangeLInv, ReturnErrorsLInv, CollectLInv, HandleAcceptLInv, HandleErrorLInv,
     HandleReadLInv, MessageLInv, ParseEndLInv, HandleWriteLInv, NetworkLInv
  DEF Next, Thread

\* The invariant of the loop, for every number of descriptors and size of a batch
THEOREM LoopInductive == Spec => []LInv
<1>1. Init => LInv
  BY InitLInv
<1>2. LInv /\ [Next]_vars => LInv'
  BY NextLInv
<1> QED
  BY <1>1, <1>2, PTL DEF Spec

\* Type correctness: send_data and the close flags are those of connected clients,
\* whatever events for closed sockets are handled.
THEOREM LoopTypeCorrect == Spec => []TypeOK
<1>1. LInv => TypeOK
  BY DEF LInv
<1> QED
  BY <1>1, LoopInductive, PTL

\* Output is never left without a WRITE event to come, nor a client without output
\* without READ events, whatever entries of closed connections change_list holds.
THEOREM NobodyIsForgotten == Spec => []NoClientForgotten
<1>1. LInv => NoClientForgotten
  BY DEF LInv, Good, NobodyForgotten, NoClientForgotten, On, WillBeOn
<1> QED
  BY <1>1, LoopInductive, PTL

\* kevent() reports errors of entries only that were made for a connection which has
\* ended: the loop does not disconnect a client for an entry of its own.
THEOREM ErrorsAreStale == Spec => []OnlyStaleChangesFail
<1>1. LInv => OnlyStaleChangesFail
  BY DEF LInv, Good, ErrorsStale, OnlyStaleChangesFail
<1> QED
  BY <1>1, LoopInductive, PTL

--------------------------------------------------------------------------------
(* The steps of Connections *)

Step == [Interface!Next]_(Interface!vars)

\* A disconnection: of no client, of one whose last output went out, or of another.
LEMMA DisconnectStep ==
    ASSUME LInv, NEW f \in Fd, status = "running", Disconnect(f) PROVE Step
<1>1. /\ clients' = clients \ {f} /\ closing' = closing \ {f} /\ sendData' = sendData \ {f}
      /\ UNCHANGED status
  BY DEF Disconnect, Closed
<1>2. CASE f \in clients
  <2>1. Interface!Drop(f)
    BY <1>1, <1>2 DEF Interface!Drop, Interface!Gone
  <2> QED
    BY <2>1 DEF Step, Interface!Next
<1>3. CASE f \notin clients
  <2>1. UNCHANGED <<status, clients, closing, sendData>>
    BY <1>1, <1>3 DEF LInv, TypeOK
  <2> QED
    BY <2>1 DEF Step, Interface!vars
<1> QED
  BY <1>2, <1>3

LEMMA FlushedStep ==
    ASSUME LInv, NEW f \in Fd, status = "running", f \in sendData, Flushed(f) PROVE Step
<1>1. CASE Disconnect(f)
  BY <1>1, DisconnectStep
<1>2. CASE f \notin closing /\ sendData' = sendData \ {f} /\ UNCHANGED <<status, clients, closing>>
  <2>1. Interface!Flush(f)
    BY <1>2 DEF Interface!Flush
  <2> QED
    BY <2>1 DEF Step, Interface!Next
<1> QED
  BY <1>1, <1>2 DEF Flushed

LEMMA AcceptStep ==
    ASSUME HandleAccept PROVE Step
<1>1. status = "running"
  BY DEF HandleAccept, Handling, At
<1>2. CASE status' = "acceptError" /\ UNCHANGED perClient
  <2>1. Interface!Stop
    BY <1>1, <1>2 DEF Interface!Stop, perClient
  <2> QED
    BY <2>1 DEF Step, Interface!Next
<1>3. CASE FreeFd # {} /\ clients' = clients \cup {LowestFree} /\ UNCHANGED <<status, closing, sendData>>
  <2>1. Interface!Accept(LowestFree) /\ LowestFree \in Fd
    BY <1>1, <1>3, LowestFreeType DEF Interface!Accept
  <2> QED
    BY <2>1 DEF Step, Interface!Next
<1> QED
  BY <1>2, <1>3 DEF HandleAccept

\* A line of a client that is not closing: a message, or the end of its response
LEMMA ServeStep ==
    ASSUME LInv, NEW f \in Fd, status = "running", f \in clients \ closing,
           NEW T \in SUBSET clients, sendData' = sendData \cup T,
           closing' \in {closing, closing \cup {f}}, f \in closing' => f \in sendData',
           UNCHANGED <<status, clients>>
    PROVE  Step
<1>1. Interface!Serve(f)
  BY DEF Interface!Serve
<1> QED
  BY <1>1 DEF Step, Interface!Next

LEMMA ParseEndStep ==
    ASSUME LInv, NEW f \in Fd, ParseEnd(f) PROVE Step
<1>1. status = "running" /\ f \in clients /\ UNCHANGED <<status, clients>>
  BY DEF ParseEnd, Parsing, At, LInv, PhaseOK
<1>2. CASE UNCHANGED <<sendData, closing>>
  BY <1>1, <1>2 DEF Step, Interface!vars
<1>3. CASE f \notin closing /\ sendData' = sendData \cup {f} /\ closing' \in {closing, closing \cup {f}}
  BY <1>1, <1>3, ServeStep
<1> QED
  BY <1>2, <1>3 DEF ParseEnd

LEMMA MessageStep ==
    ASSUME LInv, NEW f \in Fd, NEW g \in Fd, Message(f, g) PROVE Step
<1>1. /\ status = "running" /\ f \in clients \ closing /\ {g} \in SUBSET clients
      /\ sendData' = sendData \cup {g} /\ UNCHANGED <<status, clients, closing>>
  BY DEF Message, Parsing, At, LInv, PhaseOK
<1> QED
  BY <1>1, ServeStep

LEMMA HandleWriteStep ==
    ASSUME LInv, NEW f \in Fd, HandleWrite(f) PROVE Step
<1>1. status = "running"
  BY DEF HandleWrite, Handling, At
<1>2. CASE Ignored
  BY <1>2 DEF Ignored, perClient, Step, Interface!vars
<1>3. CASE Disconnect(f) \/ (f \in sendData /\ Flushed(f))
  BY <1>1, <1>3, DisconnectStep, FlushedStep
<1>4. CASE status' = "SIGPIPE" /\ UNCHANGED perClient
  <2>1. Interface!Stop
    BY <1>1, <1>4 DEF Interface!Stop, perClient
  <2> QED
    BY <2>1 DEF Step, Interface!Next
<1> QED
  BY <1>2, <1>3, <1>4 DEF HandleWrite

LEMMA ApplyChangeStep ==
    ASSUME ApplyChange PROVE Step
<1>1. /\ status = "running" /\ UNCHANGED perClient
      /\ status' = status \/ status' = "keventError"
  BY DEF ApplyChange, At
<1>2. CASE status' = status
  BY <1>1, <1>2 DEF perClient, Step, Interface!vars
<1>3. CASE status' = "keventError"
  <2>1. Interface!Stop
    BY <1>1, <1>3 DEF Interface!Stop, perClient
  <2> QED
    BY <2>1 DEF Step, Interface!Next
<1> QED
  BY <1>1, <1>2, <1>3

LEMMA NextStep ==
    ASSUME LInv, [Next]_vars PROVE Step
<1>1. CASE UNCHANGED <<status, perClient>>
  BY <1>1 DEF perClient, Step, Interface!vars
<1>2. CASE ReturnErrors \/ Collect \/ Network
  BY <1>1, <1>2 DEF ReturnErrors, Collect, Network, Connect, GiveUp, PeerSends, PeerLeaves
<1>3. ASSUME NEW f \in Fd, HandleError(f) PROVE Step
  BY <1>3, DisconnectStep DEF HandleError, Handling, At
<1>4. ASSUME NEW f \in Fd, HandleRead(f) PROVE Step
  <2>1. status = "running"
    BY <1>4 DEF HandleRead, Handling, At
  <2>2. Disconnect(f) \/ UNCHANGED <<status, perClient>>
    BY <1>4 DEF HandleRead, Ignored
  <2> QED
    BY <1>1, <2>1, <2>2, DisconnectStep
<1> QED
  BY <1>1, <1>2, <1>3, <1>4, ApplyChangeStep, AcceptStep, ParseEndStep, MessageStep,
     HandleWriteStep
  DEF Next, Thread, vars

\* The event loop implements the safety part of Connections, whatever the batches,
\* errors and lost connections: output is never left for a socket that was closed, only
\* connected clients are served, and a client marked close is not served again.
THEOREM LoopImplementsConnections == Spec => Interface!SafeSpec
<1>1. Init => Interface!Init
  BY DEF Init, Interface!Init
<1>2. LInv /\ [Next]_vars => [Interface!Next]_(Interface!vars)
  BY NextStep DEF Step
<1> QED
  BY <1>1, <1>2, LoopInductive, PTL DEF Spec, Interface!SafeSpec

================================================================================
