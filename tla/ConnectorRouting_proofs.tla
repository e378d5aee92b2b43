----------------------- MODULE ConnectorRouting_proofs -----------------------
(***************************************************************************)
(* Theorems about ConnectorRouting, for any connections, channels, buffer  *)
(* sizes and losses.                                                       *)
(***************************************************************************)
EXTENDS ConnectorRouting, SequenceTheorems, TLAPS

(* The list names each client once, and no one who has yet to join.        *)
Listed ==
    /\ \A i, j \in DOMAIN list : list[i] = list[j] => i = j
    /\ \A i \in DOMAIN list : ws[list[i]] # "absent"

(***************************************************************************)
(* The round is the part of the list that ends at the index, which may go  *)
(* past the end of the list and on from its start.                         *)
(***************************************************************************)
Wrapped(p, n) == IF p >= 1 THEN p ELSE p + n

RoundInv ==
    /\ Len(round) <= Len(list)
    /\ round # <<>> => index < Len(list)
    /\ \A i \in DOMAIN round : round[i] = list[Wrapped(index + 1 - (Len(round) - i), Len(list))]

(***************************************************************************)
(* Of the messages s for channel ch, n have been received and the buffer q *)
(* holds the next ones, in order; all the rest of them if it is full.      *)
(***************************************************************************)
Counts(q, ch, n, s, f) ==
    /\ f \in [0..Len(q) -> 0..Len(s)] /\ f[0] = n
    /\ \A i \in 1..Len(q) : IF q[i][1] = ch THEN f[i] = f[i - 1] + 1 /\ q[i][2] = s[f[i]]
                                            ELSE f[i] = f[i - 1]

Carries(q, ch, n, s, full) ==
    \E f : Counts(q, ch, n, s, f) /\ (full => f[Len(q)] = Len(s))

(* A channel has one connector and one client, also in the cache.          *)
Parties(ch) ==
    /\ opener[ch] = None =>
         /\ route[ch] = None /\ said[ch] = <<>> /\ told[ch] = <<>>
         /\ heard[ch].connector = <<>>
    /\ route[ch] = None => heard[ch].client = <<>>
    /\ route[ch] # None => ws[route[ch]] # "absent"
    /\ toClient[ch] # None => toClient[ch] = route[ch]
    /\ toConnector[ch] # None => toConnector[ch] = opener[ch]

(* Its messages are in the buffers of these two only.                      *)
PartyOn(l, ch) == IF l \in Clients THEN route[ch] ELSE opener[ch]

Confined(ch) ==
    \A l \in Links : \A i \in 1..Len(out[l]) : out[l][i][1] = ch => l = PartyOn(l, ch)

(***************************************************************************)
(* Nothing is missing in a buffer while the cache has the connection,      *)
(* except the disconnect of a client, which is not forwarded.              *)
(***************************************************************************)
Ended(ch) == \E i \in 1..Len(told[ch]) : told[ch][i] = "disconnect"

ClientFed(ch) ==
    route[ch] # None =>
        Carries(out[route[ch]], ch, Len(heard[ch].client), said[ch],
                toClient[ch] # None /\ ws[route[ch]] = "open")

ConnectorFed(ch) ==
    opener[ch] # None =>
        Carries(out[opener[ch]], ch, Len(heard[ch].connector), told[ch],
                toConnector[ch] # None /\ ws[opener[ch]] = "open" /\ ~Ended(ch))

ChannelInv(ch) == Parties(ch) /\ Confined(ch) /\ ClientFed(ch) /\ ConnectorFed(ch)

Present == \A k \in Connectors : ws[k] # "absent"

RouteInv ==
    /\ RoutingTypeOK /\ Listed /\ RoundInv /\ Present
    /\ \A ch \in Channels : ChannelInv(ch)
-----------------------------------------------------------------------------
Message == Channels \X Kinds

LEMMA AppendOf ==
  ASSUME NEW S, NEW q \in Seq(S), NEW e \in S
  PROVE  /\ Len(q) \in Nat /\ DOMAIN q = 1..Len(q)
         /\ Append(q, e) \in Seq(S) /\ Len(Append(q, e)) = Len(q) + 1
         /\ DOMAIN Append(q, e) = 1..(Len(q) + 1)
         /\ Append(q, e)[Len(q) + 1] = e
         /\ \A i \in 1..Len(q) : Append(q, e)[i] = q[i]
  BY AppendProperties, LenProperties

LEMMA TailOf ==
  ASSUME NEW S, NEW q \in Seq(S), q # <<>>
  PROVE  /\ Len(q) \in Nat /\ Len(q) >= 1 /\ Head(q) = q[1] /\ q[1] \in S
         /\ Tail(q) \in Seq(S) /\ Len(Tail(q)) = Len(q) - 1
         /\ \A i \in 1..(Len(q) - 1) : Tail(q)[i] = q[i + 1] /\ i + 1 \in 1..Len(q)
<1>1. Len(q) \in Nat /\ Len(q) >= 1
  BY EmptySeq, LenProperties
<1>2. Head(q) = q[1] /\ q[1] \in S
  BY <1>1
<1>3. /\ Tail(q) \in Seq(S) /\ Len(Tail(q)) = Len(q) - 1
      /\ \A i \in 1..Len(Tail(q)) : Tail(q)[i] = q[i + 1]
  BY HeadTailProperties
<1>4. \A i \in 1..(Len(q) - 1) : i + 1 \in 1..Len(q)
  BY <1>1
<1> QED
  BY <1>1, <1>2, <1>3, <1>4

(***************************************************************************)
(* What receiving and sending do to a buffer.                              *)
(***************************************************************************)
LEMMA CarriesWeaken ==
  ASSUME NEW q, NEW ch, NEW n, NEW s, NEW full, NEW less, Carries(q, ch, n, s, full), less => full
  PROVE  Carries(q, ch, n, s, less)
  BY DEF Carries

LEMMA CarriesTail ==
  ASSUME NEW q \in Seq(Message), q # <<>>, NEW ch, NEW n, NEW s \in Seq(Kinds), NEW full,
         Carries(q, ch, n, s, full)
  PROVE  /\ q[1][1] = ch => /\ n \in Nat /\ n < Len(s) /\ q[1][2] = s[n + 1]
                            /\ Carries(Tail(q), ch, n + 1, s, full)
         /\ q[1][1] # ch => Carries(Tail(q), ch, n, s, full)
<1>1. PICK f : Counts(q, ch, n, s, f) /\ (full => f[Len(q)] = Len(s))
  BY DEF Carries
<1>2. /\ Len(q) \in Nat /\ Len(q) >= 1 /\ Len(Tail(q)) = Len(q) - 1
      /\ \A i \in 1..(Len(q) - 1) : Tail(q)[i] = q[i + 1] /\ i + 1 \in 1..Len(q)
      /\ Len(s) \in Nat
  BY TailOf, LenProperties
<1> DEFINE g == [i \in 0..(Len(q) - 1) |-> f[i + 1]]
<1>3. /\ f \in [0..Len(q) -> 0..Len(s)] /\ f[0] = n
      /\ \A i \in 1..Len(q) : IF q[i][1] = ch THEN f[i] = f[i - 1] + 1 /\ q[i][2] = s[f[i]]
                                              ELSE f[i] = f[i - 1]
  BY <1>1 DEF Counts
<1>4. g \in [0..Len(Tail(q)) -> 0..Len(s)]
  <2>1. \A i \in 0..(Len(q) - 1) : i + 1 \in 0..Len(q)
    BY <1>2
  <2> QED
    BY <1>2, <1>3, <2>1
<1>5. ASSUME NEW i \in 1..Len(Tail(q))
      PROVE  IF Tail(q)[i][1] = ch THEN g[i] = g[i - 1] + 1 /\ Tail(q)[i][2] = s[g[i]]
                                   ELSE g[i] = g[i - 1]
  <2>1. /\ i \in 0..(Len(q) - 1) /\ i - 1 \in 0..(Len(q) - 1) /\ (i + 1) - 1 = i /\ (i - 1) + 1 = i
        /\ i \in 1..(Len(q) - 1)
    BY <1>2
  <2>2. g[i] = f[i + 1] /\ g[i - 1] = f[i] /\ Tail(q)[i] = q[i + 1] /\ i + 1 \in 1..Len(q)
    BY <1>2, <2>1
  <2>3. IF q[i + 1][1] = ch THEN f[i + 1] = f[i] + 1 /\ q[i + 1][2] = s[f[i + 1]]
                            ELSE f[i + 1] = f[i]
    BY <1>3, <2>1, <2>2
  <2> HIDE DEF g
  <2> QED
    BY <2>2, <2>3
<1>6. g[0] = f[1] /\ g[Len(Tail(q))] = f[Len(q)]
  <2>1. 0 \in 0..(Len(q) - 1) /\ Len(q) - 1 \in 0..(Len(q) - 1) /\ (Len(q) - 1) + 1 = Len(q)
    BY <1>2
  <2> QED
    BY <1>2, <2>1
<1>7. /\ 1 \in 1..Len(q) /\ f[1] \in 0..Len(s) /\ n \in 0..Len(s)
      /\ IF q[1][1] = ch THEN f[1] = n + 1 /\ q[1][2] = s[f[1]] ELSE f[1] = n
  BY <1>2, <1>3
<1> HIDE DEF g
<1>8. Carries(Tail(q), ch, f[1], s, full)
  BY <1>1, <1>4, <1>5, <1>6 DEF Carries, Counts
<1> QED
  BY <1>2, <1>7, <1>8

LEMMA CarriesAppend ==
  ASSUME NEW q \in Seq(Message), NEW m \in Message, NEW ch, NEW n, NEW s \in Seq(Kinds),
         NEW f, Counts(q, ch, n, s, f), NEW t \in Seq(Kinds), NEW last \in 0..Len(t),
         Len(s) <= Len(t), \A i \in 1..Len(s) : t[i] = s[i],
         IF m[1] = ch THEN last = f[Len(q)] + 1 /\ m[2] = t[last] ELSE last = f[Len(q)],
         NEW full, full => last = Len(t)
  PROVE  Carries(Append(q, m), ch, n, t, full)
<1> DEFINE r == Append(q, m)
           g == [i \in 0..(Len(q) + 1) |-> IF i = Len(q) + 1 THEN last ELSE f[i]]
<1>1. /\ Len(q) \in Nat /\ Len(r) = Len(q) + 1 /\ r[Len(q) + 1] = m
      /\ \A i \in 1..Len(q) : r[i] = q[i]
      /\ Len(s) \in Nat /\ Len(t) \in Nat
  BY AppendOf, LenProperties
<1>2. /\ f \in [0..Len(q) -> 0..Len(s)] /\ f[0] = n
      /\ \A i \in 1..Len(q) : IF q[i][1] = ch THEN f[i] = f[i - 1] + 1 /\ q[i][2] = s[f[i]]
                                              ELSE f[i] = f[i - 1]
  BY DEF Counts
<1> HIDE DEF r
<1>f. \A i \in 0..Len(q) : f[i] \in 0..Len(s) /\ f[i] \in 0..Len(t)
  <2>1. \A i \in 0..Len(q) : f[i] \in 0..Len(s)
    BY <1>2
  <2>2. \A x \in 0..Len(s) : x \in 0..Len(t)
    BY <1>1
  <2> QED
    BY <2>1, <2>2
<1>3. ASSUME NEW i \in 0..(Len(q) + 1), i # Len(q) + 1
      PROVE  i \in 0..Len(q) /\ f[i] \in 0..Len(t)
  <2>1. i \in 0..Len(q)
    BY <1>1, <1>3
  <2> QED
    BY <1>f, <2>1
<1>4. g \in [0..Len(r) -> 0..Len(t)]
  BY <1>1, <1>3
<1>5. g[Len(q) + 1] = last /\ \A i \in 0..Len(q) : g[i] = f[i]
  BY <1>1
<1>6. g[0] = n
  BY <1>1, <1>2, <1>5
<1> HIDE DEF g
<1>7. ASSUME NEW i \in 1..Len(r)
      PROVE  IF r[i][1] = ch THEN g[i] = g[i - 1] + 1 /\ r[i][2] = t[g[i]] ELSE g[i] = g[i - 1]
  <2>1. CASE i = Len(q) + 1
    <3>1. r[i] = m /\ g[i] = last /\ g[i - 1] = f[Len(q)]
      BY <1>1, <1>5, <2>1
    <3> QED
      BY <3>1
  <2>2. CASE i # Len(q) + 1
    <3>1. i \in 1..Len(q) /\ i \in 0..Len(q) /\ i - 1 \in 0..Len(q)
      BY <1>1, <2>2
    <3>2. r[i] = q[i] /\ g[i] = f[i] /\ g[i - 1] = f[i - 1]
      BY <1>1, <1>5, <3>1
    <3>3. f[i - 1] \in Nat /\ f[i] \in 0..Len(s)
      BY <1>f, <3>1
    <3>4. q[i][1] = ch => t[f[i]] = s[f[i]]
      <4>1. q[i][1] = ch => f[i] \in 1..Len(s)
        BY <1>1, <1>2, <3>1, <3>3
      <4> QED
        BY <4>1
    <3> QED
      BY <1>2, <3>1, <3>2, <3>4
  <2> QED
    BY <2>1, <2>2
<1>8. Len(r) = Len(q) + 1
  BY <1>1
<1> QED
  BY <1>4, <1>5, <1>6, <1>7, <1>8 DEF Carries, Counts, r

LEMMA CarriesSend ==
  ASSUME NEW q \in Seq(Message), NEW ch \in Channels, NEW n, NEW s \in Seq(Kinds), NEW kind \in Kinds,
         Carries(q, ch, n, s, TRUE)
  PROVE  Carries(Append(q, <<ch, kind>>), ch, n, Append(s, kind), TRUE)
<1>1. PICK f : Counts(q, ch, n, s, f) /\ f[Len(q)] = Len(s)
  BY DEF Carries
<1> DEFINE t == Append(s, kind)
           m == <<ch, kind>>
<1>2. /\ t \in Seq(Kinds) /\ Len(t) = Len(s) + 1 /\ t[Len(s) + 1] = kind /\ Len(s) \in Nat
      /\ \A i \in 1..Len(s) : t[i] = s[i]
  BY AppendOf
<1>3. m \in Message /\ m[1] = ch /\ m[2] = kind
  BY DEF Message
<1> HIDE DEF t, m
<1>4. /\ Len(t) \in 0..Len(t) /\ Len(s) <= Len(t) /\ Len(t) = f[Len(q)] + 1 /\ m[2] = t[Len(t)]
  BY <1>1, <1>2, <1>3
<1>5. Carries(Append(q, m), ch, n, t, TRUE)
  BY <1>1, <1>2, <1>3, <1>4, CarriesAppend
<1> QED
  BY <1>5 DEF t, m

LEMMA CarriesOther ==
  ASSUME NEW q \in Seq(Message), NEW ch, NEW n, NEW s \in Seq(Kinds), NEW m \in Message, m[1] # ch,
         NEW full, Carries(q, ch, n, s, full)
  PROVE  Carries(Append(q, m), ch, n, s, full)
<1>1. PICK f : Counts(q, ch, n, s, f) /\ (full => f[Len(q)] = Len(s))
  BY DEF Carries
<1>2. Len(q) \in Nat /\ Len(s) \in Nat
  BY LenProperties
<1>3. f[Len(q)] \in 0..Len(s)
  BY <1>1, <1>2 DEF Counts
<1>4. Len(s) <= Len(s)
  BY <1>2
<1> QED
  BY <1>1, <1>3, <1>4, CarriesAppend

LEMMA CarriesSaid ==
  ASSUME NEW q \in Seq(Message), NEW ch, NEW n, NEW s \in Seq(Kinds), NEW kind \in Kinds, NEW full,
         Carries(q, ch, n, s, full)
  PROVE  Carries(q, ch, n, Append(s, kind), FALSE)
<1>1. PICK f : Counts(q, ch, n, s, f)
  BY DEF Carries
<1>2. /\ Len(q) \in Nat /\ Len(s) \in Nat /\ Len(Append(s, kind)) = Len(s) + 1
      /\ \A i \in 1..Len(s) : Append(s, kind)[i] = s[i]
  BY AppendOf, LenProperties
<1>3. /\ f \in [0..Len(q) -> 0..Len(s)] /\ f[0] = n
      /\ \A i \in 1..Len(q) : IF q[i][1] = ch THEN f[i] = f[i - 1] + 1 /\ q[i][2] = s[f[i]]
                                              ELSE f[i] = f[i - 1]
  BY <1>1 DEF Counts
<1>4. f \in [0..Len(q) -> 0..(Len(s) + 1)]
  BY <1>2, <1>3
<1>5. ASSUME NEW i \in 1..Len(q), q[i][1] = ch
      PROVE  Append(s, kind)[f[i]] = s[f[i]]
  <2>1. f[i] = f[i - 1] + 1 /\ f[i] \in 0..Len(s) /\ f[i - 1] \in Nat
    <3>1. i \in 0..Len(q) /\ i - 1 \in 0..Len(q)
      BY <1>2
    <3>2. f[i] \in 0..Len(s) /\ f[i - 1] \in 0..Len(s)
      BY <1>3, <3>1
    <3>3. f[i] = f[i - 1] + 1
      BY <1>3, <1>5
    <3> QED
      BY <3>2, <3>3
  <2>2. f[i] \in 1..Len(s)
    BY <1>2, <2>1
  <2> QED
    BY <1>2, <2>2
<1> QED
  BY <1>2, <1>3, <1>4, <1>5 DEF Carries, Counts

LEMMA CarriesNone ==
  ASSUME NEW q \in Seq(Message), NEW ch, NEW s \in Seq(Kinds), NEW n \in 0..Len(s), NEW full,
         \A i \in 1..Len(q) : q[i][1] # ch, full => n = Len(s)
  PROVE  Carries(q, ch, n, s, full)
<1> DEFINE f == [i \in 0..Len(q) |-> n]
<1>1. Len(q) \in Nat
  BY LenProperties
<1>2. f[0] = n /\ f[Len(q)] = n /\ \A i \in 1..Len(q) : f[i] = n /\ f[i - 1] = n
  BY <1>1
<1>3. f \in [0..Len(q) -> 0..Len(s)]
  OBVIOUS
<1> HIDE DEF f
<1> QED
  BY <1>2, <1>3 DEF Carries, Counts

(* A connection that closes loses what is left.                            *)
LEMMA CarriesLost ==
  ASSUME NEW q \in Seq(Message), NEW ch, NEW n, NEW s \in Seq(Kinds), NEW full,
         Carries(q, ch, n, s, full)
  PROVE  n \in 0..Len(s) /\ Carries(<<>>, ch, n, s, FALSE)
<1>1. PICK f : Counts(q, ch, n, s, f)
  BY DEF Carries
<1>2. Len(q) \in Nat
  BY LenProperties
<1>3. n \in 0..Len(s)
  BY <1>1, <1>2 DEF Counts
<1>4. <<>> \in Seq(Message) /\ Len(<<>>) = 0
  BY EmptySeq
<1>5. \A i \in 1..Len(<<>>) : <<>>[i][1] # ch
  BY <1>4
<1> QED
  BY <1>3, <1>4, <1>5, CarriesNone
-----------------------------------------------------------------------------
(***************************************************************************)
(* The parts of a step.                                                    *)
(***************************************************************************)
(* Nobody comes back: a connection that is not open was not open, or has   *)
(* just joined.                                                            *)
NoneReopens ==
    \A l \in Links : /\ ws'[l] = "open" => ws[l] \in {"open", "absent"}
                     /\ ws'[l] = "absent" => ws[l] = "absent"

LEMMA SendEffect ==
  ASSUME RoutingTypeOK, NEW l \in Links, NEW to \in Links, NEW m \in Message, Send(l, to, m)
  PROVE  /\ ws' \in [Links -> {"absent", "open", "closed", "gone"}]
         /\ out' \in [Links -> Seq(Message)]
         /\ task' \in [Links -> [on : Links \cup {None}, drop : Channels \cup {None}]]
         /\ \A o \in Links : o # to => out'[o] = out[o]
         /\ ws[to] = "open" => ws' = ws /\ out'[to] = Append(out[to], m)
         /\ ws[to] # "open" => out'[to] = out[to] /\ ws'[to] # "open"
         /\ \A o \in Links : ws'[o] \in {ws[o], "closed"}
         /\ NoneReopens
<1>1. /\ ws \in [Links -> {"absent", "open", "closed", "gone"}]
      /\ out \in [Links -> Seq(Message)]
      /\ task \in [Links -> [on : Links \cup {None}, drop : Channels \cup {None}]]
  BY DEF RoutingTypeOK, Message
<1>2. CASE ws[to] = "open"
  <2>1. ws' = ws /\ out' = [out EXCEPT ![to] = Append(@, m)]
    BY <1>2 DEF Send
  <2>2. Append(out[to], m) \in Seq(Message)
    BY <1>1, AppendOf
  <2>3. task' \in [Links -> [on : Links \cup {None}, drop : Channels \cup {None}]]
    <3>1. task' = task \/ task' = [task EXCEPT ![l].on = to]
      BY <1>2 DEF Send
    <3>2. [task[l] EXCEPT !.on = to] \in [on : Links \cup {None}, drop : Channels \cup {None}]
      BY <1>1
    <3> QED
      BY <1>1, <3>1, <3>2
  <2>4. NoneReopens
    BY <2>1 DEF NoneReopens
  <2> QED
    BY <1>1, <1>2, <2>1, <2>2, <2>3, <2>4
<1>3. CASE ws[to] # "open"
  <2>1. ws' = [ws EXCEPT ![l] = "closed"] /\ out' = out /\ task' = task
    BY <1>3 DEF Send
  <2>2. NoneReopens
    BY <1>1, <2>1 DEF NoneReopens
  <2> QED
    BY <1>1, <1>3, <2>1, <2>2
<1> QED
  BY <1>2, <1>3

LEMMA RemoveEffect ==
  ASSUME RoutingTypeOK, NEW chs, RemoveChannels(chs)
  PROVE  /\ toClient' \in [Channels -> Clients \cup {None}]
         /\ toConnector' \in [Channels -> Connectors \cup {None}]
         /\ \A ch \in Channels : /\ toClient'[ch] \in {toClient[ch], None}
                                 /\ toConnector'[ch] \in {toConnector[ch], None}
                                 /\ ch \in chs => toClient'[ch] = None
  BY DEF RemoveChannels, RoutingTypeOK

(* What a step that is not about channel ch may do.                        *)
Moves(ch, l) ==
    \/ out'[l] = out[l]
    \/ out'[l] = <<>> /\ ws'[l] # "open"
    \/ \E m \in Message : m[1] # ch /\ out'[l] = Append(out[l], m)
    \/ out[l] # <<>> /\ out[l][1][1] # ch /\ out'[l] = Tail(out[l])

SameTalk(ch) ==
    /\ opener'[ch] = opener[ch] /\ route'[ch] = route[ch]
    /\ said'[ch] = said[ch] /\ told'[ch] = told[ch] /\ heard'[ch] = heard[ch]

CacheShrinks(ch) ==
    /\ toClient'[ch] \in {toClient[ch], None}
    /\ toConnector'[ch] \in {toConnector[ch], None}

Untouched(ch) ==
    /\ SameTalk(ch) /\ CacheShrinks(ch) /\ NoneReopens
    /\ \A l \in Links : Moves(ch, l)

LEMMA ChannelTypes ==
  ASSUME RoutingTypeOK, NEW ch \in Channels
  PROVE  /\ opener[ch] \in Connectors \cup {None} /\ route[ch] \in Clients \cup {None}
         /\ toClient[ch] \in Clients \cup {None} /\ toConnector[ch] \in Connectors \cup {None}
         /\ said[ch] \in Seq(Kinds) /\ told[ch] \in Seq(Kinds)
         /\ heard[ch].client \in Seq(Links \X Kinds) /\ heard[ch].connector \in Seq(Links \X Kinds)
         /\ Len(heard[ch].client) \in Nat /\ Len(heard[ch].connector) \in Nat
  BY LenProperties DEF RoutingTypeOK

LEMMA PartyTypes ==
  /\ \A l \in Links : l \in Clients \/ l \in Connectors
  /\ \A l \in Clients : l \in Links /\ l \notin Connectors /\ l # None
  /\ \A l \in Connectors : l \in Links /\ l \notin Clients /\ l # None
  BY RoutingAssumption DEF Links

LEMMA CarriesMoves ==
  ASSUME RoutingTypeOK, NEW ch \in Channels, NEW l \in Links, Moves(ch, l),
         NEW n, NEW s \in Seq(Kinds), NEW full, Carries(out[l], ch, n, s, full),
         NEW less, less => full /\ ws'[l] = "open"
  PROVE  Carries(out'[l], ch, n, s, less)
<1>1. out[l] \in Seq(Message)
  BY DEF RoutingTypeOK, Message
<1>2. Carries(out[l], ch, n, s, less)
  BY CarriesWeaken
<1>3. CASE out'[l] = out[l]
  BY <1>2, <1>3
<1>4. CASE out'[l] = <<>> /\ ws'[l] # "open"
  <2>1. Carries(<<>>, ch, n, s, FALSE)
    BY <1>1, CarriesLost
  <2>2. Carries(<<>>, ch, n, s, less)
    BY <1>4, <2>1, CarriesWeaken
  <2> QED
    BY <1>4, <2>2
<1>5. ASSUME NEW m \in Message, m[1] # ch, out'[l] = Append(out[l], m)
      PROVE  Carries(out'[l], ch, n, s, less)
  BY <1>1, <1>2, <1>5, CarriesOther
<1>6. CASE out[l] # <<>> /\ out[l][1][1] # ch /\ out'[l] = Tail(out[l])
  BY <1>1, <1>2, <1>6, CarriesTail
<1> QED
  BY <1>3, <1>4, <1>5, <1>6 DEF Moves

LEMMA ConfinedMoves ==
  ASSUME RoutingTypeOK, NEW ch \in Channels, NEW l \in Links, Moves(ch, l),
         NEW i \in 1..Len(out'[l]), out'[l][i][1] = ch
  PROVE  \E j \in 1..Len(out[l]) : out[l][j][1] = ch
<1>1. out[l] \in Seq(Message) /\ Len(<<>>) = 0
  BY EmptySeq DEF RoutingTypeOK, Message
<1>2. CASE out'[l] = out[l]
  BY <1>2
<1>3. CASE out'[l] = <<>>
  BY <1>1, <1>3
<1>4. ASSUME NEW m \in Message, m[1] # ch, out'[l] = Append(out[l], m)
      PROVE  i \in 1..Len(out[l]) /\ out[l][i][1] = ch
  <2>1. /\ Len(out'[l]) = Len(out[l]) + 1 /\ out'[l][Len(out[l]) + 1] = m /\ Len(out[l]) \in Nat
        /\ \A j \in 1..Len(out[l]) : out'[l][j] = out[l][j]
    BY <1>1, <1>4, AppendOf
  <2>2. i # Len(out[l]) + 1
    BY <1>4, <2>1
  <2>3. i \in 1..Len(out[l])
    BY <2>1, <2>2
  <2> QED
    BY <2>1, <2>3
<1>5. CASE out[l] # <<>> /\ out'[l] = Tail(out[l])
  <2>1. /\ Len(out'[l]) = Len(out[l]) - 1
        /\ \A j \in 1..(Len(out[l]) - 1) : out'[l][j] = out[l][j + 1] /\ j + 1 \in 1..Len(out[l])
    BY <1>1, <1>5, TailOf
  <2> QED
    BY <2>1
<1> QED
  BY <1>2, <1>3, <1>4, <1>5 DEF Moves

(* Steps about other channels keep what is known of this one.              *)
LEMMA UntouchedKept ==
  ASSUME RoutingTypeOK, Present, NEW ch \in Channels, ChannelInv(ch), Untouched(ch)
  PROVE  ChannelInv(ch)'
<1>1. /\ SameTalk(ch) /\ CacheShrinks(ch) /\ NoneReopens
      /\ Parties(ch) /\ Confined(ch) /\ ClientFed(ch) /\ ConnectorFed(ch)
  BY DEF ChannelInv, Untouched
<1>2. /\ opener[ch] # None => opener[ch] \in Connectors /\ opener[ch] \in Links
      /\ route[ch] # None => route[ch] \in Clients /\ route[ch] \in Links
      /\ said[ch] \in Seq(Kinds) /\ told[ch] \in Seq(Kinds)
  BY ChannelTypes, PartyTypes
<1>3. Parties(ch)'
  BY <1>1, <1>2 DEF Parties, SameTalk, CacheShrinks, NoneReopens
<1>4. Confined(ch)'
  <2>1. ASSUME NEW l \in Links, NEW i \in 1..Len(out'[l]), out'[l][i][1] = ch
        PROVE  l = PartyOn(l, ch)'
    <3>1. \E j \in 1..Len(out[l]) : out[l][j][1] = ch
      BY <2>1, ConfinedMoves DEF Untouched
    <3>2. l = PartyOn(l, ch)
      BY <1>1, <3>1 DEF Confined
    <3> QED
      BY <1>1, <3>2 DEF PartyOn, SameTalk
  <2> QED
    BY <2>1 DEF Confined
<1>5. ClientFed(ch)'
  <2>1. SUFFICES ASSUME route[ch] # None
                 PROVE  Carries(out'[route[ch]], ch, Len(heard[ch].client), said[ch],
                                toClient'[ch] # None /\ ws'[route[ch]] = "open")
    BY <1>1 DEF ClientFed, SameTalk
  <2>2. Carries(out[route[ch]], ch, Len(heard[ch].client), said[ch],
                toClient[ch] # None /\ ws[route[ch]] = "open")
    BY <1>1, <2>1 DEF ClientFed
  <2>3. toClient'[ch] # None /\ ws'[route[ch]] = "open"
           => toClient[ch] # None /\ ws[route[ch]] = "open"
    BY <1>1, <1>2, <2>1 DEF CacheShrinks, NoneReopens, Parties
  <2>4. Moves(ch, route[ch])
    BY <1>2, <2>1 DEF Untouched
  <2> QED
    BY <1>2, <2>1, <2>2, <2>3, <2>4, CarriesMoves
<1>6. ConnectorFed(ch)'
  <2>1. SUFFICES ASSUME opener[ch] # None
                 PROVE  Carries(out'[opener[ch]], ch, Len(heard[ch].connector), told[ch],
                                toConnector'[ch] # None /\ ws'[opener[ch]] = "open" /\ ~Ended(ch)')
    BY <1>1 DEF ConnectorFed, SameTalk
  <2>2. Carries(out[opener[ch]], ch, Len(heard[ch].connector), told[ch],
                toConnector[ch] # None /\ ws[opener[ch]] = "open" /\ ~Ended(ch))
    BY <1>1, <2>1 DEF ConnectorFed
  <2>3. toConnector'[ch] # None /\ ws'[opener[ch]] = "open" /\ ~Ended(ch)'
           => toConnector[ch] # None /\ ws[opener[ch]] = "open" /\ ~Ended(ch)
    BY <1>1, <1>2, <2>1 DEF CacheShrinks, NoneReopens, Present, SameTalk, Ended
  <2>4. Moves(ch, opener[ch])
    BY <1>2, <2>1 DEF Untouched
  <2> QED
    BY <1>2, <2>1, <2>2, <2>3, <2>4, CarriesMoves
<1> QED
  BY <1>3, <1>4, <1>5, <1>6 DEF ChannelInv

LEMMA UntouchedStutters ==
  ASSUME NEW ch \in Channels, SameTalk(ch)
  PROVE  UNCHANGED Channel(ch)!routeVars
  BY DEF SameTalk, Channel!routeVars
-----------------------------------------------------------------------------
(***************************************************************************)
(* What a step about channel ch does to it: its connector says something,  *)
(* its client tells something, or one of them hears.                       *)
(***************************************************************************)
LEMMA SaidKept ==
  ASSUME RoutingTypeOK, NEW ch \in Channels, ChannelInv(ch), NEW kind \in Kinds,
         Present, opener[ch] # None, CacheShrinks(ch), NoneReopens,
         opener'[ch] = opener[ch], route'[ch] = route[ch], heard'[ch] = heard[ch],
         said'[ch] = Append(said[ch], kind), told'[ch] = told[ch],
         \A l \in Links : l # toClient[ch] => out'[l] = out[l],
         \/ /\ toClient[ch] # None /\ ws[toClient[ch]] = "open"
            /\ out'[toClient[ch]] = Append(out[toClient[ch]], <<ch, kind>>)
         \/ /\ toClient[ch] # None => out'[toClient[ch]] = out[toClient[ch]]
            /\ ~(toClient'[ch] # None /\ ws'[toClient[ch]] = "open")
  PROVE  ChannelInv(ch)' /\ Channel(ch)!RouteNext
<1> DEFINE c == toClient[ch]
<1>1. Parties(ch) /\ Confined(ch) /\ ClientFed(ch) /\ ConnectorFed(ch)
  BY DEF ChannelInv
<1>2. /\ opener[ch] # None => opener[ch] \in Connectors /\ opener[ch] \in Links
      /\ route[ch] # None => route[ch] \in Clients /\ route[ch] \in Links
      /\ said[ch] \in Seq(Kinds) /\ told[ch] \in Seq(Kinds) /\ opener[ch] # None
      /\ \A l \in Links : out[l] \in Seq(Message)
      /\ c # None => c = route[ch] /\ c \in Clients /\ c \in Links
  BY <1>1, ChannelTypes, PartyTypes DEF Parties, RoutingTypeOK, Message
<1>3. <<ch, kind>> \in Message
  BY DEF Message
<1>4. Channel(ch)!RouteNext
  BY DEF Channel!RouteNext, Channel!Say
<1>5. Parties(ch)'
  BY <1>1, <1>2 DEF Parties, CacheShrinks, NoneReopens
<1>6. Confined(ch)'
  <2>1. ASSUME NEW l \in Links, NEW i \in 1..Len(out'[l]), out'[l][i][1] = ch
        PROVE  l = PartyOn(l, ch)
    <3>1. CASE out'[l] = out[l]
      BY <1>1, <2>1, <3>1 DEF Confined
    <3>2. CASE out'[l] # out[l]
      <4>1. l = c /\ c # None
        BY <2>1, <3>2, PartyTypes
      <4> QED
        BY <1>2, <4>1, PartyTypes DEF PartyOn
    <3> QED
      BY <3>1, <3>2
  <2> QED
    BY <2>1 DEF Confined, PartyOn
<1>7. ClientFed(ch)'
  <2>1. SUFFICES ASSUME route[ch] # None
                 PROVE  Carries(out'[route[ch]], ch, Len(heard[ch].client), said'[ch],
                                toClient'[ch] # None /\ ws'[route[ch]] = "open")
    BY DEF ClientFed
  <2>2. Carries(out[route[ch]], ch, Len(heard[ch].client), said[ch],
                toClient[ch] # None /\ ws[route[ch]] = "open")
    BY <1>1, <2>1 DEF ClientFed
  <2>3. CASE /\ c # None /\ ws[c] = "open"
             /\ out'[c] = Append(out[c], <<ch, kind>>)
    <3>1. Carries(out[route[ch]], ch, Len(heard[ch].client), said[ch], TRUE)
      BY <1>2, <2>2, <2>3, CarriesWeaken
    <3>2. Carries(out'[route[ch]], ch, Len(heard[ch].client), said'[ch], TRUE)
      BY <1>2, <2>1, <2>3, <3>1, CarriesSend
    <3> QED
      BY <3>2, CarriesWeaken
  <2>4. CASE /\ c # None => out'[c] = out[c]
             /\ ~(toClient'[ch] # None /\ ws'[c] = "open")
    <3>1. out'[route[ch]] = out[route[ch]]
      BY <1>2, <2>1, <2>4
    <3>2. Carries(out'[route[ch]], ch, Len(heard[ch].client), said'[ch], FALSE)
      BY <1>2, <2>1, <2>2, <3>1, CarriesSaid
    <3>3. ~(toClient'[ch] # None /\ ws'[route[ch]] = "open")
      BY <1>2, <2>4 DEF CacheShrinks
    <3> QED
      BY <3>2, <3>3, CarriesWeaken
  <2> QED
    BY <2>3, <2>4
<1>8. ConnectorFed(ch)'
  <2>1. SUFFICES ASSUME opener[ch] # None
                 PROVE  Carries(out'[opener[ch]], ch, Len(heard[ch].connector), told[ch],
                                toConnector'[ch] # None /\ ws'[opener[ch]] = "open" /\ ~Ended(ch)')
    BY DEF ConnectorFed
  <2>2. Carries(out[opener[ch]], ch, Len(heard[ch].connector), told[ch],
                toConnector[ch] # None /\ ws[opener[ch]] = "open" /\ ~Ended(ch))
    BY <1>1, <2>1 DEF ConnectorFed
  <2>3. out'[opener[ch]] = out[opener[ch]]
    BY <1>2, <2>1, PartyTypes
  <2>4. toConnector'[ch] # None /\ ws'[opener[ch]] = "open" /\ ~Ended(ch)'
           => toConnector[ch] # None /\ ws[opener[ch]] = "open" /\ ~Ended(ch)
    BY <1>1, <1>2, <2>1 DEF CacheShrinks, NoneReopens, Parties, Present, Ended
  <2> QED
    BY <2>2, <2>3, <2>4, CarriesWeaken
<1> QED
  BY <1>4, <1>5, <1>6, <1>7, <1>8 DEF ChannelInv

LEMMA ToldKept ==
  ASSUME RoutingTypeOK, NEW ch \in Channels, ChannelInv(ch), NEW kind \in Kinds,
         Present, route[ch] # None, ~Ended(ch), CacheShrinks(ch), NoneReopens,
         opener'[ch] = opener[ch], route'[ch] = route[ch], heard'[ch] = heard[ch],
         told'[ch] = Append(told[ch], kind), said'[ch] = said[ch],
         \A l \in Links : l # toConnector[ch] => out'[l] = out[l],
         \/ /\ toConnector[ch] # None /\ ws[toConnector[ch]] = "open"
            /\ out'[toConnector[ch]] = Append(out[toConnector[ch]], <<ch, kind>>)
         \/ /\ toConnector[ch] # None => out'[toConnector[ch]] = out[toConnector[ch]]
            /\ ~(toConnector'[ch] # None /\ ws'[toConnector[ch]] = "open" /\ kind # "disconnect")
  PROVE  ChannelInv(ch)' /\ Channel(ch)!RouteNext
<1> DEFINE c == toConnector[ch]
<1>1. Parties(ch) /\ Confined(ch) /\ ClientFed(ch) /\ ConnectorFed(ch)
  BY DEF ChannelInv
<1>2. /\ opener[ch] # None => opener[ch] \in Connectors /\ opener[ch] \in Links
      /\ route[ch] # None => route[ch] \in Clients /\ route[ch] \in Links
      /\ said[ch] \in Seq(Kinds) /\ told[ch] \in Seq(Kinds) /\ opener[ch] # None
      /\ \A l \in Links : out[l] \in Seq(Message)
      /\ c # None => c = opener[ch] /\ c \in Connectors /\ c \in Links
  BY <1>1, ChannelTypes, PartyTypes DEF Parties, RoutingTypeOK, Message
<1>3. <<ch, kind>> \in Message
  BY DEF Message
<1>4. Channel(ch)!RouteNext
  BY DEF Channel!RouteNext, Channel!Tell
<1>5. Parties(ch)'
  BY <1>1, <1>2 DEF Parties, CacheShrinks, NoneReopens
<1>6. Confined(ch)'
  <2>1. ASSUME NEW l \in Links, NEW i \in 1..Len(out'[l]), out'[l][i][1] = ch
        PROVE  l = PartyOn(l, ch)
    <3>1. CASE out'[l] = out[l]
      BY <1>1, <2>1, <3>1 DEF Confined
    <3>2. CASE out'[l] # out[l]
      <4>1. l = c /\ c # None
        BY <2>1, <3>2, PartyTypes
      <4> QED
        BY <1>2, <4>1, PartyTypes DEF PartyOn
    <3> QED
      BY <3>1, <3>2
  <2> QED
    BY <2>1 DEF Confined, PartyOn
<1>7. ConnectorFed(ch)'
  <2>1. SUFFICES ASSUME opener[ch] # None
                 PROVE  Carries(out'[opener[ch]], ch, Len(heard[ch].connector), told'[ch],
                                toConnector'[ch] # None /\ ws'[opener[ch]] = "open" /\ ~Ended(ch)')
    BY DEF ConnectorFed
  <2>2. Carries(out[opener[ch]], ch, Len(heard[ch].connector), told[ch],
                toConnector[ch] # None /\ ws[opener[ch]] = "open" /\ ~Ended(ch))
    BY <1>1, <2>1 DEF ConnectorFed
  <2>3. CASE /\ c # None /\ ws[c] = "open"
             /\ out'[c] = Append(out[c], <<ch, kind>>)
    <3>1. Carries(out[opener[ch]], ch, Len(heard[ch].connector), told[ch], TRUE)
      BY <1>2, <2>2, <2>3, CarriesWeaken
    <3>2. Carries(out'[opener[ch]], ch, Len(heard[ch].connector), told'[ch], TRUE)
      BY <1>2, <2>1, <2>3, <3>1, CarriesSend
    <3> QED
      BY <3>2, CarriesWeaken
  <2>4. CASE /\ c # None => out'[c] = out[c]
             /\ ~(toConnector'[ch] # None /\ ws'[c] = "open" /\ kind # "disconnect")
    <3>1. out'[opener[ch]] = out[opener[ch]]
      BY <1>2, <2>1, <2>4
    <3>2. Carries(out'[opener[ch]], ch, Len(heard[ch].connector), told'[ch], FALSE)
      BY <1>2, <2>1, <2>2, <3>1, CarriesSaid
    <3>3. ~(toConnector'[ch] # None /\ ws'[opener[ch]] = "open" /\ ~Ended(ch)')
      <4>1. kind = "disconnect" => Ended(ch)'
        <5>1. Len(told'[ch]) = Len(told[ch]) + 1 /\ Len(told[ch]) \in Nat
              /\ told'[ch][Len(told[ch]) + 1] = kind
          BY <1>2, AppendOf
        <5> QED
          BY <5>1 DEF Ended
      <4> QED
        BY <1>2, <2>4, <4>1 DEF CacheShrinks
    <3> QED
      BY <3>2, <3>3, CarriesWeaken
  <2> QED
    BY <2>3, <2>4
<1>8. ClientFed(ch)'
  <2>1. SUFFICES ASSUME route[ch] # None
                 PROVE  Carries(out'[route[ch]], ch, Len(heard[ch].client), said[ch],
                                toClient'[ch] # None /\ ws'[route[ch]] = "open")
    BY DEF ClientFed
  <2>2. Carries(out[route[ch]], ch, Len(heard[ch].client), said[ch],
                toClient[ch] # None /\ ws[route[ch]] = "open")
    BY <1>1, <2>1 DEF ClientFed
  <2>3. out'[route[ch]] = out[route[ch]]
    BY <1>2, <2>1, PartyTypes
  <2>4. toClient'[ch] # None /\ ws'[route[ch]] = "open"
           => toClient[ch] # None /\ ws[route[ch]] = "open"
    BY <1>1, <1>2, <2>1 DEF CacheShrinks, NoneReopens, Parties, Present
  <2> QED
    BY <2>2, <2>3, <2>4, CarriesWeaken
<1> QED
  BY <1>4, <1>5, <1>6, <1>7, <1>8 DEF ChannelInv

LEMMA OpenedKept ==
  ASSUME RoutingTypeOK, NEW ch \in Channels, ChannelInv(ch), NEW k \in Connectors,
         Present, opener[ch] = None, NoneReopens,
         opener'[ch] = k, said'[ch] = Append(said[ch], "connect"), heard'[ch] = heard[ch],
         \/ /\ told'[ch] = Append(told[ch], "refuse") /\ route'[ch] = route[ch]
            /\ CacheShrinks(ch) /\ ws[k] = "open"
            /\ out'[k] = Append(out[k], <<ch, "refuse">>)
            /\ \A l \in Links : l # k => out'[l] = out[l]
         \/ \E c \in Clients :
              /\ told'[ch] = told[ch] /\ route'[ch] = c /\ ws[c] # "absent"
              /\ toClient'[ch] = c /\ toConnector'[ch] = k
              /\ \A l \in Links : l # c => out'[l] = out[l]
              /\ \/ ws[c] = "open" /\ out'[c] = Append(out[c], <<ch, "connect">>)
                 \/ out'[c] = out[c] /\ ws'[c] # "open"
  PROVE  ChannelInv(ch)' /\ Channel(ch)!RouteNext
<1>1. /\ route[ch] = None /\ said[ch] = <<>> /\ told[ch] = <<>>
      /\ heard[ch].client = <<>> /\ heard[ch].connector = <<>>
      /\ toClient[ch] = None /\ toConnector[ch] = None
  <2>1. Parties(ch) /\ (toConnector[ch] # None => toConnector[ch] \in Connectors)
    BY ChannelTypes DEF ChannelInv
  <2> QED
    BY <2>1, PartyTypes DEF Parties
<1>2. \A l \in Links : out[l] \in Seq(Message) /\ \A i \in 1..Len(out[l]) : out[l][i][1] # ch
  <2>1. \A l \in Links : \A i \in 1..Len(out[l]) : out[l][i][1] = ch => l = None
    BY <1>1 DEF ChannelInv, Confined, PartyOn
  <2> QED
    BY <2>1, PartyTypes DEF RoutingTypeOK, Message
<1>3. k \in Links /\ k # None /\ k \notin Clients
  BY PartyTypes
<1>4. /\ "connect" \in Kinds /\ "refuse" \in Kinds /\ <<ch, "connect">> \in Message
      /\ <<ch, "refuse">> \in Message
  BY DEF Kinds, Message
<1>5. /\ <<>> \in Seq(Kinds) /\ Len(<<>>) = 0 /\ 0 \in 0..0
      /\ Append(<<>>, "connect") = <<"connect">> /\ Append(<<>>, "refuse") = <<"refuse">>
  BY EmptySeq
<1>6. \A l \in Links : Carries(out[l], ch, 0, <<>>, TRUE)
  BY <1>2, <1>5, CarriesNone
<1>7. CASE /\ told'[ch] = Append(told[ch], "refuse") /\ route'[ch] = route[ch]
           /\ CacheShrinks(ch) /\ ws[k] = "open"
           /\ out'[k] = Append(out[k], <<ch, "refuse">>)
           /\ \A l \in Links : l # k => out'[l] = out[l]
  <2>1. Channel(ch)!RouteNext
    BY <1>1, <1>5, <1>7 DEF Channel!RouteNext, Channel!Open
  <2>2. toClient'[ch] = None /\ toConnector'[ch] = None
    BY <1>1, <1>7 DEF CacheShrinks
  <2>3. Parties(ch)'
    BY <1>1, <1>3, <1>7, <2>2 DEF Parties
  <2>4. Confined(ch)'
    <3>1. ASSUME NEW l \in Links, NEW i \in 1..Len(out'[l]), out'[l][i][1] = ch
          PROVE  l = k
      BY <1>2, <1>7, <3>1
    <3> QED
      BY <1>3, <3>1 DEF Confined, PartyOn
  <2>5. ClientFed(ch)'
    BY <1>1, <1>7 DEF ClientFed
  <2>6. ConnectorFed(ch)'
    <3>1. Carries(out'[k], ch, 0, Append(<<>>, "refuse"), TRUE)
      BY <1>2, <1>3, <1>4, <1>5, <1>6, <1>7, CarriesSend
    <3>2. Carries(out'[k], ch, 0, told'[ch], toConnector'[ch] # None /\ ws'[k] = "open" /\ ~Ended(ch)')
      BY <1>1, <1>7, <3>1, CarriesWeaken
    <3> QED
      BY <1>1, <1>5, <3>2 DEF ConnectorFed
  <2> QED
    BY <2>1, <2>3, <2>4, <2>5, <2>6 DEF ChannelInv
<1>8. ASSUME NEW c \in Clients,
             told'[ch] = told[ch], route'[ch] = c, ws[c] # "absent",
             toClient'[ch] = c, toConnector'[ch] = k,
             \A l \in Links : l # c => out'[l] = out[l],
             \/ ws[c] = "open" /\ out'[c] = Append(out[c], <<ch, "connect">>)
             \/ out'[c] = out[c] /\ ws'[c] # "open"
      PROVE  ChannelInv(ch)' /\ Channel(ch)!RouteNext
  <2>0. c \in Links /\ c # None /\ c # k
    BY <1>3, PartyTypes
  <2>1. Channel(ch)!RouteNext
    BY <1>1, <1>5, <1>8 DEF Channel!RouteNext, Channel!Open
  <2>2. Parties(ch)'
    BY <1>3, <1>8, <2>0 DEF Parties, NoneReopens
  <2>3. Confined(ch)'
    <3>1. ASSUME NEW l \in Links, NEW i \in 1..Len(out'[l]), out'[l][i][1] = ch
          PROVE  l = c
      BY <1>2, <1>8, <3>1
    <3> QED
      BY <1>8, <3>1 DEF Confined, PartyOn
  <2>4. ClientFed(ch)'
    <3>1. Carries(out'[c], ch, 0, Append(<<>>, "connect"), ws'[c] = "open")
      <4>1. CASE ws[c] = "open" /\ out'[c] = Append(out[c], <<ch, "connect">>)
        <5>1. Carries(out'[c], ch, 0, Append(<<>>, "connect"), TRUE)
          BY <1>2, <1>4, <1>5, <1>6, <2>0, <4>1, CarriesSend
        <5> QED
          BY <5>1, CarriesWeaken
      <4>2. CASE out'[c] = out[c] /\ ws'[c] # "open"
        <5>1. Carries(out'[c], ch, 0, Append(<<>>, "connect"), FALSE)
          BY <1>2, <1>4, <1>5, <1>6, <2>0, <4>2, CarriesSaid
        <5> QED
          BY <4>2, <5>1, CarriesWeaken
      <4> QED
        BY <1>8, <4>1, <4>2
    <3>2. Carries(out'[c], ch, 0, said'[ch], toClient'[ch] # None /\ ws'[c] = "open")
      BY <1>1, <3>1, CarriesWeaken
    <3> QED
      BY <1>1, <1>5, <1>8, <3>2 DEF ClientFed
  <2>5. ConnectorFed(ch)'
    <3>1. Carries(out'[k], ch, 0, told'[ch], toConnector'[ch] # None /\ ws'[k] = "open" /\ ~Ended(ch)')
      BY <1>1, <1>3, <1>6, <1>8, <2>0, CarriesWeaken
    <3> QED
      BY <1>1, <1>5, <3>1 DEF ConnectorFed
  <2> QED
    BY <2>1, <2>2, <2>3, <2>4, <2>5 DEF ChannelInv
<1> QED
  BY <1>7, <1>8

LEMMA HeardKept ==
  ASSUME RoutingTypeOK, NEW ch \in Channels, ChannelInv(ch), NEW l \in Links,
         out[l] # <<>>, out[l][1][1] = ch,
         UNCHANGED <<toClient, toConnector, ws, opener, route, said, told>>,
         out'[l] = Tail(out[l]), \A o \in Links : o # l => out'[o] = out[o],
         NEW kind, kind = out[l][1][2],
         l \in Clients => heard'[ch] = [heard[ch] EXCEPT !.client = Append(@, <<l, kind>>)],
         l \notin Clients => heard'[ch] = [heard[ch] EXCEPT !.connector = Append(@, <<l, kind>>)]
  PROVE  ChannelInv(ch)' /\ Channel(ch)!RouteNext
<1> DEFINE got == <<l, kind>>
<1>1. Parties(ch) /\ Confined(ch) /\ ClientFed(ch) /\ ConnectorFed(ch)
  BY DEF ChannelInv
<1>2. /\ \A o \in Links : out[o] \in Seq(Message)
      /\ heard[ch] \in [client : Seq(Links \X Kinds), connector : Seq(Links \X Kinds)]
      /\ said[ch] \in Seq(Kinds) /\ told[ch] \in Seq(Kinds)
  BY DEF RoutingTypeOK, Message
<1>q. PICK q \in Seq(Message) : q = out[l]
  BY <1>2
<1>t. /\ Len(q) \in Nat /\ Len(q) >= 1 /\ q[1] \in Message /\ Len(Tail(q)) = Len(q) - 1
      /\ \A i \in 1..(Len(q) - 1) : Tail(q)[i] = q[i + 1] /\ i + 1 \in 1..Len(q)
  BY <1>q, TailOf
<1>3. /\ Len(out[l]) \in Nat /\ Len(out[l]) >= 1 /\ out[l][1] \in Message
      /\ Len(out'[l]) = Len(out[l]) - 1 /\ 1 \in 1..Len(out[l])
      /\ \A i \in 1..(Len(out[l]) - 1) : out'[l][i] = out[l][i + 1] /\ i + 1 \in 1..Len(out[l])
  BY <1>2, <1>q, <1>t
<1>4. l = PartyOn(l, ch)
  BY <1>1, <1>3 DEF Confined
<1>5. got \in Links \X Kinds
  BY <1>3 DEF Message
<1>6. Confined(ch)'
  <2>1. ASSUME NEW o \in Links, NEW i \in 1..Len(out'[o]), out'[o][i][1] = ch
        PROVE  \E j \in 1..Len(out[o]) : out[o][j][1] = ch
    <3>1. CASE o = l
      BY <1>3, <2>1, <3>1
    <3>2. CASE o # l
      BY <1>2, <2>1, <3>2
    <3> QED
      BY <3>1, <3>2
  <2> QED
    BY <1>1, <2>1 DEF Confined, PartyOn
<1>7. CASE l \in Clients
  <2>1. route[ch] = l /\ l # None
    BY <1>4, <1>7, PartyTypes DEF PartyOn
  <2>2. /\ heard'[ch].client = Append(heard[ch].client, got)
        /\ heard'[ch].connector = heard[ch].connector
        /\ heard'[ch] = [heard[ch] EXCEPT !.client = Append(@, got)]
    BY <1>2, <1>7
  <2>3. /\ Len(heard[ch].client) \in Nat /\ heard[ch].client \in Seq(Links \X Kinds)
        /\ Len(heard'[ch].client) = Len(heard[ch].client) + 1
    BY <1>2, <1>5, <2>2, AppendOf
  <2>4. Carries(out[l], ch, Len(heard[ch].client), said[ch], toClient[ch] # None /\ ws[l] = "open")
    BY <1>1, <2>1 DEF ClientFed
  <2>5. /\ Len(heard[ch].client) < Len(said[ch])
        /\ out[l][1][2] = said[ch][Len(heard[ch].client) + 1]
        /\ Carries(out'[l], ch, Len(heard[ch].client) + 1, said[ch],
                   toClient[ch] # None /\ ws[l] = "open")
    <3> DEFINE n == Len(heard[ch].client)
               full == toClient[ch] # None /\ ws[l] = "open"
    <3>1. Carries(q, ch, n, said[ch], full)
      BY <1>q, <2>4
    <3>2. q # <<>> /\ q[1][1] = ch
      BY <1>q
    <3> HIDE DEF n, full
    <3>3. /\ n < Len(said[ch]) /\ q[1][2] = said[ch][n + 1]
          /\ Carries(Tail(q), ch, n + 1, said[ch], full)
      BY <1>2, <3>1, <3>2, CarriesTail
    <3> QED
      BY <1>q, <3>3 DEF n, full
  <2>6. Channel(ch)!RouteNext
    BY <2>1, <2>2, <2>5 DEF Channel!RouteNext, Channel!ClientHears
  <2>7. Parties(ch)'
    BY <1>1, <2>1, <2>2 DEF Parties
  <2>8. ClientFed(ch)'
    BY <2>1, <2>3, <2>5 DEF ClientFed
  <2>9. ConnectorFed(ch)'
    <3>1. opener[ch] # None => opener[ch] \in Links /\ opener[ch] # l
      BY <1>7, ChannelTypes, PartyTypes
    <3> QED
      BY <1>1, <1>2, <2>2, <3>1 DEF ConnectorFed, Ended
  <2> QED
    BY <1>6, <2>6, <2>7, <2>8, <2>9 DEF ChannelInv
<1>8. CASE l \notin Clients
  <2>1. opener[ch] = l /\ l # None /\ l \in Connectors
    BY <1>4, <1>8, PartyTypes DEF PartyOn
  <2>2. /\ heard'[ch].connector = Append(heard[ch].connector, got)
        /\ heard'[ch].client = heard[ch].client
        /\ heard'[ch] = [heard[ch] EXCEPT !.connector = Append(@, got)]
    BY <1>2, <1>8
  <2>3. /\ Len(heard[ch].connector) \in Nat /\ heard[ch].connector \in Seq(Links \X Kinds)
        /\ Len(heard'[ch].connector) = Len(heard[ch].connector) + 1
    BY <1>2, <1>5, <2>2, AppendOf
  <2>4. Carries(out[l], ch, Len(heard[ch].connector), told[ch],
                toConnector[ch] # None /\ ws[l] = "open" /\ ~Ended(ch))
    BY <1>1, <2>1 DEF ConnectorFed
  <2>5. /\ Len(heard[ch].connector) < Len(told[ch])
        /\ out[l][1][2] = told[ch][Len(heard[ch].connector) + 1]
        /\ Carries(out'[l], ch, Len(heard[ch].connector) + 1, told[ch],
                   toConnector[ch] # None /\ ws[l] = "open" /\ ~Ended(ch))
    <3> DEFINE n == Len(heard[ch].connector)
               full == toConnector[ch] # None /\ ws[l] = "open" /\ ~Ended(ch)
    <3>1. Carries(q, ch, n, told[ch], full)
      BY <1>q, <2>4
    <3>2. q # <<>> /\ q[1][1] = ch
      BY <1>q
    <3> HIDE DEF n, full
    <3>3. /\ n < Len(told[ch]) /\ q[1][2] = told[ch][n + 1]
          /\ Carries(Tail(q), ch, n + 1, told[ch], full)
      BY <1>2, <3>1, <3>2, CarriesTail
    <3> QED
      BY <1>q, <3>3 DEF n, full
  <2>6. Channel(ch)!RouteNext
    BY <2>1, <2>2, <2>5 DEF Channel!RouteNext, Channel!ConnectorHears
  <2>7. Parties(ch)'
    BY <1>1, <2>1, <2>2 DEF Parties
  <2>8. ConnectorFed(ch)'
    BY <2>1, <2>3, <2>5 DEF ConnectorFed, Ended
  <2>9. ClientFed(ch)'
    <3>1. route[ch] # None => route[ch] \in Links /\ route[ch] # l
      BY <1>8, ChannelTypes, PartyTypes
    <3> QED
      BY <1>1, <1>2, <2>2, <3>1 DEF ClientFed
  <2> QED
    BY <1>6, <2>6, <2>7, <2>8, <2>9 DEF ChannelInv
<1> QED
  BY <1>7, <1>8
-----------------------------------------------------------------------------
(***************************************************************************)
(* The list, the index and the round.                                      *)
(***************************************************************************)
LEMMA SameList ==
  ASSUME RoutingTypeOK, Listed, Present, list' = list, NoneReopens
  PROVE  Listed' /\ Present'
<1>1. \A i \in DOMAIN list : list[i] \in Links
  <2>1. \A i \in DOMAIN list : list[i] \in Clients
    BY DEF RoutingTypeOK
  <2> QED
    BY <2>1, PartyTypes
<1>2. Listed'
  BY <1>1 DEF Listed, NoneReopens
<1>3. Present'
  BY PartyTypes DEF Present, NoneReopens
<1> QED
  BY <1>2, <1>3

LEMMA SameRound ==
  ASSUME RoundInv, UNCHANGED <<list, index, round>>
  PROVE  RoundInv'
  BY DEF RoundInv, Wrapped

LEMMA NextPosition ==
  ASSUME NEW n \in Nat, n >= 1, NEW a \in Nat
  PROVE  /\ (a + 1) % n \in 0..(n - 1)
         /\ a < n => \/ a + 1 < n /\ (a + 1) % n = a + 1
                     \/ a + 1 = n /\ (a + 1) % n = 0
  OBVIOUS

LEMMA WrapLast ==
  ASSUME NEW n \in Nat, NEW r \in Nat, NEW b \in Nat
  PROVE  Wrapped(b + 1 - (r - r), n) = b + 1
  BY DEF Wrapped

(* A pick extends the part of the list that the round is, or starts a new  *)
(* round.                                                                  *)
LEMMA PickKept ==
  ASSUME RoutingTypeOK, RoundInv, list' = list, list # <<>>, PickNext
  PROVE  /\ NextClient \in Clients /\ (\E i \in DOMAIN list : NextClient = list[i])
         /\ index' \in Nat /\ round' \in Seq(Clients) /\ RoundInv'
<1>1. /\ Len(list) \in Nat /\ Len(list) >= 1 /\ DOMAIN list = 1..Len(list)
      /\ list \in Seq(Clients) /\ index \in Nat /\ round \in Seq(Clients)
      /\ Len(round) \in Nat /\ DOMAIN round = 1..Len(round)
  BY TailOf, LenProperties DEF RoutingTypeOK
<1>n. PICK n \in Nat, a \in Nat, r \in Nat : n = Len(list) /\ a = index /\ r = Len(round)
  BY <1>1
<1>p. /\ NextIndex = (a + 1) % n /\ NextIndex \in 0..(n - 1)
      /\ a < n => \/ a + 1 < n /\ NextIndex = a + 1
                  \/ a + 1 = n /\ NextIndex = 0
  <2>1. NextIndex = (a + 1) % n /\ n >= 1
    BY <1>1, <1>n DEF NextIndex
  <2> QED
    BY <2>1, NextPosition
<1>r. PICK b \in Nat : b = NextIndex
  BY <1>p
<1>2. /\ index' = b /\ b < n
      /\ a < n => \/ a + 1 < n /\ b = a + 1
                  \/ a + 1 = n /\ b = 0
  BY <1>p, <1>r DEF PickNext
<1>3. b + 1 \in DOMAIN list /\ NextClient = list[b + 1] /\ NextClient \in Clients
  <2>1. b + 1 \in 1..n
    BY <1>2
  <2> QED
    BY <1>1, <1>n, <1>r, <2>1 DEF NextClient
<1>4. CASE r < n
  <2>1. round' = Append(round, NextClient)
    BY <1>n, <1>r, <1>4 DEF PickNext
  <2>2. /\ round' \in Seq(Clients) /\ Len(round') = r + 1 /\ DOMAIN round' = 1..(r + 1)
        /\ round'[r + 1] = NextClient
        /\ \A i \in 1..r : round'[i] = round[i]
    BY <1>1, <1>3, <1>n, <1>r, <2>1, AppendOf
  <2>3. ASSUME NEW i \in 1..(r + 1)
        PROVE  round'[i] = list[Wrapped(b + 1 - ((r + 1) - i), n)]
    <3>1. CASE i = r + 1
      <4>1. Wrapped(b + 1 - ((r + 1) - i), n) = b + 1
        BY <1>2, <3>1, WrapLast
      <4> QED
        BY <1>3, <2>2, <3>1, <4>1
    <3>2. CASE i # r + 1
      <4>1. i \in 1..r
        BY <3>2
      <4>2. a < n /\ round[i] = list[Wrapped(a + 1 - (r - i), n)]
        <5>1. round # <<>>
          BY <1>n, <1>r, <4>1
        <5> QED
          BY <1>1, <1>n, <1>r, <4>1, <5>1 DEF RoundInv
      <4>3. Wrapped(b + 1 - ((r + 1) - i), n) = Wrapped(a + 1 - (r - i), n)
        BY <1>2, <1>4, <4>1, <4>2 DEF Wrapped
      <4> QED
        BY <2>2, <4>1, <4>2, <4>3
    <3> QED
      BY <3>1, <3>2
  <2>4. r + 1 <= n
    BY <1>4
  <2>5. RoundInv'
    BY <1>2, <1>n, <1>r, <2>2, <2>3, <2>4 DEF RoundInv
  <2> QED
    BY <1>1, <1>2, <1>3, <2>2, <2>5
<1>5. CASE ~(r < n)
  <2>1. round' = <<NextClient>>
    BY <1>n, <1>r, <1>5 DEF PickNext
  <2>2. round' \in Seq(Clients) /\ Len(round') = 1 /\ round'[1] = NextClient
    BY <1>3, <2>1
  <2>3. DOMAIN round' = {1}
    BY <2>1
  <2>4. Wrapped(b + 1 - (1 - 1), n) = b + 1
    BY <1>2, WrapLast
  <2>5. 1 <= n
    BY <1>1, <1>n, <1>r
  <2>6. RoundInv'
    BY <1>2, <1>3, <1>n, <1>r, <2>2, <2>3, <2>4, <2>5 DEF RoundInv
  <2> QED
    BY <1>1, <1>2, <1>3, <2>2, <2>6
<1> QED
  BY <1>4, <1>5

LEMMA WrapOnce ==
  ASSUME NEW n \in Nat, NEW r \in Nat, NEW a \in Nat, r <= n, a < n,
         NEW i \in 1..r, NEW j \in 1..r
  PROVE  /\ Wrapped(a + 1 - (r - i), n) \in 1..n
         /\ Wrapped(a + 1 - (r - i), n) = Wrapped(a + 1 - (r - j), n) => i = j
  BY DEF Wrapped

LEMMA RoundIsOnce ==
  ASSUME RouteInv
  PROVE  RoundRobin
<1>1. /\ list \in Seq(Clients) /\ index \in Nat /\ round \in Seq(Clients) /\ Listed
      /\ Len(round) <= Len(list) /\ (round # <<>> => index < Len(list))
      /\ \A i \in DOMAIN round : round[i] = list[Wrapped(index + 1 - (Len(round) - i), Len(list))]
  BY DEF RouteInv, RoutingTypeOK, RoundInv
<1>2. /\ Len(list) \in Nat /\ DOMAIN list = 1..Len(list)
      /\ Len(round) \in Nat /\ DOMAIN round = 1..Len(round)
  BY <1>1, LenProperties
<1>3. SUFFICES ASSUME NEW i \in DOMAIN round, NEW j \in DOMAIN round, round[i] = round[j]
               PROVE  i = j
  BY DEF RoundRobin
<1>4. index < Len(list)
  BY <1>1, <1>2
<1> DEFINE a == Wrapped(index + 1 - (Len(round) - i), Len(list))
           b == Wrapped(index + 1 - (Len(round) - j), Len(list))
<1>5. a \in DOMAIN list /\ b \in DOMAIN list /\ (a = b => i = j)
  BY <1>1, <1>2, <1>4, WrapOnce
<1>6. list[a] = list[b]
  BY <1>1, <1>3
<1> QED
  BY <1>1, <1>5, <1>6 DEF Listed
-----------------------------------------------------------------------------
(***************************************************************************)
(* The steps.                                                              *)
(***************************************************************************)
Kept(ch) == ChannelInv(ch)' /\ [Channel(ch)!RouteNext]_(Channel(ch)!routeVars)

LEMMA UntouchedStep ==
  ASSUME RouteInv, NEW ch \in Channels, Untouched(ch)
  PROVE  Kept(ch)
<1>1. ChannelInv(ch)'
  BY UntouchedKept DEF RouteInv
<1>2. UNCHANGED Channel(ch)!routeVars
  BY UntouchedStutters DEF Untouched
<1> QED
  BY <1>1, <1>2 DEF Kept

(* A step that only sends messages of channel ch is not about others.      *)
SendsFor(ch) ==
    \A l \in Links : \/ out'[l] = out[l]
                     \/ \E m \in Message : m[1] = ch /\ out'[l] = Append(out[l], m)

LEMMA OtherStep ==
  ASSUME RouteInv, NEW ch \in Channels, SendsFor(ch), NoneReopens,
         NEW o \in Channels, o # ch, SameTalk(o), CacheShrinks(o)
  PROVE  Kept(o)
<1>1. \A l \in Links : Moves(o, l)
  BY DEF SendsFor, Moves
<1> QED
  BY <1>1, UntouchedStep DEF Untouched

LEMMA SendIsFor ==
  ASSUME RouteInv, NEW l \in Links, NEW to \in Links, NEW ch \in Channels, NEW kind \in Kinds,
         Send(l, to, <<ch, kind>>)
  PROVE  SendsFor(ch) /\ NoneReopens
<1> DEFINE m == <<ch, kind>>
<1>1. m \in Message /\ m[1] = ch
  BY DEF Message
<1> HIDE DEF m
<1>2. /\ NoneReopens
      /\ \A o \in Links : o # to => out'[o] = out[o]
      /\ out'[to] = Append(out[to], m) \/ out'[to] = out[to]
  BY <1>1, SendEffect DEF RouteInv, m
<1> QED
  BY <1>1, <1>2 DEF SendsFor

LEMMA NoSend ==
  ASSUME UNCHANGED <<ws, out>>
  PROVE  NoneReopens /\ \A ch : SendsFor(ch)
  BY DEF NoneReopens, SendsFor

LEMMA KindsAre ==
  {"connect", "accept", "refuse", "data", "disconnect"} \subseteq Kinds
  BY DEF Kinds

LEMMA SayEffect ==
  ASSUME RoutingTypeOK, NEW ch \in Channels, NEW kind \in Kinds
  PROVE  /\ Say(ch, kind) => /\ said' \in [Channels -> Seq(Kinds)]
                             /\ said'[ch] = Append(said[ch], kind)
                             /\ \A o \in Channels : o # ch => said'[o] = said[o]
         /\ Tell(ch, kind) => /\ told' \in [Channels -> Seq(Kinds)]
                              /\ told'[ch] = Append(told[ch], kind)
                              /\ \A o \in Channels : o # ch => told'[o] = told[o]
<1>1. said \in [Channels -> Seq(Kinds)] /\ told \in [Channels -> Seq(Kinds)]
  BY DEF RoutingTypeOK
<1>2. Append(said[ch], kind) \in Seq(Kinds) /\ Append(told[ch], kind) \in Seq(Kinds)
  BY <1>1, AppendOf
<1> QED
  BY <1>1, <1>2 DEF Say, Tell

(* What a step keeps, for all channels and for the lists.                  *)
StepKept == RouteInv' /\ \A ch \in Channels : [Channel(ch)!RouteNext]_(Channel(ch)!routeVars)

LEMMA AllKept ==
  ASSUME RoutingTypeOK', (Listed /\ RoundInv /\ Present)', \A ch \in Channels : Kept(ch)
  PROVE  StepKept
  BY DEF Kept, StepKept, RouteInv

LEMMA RouteConnectStep ==
  ASSUME RouteInv, NEW k \in Connectors, NEW ch \in Channels, RouteConnect(k, ch)
  PROVE  StepKept
<1>1. /\ RoutingTypeOK /\ Listed /\ RoundInv /\ Present /\ ChannelInv(ch)
      /\ k \in Links /\ k # None /\ ws[k] = "open" /\ opener[ch] = None
      /\ opener' = [opener EXCEPT ![ch] = k] /\ Say(ch, "connect")
      /\ list' = list /\ heard' = heard /\ losses' = losses
  BY PartyTypes DEF RouteInv, RouteConnect, Ready
<1>2. /\ opener' \in [Channels -> Connectors \cup {None}] /\ opener'[ch] = k
      /\ \A o \in Channels : o # ch => opener'[o] = opener[o]
  BY <1>1 DEF RoutingTypeOK
<1>3. /\ said' \in [Channels -> Seq(Kinds)] /\ said'[ch] = Append(said[ch], "connect")
      /\ \A o \in Channels : o # ch => said'[o] = said[o]
  BY <1>1, SayEffect, KindsAre
<1>4. CASE list = <<>>
  <2>1. /\ Tell(ch, "refuse") /\ Send(k, k, <<ch, "refuse">>)
        /\ UNCHANGED <<index, round, route, toClient, toConnector, tokenCache>>
    BY <1>4 DEF RouteConnect, cacheVars
  <2>2. /\ told' \in [Channels -> Seq(Kinds)] /\ told'[ch] = Append(told[ch], "refuse")
        /\ \A o \in Channels : o # ch => told'[o] = told[o]
    BY <1>1, <2>1, SayEffect, KindsAre
  <2>3. SendsFor(ch) /\ NoneReopens
    BY <1>1, <2>1, SendIsFor, KindsAre
  <2>4. /\ ws' \in [Links -> {"absent", "open", "closed", "gone"}]
        /\ out' \in [Links -> Seq(Message)]
        /\ task' \in [Links -> [on : Links \cup {None}, drop : Channels \cup {None}]]
        /\ out'[k] = Append(out[k], <<ch, "refuse">>)
        /\ \A o \in Links : o # k => out'[o] = out[o]
    <3>1. <<ch, "refuse">> \in Message
      BY KindsAre DEF Message
    <3> QED
      BY <1>1, <2>1, <3>1, SendEffect
  <2>5. RoutingTypeOK'
    BY <1>1, <1>2, <1>3, <2>1, <2>2, <2>4 DEF RoutingTypeOK, Message
  <2>6. (Listed /\ RoundInv /\ Present)'
    BY <1>1, <2>1, <2>3, SameList, SameRound
  <2>7. Kept(ch)
    <3>1. CacheShrinks(ch) /\ route'[ch] = route[ch] /\ heard'[ch] = heard[ch]
      BY <1>1, <2>1 DEF CacheShrinks
    <3> QED
      BY <1>1, <1>2, <1>3, <2>2, <2>3, <2>4, <3>1, OpenedKept DEF Kept
  <2>8. ASSUME NEW o \in Channels, o # ch PROVE Kept(o)
    BY <1>1, <1>2, <1>3, <2>1, <2>2, <2>3, <2>8, OtherStep DEF SameTalk, CacheShrinks
  <2> QED
    BY <2>5, <2>6, <2>7, <2>8, AllKept
<1>5. CASE list # <<>>
  <2>1. /\ PickNext /\ route' = [route EXCEPT ![ch] = NextClient] /\ AddChannel(ch, k, NextClient)
        /\ Send(k, NextClient, <<ch, "connect">>) /\ told' = told
    BY <1>5 DEF RouteConnect
  <2>2. /\ NextClient \in Clients /\ (\E i \in DOMAIN list : NextClient = list[i])
        /\ index' \in Nat /\ round' \in Seq(Clients) /\ RoundInv'
    BY <1>1, <1>5, <2>1, PickKept
  <2>3. PICK c \in Clients : c = NextClient /\ c \in Links /\ ws[c] # "absent"
    BY <1>1, <2>2, PartyTypes DEF Listed
  <2>4. SendsFor(ch) /\ NoneReopens
    BY <1>1, <2>1, <2>3, SendIsFor, KindsAre
  <2>5. /\ ws' \in [Links -> {"absent", "open", "closed", "gone"}]
        /\ out' \in [Links -> Seq(Message)]
        /\ task' \in [Links -> [on : Links \cup {None}, drop : Channels \cup {None}]]
        /\ \A o \in Links : o # c => out'[o] = out[o]
        /\ \/ ws[c] = "open" /\ out'[c] = Append(out[c], <<ch, "connect">>)
           \/ out'[c] = out[c] /\ ws'[c] # "open"
    <3>1. <<ch, "connect">> \in Message
      BY KindsAre DEF Message
    <3> QED
      BY <1>1, <2>1, <2>3, <3>1, SendEffect
  <2>6. /\ route' \in [Channels -> Clients \cup {None}] /\ route'[ch] = c
        /\ \A o \in Channels : o # ch => route'[o] = route[o]
    BY <1>1, <2>1, <2>3 DEF RoutingTypeOK
  <2>7. /\ toClient' \in [Channels -> Clients \cup {None}] /\ toClient'[ch] = c
        /\ toConnector' \in [Channels -> Connectors \cup {None}] /\ toConnector'[ch] = k
        /\ tokenCache' \in [Connectors \cup {Reverse} -> SUBSET Channels]
        /\ \A o \in Channels : o # ch => toClient'[o] = toClient[o] /\ toConnector'[o] = toConnector[o]
    BY <1>1, <2>1, <2>3 DEF RoutingTypeOK, AddChannel
  <2>8. RoutingTypeOK'
    BY <1>1, <1>2, <1>3, <2>1, <2>2, <2>5, <2>6, <2>7 DEF RoutingTypeOK, Message
  <2>9. (Listed /\ RoundInv /\ Present)'
    BY <1>1, <2>2, <2>4, SameList
  <2>10. Kept(ch)
    <3>1. told'[ch] = told[ch] /\ heard'[ch] = heard[ch]
      BY <1>1, <2>1
    <3>2. \E d \in Clients :
            /\ told'[ch] = told[ch] /\ route'[ch] = d /\ ws[d] # "absent"
            /\ toClient'[ch] = d /\ toConnector'[ch] = k
            /\ \A l \in Links : l # d => out'[l] = out[l]
            /\ \/ ws[d] = "open" /\ out'[d] = Append(out[d], <<ch, "connect">>)
               \/ out'[d] = out[d] /\ ws'[d] # "open"
      BY <2>3, <2>5, <2>6, <2>7, <3>1
    <3> QED
      BY <1>1, <1>2, <1>3, <2>4, <3>1, <3>2, OpenedKept DEF Kept
  <2>11. ASSUME NEW o \in Channels, o # ch PROVE Kept(o)
    BY <1>1, <1>2, <1>3, <2>1, <2>4, <2>6, <2>7, <2>11, OtherStep DEF SameTalk, CacheShrinks
  <2> QED
    BY <2>8, <2>9, <2>10, <2>11, AllKept
<1> QED
  BY <1>4, <1>5

WireTypes ==
    /\ ws \in [Links -> {"absent", "open", "closed", "gone"}]
    /\ out \in [Links -> Seq(Message)]
    /\ task \in [Links -> [on : Links \cup {None}, drop : Channels \cup {None}]]

CacheTypes ==
    /\ toClient \in [Channels -> Clients \cup {None}]
    /\ toConnector \in [Channels -> Connectors \cup {None}]
    /\ tokenCache \in [Connectors \cup {Reverse} -> SUBSET Channels]

(* A message of channel ch goes to the connection the cache names, unless  *)
(* the cache has none or the connection has closed.                        *)
Forwards(ch, to, toNext, kind) ==
    /\ \A l \in Links : l # to => out'[l] = out[l]
    /\ \/ /\ to # None /\ ws[to] = "open"
          /\ out'[to] = Append(out[to], <<ch, kind>>)
       \/ /\ to # None => out'[to] = out[to]
          /\ ~(toNext # None /\ ws'[to] = "open")

LEMMA SendForwards ==
  ASSUME RouteInv, NEW l \in Links, NEW to, to # None => to \in Links, NEW ch \in Channels,
         NEW kind \in Kinds, NEW toNext, toNext \in {to, None},
         IF to # None THEN Send(l, to, <<ch, kind>>) ELSE UNCHANGED wireVars
  PROVE  Forwards(ch, to, toNext, kind) /\ SendsFor(ch) /\ NoneReopens /\ WireTypes'
<1>1. RoutingTypeOK /\ WireTypes /\ <<ch, kind>> \in Message
  BY DEF RouteInv, RoutingTypeOK, WireTypes, Message
<1>2. CASE to # None
  <2>1. Send(l, to, <<ch, kind>>) /\ to \in Links
    BY <1>2
  <2>2. /\ WireTypes'
        /\ \A o \in Links : o # to => out'[o] = out[o]
        /\ \/ ws[to] = "open" /\ out'[to] = Append(out[to], <<ch, kind>>)
           \/ out'[to] = out[to] /\ ws'[to] # "open"
    BY <1>1, <2>1, SendEffect DEF WireTypes
  <2>3. Forwards(ch, to, toNext, kind)
    BY <1>2, <2>2 DEF Forwards
  <2> QED
    BY <2>1, <2>2, <2>3, SendIsFor
<1>3. CASE to = None
  <2>1. UNCHANGED <<ws, out, task>>
    BY <1>3 DEF wireVars
  <2>2. WireTypes'
    BY <1>1, <2>1 DEF WireTypes
  <2>3. Forwards(ch, to, toNext, kind)
    BY <1>3, <2>1 DEF Forwards
  <2> QED
    BY <2>1, <2>2, <2>3, NoSend
<1> QED
  BY <1>2, <1>3

LEMMA SayStep ==
  ASSUME RouteInv, NEW ch \in Channels, NEW kind \in Kinds, opener[ch] # None, Say(ch, kind),
         UNCHANGED <<list, index, round, opener, route, told, heard, losses>>,
         WireTypes', CacheTypes', NoneReopens, SendsFor(ch), \A o \in Channels : CacheShrinks(o),
         Forwards(ch, toClient[ch], toClient'[ch], kind)
  PROVE  StepKept
<1>1. /\ RoutingTypeOK /\ Listed /\ RoundInv /\ Present /\ ChannelInv(ch)
  BY DEF RouteInv
<1>2. /\ said' \in [Channels -> Seq(Kinds)] /\ said'[ch] = Append(said[ch], kind)
      /\ \A o \in Channels : o # ch => said'[o] = said[o]
  BY <1>1, SayEffect
<1>3. RoutingTypeOK'
  BY <1>1, <1>2 DEF RoutingTypeOK, WireTypes, CacheTypes, Message
<1>4. (Listed /\ RoundInv /\ Present)'
  BY <1>1, SameList, SameRound
<1>5. Kept(ch)
  BY <1>1, <1>2, SaidKept DEF Kept, Forwards
<1>6. ASSUME NEW o \in Channels, o # ch PROVE Kept(o)
  BY <1>2, <1>6, OtherStep DEF SameTalk
<1> QED
  BY <1>3, <1>4, <1>5, <1>6, AllKept

LEMMA TellStep ==
  ASSUME RouteInv, NEW ch \in Channels, NEW kind \in Kinds, route[ch] # None, ~Ended(ch),
         Tell(ch, kind),
         UNCHANGED <<list, index, round, opener, route, said, heard, losses>>,
         WireTypes', CacheTypes', NoneReopens, SendsFor(ch), \A o \in Channels : CacheShrinks(o),
         \/ Forwards(ch, toConnector[ch], toConnector'[ch], kind)
         \/ kind = "disconnect" /\ out' = out
  PROVE  StepKept
<1>1. /\ RoutingTypeOK /\ Listed /\ RoundInv /\ Present /\ ChannelInv(ch)
  BY DEF RouteInv
<1>2. /\ told' \in [Channels -> Seq(Kinds)] /\ told'[ch] = Append(told[ch], kind)
      /\ \A o \in Channels : o # ch => told'[o] = told[o]
  BY <1>1, SayEffect
<1>3. RoutingTypeOK'
  BY <1>1, <1>2 DEF RoutingTypeOK, WireTypes, CacheTypes, Message
<1>4. (Listed /\ RoundInv /\ Present)'
  BY <1>1, SameList, SameRound
<1>5. Kept(ch)
  BY <1>1, <1>2, ToldKept DEF Kept, Forwards
<1>6. ASSUME NEW o \in Channels, o # ch PROVE Kept(o)
  BY <1>2, <1>6, OtherStep DEF SameTalk
<1> QED
  BY <1>3, <1>4, <1>5, <1>6, AllKept

LEMMA CacheStays ==
  ASSUME RouteInv, UNCHANGED cacheVars
  PROVE  /\ CacheTypes' /\ \A o \in Channels : CacheShrinks(o)
         /\ toClient' = toClient /\ toConnector' = toConnector
  BY DEF RouteInv, RoutingTypeOK, CacheTypes, CacheShrinks, cacheVars

LEMMA CacheDrops ==
  ASSUME RouteInv, NEW chs, RemoveChannels(chs),
         tokenCache' \in [Connectors \cup {Reverse} -> SUBSET Channels]
  PROVE  /\ CacheTypes' /\ \A o \in Channels : CacheShrinks(o)
         /\ \A o \in Channels : o \in chs => toClient'[o] = None
<1>1. RoutingTypeOK
  BY DEF RouteInv
<1>2. /\ toClient' \in [Channels -> Clients \cup {None}]
      /\ toConnector' \in [Channels -> Connectors \cup {None}]
      /\ \A ch \in Channels : /\ toClient'[ch] \in {toClient[ch], None}
                              /\ toConnector'[ch] \in {toConnector[ch], None}
                              /\ ch \in chs => toClient'[ch] = None
  BY <1>1, RemoveEffect
<1> QED
  BY <1>2 DEF CacheTypes, CacheShrinks

LEMMA TalkingIsOpen ==
  ASSUME RouteInv, NEW k \in Connectors, NEW ch \in Channels, Talking(k, ch)
  PROVE  /\ k \in Links /\ opener[ch] # None
         /\ toClient[ch] # None => toClient[ch] \in Links
  BY ChannelTypes, PartyTypes DEF RouteInv, Talking

LEMMA RouteDataStep ==
  ASSUME RouteInv, NEW k \in Connectors, NEW ch \in Channels, RouteData(k, ch)
  PROVE  StepKept
<1>1. /\ Talking(k, ch) /\ Say(ch, "data") /\ "data" \in Kinds
      /\ IF toClient[ch] # None THEN Send(k, toClient[ch], <<ch, "data">>) ELSE UNCHANGED wireVars
      /\ UNCHANGED cacheVars
      /\ UNCHANGED <<list, index, round, opener, route, told, heard, losses>>
  BY KindsAre DEF RouteData
<1>2. /\ CacheTypes' /\ (\A o \in Channels : CacheShrinks(o)) /\ toClient'[ch] = toClient[ch]
  BY <1>1, CacheStays
<1>3. /\ k \in Links /\ opener[ch] # None
      /\ toClient[ch] # None => toClient[ch] \in Links
  BY <1>1, TalkingIsOpen
<1>4. /\ Forwards(ch, toClient[ch], toClient'[ch], "data") /\ SendsFor(ch) /\ NoneReopens /\ WireTypes'
  BY <1>1, <1>2, <1>3, SendForwards
<1> QED
  BY <1>1, <1>2, <1>3, <1>4, SayStep

LEMMA RouteDisconnectStep ==
  ASSUME RouteInv, NEW k \in Connectors, NEW ch \in Channels, RouteDisconnect(k, ch)
  PROVE  StepKept
<1> DEFINE to == toClient[ch]
           suspended == to # None /\ ws[to] = "open" /\ Len(out[to]) >= HighWater
           raises == to # None /\ ws[to] # "open"
<1>1. /\ Talking(k, ch) /\ Say(ch, "disconnect") /\ "disconnect" \in Kinds /\ RoutingTypeOK
      /\ UNCHANGED <<list, index, round, opener, route, told, heard, losses>>
  BY KindsAre DEF RouteDisconnect, RouteInv
<1>2. k \in Links /\ opener[ch] # None /\ (to # None => to \in Links)
  BY <1>1, TalkingIsOpen
<1>3. CASE suspended
  <2>1. /\ out' = [out EXCEPT ![to] = Append(@, <<ch, "disconnect">>)]
        /\ task' = [task EXCEPT ![k] = [on |-> to, drop |-> ch]]
        /\ ws' = ws /\ UNCHANGED cacheVars
    BY <1>3 DEF RouteDisconnect
  <2>2. CacheTypes' /\ \A o \in Channels : CacheShrinks(o)
    BY <2>1, CacheStays
  <2>3. PICK m \in Message : m = <<ch, "disconnect">> /\ m[1] = ch
    <3>1. <<ch, "disconnect">> \in Message
      BY <1>1 DEF Message
    <3> QED
      BY <3>1
  <2>4. out \in [Links -> Seq(Message)] /\ Append(out[to], m) \in Seq(Message)
    BY <1>1, <1>2, <1>3, <2>3, AppendOf DEF RoutingTypeOK, Message
  <2>5. /\ out' \in [Links -> Seq(Message)] /\ out'[to] = Append(out[to], m)
        /\ \A l \in Links : l # to => out'[l] = out[l]
    BY <1>2, <1>3, <2>1, <2>3, <2>4
  <2>6. WireTypes'
    BY <1>1, <1>2, <1>3, <2>1, <2>5 DEF RoutingTypeOK, WireTypes
  <2>7. NoneReopens /\ SendsFor(ch)
    BY <2>1, <2>3, <2>5 DEF NoneReopens, SendsFor
  <2>8. Forwards(ch, to, toClient'[ch], "disconnect")
    BY <1>3, <2>3, <2>5 DEF Forwards
  <2> QED
    BY <1>1, <1>2, <2>2, <2>6, <2>7, <2>8, SayStep
<1>4. CASE ~suspended
  <2>1. /\ IF to # None THEN Send(k, to, <<ch, "disconnect">>) ELSE UNCHANGED wireVars
        /\ IF raises THEN UNCHANGED <<toClient, toConnector>> ELSE RemoveChannels({ch})
        /\ tokenCache' = tokenCache
    BY <1>4 DEF RouteDisconnect
  <2>2. tokenCache' \in [Connectors \cup {Reverse} -> SUBSET Channels]
    BY <1>1, <2>1 DEF RoutingTypeOK
  <2>3. /\ CacheTypes' /\ \A o \in Channels : CacheShrinks(o)
    <3>1. CASE raises
      BY <2>1, <3>1, CacheStays DEF cacheVars
    <3>2. CASE ~raises
      BY <2>1, <2>2, <3>2, CacheDrops
    <3> QED
      BY <3>1, <3>2
  <2>4. toClient'[ch] \in {to, None}
    BY <2>3 DEF CacheShrinks
  <2>5. Forwards(ch, to, toClient'[ch], "disconnect") /\ SendsFor(ch) /\ NoneReopens /\ WireTypes'
    BY <1>1, <1>2, <2>1, <2>4, SendForwards
  <2> QED
    BY <1>1, <1>2, <2>3, <2>5, SayStep
<1> QED
  BY <1>3, <1>4

(* A client that has received something is the client of the channel.      *)
LEMMA ReceivedIsRouted ==
  ASSUME RouteInv, NEW c \in Clients, NEW ch \in Channels, NEW kind, Received(c, ch, kind)
  PROVE  /\ c \in Links /\ route[ch] # None
         /\ toConnector[ch] # None => toConnector[ch] \in Links
<1>1. heard[ch].client # <<>>
  BY EmptySeq DEF Received
<1>2. route[ch] # None
  BY <1>1 DEF RouteInv, ChannelInv, Parties
<1>3. toConnector[ch] # None => toConnector[ch] \in Links
  BY ChannelTypes, PartyTypes DEF RouteInv
<1> QED
  BY <1>2, <1>3, PartyTypes

LEMMA ToConnectorStep ==
  ASSUME RouteInv, NEW c \in Clients, NEW ch \in Channels, NEW kind \in Kinds,
         Received(c, ch, "connect"), ~Ended(ch), ToConnector(c, ch, kind)
  PROVE  StepKept
<1>1. /\ Tell(ch, kind)
      /\ IF toConnector[ch] # None THEN Send(c, toConnector[ch], <<ch, kind>>) ELSE UNCHANGED wireVars
      /\ UNCHANGED cacheVars
      /\ UNCHANGED <<list, index, round, opener, route, said, heard, losses>>
  BY DEF ToConnector
<1>2. CacheTypes' /\ (\A o \in Channels : CacheShrinks(o)) /\ toConnector'[ch] = toConnector[ch]
  BY <1>1, CacheStays
<1>3. /\ c \in Links /\ route[ch] # None
      /\ toConnector[ch] # None => toConnector[ch] \in Links
  BY ReceivedIsRouted
<1>4. /\ Forwards(ch, toConnector[ch], toConnector'[ch], kind) /\ SendsFor(ch) /\ NoneReopens
      /\ WireTypes'
  BY <1>1, <1>2, <1>3, SendForwards
<1> QED
  BY <1>1, <1>2, <1>3, <1>4, TellStep

LEMMA AnswerStep ==
  ASSUME RouteInv, NEW c \in Clients, NEW ch \in Channels, RouteAnswer(c, ch)
  PROVE  StepKept
<1>1. PICK kind \in Kinds : Received(c, ch, "connect") /\ told[ch] = <<>> /\ ToConnector(c, ch, kind)
  BY KindsAre DEF RouteAnswer
<1>2. ~Ended(ch)
  BY <1>1, EmptySeq DEF Ended
<1> QED
  BY <1>1, <1>2, ToConnectorStep

LEMMA AcceptedGoesOn ==
  ASSUME RouteInv, NEW c \in Clients, NEW ch \in Channels, Accepted(c, ch)
  PROVE  Received(c, ch, "connect") /\ ~Ended(ch)
<1>1. told[ch] \in Seq(Kinds)
  BY ChannelTypes DEF RouteInv
<1>2. DOMAIN told[ch] = 1..Len(told[ch])
  BY <1>1, LenProperties
<1> QED
  BY <1>2 DEF Accepted, Ended

LEMMA ClientDataStep ==
  ASSUME RouteInv, NEW c \in Clients, NEW ch \in Channels, RouteClientData(c, ch)
  PROVE  StepKept
  BY AcceptedGoesOn, KindsAre, ToConnectorStep DEF RouteClientData

(* The disconnect of a client goes nowhere.                                *)
LEMMA ClientDisconnectStep ==
  ASSUME RouteInv, NEW c \in Clients, NEW ch \in Channels, ClientDisconnect(c, ch)
  PROVE  StepKept
<1>1. /\ Accepted(c, ch) /\ Tell(ch, "disconnect") /\ "disconnect" \in Kinds
      /\ UNCHANGED cacheVars /\ UNCHANGED <<ws, out, task>>
      /\ UNCHANGED <<list, index, round, opener, route, said, heard, losses>>
  BY KindsAre DEF ClientDisconnect, wireVars
<1>2. CacheTypes' /\ \A o \in Channels : CacheShrinks(o)
  BY <1>1, CacheStays
<1>3. route[ch] # None /\ ~Ended(ch)
  BY <1>1, AcceptedGoesOn, ReceivedIsRouted
<1>4. NoneReopens /\ SendsFor(ch)
  BY <1>1, NoSend
<1>5. WireTypes'
  BY <1>1 DEF RouteInv, RoutingTypeOK, WireTypes, Message
<1> QED
  BY <1>1, <1>2, <1>3, <1>4, <1>5, TellStep

(* Steps that are about no channel.                                        *)
LEMMA QuietStep ==
  ASSUME RouteInv, UNCHANGED talkVars, \A ch \in Channels : CacheShrinks(ch), NoneReopens,
         \A l \in Links : out'[l] = out[l] \/ (out'[l] = <<>> /\ ws'[l] # "open"),
         RoutingTypeOK', Listed', RoundInv'
  PROVE  StepKept
<1>1. Present /\ Present'
  BY PartyTypes DEF RouteInv, Present, NoneReopens
<1>2. ASSUME NEW ch \in Channels PROVE Kept(ch)
  <2>1. SameTalk(ch)
    BY DEF SameTalk, talkVars
  <2>2. \A l \in Links : Moves(ch, l)
    BY DEF Moves
  <2> QED
    BY <2>1, <2>2, UntouchedStep DEF Untouched
<1> QED
  BY <1>1, <1>2, AllKept

LEMMA ListStays ==
  ASSUME RouteInv, UNCHANGED <<list, index, round>>, NoneReopens
  PROVE  Listed' /\ RoundInv'
  BY SameList, SameRound DEF RouteInv

LEMMA SocksRequestStep ==
  ASSUME RouteInv, SocksRequest
  PROVE  StepKept
<1>1. /\ RoutingTypeOK /\ RoundInv /\ Listed /\ Present /\ list # <<>> /\ PickNext /\ list' = list
      /\ UNCHANGED <<cacheVars, wireVars, talkVars, losses>>
  BY DEF RouteInv, SocksRequest
<1>2. index' \in Nat /\ round' \in Seq(Clients) /\ RoundInv'
  BY <1>1, PickKept
<1>3. UNCHANGED talkVars /\ (\A ch \in Channels : CacheShrinks(ch)) /\ UNCHANGED <<ws, out, task>>
  BY <1>1, CacheStays DEF wireVars
<1>4. NoneReopens
  BY <1>3 DEF NoneReopens
<1>5. Listed'
  BY <1>1, <1>4, SameList
<1>6. RoutingTypeOK'
  BY <1>1, <1>2 DEF RoutingTypeOK, wireVars, talkVars, cacheVars
<1> QED
  BY <1>2, <1>3, <1>4, <1>5, <1>6, QuietStep

LEMMA DrainedStep ==
  ASSUME RouteInv, NEW l \in Links, Drained(l)
  PROVE  StepKept
<1>1. /\ RoutingTypeOK
      /\ task' = [task EXCEPT ![l] = Idle]
      /\ IF task[l].drop = None THEN UNCHANGED <<toClient, toConnector>>
                                ELSE RemoveChannels({task[l].drop})
      /\ UNCHANGED talkVars
      /\ UNCHANGED <<list, index, tokenCache, ws, out, losses, round>>
  BY DEF RouteInv, Drained, Resume
<1>2. CacheTypes' /\ \A ch \in Channels : CacheShrinks(ch)
  <2>1. CASE task[l].drop = None
    BY <1>1, <2>1, CacheStays DEF cacheVars
  <2>2. CASE task[l].drop # None
    <3>1. tokenCache' \in [Connectors \cup {Reverse} -> SUBSET Channels]
      BY <1>1 DEF RoutingTypeOK
    <3> QED
      BY <1>1, <2>2, <3>1, CacheDrops
  <2> QED
    BY <2>1, <2>2
<1>3. NoneReopens
  BY <1>1 DEF NoneReopens
<1>4. RoutingTypeOK'
  BY <1>1, <1>2 DEF RoutingTypeOK, CacheTypes, talkVars, Idle
<1> QED
  BY <1>1, <1>2, <1>3, <1>4, ListStays, QuietStep

LEMMA SendRaisesStep ==
  ASSUME RouteInv, NEW l \in Links, SendRaises(l)
  PROVE  StepKept
<1>1. /\ RoutingTypeOK
      /\ task' = [task EXCEPT ![l] = Idle] /\ ws' = [ws EXCEPT ![l] = "closed"]
      /\ UNCHANGED talkVars /\ UNCHANGED cacheVars
      /\ UNCHANGED <<list, index, out, losses, round>>
  BY DEF RouteInv, SendRaises
<1>2. \A ch \in Channels : CacheShrinks(ch)
  BY <1>1, CacheStays
<1>3. NoneReopens
  BY <1>1 DEF NoneReopens, RoutingTypeOK
<1>4. RoutingTypeOK'
  BY <1>1 DEF RoutingTypeOK, cacheVars, talkVars, Idle
<1> QED
  BY <1>1, <1>2, <1>3, <1>4, ListStays, QuietStep

LEMMA LinkLostStep ==
  ASSUME RouteInv, NEW l \in Links, LinkLost(l)
  PROVE  StepKept
<1>1. /\ RoutingTypeOK /\ losses < MaxLosses /\ losses' = losses + 1
      /\ ws' = [ws EXCEPT ![l] = "closed"] /\ out' = [out EXCEPT ![l] = <<>>]
      /\ UNCHANGED talkVars /\ UNCHANGED cacheVars
      /\ UNCHANGED <<list, index, task, round>>
  BY DEF RouteInv, LinkLost
<1>2. \A ch \in Channels : CacheShrinks(ch)
  BY <1>1, CacheStays
<1>3. NoneReopens
  BY <1>1 DEF NoneReopens, RoutingTypeOK
<1>4. \A o \in Links : out'[o] = out[o] \/ (out'[o] = <<>> /\ ws'[o] # "open")
  BY <1>1 DEF RoutingTypeOK
<1>5. losses' \in 0..MaxLosses
  BY <1>1, RoutingAssumption DEF RoutingTypeOK
<1>6. RoutingTypeOK'
  BY <1>1, <1>5, EmptySeq DEF RoutingTypeOK, cacheVars, talkVars
<1> QED
  BY <1>1, <1>2, <1>3, <1>4, <1>6, ListStays, QuietStep

LEMMA RemoveConnectorTokenStep ==
  ASSUME RouteInv, NEW k \in Connectors, RemoveConnectorToken(k)
  PROVE  StepKept
<1>1. /\ RoutingTypeOK /\ losses < MaxLosses /\ losses' = losses + 1
      /\ ws' = [ws EXCEPT ![k] = "closed"] /\ RemoveChannels(tokenCache[k])
      /\ tokenCache' = [tokenCache EXCEPT ![k] = {}]
      /\ UNCHANGED talkVars
      /\ UNCHANGED <<list, index, out, task, round>>
  BY DEF RouteInv, RemoveConnectorToken, CleanupToken
<1>2. CacheTypes' /\ \A ch \in Channels : CacheShrinks(ch)
  <2>1. tokenCache' \in [Connectors \cup {Reverse} -> SUBSET Channels]
    BY <1>1 DEF RoutingTypeOK
  <2> QED
    BY <1>1, <2>1, CacheDrops
<1>3. NoneReopens
  BY <1>1, PartyTypes DEF NoneReopens, RoutingTypeOK
<1>5. losses' \in 0..MaxLosses
  BY <1>1, RoutingAssumption DEF RoutingTypeOK
<1>6. RoutingTypeOK'
  BY <1>1, <1>2, <1>5 DEF RoutingTypeOK, CacheTypes, talkVars
<1> QED
  BY <1>1, <1>2, <1>3, <1>6, ListStays, QuietStep

LEMMA EmptyRound ==
  ASSUME round' = <<>>, NEW q \in Seq(Clients), list' = q
  PROVE  RoundInv' /\ round' \in Seq(Clients)
<1>1. Len(<<>>) = 0 /\ DOMAIN <<>> = {} /\ <<>> \in Seq(Clients) /\ Len(q) \in Nat
  BY EmptySeq, LenProperties
<1> QED
  BY <1>1 DEF RoundInv

LEMMA ClientJoinsStep ==
  ASSUME RouteInv, NEW c \in Clients, ClientJoins(c)
  PROVE  StepKept
<1>1. /\ RoutingTypeOK /\ Listed /\ c \in Links
      /\ ws[c] = "absent" /\ ws' = [ws EXCEPT ![c] = "open"]
      /\ list' = Append(list, c) /\ round' = <<>>
      /\ UNCHANGED talkVars /\ UNCHANGED cacheVars
      /\ UNCHANGED <<index, out, task, losses>>
  BY PartyTypes DEF RouteInv, ClientJoins
<1>2. \A ch \in Channels : CacheShrinks(ch)
  BY <1>1, CacheStays
<1>3. NoneReopens
  BY <1>1 DEF NoneReopens, RoutingTypeOK
<1>4. /\ list \in Seq(Clients) /\ Len(list) \in Nat /\ DOMAIN list = 1..Len(list)
      /\ list' \in Seq(Clients) /\ DOMAIN list' = 1..(Len(list) + 1)
      /\ list'[Len(list) + 1] = c /\ \A i \in 1..Len(list) : list'[i] = list[i]
  BY <1>1, AppendOf DEF RoutingTypeOK
<1>5. \A i \in 1..Len(list) : list[i] \in Links /\ list[i] # c
  BY <1>1, <1>4, PartyTypes DEF Listed
<1>6. \A i \in DOMAIN list' : i = Len(list) + 1 \/ i \in 1..Len(list)
  BY <1>4
<1>7. Listed'
  <2>1. \A i, j \in DOMAIN list' : list'[i] = list'[j] => i = j
    BY <1>1, <1>4, <1>5, <1>6 DEF Listed
  <2>2. \A i \in DOMAIN list' : ws'[list'[i]] # "absent"
    BY <1>1, <1>4, <1>5, <1>6 DEF Listed, RoutingTypeOK
  <2> QED
    BY <2>1, <2>2 DEF Listed
<1>8. RoundInv' /\ round' \in Seq(Clients)
  BY <1>1, <1>4, EmptyRound
<1>9. RoutingTypeOK'
  BY <1>1, <1>4, <1>8 DEF RoutingTypeOK, cacheVars, talkVars
<1> QED
  BY <1>1, <1>2, <1>3, <1>7, <1>8, <1>9, QuietStep

LEMMA WithoutOf ==
  ASSUME NEW q \in Seq(Clients), \A i, j \in DOMAIN q : q[i] = q[j] => i = j, NEW x
  PROVE  LET w == Without(q, x)
         IN  /\ w \in Seq(Clients)
             /\ \A i, j \in DOMAIN w : w[i] = w[j] => i = j
             /\ \A i \in DOMAIN w : \E j \in DOMAIN q : w[i] = q[j]
             /\ x \notin Clients => w = q
<1> DEFINE w == Without(q, x)
<1>1. Len(q) \in Nat /\ DOMAIN q = 1..Len(q) /\ \A i \in 1..Len(q) : q[i] \in Clients
  BY LenProperties
<1>2. CASE ~\E i \in DOMAIN q : q[i] = x
  <2>1. w = q
    BY <1>2 DEF Without
  <2> QED
    BY <2>1
<1>3. CASE \E i \in DOMAIN q : q[i] = x
  <2>1. PICK at \in DOMAIN q : w = [i \in 1..(Len(q) - 1) |-> q[IF i < at THEN i ELSE i + 1]]
    BY <1>3 DEF Without
  <2>2. \A i \in 1..(Len(q) - 1) : (IF i < at THEN i ELSE i + 1) \in 1..Len(q)
    BY <1>1
  <2>3. Len(q) - 1 \in Nat
    BY <1>1
  <2>4. w \in Seq(Clients) /\ DOMAIN w = 1..(Len(q) - 1)
    BY <1>1, <2>1, <2>2, <2>3, SeqDef
  <2>5. \A i, j \in 1..(Len(q) - 1) :
          (IF i < at THEN i ELSE i + 1) = (IF j < at THEN j ELSE j + 1) => i = j
    BY <1>1
  <2>6. \A i, j \in DOMAIN w : w[i] = w[j] => i = j
    BY <1>1, <2>1, <2>2, <2>4, <2>5
  <2>7. \A i \in DOMAIN w : \E j \in DOMAIN q : w[i] = q[j]
    BY <1>1, <2>1, <2>2, <2>4
  <2>8. x \in Clients
    BY <1>1, <1>3
  <2> QED
    BY <2>4, <2>6, <2>7, <2>8
<1> QED
  BY <1>2, <1>3

LEMMA SessionEndsStep ==
  ASSUME RouteInv, NEW l \in Links, SessionEnds(l)
  PROVE  StepKept
<1> DEFINE left == Without(list, l)
<1>1. /\ RoutingTypeOK /\ Listed /\ RoundInv /\ ws[l] = "closed"
      /\ ws' = [ws EXCEPT ![l] = "gone"] /\ out' = [out EXCEPT ![l] = <<>>]
      /\ task' = [task EXCEPT ![l] = Idle]
      /\ list' = left /\ index' = IF left = <<>> THEN 0 ELSE index
      /\ round' = IF l \in Clients THEN <<>> ELSE round
      /\ UNCHANGED talkVars /\ UNCHANGED cacheVars /\ losses' = losses
  BY DEF RouteInv, SessionEnds
<1>2. \A ch \in Channels : CacheShrinks(ch)
  BY <1>1, CacheStays
<1>3. NoneReopens
  BY <1>1 DEF NoneReopens, RoutingTypeOK
<1>4. \A o \in Links : out'[o] = out[o] \/ (out'[o] = <<>> /\ ws'[o] # "open")
  BY <1>1 DEF RoutingTypeOK
<1>5. /\ list \in Seq(Clients) /\ left \in Seq(Clients)
      /\ \A i, j \in DOMAIN left : left[i] = left[j] => i = j
      /\ \A i \in DOMAIN left : \E j \in DOMAIN list : left[i] = list[j]
      /\ l \notin Clients => left = list
  BY <1>1, WithoutOf DEF Listed, RoutingTypeOK
<1> HIDE DEF left
<1>6. Listed'
  <2>1. ASSUME NEW i \in DOMAIN left PROVE ws'[left[i]] # "absent"
    <3>1. PICK j \in DOMAIN list : left[i] = list[j]
      BY <1>5
    <3>2. list[j] \in Links /\ ws[list[j]] # "absent"
      BY <1>1, <1>5, PartyTypes DEF Listed
    <3> QED
      BY <1>3, <3>1, <3>2 DEF NoneReopens
  <2> QED
    BY <1>1, <1>5, <2>1 DEF Listed
<1>7. RoundInv' /\ round' \in Seq(Clients)
  <2>1. CASE l \in Clients
    BY <1>1, <1>5, <2>1, EmptyRound
  <2>2. CASE l \notin Clients
    <3>1. list' = list /\ round' = round /\ round \in Seq(Clients)
      BY <1>1, <1>5, <2>2 DEF RoutingTypeOK
    <3>2. CASE list # <<>>
      <4>1. index' = index
        BY <1>1, <1>5, <2>2, <3>2
      <4> QED
        BY <1>1, <3>1, <4>1, SameRound
    <3>3. CASE list = <<>>
      <4>1. round = <<>>
        <5>1. Len(round) <= 0 /\ Len(round) \in Nat
          BY <1>1, <3>1, <3>3, LenProperties, EmptySeq DEF RoundInv
        <5> QED
          BY <3>1, <5>1, EmptySeq
      <4> QED
        BY <1>5, <3>1, <4>1, EmptyRound
    <3> QED
      BY <3>2, <3>3
  <2> QED
    BY <2>1, <2>2
<1>8. RoutingTypeOK'
  BY <1>1, <1>5, <1>7, EmptySeq DEF RoutingTypeOK, cacheVars, talkVars, Idle
<1> QED
  BY <1>1, <1>2, <1>3, <1>4, <1>6, <1>7, <1>8, QuietStep

LEMMA ReceiveStep ==
  ASSUME RouteInv, NEW l \in Links, Receive(l)
  PROVE  StepKept
<1>1. /\ RoutingTypeOK /\ Listed /\ RoundInv /\ Present /\ out[l] # <<>> /\ out[l] \in Seq(Message)
      /\ UNCHANGED <<list, index, toClient, toConnector, tokenCache, ws, task, opener, route,
                     said, told, losses, round>>
  BY DEF RouteInv, Receive, cacheVars, RoutingTypeOK, Message
<1>2. /\ out[l][1] \in Message /\ Head(out[l]) = out[l][1] /\ Tail(out[l]) \in Seq(Message)
  BY <1>1, TailOf
<1>3. PICK ch \in Channels, kind \in Kinds : ch = out[l][1][1] /\ kind = out[l][1][2]
  BY <1>2 DEF Message
<1>4. /\ out' = [out EXCEPT ![l] = Tail(out[l])]
      /\ heard' = IF l \in Clients
                    THEN [heard EXCEPT ![ch].client = Append(@, <<l, kind>>)]
                    ELSE [heard EXCEPT ![ch].connector = Append(@, <<l, kind>>)]
  BY <1>2, <1>3 DEF Receive
<1>5. /\ out' \in [Links -> Seq(Message)] /\ out'[l] = Tail(out[l])
      /\ \A o \in Links : o # l => out'[o] = out[o]
  BY <1>1, <1>2, <1>4 DEF RoutingTypeOK, Message
<1>6. /\ heard' \in [Channels -> [client : Seq(Links \X Kinds), connector : Seq(Links \X Kinds)]]
      /\ l \in Clients => heard'[ch] = [heard[ch] EXCEPT !.client = Append(@, <<l, kind>>)]
      /\ l \notin Clients => heard'[ch] = [heard[ch] EXCEPT !.connector = Append(@, <<l, kind>>)]
      /\ \A o \in Channels : o # ch => heard'[o] = heard[o]
  <2>1. heard \in [Channels -> [client : Seq(Links \X Kinds), connector : Seq(Links \X Kinds)]]
    BY <1>1 DEF RoutingTypeOK
  <2>2. PICK got \in Links \X Kinds : got = <<l, kind>>
    OBVIOUS
  <2>3. /\ Append(heard[ch].client, got) \in Seq(Links \X Kinds)
        /\ Append(heard[ch].connector, got) \in Seq(Links \X Kinds)
    BY <2>1, AppendOf
  <2> QED
    BY <1>4, <2>1, <2>2, <2>3
<1>7. NoneReopens
  BY <1>1 DEF NoneReopens
<1>8. RoutingTypeOK'
  BY <1>1, <1>5, <1>6 DEF RoutingTypeOK, Message
<1>9. (Listed /\ RoundInv /\ Present)'
  BY <1>1, <1>7, SameList, SameRound
<1>10. Kept(ch)
  <2>1. ChannelInv(ch) /\ out[l][1][1] = ch
    BY <1>3 DEF RouteInv
  <2> QED
    BY <1>1, <1>3, <1>5, <1>6, <2>1, HeardKept DEF Kept
<1>11. ASSUME NEW o \in Channels, o # ch PROVE Kept(o)
  <2>1. \A x \in Links : Moves(o, x)
    BY <1>1, <1>3, <1>5, <1>11 DEF Moves
  <2>2. SameTalk(o) /\ CacheShrinks(o)
    BY <1>1, <1>6, <1>11 DEF SameTalk, CacheShrinks
  <2> QED
    BY <1>7, <2>1, <2>2, UntouchedStep DEF Untouched
<1> QED
  BY <1>8, <1>9, <1>10, <1>11, AllKept
-----------------------------------------------------------------------------
LEMMA RouteInitInv ==
  ASSUME RoutingInit
  PROVE  RouteInv /\ \A ch \in Channels : Channel(ch)!RouteInit
<1>1. /\ Len(<<>>) = 0 /\ DOMAIN <<>> = {} /\ \A S : <<>> \in Seq(S)
  BY EmptySeq
<1>2. RoutingTypeOK
  <2>1. losses \in 0..MaxLosses
    BY RoutingAssumption DEF RoutingInit
  <2>2. \A l \in Links : task[l] \in [on : Links \cup {None}, drop : Channels \cup {None}]
    BY DEF RoutingInit, Idle
  <2> QED
    BY <1>1, <2>1, <2>2 DEF RoutingInit, RoutingTypeOK
<1>3. Listed /\ RoundInv /\ Present
  <2>1. Present
    BY PartyTypes DEF RoutingInit, Present
  <2> QED
    BY <1>1, <2>1 DEF RoutingInit, Listed, RoundInv
<1>4. ASSUME NEW ch \in Channels PROVE ChannelInv(ch) /\ Channel(ch)!RouteInit
  <2>1. /\ opener[ch] = None /\ route[ch] = None /\ said[ch] = <<>> /\ told[ch] = <<>>
        /\ heard[ch] = [client |-> <<>>, connector |-> <<>>]
        /\ toClient[ch] = None /\ toConnector[ch] = None
    BY DEF RoutingInit
  <2>2. \A l \in Links : 1..Len(out[l]) = {}
    BY <1>1 DEF RoutingInit
  <2>3. ChannelInv(ch)
    BY <2>1, <2>2 DEF ChannelInv, Parties, Confined, ClientFed, ConnectorFed
  <2> QED
    BY <2>1, <2>3 DEF Channel!RouteInit
<1> QED
  BY <1>2, <1>3, <1>4 DEF RouteInv

LEMMA RouteNextInv ==
  ASSUME RouteInv, [RoutingNext]_routingVars
  PROVE  StepKept
<1>1. ASSUME NEW k \in Connectors, ConnectorSends(k) \/ RemoveConnectorToken(k)
      PROVE  StepKept
  BY <1>1, RouteConnectStep, RouteDataStep, RouteDisconnectStep, RemoveConnectorTokenStep
     DEF ConnectorSends
<1>2. ASSUME NEW c \in Clients, ClientJoins(c) \/ ClientSends(c)
      PROVE  StepKept
  BY <1>2, ClientJoinsStep, AnswerStep, ClientDataStep, ClientDisconnectStep DEF ClientSends
<1>3. ASSUME NEW l \in Links,
             Drained(l) \/ SendRaises(l) \/ Receive(l) \/ LinkLost(l) \/ SessionEnds(l)
      PROVE  StepKept
  BY <1>3, DrainedStep, SendRaisesStep, ReceiveStep, LinkLostStep, SessionEndsStep
<1>4. CASE UNCHANGED routingVars
  <2>1. UNCHANGED talkVars /\ UNCHANGED cacheVars /\ UNCHANGED wireVars
        /\ UNCHANGED <<list, index, losses, round>>
    BY <1>4 DEF routingVars
  <2>2. UNCHANGED <<ws, out, task>> /\ NoneReopens
    BY <2>1 DEF wireVars, NoneReopens
  <2>3. \A ch \in Channels : CacheShrinks(ch)
    BY <2>1, CacheStays
  <2>4. RoutingTypeOK'
    BY <2>1, <2>2 DEF RouteInv, RoutingTypeOK, talkVars, cacheVars
  <2> QED
    BY <2>1, <2>2, <2>3, <2>4, ListStays, QuietStep
<1> QED
  BY <1>1, <1>2, <1>3, <1>4, SocksRequestStep DEF RoutingNext

(* While the reverse clients stay the same, connectors and SOCKS requests  *)
(* use each of them once before one is used again (_get_next_websocket).   *)
THEOREM RoundRobinTheorem == RoutingSpec => []RoundRobin
<1>1. RoutingInit => RouteInv
  BY RouteInitInv
<1>2. RouteInv /\ [RoutingNext]_routingVars => RouteInv'
  BY RouteNextInv DEF StepKept
<1>3. RouteInv => RoundRobin
  BY RoundIsOnce
<1> QED
  BY <1>1, <1>2, <1>3, PTL DEF RoutingSpec

(* Each channel is relayed between the connector that opened it and one    *)
(* reverse client, each of whom hears a prefix of what the other sent (the *)
(* dispatchers and ConnectorCache).                                        *)
THEOREM RouteTheorem == RoutingSpec => ImplementsRoute
<1>1. RoutingInit => RouteInv /\ \A ch \in Channels : Channel(ch)!RouteInit
  BY RouteInitInv
<1>2. RouteInv /\ [RoutingNext]_routingVars
        => RouteInv' /\ \A ch \in Channels : [Channel(ch)!RouteNext]_(Channel(ch)!routeVars)
  BY RouteNextInv DEF StepKept
<1> QED
  BY <1>1, <1>2, PTL DEF RoutingSpec, ImplementsRoute
=============================================================================
