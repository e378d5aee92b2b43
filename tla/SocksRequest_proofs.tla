------------------------ MODULE SocksRequest_proofs ------------------------
EXTENDS SocksRequest, SequenceTheorems, WellFoundedInduction, TLAPS

(***************************************************************************)
(* Theorems about SocksRequest, for every set of requests, every id, every *)
(* user and password, and every even Base of at least 4 (CodecAssumption). *)
(*                                                                         *)
(* The first half is about MessageCodec: what the parser makes of the      *)
(* bytes the packer writes, field by field and then for every kind of      *)
(* message. The second half is the inductive invariant of a request, from  *)
(* the greeting of the SOCKS program to the reply of the target.           *)
(***************************************************************************)

(***************************************************************************)
(* Induction over the natural numbers, for a set instead of a predicate.   *)
(***************************************************************************)

(* A set of natural numbers has a least element.                           *)
LEMMA Least ==
  ASSUME NEW T \in SUBSET Nat, T # {}
  PROVE  \E n \in T : \A k \in T : n <= k
<1> DEFINE R == OpToRel(<, Nat)
<1>1. \A x, y \in Nat : <<x, y>> \in R <=> x < y
  BY DEF OpToRel
<1>2. IsWellFoundedOn(R, Nat)
  BY NatLessThanWellFounded
<1> HIDE DEF R
<1>3. PICK x \in T : \A y \in T : ~ (<<y, x>> \in R)
  BY <1>2, WFMin
<1>4. \A y \in T : ~ (y < x)
  BY <1>1, <1>3
<1> QED
  BY <1>4

(* A set that holds 0, and n + 1 with every n, holds every number.         *)
LEMMA Induction ==
  ASSUME NEW S, 0 \in S, \A n \in Nat : n \in S => n + 1 \in S
  PROVE  Nat \subseteq S
<1> SUFFICES ASSUME Nat \ S # {} PROVE FALSE
  OBVIOUS
<1>1. PICK n \in Nat \ S : \A k \in Nat \ S : n <= k
  BY Least
<1>2. n # 0 /\ n - 1 \in Nat
  BY <1>1
<1>3. n - 1 \in S
  BY <1>1, <1>2
<1> QED
  BY <1>1, <1>2, <1>3

(***************************************************************************)
(* Sequences.                                                              *)
(***************************************************************************)
LEMMA FunctionIsSeq ==
  ASSUME NEW S, NEW n \in Nat, NEW f \in [1..n -> S]
  PROVE  f \in Seq(S) /\ Len(f) = n
  OBVIOUS

(* A part of a sequence is a sequence.                                     *)
LEMMA SubSeqTyped ==
  ASSUME NEW S, NEW s \in Seq(S), NEW a \in Nat, NEW b \in Nat, a >= 1, b <= Len(s)
  PROVE  SubSeq(s, a, b) \in Seq(S)
<1>1. \A i \in a..b : s[i] \in S
  BY ElementOfSeq
<1> QED
  BY <1>1, SubSeqProperties

(* What is left of a sequence is a sequence.                               *)
LEMMA DropTyped ==
  ASSUME NEW S, NEW s \in Seq(S), NEW n \in Nat
  PROVE  Drop(s, n) \in Seq(S)
<1>1. Len(s) \in Nat
  BY LenProperties
<1> QED
  BY <1>1, SubSeqTyped DEF Drop

(* Behind a prefix is what was appended to it.                             *)
LEMMA DropOfConcat ==
  ASSUME NEW S, NEW a \in Seq(S), NEW b \in Seq(S)
  PROVE  Drop(a \o b, Len(a)) = b
<1> DEFINE d == SubSeq(a \o b, Len(a) + 1, Len(a) + Len(b))
<1>1. Len(a) \in Nat /\ Len(b) \in Nat /\ a \o b \in Seq(S) /\ Len(a \o b) = Len(a) + Len(b)
  BY LenProperties, ConcatProperties
<1>2. \A i \in Len(a) + 1 .. Len(a) + Len(b) : (a \o b)[i] \in S
  BY <1>1, ElementOfSeq
<1>3. d \in Seq(S) /\ Len(d) = Len(b) /\ \A i \in 1..Len(b) : d[i] = (a \o b)[Len(a) + i]
  <2>1. /\ d \in Seq(S)
        /\ Len(d) = IF Len(a) + 1 <= Len(a) + Len(b)
                      THEN Len(a) + Len(b) - (Len(a) + 1) + 1 ELSE 0
        /\ \A i \in 1 .. Len(a) + Len(b) - (Len(a) + 1) + 1 :
              d[i] = (a \o b)[Len(a) + 1 + i - 1]
    BY <1>1, <1>2, SubSeqProperties
  <2> HIDE DEF d
  <2> QED
    BY SMTT(30), <1>1, <2>1
<1>4. \A i \in 1..Len(b) : (a \o b)[Len(a) + i] = b[i]
  BY <1>1, ConcatProperties
<1> HIDE DEF d
<1>5. d = b
  BY <1>3, <1>4, SeqEqual
<1> QED
  BY <1>1, <1>5 DEF d, Drop

(* The front of a concatenation is what came first.                        *)
LEMMA FrontOfConcat ==
  ASSUME NEW S, NEW a \in Seq(S), NEW b \in Seq(S)
  PROVE  SubSeq(a \o b, 1, Len(a)) = a
<1>1. CASE a = <<>>
  BY <1>1, SubSeqEmpty
<1>2. CASE a # <<>>
  <2>1. Len(a) \in Nat \ {0} /\ 1 \in 1..Len(a) /\ Len(a) \in 1..Len(a)
    BY <1>2, EmptySeq
  <2>2. SubSeq(a \o b, 1, Len(a)) = SubSeq(a, 1, Len(a))
    BY <2>1, SubSeqOfConcat1
  <2> QED
    BY <2>2, SubSeqFull
<1> QED
  BY <1>1, <1>2

(* A number, from its quotient and remainder.                              *)
LEMMA DivMod ==
  ASSUME NEW n \in Nat, NEW d \in Nat \ {0}
  PROVE  n \div d \in Nat /\ n % d \in Nat /\ n % d < d /\ n = d * (n \div d) + (n % d)
  OBVIOUS

(* The digits of a number with two of them.                                *)
LEMMA ModDiv ==
  ASSUME NEW q \in Nat, NEW r \in Nat, NEW d \in Nat \ {0}, r < d
  PROVE  (d * q + r) \div d = q /\ (d * q + r) % d = r
  OBVIOUS

(***************************************************************************)
(* FlattenSeq, whose recursive function exists and has the right values.   *)
(***************************************************************************)
Flat(s, n) ==
    CHOOSE f : f = [i \in 1..n |-> IF i = 1 THEN s[i] ELSE f[i - 1] \o s[i]]

Unfolds(f, s, n) ==
    \A i \in 1..n : f[i] = IF i = 1 THEN s[i] ELSE f[i - 1] \o s[i]

(* FlattenSeq, by the function that it computes.                           *)
LEMMA FlatDef ==
  ASSUME NEW s, Len(s) # 0
  PROVE  FlattenSeq(s) = Flat(s, Len(s))[Len(s)]
  BY DEF FlattenSeq, Flat

(* One step of that function.                                              *)
LEMMA FlatStep ==
  ASSUME NEW n \in Nat, NEW s, NEW f, Unfolds(f, s, n),
         NEW k \in Nat, k + 1 \in 1..n
  PROVE  f[k + 1] = IF k = 0 THEN s[1] ELSE f[k] \o s[k + 1]
<1>1. PICK i \in 1..n : i = k + 1
  OBVIOUS
<1>2. f[i] = IF i = 1 THEN s[i] ELSE f[i - 1] \o s[i]
  BY DEF Unfolds
<1>3. i - 1 = k /\ (i = 1 <=> k = 0)
  BY <1>1
<1> QED
  BY <1>1, <1>2, <1>3

(* Such a function exists: FlattenSeq is not a choice from nothing.        *)
LEMMA FlatExists ==
  ASSUME NEW S, NEW s \in Seq(Seq(S))
  PROVE  LET n == Len(s)
             f == Flat(s, n)
         IN  f \in [1..n -> Seq(S)] /\ Unfolds(f, s, n)
<1> DEFINE Good(g, k) ==
             /\ g \in [1..k -> Seq(S)]
             /\ \A i \in 1..k : g[i] = IF i = 1 THEN s[i] ELSE g[i - 1] \o s[i]
           K == {k \in Nat : k <= Len(s) => \E g : Good(g, k)}
<1>0. Len(s) \in Nat /\ \A i \in 1..Len(s) : s[i] \in Seq(S)
  BY ElementOfSeq, LenProperties
<1>1. 0 \in K
  <2>1. Good([i \in 1..0 |-> <<>>], 0)
    OBVIOUS
  <2> HIDE DEF Good
  <2> QED
    BY <2>1
<1>2. ASSUME NEW k \in Nat, k \in K PROVE k + 1 \in K
  <2>0. k + 1 <= Len(s) => \E g : Good(g, k)
    <3> HIDE DEF Good
    <3> QED
      BY <1>0, <1>2
  <2> SUFFICES ASSUME k + 1 <= Len(s) PROVE \E g : Good(g, k + 1)
    <3> HIDE DEF Good
    <3> QED
      OBVIOUS
  <2>1. PICK g : Good(g, k)
    BY <2>0
  <2> DEFINE last == IF k = 0 THEN s[1] ELSE g[k] \o s[k + 1]
             h == [i \in 1..(k + 1) |-> IF i = k + 1 THEN last ELSE g[i]]
  <2>2. last \in Seq(S)
    <3>1. CASE k = 0
      BY <1>0, <3>1
    <3>2. CASE k # 0
      <4>1. g[k] \in Seq(S) /\ s[k + 1] \in Seq(S)
        BY <1>0, <2>1, <3>2
      <4> QED
        BY <3>2, <4>1, ConcatProperties
    <3> QED
      BY <3>1, <3>2
  <2>3. h \in [1..(k + 1) -> Seq(S)]
    BY <2>1, <2>2
  <2>4. ASSUME NEW i \in 1..(k + 1)
        PROVE  h[i] = IF i = 1 THEN s[i] ELSE h[i - 1] \o s[i]
    <3>1. CASE i = k + 1 /\ k = 0
      BY <3>1
    <3>2. CASE i = k + 1 /\ k # 0
      <4>1. i # 1 /\ i - 1 = k /\ k \in 1..(k + 1) /\ k # k + 1
        BY <3>2
      <4>2. h[i] = last /\ last = g[k] \o s[k + 1] /\ h[k] = g[k]
        BY <3>2, <4>1
      <4> HIDE DEF h, last
      <4> QED
        BY <3>2, <4>1, <4>2
    <3>3. CASE i # k + 1
      <4>1. i \in 1..k
        BY <3>3
      <4>2. h[i] = g[i] /\ (i # 1 => h[i - 1] = g[i - 1])
        BY <4>1
      <4> QED
        BY <2>1, <4>1, <4>2
    <3> QED
      BY <3>1, <3>2, <3>3
  <2> HIDE DEF h
  <2> QED
    BY <2>3, <2>4
<1>3. Nat \subseteq K
  <2> HIDE DEF K
  <2> QED
    BY <1>1, <1>2, Induction
<1>4. PICK g : Good(g, Len(s))
  <2> HIDE DEF Good
  <2> QED
    BY <1>0, <1>3
<1>5. g = [i \in 1..Len(s) |-> IF i = 1 THEN s[i] ELSE g[i - 1] \o s[i]]
  BY <1>4
<1> DEFINE f == Flat(s, Len(s))
<1>6. f = [i \in 1..Len(s) |-> IF i = 1 THEN s[i] ELSE f[i - 1] \o s[i]]
  BY <1>5 DEF Flat
<1> HIDE DEF f, Good
<1>7. Unfolds(f, s, Len(s))
  BY <1>6 DEF Unfolds
<1> DEFINE J == {k \in Nat : k \in 1..Len(s) => f[k] \in Seq(S)}
<1>8. 0 \in J
  OBVIOUS
<1>9. ASSUME NEW k \in Nat, k \in J PROVE k + 1 \in J
  <2> SUFFICES ASSUME k + 1 \in 1..Len(s) PROVE f[k + 1] \in Seq(S)
    OBVIOUS
  <2>0. f[k + 1] = IF k = 0 THEN s[1] ELSE f[k] \o s[k + 1]
    BY <1>0, <1>7, FlatStep
  <2>1. CASE k = 0
    BY <1>0, <2>0, <2>1
  <2>2. CASE k # 0
    <3>1. f[k] \in Seq(S) /\ s[k + 1] \in Seq(S)
      BY <1>0, <1>9, <2>2
    <3>2. f[k + 1] = f[k] \o s[k + 1]
      BY <2>0, <2>2
    <3> QED
      BY <3>1, <3>2, ConcatProperties
  <2> QED
    BY <2>1, <2>2
<1>10. Nat \subseteq J
  <2> HIDE DEF J
  <2> QED
    BY <1>8, <1>9, Induction
<1>11. \A i \in 1..Len(s) : f[i] \in Seq(S)
  BY <1>0, <1>10
<1>12. f \in [1..Len(s) -> Seq(S)]
  BY <1>6, <1>11
<1> QED
  BY <1>7, <1>12 DEF f

(* A flattened sequence is a sequence.                                     *)
LEMMA FlattenTyped ==
  ASSUME NEW S, NEW s \in Seq(Seq(S))
  PROVE  FlattenSeq(s) \in Seq(S)
<1>1. CASE Len(s) = 0
  <2>1. s = <<>>
    BY <1>1, EmptySeq
  <2> QED
    BY <1>1, <2>1 DEF FlattenSeq
<1>2. CASE Len(s) # 0
  <2>1. Len(s) \in 1..Len(s)
    BY <1>2, LenProperties
  <2>2. Flat(s, Len(s)) \in [1..Len(s) -> Seq(S)]
    BY FlatExists
  <2> QED
    BY <1>2, <2>1, <2>2, FlatDef
<1> QED
  BY <1>1, <1>2

(* A sequence of singletons is flattened into their elements.              *)
LEMMA FlattenSingletons ==
  ASSUME NEW S, NEW t \in Seq(S), NEW s, s = [i \in DOMAIN t |-> <<t[i]>>]
  PROVE  s \in Seq(Seq(S)) /\ FlattenSeq(s) = t
<1>1. Len(t) \in Nat /\ DOMAIN t = 1..Len(t) /\ \A i \in 1..Len(t) : t[i] \in S
  BY LenProperties, ElementOfSeq
<1>2. s \in [1..Len(t) -> Seq(S)]
  BY <1>1
<1>3. s \in Seq(Seq(S)) /\ Len(s) = Len(t)
  BY <1>1, <1>2, FunctionIsSeq
<1>4. CASE t = <<>>
  <2>1. Len(s) = 0 /\ s = <<>>
    BY <1>3, <1>4, EmptySeq
  <2> QED
    BY <1>3, <1>4, <2>1 DEF FlattenSeq
<1>5. CASE t # <<>>
  <2> DEFINE f == Flat(s, Len(s))
             K == {k \in Nat : k \in 1..Len(t) => f[k] = SubSeq(t, 1, k)}
  <2>1. Unfolds(f, s, Len(t))
    BY <1>3, FlatExists
  <2>2. \A i \in 1..Len(t) : s[i] = <<t[i]>>
    BY <1>1
  <2> HIDE DEF f
  <2>3. 0 \in K
    OBVIOUS
  <2>4. ASSUME NEW k \in Nat, k \in K PROVE k + 1 \in K
    <3> SUFFICES ASSUME k + 1 \in 1..Len(t) PROVE f[k + 1] = SubSeq(t, 1, k + 1)
      OBVIOUS
    <3>1. SubSeq(t, 1, k + 1) = SubSeq(t, 1, k) \o <<t[k + 1]>>
      <4>1. 1 \in 1..Len(t) /\ k + 1 \in 1..Len(t) /\ k + 1 - 1 = k
        BY <1>1
      <4> QED
        BY <4>1, SubSeqRecursiveSecond
    <3>2. f[k + 1] = IF k = 0 THEN s[1] ELSE f[k] \o s[k + 1]
      <4>1. Len(t) \in Nat /\ k \in Nat /\ k + 1 \in 1..Len(t)
        BY <1>1
      <4> QED
        BY <2>1, <4>1, FlatStep
    <3>3. CASE k = 0
      <4>1. SubSeq(t, 1, 0) = <<>>
        BY SubSeqEmpty
      <4>2. <<t[1]>> \in Seq(S) /\ s[1] = <<t[1]>>
        BY <1>1, <2>2, <3>3
      <4>3. <<>> \o <<t[1]>> = <<t[1]>>
        BY <4>2, ConcatEmptySeq
      <4>4. 0 + 1 = 1
        OBVIOUS
      <4> QED
        BY <3>1, <3>2, <3>3, <4>1, <4>2, <4>3, <4>4
    <3>4. CASE k # 0
      <4>1. k \in 1..Len(t)
        BY <1>1, <3>4
      <4>2. f[k] = SubSeq(t, 1, k) /\ s[k + 1] = <<t[k + 1]>>
        BY <2>2, <2>4, <4>1
      <4> QED
        BY <3>1, <3>2, <3>4, <4>2
    <3> QED
      BY <3>3, <3>4
  <2>5. Nat \subseteq K
    <3> HIDE DEF K
    <3> QED
      BY <2>3, <2>4, Induction
  <2>6. Len(t) # 0 /\ Len(t) \in 1..Len(t)
    BY <1>1, <1>5, EmptySeq
  <2>7. f[Len(t)] = SubSeq(t, 1, Len(t))
    BY <1>1, <2>5, <2>6
  <2> QED
    BY <1>3, <2>6, <2>7, FlatDef, SubSeqFull DEF f
<1> QED
  BY <1>3, <1>4, <1>5

(***************************************************************************)
(* The same facts for texts and bytes, which are sequences of numbers.     *)
(***************************************************************************)
LEMMA StrConcat ==
  ASSUME NEW a \in Str, NEW b \in Str
  PROVE  a \o b \in Str /\ Len(a \o b) = Len(a) + Len(b) /\ Len(a) \in Nat /\ Len(b) \in Nat
  BY ConcatProperties, LenProperties DEF Str

(* Concatenation is associative.                                           *)
LEMMA StrAssoc ==
  ASSUME NEW a \in Str, NEW b \in Str, NEW c \in Str
  PROVE  (a \o b) \o c = a \o (b \o c)
  BY ConcatAssociative DEF Str

(* The empty text.                                                         *)
LEMMA StrEmpty ==
  /\ <<>> \in Str /\ Len(<<>>) = 0
  /\ \A a \in Str : a \o <<>> = a /\ <<>> \o a = a /\ (Len(a) = 0 <=> a = <<>>)
  BY ConcatEmptySeq, EmptySeq DEF Str

(* A text of one character.                                                *)
LEMMA StrOne ==
  ASSUME NEW n \in Nat
  PROVE  <<n>> \in Str /\ Len(<<n>>) = 1 /\ <<n>>[1] = n
  BY DEF Str

(* The first element of a concatenation.                                   *)
LEMMA StrFirst ==
  ASSUME NEW n \in Nat, NEW a \in Str
  PROVE  (<<n>> \o a)[1] = n /\ <<n>> \o a # <<>>
<1>1. <<n>> \in Str /\ Len(<<n>>) = 1 /\ <<n>>[1] = n /\ Len(a) \in Nat /\ <<n>> \o a \in Str
       /\ Len(<<n>> \o a) = 1 + Len(a)
  BY StrOne, StrConcat
<1>2. 1 \in 1..Len(<<n>>) + Len(a) /\ 1 <= Len(<<n>>)
  BY <1>1
<1> QED
  BY <1>1, <1>2, ConcatProperties, StrEmpty DEF Str

(* A concatenation taken apart at the length of its front.                 *)
LEMMA StrDrop ==
  ASSUME NEW a \in Str, NEW b \in Str
  PROVE  Drop(a \o b, Len(a)) = b /\ SubSeq(a \o b, 1, Len(a)) = a
  BY DropOfConcat, FrontOfConcat DEF Str

(* An id is a text of IdLen bytes.                                         *)
LEMMA UuidIsStr ==
  ASSUME NEW id \in Uuid
  PROVE  id \in Str /\ Len(id) = IdLen
<1>1. IdLen \in Nat /\ id \in [1..IdLen -> Nat]
  BY CodecAssumption DEF Uuid, Byte
<1> QED
  BY <1>1, FunctionIsSeq DEF Str

(* Bytes are numbers.                                                      *)
LEMMA BytesAreStr ==
  ASSUME NEW b \in Seq(Byte)
  PROVE  b \in Str
<1>1. Byte \subseteq Nat
  BY CodecAssumption DEF Byte
<1> QED
  BY <1>1, SeqMonotonic DEF Str

(* Base is even, and its lower half are the ASCII characters.              *)
LEMMA Halves ==
  /\ Base \in Nat \ {0} /\ Half \in Nat \ {0} /\ Half >= 2 /\ Base = 2 * Half
  /\ Lead \in Nat /\ Lead \notin Ascii /\ Ascii \subseteq Nat
  /\ 0 \in Ascii /\ 1 \in Ascii
  BY CodecAssumption DEF Half, Lead, Ascii

(***************************************************************************)
(* UTF-8.                                                                  *)
(***************************************************************************)
LEMMA Utf8Typed ==
  ASSUME NEW c \in Nat
  PROVE  Utf8(c) \in Seq(Nat)
<1>1. <<c>> \in Seq(Nat) /\ <<Lead, c>> \in Seq(Nat)
  BY Halves
<1> QED
  BY <1>1 DEF Utf8

(* Encoding a text gives bytes.                                            *)
LEMMA EncodeTyped ==
  ASSUME NEW t \in Str
  PROVE  Encode(t) \in Str
<1> DEFINE s == [i \in DOMAIN t |-> Utf8(t[i])]
<1>1. Len(t) \in Nat /\ DOMAIN t = 1..Len(t) /\ \A i \in 1..Len(t) : t[i] \in Nat
  BY LenProperties, ElementOfSeq DEF Str
<1>2. s \in [1..Len(t) -> Seq(Nat)]
  BY <1>1, Utf8Typed
<1> HIDE DEF s
<1>3. s \in Seq(Seq(Nat))
  BY <1>1, <1>2, FunctionIsSeq
<1>4. FlattenSeq(s) \in Seq(Nat)
  BY <1>3, FlattenTyped
<1> QED
  BY <1>4 DEF Encode, s, Str

(* An ASCII text is encoded as itself.                                     *)
LEMMA EncodeAscii ==
  ASSUME NEW t \in Str, IsAscii(t)
  PROVE  Encode(t) = t
<1> DEFINE s == [i \in DOMAIN t |-> Utf8(t[i])]
<1>1. s = [i \in DOMAIN t |-> <<t[i]>>]
  BY DEF IsAscii, Utf8
<1> HIDE DEF s
<1>2. FlattenSeq(s) = t
  BY <1>1, FlattenSingletons DEF Str
<1> QED
  BY <1>2 DEF Encode, s

(* Decoding bytes gives a text or an exception.                            *)
LEMMA DecodeTyped ==
  ASSUME NEW b \in Str
  PROVE  Decode(b) \in Str \cup {Raises}
<1> DEFINE s == [i \in DOMAIN b |-> IF b[i] = Lead THEN <<>> ELSE <<b[i]>>]
<1>1. Len(b) \in Nat /\ DOMAIN b = 1..Len(b) /\ \A i \in 1..Len(b) : b[i] \in Nat
  BY LenProperties, ElementOfSeq DEF Str
<1>2. \A n \in Nat : <<>> \in Seq(Nat) /\ <<n>> \in Seq(Nat)
  OBVIOUS
<1>3. s \in [1..Len(b) -> Seq(Nat)]
  BY <1>1, <1>2
<1> HIDE DEF s
<1>4. s \in Seq(Seq(Nat))
  BY <1>1, <1>3, FunctionIsSeq
<1>5. FlattenSeq(s) \in Seq(Nat)
  BY <1>4, FlattenTyped
<1>6. Decode(b) \in {FlattenSeq(s), Raises}
  BY DEF Decode, s
<1> QED
  BY <1>5, <1>6 DEF Str

(* ASCII bytes are decoded as themselves.                                  *)
LEMMA DecodeAscii ==
  ASSUME NEW b \in Str, IsAscii(b)
  PROVE  Decode(b) = b /\ b # Raises
<1> DEFINE s == [i \in DOMAIN b |-> IF b[i] = Lead THEN <<>> ELSE <<b[i]>>]
<1>1. Len(b) \in Nat /\ DOMAIN b = 1..Len(b) /\ \A i \in 1..Len(b) : b[i] \in Ascii
  BY LenProperties DEF Str, IsAscii
<1>2. s = [i \in DOMAIN b |-> <<b[i]>>]
  BY <1>1, Halves
<1>3. \A i \in 0..Len(b) : ~ (i > 0 /\ b[i] = Lead)
                            /\ ~ (i < Len(b) /\ b[i + 1] \notin Ascii \cup {Lead})
  BY <1>1, Halves
<1> HIDE DEF s
<1>4. FlattenSeq(s) = b
  BY <1>2, FlattenSingletons DEF Str
<1>5. Decode(b) = FlattenSeq(s)
  BY <1>3 DEF Decode, s
<1> QED
  BY <1>4, <1>5, CodecAssumption

(***************************************************************************)
(* Numbers.                                                                *)
(***************************************************************************)
LEMMA ShortNumber ==
  ASSUME NEW n \in Nat
  PROVE  Short(n) \in Str /\ Len(Short(n)) = 2 /\ Number(Short(n)) = n
<1>1. n \div Base \in Nat /\ n % Base \in Nat /\ n = Base * (n \div Base) + (n % Base)
  <2>1. Base \in Nat \ {0}
    BY Halves
  <2> QED
    BY <2>1, DivMod
<1>2. Short(n) \in Str /\ Len(Short(n)) = 2 /\ Short(n)[1] = n \div Base /\ Short(n)[2] = n % Base
  BY <1>1 DEF Short, Str
<1> QED
  BY <1>1, <1>2 DEF Number

(* A number of four bytes is read as it was written.                       *)
LEMMA LongNumber ==
  ASSUME NEW n \in Nat
  PROVE  Long(n) \in Str /\ Len(Long(n)) = 4 /\ Number(Long(n)) = n
<1> DEFINE B == Base * Base
           q == n \div B
           r == n % B
           l == Long(n)
<1>1. B \in Nat \ {0}
  BY Halves
<1> HIDE DEF B
<1>2. q \in Nat /\ r \in Nat /\ n = B * q + r
  BY <1>1, DivMod
<1> HIDE DEF q, r
<1>3. /\ q \div Base \in Nat /\ q % Base \in Nat /\ q = Base * (q \div Base) + (q % Base)
      /\ r \div Base \in Nat /\ r % Base \in Nat /\ r = Base * (r \div Base) + (r % Base)
  <2>1. Base \in Nat \ {0}
    BY Halves
  <2> QED
    BY <1>2, <2>1, DivMod
<1>4. l = <<q \div Base, q % Base>> \o <<r \div Base, r % Base>>
  BY DEF Long, Short, q, r, B
<1>5. /\ l \in Str /\ Len(l) = 4
      /\ l[1] = q \div Base /\ l[2] = q % Base /\ l[3] = r \div Base /\ l[4] = r % Base
  BY <1>3, <1>4 DEF Str
<1>6. Number(l) = Base * Base * (Base * l[1] + l[2]) + Base * l[3] + l[4]
  BY <1>5 DEF Number
<1>7. Number(l) = B * q + r
  <2>1. Number(l) = Base * Base * q + Base * l[3] + l[4]
    BY <1>3, <1>5, <1>6
  <2>2. Base * Base * q \in Nat
    BY <1>2, Halves
  <2>3. Number(l) = Base * Base * q + r
    BY <1>2, <1>3, <1>5, <2>1, <2>2, Halves
  <2> QED
    BY <2>3 DEF B
<1> QED
  BY <1>2, <1>5, <1>7

(***************************************************************************)
(* Fields: what pack_message writes in front is what a parser reads first, *)
(* and it leaves what was written behind.                                  *)
(***************************************************************************)
Reads(f, v, r) == f # Raises /\ f.value = v /\ f.rest = r

(* The value and rest of a field are told from an exception.               *)
LEMMA FieldIsNoException ==
  ASSUME NEW v \in Maybe(Str) \cup [address : Maybe(Str), port : Maybe(Nat)], NEW r \in Str
  PROVE  Reads([value |-> v, rest |-> r], v, r)
<1>1. [value |-> v, rest |-> r] \in Field
  BY DEF Field
<1> QED
  BY <1>1, CodecAssumption DEF Reads

(* A field of a known length, in front of anything.                        *)
LEMMA FixedField ==
  ASSUME NEW a \in Str, NEW b \in Str
  PROVE  Reads(Fixed(a \o b, Len(a)), a, b)
<1>1. Len(a \o b) = Len(a) + Len(b) /\ Len(a) \in Nat /\ Len(b) \in Nat
  BY StrConcat
<1>2. ~ (Len(a \o b) < Len(a))
  BY <1>1
<1>3. Reads([value |-> a, rest |-> b], a, b)
  BY FieldIsNoException DEF Maybe
<1> QED
  BY <1>2, <1>3, StrDrop DEF Fixed

(* A field behind its length, in front of anything.                        *)
LEMMA CountedField ==
  ASSUME NEW l \in Str, NEW a \in Str, NEW b \in Str, Number(l) = Len(a)
  PROVE  Reads(Counted(l \o (a \o b), Len(l)), a, b)
<1>1. a \o b \in Str
  BY StrConcat
<1>2. Len(l \o (a \o b)) = Len(l) + Len(a \o b) /\ Len(l) \in Nat /\ Len(a \o b) \in Nat
  BY <1>1, StrConcat
<1>3. ~ (Len(l \o (a \o b)) < Len(l))
  BY <1>2
<1>4. Drop(l \o (a \o b), Len(l)) = a \o b /\ SubSeq(l \o (a \o b), 1, Len(l)) = l
  BY <1>1, StrDrop
<1> QED
  BY <1>3, <1>4, FixedField DEF Counted

(* A byte as a number.                                                     *)
LEMMA OneByteNumber ==
  ASSUME NEW n \in Nat
  PROVE  Number(<<n>>) = n
  BY DEF Number

(* A text field is never empty: it has a length.                           *)
LEMMA TextTyped ==
  ASSUME NEW t \in Str
  PROVE  Text(t) \in Str /\ Text(t) # <<>>
<1>1. Encode(t) \in Str /\ Len(t) \in Nat
  BY EncodeTyped, StrConcat
<1>2. <<Len(t)>> \in Str
  BY <1>1, StrOne
<1> QED
  BY <1>1, <1>2, StrConcat, StrFirst DEF Text

(* A text field, in front of anything.                                     *)
LEMMA TextIsRead ==
  ASSUME NEW t \in Str, IsAscii(t), NEW q \in Str
  PROVE  Reads(TextField(Text(t) \o q), t, q)
<1>1. Encode(t) = t /\ Decode(t) = t /\ t # Raises
  BY EncodeAscii, DecodeAscii
<1>2. Len(t) \in Nat
  BY StrConcat
<1>3. <<Len(t)>> \in Str /\ Len(<<Len(t)>>) = 1 /\ Number(<<Len(t)>>) = Len(t)
  BY <1>2, StrOne, OneByteNumber
<1>4. Text(t) \o q = <<Len(t)>> \o (t \o q)
  BY <1>1, <1>3, StrAssoc DEF Text
<1>5. Reads(Counted(Text(t) \o q, 1), t, q)
  BY <1>3, <1>4, CountedField
<1>6. TextField(Text(t) \o q) = [value |-> t, rest |-> q]
  BY <1>1, <1>5 DEF TextField, Reads
<1> QED
  BY <1>6, FieldIsNoException DEF Maybe

(* The last field of a message: nothing follows it.                        *)
LEMMA LastTextIsRead ==
  ASSUME NEW t \in Str, IsAscii(t)
  PROVE  Reads(TextField(Text(t)), t, <<>>)
<1>1. Text(t) \o <<>> = Text(t)
  BY TextTyped, StrEmpty
<1> QED
  BY <1>1, StrEmpty, TextIsRead

(* A field that was not written.                                           *)
LEMMA AbsentField ==
  ASSUME NEW p \in Str
  PROVE  Reads(Absent(p), None, p)
  BY FieldIsNoException DEF Absent, Maybe

(* Text that may be left out: nothing is written for None and for "".      *)
LEMMA OptionalIsRead ==
  ASSUME NEW t \in Maybe(Str), t # None => IsAscii(t)
  PROVE  /\ Optional(t) \in Str
         /\ Reads(OptionalText(Optional(t)), IF t = <<>> THEN None ELSE t, <<>>)
<1>1. None # <<>>
  BY StrEmpty, CodecAssumption
<1>2. CASE t \in {None, <<>>}
  <2>1. Optional(t) = <<>>
    BY <1>2 DEF Optional, Given
  <2> QED
    BY <1>1, <1>2, <2>1, StrEmpty, AbsentField DEF OptionalText
<1>3. CASE t \notin {None, <<>>}
  <2>1. t \in Str /\ Optional(t) = Text(t) /\ IsAscii(t)
    BY <1>3 DEF Optional, Given, Maybe
  <2> QED
    BY <1>3, <2>1, TextTyped, LastTextIsRead DEF OptionalText
<1> QED
  BY <1>2, <1>3

(* An address and a port; a missing address is written as an empty one.    *)
LEMMA EndpointIsText ==
  ASSUME NEW a \in Maybe(Str), NEW n \in Maybe(Nat)
  PROVE  LET t == IF a = None THEN <<>> ELSE a
         IN  t \in Str /\ Endpoint(a, n) = Text(t) \o Short(OrZero(n)) /\ Endpoint(a, n) \in Str
<1> DEFINE t == IF a = None THEN <<>> ELSE a
           s == Short(OrZero(n))
<1>1. OrZero(n) \in Nat
  BY DEF OrZero, Maybe
<1>2. t \in Str
  BY StrEmpty DEF Maybe
<1>3. s \in Str
  BY <1>1, ShortNumber
<1>4. Endpoint(a, n) = Text(t) \o s
  <2>1. CASE a = None \/ a = <<>>
    <3>1. t = <<>> /\ Endpoint(a, n) = <<0>> \o s
      BY <2>1 DEF Endpoint, Given
    <3>2. Encode(<<>>) = <<>>
      BY StrEmpty, EncodeAscii DEF IsAscii
    <3>3. <<0>> \in Str /\ <<0>> \o <<>> = <<0>> /\ Len(<<>>) = 0
      BY StrOne, StrEmpty
    <3> QED
      BY <3>1, <3>2, <3>3 DEF Text
  <2>2. CASE ~ (a = None \/ a = <<>>)
    BY <2>2 DEF Endpoint, Given
  <2> QED
    BY <2>1, <2>2
<1> HIDE DEF t, s
<1>5. Text(t) \o s \in Str
  BY <1>2, <1>3, TextTyped, StrConcat
<1> QED
  BY <1>2, <1>4, <1>5 DEF t, s

(* An address and a port, in front of anything.                            *)
LEMMA EndpointIsRead ==
  ASSUME NEW a \in Maybe(Str), a # None => IsAscii(a), NEW n \in Maybe(Nat), NEW q \in Str
  PROVE  Reads(EndpointField(Endpoint(a, n) \o q),
               [address |-> IF a = None THEN <<>> ELSE a, port |-> OrZero(n)], q)
<1> DEFINE t == IF a = None THEN <<>> ELSE a
           s == Short(OrZero(n))
           e == [address |-> t, port |-> OrZero(n)]
<1>1. OrZero(n) \in Nat
  BY DEF OrZero, Maybe
<1>2. t \in Str /\ IsAscii(t)
  BY StrEmpty DEF Maybe, IsAscii
<1>3. s \in Str /\ Len(s) = 2 /\ Number(s) = OrZero(n)
  BY <1>1, ShortNumber
<1>4. Endpoint(a, n) = Text(t) \o s
  BY EndpointIsText
<1> HIDE DEF t, s
<1>5. Text(t) \in Str /\ s \o q \in Str
  BY <1>2, <1>3, TextTyped, StrConcat
<1>6. Endpoint(a, n) \o q = Text(t) \o (s \o q)
  BY SMTT(30), <1>3, <1>4, <1>5, StrAssoc
<1>7. Reads(TextField(Endpoint(a, n) \o q), t, s \o q)
  BY <1>2, <1>5, <1>6, TextIsRead
<1>8. Reads(Fixed(s \o q, 2), s, q)
  BY <1>3, FixedField
<1>9. EndpointField(Endpoint(a, n) \o q) = [value |-> e, rest |-> q]
  BY <1>3, <1>7, <1>8 DEF EndpointField, Reads
<1>10. e \in [address : Maybe(Str), port : Maybe(Nat)]
  BY <1>1, <1>2 DEF Maybe
<1> HIDE DEF e
<1>11. Reads(EndpointField(Endpoint(a, n) \o q), e, q)
  BY <1>9, <1>10, FieldIsNoException
<1> QED
  BY <1>11 DEF t, e

(* An address and a port at the end of a message.                          *)
LEMMA LastEndpointIsRead ==
  ASSUME NEW a \in Maybe(Str), a # None => IsAscii(a), NEW n \in Maybe(Nat)
  PROVE  Reads(EndpointField(Endpoint(a, n)),
               [address |-> IF a = None THEN <<>> ELSE a, port |-> OrZero(n)], <<>>)
<1>1. Endpoint(a, n) \o <<>> = Endpoint(a, n) /\ <<>> \in Str
  BY EndpointIsText, StrEmpty
<1> QED
  BY <1>1, EndpointIsRead

(* What is between the first and the last of a sequence.                   *)
LEMMA MiddleOfSeq ==
  ASSUME NEW j \in Nat, NEW d \in Str, NEW k \in Nat
  PROVE  SubSeq((<<j>> \o d) \o <<k>>, 2, Len(d) + 1) = d
<1> DEFINE z == (<<j>> \o d) \o <<k>>
<1>1. <<j>> \in Str /\ Len(<<j>>) = 1 /\ <<k>> \in Str /\ Len(d) \in Nat
  BY StrOne, StrConcat
<1>2. <<j>> \o d \in Str /\ Len(<<j>> \o d) = Len(d) + 1
  BY <1>1, StrConcat
<1>3. CASE d = <<>>
  <2>1. Len(d) + 1 < 2 /\ 2 \in Int /\ Len(d) + 1 \in Int
    BY <1>1, <1>3, StrEmpty
  <2> QED
    BY <1>3, <2>1, SubSeqEmpty
<1>4. CASE d # <<>>
  <2>1. Len(d) # 0
    BY <1>4, StrEmpty
  <2>2. 2 \in 1..Len(<<j>> \o d) /\ Len(d) + 1 \in 1..Len(<<j>> \o d)
    BY <1>1, <1>2, <2>1
  <2>3. SubSeq(z, 2, Len(d) + 1) = SubSeq(<<j>> \o d, 2, Len(d) + 1)
    BY <1>1, <1>2, <2>2, SubSeqOfConcat1 DEF Str
  <2>4. SubSeq(<<j>> \o d, 2, Len(d) + 1) = Drop(<<j>> \o d, Len(<<j>>))
    BY <1>1, <1>2 DEF Drop
  <2>5. Drop(<<j>> \o d, Len(<<j>>)) = d
    BY <1>1, StrDrop
  <2> QED
    BY <2>3, <2>4, <2>5
<1> QED
  BY <1>3, <1>4

(* Decompression undoes compression.                                       *)
LEMMA GzipInverse ==
  ASSUME NEW d \in Str
  PROVE  Gzip(d) \in Str /\ Gunzip(Gzip(d)) = d /\ d # Raises
<1> DEFINE k == Len(d) % Base
           z == <<1>> \o (d \o <<k>>)
<1>1. Len(d) \in Nat /\ k \in Nat
  <2>1. Len(d) \in Nat /\ Base \in Nat \ {0}
    BY StrConcat, Halves
  <2> QED
    BY <2>1, DivMod
<1>2. <<1>> \in Str /\ Len(<<1>>) = 1 /\ <<k>> \in Str /\ Len(<<k>>) = 1 /\ <<k>>[1] = k
  BY <1>1, StrOne
<1>3. d \o <<k>> \in Str /\ Len(d \o <<k>>) = Len(d) + 1
  BY <1>2, StrConcat
<1>4. z \in Str /\ Len(z) = Len(d) + 2
  BY <1>1, <1>2, <1>3, StrConcat
<1>5. Gzip(d) = z
  BY <1>2, StrAssoc DEF Gzip
<1>6. z[1] = 1
  BY <1>3, StrFirst
<1>7. z[Len(z)] = k
  <2>1. z[Len(d) + 2] = (d \o <<k>>)[Len(d) + 1]
    <3>1. Len(d) + 2 \in 1..Len(<<1>>) + Len(d \o <<k>>)
      BY <1>1, <1>2, <1>3
    <3>2. ~ (Len(d) + 2 <= Len(<<1>>)) /\ Len(d) + 2 - Len(<<1>>) = Len(d) + 1
      BY <1>1, <1>2
    <3> QED
      BY <1>2, <1>3, <3>1, <3>2, ConcatProperties DEF Str
  <2>2. (d \o <<k>>)[Len(d) + 1] = k
    <3>1. Len(d) + 1 \in 1..Len(d) + Len(<<k>>)
      BY <1>1, <1>2
    <3>2. ~ (Len(d) + 1 <= Len(d)) /\ Len(d) + 1 - Len(d) = 1
      BY <1>1
    <3> QED
      BY <1>2, <3>1, <3>2, ConcatProperties DEF Str
  <2> QED
    BY <1>4, <2>1, <2>2
<1>8. SubSeq(z, 2, Len(z) - 1) = d
  <2>1. z = (<<1>> \o d) \o <<k>>
    BY <1>2, StrAssoc
  <2>2. Len(z) - 1 = Len(d) + 1
    BY <1>1, <1>4
  <2> QED
    BY <1>1, <2>1, <2>2, MiddleOfSeq
<1>9. Len(z) >= 2 /\ Len(z) - 2 = Len(d)
  BY <1>1, <1>4
<1> HIDE DEF z
<1>10. d # Raises
  BY CodecAssumption
<1> QED
  BY <1>4, <1>5, <1>6, <1>7, <1>8, <1>9, <1>10 DEF Gunzip

(* Reading a JSON document undoes writing it.                              *)
LEMMA DumpsInverse ==
  ASSUME NEW t \in Seq(Byte)
  PROVE  Dumps(t) \in Str /\ Loads(Dumps(t)) = t /\ t # Raises
<1> DEFINE n == Len(t)
           D == [i \in 1..(2 * n) |->
                   IF i % 2 = 1 THEN t[(i + 1) \div 2] \div Half ELSE t[i \div 2] % Half]
<1>1. n \in Nat /\ t \in [1..n -> Byte]
  BY LenProperties
<1> HIDE DEF n
<1>2. \A b \in Byte : b \div Half \in Ascii /\ b % Half \in Ascii
                       /\ Half * (b \div Half) + (b % Half) = b
  <2> SUFFICES ASSUME NEW b \in Byte
               PROVE  b \div Half \in Ascii /\ b % Half \in Ascii
                       /\ Half * (b \div Half) + (b % Half) = b
    OBVIOUS
  <2>1. b \in Nat /\ b < 2 * Half /\ Half \in Nat \ {0} /\ Half >= 2
    BY Halves DEF Byte
  <2>2. b \div Half \in Nat /\ b % Half \in Nat /\ b % Half < Half
         /\ b = Half * (b \div Half) + (b % Half)
    BY <2>1, DivMod
  <2>3. b \div Half < 2
    BY <2>1, <2>2
  <2> QED
    BY <2>1, <2>2, <2>3 DEF Ascii
<1>3. \A i \in 1..n : /\ 2 * i - 1 \in 1..(2 * n) /\ (2 * i - 1) % 2 = 1
                      /\ (2 * i - 1 + 1) \div 2 = i
                      /\ 2 * i \in 1..(2 * n) /\ (2 * i) % 2 # 1 /\ (2 * i) \div 2 = i
  BY <1>1
<1>4. \A i \in 1..(2 * n) : IF i % 2 = 1 THEN (i + 1) \div 2 \in 1..n ELSE i \div 2 \in 1..n
  BY <1>1
<1>5. \A i \in 1..(2 * n) : D[i] \in Ascii
  BY <1>1, <1>2, <1>4
<1>6. \A i \in 1..n : D[2 * i - 1] = t[i] \div Half /\ D[2 * i] = t[i] % Half
  BY <1>3
<1>7. D \in Seq(Nat) /\ Len(D) = 2 * n /\ DOMAIN D = 1..(2 * n)
  <2>0. D = [i \in 1..(2 * n) |-> D[i]]
    OBVIOUS
  <2> HIDE DEF D
  <2>1. D \in [1..(2 * n) -> Nat] /\ 2 * n \in Nat
    BY <1>1, <1>5, <2>0, Halves
  <2> QED
    BY <2>1, FunctionIsSeq
<1> HIDE DEF D
<1>8. Len(D) % 2 = 0 /\ Len(D) \div 2 = n /\ IsAscii(D)
  BY <1>1, <1>5, <1>7 DEF IsAscii
<1>9. Loads(D) = [i \in 1..n |-> Half * D[2 * i - 1] + D[2 * i]]
  BY <1>8 DEF Loads
<1>10. Loads(D) = t
  BY <1>1, <1>2, <1>6, <1>9
<1>11. Dumps(t) = D
  BY DEF Dumps, D, n
<1>12. t # Raises
  BY BytesAreStr, CodecAssumption
<1> QED
  BY <1>7, <1>10, <1>11, <1>12 DEF Str

(***************************************************************************)
(* Fixed fields of several parts.                                          *)
(***************************************************************************)
LEMMA WholeField ==
  ASSUME NEW a \in Str
  PROVE  Reads(Fixed(a, Len(a)), a, <<>>)
<1>1. a \o <<>> = a /\ <<>> \in Str
  BY StrEmpty
<1> QED
  BY <1>1, FixedField

(* A byte in front of a text.                                              *)
LEMMA OneAndMore ==
  ASSUME NEW n \in Nat, NEW a \in Str
  PROVE  LET v == <<n>> \o a
         IN  v \in Str /\ Len(v) = 1 + Len(a) /\ v[1] = n /\ Tail(v) = a
<1> DEFINE v == <<n>> \o a
<1>1. <<n>> \in Str /\ Len(<<n>>) = 1
  BY StrOne
<1>2. v \in Str /\ Len(v) = 1 + Len(a) /\ v # <<>> /\ v[1] = n
  BY <1>1, StrConcat, StrFirst
<1>3. Drop(v, 1) = a
  BY <1>1, StrDrop
<1> HIDE DEF v
<1>4. Tail(v) = SubSeq(v, 2, Len(v))
  BY <1>2, TailIsSubSeq DEF Str
<1>5. Tail(v) = a
  BY <1>3, <1>4 DEF Drop
<1> QED
  BY <1>2, <1>5 DEF v

(* A byte behind a text.                                                   *)
LEMMA MoreAndOne ==
  ASSUME NEW n \in Nat, NEW a \in Str
  PROVE  LET v == a \o <<n>>
         IN  /\ v \in Str /\ Len(v) = Len(a) + 1 /\ v[Len(a) + 1] = n
             /\ SubSeq(v, 1, Len(a)) = a /\ \A i \in 1..Len(a) : v[i] = a[i]
<1> DEFINE v == a \o <<n>>
<1>1. <<n>> \in Str /\ Len(<<n>>) = 1 /\ <<n>>[1] = n /\ Len(a) \in Nat
  BY StrOne, StrConcat
<1>2. /\ v \in Str /\ Len(v) = Len(a) + 1
      /\ \A i \in 1..Len(a) + Len(<<n>>) :
            v[i] = IF i <= Len(a) THEN a[i] ELSE <<n>>[i - Len(a)]
  BY <1>1, StrConcat, ConcatProperties DEF Str
<1>3. SubSeq(v, 1, Len(a)) = a
  BY <1>1, StrDrop
<1> HIDE DEF v
<1>4. Len(a) + 1 \in 1..Len(a) + Len(<<n>>) /\ ~ (Len(a) + 1 <= Len(a)) /\ Len(a) + 1 - Len(a) = 1
  BY <1>1
<1>5. v[Len(a) + 1] = <<n>>[Len(a) + 1 - Len(a)]
  BY <1>2, <1>4
<1>6. \A i \in 1..Len(a) : i \in 1..Len(a) + Len(<<n>>) /\ i <= Len(a)
  BY <1>1
<1> QED
  BY <1>1, <1>2, <1>3, <1>4, <1>5, <1>6 DEF v

(* A flag is one byte, zero or not.                                        *)
LEMMA FlagTyped ==
  ASSUME NEW b \in BOOLEAN
  PROVE  LET n == IF b THEN 1 ELSE 0
         IN  n \in Nat /\ Flag(b) = <<n>> /\ Flag(b) \in Str /\ Len(Flag(b)) = 1 /\ (n # 0 <=> b)
  BY StrOne DEF Flag

(* A flag in front of a text.                                              *)
LEMMA FlagAndMore ==
  ASSUME NEW b \in BOOLEAN, NEW a \in Str
  PROVE  LET v == Flag(b) \o a
         IN  v \in Str /\ Len(v) = 1 + Len(a) /\ (v[1] # 0 <=> b) /\ Tail(v) = a
<1> DEFINE n == IF b THEN 1 ELSE 0
<1>1. n \in Nat /\ (n # 0 <=> b) /\ Flag(b) = <<n>>
  BY DEF Flag
<1> HIDE DEF n
<1> QED
  BY <1>1, OneAndMore

(* A flag, in front of anything.                                           *)
LEMMA FlagField ==
  ASSUME NEW b \in BOOLEAN, NEW q \in Str
  PROVE  /\ Reads(Fixed(Flag(b) \o q, 1), Flag(b), q)
         /\ (Flag(b) = <<0>> <=> ~ b)
<1>1. Flag(b) \in Str /\ Len(Flag(b)) = 1
  BY FlagTyped
<1>2. Flag(b) = <<0>> <=> ~ b
  BY DEF Flag
<1> QED
  BY <1>1, <1>2, FixedField

(***************************************************************************)
(* The round trip, one kind of message at a time.                          *)
(***************************************************************************)
LEMMA AuthRoundTrip ==
  ASSUME NEW m \in AuthMessage
  PROVE  Payload(m) \in Str /\ (Sendable(m) => ParseAuth(Payload(m)) = Delivered(m))
<1>1. /\ m.type = "auth" /\ m.token \in Str /\ m.reverse \in BOOLEAN /\ m.instance \in Uuid
      /\ m = [type |-> "auth", token |-> m.token, reverse |-> m.reverse, instance |-> m.instance]
  BY DEF AuthMessage
<1> DEFINE v == Flag(m.reverse) \o m.instance
<1>2. m.instance \in Str /\ Len(m.instance) = IdLen
  BY <1>1, UuidIsStr
<1>3. v \in Str /\ Len(v) = 1 + IdLen /\ (v[1] # 0 <=> m.reverse) /\ Tail(v) = m.instance
  BY <1>1, <1>2, FlagAndMore
<1>4. Payload(m) = Text(m.token) \o v
  <2>1. Payload(m) = (Text(m.token) \o Flag(m.reverse)) \o m.instance
    BY <1>1 DEF Payload
  <2> QED
    <3>1. Text(m.token) \in Str /\ Flag(m.reverse) \in Str
      BY <1>1, TextTyped, FlagTyped
    <3> QED
      BY <1>2, <2>1, <3>1, StrAssoc
<1> HIDE DEF v
<1>5. Payload(m) \in Str
  BY <1>1, <1>3, <1>4, TextTyped, StrConcat
<1>6. ASSUME Sendable(m) PROVE ParseAuth(Payload(m)) = Delivered(m)
  <2>1. IsAscii(m.token)
    <3>1. m.token \in Texts(m)
      BY <1>1, CodecAssumption DEF Texts, AuthMessage
    <3> QED
      BY <1>6, <3>1 DEF Sendable
  <2>2. Reads(TextField(Payload(m)), m.token, v)
    BY <1>1, <1>3, <1>4, <2>1, TextIsRead
  <2>3. Reads(Fixed(v, 1 + IdLen), v, <<>>)
    BY <1>3, WholeField
  <2>4. ParseAuth(Payload(m))
          = [type |-> "auth", token |-> m.token, reverse |-> v[1] # 0, instance |-> Tail(v)]
    BY <2>2, <2>3, Zenon DEF ParseAuth, Then, Reads
  <2>5. Delivered(m) = m
    BY <1>1 DEF Delivered
  <2>6. (v[1] # 0) = m.reverse
    BY <1>1, <1>3, Zenon
  <2> QED
    BY <1>1, <1>3, <2>4, <2>5, <2>6, Zenon
<1> QED
  BY <1>5, <1>6

(* The answer to a token (message.py:196-211, 378-390).                    *)
LEMMA AuthResponseRoundTrip ==
  ASSUME NEW m \in AuthResponseMessage
  PROVE  Payload(m) \in Str /\ (Sendable(m) => ParseAuthResponse(Payload(m)) = Delivered(m))
<1>1. /\ m.type = "auth_response" /\ m.success \in BOOLEAN /\ m.error \in Maybe(Str)
      /\ m.success => m.error = None
      /\ m = [type |-> "auth_response", success |-> m.success, error |-> m.error]
  BY DEF AuthResponseMessage, Maybe
<1> DEFINE q == IF m.success THEN <<>> ELSE Optional(m.error)
<1>2. Payload(m) = Flag(m.success) \o q
  BY <1>1 DEF Payload
<1>3. q \in Str
  <2>1. CASE m.success
    BY <2>1, StrEmpty
  <2>2. CASE ~ m.success
    <3>1. m.error \in Str => Text(m.error) \in Str
      BY TextTyped
    <3> QED
      BY <1>1, <2>2, <3>1, StrEmpty DEF Optional, Given, Maybe
  <2> QED
    BY <2>1, <2>2
<1> HIDE DEF q
<1>4. Payload(m) \in Str
  BY <1>1, <1>2, <1>3, FlagTyped, StrConcat
<1>5. ASSUME Sendable(m) PROVE ParseAuthResponse(Payload(m)) = Delivered(m)
  <2>1. m.error # None => IsAscii(m.error)
    <3>1. m.error # None => m.error \in Texts(m)
      BY <1>1 DEF Texts, AuthResponseMessage
    <3> QED
      BY <1>5, <3>1 DEF Sendable
  <2>2. Reads(Fixed(Payload(m), 1), Flag(m.success), q) /\ (Flag(m.success) = <<0>> <=> ~ m.success)
    BY <1>1, <1>2, <1>3, FlagField
  <2> DEFINE e == IF m.error = <<>> THEN None ELSE m.error
             f == IF Flag(m.success) = <<0>> THEN OptionalText(q) ELSE Absent(q)
  <2>3. \E r : Reads(f, e, r)
    <3>1. CASE m.success
      <4>1. e = None
        BY <1>1, <3>1
      <4>2. Reads(Absent(q), None, q)
        BY <1>3, AbsentField
      <4>3. f = Absent(q)
        BY <2>2, <3>1
      <4> HIDE DEF f, e
      <4> QED
        BY <4>1, <4>2, <4>3
    <3>2. CASE ~ m.success
      <4>1. q = Optional(m.error) /\ f = OptionalText(q)
        BY <2>2, <3>2 DEF q
      <4>2. Reads(OptionalText(Optional(m.error)), e, <<>>)
        BY <1>1, <2>1, OptionalIsRead
      <4> HIDE DEF f, e
      <4> QED
        BY <4>1, <4>2
    <3> QED
      BY <3>1, <3>2
  <2>4. ParseAuthResponse(Payload(m))
          = [type |-> "auth_response", success |-> Flag(m.success) # <<0>>, error |-> e]
    <3> HIDE DEF e
    <3> QED
      BY <2>2, <2>3, Zenon DEF ParseAuthResponse, Then, Reads
  <2>5. Delivered(m) = [type |-> "auth_response", success |-> m.success, error |-> e]
    BY <1>1 DEF Delivered
  <2>6. (Flag(m.success) # <<0>>) = m.success
    BY <1>1, <2>2, Zenon
  <2> HIDE DEF e
  <2> QED
    BY <2>4, <2>5, <2>6, Zenon
<1> QED
  BY <1>4, <1>5

(* The protocol, in front of the channel id.                               *)
LEMMA ProtocolAndId ==
  ASSUME NEW p \in {"tcp", "udp"}, NEW id \in Uuid
  PROVE  LET v == Protocol(p) \o id
         IN  /\ v \in Str /\ Len(v) = 1 + IdLen /\ Tail(v) = id /\ id \in Str /\ Len(id) = IdLen
             /\ v[1] = IF p = "tcp" THEN 1 ELSE 2
             /\ Protocol(p) = <<v[1]>>
<1> DEFINE n == IF p = "tcp" THEN 1 ELSE 2
<1>1. Protocol(p) = <<n>> /\ n \in Nat
  BY DEF Protocol
<1>2. id \in Str /\ Len(id) = IdLen
  BY UuidIsStr
<1> HIDE DEF n
<1>3. LET v == <<n>> \o id IN v \in Str /\ Len(v) = 1 + Len(id) /\ v[1] = n /\ Tail(v) = id
  BY <1>1, <1>2, OneAndMore
<1> QED
  BY <1>1, <1>2, <1>3 DEF n

(* The code of a protocol.                                                 *)
LEMMA ProtocolOfName ==
  ASSUME NEW p \in {"tcp", "udp"}
  PROVE  ProtocolName(<<IF p = "tcp" THEN 1 ELSE 2>>) = p
<1>1. <<1>> # <<2>>
  OBVIOUS
<1> QED
  BY <1>1 DEF ProtocolName

(* An address and a port that were not written.                            *)
LEMMA NoEndpoint ==
  ASSUME NEW q \in Str
  PROVE  LET e == [address |-> None, port |-> None]
         IN  Reads([value |-> e, rest |-> q], e, q)
<1> DEFINE e == [address |-> None, port |-> None]
<1>1. e \in [address : Maybe(Str), port : Maybe(Nat)]
  BY DEF Maybe
<1> HIDE DEF e
<1> QED
  BY <1>1, FieldIsNoException DEF e

(* A request to connect.                                                   *)
LEMMA ConnectRoundTrip ==
  ASSUME NEW m \in ConnectMessage
  PROVE  Payload(m) \in Str /\ (Sendable(m) => ParseConnect(Payload(m)) = Delivered(m))
<1>1. /\ m.type = "connect" /\ m.protocol \in {"tcp", "udp"} /\ m.id \in Uuid
      /\ m.protocol = "tcp" => m.address \in Str /\ m.port \in Nat
      /\ m.protocol = "udp" => m.address = None /\ m.port = None
      /\ m = [type |-> "connect", protocol |-> m.protocol, id |-> m.id,
              address |-> m.address, port |-> m.port]
  BY DEF ConnectMessage
<1> DEFINE v == Protocol(m.protocol) \o m.id
           n == IF m.protocol = "tcp" THEN 1 ELSE 2
           q == Target(m)
<1>2. v \in Str /\ Len(v) = 1 + IdLen /\ Tail(v) = m.id /\ v[1] = n
  BY <1>1, ProtocolAndId
<1>3. Payload(m) = v \o q
  BY <1>1 DEF Payload
<1>4. m.protocol = "udp" => q = <<>>
  BY <1>1 DEF Target
<1>5. m.protocol = "tcp" => q = Endpoint(m.address, m.port)
  <2> SUFFICES ASSUME m.protocol = "tcp" PROVE q = Endpoint(m.address, m.port)
    OBVIOUS
  <2>1. m.address \in Str /\ m.port \in Nat /\ m.address # None /\ m.port # None
    BY <1>1, CodecAssumption
  <2>2. Endpoint(m.address, m.port) = Text(m.address) \o Short(OrZero(m.port))
    BY <2>1, EndpointIsText DEF Maybe
  <2>3. q = Text(m.address) \o Short(m.port)
    BY <2>1 DEF Target
  <2> QED
    BY <2>1, <2>2, <2>3 DEF OrZero
<1>6. q \in Str
  BY <1>1, <1>4, <1>5, StrEmpty, EndpointIsText DEF Maybe
<1> HIDE DEF v, q
<1>7. Payload(m) \in Str
  BY <1>2, <1>3, <1>6, StrConcat
<1>8. ASSUME Sendable(m) PROVE ParseConnect(Payload(m)) = Delivered(m)
  <2>1. m.address # None => IsAscii(m.address)
    <3>1. m.address # None => m.address \in Texts(m)
      BY <1>1 DEF Texts, ConnectMessage
    <3> QED
      BY <1>8, <3>1 DEF Sendable
  <2>2. Reads(Fixed(Payload(m), 1 + IdLen), v, q)
    BY <1>2, <1>3, <1>6, FixedField
  <2> DEFINE none == [address |-> None, port |-> None]
             e == [address |-> m.address, port |-> m.port]
             f == IF v[1] = 1 THEN EndpointField(q) ELSE [value |-> none, rest |-> q]
  <2>3. \E r : Reads(f, e, r)
    <3>1. CASE m.protocol = "tcp"
      <4>1. m.address \in Str /\ m.port \in Nat /\ m.address # None /\ m.port # None
        BY <1>1, <3>1, CodecAssumption
      <4>2. e = [address |-> IF m.address = None THEN <<>> ELSE m.address, port |-> OrZero(m.port)]
        BY <4>1 DEF OrZero
      <4>3. f = EndpointField(q)
        BY <1>2, <3>1
      <4> HIDE DEF f, e
      <4>4. Reads(EndpointField(q), e, <<>>)
        BY <1>5, <2>1, <3>1, <4>1, <4>2, LastEndpointIsRead DEF Maybe
      <4> QED
        BY <4>3, <4>4
    <3>2. CASE m.protocol = "udp"
      <4>1. f = [value |-> none, rest |-> q] /\ e = none
        BY <1>1, <1>2, <3>2
      <4>2. Reads([value |-> none, rest |-> q], none, q)
        BY <1>6, NoEndpoint
      <4> HIDE DEF f, e, none
      <4> QED
        BY <4>1, <4>2
    <3> QED
      BY <1>1, <3>1, <3>2
  <2>4. ParseConnect(Payload(m))
          = [type |-> "connect", protocol |-> ProtocolName(<<v[1]>>), id |-> Tail(v),
             address |-> e.address, port |-> e.port]
    <3> HIDE DEF e
    <3> QED
      BY <2>2, <2>3, Zenon DEF ParseConnect, Then, Reads
  <2>5. Delivered(m) = m
    BY <1>1 DEF Delivered
  <2>6. ProtocolName(<<v[1]>>) = m.protocol
    BY <1>1, <1>2, ProtocolOfName
  <2> QED
    BY <1>1, <1>2, <2>4, <2>5, <2>6
<1> QED
  BY <1>7, <1>8

(* The answer to it.                                                       *)
LEMMA ConnectResponseRoundTrip ==
  ASSUME NEW m \in ConnectResponseMessage
  PROVE  Payload(m) \in Str /\ (Sendable(m) => ParseConnectResponse(Payload(m)) = Delivered(m))
<1>1. /\ m.type = "connect_response" /\ m.success \in BOOLEAN /\ m.id \in Uuid
      /\ m.error \in Maybe(Str) /\ (m.success => m.error = None)
      /\ m = [type |-> "connect_response", success |-> m.success, id |-> m.id,
              error |-> m.error]
  BY DEF ConnectResponseMessage, Maybe
<1> DEFINE v == Flag(m.success) \o m.id
           q == IF m.success \/ m.error = None THEN <<>> ELSE Text(m.error)
<1>2. m.id \in Str /\ Len(m.id) = IdLen
  BY <1>1, UuidIsStr
<1>3. v \in Str /\ Len(v) = 1 + IdLen /\ (v[1] # 0 <=> m.success) /\ Tail(v) = m.id
  BY <1>1, <1>2, FlagAndMore
<1>4. q \in Str
  <2>1. m.error \in Str => Text(m.error) \in Str
    BY TextTyped
  <2> QED
    BY <1>1, <2>1, StrEmpty DEF Maybe
<1>5. Payload(m) = v \o q
  BY <1>1 DEF Payload
<1> HIDE DEF v, q
<1>6. Payload(m) \in Str
  BY <1>3, <1>4, <1>5, StrConcat
<1>7. ASSUME Sendable(m) PROVE ParseConnectResponse(Payload(m)) = Delivered(m)
  <2>1. Reads(Fixed(Payload(m), 1 + IdLen), v, q)
    BY <1>3, <1>4, <1>5, FixedField
  <2> DEFINE f == IF v[1] = 0 THEN TextField(q) ELSE Absent(q)
  <2>2. \E r : Reads(f, m.error, r)
    <3>1. CASE m.success
      <4>1. f = Absent(q) /\ m.error = None
        BY <1>1, <1>3, <3>1
      <4>2. Reads(Absent(q), None, q)
        BY <1>4, AbsentField
      <4> HIDE DEF f
      <4> QED
        BY <4>1, <4>2
    <3>2. CASE ~ m.success
      <4>1. m.error # None /\ m.error \in Str
        BY <1>1, <1>7, <3>2 DEF Sendable, Maybe
      <4>2. m.error \in Texts(m)
        BY <1>1, <4>1 DEF Texts, ConnectResponseMessage
      <4>3. IsAscii(m.error)
        BY <1>7, <4>2 DEF Sendable
      <4>4. f = TextField(q) /\ q = Text(m.error)
        BY <1>3, <3>2, <4>1 DEF q
      <4>5. Reads(TextField(Text(m.error)), m.error, <<>>)
        BY <4>1, <4>3, LastTextIsRead
      <4> HIDE DEF f
      <4> QED
        BY <4>4, <4>5
    <3> QED
      BY <3>1, <3>2
  <2>3. ParseConnectResponse(Payload(m))
          = [type |-> "connect_response", success |-> v[1] # 0, id |-> Tail(v), error |-> m.error]
    BY <2>1, <2>2, Zenon DEF ParseConnectResponse, Then, Reads
  <2>4. Delivered(m) = m
    BY <1>1 DEF Delivered
  <2>5. (v[1] # 0) = m.success
    BY <1>1, <1>3, Zenon
  <2> QED
    BY <1>1, <1>3, <2>3, <2>4, <2>5, Zenon
<1> QED
  BY <1>6, <1>7

(* The fields in front of the data: protocol, channel id, compression.     *)
LEMMA DataHeader ==
  ASSUME NEW p \in {"tcp", "udp"}, NEW id \in Uuid, NEW c \in Nat
  PROVE  LET v == (Protocol(p) \o id) \o <<c>>
         IN  /\ v \in Str /\ Len(v) = 1 + IdLen + 1
             /\ v[1] = (IF p = "tcp" THEN 1 ELSE 2) /\ v[IdLen + 2] = c
<1> DEFINE n == IF p = "tcp" THEN 1 ELSE 2
           a == Protocol(p) \o id
           v == a \o <<c>>
<1>1. Protocol(p) = <<n>> /\ n \in Nat
  BY DEF Protocol
<1>2. a \in Str /\ Len(a) = 1 + IdLen /\ a[1] = n
  BY ProtocolAndId
<1>3. IdLen \in Nat
  BY CodecAssumption
<1> HIDE DEF n, a
<1>5. /\ v \in Str /\ Len(v) = Len(a) + 1 /\ v[Len(a) + 1] = c
      /\ \A i \in 1..Len(a) : v[i] = a[i]
  BY <1>2, MoreAndOne
<1> HIDE DEF v
<1>6. 1 \in 1..Len(a) /\ Len(a) + 1 = IdLen + 2
  BY <1>2, <1>3
<1>7. v[1] = n /\ v[IdLen + 2] = c /\ Len(v) = 1 + IdLen + 1
  BY <1>2, <1>3, <1>5, <1>6
<1> QED
  BY <1>2, <1>5, <1>7 DEF n, a, v

(* The channel id in a data message.                                       *)
LEMMA DataId ==
  ASSUME NEW p \in {"tcp", "udp"}, NEW id \in Uuid, NEW c \in Nat
  PROVE  SubSeq((Protocol(p) \o id) \o <<c>>, 2, IdLen + 1) = id
<1> DEFINE n == IF p = "tcp" THEN 1 ELSE 2
<1>1. Protocol(p) = <<n>> /\ n \in Nat
  BY DEF Protocol
<1>2. id \in Str /\ Len(id) = IdLen
  BY UuidIsStr
<1> HIDE DEF n
<1>3. SubSeq((<<n>> \o id) \o <<c>>, 2, Len(id) + 1) = id
  BY <1>1, <1>2, MiddleOfSeq
<1> QED
  BY <1>1, <1>2, <1>3

(* The data, compressed or not, can be had back.                           *)
LEMMA ContentsTyped ==
  ASSUME NEW m \in DataMessage
  PROVE  /\ Contents(m) \in Str
         /\ (IF m.compression = 1 THEN Gunzip(Contents(m)) ELSE Contents(m)) = m.data
         /\ m.data # Raises
<1>1. m.data \in Str
  BY BytesAreStr DEF DataMessage
<1>2. Gzip(m.data) \in Str /\ Gunzip(Gzip(m.data)) = m.data /\ m.data # Raises
  BY <1>1, GzipInverse
<1> QED
  BY <1>1, <1>2 DEF Contents

(* The fields of a data message.                                           *)
LEMMA DataTyped ==
  ASSUME NEW m \in DataMessage
  PROVE  /\ m.type = "data" /\ m.protocol \in {"tcp", "udp"} /\ m.id \in Uuid
         /\ m.compression \in Nat
         /\ m.address \in Maybe(Str) /\ m.port \in Maybe(Nat)
         /\ m.target_addr \in Maybe(Str) /\ m.target_port \in Maybe(Nat)
         /\ m.protocol = "tcp" => /\ m.address = None /\ m.port = None
                                  /\ m.target_addr = None /\ m.target_port = None
         /\ m = [type |-> "data", protocol |-> m.protocol, id |-> m.id,
                 compression |-> m.compression, data |-> m.data, address |-> m.address,
                 port |-> m.port, target_addr |-> m.target_addr,
                 target_port |-> m.target_port]
<1>1. CASE m.protocol = "tcp"
  BY <1>1 DEF DataMessage, Maybe
<1>2. CASE m.protocol # "tcp"
  BY <1>2 DEF DataMessage, Maybe
<1> QED
  BY <1>1, <1>2

Endpoints(m) ==
    IF m.protocol = "udp"
      THEN Endpoint(m.address, m.port) \o Endpoint(m.target_addr, m.target_port) ELSE <<>>

(* The payload of a data message, grouped as it is read.                   *)
LEMMA DataPayload ==
  ASSUME NEW m \in DataMessage
  PROVE  LET v == (Protocol(m.protocol) \o m.id) \o <<m.compression>>
             l == Long(Len(Contents(m)))
             c == Contents(m)
         IN  /\ Payload(m) = v \o (l \o (c \o Endpoints(m)))
             /\ Endpoints(m) \in Str /\ c \o Endpoints(m) \in Str
             /\ l \o (c \o Endpoints(m)) \in Str /\ Payload(m) \in Str
<1> DEFINE v == (Protocol(m.protocol) \o m.id) \o <<m.compression>>
           c == Contents(m)
           l == Long(Len(c))
           e == Endpoints(m)
<1>0. m.protocol \in {"tcp", "udp"} /\ m.id \in Uuid /\ m.compression \in Nat
  BY DataTyped
<1>1. v \in Str
  BY <1>0, DataHeader
<1>2. c \in Str /\ Len(c) \in Nat
  BY ContentsTyped, StrConcat
<1>3. l \in Str
  BY <1>2, LongNumber
<1>4. e \in Str
  <2>1. /\ Endpoint(m.address, m.port) \in Str
        /\ Endpoint(m.target_addr, m.target_port) \in Str
    BY DataTyped, EndpointIsText
  <2> QED
    BY <2>1, StrConcat, StrEmpty DEF Endpoints
<1>5. m.type = "data"
  BY DataTyped
<1>6. Payload(m) = ((v \o l) \o c) \o e
  BY <1>5 DEF Payload, Endpoints
<1> HIDE DEF v, c, l, e
<1>7. /\ v \o l \in Str /\ c \o e \in Str
      /\ l \o (c \o e) \in Str
      /\ v \o (l \o (c \o e)) \in Str
  <2>1. v \o l \in Str /\ c \o e \in Str
    BY <1>1, <1>2, <1>3, <1>4, StrConcat
  <2>2. l \o (c \o e) \in Str
    BY <1>3, <2>1, StrConcat
  <2> QED
    BY <1>1, <2>1, <2>2, StrConcat
<1>8. ((v \o l) \o c) \o e = (v \o l) \o (c \o e)
  BY SMTT(30), <1>2, <1>4, <1>7, StrAssoc
<1>9. (v \o l) \o (c \o e) = v \o (l \o (c \o e))
  BY <1>1, <1>3, <1>7, StrAssoc
<1>10. /\ Payload(m) = v \o (l \o (c \o e)) /\ e \in Str /\ c \o e \in Str
       /\ l \o (c \o e) \in Str /\ Payload(m) \in Str
  BY <1>4, <1>6, <1>7, <1>8, <1>9
<1> QED
  BY <1>10 DEF v, c, l, e

Datagram(id, c, d, a, n, t, k) ==
    [type |-> "data", protocol |-> "udp", id |-> id, compression |-> c, data |-> d,
     address |-> a, port |-> n, target_addr |-> t, target_port |-> k]

WithEndpoints(m, a, n, t, k) ==
    [m EXCEPT !.address = a, !.port = n, !.target_addr = t, !.target_port = k]

(* A datagram rebuilt field by field.                                      *)
LEMMA DatagramUpdate ==
  ASSUME NEW m \in DataMessage, m.protocol = "udp", NEW a2, NEW n2, NEW t2, NEW k2
  PROVE  WithEndpoints(m, a2, n2, t2, k2)
            = Datagram(m.id, m.compression, m.data, a2, n2, t2, k2)
<1>0. PICK id, c, d, a1, n1, t1, k1 :
         /\ m = Datagram(id, c, d, a1, n1, t1, k1)
         /\ id = m.id /\ c = m.compression /\ d = m.data
  <2>1. m = Datagram(m.id, m.compression, m.data, m.address, m.port, m.target_addr,
                     m.target_port)
    <3>1. m = [type |-> "data", protocol |-> m.protocol, id |-> m.id,
               compression |-> m.compression, data |-> m.data, address |-> m.address,
               port |-> m.port, target_addr |-> m.target_addr, target_port |-> m.target_port]
      BY DataTyped
    <3> QED
      BY <3>1 DEF Datagram
  <2> QED
    BY <2>1
<1>1. [m EXCEPT !.address = a2, !.port = n2, !.target_addr = t2, !.target_port = k2]
        = [[[[m EXCEPT !.address = a2] EXCEPT !.port = n2] EXCEPT !.target_addr = t2]
             EXCEPT !.target_port = k2]
  OBVIOUS
<1>2. [m EXCEPT !.address = a2] = Datagram(id, c, d, a2, n1, t1, k1)
  BY <1>0 DEF Datagram
<1>3. [Datagram(id, c, d, a2, n1, t1, k1) EXCEPT !.port = n2]
        = Datagram(id, c, d, a2, n2, t1, k1)
  BY DEF Datagram
<1>4. [Datagram(id, c, d, a2, n2, t1, k1) EXCEPT !.target_addr = t2]
        = Datagram(id, c, d, a2, n2, t2, k1)
  BY DEF Datagram
<1>5. [Datagram(id, c, d, a2, n2, t2, k1) EXCEPT !.target_port = k2]
        = Datagram(id, c, d, a2, n2, t2, k2)
  BY DEF Datagram
<1>6. WithEndpoints(m, a2, n2, t2, k2) = Datagram(id, c, d, a2, n2, t2, k2)
  BY <1>1, <1>2, <1>3, <1>4, <1>5, Zenon DEF WithEndpoints
<1> QED
  BY <1>0, <1>6, Zenon

(* Data, of a stream or a datagram.                                        *)
LEMMA DataRoundTrip ==
  ASSUME NEW m \in DataMessage
  PROVE  Payload(m) \in Str /\ (Sendable(m) => ParseData(Payload(m)) = Delivered(m))
<1> DEFINE v == (Protocol(m.protocol) \o m.id) \o <<m.compression>>
           c == Contents(m)
           l == Long(Len(c))
           q == Endpoints(m)
<1>1. /\ Payload(m) = v \o (l \o (c \o q)) /\ q \in Str /\ c \o q \in Str
      /\ l \o (c \o q) \in Str /\ Payload(m) \in Str
  BY DataPayload
<1>0. m.protocol \in {"tcp", "udp"} /\ m.id \in Uuid /\ m.compression \in Nat
  BY DataTyped
<1>2. /\ v \in Str /\ Len(v) = 1 + IdLen + 1
      /\ v[1] = (IF m.protocol = "tcp" THEN 1 ELSE 2) /\ v[IdLen + 2] = m.compression
      /\ SubSeq(v, 2, IdLen + 1) = m.id
  <2>1. /\ v \in Str /\ Len(v) = 1 + IdLen + 1
        /\ v[1] = (IF m.protocol = "tcp" THEN 1 ELSE 2) /\ v[IdLen + 2] = m.compression
    BY <1>0, DataHeader
  <2>2. SubSeq(v, 2, IdLen + 1) = m.id
    BY <1>0, DataId
  <2> HIDE DEF v
  <2> QED
    BY <2>1, <2>2
<1>3. /\ c \in Str /\ m.data # Raises
      /\ (IF m.compression = 1 THEN Gunzip(c) ELSE c) = m.data
  BY ContentsTyped
<1>4. l \in Str /\ Len(l) = 4 /\ Number(l) = Len(c)
  <2>1. Len(c) \in Nat
    BY <1>3, StrConcat
  <2> QED
    BY <2>1, LongNumber
<1> HIDE DEF v, c, l, q
<1>5. ASSUME Sendable(m) PROVE ParseData(Payload(m)) = Delivered(m)
  <2>1. /\ m.address # None => IsAscii(m.address)
        /\ m.target_addr # None => IsAscii(m.target_addr)
    <3>1. /\ m.address # None => m.address \in Texts(m)
          /\ m.target_addr # None => m.target_addr \in Texts(m)
      BY DataTyped DEF Texts, DataMessage
    <3> QED
      BY <1>5, <3>1 DEF Sendable
  <2>2. Reads(Fixed(Payload(m), 1 + IdLen + 1), v, l \o (c \o q))
    BY <1>1, <1>2, FixedField
  <2>3. Reads(Counted(l \o (c \o q), 4), c, q)
    BY <1>1, <1>3, <1>4, CountedField
  <2> DEFINE D(w) == IF w[IdLen + 2] = 1 THEN Gunzip(c) ELSE c
             none == [address |-> None, port |-> None]
             F(r) == IF v[1] = 2 THEN EndpointField(r) ELSE [value |-> none, rest |-> q]
             A == IF m.protocol = "tcp" THEN none
                  ELSE [address |-> IF m.address = None THEN <<>> ELSE m.address,
                        port |-> OrZero(m.port)]
             T == IF m.protocol = "tcp" THEN none
                  ELSE [address |-> IF m.target_addr = None THEN <<>> ELSE m.target_addr,
                        port |-> OrZero(m.target_port)]
  <2>4. D(v) = m.data
    BY <1>2, <1>3
  <2>5. \E s : Reads(F(q), A, s) /\ \E u : Reads(F(s), T, u)
    <3>1. CASE m.protocol = "tcp"
      <4>1. v[1] # 2 /\ A = none /\ T = none
        BY <1>2, <3>1
      <4>2. Reads([value |-> none, rest |-> q], none, q)
        BY <1>1, NoEndpoint
      <4>3. F(q) = [value |-> none, rest |-> q]
        BY <4>1
      <4> HIDE DEF none, A, T, F
      <4> QED
        BY <4>1, <4>2, <4>3
    <3>2. CASE m.protocol # "tcp"
      <4>1. v[1] = 2 /\ m.protocol = "udp"
        BY <1>2, <3>2, DataTyped
      <4> DEFINE E1 == Endpoint(m.address, m.port)
                 E2 == Endpoint(m.target_addr, m.target_port)
      <4>2. E1 \in Str /\ E2 \in Str
        BY DataTyped, EndpointIsText
      <4>3. q = E1 \o E2
        BY <4>1 DEF q, Endpoints
      <4>4. Reads(EndpointField(E1 \o E2), A, E2)
        BY <2>1, <3>2, <4>2, DataTyped, EndpointIsRead
      <4>5. Reads(EndpointField(E2), T, <<>>)
        BY <2>1, <3>2, DataTyped, LastEndpointIsRead
      <4>6. F(q) = EndpointField(q) /\ F(E2) = EndpointField(E2)
        BY <4>1
      <4> HIDE DEF none, A, T, F, E1, E2
      <4> QED
        BY <4>3, <4>4, <4>5, <4>6
    <3> QED
      BY <3>1, <3>2
  <2>6. ParseData(Payload(m))
          = [type |-> "data", protocol |-> ProtocolName(<<v[1]>>),
             id |-> SubSeq(v, 2, IdLen + 1), compression |-> v[IdLen + 2],
             data |-> D(v), address |-> A.address, port |-> A.port,
             target_addr |-> T.address, target_port |-> T.port]
    <3>1. PICK s : Reads(F(q), A, s) /\ \E u : Reads(F(s), T, u)
      BY <2>5
    <3>2. PICK u : Reads(F(s), T, u)
      BY <3>1
    <3>3. D(v) # Raises
      BY <1>3, <2>4
    <3> HIDE DEF A, T
    <3> QED
      BY <2>2, <2>3, <3>1, <3>2, <3>3, Zenon DEF ParseData, Then, Reads
  <2>7. ProtocolName(<<v[1]>>) = m.protocol
    BY <1>2, DataTyped, ProtocolOfName
  <2>8. Delivered(m) = [type |-> "data", protocol |-> m.protocol, id |-> m.id,
                        compression |-> m.compression, data |-> m.data, address |-> A.address,
                        port |-> A.port, target_addr |-> T.address, target_port |-> T.port]
    <3>1. CASE m.protocol = "tcp"
      BY <3>1, DataTyped DEF Delivered
    <3>2. CASE m.protocol # "tcp"
      <4>1. m.protocol = "udp" /\ m.type = "data"
        BY <3>2, DataTyped
      <4>3. Delivered(m) = [m EXCEPT !.address = A.address, !.port = A.port,
                                     !.target_addr = T.address, !.target_port = T.port]
        BY <3>2, <4>1 DEF Delivered
      <4> HIDE DEF A, T
      <4>5. Delivered(m) = Datagram(m.id, m.compression, m.data, A.address, A.port,
                                    T.address, T.port)
        <5>1. PICK a, n, t, k :
                 a = A.address /\ n = A.port /\ t = T.address /\ k = T.port
          OBVIOUS
        <5>2. WithEndpoints(m, a, n, t, k)
                = Datagram(m.id, m.compression, m.data, a, n, t, k)
          BY <4>1, DatagramUpdate
        <5>3. Delivered(m) = WithEndpoints(m, a, n, t, k)
          BY <4>3, <5>1 DEF WithEndpoints
        <5> QED
          BY <5>1, <5>2, <5>3
      <4> QED
        BY <4>1, <4>5 DEF Datagram
    <3> QED
      BY <3>1, <3>2
  <2> HIDE DEF A, T, D
  <2> QED
    BY <1>2, <2>4, <2>6, <2>7, <2>8
<1> QED
  BY <1>1, <1>5

(* The end of a channel.                                                   *)
LEMMA DisconnectRoundTrip ==
  ASSUME NEW m \in DisconnectMessage
  PROVE  Payload(m) \in Str /\ (Sendable(m) => ParseDisconnect(Payload(m)) = Delivered(m))
<1>1. /\ m.type = "disconnect" /\ m.id \in Uuid /\ m.error \in Maybe(Str)
      /\ m = [type |-> "disconnect", id |-> m.id, error |-> m.error]
  BY DEF DisconnectMessage
<1> DEFINE q == Optional(m.error)
           e == IF m.error = <<>> THEN None ELSE m.error
<1>2. m.id \in Str /\ Len(m.id) = IdLen
  BY <1>1, UuidIsStr
<1>3. q \in Str
  <2>1. m.error \in Str => Text(m.error) \in Str
    BY TextTyped
  <2> QED
    BY <1>1, <2>1, StrEmpty DEF Optional, Given, Maybe
<1>4. Payload(m) = m.id \o q
  BY <1>1 DEF Payload
<1>5. Payload(m) \in Str
  BY <1>2, <1>3, <1>4, StrConcat
<1>6. ASSUME Sendable(m) PROVE ParseDisconnect(Payload(m)) = Delivered(m)
  <2>1. m.error # None => IsAscii(m.error)
    <3>1. m.error # None => m.error \in Texts(m)
      BY <1>1 DEF Texts, DisconnectMessage
    <3> QED
      BY <1>6, <3>1 DEF Sendable
  <2>2. Reads(OptionalText(q), e, <<>>)
    BY <1>1, <2>1, OptionalIsRead
  <2>3. Delivered(m) = [type |-> "disconnect", id |-> m.id, error |-> e]
    BY <1>1 DEF Delivered
  <2>4. NoneIfEmpty(e) = e
    BY DEF NoneIfEmpty
  <2> HIDE DEF q, e
  <2>5. Reads(Fixed(Payload(m), IdLen), m.id, q)
    BY <1>2, <1>3, <1>4, FixedField
  <2>6. ParseDisconnect(Payload(m)) = [type |-> "disconnect", id |-> m.id, error |-> NoneIfEmpty(e)]
    BY <2>2, <2>5, Zenon DEF ParseDisconnect, Then, Reads
  <2> QED
    BY <2>3, <2>4, <2>6
<1> QED
  BY <1>5, <1>6

(* An operation on connectors.                                             *)
LEMMA ConnectorRoundTrip ==
  ASSUME NEW m \in ConnectorMessage
  PROVE  Payload(m) \in Str /\ (Sendable(m) => ParseConnector(Payload(m)) = Delivered(m))
<1>1. /\ m.type = "connector" /\ m.id \in Uuid /\ m.token \in Str
      /\ m.operation \in {"add", "remove"}
      /\ m = [type |-> "connector", id |-> m.id, token |-> m.token, operation |-> m.operation]
  BY DEF ConnectorMessage
<1> DEFINE o == Operation(m.operation)
           q == Text(m.token) \o o
<1>2. m.id \in Str /\ Len(m.id) = IdLen
  BY <1>1, UuidIsStr
<1>3. o \in Str /\ Len(o) = 1 /\ OperationName(o) = m.operation /\ OperationName(o) # ""
  BY <1>1, StrOne DEF Operation, OperationName
<1>4. Text(m.token) \in Str
  BY <1>1, TextTyped
<1> HIDE DEF o
<1>5. q \in Str
  BY <1>3, <1>4, StrConcat
<1>6. Payload(m) = m.id \o q
  <2>1. Payload(m) = (m.id \o Text(m.token)) \o o
    BY <1>1 DEF Payload, o
  <2> QED
    BY <1>2, <1>3, <1>4, <2>1, StrAssoc
<1>7. Payload(m) \in Str
  BY <1>2, <1>5, <1>6, StrConcat
<1>8. ASSUME Sendable(m) PROVE ParseConnector(Payload(m)) = Delivered(m)
  <2>1. IsAscii(m.token)
    <3>1. m.token \in Texts(m)
      BY <1>1, CodecAssumption DEF Texts, ConnectorMessage
    <3> QED
      BY <1>8, <3>1 DEF Sendable
  <2>2. Reads(TextField(q), m.token, o)
    BY <1>1, <1>3, <2>1, TextIsRead
  <2> HIDE DEF q
  <2>3. Reads(Fixed(Payload(m), IdLen), m.id, q)
    BY <1>2, <1>5, <1>6, FixedField
  <2>4. Reads(Fixed(o, 1), o, <<>>)
    BY <1>3, WholeField
  <2>5. ParseConnector(Payload(m))
          = [type |-> "connector", id |-> m.id, token |-> m.token, operation |-> OperationName(o)]
    BY <1>3, <2>2, <2>3, <2>4, Zenon DEF ParseConnector, Then, Reads
  <2>6. Delivered(m) = m
    BY <1>1 DEF Delivered
  <2> QED
    BY <1>1, <1>3, <2>5, <2>6
<1> QED
  BY <1>7, <1>8

(* The answer to it.                                                       *)
LEMMA ConnectorResponseRoundTrip ==
  ASSUME NEW m \in ConnectorResponseMessage
  PROVE  /\ Payload(m) \in Str
         /\ Sendable(m) => ParseConnectorResponse(Payload(m)) = Delivered(m)
<1>1. /\ m.type = "connector_response" /\ m.id \in Uuid /\ m.success \in BOOLEAN
      /\ m.error \in Maybe(Str) /\ m.token \in Maybe(Str)
      /\ (m.success => m.error = None) /\ (~ m.success => m.token = None)
      /\ m = [type |-> "connector_response", id |-> m.id, success |-> m.success,
              error |-> m.error, token |-> m.token]
  BY DEF ConnectorResponseMessage, Maybe
<1> DEFINE n == IF m.success THEN 1 ELSE 0
           v == m.id \o Flag(m.success)
           q == IF m.success THEN Optional(m.token) ELSE Optional(m.error)
<1>2. m.id \in Str /\ Len(m.id) = IdLen
  BY <1>1, UuidIsStr
<1>3. v \in Str /\ Len(v) = IdLen + 1 /\ v[IdLen + 1] = n /\ SubSeq(v, 1, IdLen) = m.id
  <2>1. n \in Nat /\ Flag(m.success) = <<n>>
    BY DEF Flag
  <2> HIDE DEF n
  <2>2. <<n>> \in Str /\ v = m.id \o <<n>>
    BY <2>1, StrOne
  <2>3. /\ m.id \o <<n>> \in Str /\ Len(m.id \o <<n>>) = Len(m.id) + 1
        /\ (m.id \o <<n>>)[Len(m.id) + 1] = n
    BY <1>2, <2>1, MoreAndOne
  <2>4. SubSeq(m.id \o <<n>>, 1, Len(m.id)) = m.id
    BY <1>2, <2>2, StrDrop
  <2> HIDE DEF v
  <2> QED
    BY <1>2, <2>2, <2>3, <2>4
<1>4. v[IdLen + 1] # 0 <=> m.success
  BY <1>3
<1>5. q \in Str
  <2>1. /\ m.token \in Str => Text(m.token) \in Str
        /\ m.error \in Str => Text(m.error) \in Str
    BY TextTyped
  <2> QED
    BY <1>1, <2>1, StrEmpty DEF Optional, Given, Maybe
<1>6. Payload(m) = v \o q
  BY <1>1 DEF Payload
<1> HIDE DEF v, q
<1>7. Payload(m) \in Str
  BY <1>3, <1>5, <1>6, StrConcat
<1>8. ASSUME Sendable(m) PROVE ParseConnectorResponse(Payload(m)) = Delivered(m)
  <2>1. /\ m.error # None => IsAscii(m.error)
        /\ m.token # None => IsAscii(m.token)
    <3>1. /\ m.error # None => m.error \in Texts(m)
          /\ m.token # None => m.token \in Texts(m)
      BY <1>1 DEF Texts, ConnectorResponseMessage
    <3> QED
      BY <1>8, <3>1 DEF Sendable
  <2>2. Reads(Fixed(Payload(m), IdLen + 1), v, q)
    BY <1>3, <1>5, <1>6, FixedField
  <2> DEFINE ok == v[IdLen + 1] # 0
             f == IF ok THEN OptionalText(q) ELSE TextField(q)
             t == IF m.token = <<>> THEN None ELSE m.token
             w == IF m.success THEN t ELSE m.error
  <2>3. \E r : Reads(f, w, r)
    <3>1. CASE m.success
      <4>1. f = OptionalText(q) /\ q = Optional(m.token) /\ w = t
        BY <1>4, <3>1 DEF q
      <4>2. Reads(OptionalText(Optional(m.token)), t, <<>>)
        BY <1>1, <2>1, OptionalIsRead
      <4> HIDE DEF f, t, w
      <4> QED
        BY <4>1, <4>2
    <3>2. CASE ~ m.success
      <4>1. Given(m.error)
        BY <1>1, <1>8, <3>2 DEF Sendable
      <4>2. m.error \in Str /\ IsAscii(m.error)
        BY <1>1, <2>1, <4>1 DEF Given, Maybe
      <4>3. f = TextField(q) /\ q = Text(m.error) /\ w = m.error
        BY <1>4, <3>2, <4>1 DEF q, Optional
      <4>4. Reads(TextField(Text(m.error)), m.error, <<>>)
        BY <4>2, LastTextIsRead
      <4> HIDE DEF f, t, w
      <4> QED
        BY <4>3, <4>4
    <3> QED
      BY <3>1, <3>2
  <2>4. ParseConnectorResponse(Payload(m))
          = [type |-> "connector_response", success |-> ok, id |-> SubSeq(v, 1, IdLen),
             error |-> IF ok THEN None ELSE w, token |-> IF ok THEN w ELSE None]
    <3> HIDE DEF w
    <3> QED
      BY <2>2, <2>3, Zenon DEF ParseConnectorResponse, Then, Reads
  <2>5. Delivered(m) = [type |-> "connector_response", id |-> m.id, success |-> m.success,
                        error |-> m.error, token |-> t]
    BY <1>1 DEF Delivered
  <2>6. ok = m.success
    BY <1>1, <1>4, Zenon
  <2>7. (IF m.success THEN None ELSE w) = m.error /\ (IF m.success THEN w ELSE None) = t
    <3>1. CASE m.success
      BY <1>1, <3>1
    <3>2. CASE ~ m.success
      <4>1. t = None
        BY <1>1, <3>2
      <4> QED
        BY <3>2, <4>1
    <3> QED
      BY <3>1, <3>2
  <2> HIDE DEF ok, t, w
  <2> QED
    BY <1>3, <2>4, <2>5, <2>6, <2>7, Zenon
<1> QED
  BY <1>7, <1>8

(* A message whose payload is a JSON document.                             *)
LEMMA DocumentRoundTrip ==
  ASSUME NEW m \in DocumentMessage
  PROVE  /\ Payload(m) \in Str
         /\ ParseDocument(m.type, Payload(m)) = Delivered(m)
<1>1. m.type \in {"log", "partners"} /\ m.text \in Seq(Byte) /\ m = [type |-> m.type, text |-> m.text]
  BY DEF DocumentMessage
<1> DEFINE d == Dumps(m.text)
           l == Long(Len(d))
<1>2. d \in Str /\ Loads(d) = m.text /\ m.text # Raises
  BY <1>1, DumpsInverse
<1>3. Payload(m) = l \o d
  BY <1>1 DEF Payload
<1> HIDE DEF d
<1>4. l \in Str /\ Len(l) = 4 /\ Number(l) = Len(d)
  <2>1. Len(d) \in Nat
    BY <1>2, StrConcat
  <2> QED
    BY <2>1, LongNumber
<1> HIDE DEF l
<1>5. Payload(m) \in Str
  BY <1>2, <1>3, <1>4, StrConcat
<1>6. Payload(m) = l \o (d \o <<>>)
  BY <1>2, <1>3, StrEmpty
<1>7. Reads(Counted(Payload(m), 4), d, <<>>)
  BY <1>2, <1>4, <1>6, StrEmpty, CountedField
<1>8. ParseDocument(m.type, Payload(m)) = [type |-> m.type, text |-> Loads(d)]
  BY <1>2, <1>7, Zenon DEF ParseDocument, Then, Reads
<1>9. Delivered(m) = m
  BY <1>1 DEF Delivered
<1> QED
  BY <1>1, <1>2, <1>5, <1>8, <1>9

(***************************************************************************)
(* What can be packed is parsed as it was sent.                            *)
(***************************************************************************)
LEMMA PayloadIsRead ==
  ASSUME NEW m \in Message
  PROVE  LET b == [type |-> m.type, payload |-> Payload(m)]
         IN  /\ m.type \in Types /\ Payload(m) \in Str
             /\ Sendable(m) => Parse(b) = Delivered(m)
<1> DEFINE b == [type |-> m.type, payload |-> Payload(m)]
           Good == /\ m.type \in Types /\ Payload(m) \in Str
                   /\ Sendable(m) => Parse(b) = Delivered(m)
<1>1. CASE m \in AuthMessage
  <2>1. m.type = "auth"
    BY <1>1 DEF AuthMessage
  <2> QED
    BY <1>1, <2>1, AuthRoundTrip DEF Parse, Types
<1>2. CASE m \in AuthResponseMessage
  <2>1. m.type = "auth_response"
    BY <1>2 DEF AuthResponseMessage
  <2> QED
    BY <1>2, <2>1, AuthResponseRoundTrip DEF Parse, Types
<1>3. CASE m \in ConnectMessage
  <2>1. m.type = "connect"
    BY <1>3 DEF ConnectMessage
  <2> QED
    BY <1>3, <2>1, ConnectRoundTrip DEF Parse, Types
<1>4. CASE m \in ConnectResponseMessage
  <2>1. m.type = "connect_response"
    BY <1>4 DEF ConnectResponseMessage
  <2> QED
    BY <1>4, <2>1, ConnectResponseRoundTrip DEF Parse, Types
<1>5. CASE m \in DataMessage
  <2>1. m.type = "data"
    BY <1>5 DEF DataMessage
  <2> QED
    BY <1>5, <2>1, DataRoundTrip DEF Parse, Types
<1>6. CASE m \in DisconnectMessage
  <2>1. m.type = "disconnect"
    BY <1>6 DEF DisconnectMessage
  <2> QED
    BY <1>6, <2>1, DisconnectRoundTrip DEF Parse, Types
<1>7. CASE m \in ConnectorMessage
  <2>1. m.type = "connector"
    BY <1>7 DEF ConnectorMessage
  <2> QED
    BY <1>7, <2>1, ConnectorRoundTrip DEF Parse, Types
<1>8. CASE m \in ConnectorResponseMessage
  <2>1. m.type = "connector_response"
    BY <1>8 DEF ConnectorResponseMessage
  <2> QED
    BY <1>8, <2>1, ConnectorResponseRoundTrip DEF Parse, Types
<1>9. CASE m \in DocumentMessage
  <2>1. m.type \in {"log", "partners"}
    BY <1>9 DEF DocumentMessage
  <2>2. Parse(b) = ParseDocument(m.type, Payload(m))
    BY <2>1 DEF Parse
  <2> QED
    BY <1>9, <2>1, <2>2, DocumentRoundTrip DEF Types
<1> QED
  BY <1>1, <1>2, <1>3, <1>4, <1>5, <1>6, <1>7, <1>8, <1>9 DEF Message

(* What Pack gives, and that Parse undoes it.                              *)
LEMMA PackKinds ==
  ASSUME NEW m \in Message
  PROVE  /\ Pack(m) # None
         /\ Pack(m) # Raises => Pack(m) = [type |-> m.type, payload |-> Payload(m)]
         /\ Pack(m) # Raises /\ Sendable(m) => Parse(Pack(m)) = Delivered(m)
<1> DEFINE p == Payload(m)
           b == [type |-> m.type, payload |-> p]
<1>1. m.type \in Types /\ p \in Str /\ (Sendable(m) => Parse(b) = Delivered(m))
  BY PayloadIsRead
<1> HIDE DEF p
<1>2. CASE \A i \in DOMAIN p : p[i] \in Byte
  <2>1. Len(p) \in Nat /\ p \in [1..Len(p) -> Byte]
    BY <1>1, <1>2, LenProperties DEF Str
  <2>2. p \in Seq(Byte)
    BY <2>1, FunctionIsSeq
  <2>3. b \in PackedMessage
    BY <1>1, <2>2 DEF PackedMessage
  <2>4. b # None /\ b # Raises
    BY <2>3, CodecAssumption
  <2>5. Pack(m) = b
    BY <1>2 DEF Pack, p
  <2> QED
    BY <1>1, <2>4, <2>5 DEF p
<1>3. CASE ~ (\A i \in DOMAIN p : p[i] \in Byte)
  <2>1. Pack(m) = Raises
    BY <1>3 DEF Pack, p
  <2> QED
    BY <2>1, CodecAssumption
<1> QED
  BY <1>2, <1>3

(***************************************************************************)
(* The inductive invariant.                                                *)
(***************************************************************************)
Handshake == {"greeting", "methods", "version", "ulen", "user", "plen", "password",
              "header", "v4", "v6", "dlen", "domain", "port"}
Admitted == {"header", "v4", "v6", "dlen", "domain", "port", "waiting"}
Refusal == {"refuse", "refusing"}
NetPcs == {"idle", "direct", "dial", "method", "auth", "reply", "blen", "skip", "http",
           "connected", "failed"}
Unconnected == {"idle", "direct", "dial", "method", "auth"}
Ended == {"connected", "failed"}

ReqRecord ==
    [pc : Handshake \cup Refusal \cup {"waiting", "done"}, need : Nat, text : Str,
     got : {"nothing", "failure", "noMethod", "denied", "unreachable", "success"}]
NetRecord == [pc : NetPcs, need : Nat, head : Str]

RequestTyped ==
    /\ config \in Configs /\ ask \in Asks \cup {None}
    /\ input \in Str /\ proxy \in Str
    /\ left \in BOOLEAN /\ short \in BOOLEAN /\ cut \in BOOLEAN
    /\ req \in ReqRecord /\ net \in NetRecord

(* How many bytes a recv of the handshake asks for.                        *)
NeedsFit ==
    /\ req.pc \in {"version", "ulen", "plen", "v4", "dlen"} => req.need = 1
    /\ req.pc \in {"greeting", "v6", "port"} => req.need = 2
    /\ req.pc = "header" => req.need = 4

SentIs(type) == sent # None /\ sent.type = type

(* What is on the wire is what was packed, and what was heard is what was  *)
(* parsed from it.                                                         *)
WireInv ==
    /\ sent = None => wire = None
    /\ sent # None =>
          /\ sent \in Message
          /\ \/ wire = Pack(sent)
             \/ wire = None /\ Pack(sent) # Raises /\ heard = Parse(Pack(sent))

(* The program's side, the wire and the net side take turns.               *)
TurnsInv ==
    /\ req.pc \in Handshake \cup Refusal => sent = None
    /\ sent = None => net.pc = "idle"
    /\ SentIs("connect") /\ wire # None => net.pc = "idle"
    /\ SentIs("connect_response") => net.pc \in Ended /\ (sent.success => net.pc = "connected")
    /\ req.got = "success" => req.pc = "done" /\ SentIs("connect_response") /\ sent.success
    /\ net.pc \in Unconnected => reached = None
    /\ ask = None =>
          /\ req.pc \in {"greeting", "refuse", "done"} /\ req.need > 0 /\ input = <<>> /\ ~left
          /\ sent # None => sent.type \notin {"connect", "connect_response"}
          /\ net.pc = "idle"
    /\ ask # None => sent = None \/ sent.type \in {"connect", "connect_response"}

(* What is left of the bytes of the program at each point of the handshake.*)
AddressBytes(a) == HostField(a.atyp, a.host) \o Short(a.port)
RequestBytes(a) == <<5, a.cmd, 0, a.atyp>> \o (IF a.cmd = 1 THEN AddressBytes(a) ELSE <<>>)
AfterUser(a) == Prefixed(a.password) \o RequestBytes(a)
AfterVersion(a) == Prefixed(a.user) \o AfterUser(a)
AfterMethods(a, c) == IF c.auth THEN <<1>> \o AfterVersion(a) ELSE RequestBytes(a)

HandshakeAt ==
    /\ req.pc = "greeting" =>
          input = <<5, Len(ask.methods)>> \o (ask.methods \o AfterMethods(ask, config))
    /\ req.pc = "methods" =>
          req.need = Len(ask.methods) /\ input = ask.methods \o AfterMethods(ask, config)
    /\ req.pc = "version" => input = <<1>> \o AfterVersion(ask)
    /\ req.pc = "ulen" => input = AfterVersion(ask)
    /\ req.pc = "user" => req.need = Len(ask.user) /\ input = ask.user \o AfterUser(ask)
    /\ req.pc = "plen" => req.text = Decode(ask.user) /\ input = AfterUser(ask)
    /\ req.pc = "password" =>
          /\ req.text = Decode(ask.user) /\ req.need = Len(ask.password)
          /\ input = ask.password \o RequestBytes(ask)
    /\ req.pc = "header" => input = RequestBytes(ask)
    /\ req.pc = "v4" => ask.atyp = 1 /\ input = AddressBytes(ask)
    /\ req.pc = "v6" => ask.atyp = 4 /\ input = AddressBytes(ask)
    /\ req.pc = "dlen" => ask.atyp = 3 /\ input = AddressBytes(ask)
    /\ req.pc = "domain" =>
          ask.atyp = 3 /\ req.need = Len(ask.host) /\ input = ask.host \o Short(ask.port)
    /\ req.pc = "port" => req.text = HostText(ask.atyp, ask.host) /\ input = Short(ask.port)
HandshakeInv == ask # None /\ ~short => HandshakeAt

(* Nobody gets past the password without the credentials.                  *)
Known == Decode(ask.user) = User /\ Decode(ask.password) = Password
CredentialsInv ==
    ask # None /\ ~short /\ config.auth
      /\ (req.pc \in Admitted \/ SentIs("connect") \/ net.pc # "idle") => Known

(* The address on its way to the net side and, from there, to the target.  *)
Names(address, port) == address = HostText(ask.atyp, ask.host) /\ port = ask.port
Wanted == [host |-> HostText(ask.atyp, ask.host), port |-> ask.port]
AddressInv ==
    ask # None /\ ~short =>
        /\ SentIs("connect") /\ sent.protocol = "tcp" => Names(sent.address, sent.port)
        /\ IsAscii(HostText(ask.atyp, ask.host)) =>
              /\ net.pc \in Unconnected \ {"idle"} =>
                    /\ heard.protocol \in {"tcp", "udp"}
                    /\ heard.protocol = "tcp" =>
                          heard.address \in Str /\ Names(heard.address, heard.port)
                    /\ net.pc # "direct" => heard.protocol = "tcp"
              /\ reached # None => reached = Wanted

(* What the proxy has still to be read of.                                 *)
ReplyInv ==
    /\ net.pc \in {"idle", "direct", "dial"} => proxy = <<>>
    /\ net.pc = "http" => config.upstream = "http"
    /\ config.upstream # "http" /\ ~cut =>
        /\ net.pc \in {"method", "auth"} => net.need = 2 /\ Len(proxy) = 2
        /\ net.pc = "reply" =>
              /\ net.need = 4
              /\ \/ \E atyp \in {1, 3, 4} : proxy = ProxyReply(TRUE, atyp)
                 \/ proxy = ProxyReply(FALSE, 1) /\ reached = None
        /\ net.pc = "blen" => net.need = 1 /\ proxy = <<1>> \o ((<<1>> \o <<0, 0>>) \o TargetData)
        /\ net.pc = "skip" =>
              \E b \in Str : Len(b) = net.need /\ proxy = b \o TargetData
        /\ net.pc = "connected" => reached = None \/ proxy = TargetData

RequestInv ==
    /\ RequestTyped /\ NeedsFit /\ WireInv /\ TurnsInv
    /\ HandshakeInv /\ CredentialsInv /\ AddressInv /\ ReplyInv

-----------------------------------------------------------------------------
(***************************************************************************)
(* One recv: a piece of what the program has sent.                         *)
(***************************************************************************)
LEMMA PieceTyped ==
  ASSUME input \in Str, NEW data \in Pieces
  PROVE  /\ data \in Str /\ Len(data) \in Nat /\ Drop(input, Len(data)) \in Str
         /\ \A i \in 1..Len(data) : data[i] \in Nat
<1>1. PICK k \in 0..Len(input) : data = SubSeq(input, 1, k)
  BY DEF Pieces
<1>2. Len(input) \in Nat
  BY StrConcat
<1>3. data \in Str
  BY <1>1, <1>2, SubSeqTyped DEF Str
<1>4. Len(data) \in Nat
  BY <1>3, StrConcat
<1>5. \A i \in 1..Len(data) : data[i] \in Nat
  BY <1>3, ElementOfSeq DEF Str
<1>6. Drop(input, Len(data)) \in Str
  BY <1>4, DropTyped DEF Str
<1> QED
  BY <1>3, <1>4, <1>5, <1>6

(* A recv that is not cut returns the field in front.                      *)
LEMMA RecvWhole ==
  ASSUME NEW at, NEW data \in Pieces, NEW a \in Str, NEW b \in Str, RequestTyped,
         Recv(at, data), at \notin Refusal, input = a \o b, req.need = Len(a), ~ short'
  PROVE  data = a /\ input' = b /\ ~ short
<1>1. PICK k \in 0..Len(input) : data = SubSeq(input, 1, k)
  BY DEF Pieces
<1>2. Len(a) \in Nat /\ Len(b) \in Nat /\ Len(input) = Len(a) + Len(b) /\ input \in Str
  BY StrConcat
<1>3. Len(data) = k
  <2>1. 1 <= k + 1 /\ k <= Len(input) /\ k \in Nat /\ 1 \in Nat
    BY <1>2
  <2>2. \A i \in 1..k : input[i] \in Nat
    BY <1>2, <2>1, ElementOfSeq DEF Str
  <2>3. Len(SubSeq(input, 1, k)) = IF 1 <= k THEN k - 1 + 1 ELSE 0
    BY <2>1, <2>2, SubSeqProperties
  <2> QED
    BY <1>1, <2>1, <2>3
<1>4. Len(data) <= req.need /\ short' = (short \/ Len(data) < req.need)
      /\ input' = Drop(input, Len(data))
  BY DEF Recv, Received, Refusal
<1>5. k = Len(a) /\ ~ short
  <2>1. ~ (short \/ Len(data) < req.need)
    BY <1>4, Zenon
  <2> QED
    BY <1>2, <1>3, <1>4, <2>1
<1>6. data = SubSeq(a \o b, 1, Len(a)) /\ input' = Drop(a \o b, Len(a))
  BY <1>1, <1>3, <1>4, <1>5
<1> QED
  BY <1>5, <1>6, StrDrop

(* Without a request there is nothing to read.                             *)
LEMMA NothingToRead ==
  ASSUME RequestTyped, TurnsInv, ask = None, NEW at, NEW data \in Pieces
  PROVE  ~ Recv(at, data)
<1>1. input = <<>> /\ ~ left /\ req.need > 0
  BY DEF TurnsInv
<1>2. PICK k \in 0..Len(input) : data = SubSeq(input, 1, k)
  BY DEF Pieces
<1>3. k = 0
  BY <1>1, <1>2
<1>4. data = <<>>
  BY <1>1, <1>2, <1>3, SubSeqEmpty
<1> QED
  BY <1>1, <1>4 DEF Recv, Received, RequestTyped, ReqRecord

(***************************************************************************)
(* A step of the handshake either reads on, ends the request, or sends the *)
(* Connect message.                                                        *)
(***************************************************************************)
ReadsOn ==
    /\ UNCHANGED wireVars /\ req' \in ReqRecord
    /\ req'.pc \in Handshake \cup Refusal \cup {"done"} /\ req'.got # "success"
    /\ NeedsFit'
SendsConnect ==
    /\ sent' \in ConnectMessage /\ wire' = Pack(sent') /\ wire' # Raises /\ UNCHANGED heard
    /\ req' = [req EXCEPT !.pc = "waiting"]

(* A step of the handshake that goes on to another recv.                   *)
LEMMA GoesOn ==
  ASSUME NEW pc \in Handshake \cup Refusal, NEW n \in Nat, RequestTyped, GoOn(pc, n),
         req.got # "success",
         pc \in {"version", "ulen", "plen", "v4", "dlen"} => n = 1,
         pc \in {"greeting", "v6", "port"} => n = 2, pc = "header" => n = 4
  PROVE  ReadsOn /\ req'.pc = pc /\ req'.need = n /\ req'.text = req.text
<1>1. req \in ReqRecord /\ req' = [req EXCEPT !.pc = pc, !.need = n] /\ UNCHANGED wireVars
  BY DEF RequestTyped, GoOn
<1>2. req' \in ReqRecord /\ req'.pc = pc /\ req'.need = n /\ req'.got = req.got /\ req'.text = req.text
  BY <1>1 DEF ReqRecord
<1> QED
  BY <1>1, <1>2 DEF ReadsOn, NeedsFit

(* A step of the handshake that keeps a text.                              *)
LEMMA ReadsTheText ==
  ASSUME NEW pc \in Handshake \cup Refusal, NEW n \in Nat, NEW t \in Str, RequestTyped,
         ReadText(pc, n, t), req.got # "success",
         pc \in {"version", "ulen", "plen", "v4", "dlen"} => n = 1,
         pc \in {"greeting", "v6", "port"} => n = 2, pc = "header" => n = 4
  PROVE  ReadsOn /\ req'.pc = pc /\ req'.need = n /\ req'.text = t
<1>1. req \in ReqRecord /\ req' = [req EXCEPT !.pc = pc, !.need = n, !.text = t] /\ UNCHANGED wireVars
  BY DEF RequestTyped, ReadText
<1>2. req' \in ReqRecord /\ req'.pc = pc /\ req'.need = n /\ req'.got = req.got /\ req'.text = t
  BY <1>1 DEF ReqRecord
<1> QED
  BY <1>1, <1>2 DEF ReadsOn, NeedsFit

(* A step that ends the handshake.                                         *)
LEMMA Ends ==
  ASSUME NEW got \in {"nothing", "failure", "noMethod", "denied", "unreachable"}, RequestTyped,
         End(got)
  PROVE  ReadsOn /\ req'.pc = "done" /\ req'.got = got
<1>1. req \in ReqRecord /\ req' = [req EXCEPT !.pc = "done", !.got = got] /\ UNCHANGED wireVars
  BY DEF RequestTyped, End
<1>2. req' \in ReqRecord /\ req'.pc = "done" /\ req'.got = got
  BY <1>1 DEF ReqRecord
<1> QED
  BY <1>1, <1>2 DEF ReadsOn, NeedsFit, Handshake, Refusal

(* With an address and a port, or, for UDP, without them.                  *)
LEMMA ConnectIsSent ==
  ASSUME NEW protocol \in {"tcp", "udp"}, NEW address, NEW port, RequestTyped,
         protocol = "tcp" => address \in Str /\ port \in Nat,
         protocol = "udp" => address = None /\ port = None,
         Connect(protocol, address, port)
  PROVE  \/ ReadsOn /\ req'.pc = "done"
         \/ /\ SendsConnect /\ sent'.protocol = protocol
            /\ sent'.address = address /\ sent'.port = port
<1> DEFINE m == [type |-> "connect", protocol |-> protocol, id |-> Id,
                 address |-> address, port |-> port]
<1>1. m \in ConnectMessage
  BY RequestAssumption DEF ConnectMessage
<1>2. IF Pack(m) = Raises THEN End("failure")
      ELSE SendMessage(m) /\ req' = [req EXCEPT !.pc = "waiting"]
  BY DEF Connect
<1>3. m.protocol = protocol /\ m.address = address /\ m.port = port
  OBVIOUS
<1> HIDE DEF m
<1>4. CASE Pack(m) = Raises
  BY <1>2, <1>4, Ends
<1>5. CASE Pack(m) # Raises
  BY <1>1, <1>2, <1>3, <1>5 DEF SendsConnect, SendMessage
<1> QED
  BY <1>4, <1>5

(***************************************************************************)
(* Addresses.                                                              *)
(***************************************************************************)
LEMMA RadixFits ==
  /\ Radix \in Nat \ {0} /\ Colon = Radix /\ Colon \in Ascii /\ 0..Radix \subseteq Ascii
  /\ Base \in Nat /\ 3 * Radix > Base - 1 /\ 3 <= Radix
  BY CodecAssumption DEF Radix, Colon, Half, Ascii

(* The text of a byte, or of any number.                                   *)
LEMMA ByteTextTyped ==
  ASSUME NEW b \in Nat
  PROVE  /\ ByteText(b) \in Str /\ Len(ByteText(b)) = 2 /\ <<Colon>> \in Str
         /\ ByteText(b)[1] = b \div Radix /\ ByteText(b)[2] = b % Radix
<1>1. b \div Radix \in Nat /\ b % Radix \in Nat /\ Colon \in Nat
  BY RadixFits, DivMod
<1> QED
  BY <1>1 DEF ByteText, Str

(* Digits, of which none is a colon.                                       *)
Digit == 0..(Radix - 1)

LEMMA DigitsAreStr ==
  ASSUME NEW t \in Seq(Digit)
  PROVE  t \in Str /\ \A i \in 1..Len(t) : t[i] \in Ascii /\ t[i] # Colon
<1>1. Digit \subseteq Nat /\ Digit \subseteq Ascii /\ Colon \notin Digit
  BY RadixFits DEF Digit
<1>2. t \in Str
  BY <1>1, SeqMonotonic DEF Str
<1>3. \A i \in 1..Len(t) : t[i] \in Digit
  BY ElementOfSeq
<1> QED
  BY <1>1, <1>2, <1>3

(* The text of a byte has two digits, which are read back.                 *)
LEMMA ByteTextFits ==
  ASSUME NEW b \in Nat, b < Base
  PROVE  ByteValue(ByteText(b)) = b /\ ByteText(b) \in Seq(Digit)
<1>1. /\ b \div Radix \in Nat /\ b % Radix \in Nat /\ b % Radix < Radix
      /\ b = Radix * (b \div Radix) + (b % Radix)
  BY RadixFits, DivMod
<1>2. b \div Radix < Radix
  <2>1. PICK q \in Nat : q = b \div Radix
    BY <1>1
  <2>2. Radix * q <= b /\ b < 3 * Radix
    BY <1>1, <2>1, RadixFits
  <2>3. q < 3
    <3> SUFFICES ASSUME q >= 3 PROVE FALSE
      BY <2>1
    <3>1. Radix * q >= Radix * 3
      BY RadixFits
    <3> QED
      BY <2>2, <3>1, RadixFits
  <2> QED
    BY <2>1, <2>3, RadixFits
<1>3. ByteValue(ByteText(b)) = b
  BY <1>1, ByteTextTyped DEF ByteValue
<1>4. b \div Radix \in Digit /\ b % Radix \in Digit
  BY <1>1, <1>2, RadixFits DEF Digit
<1>5. ByteText(b) \in Seq(Digit)
  BY <1>4 DEF ByteText
<1> QED
  BY <1>3, <1>5

(* Two digits are the text of their value.                                 *)
LEMMA ByteTextIsRead ==
  ASSUME NEW t \in Str, IsByteText(t)
  PROVE  ByteValue(t) \in Nat /\ ByteText(ByteValue(t)) = t
<1>1. Len(t) = 2 /\ t[1] < Radix /\ t[2] < Radix
  BY DEF IsByteText
<1>2. t[1] \in Nat /\ t[2] \in Nat /\ t = <<t[1], t[2]>>
  BY <1>1, ElementOfSeq DEF Str
<1>3. /\ (Radix * t[1] + t[2]) \div Radix = t[1]
      /\ (Radix * t[1] + t[2]) % Radix = t[2]
  BY <1>1, <1>2, RadixFits, ModDiv
<1>4. ByteValue(t) \in Nat
  BY <1>2, RadixFits DEF ByteValue
<1> QED
  BY <1>2, <1>3, <1>4 DEF ByteText, ByteValue

LEMMA HostTextTyped ==
  ASSUME NEW atyp, NEW b \in Str
  PROVE  HostText(atyp, b) \in Str \cup {Raises}
<1>2. \A x \in Nat : V4Text(x) \in Str /\ V6Text(x) \in Str
  BY ByteTextTyped, StrConcat DEF V4Text, V6Text
<1>3. \A i \in 1..Len(b) : b[i] \in Nat
  BY ElementOfSeq DEF Str
<1>4. CASE atyp = 1
  BY <1>2, <1>3, <1>4 DEF HostText
<1>5. CASE atyp = 4
  BY <1>2, <1>3, <1>5 DEF HostText
<1>6. CASE atyp \notin {1, 4}
  BY <1>6, DecodeTyped DEF HostText
<1> QED
  BY <1>4, <1>5, <1>6

(* What every step of the handshake leaves alone, and what it does.        *)
LEMMA ReadStep ==
  ASSUME RequestTyped, NeedsFit, TurnsInv, ReadRequest
  PROVE  /\ UNCHANGED <<config, ask, left, netVars>> /\ ask # None
         /\ input' \in Str /\ short' \in BOOLEAN /\ (short => short')
         /\ req.pc \in Handshake \cup Refusal
         /\ \/ ReadsOn
            \/ SendsConnect
<1> DEFINE Common == /\ UNCHANGED <<config, ask, left, netVars>> /\ ask # None
                     /\ input' \in Str /\ short' \in BOOLEAN /\ (short => short')
           Does == ReadsOn \/ SendsConnect
<1>0. /\ input \in Str /\ req \in ReqRecord /\ short \in BOOLEAN
      /\ req.got = "success" => req.pc = "done"
  BY DEF RequestTyped, TurnsInv
<1>1. ASSUME NEW at, NEW data \in Pieces, Recv(at, data)
      PROVE  Common /\ req.pc = at /\ Len(data) <= req.need
  <2>1. ask # None
    BY <1>1, NothingToRead
  <2>2. Drop(input, Len(data)) \in Str
    BY <1>0, <1>1, PieceTyped
  <2>3. /\ input' = Drop(input, Len(data))
        /\ (short' = (short \/ input' = <<>>)) \/ (short' = (short \/ Len(data) < req.need))
        /\ UNCHANGED <<config, ask, left, netVars>> /\ req.pc = at /\ Len(data) <= req.need
    BY <1>1 DEF Recv, Received
  <2>4. short' \in BOOLEAN /\ (short => short')
    BY <1>0, <2>3, Zenon
  <2> QED
    BY <2>1, <2>2, <2>3, <2>4
<1> HIDE DEF Common
<1>2. ASSUME NEW data \in Pieces
      PROVE  /\ data \in Str /\ Len(data) \in Nat
             /\ \A i \in 1..Len(data) : data[i] \in Nat
             /\ Whole(data) <=> Len(data) = req.need
  BY <1>0, <1>2, PieceTyped DEF Whole
<1>3. CASE RefuseGreeting
  <2>1. PICK data \in Pieces :
          /\ Recv("refuse", data)
          /\ IF data = <<>> \/ Head(data) # 5 THEN End("nothing") ELSE GoOn("refusing", 1024)
    BY <1>3 DEF RefuseGreeting
  <2>2. Common /\ req.pc = "refuse"
    BY <1>1, <2>1
  <2>3. req.got # "success"
    BY <1>0, <2>2
  <2>4. Does
    BY <2>1, <2>3, GoesOn, Ends DEF Refusal
  <2> QED
    BY <2>2, <2>4 DEF Common, Refusal
<1>4. CASE RefuseRequest
  <2>1. PICK data \in Pieces :
          Recv("refusing", data) /\ End(IF Len(data) < 7 THEN "nothing" ELSE "unreachable")
    BY <1>4 DEF RefuseRequest
  <2>2. Common /\ req.pc = "refusing"
    BY <1>1, <2>1
  <2>4. Does
    BY <2>1, Ends
  <2> QED
    BY <2>2, <2>4 DEF Common, Refusal
<1>5. CASE Greeting
  <2>1. PICK data \in Pieces :
          Recv("greeting", data) /\ RaisesUnless(Whole(data), GoOn("methods", data[2]))
    BY <1>5 DEF Greeting
  <2>2. Common /\ req.pc = "greeting"
    BY <1>1, <2>1
  <2>3. req.got # "success" /\ req.need = 2
    BY <1>0, <2>2 DEF NeedsFit
  <2>4. CASE Whole(data)
    <3>1. data[2] \in Nat /\ GoOn("methods", data[2])
      BY <1>2, <2>1, <2>3, <2>4 DEF RaisesUnless
    <3>2. Does
      BY <2>3, <3>1, GoesOn DEF Handshake
    <3> QED
      BY <2>2, <3>2 DEF Common, Handshake
  <2>5. CASE ~ Whole(data)
    <3>1. Does
      BY <2>1, <2>5, Ends DEF RaisesUnless
    <3> QED
      BY <2>2, <3>1 DEF Common, Handshake
  <2> QED
    BY <2>4, <2>5
<1>6. CASE Methods
  <2>1. PICK data \in Pieces :
          /\ Recv("methods", data)
          /\ GoOn("header", 4) \/ GoOn("version", 1) \/ End("noMethod")
    BY <1>6, Zenon DEF Methods
  <2>2. Common /\ req.pc = "methods"
    BY <1>1, <2>1
  <2>3. req.got # "success"
    BY <1>0, <2>2
  <2>4. Does
    BY <2>1, <2>3, GoesOn, Ends DEF Handshake
  <2> QED
    BY <2>2, <2>4 DEF Common, Handshake
<1>7. CASE AuthVersion
  <2>1. PICK data \in Pieces :
          Recv("version", data) /\ (End("failure") \/ End("nothing") \/ GoOn("ulen", 1))
    BY <1>7, Zenon DEF AuthVersion, RaisesUnless
  <2>2. Common /\ req.pc = "version"
    BY <1>1, <2>1
  <2>3. req.got # "success"
    BY <1>0, <2>2
  <2>4. Does
    BY <2>1, <2>3, GoesOn, Ends DEF Handshake
  <2> QED
    BY <2>2, <2>4 DEF Common, Handshake
<1>8. ASSUME NEW at \in {"ulen", "plen", "dlen"}, NEW next \in {"user", "password", "domain"},
             LengthOf(at, next)
      PROVE  Common /\ req.pc = at /\ Does
  <2>1. PICK data \in Pieces :
          Recv(at, data) /\ RaisesUnless(Whole(data), GoOn(next, data[1]))
    BY <1>8 DEF LengthOf
  <2>2. Common /\ req.pc = at
    BY <1>1, <2>1
  <2>3. req.got # "success" /\ req.need = 1
    BY <1>0, <2>2 DEF NeedsFit
  <2>4. CASE Whole(data)
    <3>1. data[1] \in Nat /\ GoOn(next, data[1])
      BY <1>2, <2>1, <2>3, <2>4 DEF RaisesUnless
    <3>2. Does
      BY <2>3, <3>1, GoesOn DEF Handshake
    <3> QED
      BY <2>2, <3>2
  <2>5. CASE ~ Whole(data)
    <3>1. Does
      BY <2>1, <2>5, Ends DEF RaisesUnless
    <3> QED
      BY <2>2, <3>1
  <2> QED
    BY <2>4, <2>5
<1>9. CASE Username
  <2>1. PICK data \in Pieces :
          /\ Recv("user", data)
          /\ RaisesUnless(Decode(data) # Raises, ReadText("plen", 1, Decode(data)))
    BY <1>9 DEF Username
  <2>2. Common /\ req.pc = "user"
    BY <1>1, <2>1
  <2>3. req.got # "success" /\ Decode(data) \in Str \cup {Raises}
    BY <1>0, <1>2, <2>2, DecodeTyped
  <2>4. Does
    <3> DEFINE t == Decode(data)
    <3>1. RaisesUnless(t # Raises, ReadText("plen", 1, t)) /\ t \in Str \cup {Raises}
      BY <2>1, <2>3
    <3> HIDE DEF t
    <3> QED
      BY <2>3, <3>1, ReadsTheText, Ends DEF Handshake, RaisesUnless
  <2> QED
    BY <2>2, <2>4 DEF Common, Handshake
<1>10. CASE CheckPassword
  <2>1. PICK data \in Pieces :
          Recv("password", data) /\ (End("failure") \/ End("denied") \/ GoOn("header", 4))
    BY <1>10, Zenon DEF CheckPassword, RaisesUnless
  <2>2. Common /\ req.pc = "password"
    BY <1>1, <2>1
  <2>3. req.got # "success"
    BY <1>0, <2>2
  <2>4. Does
    BY <2>1, <2>3, GoesOn, Ends DEF Handshake
  <2> QED
    BY <2>2, <2>4 DEF Common, Handshake
<1>11. CASE Header
  <2>1. PICK data \in Pieces :
          /\ Recv("header", data)
          /\ RaisesUnless(Whole(data),
               CASE data[2] = 1 /\ data[4] = 1 -> GoOn("v4", 1)
                 [] data[2] = 1 /\ data[4] = 4 -> GoOn("v6", 2)
                 [] data[2] = 1 /\ data[4] = 3 -> GoOn("dlen", 1)
                 [] data[2] = 3 -> Connect("udp", None, None)
                 [] OTHER -> End("nothing"))
    BY <1>11 DEF Header
  <2>2. Common /\ req.pc = "header"
    BY <1>1, <2>1
  <2>3. req.got # "success"
    BY <1>0, <2>2
  <2>4. \/ GoOn("v4", 1) \/ GoOn("v6", 2) \/ GoOn("dlen", 1) \/ Connect("udp", None, None)
        \/ End("nothing") \/ End("failure")
    BY <2>1 DEF RaisesUnless
  <2>5. Does
    BY <2>3, <2>4, GoesOn, ConnectIsSent, Ends DEF Handshake
  <2> QED
    BY <2>2, <2>5 DEF Common, Handshake
<1>12. ASSUME NEW at \in {"v4", "v6", "domain"}, NEW atyp \in {1, 3, 4}, Address(at, atyp)
       PROVE  Common /\ req.pc = at /\ Does
  <2>1. PICK data \in Pieces :
          /\ Recv(at, data)
          /\ RaisesUnless(HostText(atyp, data) # Raises, ReadText("port", 2, HostText(atyp, data)))
    BY <1>12 DEF Address
  <2>2. Common /\ req.pc = at
    BY <1>1, <2>1
  <2>3. req.got # "success" /\ HostText(atyp, data) \in Str \cup {Raises}
    BY <1>0, <1>2, <2>2, HostTextTyped
  <2>4. Does
    <3> DEFINE t == HostText(atyp, data)
    <3>1. RaisesUnless(t # Raises, ReadText("port", 2, t)) /\ t \in Str \cup {Raises}
      BY <2>1, <2>3
    <3> HIDE DEF t
    <3> QED
      BY <2>3, <3>1, ReadsTheText, Ends DEF Handshake, RaisesUnless
  <2> QED
    BY <2>2, <2>4
<1>13. CASE Port
  <2>1. PICK data \in Pieces :
          Recv("port", data) /\ RaisesUnless(Whole(data), Connect("tcp", req.text, Number(data)))
    BY <1>13 DEF Port
  <2>2. Common /\ req.pc = "port"
    BY <1>1, <2>1
  <2>3. req.text \in Str /\ req.need = 2
    BY <1>0, <2>2 DEF NeedsFit, ReqRecord
  <2>4. CASE Whole(data)
    <3>1. Number(data) \in Nat
      <4>1. Len(data) = 2 /\ data[1] \in Nat /\ data[2] \in Nat
        BY <1>2, <2>3, <2>4
      <4> QED
        BY <4>1, Halves DEF Number
    <3>2. Connect("tcp", req.text, Number(data))
      BY <2>1, <2>4 DEF RaisesUnless
    <3>3. Does
      BY <2>3, <3>1, <3>2, ConnectIsSent
    <3> QED
      BY <2>2, <3>3 DEF Common, Handshake
  <2>5. CASE ~ Whole(data)
    <3>1. Does
      BY <2>1, <2>5, Ends DEF RaisesUnless
    <3> QED
      BY <2>2, <3>1 DEF Common, Handshake
  <2> QED
    BY <2>4, <2>5
<1>14. \/ RefuseGreeting \/ RefuseRequest
       \/ Greeting \/ Methods \/ AuthVersion \/ Username \/ CheckPassword \/ Header \/ Port
       \/ LengthOf("ulen", "user") \/ LengthOf("plen", "password") \/ LengthOf("dlen", "domain")
       \/ Address("v4", 1) \/ Address("v6", 4) \/ Address("domain", 3)
  BY DEF ReadRequest
<1>15. \A at \in {"ulen", "plen", "dlen"} : \A next \in {"user", "password", "domain"} :
          LengthOf(at, next) => Common /\ at \in Handshake /\ req.pc = at /\ Does
  BY <1>8 DEF Handshake
<1>16. \A at \in {"v4", "v6", "domain"} : \A atyp \in {1, 3, 4} :
          Address(at, atyp) => Common /\ at \in Handshake /\ req.pc = at /\ Does
  BY <1>12 DEF Handshake
<1> HIDE DEF Does
<1>17. CASE \/ LengthOf("ulen", "user") \/ LengthOf("plen", "password")
            \/ LengthOf("dlen", "domain") \/ Address("v4", 1) \/ Address("v6", 4)
            \/ Address("domain", 3)
  <2>1. Common /\ req.pc \in Handshake /\ Does
    BY <1>15, <1>16, <1>17
  <2> QED
    BY <2>1 DEF Common, Does
<1> QED
  BY <1>3, <1>4, <1>5, <1>6, <1>7, <1>9, <1>10, <1>11, <1>13, <1>14, <1>17

(***************************************************************************)
(* The net side: it takes the Connect message, goes on with a proxy, or    *)
(* answers.                                                                *)
(***************************************************************************)
NoAnswerYet == NetPcs \ {"idle", "connected", "failed"}
Proceeds ==
    /\ UNCHANGED wireVars /\ net.pc \in NoAnswerYet /\ net'.pc \in NoAnswerYet
    /\ net'.pc \in Unconnected => net.pc \in {"dial", "method", "auth"} /\ net'.pc # "direct"
Answers ==
    /\ sent' \in ConnectResponseMessage /\ wire' = Pack(sent') /\ UNCHANGED heard
    /\ net.pc \in NoAnswerYet /\ net'.pc \in Ended
    /\ sent'.success => net'.pc = "connected"
Reaches ==
    \/ UNCHANGED reached
    \/ reached' = None
    \/ /\ net.pc = "direct" /\ heard.protocol # "udp"
       /\ net'.pc \notin Unconnected /\ reached' = Destination
    \/ /\ net.pc = "dial" /\ net'.pc \notin Unconnected
       /\ reached' \in Readings(Authority(heard.address, heard.port))
    \/ /\ net.pc \in {"method", "auth"} /\ net'.pc \notin Unconnected
       /\ reached' = [host |-> ProxyHost(UpstreamHost(heard.address)), port |-> heard.port]

(* The net side at its next point.                                         *)
LEMMA NetGoesTo ==
  ASSUME NEW pc \in NetPcs, NEW n \in Nat, RequestTyped, NetIs(pc, n)
  PROVE  net' \in NetRecord /\ net'.pc = pc /\ net'.need = n
<1>1. net \in NetRecord /\ net' = [net EXCEPT !.pc = pc, !.need = n]
  BY DEF RequestTyped, NetIs
<1> QED
  BY <1>1 DEF NetRecord

(* The net side waits for the proxy.                                       *)
LEMMA NetWaits ==
  ASSUME NEW pc \in NoAnswerYet, NEW n \in Nat, RequestTyped, Waits(pc, n),
         net.pc \in NoAnswerYet,
         pc \in Unconnected => net.pc \in {"dial", "method", "auth"} /\ pc # "direct"
  PROVE  /\ UNCHANGED <<programVars, req>> /\ net' \in NetRecord /\ Proceeds
         /\ net'.pc = pc /\ net'.need = n
<1>1. net' \in NetRecord /\ net'.pc = pc /\ net'.need = n
  BY NetGoesTo DEF Waits, NoAnswerYet
<1> QED
  BY <1>1 DEF Waits, Proceeds

(* The net side reports that it is connected.                              *)
LEMMA NetConnects ==
  ASSUME RequestTyped, Connected, net.pc \in NoAnswerYet
  PROVE  UNCHANGED <<programVars, req>> /\ net' \in NetRecord /\ Answers /\ net'.pc = "connected"
<1>1. net' \in NetRecord /\ net'.pc = "connected"
  BY NetGoesTo DEF Connected, NetPcs
<1>2. Success \in ConnectResponseMessage
  BY RequestAssumption DEF Success, ConnectResponseMessage
<1> QED
  BY <1>1, <1>2 DEF Connected, Answer, SendMessage, Answers, Ended

(* The net side reports that it failed.                                    *)
LEMMA NetGivesUp ==
  ASSUME RequestTyped, NetFails, net.pc \in NoAnswerYet
  PROVE  UNCHANGED <<programVars, req>> /\ net' \in NetRecord /\ Answers /\ net'.pc = "failed"
<1>1. net' \in NetRecord /\ net'.pc = "failed"
  BY NetGoesTo DEF NetFails, NetPcs
<1>2. PICK e \in Errors : Answer(Failure(e))
  BY DEF NetFails
<1>3. Failure(e) \in ConnectResponseMessage /\ ~ Failure(e).success
  BY RequestAssumption DEF Failure, ConnectResponseMessage, Maybe
<1> QED
  BY <1>1, <1>2, <1>3 DEF Answer, SendMessage, Answers, Ended

(* A piece of what the proxy has sent.                                     *)
LEMMA ChunkTyped ==
  ASSUME proxy \in Str, NEW data \in Chunks
  PROVE  /\ data \in Str /\ Len(data) \in Nat /\ Rest(data) \in Str
         /\ \A i \in 1..Len(data) : data[i] \in Nat
<1>1. PICK k \in 0..Len(proxy) : data = SubSeq(proxy, 1, k)
  BY DEF Chunks
<1>2. Len(proxy) \in Nat
  BY StrConcat
<1>3. data \in Str
  BY <1>1, <1>2, SubSeqTyped DEF Str
<1>4. Len(data) \in Nat
  BY <1>3, StrConcat
<1>5. \A i \in 1..Len(data) : data[i] \in Nat
  BY <1>3, ElementOfSeq DEF Str
<1>6. Rest(data) \in Str
  BY <1>4, DropTyped DEF Str, Rest
<1> QED
  BY <1>3, <1>4, <1>5, <1>6

(* One byte at least, unless the proxy has closed.                         *)
LEMMA ChunkNotEmpty ==
  ASSUME proxy \in Str, NEW data \in Chunks, data # <<>>
  PROVE  Len(data) >= 1
<1>1. data \in Str /\ Len(data) \in Nat
  BY ChunkTyped
<1> QED
  BY <1>1, StrEmpty

(* The reply of the upstream proxy.                                        *)
LEMMA ProxyReplyTyped ==
  ASSUME NEW ok \in BOOLEAN, NEW atyp \in {1, 3, 4}
  PROVE  ProxyReply(ok, atyp) \in Str
<1> DEFINE head == <<5, IF ok THEN 0 ELSE 5, 0, atyp>>
           host == HostField(atyp, IF atyp = 4 THEN <<0, 0>> ELSE <<1>>)
           data == IF ok THEN TargetData ELSE <<>>
<1>1. \A i, j, k, l \in Nat : <<i, j, k, l>> \in Str
  BY DEF Str
<1>2. head \in Str
  BY <1>1
<1>3. <<0, 0>> \in Str /\ <<1>> \in Str /\ Len(<<1>>) = 1
  BY DEF Str
<1>4. host \in {<<0, 0>>, <<1>>, <<1>> \o <<1>>}
  BY DEF HostField, Prefixed
<1>5. data \in Str
  BY RequestAssumption, StrEmpty
<1>6. ProxyReply(ok, atyp) = ((head \o host) \o <<0, 0>>) \o data
  BY DEF ProxyReply
<1> HIDE DEF head, host, data
<1>7. host \in Str
  BY <1>3, <1>4, StrConcat
<1>8. head \o host \in Str
  BY <1>2, <1>7, StrConcat
<1>9. (head \o host) \o <<0, 0>> \in Str
  BY <1>3, <1>8, StrConcat
<1> QED
  BY <1>5, <1>6, <1>9, StrConcat

(* What every step of the net side leaves alone, and what it does.         *)
LEMMA NetStepDoes ==
  ASSUME RequestTyped, NetStep
  PROVE  /\ UNCHANGED <<programVars, req>> /\ net' \in NetRecord /\ proxy' \in Str
         /\ cut' \in BOOLEAN /\ (cut => cut') /\ Reaches
         /\ ConnectArrives \/ Proceeds \/ Answers
<1> DEFINE Does == /\ UNCHANGED <<programVars, req>> /\ net' \in NetRecord
                   /\ Proceeds \/ Answers
           Keeps == proxy' \in Str /\ cut' \in BOOLEAN /\ (cut => cut') /\ Reaches
<1>0. proxy \in Str /\ cut \in BOOLEAN /\ net \in NetRecord /\ TargetData \in Str
  BY RequestAssumption DEF RequestTyped
<1>a. \A i, j \in Nat : <<i, j>> \in Str
  BY DEF Str
<1>1. CASE ConnectArrives
  <2>1. PICK pc \in {"failed", "dial", "direct"} : NetIs(pc, 0)
    BY <1>1 DEF ConnectArrives
  <2>2. net' \in NetRecord
    BY <2>1, NetGoesTo DEF NetPcs
  <2> QED
    BY <1>0, <1>1, <2>2 DEF ConnectArrives, Reaches
<1>2. CASE DirectConnect
  <2>1. net.pc = "direct" /\ UNCHANGED cut /\ net.pc \in NoAnswerYet
    BY <1>2 DEF DirectConnect, NoAnswerYet, NetPcs
  <2>2. CASE Connected
    <3>1. Does /\ net'.pc = "connected"
      BY <2>1, <2>2, NetConnects
    <3>2. CASE UNCHANGED <<proxy, reached>>
      BY <1>0, <2>1, <3>1, <3>2 DEF Reaches
    <3>3. CASE heard.protocol # "udp" /\ reached' = Destination /\ proxy' = TargetData
      BY <1>0, <2>1, <3>1, <3>3 DEF Reaches, Unconnected
    <3> QED
      BY <1>2, <2>2, <3>1, <3>2, <3>3 DEF DirectConnect
  <2>3. CASE NetFails /\ UNCHANGED <<proxy, reached>>
    <3>1. Does
      BY <2>1, <2>3, NetGivesUp
    <3> QED
      BY <1>0, <2>1, <2>3, <3>1 DEF Reaches
  <2> QED
    BY <1>2, <2>2, <2>3 DEF DirectConnect
<1>3. CASE DialProxy
  <2>1. net.pc = "dial" /\ UNCHANGED cut /\ net.pc \in NoAnswerYet
    BY <1>3 DEF DialProxy, NoAnswerYet, NetPcs
  <2>2. CASE NetFails /\ UNCHANGED <<proxy, reached>>
    <3>1. Does
      BY <2>1, <2>2, NetGivesUp
    <3> QED
      BY <1>0, <2>1, <2>2, <3>1 DEF Reaches
  <2>3. CASE DialSocks5
    <3>1. Does
      BY <2>1, <2>3, NetWaits DEF DialSocks5, NoAnswerYet, NetPcs, Unconnected
    <3>2. proxy' \in Str
      BY <1>a, <2>3 DEF DialSocks5
    <3> QED
      BY <1>0, <2>1, <2>3, <3>1, <3>2 DEF Reaches, DialSocks5
  <2>4. CASE DialHttp
    <3>1. Does /\ net'.pc = "http"
      BY <2>1, <2>4, NetWaits DEF DialHttp, NoAnswerYet, NetPcs, Unconnected
    <3>2. <<200, HttpBlank>> \in Str /\ <<403, HttpBlank>> \in Str
      BY <1>a DEF HttpBlank
    <3>3. <<200, HttpBlank>> \o TargetData \in Str
      BY <1>0, <3>2, StrConcat
    <3>4. proxy' \in Str
      BY <2>4, <3>2, <3>3 DEF DialHttp
    <3>5. UNCHANGED reached \/ reached' \in Readings(Authority(heard.address, heard.port))
      BY <2>4 DEF DialHttp
    <3>6. Reaches
      BY <2>1, <3>1, <3>5 DEF Reaches, Unconnected
    <3> QED
      BY <1>0, <2>1, <3>1, <3>4, <3>6
  <2> QED
    BY <1>3, <2>2, <2>3, <2>4 DEF DialProxy
<1>4. ASSUME NEW at, NEW data \in Chunks, NetRecv(at, data)
      PROVE  net.pc = at /\ cut' \in BOOLEAN /\ (cut => cut') /\ Rest(data) \in Str
             /\ (NetWhole(data) <=> Len(data) = net.need)
             /\ data \in Str /\ \A i \in 1..Len(data) : data[i] \in Nat
  <2>1. net.pc = at /\ cut' = (cut \/ Len(data) < net.need)
    BY <1>4 DEF NetRecv
  <2>2. cut' \in BOOLEAN /\ (cut => cut')
    BY <1>0, <2>1, Zenon
  <2> QED
    BY <1>0, <2>1, <2>2, ChunkTyped DEF NetWhole
<1>5. ASSUME NEW data, Rest(data) \in Str, SendConnectRequest(data), net.pc \in {"method", "auth"}
      PROVE  Does /\ proxy' \in Str /\ Reaches
  <2>1. net.pc \in NoAnswerYet /\ "reply" \in NoAnswerYet /\ "reply" \notin Unconnected
    BY <1>5 DEF NoAnswerYet, NetPcs, Unconnected
  <2>2. Does /\ net'.pc = "reply"
    BY <1>5, <2>1, NetWaits DEF SendConnectRequest
  <2>3. proxy' \in Str
    <3>1. \/ \E atyp \in {1, 3, 4} : proxy' = Rest(data) \o ProxyReply(TRUE, atyp)
          \/ proxy' = Rest(data) \o ProxyReply(FALSE, 1)
      BY <1>5 DEF SendConnectRequest
    <3> QED
      BY <1>5, <3>1, ProxyReplyTyped, StrConcat
  <2>4. Reaches
    BY <1>5, <2>1, <2>2 DEF SendConnectRequest, Reaches
  <2> QED
    BY <2>2, <2>3, <2>4
<1>6. CASE MethodChosen
  <2>1. PICK data \in Chunks :
          /\ NetRecv("method", data)
          /\ \/ /\ Waits("auth", 2)
                /\ proxy' \in {Rest(data) \o <<1, 0>>, Rest(data) \o <<1, 1>>}
                /\ UNCHANGED reached
             \/ SendConnectRequest(data)
             \/ NetFails /\ proxy' = Rest(data) /\ UNCHANGED reached
    BY <1>6 DEF MethodChosen
  <2>2. /\ net.pc = "method" /\ cut' \in BOOLEAN /\ (cut => cut') /\ Rest(data) \in Str
        /\ net.pc \in NoAnswerYet
    BY <1>4, <2>1 DEF NoAnswerYet, NetPcs
  <2>3. CASE /\ Waits("auth", 2)
             /\ proxy' \in {Rest(data) \o <<1, 0>>, Rest(data) \o <<1, 1>>}
             /\ UNCHANGED reached
    <3>1. Does
      BY <2>2, <2>3, NetWaits DEF NoAnswerYet, NetPcs, Unconnected
    <3>2. proxy' \in Str
      BY <1>a, <2>2, <2>3, StrConcat
    <3> QED
      BY <2>2, <2>3, <3>1, <3>2 DEF Reaches
  <2>4. CASE SendConnectRequest(data)
    BY <1>5, <2>2, <2>4
  <2>5. CASE NetFails /\ proxy' = Rest(data) /\ UNCHANGED reached
    BY <2>2, <2>5, NetGivesUp DEF Reaches
  <2> QED
    BY <2>1, <2>3, <2>4, <2>5
<1>7. CASE Authenticated
  <2>1. PICK data \in Chunks :
          /\ NetRecv("auth", data)
          /\ \/ SendConnectRequest(data)
             \/ NetFails /\ proxy' = Rest(data) /\ UNCHANGED reached
    BY <1>7 DEF Authenticated
  <2>2. /\ net.pc = "auth" /\ cut' \in BOOLEAN /\ (cut => cut') /\ Rest(data) \in Str
        /\ net.pc \in NoAnswerYet
    BY <1>4, <2>1 DEF NoAnswerYet, NetPcs
  <2>3. CASE SendConnectRequest(data)
    BY <1>5, <2>2, <2>3
  <2>4. CASE NetFails /\ proxy' = Rest(data) /\ UNCHANGED reached
    BY <2>2, <2>4, NetGivesUp DEF Reaches
  <2> QED
    BY <2>1, <2>3, <2>4
<1>8. CASE ProxyReplies
  <2>1. PICK data \in Chunks :
          /\ NetRecv("reply", data)
          /\ \/ /\ \E pc \in {"blen", "skip"} : \E n \in {1, 3, 4} : Waits(pc, n)
                /\ proxy' = Rest(data) /\ UNCHANGED reached
             \/ NetFails /\ Disconnected
    BY <1>8 DEF ProxyReplies
  <2>2. /\ net.pc = "reply" /\ cut' \in BOOLEAN /\ (cut => cut') /\ Rest(data) \in Str
        /\ net.pc \in NoAnswerYet
    BY <1>4, <2>1 DEF NoAnswerYet, NetPcs
  <2>3. CASE /\ \E pc \in {"blen", "skip"} : \E n \in {1, 3, 4} : Waits(pc, n)
             /\ proxy' = Rest(data) /\ UNCHANGED reached
    <3>1. PICK pc \in {"blen", "skip"}, n \in {1, 3, 4} : Waits(pc, n)
      BY <2>3
    <3>2. pc \in NoAnswerYet /\ pc \notin Unconnected /\ n \in Nat
      BY DEF NoAnswerYet, NetPcs, Unconnected
    <3>3. Does
      BY <2>2, <3>1, <3>2, NetWaits
    <3> QED
      BY <2>2, <2>3, <3>3 DEF Reaches
  <2>4. CASE NetFails /\ Disconnected
    BY <2>2, <2>4, NetGivesUp, StrEmpty DEF Reaches, Disconnected
  <2> QED
    BY <2>1, <2>3, <2>4
<1>9. CASE BindLength
  <2>1. PICK data \in Chunks :
          /\ NetRecv("blen", data)
          /\ \/ NetFails /\ Disconnected
             \/ /\ data # <<>> /\ Waits("skip", data[1] + 2)
                /\ proxy' = Rest(data) /\ UNCHANGED reached
    BY <1>9 DEF BindLength
  <2>2. /\ net.pc = "blen" /\ cut' \in BOOLEAN /\ (cut => cut') /\ Rest(data) \in Str
        /\ net.pc \in NoAnswerYet
    BY <1>4, <2>1 DEF NoAnswerYet, NetPcs
  <2>3. CASE NetFails /\ Disconnected
    BY <2>2, <2>3, NetGivesUp, StrEmpty DEF Reaches, Disconnected
  <2>4. CASE data # <<>> /\ Waits("skip", data[1] + 2) /\ proxy' = Rest(data) /\ UNCHANGED reached
    <3>1. data[1] \in Nat
      <4>1. Len(data) >= 1
        BY <1>0, <2>4, ChunkNotEmpty
      <4> QED
        BY <1>4, <2>1, <4>1, StrConcat
    <3>2. Does
      BY <2>2, <2>4, <3>1, NetWaits DEF NoAnswerYet, NetPcs, Unconnected
    <3> QED
      BY <2>2, <2>4, <3>2 DEF Reaches
  <2> QED
    BY <2>1, <2>3, <2>4
<1>10. CASE SkipBind
  <2>1. PICK data \in Chunks :
          NetRecv("skip", data) /\ Connected /\ proxy' = Rest(data) /\ UNCHANGED reached
    BY <1>10 DEF SkipBind
  <2>2. /\ net.pc = "skip" /\ cut' \in BOOLEAN /\ (cut => cut') /\ Rest(data) \in Str
        /\ net.pc \in NoAnswerYet
    BY <1>4, <2>1 DEF NoAnswerYet, NetPcs
  <2> QED
    BY <2>1, <2>2, NetConnects DEF Reaches
<1>11. CASE HttpReply
  <2>1. PICK data \in Chunks :
          /\ net.pc = "http" /\ UNCHANGED cut
          /\ \/ /\ net' = [net EXCEPT !.head = net.head \o data] /\ proxy' = Rest(data)
                /\ UNCHANGED <<programVars, req, wireVars, reached>>
             \/ Connected /\ proxy' = Rest(data) /\ UNCHANGED reached
             \/ NetFails /\ Disconnected
    BY <1>11 DEF HttpReply
  <2>2. Rest(data) \in Str /\ net.pc \in NoAnswerYet /\ data \in Str
    BY <1>0, <2>1, ChunkTyped DEF NoAnswerYet, NetPcs
  <2>3. CASE /\ net' = [net EXCEPT !.head = net.head \o data] /\ proxy' = Rest(data)
             /\ UNCHANGED <<programVars, req, wireVars, reached>>
    <3>1. net.head \o data \in Str
      BY <1>0, <2>2, StrConcat DEF NetRecord
    <3>2. net' \in NetRecord /\ net'.pc = "http"
      BY <1>0, <2>1, <2>3, <3>1 DEF NetRecord
    <3>3. Proceeds
      BY <2>1, <2>2, <2>3, <3>2 DEF Proceeds, Unconnected
    <3> QED
      BY <1>0, <2>1, <2>2, <2>3, <3>2, <3>3 DEF Reaches
  <2>4. CASE Connected /\ proxy' = Rest(data) /\ UNCHANGED reached
    BY <1>0, <2>1, <2>2, <2>4, NetConnects DEF Reaches
  <2>5. CASE NetFails /\ Disconnected
    BY <1>0, <2>1, <2>2, <2>5, NetGivesUp, StrEmpty DEF Reaches, Disconnected
  <2> QED
    BY <2>1, <2>3, <2>4, <2>5
<1>12. CASE ProxyCloses
  <2>1. PICK k \in 0..(Len(proxy) - 1) : proxy' = SubSeq(proxy, 1, k)
    BY <1>12 DEF ProxyCloses
  <2>2. proxy' \in Str
    <3>1. Len(proxy) \in Nat
      BY <1>0, StrConcat
    <3> QED
      BY <1>0, <2>1, <3>1, SubSeqTyped DEF Str
  <2>3. /\ UNCHANGED <<programVars, req, wireVars, net, reached>> /\ cut' = TRUE
        /\ net.pc \in {"method", "auth", "reply", "blen", "skip", "http"}
    BY <1>12 DEF ProxyCloses
  <2>4. Proceeds
    BY <2>3 DEF Proceeds, NoAnswerYet, NetPcs, Unconnected
  <2> QED
    BY <1>0, <2>2, <2>3, <2>4 DEF Reaches
<1> QED
  BY <1>1, <1>2, <1>3, <1>6, <1>7, <1>8, <1>9, <1>10, <1>11, <1>12 DEF NetStep

(***************************************************************************)
(* The message under way.                                                  *)
(***************************************************************************)
LEMMA MessageKinds ==
  /\ \A m \in ConnectMessage : m \in Message /\ m.type = "connect"
  /\ \A m \in ConnectResponseMessage : m \in Message /\ m.type = "connect_response"
  /\ \A m \in Message : /\ m # None
                        /\ m.type = "connect" => m \in ConnectMessage
                        /\ m.type = "connect_response" => m \in ConnectResponseMessage
<1>1. \A m \in ConnectMessage : m \in Message /\ m.type = "connect"
  BY DEF Message, ConnectMessage
<1>2. \A m \in ConnectResponseMessage : m \in Message /\ m.type = "connect_response"
  BY DEF Message, ConnectResponseMessage
<1>3. \A m \in Message : m # None
  BY CodecAssumption
<1>4. ASSUME NEW m \in Message, m.type = "connect" PROVE m \in ConnectMessage
  BY <1>4 DEF Message, AuthMessage, AuthResponseMessage, ConnectResponseMessage, DataMessage,
              DisconnectMessage, ConnectorMessage, ConnectorResponseMessage, DocumentMessage
<1>5. ASSUME NEW m \in Message, m.type = "connect_response" PROVE m \in ConnectResponseMessage
  BY <1>5 DEF Message, AuthMessage, AuthResponseMessage, ConnectMessage, DataMessage,
              DisconnectMessage, ConnectorMessage, ConnectorResponseMessage, DocumentMessage
<1> QED
  BY <1>1, <1>2, <1>3, <1>4, <1>5

(* A message on the wire is the one that was sent, packed.                 *)
LEMMA WireIsPacked ==
  ASSUME WireInv, wire # None, wire # Raises
  PROVE  /\ sent # None /\ sent \in Message /\ wire = Pack(sent) /\ Pack(sent) # Raises
         /\ wire.type = sent.type
<1>1. sent # None /\ sent \in Message /\ wire = Pack(sent) /\ Pack(sent) # Raises
  BY DEF WireInv
<1>2. Pack(sent) = [type |-> sent.type, payload |-> Payload(sent)]
  BY <1>1, PackKinds
<1> QED
  BY <1>1, <1>2

(* A failure is never heard as success.                                    *)
LEMMA FailureIsHeard ==
  ASSUME NEW m \in ConnectResponseMessage, ~ m.success, Pack(m) # Raises
  PROVE  Parse(Pack(m)) = Raises \/ ~ Parse(Pack(m)).success
<1>1. m.type = "connect_response" /\ m \in Message /\ m.id \in Uuid /\ m.error \in Maybe(Str)
  BY MessageKinds DEF ConnectResponseMessage, Maybe
<1> DEFINE v == Flag(FALSE) \o m.id
           q == IF m.error = None THEN <<>> ELSE Text(m.error)
           b == [type |-> m.type, payload |-> Payload(m)]
<1>2. m.id \in Str /\ Len(m.id) = IdLen
  BY <1>1, UuidIsStr
<1>3. v \in Str /\ Len(v) = 1 + IdLen /\ (v[1] # 0) = FALSE
  BY <1>2, FlagAndMore
<1>4. q \in Str
  <2>1. m.error \in Str => Text(m.error) \in Str
    BY TextTyped
  <2> QED
    BY <1>1, <2>1, StrEmpty DEF Maybe
<1>5. Payload(m) = v \o q
  <2>1. Flag(m.success) = Flag(FALSE)
    BY DEF Flag
  <2> QED
    BY <1>1, <2>1 DEF Payload
<1>6. Pack(m) = b /\ Parse(b) = ParseConnectResponse(Payload(m))
  BY <1>1, PackKinds DEF Parse
<1> HIDE DEF v, q
<1>7. Reads(Fixed(Payload(m), 1 + IdLen), v, q)
  BY <1>3, <1>4, <1>5, FixedField
<1> DEFINE f == IF v[1] = 0 THEN TextField(q) ELSE Absent(q)
<1>8. \/ ParseConnectResponse(Payload(m)) = Raises
      \/ ParseConnectResponse(Payload(m))
           = [type |-> "connect_response", success |-> v[1] # 0, id |-> Tail(v), error |-> f.value]
  <2>1. CASE f = Raises
    BY <1>7, <2>1, Zenon DEF ParseConnectResponse, Then, Reads
  <2>2. CASE f # Raises
    BY <1>7, <2>2, Zenon DEF ParseConnectResponse, Then, Reads
  <2> QED
    BY <2>1, <2>2
<1> HIDE DEF f, b
<1>9. CASE ParseConnectResponse(Payload(m)) = Raises
  BY <1>6, <1>9
<1>10. CASE ParseConnectResponse(Payload(m))
           = [type |-> "connect_response", success |-> v[1] # 0, id |-> Tail(v), error |-> f.value]
  <2>1. ParseConnectResponse(Payload(m))
          = [type |-> "connect_response", success |-> FALSE, id |-> Tail(v), error |-> f.value]
    BY <1>3, <1>10, Zenon
  <2>2. ~ ParseConnectResponse(Payload(m)).success
    BY <2>1
  <2> QED
    BY <1>6, <2>2
<1> QED
  BY <1>8, <1>9, <1>10

(***************************************************************************)
(* The steps of RequestNext, by what they do.                              *)
(***************************************************************************)
LEMMA OtherStepDoes ==
  ASSUME RequestTyped, TurnsInv, WireInv,
         ResponseArrives \/ GiveUp \/ ProgramLeaves \/ OtherMessage \/ OtherArrives
           \/ UNCHANGED requestVars
  PROVE  /\ UNCHANGED <<config, ask, input, short, netVars>>
         /\ left' \in BOOLEAN /\ (ask = None => left' = left)
         /\ req' \in ReqRecord /\ (UNCHANGED req \/ req'.pc = "done")
<1>0. req \in ReqRecord /\ left \in BOOLEAN
  BY DEF RequestTyped
<1>1. CASE ResponseArrives
  BY <1>0, <1>1 DEF ResponseArrives, programVars, ReqRecord
<1>2. CASE GiveUp
  BY <1>0, <1>2 DEF GiveUp, End, programVars, ReqRecord
<1>3. CASE ProgramLeaves
  BY <1>0, <1>3 DEF ProgramLeaves
<1>4. CASE OtherMessage
  BY <1>0, <1>4 DEF OtherMessage, programVars, ReqRecord
<1>5. CASE OtherArrives
  BY <1>0, <1>5 DEF OtherArrives, programVars
<1>6. CASE UNCHANGED requestVars
  BY <1>0, <1>6 DEF requestVars, programVars
<1> QED
  BY <1>1, <1>2, <1>3, <1>4, <1>5, <1>6

OtherStep ==
    ResponseArrives \/ GiveUp \/ ProgramLeaves \/ OtherMessage \/ OtherArrives
      \/ UNCHANGED requestVars

(* The types, and the lengths that are asked for.                          *)
LEMMA TypedNext ==
  ASSUME RequestInv, [RequestNext]_requestVars
  PROVE  RequestTyped' /\ NeedsFit'
<1>0. RequestTyped /\ NeedsFit /\ TurnsInv /\ WireInv
  BY DEF RequestInv
<1>1. CASE ReadRequest
  <2>1. /\ UNCHANGED <<config, ask, left, netVars>>
        /\ input' \in Str /\ short' \in BOOLEAN /\ (ReadsOn \/ SendsConnect)
    BY <1>0, <1>1, ReadStep
  <2>2. CASE ReadsOn
    BY <1>0, <2>1, <2>2 DEF RequestTyped, ReadsOn, netVars
  <2>3. CASE SendsConnect
    BY <1>0, <2>1, <2>3 DEF RequestTyped, SendsConnect, netVars, ReqRecord, NeedsFit
  <2> QED
    BY <2>1, <2>2, <2>3
<1>2. CASE NetStep
  BY <1>0, <1>2, NetStepDoes DEF RequestTyped, NeedsFit, programVars
<1>3. CASE OtherStep
  <2>1. /\ UNCHANGED <<config, ask, input, short, netVars>>
        /\ left' \in BOOLEAN /\ req' \in ReqRecord /\ (UNCHANGED req \/ req'.pc = "done")
    BY <1>0, <1>3, OtherStepDoes DEF OtherStep
  <2> QED
    BY <1>0, <2>1 DEF RequestTyped, NeedsFit, netVars
<1> QED
  BY <1>1, <1>2, <1>3 DEF RequestNext, OtherStep

(* What is on the wire, and what is heard.                                 *)
LEMMA WireNext ==
  ASSUME RequestInv, [RequestNext]_requestVars
  PROVE  WireInv'
<1>0. RequestTyped /\ NeedsFit /\ TurnsInv /\ WireInv
  BY DEF RequestInv
<1>1. ASSUME sent' \in Message, wire' = Pack(sent') PROVE WireInv'
  BY <1>1, MessageKinds DEF WireInv
<1>2. ASSUME UNCHANGED wireVars PROVE WireInv'
  BY <1>0, <1>2 DEF WireInv, wireVars
<1>3. ASSUME wire # None, wire # Raises, UNCHANGED sent, heard' = Parse(wire), wire' = None
      PROVE  WireInv'
  BY <1>0, <1>3, WireIsPacked DEF WireInv
<1>4. CASE ReadRequest
  <2>1. ReadsOn \/ SendsConnect
    BY <1>0, <1>4, ReadStep
  <2> QED
    BY <1>1, <1>2, <2>1, MessageKinds DEF ReadsOn, SendsConnect
<1>5. CASE NetStep
  <2>1. ConnectArrives \/ Proceeds \/ Answers
    BY <1>0, <1>5, NetStepDoes
  <2> QED
    BY <1>1, <1>2, <1>3, <2>1, MessageKinds DEF ConnectArrives, Proceeds, Answers
<1>6. CASE ResponseArrives
  BY <1>3, <1>6 DEF ResponseArrives
<1>7. CASE GiveUp \/ ProgramLeaves \/ UNCHANGED requestVars
  BY <1>2, <1>7 DEF GiveUp, End, ProgramLeaves, requestVars
<1>8. CASE OtherMessage
  BY <1>1, <1>8, RequestAssumption DEF OtherMessage, SendMessage
<1>9. CASE OtherArrives
  BY <1>3, <1>9 DEF OtherArrives
<1> QED
  BY <1>4, <1>5, <1>6, <1>7, <1>8, <1>9 DEF RequestNext

(***************************************************************************)
(* The turns.                                                              *)
(***************************************************************************)
LEMMA TurnsNext ==
  ASSUME RequestInv, [RequestNext]_requestVars
  PROVE  TurnsInv'
<1>0. RequestTyped /\ NeedsFit /\ TurnsInv /\ WireInv
  BY DEF RequestInv
<1>1. CASE ReadRequest
  <2>1. /\ UNCHANGED <<config, ask, left, netVars>> /\ ask # None
        /\ req.pc \in Handshake \cup Refusal /\ (ReadsOn \/ SendsConnect)
    BY <1>0, <1>1, ReadStep
  <2>2. sent = None /\ net.pc = "idle" /\ wire = None
    BY <1>0, <2>1 DEF TurnsInv, WireInv
  <2>3. net' = net /\ reached' = reached /\ ask' = ask
    BY <2>1 DEF netVars
  <2>4. CASE ReadsOn
    BY <1>0, <2>1, <2>2, <2>3, <2>4 DEF TurnsInv, SentIs, ReadsOn, wireVars
  <2>5. CASE SendsConnect
    <3>1. sent' # None /\ sent'.type = "connect" /\ req'.pc = "waiting" /\ req'.got = req.got
      BY <1>0, <2>5, MessageKinds DEF SendsConnect, RequestTyped, ReqRecord
    <3>2. req.got # "success"
      BY <1>0, <2>2 DEF TurnsInv, SentIs
    <3> QED
      BY <1>0, <2>1, <2>2, <2>3, <3>1, <3>2 DEF TurnsInv, SentIs, Handshake, Refusal
  <2> QED
    BY <2>1, <2>4, <2>5
<1>2. CASE ConnectArrives
  <2>1. /\ UNCHANGED <<sent, ask, input, left, req, reached>> /\ wire # None /\ wire # Raises
        /\ wire.type = "connect" /\ wire' = None
    BY <1>2, NetStepDoes DEF ConnectArrives, programVars
  <2>2. sent # None /\ sent.type = "connect"
    BY <1>0, <2>1, WireIsPacked
  <2>3. ask # None /\ net.pc = "idle" /\ reached = None
    BY <1>0, <2>1, <2>2 DEF TurnsInv, SentIs, Unconnected
  <2> QED
    BY <1>0, <2>1, <2>2, <2>3 DEF TurnsInv, SentIs
<1>3. CASE NetStep /\ Proceeds
  <2>1. UNCHANGED <<programVars, req, wireVars>> /\ Reaches /\ Proceeds
    BY <1>0, <1>3, NetStepDoes DEF Proceeds
  <2>2. net.pc \notin {"idle", "connected", "failed"} /\ net'.pc \notin {"idle", "connected", "failed"}
    BY <2>1 DEF Proceeds, NoAnswerYet
  <2>3. net'.pc \in Unconnected => reached' = None
    <3>1. net'.pc \in Unconnected => net.pc \in Unconnected
      BY <2>1 DEF Proceeds, Unconnected
    <3>2. net'.pc \in Unconnected => UNCHANGED reached \/ reached' = None
      BY <2>1 DEF Reaches
    <3> QED
      BY <1>0, <3>1, <3>2 DEF TurnsInv
  <2>4. sent # None /\ ask # None /\ ~ SentIs("connect_response")
        /\ (SentIs("connect") => wire = None) /\ req.got # "success"
    BY <1>0, <2>2 DEF TurnsInv, Ended
  <2> QED
    BY <1>0, <2>1, <2>2, <2>3, <2>4 DEF TurnsInv, SentIs, wireVars, programVars
<1>4. CASE NetStep /\ Answers
  <2>1. UNCHANGED <<programVars, req>> /\ Answers
    BY <1>0, <1>4, NetStepDoes
  <2>2. /\ net.pc \notin {"idle", "connected", "failed"} /\ net'.pc \in {"connected", "failed"}
        /\ sent' # None /\ sent'.type = "connect_response"
        /\ (sent'.success => net'.pc = "connected")
    BY <2>1, MessageKinds DEF Answers, NoAnswerYet, Ended
  <2>3. sent # None /\ ask # None /\ req.got # "success"
    BY <1>0, <2>2 DEF TurnsInv, Ended, SentIs
  <2> QED
    BY <1>0, <2>1, <2>2, <2>3 DEF TurnsInv, SentIs, programVars, Ended, Unconnected
<1>5. CASE ResponseArrives
  <2>1. /\ req.pc = "waiting" /\ wire # None /\ wire # Raises /\ wire.type = "connect_response"
        /\ wire' = None /\ UNCHANGED <<sent, ask, net, reached>>
        /\ req'.pc = "done"
        /\ req'.got = "success" => Parse(wire) # Raises /\ Parse(wire).success
    BY <1>0, <1>5 DEF ResponseArrives, programVars, netVars, RequestTyped, ReqRecord
  <2>2. sent # None /\ sent \in ConnectResponseMessage /\ sent.type = "connect_response"
        /\ wire = Pack(sent) /\ Pack(sent) # Raises
    BY <1>0, <2>1, WireIsPacked, MessageKinds
  <2>3. sent.success \in BOOLEAN
    BY <2>2 DEF ConnectResponseMessage
  <2>4. req'.got = "success" => sent.success
    BY <2>1, <2>2, <2>3, FailureIsHeard
  <2>5. ask # None
    BY <1>0, <2>1 DEF TurnsInv
  <2> QED
    BY <1>0, <2>1, <2>2, <2>4, <2>5 DEF TurnsInv, SentIs, Handshake, Refusal
<1>6. CASE GiveUp
  <2>1. req.pc = "waiting" /\ req'.pc = "done" /\ req'.got = "unreachable"
        /\ UNCHANGED <<wireVars, ask, net, reached>>
    BY <1>0, <1>6 DEF GiveUp, End, programVars, netVars, RequestTyped, ReqRecord
  <2>2. ask # None
    BY <1>0, <2>1 DEF TurnsInv
  <2> QED
    BY <1>0, <2>1, <2>2 DEF TurnsInv, SentIs, Handshake, Refusal, wireVars
<1>7. CASE ProgramLeaves
  BY <1>0, <1>7 DEF ProgramLeaves, TurnsInv, SentIs, wireVars, netVars
<1>8. CASE OtherMessage
  <2>1. /\ ask = None /\ req.pc # "done" /\ sent' \in Others /\ req'.pc = "done"
        /\ req'.got = req.got /\ req'.need = req.need /\ UNCHANGED <<programVars, net, reached>>
    BY <1>0, <1>8 DEF OtherMessage, SendMessage, netVars, RequestTyped, ReqRecord
  <2>2. sent' # None /\ sent'.type \notin {"connect", "connect_response"}
    BY <2>1, RequestAssumption, MessageKinds
  <2> QED
    BY <1>0, <2>1, <2>2 DEF TurnsInv, SentIs, programVars, Handshake, Refusal
<1>9. CASE OtherArrives
  <2>1. /\ wire # None /\ wire # Raises /\ wire.type \notin {"connect", "connect_response"}
        /\ wire' = None /\ UNCHANGED <<programVars, req, sent, net, reached>>
    BY <1>9 DEF OtherArrives, netVars
  <2>2. sent # None /\ sent.type \notin {"connect", "connect_response"}
    BY <1>0, <2>1, WireIsPacked
  <2> QED
    BY <1>0, <2>1, <2>2 DEF TurnsInv, SentIs, programVars
<1>10. CASE UNCHANGED requestVars
  BY <1>0, <1>10 DEF TurnsInv, SentIs, requestVars, programVars, wireVars, netVars
<1>11. NetStep => ConnectArrives \/ Proceeds \/ Answers
  BY <1>0, NetStepDoes
<1> QED
  BY <1>1, <1>2, <1>3, <1>4, <1>5, <1>6, <1>7, <1>8, <1>9, <1>10, <1>11 DEF RequestNext

(***************************************************************************)
(* The bytes of the program.                                               *)
(***************************************************************************)
LEMMA AskTyped ==
  ASSUME NEW a \in Asks
  PROVE  /\ a.methods \in Str /\ a.user \in Str /\ a.password \in Str /\ a.host \in Str
         /\ a.cmd \in Nat /\ a.atyp \in Nat /\ a.port \in Nat /\ HostFits(a) /\ a # None
<1>1. a \in Ask /\ HostFits(a) /\ a # None
  BY RequestAssumption
<1>2. /\ a.methods \in Seq(Byte) /\ a.user \in Seq(Byte) /\ a.password \in Seq(Byte)
      /\ a.host \in Seq(Byte) /\ a.cmd \in Nat /\ a.atyp \in Nat /\ a.port \in 0..(Base * Base - 1)
  BY <1>1 DEF Ask
<1> QED
  BY <1>1, <1>2, BytesAreStr

(* A length and the bytes it counts.                                       *)
LEMMA PrefixedTyped ==
  ASSUME NEW b \in Str
  PROVE  Prefixed(b) \in Str /\ <<Len(b)>> \in Str /\ Len(<<Len(b)>>) = 1 /\ <<Len(b)>>[1] = Len(b)
<1>1. Len(b) \in Nat
  BY StrConcat
<1>2. <<Len(b)>> \in Str /\ Len(<<Len(b)>>) = 1 /\ <<Len(b)>>[1] = Len(b)
  BY <1>1, StrOne
<1> QED
  BY <1>2, StrConcat DEF Prefixed

(* The length in front is read first.                                      *)
LEMMA PrefixFirst ==
  ASSUME NEW b \in Str, NEW c \in Str
  PROVE  Prefixed(b) \o c = <<Len(b)>> \o (b \o c) /\ b \o c \in Str /\ Prefixed(b) \o c \in Str
<1>1. <<Len(b)>> \in Str /\ Prefixed(b) \in Str
  BY PrefixedTyped
<1>2. (<<Len(b)>> \o b) \o c = <<Len(b)>> \o (b \o c)
  BY <1>1, StrAssoc, Zenon
<1>3. b \o c \in Str /\ Prefixed(b) \o c \in Str
  BY <1>1, StrConcat
<1> QED
  BY <1>2, <1>3, Zenon DEF Prefixed

(* The request, and what stands in front of it.                            *)
LEMMA RequestBytesTyped ==
  ASSUME NEW a \in Asks
  PROVE  /\ Short(a.port) \in Str /\ AddressBytes(a) \in Str /\ RequestBytes(a) \in Str
         /\ AfterUser(a) \in Str /\ AfterVersion(a) \in Str
         /\ <<5, a.cmd, 0, a.atyp>> \in Str
         /\ (IF a.cmd = 1 THEN AddressBytes(a) ELSE <<>>) \in Str
<1>1. /\ a.methods \in Str /\ a.user \in Str /\ a.password \in Str /\ a.host \in Str
      /\ a.cmd \in Nat /\ a.atyp \in Nat /\ a.port \in Nat
  BY AskTyped
<1>2. Short(a.port) \in Str
  BY <1>1, ShortNumber
<1>3. HostField(a.atyp, a.host) \in Str
  BY <1>1, PrefixedTyped DEF HostField
<1>4. AddressBytes(a) \in Str
  BY <1>2, <1>3, StrConcat DEF AddressBytes
<1>5. <<5, a.cmd, 0, a.atyp>> \in Str
  <2>1. \A i, j, k, l \in Nat : <<i, j, k, l>> \in Str
    BY DEF Str
  <2> QED
    BY <1>1, <2>1
<1>6. (IF a.cmd = 1 THEN AddressBytes(a) ELSE <<>>) \in Str
  BY <1>4, StrEmpty
<1>7. RequestBytes(a) \in Str
  BY <1>5, <1>6, StrConcat DEF RequestBytes
<1>8. AfterUser(a) \in Str
  BY <1>1, <1>7, PrefixFirst DEF AfterUser
<1>9. AfterVersion(a) \in Str
  BY <1>1, <1>8, PrefixFirst DEF AfterVersion
<1> QED
  BY <1>2, <1>4, <1>5, <1>6, <1>7, <1>8, <1>9

(* What follows the list of methods.                                       *)
LEMMA AfterMethodsTyped ==
  ASSUME NEW a \in Asks, NEW c \in Configs
  PROVE  AfterMethods(a, c) \in Str /\ <<1>> \in Str /\ Len(<<1>>) = 1
<1>1. <<1>> \in Str /\ Len(<<1>>) = 1
  BY StrOne
<1> QED
  BY <1>1, RequestBytesTyped, StrConcat DEF AfterMethods

(* All bytes of the program, in the order they are read.                   *)
LEMMA ProgramBytesAre ==
  ASSUME NEW a \in Asks, NEW c \in Configs
  PROVE  /\ ProgramBytes(a, c) = <<5, Len(a.methods)>> \o (a.methods \o AfterMethods(a, c))
         /\ ProgramBytes(a, c) \in Str /\ a.methods \o AfterMethods(a, c) \in Str
         /\ <<5, Len(a.methods)>> \in Str /\ Len(<<5, Len(a.methods)>>) = 2
         /\ <<5, Len(a.methods)>>[2] = Len(a.methods)
<1>1. a.methods \in Str /\ Len(a.methods) \in Nat
  BY AskTyped, StrConcat
<1>2. <<5, Len(a.methods)>> \in Str /\ Len(<<5, Len(a.methods)>>) = 2
      /\ <<5, Len(a.methods)>>[2] = Len(a.methods)
  <2>1. PICK n \in Nat : n = Len(a.methods)
    BY <1>1
  <2>2. <<5, n>> \in Seq(Nat) /\ Len(<<5, n>>) = 2 /\ <<5, n>>[2] = n
    OBVIOUS
  <2> QED
    BY <2>1, <2>2 DEF Str
<1>3. PICK h : h \in Str /\ h = <<5, Len(a.methods)>>
  BY <1>2
<1>4. PICK m : m \in Str /\ m = a.methods
  BY <1>1
<1>5. PICK pu : pu \in Str /\ pu = Prefixed(a.user)
  BY AskTyped, PrefixedTyped
<1>6. PICK pp : pp \in Str /\ pp = Prefixed(a.password)
  BY AskTyped, PrefixedTyped
<1>7. PICK r : r \in Str /\ r = <<5, a.cmd, 0, a.atyp>>
  BY RequestBytesTyped
<1>8. PICK t : t \in Str /\ t = IF a.cmd = 1 THEN AddressBytes(a) ELSE <<>>
  BY RequestBytesTyped
<1>9. PICK e : e \in Str /\ e = <<1>>
  BY StrOne
<1>10. PICK x : x \in Str /\ x = IF c.auth THEN (e \o pu) \o pp ELSE <<>>
  <2>1. e \o pu \in Str
    BY <1>5, <1>9, StrConcat
  <2>2. (e \o pu) \o pp \in Str
    BY <1>6, <2>1, StrConcat
  <2> QED
    BY <2>2, StrEmpty
<1>11. ProgramBytes(a, c) = (((h \o m) \o x) \o r) \o t
  BY <1>3, <1>4, <1>5, <1>6, <1>7, <1>8, <1>9, <1>10, Zenon DEF ProgramBytes, AddressBytes
<1>12. AfterMethods(a, c) = IF c.auth THEN e \o (pu \o (pp \o (r \o t))) ELSE r \o t
  BY <1>5, <1>6, <1>7, <1>8, <1>9, Zenon DEF AfterMethods, AfterVersion, AfterUser, RequestBytes
<1>13. PICK z : z \in Str /\ z = r \o t
  BY <1>7, <1>8, StrConcat
<1>14. ((e \o pu) \o pp) \o z = e \o (pu \o (pp \o z))
  <2>1. e \in Str /\ pu \in Str /\ pp \in Str /\ z \in Str
    BY <1>5, <1>6, <1>9, <1>13
  <2>2. PICK y : y \in Str /\ y = e \o pu
    BY <2>1, StrConcat
  <2>3. PICK w : w \in Str /\ w = pp \o z
    BY <2>1, StrConcat
  <2>4. (y \o pp) \o z = y \o (pp \o z)
    BY <2>1, <2>2, StrAssoc
  <2>5. (e \o pu) \o w = e \o (pu \o w)
    BY SMTT(30), <2>1, <2>3, StrAssoc
  <2> QED
    BY <2>2, <2>3, <2>4, <2>5
<1>15. x \o z = AfterMethods(a, c) /\ AfterMethods(a, c) \in Str
  BY <1>10, <1>12, <1>13, <1>14, StrEmpty, AfterMethodsTyped
<1>16. (((h \o m) \o x) \o r) \o t = h \o (m \o (x \o z))
  <2>1. PICK y : y \in Str /\ y = h \o m
    BY <1>3, <1>4, StrConcat
  <2>2. ((y \o x) \o r) \o t = (y \o x) \o z /\ (y \o x) \o z = y \o (x \o z)
    <3>1. y \in Str /\ x \in Str /\ r \in Str /\ t \in Str
      BY <1>7, <1>8, <1>10, <2>1
    <3>2. PICK v : v \in Str /\ v = y \o x
      BY <3>1, StrConcat
    <3>3. (v \o r) \o t = v \o (r \o t)
      BY <3>1, <3>2, StrAssoc
    <3>4. (y \o x) \o z = y \o (x \o z)
      BY SMTT(30), <1>13, <3>1, StrAssoc
    <3> QED
      BY <1>13, <3>2, <3>3, <3>4
  <2>3. PICK w : w \in Str /\ w = x \o z
    BY <1>10, <1>13, StrConcat
  <2>4. h \in Str /\ m \in Str /\ w \in Str
    BY <1>3, <1>4, <2>3
  <2>5. (h \o m) \o w = h \o (m \o w)
    BY <2>4, StrAssoc
  <2> QED
    BY <2>1, <2>2, <2>3, <2>5
<1>17. ProgramBytes(a, c) = h \o (m \o AfterMethods(a, c))
  BY <1>11, <1>15, <1>16
<1>18. m \o AfterMethods(a, c) \in Str
  BY <1>4, <1>15, StrConcat
<1>19. h \o (m \o AfterMethods(a, c)) \in Str
  BY <1>3, <1>18, StrConcat
<1> QED
  BY <1>2, <1>3, <1>4, <1>17, <1>18, <1>19

(***************************************************************************)
(* A step of the handshake that is not cut takes exactly one field.        *)
(***************************************************************************)
UncutGoal ==
    /\ HandshakeAt'
    /\ config.auth /\ req'.pc \in Admitted => Known
    /\ sent' # None /\ sent'.protocol = "tcp" => Names(sent'.address, sent'.port)

(* One step of a handshake of which no byte is missing: the program's      *)
(* bytes are cut exactly where its fields end.                             *)
LEMMA UncutStep ==
  ASSUME RequestInv, ReadRequest, ~ short'
  PROVE  UncutGoal
<1>0. RequestTyped /\ NeedsFit /\ TurnsInv /\ WireInv /\ HandshakeInv /\ CredentialsInv
  BY DEF RequestInv
<1>1. /\ ask # None /\ ask' = ask /\ config' = config /\ ~ short
      /\ req.pc \in Handshake \cup Refusal
  BY <1>0, ReadStep DEF RequestTyped
<1>2. /\ HandshakeAt /\ (config.auth /\ req.pc \in Admitted => Known) /\ sent = None
      /\ req.got # "success" /\ ask \in Asks /\ config \in Configs
  <2>1. sent = None /\ req.got # "success"
    BY <1>0, <1>1 DEF TurnsInv
  <2> QED
    BY <1>0, <1>1, <2>1 DEF HandshakeInv, CredentialsInv, RequestTyped
<1>3. /\ ask.methods \in Str /\ ask.user \in Str /\ ask.password \in Str /\ ask.host \in Str
      /\ ask.cmd \in Nat /\ ask.atyp \in Nat /\ ask.port \in Nat /\ HostFits(ask)
  BY <1>2, AskTyped
<1>4. /\ Short(ask.port) \in Str /\ AddressBytes(ask) \in Str /\ RequestBytes(ask) \in Str
      /\ AfterUser(ask) \in Str /\ AfterVersion(ask) \in Str
  BY <1>2, RequestBytesTyped
<1>5. ASSUME UNCHANGED wireVars, req'.pc \in {"done"} \cup Refusal PROVE UncutGoal
  BY <1>2, <1>5 DEF UncutGoal, HandshakeAt, Admitted, Refusal, wireVars
<1>6. ASSUME ReadsOn, HandshakeAt', config.auth /\ req'.pc \in Admitted => Known PROVE UncutGoal
  BY <1>2, <1>6 DEF UncutGoal, ReadsOn, wireVars
<1>7. ASSUME NEW got \in {"nothing", "failure", "noMethod", "denied", "unreachable"}, End(got)
      PROVE  UncutGoal
  <2>1. req'.pc = "done" /\ UNCHANGED wireVars
    BY <1>0, <1>7, Ends DEF End
  <2> QED
    BY <1>5, <2>1
<1> HIDE DEF UncutGoal
<1>8. CASE RefuseGreeting
  <2>1. PICK data \in Pieces :
          /\ Recv("refuse", data)
          /\ IF data = <<>> \/ Head(data) # 5 THEN End("nothing") ELSE GoOn("refusing", 1024)
    BY <1>8 DEF RefuseGreeting
  <2>2. CASE GoOn("refusing", 1024)
    <3>1. ReadsOn /\ req'.pc = "refusing"
      BY <1>0, <1>2, <2>2, GoesOn DEF Refusal
    <3> QED
      BY <1>5, <3>1 DEF ReadsOn, Refusal
  <2> QED
    BY <1>7, <2>1, <2>2
<1>9. CASE RefuseRequest
  BY <1>7, <1>9 DEF RefuseRequest
<1>10. CASE Greeting
  <2>1. PICK data \in Pieces :
          Recv("greeting", data) /\ RaisesUnless(Whole(data), GoOn("methods", data[2]))
    BY <1>10 DEF Greeting
  <2>2. req.pc = "greeting" /\ req.need = 2
    BY <1>0, <2>1 DEF Recv, NeedsFit
  <2> DEFINE a == <<5, Len(ask.methods)>>
             b == ask.methods \o AfterMethods(ask, config)
  <2>3. input = a \o b /\ a \in Str /\ b \in Str /\ Len(a) = 2 /\ a[2] = Len(ask.methods)
    BY <1>2, <2>2, ProgramBytesAre DEF HandshakeAt
  <2> HIDE DEF a, b
  <2>4. data = a /\ input' = b
    BY <1>0, <2>1, <2>2, <2>3, RecvWhole DEF Refusal
  <2>5. CASE Whole(data)
    <3>1. GoOn("methods", Len(ask.methods)) /\ Len(ask.methods) \in Nat
      BY <1>3, <2>1, <2>3, <2>4, <2>5, StrConcat DEF RaisesUnless
    <3>2. ReadsOn /\ req'.pc = "methods" /\ req'.need = Len(ask.methods)
      <4>1. PICK n \in Nat : n = Len(ask.methods) /\ GoOn("methods", n)
        BY <3>1
      <4>2. req.got # "success" /\ "methods" \in Handshake
        BY <1>2 DEF Handshake
      <4>3. ReadsOn /\ req'.pc = "methods" /\ req'.need = n
        BY <1>0, <4>1, <4>2, GoesOn
      <4> QED
        BY <4>1, <4>3
    <3>3. HandshakeAt'
      BY <1>1, <2>4, <3>2 DEF HandshakeAt, b
    <3> QED
      BY <1>6, <3>2, <3>3 DEF Admitted
  <2> QED
    BY <1>7, <2>1, <2>5 DEF RaisesUnless
<1>11. CASE Methods
  <2>1. PICK data \in Pieces :
          /\ Recv("methods", data)
          /\ \/ ~ config.auth /\ GoOn("header", 4)
             \/ config.auth /\ GoOn("version", 1)
             \/ End("noMethod")
    BY <1>11 DEF Methods
  <2>2. req.pc = "methods"
    BY <2>1 DEF Recv
  <2>3. /\ input = ask.methods \o AfterMethods(ask, config) /\ req.need = Len(ask.methods)
        /\ AfterMethods(ask, config) \in Str
    BY <1>2, <2>2, AfterMethodsTyped DEF HandshakeAt
  <2>4. input' = AfterMethods(ask, config)
    BY <1>0, <1>3, <2>1, <2>3, RecvWhole DEF Refusal
  <2>5. CASE ~ config.auth /\ GoOn("header", 4)
    <3>1. ReadsOn /\ req'.pc = "header"
      BY <1>0, <1>2, <2>5, GoesOn DEF Handshake
    <3>2. input' = RequestBytes(ask)
      BY <2>4, <2>5 DEF AfterMethods
    <3>3. HandshakeAt'
      BY <1>1, <3>1, <3>2 DEF HandshakeAt
    <3> QED
      BY <1>6, <2>5, <3>1, <3>3
  <2>6. CASE config.auth /\ GoOn("version", 1)
    <3>1. ReadsOn /\ req'.pc = "version"
      BY <1>0, <1>2, <2>6, GoesOn DEF Handshake
    <3>2. input' = <<1>> \o AfterVersion(ask)
      BY <2>4, <2>6 DEF AfterMethods
    <3>3. HandshakeAt'
      BY <1>1, <3>1, <3>2 DEF HandshakeAt
    <3> QED
      BY <1>6, <3>1, <3>3 DEF Admitted
  <2> QED
    BY <1>7, <2>1, <2>5, <2>6
<1>12. CASE AuthVersion
  <2>1. PICK data \in Pieces :
          Recv("version", data) /\ (End("failure") \/ End("nothing") \/ GoOn("ulen", 1))
    BY <1>12, Zenon DEF AuthVersion, RaisesUnless
  <2>2. req.pc = "version" /\ req.need = 1
    BY <1>0, <2>1 DEF Recv, NeedsFit
  <2>3. input = <<1>> \o AfterVersion(ask) /\ <<1>> \in Str /\ Len(<<1>>) = 1
    BY <1>2, <2>2, StrOne DEF HandshakeAt
  <2>4. input' = AfterVersion(ask)
    BY <1>0, <1>4, <2>1, <2>2, <2>3, RecvWhole DEF Refusal
  <2>5. CASE GoOn("ulen", 1)
    <3>1. ReadsOn /\ req'.pc = "ulen"
      BY <1>0, <1>2, <2>5, GoesOn DEF Handshake
    <3>2. HandshakeAt'
      BY <1>1, <2>4, <3>1 DEF HandshakeAt
    <3> QED
      BY <1>6, <3>1, <3>2 DEF Admitted
  <2> QED
    BY <1>7, <2>1, <2>5
<1>13. ASSUME NEW at \in {"ulen", "plen", "dlen"}, NEW next \in {"user", "password", "domain"},
              NEW bytes \in Str, NEW after \in Str, LengthOf(at, next),
              input = Prefixed(bytes) \o after
       PROVE  \/ UncutGoal
              \/ /\ ReadsOn /\ req'.pc = next /\ req'.need = Len(bytes) /\ req'.text = req.text
                 /\ input' = bytes \o after /\ req.pc = at
  <2>1. PICK data \in Pieces :
          Recv(at, data) /\ RaisesUnless(Whole(data), GoOn(next, data[1]))
    BY <1>13 DEF LengthOf
  <2>2. req.pc = at /\ req.need = 1
    BY <1>0, <2>1 DEF Recv, NeedsFit
  <2> DEFINE a == <<Len(bytes)>>
             b == bytes \o after
  <2>3. input = a \o b /\ a \in Str /\ b \in Str /\ Len(a) = 1 /\ a[1] = Len(bytes)
        /\ Len(bytes) \in Nat
    <3>1. input = a \o b /\ b \in Str
      BY <1>13, PrefixFirst
    <3>2. a \in Str /\ Len(a) = 1 /\ a[1] = Len(bytes)
      BY PrefixedTyped
    <3> QED
      BY <3>1, <3>2, StrConcat
  <2> HIDE DEF a, b
  <2>4. data = a /\ input' = b
    BY <1>0, <2>1, <2>2, <2>3, RecvWhole DEF Refusal
  <2>5. CASE Whole(data)
    <3>1. GoOn(next, Len(bytes)) /\ Len(bytes) \in Nat
      BY <2>1, <2>3, <2>4, <2>5 DEF RaisesUnless
    <3>2. ReadsOn /\ req'.pc = next /\ req'.need = Len(bytes) /\ req'.text = req.text
      BY <1>0, <1>2, <3>1, GoesOn DEF Handshake
    <3> QED
      BY <2>2, <2>4, <3>2 DEF b
  <2> QED
    BY <1>7, <2>1, <2>5 DEF RaisesUnless
<1>14. CASE LengthOf("ulen", "user")
  <2>1. req.pc = "ulen"
    BY <1>14 DEF LengthOf, Recv
  <2>2. input = Prefixed(ask.user) \o AfterUser(ask)
    BY <1>2, <2>1 DEF HandshakeAt, AfterVersion
  <2>3. \/ UncutGoal
        \/ /\ ReadsOn /\ req'.pc = "user" /\ req'.need = Len(ask.user)
           /\ input' = ask.user \o AfterUser(ask)
    BY <1>3, <1>4, <1>13, <1>14, <2>2
  <2>4. ASSUME ReadsOn, req'.pc = "user", req'.need = Len(ask.user),
               input' = ask.user \o AfterUser(ask)
        PROVE  UncutGoal
    <3>1. HandshakeAt'
      BY <1>1, <2>4 DEF HandshakeAt
    <3> QED
      BY <1>6, <2>4, <3>1 DEF Admitted
  <2> QED
    BY <2>3, <2>4
<1>15. ASSUME NEW at, NEW data \in Pieces, NEW a \in Str, NEW b \in Str, Recv(at, data),
              at \notin Refusal, input = a \o b, req.need = Len(a)
       PROVE  data = a /\ input' = b /\ req.pc = at
  <2>1. req.pc = at
    BY <1>15 DEF Recv
  <2> QED
    BY <1>0, <1>15, <2>1, RecvWhole
<1>16. CASE Username
  <2>1. PICK data \in Pieces :
          /\ Recv("user", data)
          /\ RaisesUnless(Decode(data) # Raises, ReadText("plen", 1, Decode(data)))
    BY <1>16 DEF Username
  <2>2. req.need = Len(ask.user) /\ input = ask.user \o AfterUser(ask)
    BY <1>2, <2>1 DEF HandshakeAt, Recv
  <2>3. data = ask.user /\ input' = AfterUser(ask)
    BY <1>3, <1>4, <1>15, <2>1, <2>2 DEF Refusal
  <2> DEFINE t == Decode(ask.user)
  <2>4. RaisesUnless(t # Raises, ReadText("plen", 1, t)) /\ t \in Str \cup {Raises}
    BY <1>3, <2>1, <2>3, DecodeTyped
  <2> HIDE DEF t
  <2>5. CASE t # Raises
    <3>1. ReadText("plen", 1, t) /\ t \in Str
      BY <2>4, <2>5 DEF RaisesUnless
    <3>2. ReadsOn /\ req'.pc = "plen" /\ req'.text = t
      BY <1>0, <1>2, <3>1, ReadsTheText DEF Handshake
    <3>3. HandshakeAt'
      BY <1>1, <2>3, <3>2 DEF HandshakeAt, t
    <3> QED
      BY <1>6, <3>2, <3>3 DEF Admitted
  <2> QED
    BY <1>7, <2>4, <2>5 DEF RaisesUnless
<1>17. CASE LengthOf("plen", "password")
  <2>1. req.pc = "plen"
    BY <1>17 DEF LengthOf, Recv
  <2>2. input = Prefixed(ask.password) \o RequestBytes(ask) /\ req.text = Decode(ask.user)
    BY <1>2, <2>1 DEF HandshakeAt, AfterUser
  <2>3. \/ UncutGoal
        \/ /\ ReadsOn /\ req'.pc = "password" /\ req'.need = Len(ask.password)
           /\ req'.text = req.text /\ input' = ask.password \o RequestBytes(ask)
    BY <1>3, <1>4, <1>13, <1>17, <2>2
  <2>4. ASSUME ReadsOn, req'.pc = "password", req'.need = Len(ask.password),
               req'.text = req.text, input' = ask.password \o RequestBytes(ask)
        PROVE  UncutGoal
    <3>1. HandshakeAt'
      BY <1>1, <2>2, <2>4 DEF HandshakeAt
    <3> QED
      BY <1>6, <2>4, <3>1 DEF Admitted
  <2> QED
    BY <2>3, <2>4
<1>18. CASE CheckPassword
  <2>1. PICK data \in Pieces :
          /\ Recv("password", data)
          /\ \/ req.text = User /\ Decode(data) = Password /\ GoOn("header", 4)
             \/ End("failure") \/ End("denied")
    BY <1>18, Zenon DEF CheckPassword, RaisesUnless
  <2>2. /\ req.need = Len(ask.password) /\ input = ask.password \o RequestBytes(ask)
        /\ req.text = Decode(ask.user)
    BY <1>2, <2>1 DEF HandshakeAt, Recv
  <2>3. data = ask.password /\ input' = RequestBytes(ask)
    BY <1>3, <1>4, <1>15, <2>1, <2>2 DEF Refusal
  <2>4. CASE req.text = User /\ Decode(data) = Password /\ GoOn("header", 4)
    <3>1. ReadsOn /\ req'.pc = "header"
      BY <1>0, <1>2, <2>4, GoesOn DEF Handshake
    <3>2. HandshakeAt'
      BY <1>1, <2>3, <3>1 DEF HandshakeAt
    <3>3. Known
      BY <2>2, <2>3, <2>4 DEF Known
    <3> QED
      BY <1>6, <3>1, <3>2, <3>3
  <2> QED
    BY <1>7, <2>1, <2>4
<1>19. ASSUME NEW address, NEW port, NEW protocol \in {"tcp", "udp"}, Connect(protocol, address, port),
              protocol = "tcp" => address \in Str /\ port \in Nat,
              protocol = "udp" => address = None /\ port = None,
              protocol = "tcp" => Names(address, port), config.auth => Known
       PROVE  UncutGoal
  <2>1. \/ ReadsOn /\ req'.pc = "done"
        \/ /\ SendsConnect /\ sent'.protocol = protocol
           /\ sent'.address = address /\ sent'.port = port
    BY <1>0, <1>19, ConnectIsSent
  <2>2. CASE ReadsOn /\ req'.pc = "done"
    BY <1>5, <2>2 DEF ReadsOn
  <2>3. CASE SendsConnect /\ sent'.protocol = protocol /\ sent'.address = address /\ sent'.port = port
    <3>1. req'.pc = "waiting"
      BY <1>0, <2>3 DEF SendsConnect, RequestTyped, ReqRecord
    <3> QED
      BY <1>19, <2>3, <3>1 DEF UncutGoal, HandshakeAt
  <2> QED
    BY <2>1, <2>2, <2>3
<1>20. CASE Header
  <2>1. PICK data \in Pieces :
          /\ Recv("header", data)
          /\ RaisesUnless(Whole(data),
               CASE data[2] = 1 /\ data[4] = 1 -> GoOn("v4", 1)
                 [] data[2] = 1 /\ data[4] = 4 -> GoOn("v6", 2)
                 [] data[2] = 1 /\ data[4] = 3 -> GoOn("dlen", 1)
                 [] data[2] = 3 -> Connect("udp", None, None)
                 [] OTHER -> End("nothing"))
    BY <1>20 DEF Header
  <2>2. req.pc = "header" /\ req.need = 4
    BY <1>0, <2>1 DEF Recv, NeedsFit
  <2> DEFINE a == <<5, ask.cmd, 0, ask.atyp>>
             b == IF ask.cmd = 1 THEN AddressBytes(ask) ELSE <<>>
  <2>3. input = a \o b /\ a \in Str /\ b \in Str
    BY <1>2, <2>2, RequestBytesTyped DEF HandshakeAt, RequestBytes
  <2>4. Len(a) = 4 /\ a[2] = ask.cmd /\ a[4] = ask.atyp
    OBVIOUS
  <2> HIDE DEF a, b
  <2>5. data = a /\ input' = b
    BY <1>15, <2>1, <2>2, <2>3, <2>4 DEF Refusal
  <2>6. config.auth => Known
    BY <1>2, <2>2 DEF Admitted
  <2>7. \/ ask.cmd = 1 /\ ask.atyp = 1 /\ GoOn("v4", 1)
        \/ ask.cmd = 1 /\ ask.atyp = 4 /\ GoOn("v6", 2)
        \/ ask.cmd = 1 /\ ask.atyp = 3 /\ GoOn("dlen", 1)
        \/ Connect("udp", None, None) \/ End("nothing") \/ End("failure")
    BY <2>1, <2>4, <2>5 DEF RaisesUnless
  <2>8. CASE ask.cmd = 1 /\ ask.atyp = 1 /\ GoOn("v4", 1)
    <3>1. ReadsOn /\ req'.pc = "v4"
      BY <1>0, <1>2, <2>8, GoesOn DEF Handshake
    <3>2. HandshakeAt'
      BY <1>1, <2>5, <2>8, <3>1 DEF HandshakeAt, b
    <3> QED
      BY <1>6, <2>6, <3>1, <3>2
  <2>9. CASE ask.cmd = 1 /\ ask.atyp = 4 /\ GoOn("v6", 2)
    <3>1. ReadsOn /\ req'.pc = "v6"
      BY <1>0, <1>2, <2>9, GoesOn DEF Handshake
    <3>2. HandshakeAt'
      BY <1>1, <2>5, <2>9, <3>1 DEF HandshakeAt, b
    <3> QED
      BY <1>6, <2>6, <3>1, <3>2
  <2>10. CASE ask.cmd = 1 /\ ask.atyp = 3 /\ GoOn("dlen", 1)
    <3>1. ReadsOn /\ req'.pc = "dlen"
      BY <1>0, <1>2, <2>10, GoesOn DEF Handshake
    <3>2. HandshakeAt'
      BY <1>1, <2>5, <2>10, <3>1 DEF HandshakeAt, b
    <3> QED
      BY <1>6, <2>6, <3>1, <3>2
  <2>11. CASE Connect("udp", None, None)
    BY <1>19, <2>6, <2>11
  <2> QED
    BY <1>7, <2>7, <2>8, <2>9, <2>10, <2>11
<1>21. ASSUME NEW at \in {"v4", "v6", "domain"}, NEW atyp \in {1, 3, 4}, Address(at, atyp),
              atyp = ask.atyp, req.need = Len(ask.host), input = ask.host \o Short(ask.port),
              config.auth => Known
       PROVE  UncutGoal
  <2>1. PICK data \in Pieces :
          /\ Recv(at, data)
          /\ RaisesUnless(HostText(atyp, data) # Raises, ReadText("port", 2, HostText(atyp, data)))
    BY <1>21 DEF Address
  <2>2. data = ask.host /\ input' = Short(ask.port)
    BY <1>3, <1>4, <1>15, <1>21, <2>1 DEF Refusal
  <2> DEFINE t == HostText(ask.atyp, ask.host)
  <2>3. RaisesUnless(t # Raises, ReadText("port", 2, t)) /\ t \in Str \cup {Raises}
    BY <1>3, <1>21, <2>1, <2>2, HostTextTyped
  <2> HIDE DEF t
  <2>4. CASE t # Raises
    <3>1. ReadText("port", 2, t) /\ t \in Str
      BY <2>3, <2>4 DEF RaisesUnless
    <3>2. ReadsOn /\ req'.pc = "port" /\ req'.text = t
      BY <1>0, <1>2, <3>1, ReadsTheText DEF Handshake
    <3>3. HandshakeAt'
      BY <1>1, <2>2, <3>2 DEF HandshakeAt, t
    <3> QED
      BY <1>6, <1>21, <3>2, <3>3
  <2> QED
    BY <1>7, <2>3, <2>4 DEF RaisesUnless
<1>22. CASE Address("v4", 1)
  <2>1. req.pc = "v4" /\ req.need = 1
    BY <1>0, <1>22 DEF Address, Recv, NeedsFit
  <2>2. ask.atyp = 1 /\ input = AddressBytes(ask) /\ Len(ask.host) = 1 /\ (config.auth => Known)
    BY <1>2, <1>3, <2>1 DEF HandshakeAt, HostFits, Admitted
  <2>3. input = ask.host \o Short(ask.port)
    BY <2>2 DEF AddressBytes, HostField
  <2> QED
    BY <1>21, <1>22, <2>1, <2>2, <2>3
<1>23. CASE Address("v6", 4)
  <2>1. req.pc = "v6" /\ req.need = 2
    BY <1>0, <1>23 DEF Address, Recv, NeedsFit
  <2>2. ask.atyp = 4 /\ input = AddressBytes(ask) /\ Len(ask.host) = 2 /\ (config.auth => Known)
    BY <1>2, <1>3, <2>1 DEF HandshakeAt, HostFits, Admitted
  <2>3. input = ask.host \o Short(ask.port)
    BY <2>2 DEF AddressBytes, HostField
  <2> QED
    BY <1>21, <1>23, <2>1, <2>2, <2>3
<1>24. CASE LengthOf("dlen", "domain")
  <2>1. req.pc = "dlen"
    BY <1>24 DEF LengthOf, Recv
  <2>2. ask.atyp = 3 /\ input = AddressBytes(ask) /\ (config.auth => Known)
    BY <1>2, <2>1 DEF HandshakeAt, Admitted
  <2>3. input = Prefixed(ask.host) \o Short(ask.port)
    BY <2>2 DEF AddressBytes, HostField
  <2>4. \/ UncutGoal
        \/ /\ ReadsOn /\ req'.pc = "domain" /\ req'.need = Len(ask.host)
           /\ input' = ask.host \o Short(ask.port)
    BY <1>3, <1>4, <1>13, <1>24, <2>3
  <2>5. ASSUME ReadsOn, req'.pc = "domain", req'.need = Len(ask.host),
               input' = ask.host \o Short(ask.port)
        PROVE  UncutGoal
    <3>1. HandshakeAt'
      BY <1>1, <2>2, <2>5 DEF HandshakeAt
    <3> QED
      BY <1>6, <2>2, <2>5, <3>1
  <2> QED
    BY <2>4, <2>5
<1>25. CASE Address("domain", 3)
  <2>1. req.pc = "domain"
    BY <1>25 DEF Address, Recv
  <2>2. /\ ask.atyp = 3 /\ req.need = Len(ask.host) /\ input = ask.host \o Short(ask.port)
        /\ (config.auth => Known)
    BY <1>2, <2>1 DEF HandshakeAt, Admitted
  <2> QED
    BY <1>21, <1>25, <2>2
<1>26. CASE Port
  <2>1. PICK data \in Pieces :
          Recv("port", data) /\ RaisesUnless(Whole(data), Connect("tcp", req.text, Number(data)))
    BY <1>26 DEF Port
  <2>2. req.pc = "port" /\ req.need = 2 /\ req.text \in Str
    BY <1>0, <2>1 DEF Recv, NeedsFit, RequestTyped, ReqRecord
  <2>3. /\ req.text = HostText(ask.atyp, ask.host) /\ input = Short(ask.port)
        /\ (config.auth => Known)
    BY <1>2, <2>2 DEF HandshakeAt, Admitted
  <2>4. /\ Len(Short(ask.port)) = 2 /\ Number(Short(ask.port)) = ask.port
        /\ input = Short(ask.port) \o <<>>
    BY <1>3, <1>4, <2>3, ShortNumber, StrEmpty
  <2>5. data = Short(ask.port)
    BY <1>4, <1>15, <2>1, <2>2, <2>4, StrEmpty DEF Refusal
  <2>6. CASE Whole(data)
    <3>1. Connect("tcp", req.text, ask.port)
      BY <2>1, <2>4, <2>5, <2>6 DEF RaisesUnless
    <3> QED
      BY <1>3, <1>19, <2>2, <2>3, <3>1 DEF Names
  <2> QED
    BY <1>7, <2>1, <2>6 DEF RaisesUnless
<1> QED
  BY <1>8, <1>9, <1>10, <1>11, <1>12, <1>14, <1>16, <1>17, <1>18, <1>20, <1>22, <1>23,
     <1>24, <1>25, <1>26 DEF ReadRequest

(* The bytes still to be read.                                             *)
LEMMA HandshakeNext ==
  ASSUME RequestInv, [RequestNext]_requestVars
  PROVE  HandshakeInv'
<1>0. RequestTyped /\ NeedsFit /\ TurnsInv /\ WireInv /\ HandshakeInv
  BY DEF RequestInv
<1>1. CASE ReadRequest
  BY <1>1, UncutStep DEF HandshakeInv, UncutGoal
<1>2. CASE NetStep
  <2>1. UNCHANGED <<config, ask, input, short, req>>
    BY <1>0, <1>2, NetStepDoes DEF programVars
  <2> QED
    BY <1>0, <2>1 DEF HandshakeInv, HandshakeAt
<1>3. CASE OtherStep
  <2>1. UNCHANGED <<config, ask, input, short>> /\ (UNCHANGED req \/ req'.pc = "done")
    BY <1>0, <1>3, OtherStepDoes DEF OtherStep
  <2> QED
    BY <1>0, <2>1 DEF HandshakeInv, HandshakeAt
<1> QED
  BY <1>1, <1>2, <1>3 DEF RequestNext, OtherStep

(* The credentials.                                                        *)
LEMMA CredentialsNext ==
  ASSUME RequestInv, [RequestNext]_requestVars
  PROVE  CredentialsInv'
<1>0. RequestTyped /\ NeedsFit /\ TurnsInv /\ WireInv /\ CredentialsInv
  BY DEF RequestInv
<1>1. CASE ReadRequest
  <2>1. /\ UNCHANGED <<config, ask, netVars>> /\ (ReadsOn \/ SendsConnect)
        /\ req.pc \in Handshake \cup Refusal
    BY <1>0, <1>1, ReadStep
  <2>2. sent = None /\ net'.pc = "idle"
    BY <1>0, <2>1 DEF TurnsInv, netVars
  <2>3. ~ short' /\ config.auth /\ req'.pc \in Admitted => Known
    BY <1>1, UncutStep DEF UncutGoal
  <2>4. SentIs("connect")' => req'.pc \in Admitted
    <3>1. CASE ReadsOn
      BY <2>2, <3>1 DEF ReadsOn, wireVars, SentIs
    <3>2. CASE SendsConnect
      BY <1>0, <3>2 DEF SendsConnect, RequestTyped, ReqRecord, Admitted
    <3> QED
      BY <2>1, <3>1, <3>2
  <2> QED
    BY <2>1, <2>2, <2>3, <2>4 DEF CredentialsInv, Known
<1>2. CASE NetStep
  <2>1. UNCHANGED <<config, ask, short, req>> /\ (ConnectArrives \/ Proceeds \/ Answers)
    BY <1>0, <1>2, NetStepDoes DEF programVars
  <2>2. SentIs("connect")' \/ net'.pc # "idle" => SentIs("connect") \/ net.pc # "idle"
    <3>1. CASE ConnectArrives
      <4>1. wire # None /\ wire # Raises /\ wire.type = "connect"
        BY <3>1 DEF ConnectArrives
      <4> QED
        BY <1>0, <4>1, WireIsPacked DEF SentIs
    <3>2. CASE Proceeds \/ Answers
      BY <3>2 DEF Proceeds, Answers, NoAnswerYet
    <3> QED
      BY <2>1, <3>1, <3>2
  <2> QED
    BY <1>0, <2>1, <2>2 DEF CredentialsInv, Known
<1>3. CASE OtherStep
  <2>1. /\ UNCHANGED <<config, ask, short, net>>
        /\ (UNCHANGED req \/ req'.pc = "done") /\ (ask # None => UNCHANGED sent)
    BY <1>0, <1>3, OtherStepDoes DEF OtherStep, netVars, ResponseArrives, GiveUp, End, ProgramLeaves,
       OtherMessage, OtherArrives, requestVars, wireVars
  <2> QED
    BY <1>0, <2>1 DEF CredentialsInv, Known, Admitted, SentIs
<1> QED
  BY <1>1, <1>2, <1>3 DEF RequestNext, OtherStep

(***************************************************************************)
(* The host that the upstream proxy reads is the host that was written.    *)
(***************************************************************************)
LEMMA DropFirst ==
  ASSUME NEW s \in Str, s # <<>>
  PROVE  Drop(s, 1) = Tail(s)
  BY TailIsSubSeq DEF Drop, Str

(* A text, taken apart behind its first character.                         *)
LEMMA SplitFirst ==
  ASSUME NEW t \in Str, t # <<>>
  PROVE  Tail(t) \in Str /\ t = <<t[1]>> \o Tail(t)
<1>1. t \in Seq(Nat) /\ Tail(t) \in Seq(Nat)
  BY HeadTailProperties DEF Str
<1>2. Len(Tail(t)) = Len(t) - 1 /\ \A i \in 1..Len(Tail(t)) : Tail(t)[i] = t[i + 1]
  BY <1>1, HeadTailProperties
<1>3. Len(t) \in Nat \ {0} /\ t[1] \in Nat
  BY <1>1, EmptySeq, LenProperties, ElementOfSeq
<1>4. <<t[1]>> \in Seq(Nat) /\ Len(<<t[1]>>) = 1 /\ <<t[1]>>[1] = t[1]
  BY <1>3
<1> DEFINE c == <<t[1]>> \o Tail(t)
<1>5. c \in Seq(Nat) /\ Len(c) = Len(t)
  BY <1>1, <1>2, <1>3, <1>4, ConcatProperties
<1>6. ASSUME NEW i \in 1..Len(t) PROVE c[i] = t[i]
  <2>1. c[i] = IF i <= 1 THEN <<t[1]>>[i] ELSE Tail(t)[i - 1]
    BY <1>1, <1>2, <1>3, <1>4, ConcatProperties
  <2>2. CASE i = 1
    BY <1>4, <2>1, <2>2
  <2>3. CASE i > 1
    BY <1>2, <1>3, <2>1, <2>3
  <2> QED
    BY <1>3, <2>2, <2>3
<1> HIDE DEF c
<1>7. c = t
  BY <1>1, <1>5, <1>6, SeqEqual
<1> QED
  BY <1>1, <1>7 DEF Str, c

(* The upstream proxy reads the host that was written for it.              *)
LEMMA ProxyReadsHost ==
  ASSUME NEW t \in Str, IsAscii(t)
  PROVE  ProxyHost(UpstreamHost(t)) = t
<1>1. /\ Half \in Nat \ {0} /\ Len(t) \in Nat /\ DOMAIN t = 1..Len(t)
      /\ \A i \in 1..Len(t) : t[i] \in Nat /\ t[i] < Half
  BY Halves, LenProperties, ElementOfSeq DEF Str, IsAscii, Ascii
<1>2. CASE IsV4Text(t)
  <2>1. ByteValue(t) \in Nat /\ ByteText(ByteValue(t)) = t
    BY <1>2, ByteTextIsRead DEF IsV4Text
  <2>2. PICK x \in Nat : x = ByteValue(t)
    BY <2>1
  <2>3. UpstreamHost(t) = <<1, x>>
    <3>1. ~ IsV6Text(t)
      <4>1. t # <<>> => t[1] < Radix
        BY <1>2 DEF IsV4Text, IsByteText
      <4> QED
        BY <1>1, <4>1, RadixFits DEF IsV6Text
    <3> QED
      BY <1>2, <2>2, <3>1 DEF UpstreamHost
  <2>4. Drop(<<1, x>>, 1) = <<x>>
    <3>1. <<1, x>> \in Str /\ <<1, x>> # <<>> /\ Tail(<<1, x>>) = <<x>>
      BY <2>2 DEF Str
    <3> QED
      BY <3>1, DropFirst
  <2>5. ProxyHost(<<1, x>>) = V4Text(x)
    BY <2>2, <2>4 DEF ProxyHost, HostText
  <2> QED
    BY <2>1, <2>2, <2>3, <2>5 DEF V4Text
<1>3. CASE ~ IsV4Text(t) /\ IsV6Text(t)
  <2>1. t # <<>> /\ t[1] = Colon /\ IsByteText(Tail(t))
    BY <1>3 DEF IsV6Text
  <2>2. Tail(t) \in Str /\ t = <<Colon>> \o Tail(t)
    BY <2>1, SplitFirst
  <2>3. ByteValue(Tail(t)) \in Nat /\ ByteText(ByteValue(Tail(t))) = Tail(t)
    BY <2>1, <2>2, ByteTextIsRead
  <2>4. PICK x \in Nat : x = ByteValue(Tail(t))
    BY <2>3
  <2>5. UpstreamHost(t) = <<4, 0, x>>
    BY <1>3, <2>4 DEF UpstreamHost
  <2>6. Drop(<<4, 0, x>>, 1) = <<0, x>>
    <3>1. <<4, 0, x>> \in Str /\ <<4, 0, x>> # <<>> /\ Tail(<<4, 0, x>>) = <<0, x>>
      BY <2>4 DEF Str
    <3> QED
      BY <3>1, DropFirst
  <2>7. ProxyHost(<<4, 0, x>>) = V6Text(x)
    BY <2>4, <2>6 DEF ProxyHost, HostText
  <2> QED
    BY <2>2, <2>3, <2>4, <2>5, <2>7 DEF V6Text
<1>4. CASE ~ IsV4Text(t) /\ ~ IsV6Text(t)
  <2>1. Encode(t) = t /\ Decode(t) = t
    BY EncodeAscii, DecodeAscii
  <2>2. UpstreamHost(t) = (<<3>> \o <<Len(t)>>) \o t
    BY <1>4, <2>1 DEF UpstreamHost
  <2>3. PICK h : h = <<3>> \o <<Len(t)>>
    OBVIOUS
  <2>4. h \in Str /\ Len(h) = 2
    BY <1>1, <2>3 DEF Str
  <2>5. Drop(h \o t, 2) = t
    BY <2>4, StrDrop
  <2>6. (h \o t)[1] = 3
    <3>1. <<3>> \in Str /\ <<Len(t)>> \in Str /\ <<Len(t)>> \o t \in Str
      BY <1>1, StrOne, StrConcat
    <3>2. h \o t = <<3>> \o (<<Len(t)>> \o t)
      BY <2>3, <3>1, StrAssoc
    <3> QED
      BY <3>1, <3>2, StrFirst
  <2>7. ProxyHost(h \o t) = Decode(t)
    BY <2>5, <2>6 DEF ProxyHost, HostText
  <2> QED
    BY <2>1, <2>2, <2>3, <2>7
<1> QED
  BY <1>2, <1>3, <1>4

(* Four digits are two bytes.                                              *)
LEMMA TwoBytes ==
  ASSUME NEW h \in Str, NEW l \in Str, Len(h) = 2, Len(l) = 2
  PROVE  PortValue(h \o l) = Base * ByteValue(h) + ByteValue(l)
<1>1. Len(h \o l) = Len(h) + Len(l)
  BY StrConcat
<1>2. Len(h \o l) = 4
  BY <1>1
<1>3. SubSeq(h \o l, 1, 2) = h /\ Drop(h \o l, 2) = l
  BY StrDrop
<1>4. PICK t : t = h \o l
  OBVIOUS
<1>5. PortValue(t) = Base * ByteValue(SubSeq(t, 1, 2)) + ByteValue(Drop(t, 2))
  BY <1>2, <1>4 DEF PortValue
<1> QED
  BY <1>3, <1>4, <1>5

(* The text of a port has no colon, and is read back.                      *)
LEMMA PortTextIsRead ==
  ASSUME NEW n \in Nat, n < Base * Base
  PROVE  PortText(n) \in Seq(Digit) /\ PortValue(PortText(n)) = n
<1>1. /\ n \div Base \in Nat /\ n % Base \in Nat /\ n % Base < Base
      /\ n = Base * (n \div Base) + (n % Base)
  BY Halves, DivMod
<1>2. n \div Base < Base
  <2>1. PICK q \in Nat : q = n \div Base
    BY <1>1
  <2>2. Base * q < Base * Base
    BY <1>1, <2>1, Halves
  <2>3. q < Base
    <3> SUFFICES ASSUME q >= Base PROVE FALSE
      BY <2>1, Halves
    <3>1. Base * q >= Base * Base
      BY Halves
    <3> QED
      BY <2>2, <3>1, Halves
  <2> QED
    BY <2>1, <2>3
<1>3. PICK h : h = ByteText(n \div Base) /\ h \in Seq(Digit) /\ Len(h) = 2 /\ ByteValue(h) = n \div Base
  BY <1>1, <1>2, ByteTextTyped, ByteTextFits
<1>4. PICK l : l = ByteText(n % Base) /\ l \in Seq(Digit) /\ Len(l) = 2 /\ ByteValue(l) = n % Base
  BY <1>1, ByteTextTyped, ByteTextFits
<1>5. PortText(n) = (IF n < Base THEN <<>> ELSE h) \o l
  BY <1>3, <1>4 DEF PortText
<1>6. h \in Str /\ l \in Str
  BY <1>3, <1>4, DigitsAreStr
<1>7. CASE n < Base
  <2>1. PortText(n) = l
    BY <1>5, <1>6, <1>7, StrEmpty
  <2>2. n % Base = n
    BY <1>7, Halves
  <2> QED
    BY <1>4, <2>1, <2>2 DEF PortValue
<1>8. CASE ~ (n < Base)
  <2>1. PortText(n) = h \o l
    BY <1>5, <1>8
  <2>2. h \o l \in Seq(Digit)
    BY <1>3, <1>4, ConcatProperties
  <2>3. PortValue(h \o l) = Base * ByteValue(h) + ByteValue(l)
    BY <1>3, <1>4, <1>6, TwoBytes
  <2> QED
    BY <1>1, <1>3, <1>4, <2>1, <2>2, <2>3
<1> QED
  BY <1>7, <1>8

(* What a proxy takes for a port has no colon.                             *)
LEMMA PortHasNoColon ==
  ASSUME NEW t \in Str, IsPortText(t), NEW i \in 1..Len(t)
  PROVE  t[i] # Colon
<1>1. CASE IsByteText(t)
  BY <1>1, RadixFits DEF IsByteText
<1>2. CASE Len(t) = 4 /\ IsByteText(SubSeq(t, 1, 2)) /\ IsByteText(Drop(t, 2))
  <2>1. \A j \in 1..4 : t[j] \in Nat
    BY <1>2, ElementOfSeq DEF Str
  <2>2. /\ SubSeq(t, 1, 2)[1] = t[1] /\ SubSeq(t, 1, 2)[2] = t[2]
        /\ Drop(t, 2)[1] = t[3] /\ Drop(t, 2)[2] = t[4]
    <3>1. \A j \in 1..2 : t[j] \in Nat
      BY <2>1
    <3>2. SubSeq(t, 1, 2)[1] = t[1] /\ SubSeq(t, 1, 2)[2] = t[2]
      BY <1>2, <3>1, SubSeqProperties DEF Str
    <3>3. Drop(t, 2)[1] = t[3] /\ Drop(t, 2)[2] = t[4]
      <4>1. \A j \in 3..4 : t[j] \in Nat
        BY <2>1
      <4> QED
        BY <1>2, <4>1, SubSeqProperties DEF Str, Drop
    <3> QED
      BY <3>2, <3>3
  <2>3. t[1] < Radix /\ t[2] < Radix /\ t[3] < Radix /\ t[4] < Radix
    BY <1>2, <2>2 DEF IsByteText
  <2>4. i \in 1..4
    BY <1>2
  <2> QED
    BY <2>3, <2>4, RadixFits
<1> QED
  BY <1>1, <1>2 DEF IsPortText

(* The proxy reads the host and the port that were written for it.         *)
LEMMA AuthorityIsRead ==
  ASSUME NEW t \in Str, IsAscii(t), NEW n \in Nat, n < Base * Base,
         NEW r \in Readings(Authority(t, n))
  PROVE  r = [host |-> t, port |-> n]
<1>1. PICK p : p \in Str /\ p = PortText(n)
  BY PortTextIsRead, DigitsAreStr
<1>2. PortValue(p) = n /\ \A i \in 1..Len(p) : p[i] \in Ascii /\ p[i] # Colon
  BY <1>1, PortTextIsRead, DigitsAreStr
<1>3. Colon \in Nat /\ Len(t) \in Nat /\ Len(p) \in Nat
  BY <1>1, RadixFits, Halves, StrConcat
<1> DEFINE front == t \o <<Colon>>
           bytes == front \o p
<1>4. /\ front \in Str /\ Len(front) = Len(t) + 1
      /\ \A i \in 1..Len(t) : front[i] = t[i]
      /\ front[Len(t) + 1] = Colon
  <2>1. <<Colon>> \in Str /\ Len(<<Colon>>) = 1 /\ <<Colon>>[1] = Colon
    BY <1>3, StrOne
  <2>2. front \in Str /\ Len(front) = Len(t) + 1
    BY <2>1, StrConcat
  <2>3. \A i \in 1..Len(t) + Len(<<Colon>>) :
           front[i] = IF i <= Len(t) THEN t[i] ELSE <<Colon>>[i - Len(t)]
    BY <2>1, ConcatProperties DEF Str
  <2> HIDE DEF front
  <2>4. \A i \in 1..Len(t) : front[i] = t[i]
    BY <1>3, <2>1, <2>3
  <2>5. front[Len(t) + 1] = Colon
    BY <1>3, <2>1, <2>3
  <2> QED
    BY <2>2, <2>4, <2>5
<1> HIDE DEF front
<1>5. /\ bytes \in Str /\ Len(bytes) = Len(t) + 1 + Len(p)
      /\ \A i \in 1..Len(t) : bytes[i] = t[i]
      /\ bytes[Len(t) + 1] = Colon
      /\ \A i \in 1..Len(p) : bytes[Len(t) + 1 + i] = p[i]
  <2>1. bytes \in Str /\ Len(bytes) = Len(t) + 1 + Len(p)
    <3>1. p \in Str /\ front \in Str
      BY <1>1, <1>4
    <3>2. bytes \in Str /\ Len(bytes) = Len(front) + Len(p)
      BY <3>1, StrConcat
    <3> HIDE DEF bytes
    <3> QED
      BY <1>4, <3>2
  <2>2. \A i \in 1..Len(front) + Len(p) :
           bytes[i] = IF i <= Len(front) THEN front[i] ELSE p[i - Len(front)]
    BY <1>1, <1>4, ConcatProperties DEF Str
  <2> HIDE DEF bytes
  <2>3. \A i \in 1..Len(t) : bytes[i] = t[i]
    BY <1>3, <1>4, <2>2
  <2>4. bytes[Len(t) + 1] = Colon
    BY <1>3, <1>4, <2>2
  <2>5. ASSUME NEW i \in 1..Len(p) PROVE bytes[Len(t) + 1 + i] = p[i]
    <3>1. /\ Len(t) + 1 + i \in 1..Len(front) + Len(p) /\ ~ (Len(t) + 1 + i <= Len(front))
          /\ Len(t) + 1 + i - Len(front) = i
      BY <1>3, <1>4
    <3> QED
      BY <2>2, <3>1
  <2> QED
    BY <2>1, <2>3, <2>4, <2>5
<1>6. Drop(bytes, Len(t) + 1) = p /\ SubSeq(bytes, 1, Len(t)) = t
  <2>1. Drop(bytes, Len(front)) = p
    BY <1>1, <1>4, StrDrop
  <2>2. <<Colon>> \in Str /\ <<Colon>> \o p \in Str
    BY <1>1, <1>3, StrOne, StrConcat
  <2>3. bytes = t \o (<<Colon>> \o p)
    BY <1>1, <2>2, StrAssoc DEF front
  <2>4. SubSeq(bytes, 1, Len(t)) = t
    BY <2>2, <2>3, StrDrop
  <2> QED
    BY <1>4, <2>1, <2>4
<1>7. Authority(t, n) = bytes
  <2>1. Authority(t, n) = Encode(bytes)
    BY <1>1 DEF Authority, front
  <2>2. ASSUME NEW i \in 1..Len(bytes) PROVE bytes[i] \in Ascii
    <3>1. CASE i <= Len(t)
      <4>1. i \in 1..Len(t) /\ i \in DOMAIN t
        BY <1>3, <3>1, LenProperties DEF Str
      <4> QED
        BY <1>5, <4>1 DEF IsAscii
    <3>2. CASE i = Len(t) + 1
      BY <1>5, <3>2, RadixFits
    <3>3. CASE i > Len(t) + 1
      <4>1. PICK j \in 1..Len(p) : i = Len(t) + 1 + j
        <5>1. i - (Len(t) + 1) \in 1..Len(p) /\ i = Len(t) + 1 + (i - (Len(t) + 1))
          BY <1>3, <1>5, <3>3
        <5> QED
          BY <5>1
      <4> QED
        BY <1>2, <1>5, <4>1
    <3> QED
      BY <1>3, <1>5, <3>1, <3>2, <3>3
  <2> HIDE DEF bytes
  <2>3. IsAscii(bytes)
    BY <1>5, <2>2, LenProperties DEF IsAscii, Str
  <2> QED
    BY <1>5, <2>1, <2>3, EncodeAscii
<1> HIDE DEF bytes
<1>8. PICK k \in 1..Len(bytes) :
        /\ bytes[k] = Colon /\ IsPortText(Drop(bytes, k))
        /\ r = [host |-> Decode(SubSeq(bytes, 1, k - 1)), port |-> PortValue(Drop(bytes, k))]
  BY <1>5, <1>7, LenProperties DEF Readings, Str
<1>9. k = Len(t) + 1
  <2>1. CASE k > Len(t) + 1
    <3>1. PICK j \in 1..Len(p) : k = Len(t) + 1 + j
      <4>1. k - (Len(t) + 1) \in 1..Len(p) /\ k = Len(t) + 1 + (k - (Len(t) + 1))
        BY <1>3, <1>5, <2>1
      <4> QED
        BY <4>1
    <3> QED
      BY <1>2, <1>5, <1>8, <3>1
  <2>2. CASE k < Len(t) + 1
    <3> DEFINE d == Drop(bytes, k)
               j == Len(t) + 1 - k
    <3>1. \A i \in k + 1..Len(bytes) : bytes[i] \in Nat
      BY <1>3, <1>5, <1>8, ElementOfSeq DEF Str
    <3>2. /\ d \in Seq(Nat) /\ Len(d) = IF k + 1 <= Len(bytes) THEN Len(bytes) - (k + 1) + 1 ELSE 0
          /\ \A i \in 1..Len(bytes) - (k + 1) + 1 : d[i] = bytes[k + 1 + i - 1]
      BY <1>3, <1>5, <1>8, <3>1, SubSeqProperties DEF Drop
    <3>3. /\ j \in 1..Len(bytes) - (k + 1) + 1 /\ k + 1 <= Len(bytes)
          /\ k + 1 + j - 1 = Len(t) + 1
      BY <1>3, <1>5, <1>8, <2>2
    <3> HIDE DEF d, j
    <3>4. d[j] = Colon /\ j \in 1..Len(d) /\ d \in Str
      BY <1>5, <3>2, <3>3 DEF Str
    <3>5. IsPortText(d)
      BY <1>8 DEF d
    <3> QED
      BY <3>4, <3>5, PortHasNoColon
  <2> QED
    BY <1>3, <1>5, <1>8, <2>1, <2>2
<1>10. k - 1 = Len(t)
  BY <1>3, <1>9
<1>11. Decode(t) = t
  BY DecodeAscii
<1> QED
  BY <1>2, <1>6, <1>8, <1>9, <1>10, <1>11

(* A request to connect arrives unchanged, also without an address.        *)
LEMMA ConnectIsHeard ==
  ASSUME NEW m \in ConnectMessage, Pack(m) # Raises, m.protocol = "tcp" => IsAscii(m.address)
  PROVE  Parse(Pack(m)) = m
<1>1. /\ m.type = "connect" /\ m \in Message
      /\ m.protocol = "tcp" => m.address \in Str
      /\ m.protocol # "tcp" => m.address = None
      /\ DOMAIN m = {"type", "protocol", "id", "address", "port"}
  BY MessageKinds DEF ConnectMessage
<1>2. \A t \in Texts(m) : IsAscii(t)
  <2>1. Texts(m) \subseteq {m.address} \ {None}
    BY <1>1 DEF Texts
  <2> QED
    BY <1>1, <2>1
<1>3. Sendable(m)
  BY <1>1, <1>2 DEF Sendable
<1>4. Delivered(m) = m
  BY <1>1 DEF Delivered
<1> QED
  BY <1>1, <1>3, <1>4, PackKinds

(* The address, from the program to the target.                            *)
LEMMA AddressNext ==
  ASSUME RequestInv, [RequestNext]_requestVars
  PROVE  AddressInv'
<1>0. RequestTyped /\ NeedsFit /\ TurnsInv /\ WireInv /\ AddressInv
  BY DEF RequestInv
<1> DEFINE text == HostText(ask.atyp, ask.host)
           SentNames == SentIs("connect") /\ sent.protocol = "tcp" => Names(sent.address, sent.port)
           HeardNames == net.pc \in Unconnected \ {"idle"} =>
                           /\ heard.protocol \in {"tcp", "udp"}
                           /\ heard.protocol = "tcp" =>
                                 heard.address \in Str /\ Names(heard.address, heard.port)
                           /\ net.pc # "direct" => heard.protocol = "tcp"
           ReachedNames == reached # None => reached = Wanted
<1>1. AddressInv = (ask # None /\ ~ short =>
                      SentNames /\ (IsAscii(text) => HeardNames /\ ReachedNames))
  BY Zenon DEF AddressInv
<1>2. AddressInv' = (ask' # None /\ ~ short' =>
                       SentNames' /\ (IsAscii(text') => HeardNames' /\ ReachedNames'))
  BY Zenon DEF AddressInv
<1>3. CASE ReadRequest
  <2>1. /\ UNCHANGED <<ask, netVars>> /\ (ReadsOn \/ SendsConnect) /\ (short => short')
    BY <1>0, <1>3, ReadStep
  <2>2. UNCHANGED <<ask, net, reached, heard>>
    BY <2>1 DEF netVars, ReadsOn, SendsConnect, wireVars
  <2>3. ~ short' => SentNames'
    BY <1>3, <2>2, UncutStep DEF UncutGoal, SentIs, Names
  <2>4. ask # None /\ ~ short /\ IsAscii(text) => HeardNames /\ ReachedNames
    BY <1>0, <1>1, Zenon
  <2>5. HeardNames' = HeardNames /\ ReachedNames' = ReachedNames /\ text' = text
    BY <2>2 DEF Names, Wanted
  <2> HIDE DEF SentNames, HeardNames, ReachedNames, text
  <2> QED
    BY <1>2, <2>1, <2>2, <2>3, <2>4, <2>5
<1>4. CASE NetStep
  <2>1. /\ UNCHANGED <<ask, short, req>> /\ Reaches /\ (ConnectArrives \/ Proceeds \/ Answers)
    BY <1>0, <1>4, NetStepDoes DEF programVars
  <2>2. SUFFICES ASSUME ask # None, ~ short
                 PROVE  SentNames' /\ (IsAscii(text) => HeardNames' /\ ReachedNames')
    BY <1>2, <2>1
  <2>3. SentNames /\ (IsAscii(text) => HeardNames /\ ReachedNames)
    BY <1>0, <1>1, <2>2, Zenon
  <2>4. CASE ConnectArrives
    <3>1. /\ wire # None /\ wire # Raises /\ wire.type = "connect" /\ heard' = Parse(wire)
          /\ sent' = sent
      BY <2>4 DEF ConnectArrives
    <3>2. /\ sent # None /\ sent.type = "connect" /\ sent \in ConnectMessage
          /\ wire = Pack(sent) /\ Pack(sent) # Raises
      BY <1>0, <3>1, WireIsPacked, MessageKinds
    <3>3. sent.protocol \in {"tcp", "udp"} /\ (sent.protocol = "tcp" => sent.address \in Str)
      BY <3>2 DEF ConnectMessage
    <3>4. sent.protocol = "tcp" => Names(sent.address, sent.port)
      BY <2>3, <3>2 DEF SentIs
    <3>5. SentNames'
      BY <2>1, <3>1, <3>4 DEF SentIs, Names
    <3>6. ASSUME IsAscii(text) PROVE HeardNames' /\ ReachedNames'
      <4>1. sent.protocol = "tcp" => IsAscii(sent.address)
        BY <3>4, <3>6 DEF Names
      <4>2. heard' = sent
        BY <3>1, <3>2, <4>1, ConnectIsHeard
      <4>3. reached' = reached
        BY <2>4 DEF ConnectArrives
      <4>4. net'.pc \in {"failed", "direct"} \/ (net'.pc = "dial" /\ sent.protocol = "tcp")
        <5>1. PICK pc : /\ NetIs(pc, 0)
                        /\ pc \in {"failed", "direct"} \/ (pc = "dial" /\ sent.protocol = "tcp")
          <6>1. NetIs(CASE heard' = Raises -> "failed"
                        [] heard'.protocol = "tcp" /\ config.upstream # "none" -> "dial"
                        [] OTHER -> "direct", 0)
            BY <2>4, <3>1 DEF ConnectArrives
          <6>2. heard' # Raises
            BY <3>2, <4>2, MessageKinds, CodecAssumption
          <6>3. CASE heard'.protocol = "tcp" /\ config.upstream # "none"
            BY <4>2, <6>1, <6>2, <6>3
          <6>4. CASE ~ (heard'.protocol = "tcp" /\ config.upstream # "none")
            BY <6>1, <6>2, <6>4
          <6> QED
            BY <6>3, <6>4
        <5>2. net'.pc = pc
          BY <1>0, <5>1, NetGoesTo DEF NetPcs
        <5> QED
          BY <5>1, <5>2
      <4>5. HeardNames'
        BY <2>1, <3>3, <3>4, <4>2, <4>4 DEF Names, Unconnected
      <4>6. ReachedNames'
        BY <2>1, <2>3, <3>6, <4>3 DEF Wanted
      <4> QED
        BY <4>5, <4>6
    <3> QED
      BY <3>5, <3>6
  <2>5. ASSUME IsAscii(text), Proceeds \/ Answers PROVE ReachedNames'
    <3>1. HeardNames /\ ReachedNames
      BY <2>3, <2>5
    <3>2. CASE UNCHANGED reached \/ reached' = None
      BY <2>1, <3>1, <3>2 DEF Wanted
    <3>3. CASE net.pc = "direct" /\ heard.protocol # "udp" /\ reached' = Destination
      <4>1. Names(heard.address, heard.port)
        BY <3>1, <3>3 DEF Unconnected
      <4> QED
        BY <2>1, <3>3, <4>1 DEF Names, Wanted, Destination
    <3>5. CASE net.pc = "dial" /\ reached' \in Readings(Authority(heard.address, heard.port))
      <4>1. heard.address \in Str /\ Names(heard.address, heard.port)
        BY <3>1, <3>5 DEF Unconnected
      <4>2. heard.port \in Nat /\ heard.port < Base * Base
        BY <1>0, <2>2, <4>1, RequestAssumption, CodecAssumption DEF RequestTyped, Ask, Names
      <4>3. reached' = [host |-> heard.address, port |-> heard.port]
        BY <2>5, <3>5, <4>1, <4>2, AuthorityIsRead DEF Names
      <4> QED
        BY <2>1, <4>1, <4>3 DEF Names, Wanted
    <3>4. CASE /\ net.pc \in {"method", "auth"}
               /\ reached' = [host |-> ProxyHost(UpstreamHost(heard.address)), port |-> heard.port]
      <4>1. heard.address \in Str /\ Names(heard.address, heard.port)
        BY <3>1, <3>4 DEF Unconnected
      <4>2. ProxyHost(UpstreamHost(heard.address)) = heard.address
        BY <2>5, <4>1, ProxyReadsHost DEF Names
      <4> QED
        BY <2>1, <3>4, <4>1, <4>2 DEF Names, Wanted
    <3> QED
      BY <2>1, <3>2, <3>3, <3>4, <3>5 DEF Reaches
  <2>6. CASE Proceeds
    <3>1. UNCHANGED <<sent, heard>>
      BY <2>6 DEF Proceeds, wireVars
    <3>2. SentNames'
      BY <2>1, <2>3, <3>1 DEF SentIs, Names
    <3>3. IsAscii(text) => HeardNames'
      <4>1. net'.pc \in Unconnected => net.pc \in {"dial", "method", "auth"}
        BY <2>6 DEF Proceeds
      <4> QED
        BY <2>1, <2>3, <3>1, <4>1 DEF Names, Unconnected
    <3> QED
      BY <2>5, <2>6, <3>2, <3>3
  <2>7. CASE Answers
    <3>1. sent'.type = "connect_response" /\ net'.pc \in Ended
      BY <2>7, MessageKinds DEF Answers
    <3>2. SentNames' /\ HeardNames'
      BY <3>1 DEF SentIs, Ended, Unconnected
    <3> QED
      BY <2>5, <2>7, <3>2
  <2> QED
    BY <2>1, <2>4, <2>6, <2>7
<1>5. CASE OtherStep
  <2>1. UNCHANGED <<ask, short, net, reached>>
    BY <1>0, <1>5, OtherStepDoes DEF OtherStep, netVars
  <2>2. SUFFICES ASSUME ask # None, ~ short
                 PROVE  SentNames' /\ (IsAscii(text) => HeardNames' /\ ReachedNames')
    BY <1>2, <2>1
  <2>3. SentNames /\ (IsAscii(text) => HeardNames /\ ReachedNames)
    BY <1>0, <1>1, <2>2, Zenon
  <2>4. UNCHANGED sent
    BY <1>5, <2>2 DEF OtherStep, ResponseArrives, GiveUp, End, ProgramLeaves, OtherMessage,
       OtherArrives, requestVars, wireVars
  <2>5. SentNames' /\ (IsAscii(text) => ReachedNames')
    BY <2>1, <2>3, <2>4 DEF SentIs, Names, Wanted
  <2>6. UNCHANGED heard \/ net.pc \in Ended
    <3>1. CASE ResponseArrives
      <4>1. wire # None /\ wire # Raises /\ wire.type = "connect_response"
        BY <3>1 DEF ResponseArrives
      <4> QED
        BY <1>0, <4>1, WireIsPacked DEF TurnsInv, SentIs
    <3>2. CASE OtherArrives
      <4>1. wire # None /\ wire # Raises /\ wire.type \notin {"connect", "connect_response"}
        BY <3>2 DEF OtherArrives
      <4> QED
        BY <1>0, <2>2, <4>1, WireIsPacked DEF TurnsInv
    <3>3. CASE GiveUp \/ ProgramLeaves \/ OtherMessage \/ UNCHANGED requestVars
      BY <3>3 DEF GiveUp, End, ProgramLeaves, OtherMessage, SendMessage, requestVars, wireVars
    <3> QED
      BY <1>5, <3>1, <3>2, <3>3 DEF OtherStep
  <2>7. IsAscii(text) => HeardNames'
    BY <2>1, <2>3, <2>6 DEF Names, Ended, Unconnected
  <2> QED
    BY <2>5, <2>7
<1> QED
  BY <1>3, <1>4, <1>5 DEF RequestNext, OtherStep

(***************************************************************************)
(* The reply of the proxy, field by field.                                 *)
(***************************************************************************)
LEMMA NetRecvWhole ==
  ASSUME NEW at, NEW data \in Chunks, NEW a \in Str, NEW b \in Str, RequestTyped,
         NetRecv(at, data), proxy = a \o b, net.need = Len(a), ~ cut'
  PROVE  data = a /\ Rest(data) = b /\ ~ cut /\ NetWhole(data)
<1>1. PICK k \in 0..Len(proxy) : data = SubSeq(proxy, 1, k)
  BY DEF Chunks
<1>2. Len(a) \in Nat /\ Len(b) \in Nat /\ Len(proxy) = Len(a) + Len(b) /\ proxy \in Str
  BY StrConcat
<1>3. Len(data) = k
  <2>1. 1 <= k + 1 /\ k <= Len(proxy) /\ k \in Nat /\ \A i \in 1..k : proxy[i] \in Nat
    BY <1>1, <1>2, ElementOfSeq DEF Str
  <2>2. Len(SubSeq(proxy, 1, k)) = IF 1 <= k THEN k - 1 + 1 ELSE 0
    BY <1>2, <2>1, SubSeqProperties
  <2> QED
    BY <1>1, <2>1, <2>2
<1>4. ~ (cut \/ Len(data) < net.need) /\ Len(data) <= net.need
  <2>1. cut' = (cut \/ Len(data) < net.need) /\ Len(data) <= net.need
    BY DEF NetRecv, Received
  <2> QED
    BY <2>1, Zenon
<1>5. k = Len(a) /\ ~ cut
  BY <1>1, <1>2, <1>3, <1>4
<1>6. data = SubSeq(a \o b, 1, Len(a)) /\ Rest(data) = Drop(a \o b, Len(a))
  BY <1>1, <1>3, <1>5 DEF Rest
<1> QED
  BY <1>3, <1>5, <1>6, StrDrop DEF NetWhole

(* The address that was bound, with its port, and the stream behind it.    *)
Bound(host) == (host \o <<0, 0>>) \o TargetData

(* The address in the reply of the upstream proxy.                         *)
LEMMA BoundTyped ==
  ASSUME NEW host \in Str
  PROVE  host \o <<0, 0>> \in Str /\ Bound(host) \in Str /\ TargetData \in Str /\ <<0, 0>> \in Str
         /\ Len(host \o <<0, 0>>) = Len(host) + 2
<1>1. <<0, 0>> \in Str /\ Len(<<0, 0>>) = 2
  BY DEF Str
<1>2. TargetData \in Str
  BY RequestAssumption
<1>3. host \o <<0, 0>> \in Str /\ Len(host \o <<0, 0>>) = Len(host) + 2
  BY <1>1, StrConcat
<1> QED
  BY <1>1, <1>2, <1>3, StrConcat DEF Bound

(* A reply, cut behind its header.                                         *)
LEMMA ReplyParts ==
  ASSUME NEW h \in Str, NEW host \in Str
  PROVE  ((h \o host) \o <<0, 0>>) \o TargetData = h \o Bound(host)
<1>1. TargetData \in Str /\ <<0, 0>> \in Str /\ host \o <<0, 0>> \in Str
  BY BoundTyped
<1>2. (h \o host) \o <<0, 0>> = h \o (host \o <<0, 0>>)
  BY <1>1, StrAssoc
<1>3. PICK y : y \in Str /\ y = host \o <<0, 0>>
  BY <1>1
<1>4. (h \o y) \o TargetData = h \o (y \o TargetData)
  BY SMTT(30), <1>1, <1>3, StrAssoc
<1> QED
  BY <1>2, <1>3, <1>4 DEF Bound

(* The headers of the replies.                                             *)
LEMMA ReplyStarts ==
  /\ \A atyp \in {1, 3, 4} : /\ <<5, 0, 0, atyp>> \in Str /\ Len(<<5, 0, 0, atyp>>) = 4
                             /\ <<5, 0, 0, atyp>>[1] = 5 /\ <<5, 0, 0, atyp>>[2] = 0
                             /\ <<5, 0, 0, atyp>>[4] = atyp
  /\ <<5, 5, 0, 1>> \in Str /\ Len(<<5, 5, 0, 1>>) = 4 /\ <<5, 5, 0, 1>>[2] = 5
  /\ <<1>> \in Str /\ Len(<<1>>) = 1 /\ <<1>>[1] = 1 /\ <<0, 0>> \in Str /\ Len(<<0, 0>>) = 2
  BY DEF Str

(* A reply of success, cut as it is read.                                  *)
LEMMA SuccessReply ==
  /\ ProxyReply(TRUE, 1) = <<5, 0, 0, 1>> \o Bound(<<1>>)
  /\ ProxyReply(TRUE, 4) = <<5, 0, 0, 4>> \o Bound(<<0, 0>>)
  /\ ProxyReply(TRUE, 3) = <<5, 0, 0, 3>> \o (<<1>> \o Bound(<<1>>))
<1>1. /\ <<5, 0, 0, 1>> \in Str /\ <<5, 0, 0, 3>> \in Str /\ <<5, 0, 0, 4>> \in Str
      /\ <<1>> \in Str /\ <<0, 0>> \in Str /\ Len(<<1>>) = 1
  BY ReplyStarts
<1>2. ProxyReply(TRUE, 1) = ((<<5, 0, 0, 1>> \o <<1>>) \o <<0, 0>>) \o TargetData
  BY DEF ProxyReply, HostField
<1>3. ProxyReply(TRUE, 4) = ((<<5, 0, 0, 4>> \o <<0, 0>>) \o <<0, 0>>) \o TargetData
  BY DEF ProxyReply, HostField
<1>4. ProxyReply(TRUE, 3) = ((<<5, 0, 0, 3>> \o (<<1>> \o <<1>>)) \o <<0, 0>>) \o TargetData
  BY <1>1 DEF ProxyReply, HostField, Prefixed
<1>5. PICK y : y \in Str /\ y = <<1>> \o <<1>>
  BY <1>1, StrConcat
<1>6. ((<<5, 0, 0, 3>> \o y) \o <<0, 0>>) \o TargetData = <<5, 0, 0, 3>> \o Bound(y)
  BY <1>1, <1>5, ReplyParts
<1>7. Bound(y) = <<1>> \o Bound(<<1>>)
  BY <1>1, <1>5, ReplyParts DEF Bound
<1> QED
  BY <1>1, <1>2, <1>3, <1>4, <1>5, <1>6, <1>7, ReplyParts

(* A reply of failure, cut behind its header.                              *)
LEMMA FailureReply ==
  \E b \in Str : ProxyReply(FALSE, 1) = <<5, 5, 0, 1>> \o b
<1>1. ProxyReply(FALSE, 1) = ((<<5, 5, 0, 1>> \o <<1>>) \o <<0, 0>>) \o <<>>
  BY DEF ProxyReply, HostField
<1>2. <<5, 5, 0, 1>> \in Str /\ <<1>> \in Str /\ <<0, 0>> \in Str
  BY ReplyStarts
<1>3. <<1>> \o <<0, 0>> \in Str /\ (<<5, 5, 0, 1>> \o <<1>>) \o <<0, 0>> \in Str
  BY <1>2, StrConcat
<1>4. (<<5, 5, 0, 1>> \o <<1>>) \o <<0, 0>> = <<5, 5, 0, 1>> \o (<<1>> \o <<0, 0>>)
  BY <1>2, StrAssoc
<1> QED
  BY <1>1, <1>3, <1>4, StrEmpty

(* The bytes still to be read of the reply of the upstream proxy.          *)
LEMMA ReplyNext ==
  ASSUME RequestInv, [RequestNext]_requestVars
  PROVE  ReplyInv'
<1>0. RequestTyped /\ NeedsFit /\ TurnsInv /\ WireInv /\ ReplyInv
  BY DEF RequestInv
<1>1. ASSUME UNCHANGED <<config, net, proxy, cut, reached>> PROVE ReplyInv'
  BY <1>0, <1>1 DEF ReplyInv
<1>2. CASE ReadRequest
  <2>1. UNCHANGED <<config, net, proxy, cut, reached>>
    BY <1>0, <1>2, ReadStep DEF netVars
  <2> QED
    BY <1>1, <2>1
<1>3. CASE OtherStep
  <2>1. UNCHANGED <<config, net, proxy, cut, reached>>
    BY <1>0, <1>3, OtherStepDoes DEF OtherStep, netVars
  <2> QED
    BY <1>1, <2>1
<1>4. ASSUME NetStep
      PROVE  /\ config' = config /\ cut \in BOOLEAN /\ proxy' \in Str
             /\ (~ cut' => ~ cut) /\ (net.pc \in Unconnected => reached = None)
             /\ proxy \in Str
  <2>1. config' = config /\ (cut => cut') /\ proxy' \in Str
    BY <1>0, <1>4, NetStepDoes DEF programVars
  <2> QED
    BY <1>0, <2>1 DEF RequestTyped, TurnsInv
<1>5. ASSUME NetFails PROVE net'.pc = "failed"
  BY <1>0, <1>5, NetGoesTo DEF NetFails, NetPcs
<1>6. ASSUME Connected PROVE net'.pc = "connected"
  BY <1>0, <1>6, NetGoesTo DEF Connected, NetPcs
<1>7. ASSUME NEW pc \in NoAnswerYet, NEW n \in Nat, Waits(pc, n)
      PROVE  net'.pc = pc /\ net'.need = n
  BY <1>0, <1>7, NetGoesTo DEF Waits, NoAnswerYet
<1>8. ASSUME net'.pc = "failed" PROVE ReplyInv'
  BY <1>8 DEF ReplyInv
<1>9. CASE ConnectArrives
  <2>1. wire # None /\ wire # Raises /\ wire.type = "connect" /\ UNCHANGED <<proxy, cut, reached>>
    BY <1>9 DEF ConnectArrives
  <2>2. net.pc = "idle"
    BY <1>0, <2>1, WireIsPacked DEF TurnsInv, SentIs
  <2>3. PICK pc \in {"failed", "dial", "direct"} : NetIs(pc, 0)
    BY <1>9 DEF ConnectArrives
  <2>4. net'.pc = pc
    BY <1>0, <2>3, NetGoesTo DEF NetPcs
  <2> QED
    BY <1>0, <2>1, <2>2, <2>4 DEF ReplyInv
<1>10. CASE DirectConnect
  <2>1. net.pc = "direct" /\ reached = None
    BY <1>4, <1>10 DEF DirectConnect, Unconnected, NetStep
  <2>2. CASE Connected
    <3>1. (UNCHANGED reached \/ proxy' = TargetData)
      BY <1>5, <1>6, <1>8, <1>10, <2>2 DEF DirectConnect
    <3> QED
      BY <1>6, <2>1, <2>2, <3>1 DEF ReplyInv
  <2> QED
    BY <1>5, <1>8, <1>10, <2>2 DEF DirectConnect
<1>11. CASE DialProxy
  <2>1. CASE DialSocks5
    <3>1. net'.pc = "method" /\ net'.need = 2
      BY <1>7, <2>1 DEF DialSocks5, NoAnswerYet, NetPcs
    <3>2. Len(proxy') = 2
      BY <2>1 DEF DialSocks5
    <3> QED
      BY <3>1, <3>2 DEF ReplyInv
  <2>2. CASE DialHttp
    <3>1. net'.pc = "http" /\ config.upstream = "http"
      BY <1>7, <2>2 DEF DialHttp, NoAnswerYet, NetPcs
    <3>2. config' = config
      BY <1>4, <1>11 DEF NetStep
    <3> QED
      BY <3>1, <3>2 DEF ReplyInv
  <2> QED
    BY <1>5, <1>8, <1>11, <2>1, <2>2 DEF DialProxy
<1>12. ASSUME NEW data, SendConnectRequest(data), NetStep,
              reached = None, ~ cut' => Rest(data) = <<>>
       PROVE  ReplyInv'
  <2>1. net'.pc = "reply" /\ net'.need = 4
    BY <1>7, <1>12 DEF SendConnectRequest, NoAnswerYet, NetPcs
  <2>2. ASSUME ~ cut'
        PROVE  \/ \E atyp \in {1, 3, 4} : proxy' = ProxyReply(TRUE, atyp)
               \/ proxy' = ProxyReply(FALSE, 1) /\ reached' = None
    <3>1. \/ \E atyp \in {1, 3, 4} : proxy' = <<>> \o ProxyReply(TRUE, atyp)
          \/ proxy' = <<>> \o ProxyReply(FALSE, 1) /\ reached' = None
      BY <1>12, <2>2 DEF SendConnectRequest
    <3> QED
      BY <3>1, ProxyReplyTyped, StrEmpty
  <2> QED
    BY <2>1, <2>2 DEF ReplyInv
<1>13. ASSUME NEW at \in {"method", "auth"}, NEW data \in Chunks, NetRecv(at, data),
              config.upstream # "http", NetStep
       PROVE  reached = None /\ (~ cut' => Rest(data) = <<>> /\ Len(data) = 2)
  <2>1. net.pc = at
    BY <1>13 DEF NetRecv
  <2>2. reached = None
    BY <1>4, <1>13, <2>1 DEF Unconnected
  <2>3. ASSUME ~ cut' PROVE Rest(data) = <<>> /\ Len(data) = 2
    <3>1. net.need = 2 /\ Len(proxy) = 2
      BY <1>0, <1>4, <1>13, <2>1, <2>3 DEF ReplyInv
    <3>2. proxy = proxy \o <<>> /\ <<>> \in Str
      BY <1>4, <1>13, StrEmpty
    <3>3. data = proxy /\ Rest(data) = <<>>
      BY <1>0, <1>4, <1>13, <2>3, <3>1, <3>2, NetRecvWhole
    <3> QED
      BY <3>1, <3>3
  <2> QED
    BY <2>2, <2>3
<1>14. ASSUME NetStep, config.upstream = "http", net'.pc \notin {"idle", "direct", "dial"}
       PROVE  ReplyInv'
  BY <1>4, <1>14 DEF ReplyInv
<1>15. CASE MethodChosen
  <2>1. PICK data \in Chunks :
          /\ NetRecv("method", data)
          /\ \/ /\ Waits("auth", 2)
                /\ proxy' \in {Rest(data) \o <<1, 0>>, Rest(data) \o <<1, 1>>}
             \/ SendConnectRequest(data)
             \/ NetFails
    BY <1>15 DEF MethodChosen
  <2>2. CASE config.upstream = "http"
    <3>1. net'.pc \in {"auth", "reply", "failed"}
      BY <1>5, <1>7, <2>1 DEF SendConnectRequest, NoAnswerYet, NetPcs
    <3> QED
      BY <1>14, <1>15, <2>2, <3>1 DEF NetStep
  <2>3. CASE config.upstream # "http"
    <3>1. reached = None /\ (~ cut' => Rest(data) = <<>> /\ Len(data) = 2)
      BY <1>13, <1>15, <2>1, <2>3 DEF NetStep
    <3>2. CASE /\ Waits("auth", 2)
               /\ proxy' \in {Rest(data) \o <<1, 0>>, Rest(data) \o <<1, 1>>}
      <4>1. net'.pc = "auth" /\ net'.need = 2
        BY <1>7, <3>2 DEF NoAnswerYet, NetPcs
      <4>2. \A i \in {0, 1} : <<1, i>> \in Str /\ Len(<<1, i>>) = 2
        BY DEF Str
      <4>3. ~ cut' => Len(proxy') = 2
        BY <3>1, <3>2, <4>2, StrEmpty
      <4> QED
        BY <4>1, <4>3 DEF ReplyInv
    <3>3. CASE SendConnectRequest(data)
      BY <1>12, <1>15, <3>1, <3>3 DEF NetStep
    <3> QED
      BY <1>5, <1>8, <2>1, <3>2, <3>3
  <2> QED
    BY <2>2, <2>3
<1>16. CASE Authenticated
  <2>1. PICK data \in Chunks :
          NetRecv("auth", data) /\ (SendConnectRequest(data) \/ NetFails)
    BY <1>16 DEF Authenticated
  <2>2. CASE config.upstream = "http"
    <3>1. net'.pc \in {"reply", "failed"}
      BY <1>5, <1>7, <2>1 DEF SendConnectRequest, NoAnswerYet, NetPcs
    <3> QED
      BY <1>14, <1>16, <2>2, <3>1 DEF NetStep
  <2>3. CASE config.upstream # "http"
    <3>1. reached = None /\ (~ cut' => Rest(data) = <<>> /\ Len(data) = 2)
      BY <1>13, <1>16, <2>1, <2>3 DEF NetStep
    <3> QED
      BY <1>5, <1>8, <1>12, <1>16, <2>1, <3>1 DEF NetStep
  <2> QED
    BY <2>2, <2>3
<1>17. CASE ProxyReplies
  <2>1. PICK data \in Chunks :
          /\ NetRecv("reply", data)
          /\ \/ /\ NetWhole(data) /\ data[1] = 5 /\ data[2] = 0
                /\ Waits(IF data[4] = 3 THEN "blen" ELSE "skip",
                         IF data[4] = 3 THEN 1 ELSE IF data[4] = 1 THEN 3 ELSE 4)
                /\ proxy' = Rest(data) /\ UNCHANGED reached
             \/ NetFails
    BY <1>17 DEF ProxyReplies
  <2>2. CASE NetFails
    BY <1>5, <1>8, <2>2
  <2>3. CASE /\ NetWhole(data) /\ data[1] = 5 /\ data[2] = 0
             /\ Waits(IF data[4] = 3 THEN "blen" ELSE "skip",
                      IF data[4] = 3 THEN 1 ELSE IF data[4] = 1 THEN 3 ELSE 4)
             /\ proxy' = Rest(data) /\ UNCHANGED reached
    <3>1. /\ net'.pc = IF data[4] = 3 THEN "blen" ELSE "skip"
          /\ net'.need = IF data[4] = 3 THEN 1 ELSE IF data[4] = 1 THEN 3 ELSE 4
      BY <1>7, <2>3 DEF NoAnswerYet, NetPcs
    <3>2. CASE config.upstream = "http"
      BY <1>14, <1>17, <3>1, <3>2 DEF NetStep
    <3>3. CASE config.upstream # "http" /\ cut'
      BY <3>1, <3>3 DEF ReplyInv
    <3>4. CASE config.upstream # "http" /\ ~ cut'
      <4>1. net.pc = "reply" /\ NetStep
        BY <1>17, <2>1 DEF NetRecv, NetStep
      <4>2. /\ net.need = 4
            /\ \/ \E atyp \in {1, 3, 4} : proxy = ProxyReply(TRUE, atyp)
               \/ proxy = ProxyReply(FALSE, 1) /\ reached = None
        BY <1>0, <1>4, <3>4, <4>1 DEF ReplyInv
      <4>3. ASSUME NEW a \in Str, NEW b \in Str, proxy = a \o b, Len(a) = 4
            PROVE  data = a /\ proxy' = b
        BY <1>0, <2>1, <2>3, <3>4, <4>2, <4>3, NetRecvWhole
      <4>4. CASE proxy = ProxyReply(FALSE, 1)
        <5>1. PICK b \in Str : proxy = <<5, 5, 0, 1>> \o b
          BY <4>4, FailureReply
        <5>2. data = <<5, 5, 0, 1>>
          BY <4>3, <5>1, ReplyStarts
        <5> QED
          BY <2>3, <5>2, ReplyStarts
      <4>5. /\ \A atyp \in {1, 3, 4} : <<5, 0, 0, atyp>> \in Str /\ Len(<<5, 0, 0, atyp>>) = 4
                                       /\ <<5, 0, 0, atyp>>[4] = atyp
            /\ <<1>> \in Str /\ <<0, 0>> \in Str /\ Len(<<1>>) = 1 /\ Len(<<0, 0>>) = 2
        BY ReplyStarts
      <4>6. \A host \in Str : /\ Bound(host) \in Str /\ host \o <<0, 0>> \in Str
                              /\ Len(host \o <<0, 0>>) = Len(host) + 2
        BY BoundTyped
      <4>7. CASE proxy = ProxyReply(TRUE, 1)
        <5>1. proxy = <<5, 0, 0, 1>> \o Bound(<<1>>)
          BY <4>7, SuccessReply
        <5>2. data = <<5, 0, 0, 1>> /\ proxy' = Bound(<<1>>)
          BY <4>3, <4>5, <4>6, <5>1
        <5>3. net'.pc = "skip" /\ net'.need = 3
          BY <3>1, <4>5, <5>2
        <5>4. \E b \in Str : Len(b) = 3 /\ proxy' = b \o TargetData
          <6>1. <<1>> \o <<0, 0>> \in Str /\ Len(<<1>> \o <<0, 0>>) = 3
            BY <4>5, <4>6
          <6> QED
            BY <5>2, <6>1 DEF Bound
        <5> QED
          BY <5>3, <5>4 DEF ReplyInv
      <4>8. CASE proxy = ProxyReply(TRUE, 4)
        <5>1. proxy = <<5, 0, 0, 4>> \o Bound(<<0, 0>>)
          BY <4>8, SuccessReply
        <5>2. data = <<5, 0, 0, 4>> /\ proxy' = Bound(<<0, 0>>)
          BY <4>3, <4>5, <4>6, <5>1
        <5>3. net'.pc = "skip" /\ net'.need = 4
          BY <3>1, <4>5, <5>2
        <5>4. \E b \in Str : Len(b) = 4 /\ proxy' = b \o TargetData
          <6>1. <<0, 0>> \o <<0, 0>> \in Str /\ Len(<<0, 0>> \o <<0, 0>>) = 4
            BY <4>5, <4>6
          <6> QED
            BY <5>2, <6>1 DEF Bound
        <5> QED
          BY <5>3, <5>4 DEF ReplyInv
      <4>9. CASE proxy = ProxyReply(TRUE, 3)
        <5>1. proxy = <<5, 0, 0, 3>> \o (<<1>> \o Bound(<<1>>))
          BY <4>9, SuccessReply
        <5>2. <<1>> \o Bound(<<1>>) \in Str
          BY <4>5, <4>6, StrConcat
        <5>3. data = <<5, 0, 0, 3>> /\ proxy' = <<1>> \o Bound(<<1>>)
          BY <4>3, <4>5, <5>1, <5>2
        <5>4. net'.pc = "blen" /\ net'.need = 1
          BY <3>1, <4>5, <5>3
        <5> QED
          BY <5>3, <5>4 DEF ReplyInv, Bound
      <4> QED
        BY <4>2, <4>4, <4>7, <4>8, <4>9
    <3> QED
      BY <3>2, <3>3, <3>4
  <2> QED
    BY <2>1, <2>2, <2>3
<1>18. CASE BindLength
  <2>1. PICK data \in Chunks :
          /\ NetRecv("blen", data)
          /\ NetFails \/ (data # <<>> /\ Waits("skip", data[1] + 2) /\ proxy' = Rest(data))
    BY <1>18 DEF BindLength
  <2> SUFFICES ASSUME data # <<>>, Waits("skip", data[1] + 2), proxy' = Rest(data)
               PROVE  ReplyInv'
    BY <1>5, <1>8, <2>1
  <2>2. net.pc = "blen" /\ NetStep
    BY <1>18, <2>1 DEF NetRecv, NetStep
  <2>3. data[1] + 2 \in Nat
    <3>1. Len(data) >= 1 /\ Len(data) \in Nat /\ \A i \in 1..Len(data) : data[i] \in Nat
      BY <1>4, <2>2, ChunkTyped, ChunkNotEmpty
    <3> QED
      BY <3>1
  <2>4. net'.pc = "skip" /\ net'.need = data[1] + 2
    BY <1>7, <2>1, <2>3 DEF NoAnswerYet, NetPcs
  <2>5. CASE config.upstream = "http"
    BY <1>14, <2>2, <2>4, <2>5
  <2>6. CASE config.upstream # "http" /\ cut'
    BY <2>4, <2>6 DEF ReplyInv
  <2>7. CASE config.upstream # "http" /\ ~ cut'
    <3>1. net.need = 1 /\ proxy = <<1>> \o Bound(<<1>>)
      BY <1>0, <1>4, <2>2, <2>7 DEF ReplyInv, Bound
    <3>2. <<1>> \in Str /\ Len(<<1>>) = 1 /\ <<1>>[1] = 1
      BY ReplyStarts
    <3>3. Bound(<<1>>) \in Str /\ <<1>> \o <<0, 0>> \in Str /\ Len(<<1>> \o <<0, 0>>) = 3
      BY <3>2, BoundTyped
    <3>4. data = <<1>> /\ proxy' = Bound(<<1>>)
      BY <1>0, <2>1, <2>7, <3>1, <3>2, <3>3, NetRecvWhole
    <3>5. net'.need = 3
      BY <2>4, <3>2, <3>4
    <3>6. \E b \in Str : Len(b) = 3 /\ proxy' = b \o TargetData
      BY <3>3, <3>4 DEF Bound
    <3> QED
      BY <2>4, <3>5, <3>6 DEF ReplyInv
  <2> QED
    BY <2>5, <2>6, <2>7
<1>19. CASE SkipBind
  <2>1. PICK data \in Chunks :
          NetRecv("skip", data) /\ Connected /\ proxy' = Rest(data) /\ UNCHANGED reached
    BY <1>19 DEF SkipBind
  <2>2. net.pc = "skip" /\ NetStep /\ net'.pc = "connected"
    BY <1>6, <1>19, <2>1 DEF NetRecv, NetStep
  <2>3. CASE config.upstream = "http"
    BY <1>14, <2>2, <2>3
  <2>4. CASE config.upstream # "http" /\ cut'
    BY <2>2, <2>4 DEF ReplyInv
  <2>5. CASE config.upstream # "http" /\ ~ cut'
    <3>1. PICK b \in Str : Len(b) = net.need /\ proxy = b \o TargetData
      BY <1>0, <1>4, <2>2, <2>5 DEF ReplyInv
    <3>2. proxy' = TargetData
      BY <1>0, <2>1, <2>5, <3>1, NetRecvWhole, RequestAssumption
    <3> QED
      BY <2>2, <3>2 DEF ReplyInv
  <2> QED
    BY <2>3, <2>4, <2>5
<1>20. CASE HttpReply
  <2>1. net.pc = "http" /\ NetStep
    BY <1>20 DEF HttpReply, NetStep
  <2>2. config.upstream = "http"
    BY <1>0, <2>1 DEF ReplyInv
  <2>3. net'.pc \in {"http", "connected", "failed"}
    <3>1. \/ \E h : net' = [net EXCEPT !.head = h]
          \/ Connected \/ NetFails
      BY <1>20 DEF HttpReply
    <3>2. net \in NetRecord
      BY <1>0 DEF RequestTyped
    <3> QED
      BY <1>5, <1>6, <2>1, <3>1, <3>2 DEF NetRecord
  <2> QED
    BY <1>14, <2>1, <2>2, <2>3
<1>21. CASE ProxyCloses
  <2>1. /\ net' = net /\ cut' = TRUE
        /\ net.pc \in {"method", "auth", "reply", "blen", "skip", "http"}
    BY <1>21 DEF ProxyCloses
  <2>2. config' = config
    BY <1>4, <1>21 DEF NetStep
  <2> QED
    BY <1>0, <2>1, <2>2 DEF ReplyInv
<1> QED
  BY <1>2, <1>3, <1>9, <1>10, <1>11, <1>15, <1>16, <1>17, <1>18, <1>19, <1>20, <1>21
     DEF RequestNext, OtherStep, NetStep

(***************************************************************************)
(* The invariant, and what follows from it.                                *)
(***************************************************************************)
LEMMA InitHolds ==
  ASSUME RequestInit
  PROVE  RequestInv
<1>1. /\ config \in Configs /\ ask \in Asks \cup {None}
      /\ input = IF ask = None THEN <<>> ELSE ProgramBytes(ask, config)
      /\ left = FALSE /\ short = FALSE /\ cut = FALSE
      /\ req = [pc |-> IF config.refuse THEN "refuse" ELSE "greeting",
                need |-> IF config.refuse THEN 1024 ELSE 2, text |-> <<>>, got |-> "nothing"]
      /\ sent = None /\ wire = None /\ heard = None
      /\ net = [pc |-> "idle", need |-> 0, head |-> <<>>]
      /\ proxy = <<>> /\ reached = None
  BY DEF RequestInit
<1>2. input \in Str
  BY <1>1, StrEmpty, ProgramBytesAre
<1>3. /\ req.pc \in {"refuse", "greeting"} /\ req.got = "nothing" /\ req.text = <<>>
      /\ req.need \in {2, 1024} /\ (req.pc = "greeting" => req.need = 2)
      /\ req \in ReqRecord
  BY <1>1, StrEmpty DEF ReqRecord, Handshake, Refusal
<1>4. net \in NetRecord /\ net.pc = "idle"
  BY <1>1, StrEmpty DEF NetRecord, NetPcs
<1>5. RequestTyped /\ NeedsFit
  BY <1>1, <1>2, <1>3, <1>4, StrEmpty DEF RequestTyped, NeedsFit
<1>6. WireInv /\ TurnsInv
  BY <1>1, <1>3, <1>4 DEF WireInv, TurnsInv, SentIs
<1>7. HandshakeInv
  <2>1. ask # None => input = <<5, Len(ask.methods)>> \o (ask.methods \o AfterMethods(ask, config))
    BY <1>1, ProgramBytesAre
  <2> DEFINE start == <<5, Len(ask.methods)>> \o (ask.methods \o AfterMethods(ask, config))
  <2> HIDE DEF start
  <2>2. ask # None => input = start
    BY <2>1 DEF start
  <2>3. CASE req.pc = "refuse"
    BY <2>3 DEF HandshakeInv, HandshakeAt
  <2>4. CASE req.pc = "greeting"
    BY <2>2, <2>4 DEF HandshakeInv, HandshakeAt, start
  <2> QED
    BY <1>3, <2>3, <2>4
<1>8. CredentialsInv /\ AddressInv /\ ReplyInv
  BY <1>1, <1>3, <1>4 DEF CredentialsInv, AddressInv, ReplyInv, SentIs, Admitted
<1> QED
  BY <1>5, <1>6, <1>7, <1>8 DEF RequestInv

(***************************************************************************)
(* Every state of a request satisfies the inductive invariant              *)
(* (relay.py:179-430, 1009-1087; message.py:202-507).                      *)
(***************************************************************************)
THEOREM RequestInvariant == RequestSpec => []RequestInv
<1>1. ASSUME RequestInv, [RequestNext]_requestVars PROVE RequestInv'
  BY <1>1, TypedNext, WireNext, TurnsNext, HandshakeNext, CredentialsNext, AddressNext, ReplyNext
     DEF RequestInv
<1> QED
  BY <1>1, InitHolds, PTL DEF RequestSpec

(***************************************************************************)
(* Every message that can be packed arrives as it was sent                 *)
(* (message.py:202-309, 312-507).                                          *)
(***************************************************************************)
THEOREM RoundTripTheorem == RequestSpec => []RoundTrip
<1>1. ASSUME RequestInv PROVE RoundTrip
  <2> SUFFICES ASSUME sent # None, wire = None, Sendable(sent) PROVE heard = Delivered(sent)
    BY DEF RoundTrip
  <2>1. sent \in Message
    BY <1>1 DEF RequestInv, WireInv
  <2>2. Pack(sent) # None
    BY <2>1, PackKinds
  <2>3. Pack(sent) # Raises /\ heard = Parse(Pack(sent))
    BY <1>1, <2>2 DEF RequestInv, WireInv
  <2> QED
    BY <2>1, <2>3, PackKinds
<1> QED
  BY <1>1, RequestInvariant, PTL

(***************************************************************************)
(* The connection leads to the host and port that the program asked for,   *)
(* directly or through a SOCKS5 or HTTP proxy, in every handshake of which *)
(* no field was cut in two (relay.py:317-338, 1027-1051, 1114-1115;        *)
(* message.py:224-229, 353-361).                                           *)
(***************************************************************************)
THEOREM AddressTheorem == RequestSpec => []ConnectsAsAsked
<1>1. ASSUME RequestInv PROVE ConnectsAsAsked
  <2> SUFFICES ASSUME reached # None, ~ short, IsAscii(HostText(ask.atyp, ask.host))
               PROVE  reached = [host |-> HostText(ask.atyp, ask.host), port |-> ask.port]
    BY DEF ConnectsAsAsked
  <2>1. ask # None
    BY <1>1 DEF RequestInv, TurnsInv, Unconnected
  <2> QED
    BY <1>1, <2>1 DEF RequestInv, AddressInv, Wanted
<1> QED
  BY <1>1, RequestInvariant, PTL

(***************************************************************************)
(* The relay starts at the first byte of the target, behind the reply of   *)
(* the SOCKS5 proxy (relay.py:1053-1070).                                  *)
(***************************************************************************)
THEOREM StreamTheorem == RequestSpec => []StreamStartsAfterReply
<1>1. ASSUME RequestInv PROVE StreamStartsAfterReply
  BY <1>1 DEF RequestInv, ReplyInv, StreamStartsAfterReply
<1> QED
  BY <1>1, RequestInvariant, PTL

(***************************************************************************)
(* Success is reported only after the net side has connected, and nobody   *)
(* gets there without the credentials (relay.py:261-288, 365-386).         *)
(***************************************************************************)
THEOREM SuccessTheorem == RequestSpec => []SuccessIsEarned
<1>1. ASSUME RequestInv PROVE SuccessIsEarned
  <2>1. net.pc # "idle" => ask # None
    BY <1>1 DEF RequestInv, TurnsInv
  <2> QED
    BY <1>1, <2>1 DEF RequestInv, TurnsInv, CredentialsInv, Known, SuccessIsEarned, SentIs
<1> QED
  BY <1>1, RequestInvariant, PTL
=============================================================================
