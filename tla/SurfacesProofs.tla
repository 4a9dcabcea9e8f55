---------------------------- MODULE SurfacesProofs ----------------------------
(***************************************************************************)
(* Theorems about the parts of the server that share no state with others:  *)
(* the feed of a channel, the accounts and what they own, the contract      *)
(* loops and the turn of a child; each for any number of clients, accounts, *)
(* loops and runs, and the turn for any outputs and chunks.                 *)
(***************************************************************************)
EXTENDS ContractLoop, ChannelFeed, Workspace, ClaudeTurn, SequenceTheorems,
        FiniteSetTheorems, WellFoundedInduction, TLAPS

-----------------------------------------------------------------------------
(* Sets of numbers, and sequences one after the other. *)

\* A set of natural numbers that is not empty has a least one.
LEMMA LeastIs ==
  ASSUME NEW S \in SUBSET Nat, S # {}
  PROVE  Least(S) \in S /\ \A m \in S : Least(S) <= m
<1> DEFINE below == OpToRel(<, Nat)
<1>1. \A x, y \in Nat : <<y, x>> \in below <=> y < x
  BY DEF OpToRel
<1>2. IsWellFoundedOn(below, Nat)
  BY NatLessThanWellFounded
<1> HIDE DEF below
<1>3. PICK x \in S : \A y \in S : ~(<<y, x>> \in below)
  BY <1>2, WFMin, Zenon
<1>4. ASSUME NEW y \in S PROVE x <= y
  <2>1. ~(y < x)
    BY <1>1, <1>3
  <2> QED
    BY <2>1
<1> QED
  BY <1>4 DEF Least

LEMMA Induction ==
  ASSUME NEW S \in SUBSET Nat, 0 \in S, \A n \in S : n + 1 \in S PROVE \A n \in Nat : n \in S
<1> DEFINE out == {n \in Nat : n \notin S}
<1>1. out = {}
  <2> SUFFICES ASSUME out # {} PROVE FALSE
    OBVIOUS
  <2>1. out \in SUBSET Nat
    OBVIOUS
  <2>2. PICK m \in out : \A k \in out : m <= k
    <3> HIDE DEF out
    <3> QED
      BY <2>1, LeastIs
  <2>3. m \in Nat /\ m # 0
    OBVIOUS
  <2>4. PICK k \in Nat : m = k + 1
    BY <2>3
  <2>5. k \notin out
    <3> HIDE DEF out
    <3> QED
      BY <2>2, <2>4
  <2> QED
    BY <2>4, <2>5
<1> QED
  BY <1>1

LEMMA SingleSeq == ASSUME NEW S, NEW x \in S PROVE <<x>> \in Seq(S)
OBVIOUS

LEMMA SeqGrows == ASSUME NEW S, NEW T, S \subseteq T, NEW s \in Seq(S) PROVE s \in Seq(T)
<1>1. Len(s) \in Nat /\ s \in [1 .. Len(s) -> S]
  BY LenProperties
<1>2. s \in [1 .. Len(s) -> T]
  BY <1>1
<1> QED
  BY <1>1, <1>2, SeqDef

\* f[i] is the first i of the sequences of s, one after the other.
IsFlat(T, f, s) ==
  /\ f \in [0 .. Len(s) -> Seq(T)] /\ f[0] = <<>>
  /\ \A i \in 1 .. Len(s) : f[i] = f[i - 1] \o s[i]

\* Flattening goes one sequence at a time; the first n for which it could not do so
\* would have a predecessor for which it can.
LEMMA FlatExists == ASSUME NEW T, NEW s \in Seq(Seq(T)) PROVE \E f : IsFlat(T, f, s)
<1>1. Len(s) \in Nat /\ DOMAIN s = 1 .. Len(s) /\ \A i \in 1 .. Len(s) : s[i] \in Seq(T)
  BY LenProperties, ElementOfSeq
<1>2. PICK len \in Nat : len = Len(s)
  BY <1>1
<1> DEFINE Upto(n) == \E f \in [0 .. n -> Seq(T)] :
                        f[0] = <<>> /\ \A i \in 1 .. n : f[i] = f[i - 1] \o s[i]
           bad == {n \in 0 .. len : ~Upto(n)}
<1>3. Upto(0)
  <2>1. <<>> \in Seq(T)
    BY EmptySeq
  <2> DEFINE f == [i \in 0 .. 0 |-> <<>>]
  <2>2. f \in [0 .. 0 -> Seq(T)] /\ f[0] = <<>> /\ \A i \in 1 .. 0 : FALSE
    BY <2>1
  <2> QED
    BY <2>2
<1>4. ASSUME NEW n \in Nat, n < len, Upto(n) PROVE Upto(n + 1)
  <2>1. PICK f \in [0 .. n -> Seq(T)] : f[0] = <<>> /\ \A i \in 1 .. n : f[i] = f[i - 1] \o s[i]
    BY <1>4
  <2>2. n + 1 \in 1 .. Len(s) /\ f[n] \in Seq(T)
    BY <1>2, <1>4, <2>1
  <2>3. f[n] \o s[n + 1] \in Seq(T)
    BY <1>1, <2>2, ConcatProperties
  <2> DEFINE g == [i \in 0 .. n + 1 |-> IF i = n + 1 THEN f[n] \o s[n + 1] ELSE f[i]]
  <2>4. g \in [0 .. n + 1 -> Seq(T)]
    BY <1>4, <2>1, <2>3
  <2>7. \A i \in 0 .. n + 1 : g[i] = IF i = n + 1 THEN f[n] \o s[n + 1] ELSE f[i]
    OBVIOUS
  <2> HIDE DEF g
  <2>5. g[0] = <<>>
    <3>1. 0 \in 0 .. n + 1 /\ 0 # n + 1
      OBVIOUS
    <3> QED
      BY <2>1, <2>7, <3>1
  <2>6. ASSUME NEW i \in 1 .. n + 1 PROVE g[i] = g[i - 1] \o s[i]
    <3>1. CASE i = n + 1
      <4>2. i - 1 = n /\ n \in 0 .. n + 1 /\ n + 1 \in 0 .. n + 1 /\ n # n + 1
        BY <3>1
      <4>1. i - 1 = n /\ g[n] = f[n] /\ g[n + 1] = f[n] \o s[n + 1]
        BY <2>7, <4>2
      <4> QED
        BY <3>1, <4>1
    <3>2. CASE i # n + 1
      <4>1. i \in 1 .. n /\ i - 1 \in 0 .. n
        BY <1>4, <3>2
      <4>3. i \in 0 .. n + 1 /\ i - 1 \in 0 .. n + 1 /\ i # n + 1 /\ i - 1 # n + 1
        BY <4>1
      <4>2. g[i] = f[i] /\ g[i - 1] = f[i - 1]
        BY <2>7, <4>3
      <4> QED
        BY <2>1, <4>1, <4>2
    <3> QED
      BY <3>1, <3>2
  <2> QED
    BY <2>4, <2>5, <2>6
<1> HIDE DEF Upto
<1>5. bad = {}
  <2> SUFFICES ASSUME bad # {} PROVE FALSE
    OBVIOUS
  <2>1. bad \in SUBSET Nat
    OBVIOUS
  <2>2. PICK m \in bad : \A k \in bad : m <= k
    BY <2>1, LeastIs
  <2>3. m # 0 /\ m \in Nat /\ m <= len /\ ~Upto(m)
    BY <1>3, <2>2
  <2>4. PICK n \in Nat : m = n + 1
    BY <2>3
  <2>5. n \notin bad /\ n < len
    BY <2>2, <2>3, <2>4
  <2>6. Upto(n)
    BY <2>5
  <2> QED
    BY <1>4, <2>3, <2>4, <2>5, <2>6
<1>6. Upto(len)
  BY <1>5
<1> QED
  BY <1>2, <1>6 DEF Upto, IsFlat

Unfolds(g, s) == g = [i \in 1 .. Len(s) |-> IF i = 1 THEN s[i] ELSE g[i - 1] \o s[i]]

\* FlattenSeq chooses a function that unfolds s, if there is one.
LEMMA FlattenUnfolds ==
  ASSUME NEW s, Len(s) # 0, NEW f, Unfolds(f, s)
  PROVE  \E g : Unfolds(g, s) /\ FlattenSeq(s) = g[Len(s)]
BY DEF FlattenSeq, Unfolds

\* The whole is what is flattened.
LEMMA FlattenIs ==
  ASSUME NEW T, NEW s \in Seq(Seq(T)), NEW f, IsFlat(T, f, s)
  PROVE  FlattenSeq(s) = f[Len(s)]
<1>1. Len(s) \in Nat /\ DOMAIN s = 1 .. Len(s) /\ \A i \in 1 .. Len(s) : s[i] \in Seq(T)
  BY LenProperties, ElementOfSeq
<1>2. PICK len \in Nat : len = Len(s)
  BY <1>1
<1>3. CASE len = 0
  <2>1. s = <<>>
    BY <1>2, <1>3, EmptySeq
  <2> QED
    BY <1>2, <1>3, <2>1 DEF FlattenSeq, IsFlat
<1>4. CASE len # 0
  <2> DEFINE h == [i \in 1 .. Len(s) |-> f[i]]
  <2>1. f[1] = s[1]
    <3>1. 1 \in 1 .. Len(s) /\ s[1] \in Seq(T) /\ f[0] = <<>>
      BY <1>1, <1>2, <1>4 DEF IsFlat
    <3>2. f[1] = f[0] \o s[1]
      <4>1. 1 - 1 = 0
        OBVIOUS
      <4> QED
        BY <3>1, <4>1 DEF IsFlat
    <3> QED
      BY <3>1, <3>2, ConcatEmptySeq
  <2>2. ASSUME NEW i \in 1 .. Len(s)
        PROVE  h[i] = IF i = 1 THEN s[i] ELSE h[i - 1] \o s[i]
    <3>1. CASE i = 1
      BY <2>1, <3>1
    <3>2. CASE i # 1
      <4>1. i - 1 \in 1 .. Len(s)
        BY <1>1, <3>2
      <4> QED
        BY <3>2, <4>1 DEF IsFlat
    <3> QED
      BY <3>1, <3>2
  <2>3. Unfolds(h, s)
    BY <2>2 DEF Unfolds
  <2> HIDE DEF h
  <2>4. PICK g : Unfolds(g, s) /\ FlattenSeq(s) = g[Len(s)]
    <3>1. Len(s) # 0
      BY <1>2, <1>4
    <3> QED
      BY <2>3, <3>1, FlattenUnfolds
  <2>5. /\ g[1] = s[1]
        /\ \A i \in 1 .. len : i # 1 => g[i] = g[i - 1] \o s[i]
    <3>1. \A i \in 1 .. len : g[i] = IF i = 1 THEN s[i] ELSE g[i - 1] \o s[i]
      BY <1>2, <2>4, Zenon DEF Unfolds
    <3>2. 1 \in 1 .. len
      BY <1>4
    <3> QED
      BY <3>1, <3>2
  <2> DEFINE bad == {i \in 1 .. len : g[i] # f[i]}
  <2>6. bad = {}
    <3> SUFFICES ASSUME bad # {} PROVE FALSE
      OBVIOUS
    <3>1. bad \in SUBSET Nat
      OBVIOUS
    <3>2. PICK m \in bad : \A k \in bad : m <= k
      BY <3>1, LeastIs
    <3>3. m # 1 /\ m \in 1 .. len
      BY <2>1, <2>5, <3>2
    <3>4. m - 1 \in 1 .. len /\ m - 1 \notin bad
      BY <3>2, <3>3
    <3>5. f[m] = f[m - 1] \o s[m]
      BY <1>2, <3>3 DEF IsFlat
    <3> QED
      BY <2>5, <3>2, <3>3, <3>4, <3>5
  <2> QED
    BY <1>2, <1>4, <2>4, <2>6
<1> QED
  BY <1>3, <1>4

LEMMA FunSeq ==
  ASSUME NEW n \in Nat, NEW S, NEW f \in [1 .. n -> S]
  PROVE  f \in Seq(S) /\ Len(f) = n /\ DOMAIN f = 1 .. n
<1>1. f \in Seq(S)
  BY SeqDef
<1>2. DOMAIN f = 1 .. n /\ DOMAIN f = 1 .. Len(f) /\ Len(f) \in Nat
  BY <1>1, LenProperties
<1>3. Len(f) = n
  BY <1>2
<1> QED
  BY <1>1, <1>2, <1>3

LEMMA FlattenTyped == ASSUME NEW T, NEW s \in Seq(Seq(T)) PROVE FlattenSeq(s) \in Seq(T)
<1>1. PICK f : IsFlat(T, f, s)
  BY FlatExists
<1>2. Len(s) \in Nat
  BY LenProperties
<1>3. f[Len(s)] \in Seq(T)
  BY <1>1, <1>2 DEF IsFlat
<1> QED
  BY <1>1, <1>3, FlattenIs

\* Flattening two sequences one after the other.
LEMMA FlattenConcat ==
  ASSUME NEW T, NEW s \in Seq(Seq(T)), NEW t \in Seq(Seq(T))
  PROVE  FlattenSeq(s \o t) = FlattenSeq(s) \o FlattenSeq(t)
<1>1. PICK m \in Nat : m = Len(s)
  BY LenProperties
<1>2. PICK n \in Nat : n = Len(t)
  BY LenProperties
<1>3. PICK f : IsFlat(T, f, s)
  BY FlatExists
<1>4. PICK g : IsFlat(T, g, t)
  BY FlatExists
<1>5. PICK u \in Seq(Seq(T)) : u = s \o t
  BY ConcatProperties
<1>6. /\ Len(u) = m + n
      /\ \A i \in 1 .. m + n : u[i] = IF i <= m THEN s[i] ELSE t[i - m]
  BY <1>1, <1>2, <1>5, ConcatProperties
<1>7. /\ \A i \in 0 .. m : f[i] \in Seq(T)
      /\ f[0] = <<>> /\ \A i \in 1 .. m : f[i] = f[i - 1] \o s[i]
  BY <1>1, <1>3 DEF IsFlat
<1>8. /\ \A i \in 0 .. n : g[i] \in Seq(T)
      /\ g[0] = <<>> /\ \A i \in 1 .. n : g[i] = g[i - 1] \o t[i]
  BY <1>2, <1>4 DEF IsFlat
<1>t. \A i \in 1 .. n : t[i] \in Seq(T)
  BY <1>2, ElementOfSeq
<1> DEFINE h == [i \in 0 .. m + n |-> IF i <= m THEN f[i] ELSE f[m] \o g[i - m]]
<1>h. \A i \in 0 .. m + n : h[i] = IF i <= m THEN f[i] ELSE f[m] \o g[i - m]
  OBVIOUS
<1>9. ASSUME NEW i \in 0 .. m + n PROVE h[i] \in Seq(T)
  <2>1. CASE i <= m
    BY <1>7, <2>1
  <2>2. CASE ~(i <= m)
    <3>1. f[m] \in Seq(T) /\ g[i - m] \in Seq(T)
      <4>1. m \in 0 .. m /\ i - m \in 0 .. n
        BY <2>2
      <4> HIDE DEF h
      <4> QED
        BY <1>7, <1>8, <4>1
    <3>2. PICK x \in Seq(T), y \in Seq(T) : x = f[m] /\ y = g[i - m]
      BY <3>1
    <3>3. x \o y \in Seq(T)
      <4> HIDE DEF h
      <4> QED
        BY ConcatProperties
    <3> QED
      BY <2>2, <3>2, <3>3
  <2> QED
    BY <2>1, <2>2
<1>13. h \in [0 .. m + n -> Seq(T)]
  BY <1>9
<1> HIDE DEF h
<1>10. h[0] = <<>>
  <2>1. 0 \in 0 .. m + n /\ 0 <= m
    OBVIOUS
  <2> QED
    BY <1>7, <1>h, <2>1
<1>11. ASSUME NEW i \in 1 .. m + n PROVE h[i] = h[i - 1] \o u[i]
  <2>1. CASE i <= m
    <3>1. h[i] = f[i] /\ h[i - 1] = f[i - 1] /\ u[i] = s[i]
      BY <1>6, <1>h, <2>1
    <3>2. i \in 1 .. m
      BY <2>1
    <3> QED
      BY <1>7, <3>1, <3>2
  <2>2. CASE ~(i <= m)
    <3>1. PICK j \in 1 .. n : j = i - m
      BY <2>2
    <3>a. i \in 0 .. m + n /\ m \in 0 .. m /\ j - 1 \in 0 .. n
      BY <3>1
    <3>b. h[i] = f[m] \o g[j]
      BY <1>h, <2>2, <3>1, <3>a
    <3>c. g[j] = g[j - 1] \o t[j] /\ g[j - 1] \in Seq(T)
      BY <1>8, <3>1, <3>a
    <3>d. u[i] = t[j] /\ f[m] \in Seq(T) /\ t[j] \in Seq(T)
      BY <1>6, <1>7, <1>t, <2>2, <3>1, <3>a
    <3>2. /\ h[i] = f[m] \o g[j] /\ g[j] = g[j - 1] \o t[j] /\ u[i] = t[j]
          /\ f[m] \in Seq(T) /\ g[j - 1] \in Seq(T) /\ t[j] \in Seq(T)
      BY <3>b, <3>c, <3>d
    <3>3. h[i - 1] = f[m] \o g[j - 1]
      <4>1. CASE j = 1
        <5>1. h[i - 1] = f[m] /\ g[j - 1] = <<>>
          <6>1. i - 1 = m /\ m \in 0 .. m + n /\ m <= m /\ j - 1 = 0
            BY <3>1, <4>1
          <6> QED
            BY <1>8, <1>h, <6>1
        <5> QED
          BY <3>2, <5>1, ConcatEmptySeq
      <4>2. CASE j # 1
        <5>1. ~(i - 1 <= m) /\ i - 1 \in 0 .. m + n /\ (i - 1) - m = j - 1
          BY <2>2, <3>1, <4>2
        <5> QED
          BY <1>h, <5>1
      <4> QED
        BY <4>1, <4>2
    <3>4. (f[m] \o g[j - 1]) \o t[j] = f[m] \o (g[j - 1] \o t[j])
      <4>1. f[m] \in Seq(T) /\ g[j - 1] \in Seq(T) /\ t[j] \in Seq(T)
        BY <3>2
      <4>2. PICK a \in Seq(T), b \in Seq(T), c \in Seq(T) : a = f[m] /\ b = g[j - 1] /\ c = t[j]
        BY <4>1
      <4>3. (a \o b) \o c = a \o (b \o c)
        BY ConcatAssociative, SMTT(30)
      <4> QED
        BY <4>2, <4>3
    <3> QED
      BY <3>2, <3>3, <3>4
  <2> QED
    BY <2>1, <2>2
<1>12. h[m + n] = f[m] \o g[n]
  <2>1. CASE n = 0
    <3>1. h[m + n] = f[m] /\ g[n] = <<>> /\ f[m] \in Seq(T)
      BY <1>7, <1>8, <1>h, <2>1
    <3> QED
      BY <3>1, ConcatEmptySeq
  <2>2. CASE n # 0
    <3>1. m + n \in 0 .. m + n /\ ~(m + n <= m) /\ (m + n) - m = n
      BY <2>2
    <3> QED
      BY <1>h, <3>1
  <2> QED
    BY <2>1, <2>2
<1>14. IsFlat(T, h, u)
  BY <1>6, <1>10, <1>11, <1>13 DEF IsFlat
<1>15. FlattenSeq(u) = h[m + n] /\ FlattenSeq(s) = f[m] /\ FlattenSeq(t) = g[n]
  BY <1>1, <1>2, <1>3, <1>4, <1>6, <1>14, FlattenIs
<1> QED
  BY <1>5, <1>12, <1>15

LEMMA FlattenOne == ASSUME NEW T, NEW x \in Seq(T) PROVE FlattenSeq(<<x>>) = x
<1> DEFINE f == [i \in 0 .. 1 |-> IF i = 0 THEN <<>> ELSE x]
<1>1. <<x>> \in Seq(Seq(T)) /\ Len(<<x>>) = 1 /\ <<x>>[1] = x
  OBVIOUS
<1>2. f \in [0 .. 1 -> Seq(T)] /\ f[0] = <<>> /\ f[1] = x
  BY EmptySeq
<1>3. <<>> \o x = x
  BY ConcatEmptySeq
<1> HIDE DEF f
<1>4. IsFlat(T, f, <<x>>)
  <2>1. ASSUME NEW i \in 1 .. 1 PROVE f[i] = f[i - 1] \o <<x>>[i]
    <3>1. i = 1 /\ i - 1 = 0
      OBVIOUS
    <3> QED
      BY <1>1, <1>2, <1>3, <3>1
  <2> QED
    BY <1>1, <1>2, <2>1 DEF IsFlat
<1> QED
  BY <1>1, <1>2, <1>4, FlattenIs

LEMMA FlattenBlank == ASSUME NEW s \in Seq({<<>>}) PROVE FlattenSeq(s) = <<>>
<1>1. PICK n \in Nat : n = Len(s)
  BY LenProperties
<1>2. \A i \in 1 .. n : s[i] = <<>>
  BY <1>1, ElementOfSeq
<1>3. <<>> \in Seq({}) /\ <<>> \o <<>> = <<>>
  BY EmptySeq, ConcatEmptySeq
<1>4. s \in Seq(Seq({}))
  BY <1>3, SeqMonotonic
<1> DEFINE f == [i \in 0 .. n |-> <<>>]
<1>5. f \in [0 .. n -> Seq({})] /\ \A i \in 0 .. n : f[i] = <<>>
  BY <1>3
<1> HIDE DEF f
<1>6. IsFlat({}, f, s)
  BY <1>1, <1>2, <1>3, <1>5 DEF IsFlat
<1> QED
  BY <1>1, <1>4, <1>5, <1>6, FlattenIs

LEMMA FlattenSingles ==
  ASSUME NEW T, NEW s \in Seq(T), NEW p, p = [i \in DOMAIN s |-> <<s[i]>>]
  PROVE  FlattenSeq(p) = s
<1>1. PICK n \in Nat : n = Len(s)
  BY LenProperties
<1>2. DOMAIN s = 1 .. n /\ \A i \in 1 .. n : s[i] \in T
  BY <1>1, LenProperties, ElementOfSeq
<1>3. p \in [1 .. n -> Seq(T)] /\ \A i \in 1 .. n : p[i] = <<s[i]>>
  BY <1>2
<1>4. p \in Seq(Seq(T)) /\ Len(p) = n
  BY <1>3, FunSeq
<1> DEFINE f == [i \in 0 .. n |-> SubSeq(s, 1, i)]
<1>5. \A i \in 0 .. n : f[i] = SubSeq(s, 1, i)
  OBVIOUS
<1>6. ASSUME NEW i \in 0 .. n PROVE f[i] \in Seq(T)
  <2>1. \A j \in 1 .. i : s[j] \in T
    BY <1>2
  <2> QED
    BY <1>5, <2>1, SubSeqProperties
<1>7. f[0] = <<>>
  BY <1>5, SubSeqEmpty
<1>8. ASSUME NEW i \in 1 .. n PROVE f[i] = f[i - 1] \o p[i]
  <2>1. 1 \in 1 .. Len(s) /\ i \in 1 .. Len(s)
    BY <1>1
  <2>2. SubSeq(s, 1, i) = SubSeq(s, 1, i - 1) \o <<s[i]>>
    BY <2>1, SubSeqRecursiveSecond
  <2>3. f[i] = SubSeq(s, 1, i) /\ f[i - 1] = SubSeq(s, 1, i - 1)
    BY <1>5
  <2> QED
    BY <1>3, <2>2, <2>3
<1>9. f \in [0 .. n -> Seq(T)]
  BY <1>6
<1>10. f[n] = s
  BY <1>1, <1>5, SubSeqFull
<1> HIDE DEF f
<1>11. IsFlat(T, f, p)
  BY <1>4, <1>7, <1>8, <1>9 DEF IsFlat
<1> QED
  BY <1>4, <1>10, <1>11, FlattenIs

-----------------------------------------------------------------------------
(* The feed of a channel. *)

Frames == [type : {"message", "trace"}, seq : Nat]

FeedIsTyped ==
  /\ log \in Nat /\ trace \in Nat
  /\ sink \in [Readers -> {"none", "plain", "trace"}]
  /\ inbox \in [Readers -> Seq(Frames)]
  /\ answer \in [Readers -> [type : {"none", "message", "trace"}, rows : SUBSET Nat]]
  /\ seen \in [Readers -> SUBSET Nat]
  /\ tail \in [Readers -> Seq(Nat)]
  /\ silent \in [Readers -> SUBSET Nat]

\* The messages among frames, and those a client has or has coming.
MessagesIn(q) == {q[i].seq : i \in {j \in DOMAIN q : q[j].type = "message"}}

Rows(a) == IF a.type = "message" THEN a.rows ELSE {}

Known(c) == seen[c] \cup MessagesIn(inbox[c]) \cup Rows(answer[c])

\* Whatever follows a message of K is in K too, or was told to no socket.
GoesOn(K, c) == \A k \in K : \A n \in Nat : k <= n /\ n < log => n \in K \cup silent[c]

\* A client without a socket knows nothing; what one knows has no gap; what it has read
\* of the trace is its beginning, and the answer on its way continues it.
FeedOf(c) ==
  /\ sink[c] = "none" => inbox[c] = <<>> /\ answer[c] = NoAnswer /\ seen[c] = {}
  /\ answer[c].type = "none" => answer[c] = NoAnswer
  /\ GoesOn(Known(c), c)
  /\ \A i \in DOMAIN tail[c] : tail[c][i] = i - 1
  /\ answer[c].type = "trace" =>
       \E k \in Nat : answer[c].rows = {n \in Nat : Len(tail[c]) <= n /\ n < k}

FeedInv == \A c \in Readers : FeedOf(c)

-----------------------------------------------------------------------------
\* A frame at the end, and the frame taken from the front.
LEMMA FramesAppended ==
  ASSUME NEW q \in Seq(Frames), NEW f \in Frames
  PROVE  /\ Append(q, f) \in Seq(Frames)
         /\ MessagesIn(Append(q, f)) =
              MessagesIn(q) \cup (IF f.type = "message" THEN {f.seq} ELSE {})
<1> DEFINE r == Append(q, f)
<1>1. /\ r \in Seq(Frames) /\ Len(r) = Len(q) + 1 /\ Len(q) \in Nat
      /\ \A i \in 1 .. Len(q) : r[i] = q[i]
      /\ r[Len(q) + 1] = f
  BY AppendProperties, LenProperties
<1>2. DOMAIN q = 1 .. Len(q) /\ DOMAIN r = 1 .. Len(r)
  BY <1>1, LenProperties
<1> HIDE DEF r
<1>3. DOMAIN r = DOMAIN q \cup {Len(q) + 1}
  BY <1>1, <1>2
<1>4. MessagesIn(r) = MessagesIn(q) \cup (IF f.type = "message" THEN {f.seq} ELSE {})
  BY <1>1, <1>2, <1>3 DEF MessagesIn
<1> QED
  BY <1>1, <1>4 DEF r

LEMMA FramesTaken ==
  ASSUME NEW q \in Seq(Frames), q # <<>>
  PROVE  /\ Tail(q) \in Seq(Frames) /\ Head(q) \in Frames
         /\ MessagesIn(q) =
              MessagesIn(Tail(q)) \cup (IF Head(q).type = "message" THEN {Head(q).seq} ELSE {})
<1> DEFINE r == Tail(q)
           f == Head(q)
<1>1. /\ r \in Seq(Frames) /\ f \in Frames /\ f = q[1]
      /\ Len(r) = Len(q) - 1 /\ Len(q) \in Nat /\ Len(q) # 0
      /\ \A i \in 1 .. Len(r) : r[i] = q[i + 1]
  BY HeadTailProperties, LenProperties, EmptySeq
<1>2. DOMAIN q = 1 .. Len(q) /\ DOMAIN r = 1 .. Len(r)
  BY <1>1, LenProperties
<1> HIDE DEF r, f
<1>3. PICK n \in Nat : Len(r) = n /\ Len(q) = n + 1
  BY <1>1
<1>4. \A i \in DOMAIN r : i + 1 \in DOMAIN q /\ r[i] = q[i + 1]
  BY <1>1, <1>2, <1>3
<1>5. \A j \in DOMAIN q : j = 1 \/ (j - 1 \in DOMAIN r /\ r[j - 1] = q[j])
  <2> SUFFICES ASSUME NEW j \in 1 .. n + 1, j # 1 PROVE j - 1 \in 1 .. n /\ r[j - 1] = q[j]
    BY <1>2, <1>3
  <2>1. j - 1 \in 1 .. n /\ (j - 1) + 1 = j
    BY <1>3
  <2> QED
    BY <1>2, <1>3, <1>4, <2>1
<1>6. 1 \in DOMAIN q
  BY <1>2, <1>3
<1>7. MessagesIn(q) = MessagesIn(r) \cup (IF f.type = "message" THEN {f.seq} ELSE {})
  <2>1. ASSUME NEW x \in MessagesIn(q)
        PROVE  x \in MessagesIn(r) \cup (IF f.type = "message" THEN {f.seq} ELSE {})
    BY <1>1, <1>5, <2>1, SMTT(30) DEF MessagesIn
  <2>2. ASSUME NEW x \in MessagesIn(r) PROVE x \in MessagesIn(q)
    BY <1>4, <2>2 DEF MessagesIn
  <2>3. f.type = "message" => f.seq \in MessagesIn(q)
    BY <1>1, <1>6 DEF MessagesIn
  <2> QED
    BY <2>1, <2>2, <2>3
<1> QED
  BY <1>1, <1>7 DEF r, f

\* A run of numbers in order.
LEMMA RunInOrder ==
  ASSUME NEW a \in Nat, NEW b \in Nat, NEW S \in SUBSET Nat,
         \A n \in Nat : n \in S <=> a <= n /\ n < b
  PROVE  /\ InOrder(S) \in Seq(Nat)
         /\ \A i \in 1 .. Len(InOrder(S)) : InOrder(S)[i] = a + (i - 1)
<1>1. PICK c \in Int : c = b - 1 /\ S = a .. c
  <2>1. PICK c \in Int : c = b - 1
    OBVIOUS
  <2>2. \A n \in Nat : n < b <=> n <= c
    BY <2>1
  <2>3. S = a .. c
    <3>1. \A n \in a .. c : n \in S
      BY <2>1, <2>2
    <3>2. \A n \in S : n \in a .. c
      BY <2>1, <2>2
    <3> QED
      BY <3>1, <3>2
  <2> QED
    BY <2>1, <2>3
<1>2. PICK k \in Nat : Cardinality(S) = k /\ k = IF a > c THEN 0 ELSE c - a + 1
  <2>0. Cardinality(a .. c) = IF a > c THEN 0 ELSE c - a + 1
    BY FS_Interval
  <2>1. Cardinality(S) = IF a > c THEN 0 ELSE c - a + 1
    BY <1>1, <2>0
  <2>2. (IF a > c THEN 0 ELSE c - a + 1) \in Nat
    BY <1>1
  <2> QED
    BY <2>1, <2>2
<1>3. ASSUME NEW n \in S PROVE Cardinality({m \in S : m <= n}) = (n - a) + 1
  <2>1. {m \in S : m <= n} = a .. n /\ n \in Nat /\ a <= n
    BY <1>1
  <2>2. Cardinality(a .. n) = n - a + 1
    BY <2>1, FS_Interval
  <2> QED
    BY <2>1, <2>2
<1> DEFINE at(i) == CHOOSE n \in S : Cardinality({m \in S : m <= n}) = i
<1>4. ASSUME NEW i \in 1 .. k PROVE at(i) = a + (i - 1) /\ at(i) \in Nat
  <2>1. a + (i - 1) \in S
    BY <1>1, <1>2
  <2>2. Cardinality({m \in S : m <= a + (i - 1)}) = i
    <3>1. PICK n \in S : n = a + (i - 1)
      BY <2>1
    <3>2. (n - a) + 1 = i
      BY <3>1
    <3> QED
      BY <1>3, <3>1, <3>2
  <2>3. at(i) \in S /\ Cardinality({m \in S : m <= at(i)}) = i
    BY <2>1, <2>2
  <2>4. PICK n \in S : n = at(i) /\ Cardinality({m \in S : m <= n}) = i
    BY <2>3
  <2>5. (n - a) + 1 = i
    BY <1>3, <2>4
  <2>6. n \in Nat
    OBVIOUS
  <2>7. n = a + (i - 1)
    BY <1>2, <2>5, <2>6
  <2> QED
    BY <2>4, <2>6, <2>7
<1>5. InOrder(S) = [i \in 1 .. k |-> at(i)]
  BY <1>2 DEF InOrder
<1> HIDE DEF at
<1>6. InOrder(S) \in Seq(Nat) /\ Len(InOrder(S)) = k
  BY <1>2, <1>4, <1>5, IsASeq
<1> QED
  BY <1>2, <1>4, <1>5, <1>6

\* An answer from the trace continues what its client has read.
LEMMA TraceAnswer ==
  ASSUME FeedIsTyped, FeedInv, NEW c \in Readers, answer[c].type = "trace"
  PROVE  /\ tail[c] \in Seq(Nat) /\ Len(tail[c]) \in Nat /\ InOrder(answer[c].rows) \in Seq(Nat)
         /\ \A i \in 1 .. Len(InOrder(answer[c].rows)) :
              InOrder(answer[c].rows)[i] = Len(tail[c]) + (i - 1)
<1>1. tail[c] \in Seq(Nat) /\ Len(tail[c]) \in Nat
  BY LenProperties DEF FeedIsTyped
<1>2. PICK a \in Nat : a = Len(tail[c])
  BY <1>1
<1>3. PICK k \in Nat : answer[c].rows = {n \in Nat : Len(tail[c]) <= n /\ n < k}
  BY DEF FeedInv, FeedOf
<1>4. PICK S \in SUBSET Nat :
        S = answer[c].rows /\ \A n \in Nat : n \in S <=> a <= n /\ n < k
  BY <1>2, <1>3
<1>5. InOrder(S) \in Seq(Nat) /\ \A i \in 1 .. Len(InOrder(S)) : InOrder(S)[i] = a + (i - 1)
  BY <1>2, <1>3, <1>4, RunInOrder
<1> QED
  BY <1>1, <1>2, <1>4, <1>5

\* Every step of the feed keeps its types.
LEMMA FeedTypeStep ==
  ASSUME FeedIsTyped, FeedInv, [FeedNext]_feedVars PROVE FeedIsTyped'
<1>1. ASSUME NEW f \in Frames, EmitForChannel(f) PROVE inbox' \in [Readers -> Seq(Frames)]
  BY <1>1, FramesAppended DEF EmitForChannel, FeedIsTyped
<1>2. CASE PostToChannel
  <2>1. Frame("message", log) \in Frames /\ log + 1 \in Nat
    BY DEF Frame, Frames, FeedIsTyped
  <2> QED
    BY <1>1, <1>2, <2>1 DEF PostToChannel, FeedIsTyped
<1>3. CASE PostToSession
  BY <1>3 DEF PostToSession, FeedIsTyped
<1>4. CASE TraceAppends
  <2>1. Frame("trace", trace) \in Frames /\ trace + 1 \in Nat
    BY DEF Frame, Frames, FeedIsTyped
  <2> QED
    BY <1>1, <1>4, <2>1 DEF TraceAppends, FeedIsTyped
<1>5. ASSUME NEW c \in Readers, NEW kind \in {"plain", "trace"}, OpenFeed(c, kind)
      PROVE  FeedIsTyped'
  BY <1>5 DEF OpenFeed, FeedIsTyped
<1>6. ASSUME NEW c \in Readers, CloseFeed(c) PROVE FeedIsTyped'
  <2>1. <<>> \in Seq(Frames) /\ <<>> \in Seq(Nat)
    BY EmptySeq
  <2> QED
    BY <1>6, <2>1 DEF CloseFeed, FeedIsTyped, NoAnswer
<1>7. ASSUME NEW c \in Readers, NEW limit, AskPage(c, limit) PROVE FeedIsTyped'
  BY <1>7 DEF AskPage, Ask, Page, Seqs, FeedIsTyped
<1>8. ASSUME NEW c \in Readers, AskTrace(c) PROVE FeedIsTyped'
  BY <1>8 DEF AskTrace, Ask, TraceAfter, Seqs, FeedIsTyped
<1>9. ASSUME NEW c \in Readers, ReceiveAnswer(c) PROVE FeedIsTyped'
  <2>1. /\ answer[c].type \in {"none", "message", "trace"} /\ answer[c].rows \in SUBSET Nat
        /\ seen[c] \in SUBSET Nat /\ tail[c] \in Seq(Nat)
    BY DEF FeedIsTyped
  <2>2. /\ answer' = [answer EXCEPT ![c] = NoAnswer]
        /\ UNCHANGED <<log, trace, sink, inbox, silent>>
    BY <1>9 DEF ReceiveAnswer
  <2>3. answer' \in [Readers -> [type : {"none", "message", "trace"}, rows : SUBSET Nat]]
    BY <2>2 DEF FeedIsTyped, NoAnswer
  <2>4. CASE answer[c].type = "message"
    <3>1. seen' = [seen EXCEPT ![c] = @ \cup answer[c].rows] /\ tail' = tail
      BY <1>9, <2>4 DEF ReceiveAnswer
    <3>2. seen' \in [Readers -> SUBSET Nat]
      BY <2>1, <3>1 DEF FeedIsTyped
    <3> QED
      BY <2>2, <2>3, <3>1, <3>2 DEF FeedIsTyped
  <2>5. CASE answer[c].type = "trace"
    <3> DEFINE rest == InOrder(answer[c].rows)
    <3>1. rest \in Seq(Nat)
      BY <2>1, <2>5, TraceAnswer
    <3> HIDE DEF rest
    <3>2. tail' = [tail EXCEPT ![c] = @ \o rest] /\ seen' = seen
      BY <1>9, <2>5 DEF ReceiveAnswer, rest
    <3>3. tail[c] \o rest \in Seq(Nat)
      BY <2>1, <3>1, ConcatProperties
    <3>4. tail' \in [Readers -> Seq(Nat)]
      BY <3>2, <3>3 DEF FeedIsTyped
    <3> QED
      BY <2>2, <2>3, <3>2, <3>4 DEF FeedIsTyped
  <2>6. answer[c].type # "none"
    BY <1>9 DEF ReceiveAnswer, FeedInv, FeedOf
  <2> QED
    BY <2>1, <2>4, <2>5, <2>6
<1>10. ASSUME NEW c \in Readers, ReceiveFrame(c) PROVE FeedIsTyped'
  <2>1. inbox[c] \in Seq(Frames) /\ inbox[c] # <<>>
    BY <1>10 DEF ReceiveFrame, FeedIsTyped
  <2>2. Tail(inbox[c]) \in Seq(Frames) /\ Head(inbox[c]).seq \in Nat
    BY <2>1, FramesTaken DEF Frames
  <2> QED
    BY <1>10, <2>2 DEF ReceiveFrame, FeedIsTyped
<1>11. CASE UNCHANGED feedVars
  BY <1>11 DEF feedVars, FeedIsTyped
<1> QED
  BY <1>2, <1>3, <1>4, <1>5, <1>6, <1>7, <1>8, <1>9, <1>10, <1>11 DEF FeedNext

\* What a client knows are numbers of messages.
LEMMA KnownType ==
  ASSUME FeedIsTyped, NEW c \in Readers
  PROVE  /\ Known(c) \in SUBSET Nat /\ seen[c] \in SUBSET Nat /\ log \in Nat
         /\ inbox[c] \in Seq(Frames)
<1>1. /\ log \in Nat /\ inbox[c] \in Seq(Frames) /\ seen[c] \in SUBSET Nat
      /\ answer[c].rows \in SUBSET Nat
  BY DEF FeedIsTyped
<1>2. \A j \in DOMAIN inbox[c] : inbox[c][j] \in Frames
  BY <1>1, LenProperties, ElementOfSeq
<1>3. MessagesIn(inbox[c]) \in SUBSET Nat
  BY <1>2 DEF MessagesIn, Frames
<1> QED
  BY <1>1, <1>3 DEF Known, Rows

\* A page asked for by one who knows all that follows its oldest message leaves no gap.
LEMMA PageGoesOn ==
  ASSUME FeedIsTyped, NEW c \in Readers, GoesOn(Known(c), c), NEW limit \in Limits,
         NEW before, before = IF seen[c] = {} THEN Unlimited ELSE Least(seen[c])
  PROVE  GoesOn(Known(c) \cup Page(before, limit), c)
<1>1. Known(c) \in SUBSET Nat /\ seen[c] \in SUBSET Nat /\ log \in Nat
  BY KnownType
<1> DEFINE window == {n \in Seqs(log) : before = Unlimited \/ n < before}
           newer(n) == {m \in window : m >= n}
<1>2. window \in SUBSET Nat /\ IsFiniteSet(window)
  <2>1. 0 \in Int /\ log - 1 \in Int
    BY <1>1
  <2>2. IsFiniteSet(0 .. log - 1)
    BY <2>1, FS_Interval
  <2>3. window \in SUBSET (0 .. log - 1)
    BY DEF Seqs
  <2>4. window \in SUBSET Nat
    BY <1>1, <2>3
  <2> QED
    BY <2>2, <2>3, <2>4, FS_Subset
<1>3. Page(before, limit) = {n \in window : limit = Unlimited \/ Cardinality(newer(n)) <= limit}
  BY DEF Page
<1>4. limit \in Nat \/ limit = Unlimited
  BY FeedAssumption
<1>5. ASSUME NEW k \in Page(before, limit), NEW n \in window, k <= n
      PROVE  n \in Page(before, limit)
  <2>1. k \in window /\ k \in Nat /\ n \in Nat
    BY <1>2, <1>3
  <2> HIDE DEF window
  <2>2. newer(n) \in SUBSET newer(k) /\ newer(k) \in SUBSET window
    <3>1. \A m \in window : m >= n => m >= k
      <4>1. \A m \in window : m \in Nat
        BY <1>2
      <4> QED
        BY <1>5, <2>1, <4>1
    <3> QED
      BY <3>1
  <2>3. IsFiniteSet(newer(k)) /\ IsFiniteSet(newer(n))
    BY <1>2, <2>2, FS_Subset
  <2> HIDE DEF newer
  <2>4. PICK x \in Nat, y \in Nat :
          x = Cardinality(newer(n)) /\ y = Cardinality(newer(k)) /\ x <= y
    BY <2>2, <2>3, FS_Subset, FS_CardinalityType
  <2>5. limit = Unlimited \/ (limit \in Nat /\ y <= limit)
    BY <1>3, <1>4, <1>5, <2>4
  <2>6. limit = Unlimited \/ x <= limit
    BY <2>4, <2>5
  <2> QED
    BY <1>3, <2>4, <2>6
<1>6. ASSUME NEW n \in Nat, n < log, n \notin window
      PROVE  \E k \in seen[c] : k <= n
  <2>1. n \in Seqs(log)
    BY <1>1, <1>6 DEF Seqs
  <2>2. before # Unlimited /\ ~(n < before)
    BY <1>6, <2>1
  <2>3. seen[c] # {} /\ before = Least(seen[c])
    BY <2>2
  <2>4. before \in seen[c] /\ before \in Nat
    BY <1>1, <2>3, LeastIs
  <2> QED
    BY <2>2, <2>4
<1> HIDE DEF window, newer
<1>7. ASSUME NEW k \in Page(before, limit), NEW n \in Nat, k <= n, n < log
      PROVE  n \in Known(c) \cup Page(before, limit) \cup silent[c]
  <2>1. CASE n \in window
    BY <1>5, <1>7, <2>1
  <2>2. CASE n \notin window
    <3>1. PICK l \in seen[c] : l <= n
      BY <1>6, <1>7, <2>2
    <3>2. l \in Known(c)
      BY DEF Known
    <3> QED
      BY <1>7, <3>1, <3>2 DEF GoesOn
  <2> QED
    BY <2>1, <2>2
<1> QED
  BY <1>7 DEF GoesOn

\* A client that nothing happens to is as it was.
LEMMA FeedKept ==
  ASSUME NEW c \in Readers, FeedOf(c), log' = log,
         sink'[c] = sink[c], inbox'[c] = inbox[c], answer'[c] = answer[c],
         seen'[c] = seen[c], tail'[c] = tail[c], silent'[c] = silent[c]
  PROVE  FeedOf(c)'
BY DEF FeedOf, GoesOn, Known

\* What a message or an event of the turn does to a client.
LEMMA FeedPosted ==
  ASSUME FeedIsTyped, FeedInv, NEW c \in Readers,
         PostToChannel \/ PostToSession \/ TraceAppends
  PROVE  FeedOf(c)'
<1>1. FeedOf(c) /\ Known(c) \in SUBSET Nat /\ log \in Nat /\ inbox[c] \in Seq(Frames)
  BY KnownType DEF FeedInv
<1>2. sink[c] \in {"none", "plain", "trace"}
  BY DEF FeedIsTyped
<1>3. UNCHANGED <<sink, answer, seen, tail>>
  BY DEF PostToChannel, PostToSession, TraceAppends
<1>4. CASE sink[c] = "none"
  <2>1. Known(c) = {}
    BY <1>1, <1>4 DEF FeedOf, Known, MessagesIn, Rows, NoAnswer
  <2>2. inbox'[c] = inbox[c]
    BY <1>4 DEF PostToChannel, PostToSession, TraceAppends, EmitForChannel, Gets
  <2>3. Known(c)' = {}
    BY <1>3, <2>1, <2>2 DEF Known
  <2> QED
    BY <1>1, <1>3, <2>2, <2>3 DEF FeedOf, GoesOn
<1>5. CASE sink[c] # "none" /\ PostToChannel
  <2> DEFINE f == Frame("message", log)
  <2>1. f \in Frames /\ f.type = "message" /\ f.seq = log
    BY <1>1 DEF Frame, Frames
  <2>2. inbox'[c] = Append(inbox[c], f) /\ log' = log + 1 /\ silent' = silent
    BY <1>2, <1>5 DEF PostToChannel, EmitForChannel, Gets, Frame
  <2> HIDE DEF f
  <2>3. MessagesIn(inbox'[c]) = MessagesIn(inbox[c]) \cup {log}
    BY <1>1, <2>1, <2>2, FramesAppended
  <2>4. Known(c)' = Known(c) \cup {log}
    BY <1>3, <2>3 DEF Known
  <2>5. GoesOn(Known(c), c)
    BY <1>1 DEF FeedOf
  <2>6. ASSUME NEW k \in Known(c) \cup {log}, NEW n \in Nat, k <= n, n < log + 1
        PROVE  n \in Known(c) \cup {log} \cup silent[c]
    <3>1. CASE n = log
      BY <3>1
    <3>2. CASE n < log
      <4>1. k \in Known(c)
        BY <1>1, <2>6, <3>2
      <4> QED
        BY <2>5, <2>6, <3>2, <4>1 DEF GoesOn
    <3> QED
      BY <1>1, <2>6, <3>1, <3>2
  <2>7. GoesOn(Known(c), c)'
    BY <2>2, <2>4, <2>6 DEF GoesOn
  <2> QED
    BY <1>1, <1>3, <1>5, <2>7 DEF FeedOf
<1>6. CASE sink[c] # "none" /\ PostToSession
  <2>1. silent'[c] = silent[c] \cup {log} /\ log' = log + 1 /\ inbox' = inbox
    BY <1>6 DEF PostToSession, FeedIsTyped
  <2>2. Known(c)' = Known(c)
    BY <1>3, <2>1 DEF Known
  <2>3. GoesOn(Known(c), c)
    BY <1>1 DEF FeedOf
  <2>4. ASSUME NEW k \in Known(c), NEW n \in Nat, k <= n, n < log + 1
        PROVE  n \in Known(c) \cup silent[c] \cup {log}
    <3>1. CASE n < log
      BY <2>3, <2>4, <3>1 DEF GoesOn
    <3> QED
      BY <1>1, <2>4, <3>1
  <2>5. GoesOn(Known(c), c)'
    BY <2>1, <2>2, <2>4 DEF GoesOn
  <2> QED
    BY <1>1, <1>3, <1>6, <2>5 DEF FeedOf
<1>7. CASE TraceAppends
  <2> DEFINE f == Frame("trace", trace)
  <2>1. f \in Frames /\ f.type = "trace"
    BY DEF Frame, Frames, FeedIsTyped
  <2>2. /\ inbox'[c] = inbox[c] \/ inbox'[c] = Append(inbox[c], f)
        /\ log' = log /\ silent' = silent
    BY <1>7 DEF TraceAppends, EmitForChannel
  <2> HIDE DEF f
  <2>3. MessagesIn(inbox'[c]) = MessagesIn(inbox[c])
    BY <1>1, <2>1, <2>2, FramesAppended
  <2>4. Known(c)' = Known(c)
    BY <1>3, <2>3 DEF Known
  <2>5. GoesOn(Known(c), c)'
    BY <1>1, <2>2, <2>4 DEF FeedOf, GoesOn
  <2>6. sink[c] = "none" => inbox'[c] = <<>>
    BY <1>1, <1>7 DEF FeedOf, TraceAppends, EmitForChannel, Gets
  <2> QED
    BY <1>1, <1>3, <2>5, <2>6 DEF FeedOf
<1> QED
  BY <1>4, <1>5, <1>6, <1>7

\* What a client does, or what arrives at it.
LEMMA FeedRead ==
  ASSUME FeedIsTyped, FeedInv, NEW c \in Readers,
         \/ \E kind \in {"plain", "trace"} : OpenFeed(c, kind)
         \/ CloseFeed(c)
         \/ \E limit \in Limits : AskPage(c, limit)
         \/ AskTrace(c)
         \/ ReceiveAnswer(c)
         \/ ReceiveFrame(c)
  PROVE  FeedOf(c)'
<1>1. FeedOf(c) /\ Known(c) \in SUBSET Nat /\ log \in Nat /\ inbox[c] \in Seq(Frames)
  BY KnownType DEF FeedInv
<1>2. GoesOn(Known(c), c) /\ \A i \in DOMAIN tail[c] : tail[c][i] = i - 1
  BY <1>1 DEF FeedOf
<1>3. ASSUME NEW kind \in {"plain", "trace"}, OpenFeed(c, kind) PROVE FeedOf(c)'
  <2>1. sink'[c] # "none" /\ UNCHANGED <<log, trace, inbox, answer, seen, tail, silent>>
    BY <1>3 DEF OpenFeed, FeedIsTyped
  <2> QED
    BY <1>1, <2>1 DEF FeedOf, GoesOn, Known
<1>4. CASE CloseFeed(c)
  <2>1. /\ inbox'[c] = <<>> /\ answer'[c] = NoAnswer /\ seen'[c] = {} /\ tail'[c] = <<>>
    BY <1>4 DEF CloseFeed, FeedIsTyped
  <2>2. Known(c)' = {}
    BY <2>1 DEF Known, MessagesIn, Rows, NoAnswer
  <2> QED
    BY <2>1, <2>2 DEF FeedOf, GoesOn, NoAnswer
<1>5. ASSUME NEW limit \in Limits, AskPage(c, limit) PROVE FeedOf(c)'
  <2> DEFINE before == IF seen[c] = {} THEN Unlimited ELSE Least(seen[c])
             page == Page(before, limit)
  <2>1. GoesOn(Known(c) \cup page, c)
    BY <1>2, PageGoesOn
  <2>2. /\ answer'[c] = [type |-> "message", rows |-> page] /\ answer[c] = NoAnswer
        /\ sink[c] # "none" /\ UNCHANGED <<log, trace, sink, inbox, seen, tail, silent>>
    BY <1>5 DEF AskPage, Ask, FeedIsTyped
  <2> HIDE DEF page
  <2>3. Known(c)' = Known(c) \cup page
    BY <2>2 DEF Known, Rows, NoAnswer
  <2>4. GoesOn(Known(c), c)'
    BY <2>1, <2>2, <2>3 DEF GoesOn
  <2> QED
    BY <1>2, <2>2, <2>4 DEF FeedOf
<1>6. CASE AskTrace(c)
  <2> DEFINE after == IF tail[c] = <<>> THEN Unlimited ELSE Last(tail[c])
             rows == TraceAfter(after)
  <2>1. /\ answer'[c] = [type |-> "trace", rows |-> rows] /\ answer[c] = NoAnswer
        /\ sink[c] # "none" /\ UNCHANGED <<log, trace, sink, inbox, seen, tail, silent>>
    BY <1>6 DEF AskTrace, Ask, FeedIsTyped
  <2>2. tail[c] \in Seq(Nat) /\ Len(tail[c]) \in Nat /\ DOMAIN tail[c] = 1 .. Len(tail[c])
        /\ trace \in Nat
    BY LenProperties DEF FeedIsTyped
  <2>3. PICK n \in Nat : n = Len(tail[c])
    BY <2>2
  <2>4. rows = {m \in Nat : n <= m /\ m < trace}
    <3>1. CASE tail[c] = <<>>
      BY <2>2, <2>3, <3>1 DEF TraceAfter, Seqs
    <3>2. CASE tail[c] # <<>>
      <4>1. n # 0
        BY <2>2, <2>3, <3>2, EmptySeq
      <4>2. after = n - 1 /\ after \in Nat
        BY <1>2, <2>2, <2>3, <3>2, <4>1 DEF Last
      <4>3. after # Unlimited
        BY <4>2, FeedAssumption
      <4>4. rows = {m \in 0 .. trace - 1 : m > after}
        BY <4>3 DEF TraceAfter, Seqs
      <4> HIDE DEF after, rows
      <4> QED
        BY <2>2, <2>3, <4>2, <4>4
    <3> QED
      BY <3>1, <3>2
  <2> HIDE DEF rows
  <2>5. Known(c)' = Known(c)
    BY <2>1 DEF Known, Rows, NoAnswer
  <2>6. GoesOn(Known(c), c)'
    BY <1>2, <2>1, <2>5 DEF GoesOn
  <2> QED
    BY <1>2, <2>1, <2>2, <2>3, <2>4, <2>6 DEF FeedOf
<1>7. CASE ReceiveAnswer(c)
  <2>1. /\ answer'[c] = NoAnswer /\ answer[c].type \in {"message", "trace"}
        /\ sink[c] # "none" /\ UNCHANGED <<log, trace, sink, inbox, silent>>
    BY <1>1, <1>7 DEF ReceiveAnswer, FeedIsTyped, FeedOf
  <2>2. CASE answer[c].type = "message"
    <3>1. seen'[c] = seen[c] \cup answer[c].rows /\ tail' = tail
      BY <1>7, <2>2 DEF ReceiveAnswer, FeedIsTyped
    <3>2. Known(c)' = Known(c)
      BY <2>1, <2>2, <3>1 DEF Known, Rows, NoAnswer
    <3>3. GoesOn(Known(c), c)'
      BY <1>2, <2>1, <3>2 DEF GoesOn
    <3> QED
      BY <1>2, <2>1, <3>1, <3>3 DEF FeedOf, NoAnswer
  <2>3. CASE answer[c].type = "trace"
    <3> DEFINE rest == InOrder(answer[c].rows)
    <3>1. PICK n \in Nat : /\ n = Len(tail[c]) /\ tail[c] \in Seq(Nat) /\ rest \in Seq(Nat)
                           /\ \A i \in 1 .. Len(rest) : rest[i] = n + (i - 1)
      BY <2>3, TraceAnswer
    <3> HIDE DEF rest
    <3>2. tail'[c] = tail[c] \o rest /\ seen' = seen
      BY <1>7, <2>3 DEF ReceiveAnswer, FeedIsTyped, rest
    <3>3. Known(c)' = Known(c)
      BY <2>1, <2>3, <3>2 DEF Known, Rows, NoAnswer
    <3>4. GoesOn(Known(c), c)'
      BY <1>2, <2>1, <3>3 DEF GoesOn
    <3>5. PICK k \in Nat : k = Len(rest)
      BY <3>1, LenProperties
    <3>6. /\ tail[c] \o rest \in Seq(Nat) /\ Len(tail[c] \o rest) = n + k
          /\ \A i \in 1 .. n + k :
               (tail[c] \o rest)[i] = IF i <= n THEN tail[c][i] ELSE rest[i - n]
      BY <3>1, <3>5, ConcatProperties
    <3>7. DOMAIN (tail[c] \o rest) = 1 .. n + k /\ DOMAIN tail[c] = 1 .. n
      BY <3>1, <3>6, LenProperties
    <3>8. ASSUME NEW i \in 1 .. n + k PROVE (tail[c] \o rest)[i] = i - 1
      <4>1. CASE i <= n
        <5>1. i \in DOMAIN tail[c]
          BY <3>1, <3>5, <3>7, <4>1
        <5> QED
          BY <1>2, <3>6, <4>1, <5>1
      <4>2. CASE ~(i <= n)
        <5>1. i - n \in 1 .. k
          BY <3>1, <3>5, <4>2
        <5>2. PICK j \in 1 .. k : j = i - n /\ rest[j] = n + (j - 1)
          BY <3>1, <3>5, <5>1
        <5>3. n + (j - 1) = i - 1
          BY <3>1, <5>2
        <5> QED
          BY <3>6, <4>2, <5>2, <5>3
      <4> QED
        BY <4>1, <4>2
    <3>9. \A i \in DOMAIN tail'[c] : tail'[c][i] = i - 1
      BY <3>2, <3>7, <3>8
    <3> QED
      BY <2>1, <3>4, <3>9 DEF FeedOf, NoAnswer
  <2> QED
    BY <2>1, <2>2, <2>3
<1>8. CASE ReceiveFrame(c)
  <2> DEFINE f == Head(inbox[c])
  <2>1. /\ inbox[c] # <<>> /\ inbox'[c] = Tail(inbox[c])
        /\ seen'[c] = IF f.type = "message" THEN seen[c] \cup {f.seq} ELSE seen[c]
        /\ UNCHANGED <<log, trace, sink, answer, tail, silent>>
    BY <1>8 DEF ReceiveFrame, FeedIsTyped
  <2>2. MessagesIn(inbox[c]) =
          MessagesIn(Tail(inbox[c])) \cup (IF f.type = "message" THEN {f.seq} ELSE {})
    BY <1>1, <2>1, FramesTaken
  <2> HIDE DEF f
  <2>3. Known(c)' = Known(c)
    BY <2>1, <2>2 DEF Known
  <2>4. GoesOn(Known(c), c)'
    BY <1>2, <2>1, <2>3 DEF GoesOn
  <2> QED
    BY <1>1, <2>1, <2>4 DEF FeedOf
<1> QED
  BY <1>3, <1>4, <1>5, <1>6, <1>7, <1>8

\* Every step of the feed keeps it without a gap.
LEMMA FeedStep == ASSUME FeedIsTyped, FeedInv, [FeedNext]_feedVars PROVE FeedInv'
<1> SUFFICES ASSUME NEW c \in Readers PROVE FeedOf(c)'
  BY DEF FeedInv
<1>1. FeedOf(c)
  BY DEF FeedInv
<1>2. CASE PostToChannel \/ PostToSession \/ TraceAppends
  BY <1>2, FeedPosted
<1>3. ASSUME NEW d \in Readers,
             \/ \E kind \in {"plain", "trace"} : OpenFeed(d, kind)
             \/ CloseFeed(d)
             \/ \E limit \in Limits : AskPage(d, limit)
             \/ AskTrace(d)
             \/ ReceiveAnswer(d)
             \/ ReceiveFrame(d)
      PROVE  FeedOf(c)'
  <2>1. CASE d = c
    BY <1>3, <2>1, FeedRead
  <2>2. CASE d # c
    <3>1. /\ log' = log /\ sink'[c] = sink[c] /\ inbox'[c] = inbox[c]
          /\ answer'[c] = answer[c] /\ seen'[c] = seen[c] /\ tail'[c] = tail[c]
          /\ silent'[c] = silent[c]
      BY <1>3, <2>2
      DEF OpenFeed, CloseFeed, AskPage, AskTrace, Ask, ReceiveAnswer, ReceiveFrame, FeedIsTyped
    <3> QED
      BY <1>1, <3>1, FeedKept
  <2> QED
    BY <2>1, <2>2
<1>4. CASE UNCHANGED feedVars
  BY <1>1, <1>4, FeedKept DEF feedVars
<1> QED
  BY <1>2, <1>3, <1>4 DEF FeedNext

\* A client that opened its socket before it read has, or has coming, every message from
\* its oldest on, whatever the order of pages and frames, but for those no socket is
\* told of; and what it has read of the trace is its beginning (emitForChannel,
\* before_seq, after_seq).
THEOREM FeedHolds == FeedSpec => []FeedHasNoGap
<1>1. FeedInit => FeedIsTyped /\ FeedInv
  <2> SUFFICES ASSUME FeedInit PROVE FeedIsTyped /\ FeedInv
    OBVIOUS
  <2>1. <<>> \in Seq(Frames) /\ <<>> \in Seq(Nat)
    BY EmptySeq
  <2>2. FeedIsTyped
    BY <2>1 DEF FeedInit, FeedIsTyped, NoAnswer
  <2>3. ASSUME NEW c \in Readers PROVE FeedOf(c)
    <3>1. Known(c) = {}
      BY DEF FeedInit, Known, MessagesIn, Rows, NoAnswer
    <3> QED
      BY <3>1 DEF FeedInit, FeedOf, GoesOn, NoAnswer
  <2> QED
    BY <2>2, <2>3 DEF FeedInv
<1>2. FeedIsTyped /\ FeedInv /\ [FeedNext]_feedVars => FeedIsTyped' /\ FeedInv'
  BY FeedTypeStep, FeedStep
<1>3. FeedIsTyped /\ FeedInv => FeedHasNoGap
  <2> SUFFICES ASSUME FeedIsTyped, FeedInv, NEW c \in Readers
               PROVE  /\ Known(c) # {} =>
                           Least(Known(c)) .. log - 1 \subseteq Known(c) \cup silent[c]
                      /\ \A i \in DOMAIN tail[c] : tail[c][i] = i - 1
    BY DEF FeedHasNoGap, Coming, Known, MessagesIn, Rows
  <2>1. FeedOf(c) /\ Known(c) \in SUBSET Nat /\ log \in Nat
    BY KnownType DEF FeedInv
  <2>2. ASSUME Known(c) # {}, NEW n \in Least(Known(c)) .. log - 1
        PROVE  n \in Known(c) \cup silent[c]
    <3>1. PICK k \in Known(c) : k = Least(Known(c))
      BY <2>1, <2>2, LeastIs
    <3>2. n \in Nat /\ k <= n /\ n < log
      BY <2>1, <3>1
    <3> QED
      BY <2>1, <3>1, <3>2 DEF FeedOf, GoesOn
  <2> QED
    BY <2>1, <2>2 DEF FeedOf
<1> QED
  BY <1>1, <1>2, <1>3, PTL DEF FeedSpec

-----------------------------------------------------------------------------
(* Loops made from a conversation. *)

\* A session's loop is a spec, so that adopting a body changes that and no more.
SessionInv ==
  distilled => loop = [mode |-> loop.mode, trigger |-> loop.trigger, stop |-> loop.stop,
                       body |-> loop.body]

\* What the compiler makes of a proposed trigger can be scheduled.
LEMMA TriggerMapped ==
  ASSUME NEW t
  PROVE  /\ MapTrigger(t) # Missing
         /\ \/ MapTrigger(t).kind = "interval" /\ MapTrigger(t).arg \in Nat \ {0}
            \/ MapTrigger(t).kind = "cron" /\ MapTrigger(t).arg \notin {Missing, ""}
            \/ MapTrigger(t).kind \in {"manual", "self-paced"}
<1>1. /\ Trigger("interval", Hour) # Missing /\ Trigger("manual", Missing) # Missing
      /\ Trigger("self-paced", Missing) # Missing /\ Hour \in Nat \ {0}
  BY ContractAssumption
<1> DEFINE default == Trigger("interval", Hour)
<1>2. default # Missing /\ default.kind = "interval" /\ default.arg \in Nat \ {0}
  BY <1>1 DEF Trigger
<1> HIDE DEF default
<1>3. CASE t = Missing
  BY <1>2, <1>3 DEF MapTrigger, default
<1>4. CASE t # Missing /\ t.kind = "cron" /\ t.arg \notin {Missing, ""}
  BY <1>4 DEF MapTrigger
<1>5. CASE t # Missing /\ t.kind = "interval" /\ t.arg \in Nat \ {0}
  BY <1>5 DEF MapTrigger
<1>6. CASE t # Missing /\ t.kind \in {"manual", "self-paced"}
  BY <1>1, <1>6 DEF MapTrigger, Trigger
<1>7. CASE /\ t # Missing /\ ~(t.kind = "cron" /\ t.arg \notin {Missing, ""})
           /\ ~(t.kind = "interval" /\ t.arg \in Nat \ {0})
           /\ t.kind \notin {"manual", "self-paced"}
  BY <1>2, <1>7 DEF MapTrigger, default
<1> QED
  BY <1>3, <1>4, <1>5, <1>6, <1>7

\* The defaults make a sound spec of any proposal.
LEMMA CompiledIsSound ==
  ASSUME NEW p \in Proposals, NEW l, l = Compiled(p)
  PROVE  /\ l = [mode |-> l.mode, trigger |-> l.trigger, stop |-> l.stop, body |-> l.body]
         /\ l.stop \notin {Missing, ""}
         /\ l.body # Missing /\ l.body.shape = "list" /\ IsBody(l.body)
         /\ l.mode = "one-shot" <=> l.trigger = Missing
         /\ l.trigger # Missing => l.trigger = MapTrigger(p.trigger)
<1> DEFINE body == IF p.body # Missing /\ p.body.shape = "list" THEN p.body ELSE ListBody(<<>>)
           mode == IF p.mode # Missing THEN p.mode
                   ELSE IF MapTrigger(p.trigger) # Missing THEN "live" ELSE "one-shot"
<1>1. IsBody(body) /\ body # Missing /\ body.shape = "list"
  BY ContractAssumption DEF IsBody, ListBody
<1> HIDE DEF body
<1>2. MapTrigger(p.trigger) # Missing
  BY TriggerMapped
<1> DEFINE trigger == IF mode = "one-shot" THEN Missing ELSE MapTrigger(p.trigger)
           stop == IF p.stop \in {Missing, ""} THEN "user cancels" ELSE p.stop
<1>3. l = [mode |-> mode, trigger |-> trigger, stop |-> stop, body |-> body]
  BY DEF Compiled, CompileDefaults, body
<1> HIDE DEF mode
<1>4. stop \notin {Missing, ""}
  BY ContractAssumption
<1>5. mode = "one-shot" <=> trigger = Missing
  BY <1>2
<1>6. trigger # Missing => trigger = MapTrigger(p.trigger)
  OBVIOUS
<1> HIDE DEF trigger, stop
<1>7. l.mode = mode /\ l.trigger = trigger /\ l.stop = stop /\ l.body = body
  BY <1>3
<1> QED
  BY <1>1, <1>3, <1>4, <1>5, <1>6, <1>7

\* A loop made from a conversation has a stop rule, a body that is a list, and exactly if
\* it is to run more than once a trigger of a known kind with its argument, whatever the
\* agent left out or got wrong, and adopting a body keeps it so (compileDefaults, the
\* from-session and adopt-run routes).  It need not be a loop that runs: whether its
\* cron text parses and its steps are steps is not checked, and not claimed.
THEOREM SessionHolds == ContractSpec => []SessionLoopsAreSound
<1>1. ContractInit => SessionInv /\ SessionLoopsAreSound
  BY DEF ContractInit, SessionInv, SessionLoopsAreSound
<1>2. SessionInv /\ SessionLoopsAreSound /\ [ContractNext]_contractVars
      => SessionInv' /\ SessionLoopsAreSound'
  <2> SUFFICES ASSUME SessionInv, SessionLoopsAreSound, [ContractNext]_contractVars
               PROVE  SessionInv' /\ SessionLoopsAreSound'
    OBVIOUS
  <2>1. ASSUME NEW b, PostSpec(b) PROVE SessionInv' /\ SessionLoopsAreSound'
    BY <2>1 DEF PostSpec, SessionInv, SessionLoopsAreSound
  <2>2. ASSUME NEW p \in Proposals, FromSession(p) PROVE SessionInv' /\ SessionLoopsAreSound'
    <3>1. PICK l : l = Compiled(p) /\ loop' = l
      BY <2>2 DEF FromSession
    <3>2. /\ l = [mode |-> l.mode, trigger |-> l.trigger, stop |-> l.stop, body |-> l.body]
          /\ l.stop \notin {Missing, ""} /\ l.body # Missing /\ l.body.shape = "list"
          /\ l.mode = "one-shot" <=> l.trigger = Missing
          /\ l.trigger # Missing => l.trigger = MapTrigger(p.trigger)
      BY <3>1, CompiledIsSound
    <3>3. l.trigger # Missing =>
            \/ l.trigger.kind = "interval" /\ l.trigger.arg > 0
            \/ l.trigger.kind = "cron" /\ l.trigger.arg \notin {Missing, ""}
            \/ l.trigger.kind \in {"manual", "self-paced"}
      <4> SUFFICES ASSUME l.trigger # Missing
                   PROVE  \/ l.trigger.kind = "interval" /\ l.trigger.arg > 0
                          \/ l.trigger.kind = "cron" /\ l.trigger.arg \notin {Missing, ""}
                          \/ l.trigger.kind \in {"manual", "self-paced"}
        OBVIOUS
      <4>1. PICK t : t = MapTrigger(p.trigger) /\ l.trigger = t
        BY <3>2
      <4>2. \/ t.kind = "interval" /\ t.arg \in Nat \ {0}
            \/ t.kind = "cron" /\ t.arg \notin {Missing, ""}
            \/ t.kind \in {"manual", "self-paced"}
        BY <4>1, TriggerMapped
      <4>3. t.arg \in Nat \ {0} => t.arg > 0
        OBVIOUS
      <4> QED
        BY <4>1, <4>2, <4>3
    <3> QED
      BY <3>1, <3>2, <3>3 DEF SessionInv, SessionLoopsAreSound
  <2>3. ASSUME NEW b \in Bodies, AdoptRun(b) PROVE SessionInv' /\ SessionLoopsAreSound'
    <3>1. /\ b # Missing /\ b.shape = "list"
          /\ loop' = [loop EXCEPT !.body = b] /\ distilled' = distilled
      BY <2>3, ContractAssumption DEF AdoptRun, IsBody
    <3>2. CASE distilled
      <4>1. loop' = [mode |-> loop.mode, trigger |-> loop.trigger, stop |-> loop.stop, body |-> b]
        BY <3>1, <3>2 DEF SessionInv
      <4> QED
        BY <3>1, <3>2, <4>1 DEF SessionInv, SessionLoopsAreSound
    <3> QED
      BY <3>1, <3>2 DEF SessionInv, SessionLoopsAreSound
  <2>4. CASE UNCHANGED <<loop, distilled>>
    BY <2>4 DEF SessionInv, SessionLoopsAreSound
  <2> QED
    BY <2>1, <2>2, <2>3, <2>4
    DEF ContractNext, StartTick, PlanReplies, StepSettles, contractVars
<1> QED
  BY <1>1, <1>2, PTL DEF ContractSpec

-----------------------------------------------------------------------------
(* The calls of a body, counted up step by step. *)

Labels == STRING \cup {"plan"}
Lists == Seq(Labels)

Calls(b) == [i \in DOMAIN b.steps |-> CallsAt(b.steps[i])]

Flat(b) == CHOOSE f : IsFlat(Labels, f, Calls(b))

\* The calls of a body, flattened step by step, are the calls of the body as a whole.
LEMMA FlatIs ==
  ASSUME NEW b, IsBody(b)
  PROVE  /\ Len(b.steps) \in Nat /\ DOMAIN b.steps = 1 .. Len(b.steps)
         /\ \A i \in 1 .. Len(b.steps) :
              /\ b.steps[i] \in Steps /\ CallsAt(b.steps[i]) \in Lists
              /\ Flat(b)[i] = Flat(b)[i - 1] \o CallsAt(b.steps[i])
         /\ \A i \in 0 .. Len(b.steps) : Flat(b)[i] \in Lists
         /\ Flat(b)[0] = <<>>
         /\ CallsOf(b) = Flat(b)[Len(b.steps)]
<1>1. Len(b.steps) \in Nat /\ DOMAIN b.steps = 1 .. Len(b.steps)
  BY LenProperties DEF IsBody
<1>2. PICK n \in Nat : n = Len(b.steps)
  BY <1>1
<1>3. ASSUME NEW i \in 1 .. n PROVE b.steps[i] \in Steps /\ CallsAt(b.steps[i]) \in Lists
  <2>1. b.steps[i] \in Steps
    BY <1>2, ElementOfSeq DEF IsBody
  <2>2. PICK st \in Steps : st = b.steps[i]
    BY <2>1
  <2>3. st.label \in Labels /\ st.children \in Seq(Labels)
    BY SeqGrows DEF Steps, Labels
  <2>4. <<st.label>> \in Seq(Labels) /\ <<>> \in Seq(Labels)
    BY <2>3, SingleSeq
  <2>5. CallsAt(st) \in Seq(Labels)
    BY <2>3, <2>4 DEF CallsAt
  <2> QED
    BY <2>2, <2>5 DEF Lists
<1>4. Calls(b) \in Seq(Lists) /\ Len(Calls(b)) = n
  <2>1. Calls(b) = [i \in 1 .. n |-> CallsAt(b.steps[i])]
    BY <1>1, <1>2 DEF Calls
  <2>2. Calls(b) \in [1 .. n -> Lists]
    BY <1>3, <2>1
  <2> QED
    BY <2>2, SeqDef, LenProperties
<1>5. PICK c \in Seq(Seq(Labels)) : c = Calls(b)
  BY <1>4 DEF Lists
<1>6. IsFlat(Labels, Flat(b), c)
  <2>1. \E f : IsFlat(Labels, f, c)
    BY FlatExists
  <2> QED
    BY <1>5, <2>1 DEF Flat
<1>9. FlattenSeq(c) = Flat(b)[n]
  BY <1>4, <1>5, <1>6, FlattenIs
<1>10. /\ \A i \in 0 .. n : Flat(b)[i] \in Lists
       /\ Flat(b)[0] = <<>>
       /\ \A i \in 1 .. n : Flat(b)[i] = Flat(b)[i - 1] \o c[i]
  BY <1>4, <1>5, <1>6 DEF IsFlat, Lists
<1>7. CallsOf(b) = FlattenSeq(Calls(b))
  BY DEF CallsOf, Calls
<1>8. \A i \in 1 .. n : Calls(b)[i] = CallsAt(b.steps[i])
  BY <1>1, <1>2 DEF Calls
<1> QED
  BY <1>1, <1>2, <1>3, <1>5, <1>7, <1>8, <1>9, <1>10

\* Steps that call nobody add nothing.
LEMMA FlatSame ==
  ASSUME NEW b, IsBody(b), NEW i \in 1 .. Len(b.steps) + 1, NEW j \in i .. Len(b.steps) + 1,
         \A k \in i .. j - 1 : CallsAt(b.steps[k]) = <<>>
  PROVE  Flat(b)[j - 1] = Flat(b)[i - 1]
<1>1. PICK n \in Nat : n = Len(b.steps)
  BY FlatIs
<1>2. i \in 1 .. n + 1 /\ j \in i .. n + 1
  BY <1>1
<1> DEFINE F == Flat(b)
           bad == {k \in i - 1 .. j - 1 : F[k] # F[i - 1]}
<1>3. ASSUME NEW k \in i .. j - 1 PROVE F[k] = F[k - 1]
  <2>1. k \in 1 .. n /\ k - 1 \in 0 .. n
    BY <1>2
  <2>2. F[k] = F[k - 1] \o CallsAt(b.steps[k]) /\ F[k - 1] \in Lists
    BY <1>1, <2>1, FlatIs
  <2> HIDE DEF F
  <2>3. F[k] = F[k - 1] \o <<>>
    BY <2>2
  <2> QED
    BY <2>2, <2>3, ConcatEmptySeq DEF Lists
<1> HIDE DEF F
<1>4. bad = {}
  <2> SUFFICES ASSUME bad # {} PROVE FALSE
    OBVIOUS
  <2>1. bad \in SUBSET Nat
    BY <1>2
  <2>2. PICK m \in bad : \A k \in bad : m <= k
    BY <2>1, LeastIs
  <2>3. m # i - 1 /\ m \in i - 1 .. j - 1
    BY <2>2
  <2>4. m \in i .. j - 1 /\ m - 1 \in i - 1 .. j - 1
    BY <1>2, <2>3
  <2>5. m - 1 \notin bad
    BY <1>2, <2>2, <2>4
  <2> QED
    BY <1>3, <2>2, <2>4, <2>5
<1>5. j - 1 \in i - 1 .. j - 1
  BY <1>2
<1> QED
  BY <1>4, <1>5 DEF F

LEMMA ConcatIsAssociative ==
  ASSUME NEW s \in Seq(Labels), NEW t \in Seq(Labels), NEW u \in Seq(Labels)
  PROVE  (s \o t) \o u = s \o (t \o u)
BY ConcatAssociative

\* What the first k steps call is the beginning of what all of them call.
LEMMA FlatPrefix ==
  ASSUME NEW b, IsBody(b), NEW k \in 0 .. Len(b.steps)
  PROVE  IsPrefix(<<"plan">> \o Flat(b)[k], <<"plan">> \o CallsOf(b))
<1>1. PICK n \in Nat : n = Len(b.steps)
  BY FlatIs
<1>2. k \in 0 .. n
  BY <1>1
<1> DEFINE F == Flat(b)
           Extends(m) == \E r \in Seq(Labels) : F[m] = F[k] \o r
           bad == {m \in k .. n : ~Extends(m)}
<1>3. \A m \in 0 .. n : F[m] \in Seq(Labels)
  BY <1>1, FlatIs DEF Lists
<1>4. Extends(k)
  <2>1. <<>> \in Seq(Labels) /\ F[k] \in Seq(Labels)
    BY <1>2, <1>3
  <2> HIDE DEF F
  <2>2. F[k] = F[k] \o <<>>
    BY <2>1, ConcatEmptySeq
  <2> QED
    BY <2>1, <2>2
<1>5. ASSUME NEW m \in k + 1 .. n, Extends(m - 1) PROVE Extends(m)
  <2>1. m \in 1 .. n /\ m - 1 \in 0 .. n
    BY <1>2
  <2>2. PICK c : c = CallsAt(b.steps[m])
    OBVIOUS
  <2>3. c \in Seq(Labels) /\ F[m] = F[m - 1] \o c
    BY <1>1, <2>1, <2>2, FlatIs DEF Lists
  <2>4. PICK r \in Seq(Labels) : F[m - 1] = F[k] \o r
    BY <1>5
  <2>5. F[k] \in Seq(Labels)
    BY <1>2, <1>3
  <2> HIDE DEF F
  <2>6. (F[k] \o r) \o c = F[k] \o (r \o c)
    BY <2>3, <2>5, ConcatIsAssociative
  <2>7. r \o c \in Seq(Labels)
    BY <2>3, ConcatProperties
  <2> QED
    BY <2>3, <2>4, <2>6, <2>7
<1> HIDE DEF Extends, F
<1>6. bad = {}
  <2> SUFFICES ASSUME bad # {} PROVE FALSE
    OBVIOUS
  <2>1. bad \in SUBSET Nat
    BY <1>2
  <2>2. PICK m \in bad : \A l \in bad : m <= l
    BY <2>1, LeastIs
  <2>3. m # k /\ m \in k .. n /\ ~Extends(m)
    BY <1>4, <2>2
  <2>4. m \in k + 1 .. n /\ m - 1 \in k .. n
    BY <1>2, <2>3
  <2>5. m - 1 \notin bad
    BY <1>2, <2>2, <2>4
  <2>6. Extends(m - 1)
    BY <2>4, <2>5
  <2> QED
    BY <1>5, <2>3, <2>4, <2>6
<1>7. n \in k .. n
  BY <1>2
<1>8. PICK r \in Seq(Labels) : F[n] = F[k] \o r
  BY <1>6, <1>7 DEF Extends
<1>9. CallsOf(b) = F[n] /\ F[k] \in Seq(Labels)
  BY <1>1, <1>2, <1>3, FlatIs DEF F
<1>10. PICK s : s = <<"plan">> \o F[k]
  OBVIOUS
<1>11. s \in Seq(Labels) /\ <<"plan">> \in Seq(Labels)
  <2>1. "plan" \in Labels
    BY DEF Labels
  <2>2. <<"plan">> \in Seq(Labels)
    BY <2>1, SingleSeq
  <2>3. <<"plan">> \o F[k] \in Seq(Labels)
    BY <1>9, <2>2, ConcatProperties
  <2> QED
    BY <1>10, <2>2, <2>3
<1>12. <<"plan">> \o CallsOf(b) = s \o r
  <2>1. (<<"plan">> \o F[k]) \o r = <<"plan">> \o (F[k] \o r)
    BY <1>9, <1>11, ConcatIsAssociative
  <2> QED
    BY <1>8, <1>9, <1>10, <2>1
<1>13. IsPrefix(s, s \o r)
  <2>1. Len(s) \in Nat /\ Len(s \o r) = Len(s) + Len(r) /\ Len(r) \in Nat
    BY <1>11, ConcatProperties, LenProperties
  <2>2. s # <<>>
    BY <1>9, <1>10, <1>11, ConcatEqualIffEmpty
  <2>3. 1 \in 1 .. Len(s) /\ Len(s) \in 1 .. Len(s)
    BY <1>11, <2>1, <2>2, EmptySeq
  <2>4. SubSeq(s \o r, 1, Len(s)) = SubSeq(s, 1, Len(s))
    BY <1>11, <2>3, SubSeqOfConcat1
  <2> QED
    BY <2>1, <2>4 DEF IsPrefix
<1> QED
  BY <1>10, <1>12, <1>13 DEF F

\* Before the stop nothing is called and nothing is null; at it there is one or the other.
LEMMA StopIs ==
  ASSUME NEW b, IsBody(b), NEW i \in 1 .. Len(b.steps) + 1
  PROVE  \E j \in i .. Len(b.steps) + 1 :
           /\ j = Stop(b, i)
           /\ \A k \in i .. j - 1 : CallsAt(b.steps[k]) = <<>> /\ b.steps[k].kind # "null"
           /\ j <= Len(b.steps) => CallsAt(b.steps[j]) # <<>> \/ b.steps[j].kind = "null"
<1>1. PICK n \in Nat : n = Len(b.steps)
  BY FlatIs
<1> DEFINE stops == {k \in i .. n : CallsAt(b.steps[k]) # <<>> \/ b.steps[k].kind = "null"}
<1>3. Stop(b, i) = IF stops = {} THEN n + 1
                   ELSE CHOOSE k \in stops : \A l \in stops : k <= l
  BY <1>1 DEF Stop
<1>4. i \in 1 .. n + 1 /\ stops \in SUBSET Nat
  BY <1>1
<1>5. \A k \in i .. n : k \notin stops
        => CallsAt(b.steps[k]) = <<>> /\ b.steps[k].kind # "null"
  OBVIOUS
<1>6. \A k \in stops : CallsAt(b.steps[k]) # <<>> \/ b.steps[k].kind = "null"
  OBVIOUS
<1>7. stops \subseteq i .. n
  OBVIOUS
<1> HIDE DEF stops
<1>8. CASE stops = {}
  <2>1. Stop(b, i) = n + 1 /\ n + 1 \in i .. n + 1 /\ \A k \in i .. n + 1 - 1 : k \in i .. n
    BY <1>3, <1>4, <1>8
  <2> QED
    BY <1>1, <1>5, <1>8, <2>1
<1>9. CASE stops # {}
  <2>1. \E j \in stops : \A l \in stops : j <= l
    BY <1>4, <1>9, LeastIs
  <2>2. PICK j \in stops : j = Stop(b, i) /\ \A l \in stops : j <= l
    BY <1>3, <1>9, <2>1
  <2>3. j \in i .. n + 1 /\ j \in i .. n
    BY <1>4, <1>7
  <2>4. \A k \in i .. j - 1 : k \in i .. n /\ k \notin stops
    BY <1>4, <2>2, <2>3
  <2> QED
    BY <1>1, <1>5, <1>6, <2>2, <2>3, <2>4
<1> QED
  BY <1>8, <1>9

-----------------------------------------------------------------------------
(* What a run has called, and what it reports. *)

IsRun(x) ==
  x = [phase |-> x.phase, contract |-> x.contract, plan |-> x.plan, adapted |-> x.adapted,
       at |-> x.at, calls |-> x.calls, failed |-> x.failed]

\* The first k steps are steps, and none of the agents has failed.
Clean(x, k) ==
  /\ \A i \in 1 .. k : x.plan.steps[i].kind # "null"
  /\ \A i \in x.failed : x.plan.steps[i].kind # "agent"

Called(x, k) == x.calls = <<"plan">> \o Flat(x.plan)[k]

OwnPlan(x) == x.adapted \/ x.plan = x.contract

\* A run that walks its plan, has walked it to the end, or has met an error.
Planned(x) ==
  /\ IsBody(x.plan)
  /\ OwnPlan(x)
  /\ x.failed \subseteq 1 .. Len(x.plan.steps)

Walking(x) ==
  /\ x.phase = "body" /\ x.plan.shape # "none"
  /\ x.at \in 1 .. Len(x.plan.steps)
  /\ CallsAt(x.plan.steps[x.at]) # <<>>
  /\ Called(x, x.at) /\ Clean(x, x.at)

Walked(x) ==
  /\ x.phase = "completed" /\ x.plan.shape # "none"
  /\ Called(x, Len(x.plan.steps)) /\ Clean(x, Len(x.plan.steps))

Broken(x) ==
  /\ x.phase = "failed"
  /\ \E k \in 0 .. Len(x.plan.steps) : Called(x, k)
  /\ \/ x.plan.shape = "none"
     \/ \E i \in 1 .. Len(x.plan.steps) : x.plan.steps[i].kind = "null"
     \/ \E i \in x.failed : x.plan.steps[i].kind = "agent"

\* A run that has no plan (yet).
Unplanned(x) ==
  \/ x.phase = "unused" /\ x.failed = {} /\ x.at = 0
  \/ x.phase = "legacy" /\ x.failed = {} /\ x.at = 0
  \/ x.phase = "plan" /\ x.failed = {} /\ x.at = 0 /\ x.contract # Missing /\ x.calls = <<"plan">>
  \/ x.phase = "completed" /\ x.failed = {}
  \/ x.phase = "failed" /\ 0 \in x.failed

RunIsSound(x) ==
  /\ IsRun(x)
  /\ x.contract # Missing => IsBody(x.contract)
  /\ x.plan = Missing => Unplanned(x)
  /\ x.plan # Missing => Planned(x) /\ (Walking(x) \/ Walked(x) \/ Broken(x))

LoopIsSpec ==
  loop # Missing =>
    /\ loop = [mode |-> loop.mode, trigger |-> loop.trigger, stop |-> loop.stop, body |-> loop.body]
    /\ loop.body # Missing => IsBody(loop.body)

RunsInv == LoopIsSpec /\ DOMAIN run = Ticks /\ \A r \in Ticks : RunIsSound(run[r])

\* The two ways a run moves on.
LEMMA RunEnds ==
  ASSUME NEW x, IsRun(x), NEW p
  PROVE  [x EXCEPT !.phase = p]
           = [phase |-> p, contract |-> x.contract, plan |-> x.plan, adapted |-> x.adapted,
              at |-> x.at, calls |-> x.calls, failed |-> x.failed]
BY DEF IsRun

LEMMA RunMoves ==
  ASSUME NEW x, IsRun(x), NEW p, NEW k, NEW c
  PROVE  [x EXCEPT !.phase = p, !.at = k, !.calls = @ \o c]
           = [phase |-> p, contract |-> x.contract, plan |-> x.plan, adapted |-> x.adapted,
              at |-> k, calls |-> x.calls \o c, failed |-> x.failed]
<1>1. PICK y : y = [x EXCEPT !.phase = p, !.at = k, !.calls = @ \o c]
  OBVIOUS
<1>2. y = [phase |-> p, contract |-> x.contract, plan |-> x.plan, adapted |-> x.adapted,
           at |-> k, calls |-> x.calls \o c, failed |-> x.failed]
  BY <1>1 DEF IsRun
<1> QED
  BY <1>1, <1>2

LEMMA OwnPlanKept ==
  ASSUME NEW x, OwnPlan(x), NEW y,
         y.adapted = x.adapted, y.plan = x.plan, y.contract = x.contract
  PROVE  OwnPlan(y)
BY Zenon DEF OwnPlan

LEMMA PlannedKept ==
  ASSUME NEW x, Planned(x), NEW y, y.adapted = x.adapted, y.plan = x.plan,
         y.contract = x.contract, y.failed = x.failed
  PROVE  Planned(y)
BY OwnPlanKept DEF Planned

\* A run that walks on from step i, having called what comes before it, calls what its
\* next step calls, ends, or meets an error (runContractLoop).
LEMMA WalkIs ==
  ASSUME NEW x, IsRun(x), Planned(x), NEW i \in 1 .. Len(x.plan.steps) + 1,
         Called(x, i - 1), Clean(x, i - 1)
  PROVE  LET y == Walk(x, i)
         IN  /\ IsRun(y) /\ y.contract = x.contract /\ y.plan = x.plan
             /\ Planned(y) /\ (Walking(y) \/ Walked(y) \/ Broken(y))
<1>1. PICK n \in Nat : n = Len(x.plan.steps)
  BY FlatIs DEF Planned
<1>2. PICK j \in i .. n + 1 :
        /\ j = Stop(x.plan, i)
        /\ \A k \in i .. j - 1 : CallsAt(x.plan.steps[k]) = <<>> /\ x.plan.steps[k].kind # "null"
        /\ j <= n => CallsAt(x.plan.steps[j]) # <<>> \/ x.plan.steps[j].kind = "null"
  BY <1>1, StopIs DEF Planned
<1>3. i \in 1 .. n + 1 /\ i - 1 \in 0 .. n /\ j - 1 \in 0 .. n
  BY <1>1, <1>2
<1>4. Flat(x.plan)[j - 1] = Flat(x.plan)[i - 1]
  BY <1>1, <1>2, <1>3, FlatSame DEF Planned
<1>5. \A k \in 1 .. j - 1 : x.plan.steps[k].kind # "null"
  <2>1. \A k \in 1 .. j - 1 : k \in 1 .. i - 1 \/ k \in i .. j - 1
    BY <1>2, <1>3
  <2> QED
    BY <1>2, <2>1 DEF Clean
<1>6. x.plan.shape = "text" => j = n + 1
  <2>1. SUFFICES ASSUME x.plan.shape = "text" PROVE j = n + 1
    OBVIOUS
  <2>2. x.plan.steps = <<>>
    BY <2>1 DEF Planned, IsBody
  <2>3. n = 0
    BY <1>1, <2>2
  <2> QED
    BY <1>2, <1>3, <2>3
<1>7. PICK y : y = Walk(x, i)
  OBVIOUS
<1>8. CASE x.plan.shape = "none"
  <2>1. y = [x EXCEPT !.phase = "failed"]
    BY <1>7, <1>8 DEF Walk
  <2>2. y = [phase |-> "failed", contract |-> x.contract, plan |-> x.plan, adapted |-> x.adapted,
             at |-> x.at, calls |-> x.calls, failed |-> x.failed]
    BY <2>1, RunEnds
  <2>3. IsRun(y) /\ y.contract = x.contract /\ y.plan = x.plan /\ Planned(y)
    <3>1. /\ IsRun(y) /\ y.contract = x.contract /\ y.plan = x.plan
          /\ y.adapted = x.adapted /\ y.failed = x.failed
      BY <2>2 DEF IsRun
    <3> QED
      BY <3>1, PlannedKept
  <2>4. Broken(y)
    BY <1>1, <1>3, <1>8, <2>2 DEF Broken, Called
  <2> QED
    BY <1>7, <2>3, <2>4
<1>9. CASE x.plan.shape # "none" /\ j = n + 1
  <2>1. y = [x EXCEPT !.phase = "completed"]
    BY <1>1, <1>2, <1>7, <1>9 DEF Walk
  <2>2. y = [phase |-> "completed", contract |-> x.contract, plan |-> x.plan,
             adapted |-> x.adapted, at |-> x.at, calls |-> x.calls, failed |-> x.failed]
    BY <2>1, RunEnds
  <2>3. IsRun(y) /\ y.contract = x.contract /\ y.plan = x.plan /\ Planned(y)
    <3>1. /\ IsRun(y) /\ y.contract = x.contract /\ y.plan = x.plan
          /\ y.adapted = x.adapted /\ y.failed = x.failed
      BY <2>2 DEF IsRun
    <3> QED
      BY <3>1, PlannedKept
  <2>4. j - 1 = n
    BY <1>9
  <2>5. Walked(y)
    BY <1>1, <1>4, <1>5, <1>9, <2>2, <2>4 DEF Walked, Called, Clean
  <2> QED
    BY <1>7, <2>3, <2>5
<1>10. CASE x.plan.shape # "none" /\ j # n + 1 /\ x.plan.steps[j].kind = "null"
  <2>1. j \in 1 .. n /\ ~(j > Len(x.plan.steps)) /\ x.plan.shape # "text"
    <3>1. j # n + 1
      BY <1>10
    <3> QED
      BY <1>1, <1>3, <1>6, <3>1
  <2>2. y = [x EXCEPT !.phase = "failed"]
    BY <1>2, <1>7, <1>10, <2>1 DEF Walk
  <2>3. y = [phase |-> "failed", contract |-> x.contract, plan |-> x.plan, adapted |-> x.adapted,
             at |-> x.at, calls |-> x.calls, failed |-> x.failed]
    BY <2>2, RunEnds
  <2>4. IsRun(y) /\ y.contract = x.contract /\ y.plan = x.plan /\ Planned(y)
    <3>1. /\ IsRun(y) /\ y.contract = x.contract /\ y.plan = x.plan
          /\ y.adapted = x.adapted /\ y.failed = x.failed
      BY <2>3 DEF IsRun
    <3> QED
      BY <3>1, PlannedKept
  <2>5. Broken(y)
    BY <1>1, <1>3, <1>10, <2>1, <2>3 DEF Broken, Called
  <2> QED
    BY <1>7, <2>4, <2>5
<1>11. CASE x.plan.shape # "none" /\ j # n + 1 /\ x.plan.steps[j].kind # "null"
  <2>1. j \in 1 .. n /\ ~(j > Len(x.plan.steps)) /\ x.plan.shape # "text"
    BY <1>1, <1>2, <1>3, <1>6, <1>11
  <2> DEFINE c == CallsAt(x.plan.steps[j])
  <2>2. y = [x EXCEPT !.phase = "body", !.at = j, !.calls = @ \o c]
    BY <1>2, <1>7, <1>11, <2>1 DEF Walk
  <2> HIDE DEF c
  <2>3. y = [phase |-> "body", contract |-> x.contract, plan |-> x.plan, adapted |-> x.adapted,
             at |-> j, calls |-> x.calls \o c, failed |-> x.failed]
    BY <2>2, RunMoves
  <2>4. IsRun(y) /\ y.contract = x.contract /\ y.plan = x.plan /\ Planned(y)
    <3>1. /\ IsRun(y) /\ y.contract = x.contract /\ y.plan = x.plan
          /\ y.adapted = x.adapted /\ y.failed = x.failed
      BY <2>3 DEF IsRun
    <3> QED
      BY <3>1, PlannedKept
  <2>5. x.calls \o c = <<"plan">> \o Flat(x.plan)[j]
    <3>1. /\ Flat(x.plan)[j] = Flat(x.plan)[j - 1] \o c /\ c \in Seq(Labels)
          /\ Flat(x.plan)[j - 1] \in Seq(Labels)
      BY <1>1, <1>3, <2>1, FlatIs DEF c, Planned, Lists
    <3>2. x.calls = <<"plan">> \o Flat(x.plan)[j - 1]
      BY <1>4 DEF Called
    <3>3. "plan" \in Labels
      BY DEF Labels
    <3>4. <<"plan">> \in Seq(Labels)
      BY <3>3, SingleSeq
    <3>5. (<<"plan">> \o Flat(x.plan)[j - 1]) \o c = <<"plan">> \o (Flat(x.plan)[j - 1] \o c)
      BY <3>1, <3>4, ConcatIsAssociative
    <3> QED
      BY <3>1, <3>2, <3>5
  <2>6. \A k \in 1 .. j : x.plan.steps[k].kind # "null"
    <3>1. \A k \in 1 .. j : k = j \/ k \in 1 .. j - 1
      BY <1>3
    <3> QED
      BY <1>5, <1>11, <3>1
  <2>7. Walking(y)
    <3>1. CallsAt(x.plan.steps[j]) # <<>>
      BY <1>2, <1>11, <2>1
    <3>2. Called(y, j)
      BY <2>3, <2>5 DEF Called
    <3>3. Clean(y, j)
      BY <2>3, <2>6 DEF Clean
    <3> QED
      BY <1>1, <1>11, <2>1, <2>3, <3>1, <3>2, <3>3 DEF Walking
  <2> QED
    BY <1>7, <2>4, <2>7
<1> QED
  BY <1>8, <1>9, <1>10, <1>11

\* A run with a plan that has been walked so far as its phase says is sound.
LEMMA WalkIsSound ==
  ASSUME NEW x, IsRun(x), x.contract # Missing => IsBody(x.contract), Planned(x),
         NEW i \in 1 .. Len(x.plan.steps) + 1, Called(x, i - 1), Clean(x, i - 1)
  PROVE  RunIsSound(Walk(x, i))
<1>1. PICK y : y = Walk(x, i)
  OBVIOUS
<1>2. /\ IsRun(y) /\ y.contract = x.contract /\ y.plan = x.plan
      /\ Planned(y) /\ (Walking(y) \/ Walked(y) \/ Broken(y))
  BY <1>1, WalkIs
<1>3. y.plan # Missing
  BY <1>2 DEF Planned, IsBody
<1> QED
  BY <1>1, <1>2, <1>3 DEF RunIsSound

LEMMA FirstStep ==
  ASSUME NEW b, IsBody(b)
  PROVE  1 \in 1 .. Len(b.steps) + 1 /\ 1 - 1 = 0 /\ 1 .. 0 = {}
<1>1. PICK n \in Nat : n = Len(b.steps)
  BY FlatIs
<1>2. 1 \in 1 .. n + 1 /\ 1 - 1 = 0 /\ 1 .. 0 = {}
  OBVIOUS
<1> QED
  BY <1>1, <1>2

\* The plan step's reply decides on the plan, which is walked from its first step.
LEMMA PlanIsSound ==
  ASSUME NEW x, RunIsSound(x), x.phase = "plan", \A b \in Replies : IsBody(b),
         NEW reply \in Replies \cup {Missing}
  PROVE  RunIsSound(Walk(Plan(x, reply), 1))
<1>1. x.plan = Missing /\ x.failed = {} /\ x.contract # Missing /\ x.calls = <<"plan">>
  BY DEF RunIsSound, Unplanned, Walking, Walked, Broken
<1>2. IsRun(x) /\ IsBody(x.contract)
  BY <1>1 DEF RunIsSound
<1>3. PICK y : y = Plan(x, reply)
  OBVIOUS
<1>4. \E b, a : /\ y = [phase |-> x.phase, contract |-> x.contract, plan |-> b, adapted |-> a,
                        at |-> x.at, calls |-> x.calls, failed |-> x.failed]
                /\ IsBody(b) /\ (a \/ b = x.contract)
  <2>1. CASE reply = Missing \/ reply = x.contract
    <3>1. y = [x EXCEPT !.plan = x.contract, !.adapted = FALSE]
      BY <1>3, <2>1 DEF Plan
    <3>2. y = [phase |-> x.phase, contract |-> x.contract, plan |-> x.contract,
               adapted |-> FALSE, at |-> x.at, calls |-> x.calls, failed |-> x.failed]
      BY <1>2, <3>1 DEF IsRun
    <3> QED
      BY <1>2, <3>2
  <2>2. CASE ~(reply = Missing \/ reply = x.contract)
    <3>1. y = [x EXCEPT !.plan = reply, !.adapted = TRUE]
      BY <1>3, <2>2 DEF Plan
    <3>2. y = [phase |-> x.phase, contract |-> x.contract, plan |-> reply,
               adapted |-> TRUE, at |-> x.at, calls |-> x.calls, failed |-> x.failed]
      BY <1>2, <3>1 DEF IsRun
    <3>3. IsBody(reply)
      BY <2>2
    <3> QED
      BY <3>2, <3>3
  <2> QED
    BY <2>1, <2>2
<1>5. /\ IsRun(y) /\ y.contract = x.contract /\ IsBody(y.plan) /\ y.calls = <<"plan">>
      /\ y.failed = {} /\ OwnPlan(y)
  <2>1. PICK b, a : /\ y = [phase |-> x.phase, contract |-> x.contract, plan |-> b, adapted |-> a,
                           at |-> x.at, calls |-> x.calls, failed |-> x.failed]
                    /\ IsBody(b) /\ (a \/ b = x.contract)
    BY <1>4
  <2>2. /\ IsRun(y) /\ y.contract = x.contract /\ y.plan = b /\ y.adapted = a
        /\ y.calls = x.calls /\ y.failed = x.failed
    BY <2>1 DEF IsRun
  <2>3. OwnPlan(y)
    BY <2>1, <2>2, Zenon DEF OwnPlan
  <2> QED
    BY <1>1, <2>1, <2>2, <2>3
<1>7. Called(y, 0)
  <2>1. "plan" \in Labels
    BY DEF Labels
  <2>2. <<"plan">> \in Seq(Labels)
    BY <2>1, SingleSeq
  <2>3. <<"plan">> \o <<>> = <<"plan">>
    BY <2>2, ConcatEmptySeq
  <2>4. Flat(y.plan)[0] = <<>>
    BY <1>5, FlatIs
  <2> QED
    BY <1>5, <2>3, <2>4 DEF Called
<1>8. Clean(y, 0) /\ Planned(y)
  <2>1. Clean(y, 0)
    BY <1>5, FirstStep DEF Clean
  <2>2. y.failed \subseteq 1 .. Len(y.plan.steps)
    BY <1>5
  <2> QED
    BY <1>5, <2>1, <2>2 DEF Planned
<1>9. 1 \in 1 .. Len(y.plan.steps) + 1 /\ 1 - 1 = 0
  BY <1>5, FirstStep
<1>10. RunIsSound(Walk(y, 1))
  BY <1>2, <1>5, <1>7, <1>8, <1>9, WalkIsSound
<1> QED
  BY <1>3, <1>10

\* A run that is about to settle, with what has failed by then.
IsWith(y, x, F) ==
  /\ IsRun(y) /\ y.contract = x.contract /\ y.plan = x.plan /\ y.at = x.at
  /\ y.adapted = x.adapted /\ y.calls = x.calls /\ y.failed = F /\ y.phase = x.phase

LEMMA WithFailed ==
  ASSUME NEW x, IsRun(x), NEW F, NEW y, y = [x EXCEPT !.failed = F]
  PROVE  IsWith(y, x, F)
<1>1. y = [phase |-> x.phase, contract |-> x.contract, plan |-> x.plan, adapted |-> x.adapted,
           at |-> x.at, calls |-> x.calls, failed |-> F]
  BY DEF IsRun
<1> QED
  BY <1>1 DEF IsRun, IsWith

\* What a run awaits in its body settles, well or not.
LEMMA StepIsSound ==
  ASSUME NEW x, RunIsSound(x), x.phase = "body",
         NEW F, F \in {x.failed, x.failed \cup {x.at}}, NEW y, IsWith(y, x, F)
  PROVE  /\ F = x.failed => RunIsSound(Walk(y, y.at + 1))
         /\ F = x.failed \cup {x.at} => RunIsSound(StepFails(y))
<1>1. IsRun(x) /\ (x.contract # Missing => IsBody(x.contract))
  BY DEF RunIsSound
<1>2. x.plan # Missing /\ Planned(x) /\ Walking(x)
  BY DEF RunIsSound, Unplanned, Walked, Broken
<1>3. PICK n \in Nat : n = Len(x.plan.steps)
  BY <1>2, FlatIs DEF Planned
<1>4. x.at \in 1 .. n /\ x.failed \subseteq 1 .. n
  BY <1>2, <1>3 DEF Planned, Walking
<1>5. /\ IsRun(y) /\ y.contract = x.contract /\ y.plan = x.plan /\ y.at = x.at
      /\ y.adapted = x.adapted /\ y.calls = x.calls /\ y.failed = F
  BY DEF IsWith
<1>6. Planned(y) /\ Called(y, y.at) /\ \A i \in 1 .. y.at : y.plan.steps[i].kind # "null"
  <2>1. F \subseteq 1 .. n
    BY <1>4
  <2>2. OwnPlan(y)
    BY <1>2, <1>5, OwnPlanKept DEF Planned
  <2> QED
    BY <1>2, <1>3, <1>5, <2>1, <2>2 DEF Planned, Walking, Called, Clean
<1>7. x.plan.steps[x.at].kind \in {"agent", "parallel"}
  BY <1>2 DEF Walking, CallsAt
<1>8. \A i \in x.failed : x.plan.steps[i].kind # "agent"
  BY <1>2 DEF Walking, Clean
<1>9. ASSUME F = x.failed \/ x.plan.steps[x.at].kind # "agent"
      PROVE  RunIsSound(Walk(y, y.at + 1))
  <2>1. \A i \in y.failed : y.plan.steps[i].kind # "agent"
    BY <1>5, <1>8, <1>9
  <2>2. Clean(y, y.at)
    BY <1>6, <2>1 DEF Clean
  <2>3. y.at + 1 \in 1 .. Len(y.plan.steps) + 1 /\ (y.at + 1) - 1 = y.at
    BY <1>3, <1>4, <1>5
  <2> QED
    BY <1>1, <1>5, <1>6, <2>2, <2>3, WalkIsSound
<1>10. ASSUME F = x.failed \cup {x.at} PROVE RunIsSound(StepFails(y))
  <2>1. CASE x.plan.steps[x.at].kind = "parallel"
    BY <1>5, <1>9, <2>1 DEF StepFails
  <2>2. CASE x.plan.steps[x.at].kind # "parallel"
    <3>1. StepFails(y) = [y EXCEPT !.phase = "failed"]
      BY <1>5, <2>2 DEF StepFails
    <3>2. PICK z : z = StepFails(y)
      OBVIOUS
    <3>3. z = [phase |-> "failed", contract |-> y.contract, plan |-> y.plan,
               adapted |-> y.adapted, at |-> y.at, calls |-> y.calls, failed |-> y.failed]
      BY <1>5, <3>1, <3>2, RunEnds
    <3>4. IsRun(z) /\ z.contract = x.contract /\ z.plan = x.plan
      BY <1>5, <3>3 DEF IsRun
    <3>5. Planned(z)
      <4>1. z.adapted = y.adapted /\ z.plan = y.plan /\ z.contract = y.contract
        BY <3>3
      <4>2. OwnPlan(z)
        BY <1>6, <4>1, OwnPlanKept DEF Planned
      <4> QED
        BY <1>6, <3>3, <4>2 DEF Planned
    <3>6. Broken(z)
      <4>1. x.at \in z.failed /\ x.plan.steps[x.at].kind = "agent"
        BY <1>5, <1>7, <1>10, <2>2, <3>3
      <4>2. Called(z, x.at)
        BY <1>5, <1>6, <3>3 DEF Called
      <4>3. x.at \in 0 .. Len(z.plan.steps)
        BY <1>3, <1>4, <3>4
      <4> QED
        BY <3>3, <3>4, <4>1, <4>2, <4>3 DEF Broken
    <3> QED
      BY <1>1, <1>2, <3>2, <3>4, <3>5, <3>6 DEF RunIsSound
  <2> QED
    BY <2>1, <2>2
<1> QED
  BY <1>9, <1>10

\* The plan step fails, or the legacy call settles.
LEMMA CallIsSound ==
  ASSUME NEW x, RunIsSound(x), x.phase \in {"plan", "legacy"}, NEW F, NEW p,
         \/ x.phase = "legacy" /\ F = x.failed /\ p = "completed"
         \/ F = x.failed \cup {x.at} /\ p = "failed",
         NEW y, IsWith(y, x, F)
  PROVE  RunIsSound([y EXCEPT !.phase = p])
<1>1. IsRun(x) /\ (x.contract # Missing => IsBody(x.contract))
  BY DEF RunIsSound
<1>2. x.plan = Missing /\ x.failed = {} /\ x.at = 0
  BY DEF RunIsSound, Unplanned, Walking, Walked, Broken
<1>3. /\ IsRun(y) /\ y.contract = x.contract /\ y.plan = x.plan /\ y.at = x.at
      /\ y.adapted = x.adapted /\ y.calls = x.calls /\ y.failed = F
  BY DEF IsWith
<1>4. PICK z : z = [y EXCEPT !.phase = p]
  OBVIOUS
<1>5. z = [phase |-> p, contract |-> y.contract, plan |-> y.plan,
           adapted |-> y.adapted, at |-> y.at, calls |-> y.calls, failed |-> y.failed]
  BY <1>3, <1>4, RunEnds
<1>6. IsRun(z) /\ z.contract = x.contract /\ z.plan = x.plan
  BY <1>3, <1>5 DEF IsRun
<1>7. Unplanned(z)
  BY <1>2, <1>3, <1>5 DEF Unplanned
<1> QED
  BY <1>1, <1>2, <1>4, <1>6, <1>7 DEF RunIsSound

Fatal(x) == \E i \in x.failed : i = 0 \/ x.plan.steps[i].kind = "agent"

Unwalkable(x) ==
  x.plan # Missing /\ \/ x.plan.shape = "none"
                      \/ \E i \in DOMAIN x.plan.steps : x.plan.steps[i].kind = "null"

\* A sound run reports what it has done.
LEMMA SoundRunReports ==
  ASSUME NEW x, RunIsSound(x)
  PROVE  /\ x.plan # Missing =>
              /\ x.phase = "completed" => x.calls = <<"plan">> \o CallsOf(x.plan)
              /\ IsPrefix(x.calls, <<"plan">> \o CallsOf(x.plan))
              /\ OwnPlan(x)
         /\ x.phase = "completed" => ~Fatal(x) /\ ~Unwalkable(x)
         /\ x.phase = "failed" => Fatal(x) \/ Unwalkable(x)
<1>1. CASE x.plan = Missing
  <2>1. x.phase = "completed" => x.failed = {}
    BY <1>1 DEF RunIsSound, Unplanned
  <2>2. x.phase = "failed" => 0 \in x.failed
    BY <1>1 DEF RunIsSound, Unplanned
  <2> QED
    BY <1>1, <2>1, <2>2 DEF Fatal, Unwalkable
<1>2. CASE x.plan # Missing
  <2>1. Planned(x) /\ (Walking(x) \/ Walked(x) \/ Broken(x))
    BY <1>2 DEF RunIsSound
  <2>2. IsBody(x.plan) /\ OwnPlan(x)
    BY <2>1 DEF Planned
  <2>3. PICK n \in Nat : n = Len(x.plan.steps) /\ DOMAIN x.plan.steps = 1 .. n
    BY <2>2, FlatIs
  <2>4. \E k \in 0 .. Len(x.plan.steps) : Called(x, k)
    <3>1. CASE Walking(x)
      <4>1. x.at \in 0 .. n
        BY <2>3, <3>1 DEF Walking
      <4> QED
        BY <2>3, <3>1, <4>1 DEF Walking
    <3>2. CASE Walked(x)
      <4>1. n \in 0 .. n
        OBVIOUS
      <4> QED
        BY <2>3, <3>2, <4>1 DEF Walked
    <3>3. CASE Broken(x)
      BY <3>3 DEF Broken
    <3> QED
      BY <2>1, <3>1, <3>2, <3>3
  <2>5. IsPrefix(x.calls, <<"plan">> \o CallsOf(x.plan))
    BY <2>2, <2>4, FlatPrefix DEF Called
  <2>6. ASSUME x.phase = "completed"
        PROVE  x.calls = <<"plan">> \o CallsOf(x.plan) /\ ~Fatal(x) /\ ~Unwalkable(x)
    <3>1. Walked(x)
      BY <2>1, <2>6 DEF Walking, Broken
    <3>2. x.calls = <<"plan">> \o CallsOf(x.plan)
      BY <2>2, <3>1, FlatIs DEF Walked, Called
    <3>3. \A i \in x.failed : i # 0
      <4>1. 0 \notin 1 .. n
        OBVIOUS
      <4> QED
        BY <2>1, <2>3, <4>1 DEF Planned
    <3> QED
      BY <2>3, <3>1, <3>2, <3>3 DEF Walked, Clean, Fatal, Unwalkable
  <2>7. ASSUME x.phase = "failed" PROVE Fatal(x) \/ Unwalkable(x)
    <3>1. Broken(x)
      BY <2>1, <2>7 DEF Walking, Walked
    <3> QED
      BY <1>2, <2>3, <3>1 DEF Broken, Fatal, Unwalkable
  <2> QED
    BY <2>2, <2>5, <2>6, <2>7
<1> QED
  BY <1>1, <1>2

\* Whatever is posted, adopted, replied or settles, every run stays sound.
LEMMA RunsStep == RunsInv /\ [ContractNext]_contractVars => RunsInv'
<1> SUFFICES ASSUME RunsInv, [ContractNext]_contractVars PROVE RunsInv'
  OBVIOUS
<1>1. \A b \in Bodies \cup Replies : IsBody(b)
  BY ContractAssumption DEF ContractAssumption
<1>2. ASSUME NEW b \in Bodies \cup {Missing}, PostSpec(b) PROVE RunsInv'
  <2>1. LoopIsSpec'
    BY <1>1, <1>2 DEF PostSpec, LoopIsSpec
  <2> QED
    BY <1>2, <2>1 DEF PostSpec, RunsInv
<1>3. ASSUME NEW p \in Proposals, FromSession(p) PROVE RunsInv'
  <2>1. PICK l : l = Compiled(p) /\ loop' = l
    BY <1>3 DEF FromSession
  <2>2. /\ l = [mode |-> l.mode, trigger |-> l.trigger, stop |-> l.stop, body |-> l.body]
        /\ IsBody(l.body)
    BY <2>1, CompiledIsSound
  <2>3. LoopIsSpec'
    BY <2>1, <2>2 DEF LoopIsSpec
  <2> QED
    BY <1>3, <2>3 DEF FromSession, RunsInv
<1>4. ASSUME NEW b \in Bodies, AdoptRun(b) PROVE RunsInv'
  <2>1. loop # Missing /\ loop' = [loop EXCEPT !.body = b]
    BY <1>4 DEF AdoptRun
  <2>2. loop' = [mode |-> loop.mode, trigger |-> loop.trigger, stop |-> loop.stop, body |-> b]
    BY <2>1 DEF RunsInv, LoopIsSpec
  <2>3. LoopIsSpec'
    BY <1>1, <2>2 DEF LoopIsSpec
  <2> QED
    BY <1>4, <2>3 DEF AdoptRun, RunsInv
<1>5. ASSUME NEW r \in Ticks, NEW y, run' = [run EXCEPT ![r] = y], loop' = loop, RunIsSound(y)
      PROVE  RunsInv'
  <2>1. DOMAIN run' = Ticks /\ \A s \in Ticks : run'[s] = IF s = r THEN y ELSE run[s]
    BY <1>5 DEF RunsInv
  <2>2. \A s \in Ticks : RunIsSound(run'[s])
    <3> SUFFICES ASSUME NEW s \in Ticks PROVE RunIsSound(run'[s])
      OBVIOUS
    <3>1. CASE s = r
      BY <1>5, <2>1, <3>1
    <3>2. CASE s # r
      <4>1. run'[s] = run[s]
        BY <2>1, <3>2
      <4> QED
        BY <4>1 DEF RunsInv
    <3> QED
      BY <3>1, <3>2
  <2>3. (\A s \in Ticks : RunIsSound(run[s]))'
    BY <2>2 DEF RunIsSound, IsRun, IsBody, Unplanned, Planned, OwnPlan, Walking, Walked,
                Broken, Called, Clean, Flat, IsFlat, Calls, CallsAt
  <2> QED
    BY <1>5, <2>1, <2>3 DEF RunsInv, LoopIsSpec
<1>6. ASSUME NEW r \in Ticks, StartTick(r) PROVE RunsInv'
  <2>1. RunIsSound(run[r]) /\ run[r].phase = "unused"
    BY <1>6 DEF RunsInv, StartTick
  <2>2. PICK x : x = run[r]
    OBVIOUS
  <2>3. IsRun(x) /\ x.plan = Missing /\ x.failed = {} /\ x.at = 0
    BY <2>1, <2>2 DEF RunIsSound, Unplanned, Walking, Walked, Broken
  <2>4. PICK p : p = IF loop.body = Missing THEN "legacy" ELSE "plan"
    OBVIOUS
  <2>5. PICK y : y = [x EXCEPT !.contract = loop.body, !.phase = p, !.calls = <<"plan">>]
    OBVIOUS
  <2>6. y = [phase |-> p, contract |-> loop.body, plan |-> Missing, adapted |-> x.adapted,
             at |-> 0, calls |-> <<"plan">>, failed |-> {}]
    BY <2>3, <2>5 DEF IsRun
  <2>7. loop.body # Missing => IsBody(loop.body)
    BY <1>6 DEF RunsInv, LoopIsSpec, StartTick
  <2>8. RunIsSound(y)
    BY <2>4, <2>6, <2>7 DEF RunIsSound, IsRun, Unplanned
  <2>9. run' = [run EXCEPT ![r] = y] /\ loop' = loop
    BY <1>6, <2>2, <2>4, <2>5 DEF StartTick
  <2> QED
    BY <1>5, <2>8, <2>9
<1>7. ASSUME NEW r \in Ticks, NEW reply \in Replies \cup {Missing}, PlanReplies(r, reply)
      PROVE  RunsInv'
  <2>1. RunIsSound(run[r]) /\ run[r].phase = "plan"
    BY <1>7 DEF RunsInv, PlanReplies
  <2>2. RunIsSound(Walk(Plan(run[r], reply), 1))
    BY <1>1, <2>1, PlanIsSound
  <2> QED
    BY <1>5, <1>7, <2>2 DEF PlanReplies
<1>8. ASSUME NEW r \in Ticks, NEW ok \in BOOLEAN, StepSettles(r, ok) PROVE RunsInv'
  <2>1. PICK x : x = run[r]
    OBVIOUS
  <2>2. RunIsSound(x)
    BY <2>1 DEF RunsInv
  <2>3. PICK F : F = IF ok THEN x.failed ELSE x.failed \cup {x.at}
    OBVIOUS
  <2>4. PICK y : y = [x EXCEPT !.failed = F]
    OBVIOUS
  <2>5. IsWith(y, x, F)
    BY <2>2, <2>4, WithFailed DEF RunIsSound
  <2>6. y.phase = x.phase /\ y.at = x.at
    BY <2>5 DEF IsWith
  <2>7. /\ y.phase \in {"plan", "legacy", "body"} /\ (y.phase = "plan" => ~ok)
        /\ loop' = loop
        /\ run' = [run EXCEPT ![r] =
                     IF y.phase = "body" THEN IF ok THEN Walk(y, y.at + 1) ELSE StepFails(y)
                     ELSE [y EXCEPT !.phase = IF ok THEN "completed" ELSE "failed"]]
    BY <1>8, <2>1, <2>3, <2>4 DEF StepSettles
  <2>8. CASE y.phase = "body" /\ ok
    <3>1. RunIsSound(Walk(y, y.at + 1))
      BY <2>2, <2>3, <2>5, <2>6, <2>8, StepIsSound
    <3> QED
      BY <1>5, <2>7, <2>8, <3>1
  <2>9. CASE y.phase = "body" /\ ~ok
    <3>1. RunIsSound(StepFails(y))
      BY <2>2, <2>3, <2>5, <2>6, <2>9, StepIsSound
    <3> QED
      BY <1>5, <2>7, <2>9, <3>1
  <2>10. CASE y.phase # "body" /\ ok
    <3>1. RunIsSound([y EXCEPT !.phase = "completed"])
      BY <2>2, <2>3, <2>5, <2>6, <2>7, <2>10, CallIsSound
    <3> QED
      BY <1>5, <2>7, <2>10, <3>1
  <2>11. CASE y.phase # "body" /\ ~ok
    <3>1. RunIsSound([y EXCEPT !.phase = "failed"])
      BY <2>2, <2>3, <2>5, <2>6, <2>7, <2>11, CallIsSound
    <3> QED
      BY <1>5, <2>7, <2>11, <3>1
  <2> QED
    BY <2>8, <2>9, <2>10, <2>11
<1>9. CASE UNCHANGED contractVars
  BY <1>9 DEF contractVars, RunsInv, LoopIsSpec
<1> QED
  BY <1>2, <1>3, <1>4, <1>6, <1>7, <1>8, <1>9 DEF ContractNext

\* A run has called what its plan says, in order, as far as it has come, and all of it
\* when it completes; it fails exactly when something fatal happened, and the plan it
\* reports is the one it walked (runContractLoop, adoptable plans).
THEOREM ReportsHold == ContractSpec => []RunsWhatItReports
<1>1. ContractInit => RunsInv
  <2> SUFFICES ASSUME ContractInit PROVE RunsInv
    OBVIOUS
  <2>1. RunIsSound(Unused)
    BY DEF RunIsSound, IsRun, Unplanned, Unused
  <2> QED
    BY <2>1 DEF ContractInit, RunsInv, LoopIsSpec
<1>2. RunsInv => RunsWhatItReports
  <2> SUFFICES ASSUME RunsInv, NEW r \in Ticks
               PROVE  LET x == run[r]
                          fatal == \E i \in x.failed : i = 0 \/ x.plan.steps[i].kind = "agent"
                          unwalkable == x.plan # Missing /\
                            \/ x.plan.shape = "none"
                            \/ \E i \in DOMAIN x.plan.steps : x.plan.steps[i].kind = "null"
                      IN  /\ x.plan # Missing =>
                               /\ x.phase = "completed" =>
                                    x.calls = <<"plan">> \o CallsOf(x.plan)
                               /\ IsPrefix(x.calls, <<"plan">> \o CallsOf(x.plan))
                               /\ x.adapted \/ x.plan = x.contract
                          /\ x.phase = "completed" => ~fatal /\ ~unwalkable
                          /\ x.phase = "failed" => fatal \/ unwalkable
    BY DEF RunsWhatItReports
  <2>1. RunIsSound(run[r])
    BY DEF RunsInv
  <2> QED
    BY <2>1, SoundRunReports, Zenon DEF OwnPlan, Fatal, Unwalkable
<1> QED
  BY <1>1, <1>2, RunsStep, PTL DEF ContractSpec

-----------------------------------------------------------------------------
(* Accounts and what they own. *)

Logins == Handles \cup {Nobody}
Users == [github : Accounts, login : Logins]
Projects == [id : Nat, owner : Nat, name : ProjectNames]
Sessions == [owner : Nat, project : Nat, named : BOOLEAN, by : Accounts]
Stages == {"out", "exchanging", "fetching", "fetched", "dropped", "error", "in"}
Clients == [stage : Stages, account : Accounts \cup {Nobody}, login : Logins, token : Nat]

WorkspaceIsTyped ==
  /\ handle \in [Accounts -> Handles]
  /\ users \in Seq(Users) /\ tokens \in Seq(Nat) /\ made \in Nat
  /\ projects \in Seq(Projects) /\ sessions \in Seq(Sessions)
  /\ browser \in [Browsers -> Clients]

\* No two users of one account; a token names a user; a signed-in client's names the
\* user of its account.
AccountsInv ==
  /\ \A i, j \in DOMAIN users : users[i].github = users[j].github => i = j
  /\ \A k \in DOMAIN tokens : tokens[k] \in DOMAIN users
  /\ \A b \in Browsers :
       /\ browser[b].stage \in InFlight => browser[b].account \in Accounts
       /\ browser[b].stage = "in" =>
            /\ browser[b].token \in DOMAIN tokens
            /\ users[tokens[browser[b].token]].github = browser[b].account

ProjectsInv ==
  /\ \A i \in DOMAIN projects : projects[i].id \in 1 .. made
  /\ \A i, j \in DOMAIN projects : projects[i].id = projects[j].id => i = j

\* A session's owner is the user of the account that made it, and so is the owner of the
\* project it was put into, if that was not the client's choice.
IsOwned(s) ==
  /\ s.owner \in DOMAIN users
  /\ users[s.owner].github = s.by
  /\ ~s.named => /\ s.project \in 1 .. made
                 /\ \A j \in DOMAIN projects :
                      projects[j].id = s.project => projects[j].owner = s.owner

OwnedInv == \A i \in DOMAIN sessions : IsOwned(sessions[i])

WorkspaceInv == WorkspaceIsTyped /\ AccountsInv /\ ProjectsInv /\ OwnedInv

LEMMA MinIs ==
  ASSUME NEW S \in SUBSET Nat, S # {}
  PROVE  Min(S) \in S
<1>1. \E x \in S : \A y \in S : x <= y
  BY LeastIs
<1> QED
  BY <1>1 DEF Min

\* The user matched has the account; if none is, nobody has it.
LEMMA MatchIs ==
  ASSUME WorkspaceIsTyped, NEW b \in Browsers
  PROVE  /\ Match(b) = 0 => \A i \in DOMAIN users : users[i].github # browser[b].account
         /\ Match(b) # 0 => /\ Match(b) \in DOMAIN users
                            /\ users[Match(b)].github = browser[b].account
<1>1. Len(users) \in Nat /\ DOMAIN users = 1 .. Len(users)
  BY LenProperties DEF WorkspaceIsTyped
<1>2. PICK n \in Nat : n = Len(users)
  BY <1>1
<1> DEFINE those == {i \in 1 .. n : users[i].github = browser[b].account}
<1>3. Match(b) = IF those # {} THEN Min(those) ELSE 0
  BY <1>2 DEF Match, SelectInSeq
<1>4. those \in SUBSET Nat /\ \A i \in those : i # 0
  OBVIOUS
<1>5. those # {} => Min(those) \in those
  BY <1>4, MinIs
<1> QED
  BY <1>1, <1>2, <1>3, <1>4, <1>5

\* The home found is the owner's.
LEMMA HomeIs ==
  ASSUME WorkspaceIsTyped, NEW owner, HomeOf(owner) # 0
  PROVE  HomeOf(owner) \in DOMAIN projects /\ projects[HomeOf(owner)].owner = owner
<1>1. Len(projects) \in Nat /\ DOMAIN projects = 1 .. Len(projects)
  BY LenProperties DEF WorkspaceIsTyped
<1>2. PICK n \in Nat : n = Len(projects)
  BY <1>1
<1> DEFINE those == {i \in 1 .. n : projects[i].owner = owner /\ projects[i].name = Home}
<1>3. HomeOf(owner) = IF those # {} THEN Min(those) ELSE 0
  BY <1>2 DEF HomeOf, SelectInSeq
<1>4. those \in SUBSET Nat
  OBVIOUS
<1>5. those # {} => Min(those) \in those
  BY <1>4, MinIs
<1> QED
  BY <1>1, <1>2, <1>3, <1>5

\* What follows the element removed moves up.
LEMMA Removed ==
  ASSUME NEW S, NEW s \in Seq(S), NEW i \in DOMAIN s
  PROVE  /\ RemoveAt(s, i) \in Seq(S)
         /\ \A k \in DOMAIN RemoveAt(s, i) :
              \/ k < i /\ k \in DOMAIN s /\ RemoveAt(s, i)[k] = s[k]
              \/ k >= i /\ k + 1 \in DOMAIN s /\ RemoveAt(s, i)[k] = s[k + 1]
         /\ DOMAIN RemoveAt(s, i) \subseteq Nat
<1>1. PICK n \in Nat : n = Len(s) /\ DOMAIN s = 1 .. n /\ \A k \in 1 .. n : s[k] \in S
  BY LenProperties, ElementOfSeq
<1>2. i \in 1 .. n
  BY <1>1
<1>3. PICK c : c = SubSeq(s, 1, i - 1)
  OBVIOUS
<1>4. PICK d : d = SubSeq(s, i + 1, n)
  OBVIOUS
<1>5. c \in Seq(S) /\ Len(c) = i - 1 /\ \A k \in 1 .. i - 1 : c[k] = s[k]
  <2>1. 1 \in Int /\ i - 1 \in Int /\ \A k \in 1 .. i - 1 : s[k] \in S
    BY <1>1, <1>2
  <2>2. /\ c \in Seq(S) /\ Len(c) = IF 1 <= i - 1 THEN (i - 1) - 1 + 1 ELSE 0
        /\ \A k \in 1 .. (i - 1) - 1 + 1 : c[k] = s[1 + k - 1]
    BY <1>3, <2>1, SubSeqProperties
  <2> QED
    BY <1>2, <2>2
<1>6. d \in Seq(S) /\ Len(d) = n - i /\ \A k \in 1 .. n - i : d[k] = s[i + k]
  <2>1. i + 1 \in Int /\ n \in Int /\ \A k \in i + 1 .. n : s[k] \in S
    BY <1>1, <1>2
  <2>2. /\ d \in Seq(S) /\ Len(d) = IF i + 1 <= n THEN n - (i + 1) + 1 ELSE 0
        /\ \A k \in 1 .. n - (i + 1) + 1 : d[k] = s[(i + 1) + k - 1]
    BY <1>4, <2>1, SubSeqProperties
  <2> QED
    BY <1>2, <2>2
<1>7. PICK r : r = RemoveAt(s, i)
  OBVIOUS
<1>8. r = c \o d
  BY <1>1, <1>3, <1>4, <1>7 DEF RemoveAt
<1>9. /\ r \in Seq(S) /\ Len(r) = Len(c) + Len(d)
      /\ \A k \in 1 .. Len(c) + Len(d) : r[k] = IF k <= Len(c) THEN c[k] ELSE d[k - Len(c)]
  BY <1>5, <1>6, <1>8, ConcatProperties
<1>10. DOMAIN r = 1 .. n - 1
  <2>1. DOMAIN r = 1 .. Len(r)
    BY <1>9, LenProperties
  <2> QED
    BY <1>2, <1>5, <1>6, <1>9, <2>1
<1>11. ASSUME NEW k \in 1 .. n - 1
       PROVE  \/ k < i /\ k \in DOMAIN s /\ r[k] = s[k]
              \/ k >= i /\ k + 1 \in DOMAIN s /\ r[k] = s[k + 1]
  <2>1. k \in 1 .. Len(c) + Len(d)
    BY <1>2, <1>5, <1>6
  <2>2. CASE k < i
    <3>1. k \in 1 .. i - 1 /\ k <= Len(c) /\ k \in 1 .. n
      BY <1>2, <1>5, <2>2
    <3> QED
      BY <1>1, <1>5, <1>9, <2>1, <2>2, <3>1
  <2>3. CASE k >= i
    <3>1. /\ ~(k <= Len(c)) /\ k - Len(c) \in 1 .. n - i /\ k + 1 \in 1 .. n
          /\ i + (k - Len(c)) = k + 1
      BY <1>2, <1>5, <2>3
    <3>2. r[k] = d[k - Len(c)]
      BY <1>9, <2>1, <3>1
    <3>3. d[k - Len(c)] = s[i + (k - Len(c))]
      BY <1>6, <3>1
    <3> QED
      BY <1>1, <2>3, <3>1, <3>2, <3>3
  <2> QED
    BY <1>2, <2>2, <2>3
<1> QED
  BY <1>7, <1>9, <1>10, <1>11

-----------------------------------------------------------------------------
(* What a step may do to users, tokens, clients and projects. *)

\* The users us are those of now, each of its account still, and maybe more.
GrowsTo(us) ==
  /\ us \in Seq(Users)
  /\ \A i, j \in DOMAIN us : us[i].github = us[j].github => i = j
  /\ \A i \in DOMAIN users : i \in DOMAIN us /\ us[i].github = users[i].github

\* The tokens ts are those of now and maybe more, all of them naming one of the users us.
IssuesTo(ts, us) ==
  /\ ts \in Seq(Nat)
  /\ \A k \in DOMAIN ts : ts[k] \in DOMAIN us
  /\ \A k \in DOMAIN tokens : k \in DOMAIN ts /\ ts[k] = tokens[k]

\* A client that is or becomes c.
MayBe(c, ts, us) ==
  /\ c.stage \in InFlight => c.account \in Accounts
  /\ c.stage = "in" => c.token \in DOMAIN ts /\ us[ts[c.token]].github = c.account

LEMMA AccountsKept ==
  ASSUME WorkspaceIsTyped, AccountsInv, GrowsTo(users'), IssuesTo(tokens', users'),
         \A b \in Browsers : browser'[b] = browser[b] \/ MayBe(browser'[b], tokens', users')
  PROVE  AccountsInv'
<1>1. ASSUME NEW b \in Browsers PROVE MayBe(browser'[b], tokens', users')
  <2>1. MayBe(browser[b], tokens', users')
    BY DEF AccountsInv, MayBe, GrowsTo, IssuesTo
  <2> QED
    BY <2>1
<1>2. ASSUME NEW b \in Browsers
      PROVE  /\ browser'[b].stage \in InFlight => browser'[b].account \in Accounts
             /\ browser'[b].stage = "in" =>
                  /\ browser'[b].token \in DOMAIN tokens'
                  /\ users'[tokens'[browser'[b].token]].github = browser'[b].account
  BY <1>1 DEF MayBe
<1> QED
  BY <1>2 DEF AccountsInv, GrowsTo, IssuesTo, InFlight

LEMMA NobodyElse ==
  ASSUME WorkspaceIsTyped, AccountsInv
  PROVE  GrowsTo(users) /\ IssuesTo(tokens, users)
BY DEF WorkspaceIsTyped, AccountsInv, GrowsTo, IssuesTo

\* The projects ps are some of those of now, or newer; m have been made.
MakesOf(ps, m) ==
  /\ m \in Nat /\ made <= m /\ ps \in Seq(Projects)
  /\ \A j \in DOMAIN ps :
       \/ ps[j].id > made
       \/ \E k \in DOMAIN projects : ps[j].id = projects[k].id /\ ps[j].owner = projects[k].owner

LEMMA OwnedKept ==
  ASSUME WorkspaceIsTyped, NEW s, IsOwned(s), GrowsTo(users'), MakesOf(projects', made')
  PROVE  IsOwned(s)'
<1>1. s.owner \in DOMAIN users' /\ users'[s.owner].github = s.by
  BY DEF IsOwned, GrowsTo
<1>2. ASSUME ~s.named
      PROVE  /\ s.project \in 1 .. made'
             /\ \A j \in DOMAIN projects' :
                  projects'[j].id = s.project => projects'[j].owner = s.owner
  <2>1. /\ s.project \in 1 .. made
        /\ \A k \in DOMAIN projects :
             projects[k].id = s.project => projects[k].owner = s.owner
    BY <1>2 DEF IsOwned
  <2>2. made \in Nat /\ made' \in Nat /\ made <= made'
    BY DEF WorkspaceIsTyped, MakesOf
  <2>3. s.project \in 1 .. made' /\ ~(s.project > made)
    BY <2>1, <2>2
  <2> QED
    BY <2>1, <2>3 DEF MakesOf
<1> QED
  BY <1>1, <1>2 DEF IsOwned

LEMMA SessionsKept ==
  ASSUME WorkspaceIsTyped, OwnedInv, GrowsTo(users'), MakesOf(projects', made'),
         sessions' = sessions
  PROVE  OwnedInv'
<1>1. ASSUME NEW i \in DOMAIN sessions PROVE (IsOwned(sessions[i]))'
  <2>1. PICK s : s = sessions[i]
    OBVIOUS
  <2>2. IsOwned(s)
    BY <2>1 DEF OwnedInv
  <2>3. IsOwned(s)'
    BY <2>2, OwnedKept
  <2> QED
    BY <2>1, <2>3 DEF IsOwned
<1> QED
  BY <1>1 DEF OwnedInv

LEMMA NoneMade ==
  ASSUME WorkspaceIsTyped
  PROVE  MakesOf(projects, made)
BY DEF WorkspaceIsTyped, MakesOf

\* A project is made, with an id of its own.
LEMMA ProjectMade ==
  ASSUME WorkspaceIsTyped, ProjectsInv, NEW owner \in Nat, NEW name \in ProjectNames,
         made' = made + 1, projects' = Append(projects, Project(owner, name))
  PROVE  /\ ProjectsInv' /\ MakesOf(projects', made')
         /\ \A j \in DOMAIN projects' :
              projects'[j].id = made + 1 => projects'[j].owner = owner
<1>1. PICK p : p = Project(owner, name)
  OBVIOUS
<1>2. made \in Nat /\ p \in Projects /\ p.id = made + 1 /\ p.owner = owner
  BY <1>1 DEF WorkspaceIsTyped, Project, Projects
<1>3. PICK n \in Nat : n = Len(projects) /\ DOMAIN projects = 1 .. n
  BY LenProperties DEF WorkspaceIsTyped
<1>4. /\ projects' \in Seq(Projects) /\ DOMAIN projects' = 1 .. n + 1
      /\ \A j \in 1 .. n : projects'[j] = projects[j]
      /\ projects'[n + 1] = p
  <2>1. projects' = Append(projects, p) /\ projects \in Seq(Projects)
    BY <1>1 DEF WorkspaceIsTyped
  <2>2. projects' \in Seq(Projects) /\ Len(projects') = n + 1
    BY <1>2, <1>3, <2>1, AppendProperties
  <2> QED
    BY <1>2, <1>3, <2>1, <2>2, AppendProperties, LenProperties
<1>5. \A j \in 1 .. n : projects'[j].id \in 1 .. made /\ j \in DOMAIN projects
  BY <1>3, <1>4 DEF ProjectsInv
<1>6. \A j \in 1 .. n + 1 : j = n + 1 \/ j \in 1 .. n
  OBVIOUS
<1>7. \A j \in 1 .. n : projects'[j].id # made + 1 /\ projects'[j].id \in 1 .. made + 1
  BY <1>2, <1>5
<1>8. made + 1 \in 1 .. made + 1 /\ made + 1 > made /\ made + 1 \in Nat
  BY <1>2
<1>9. \A i, j \in 1 .. n : projects'[i].id = projects'[j].id => i = j
  BY <1>3, <1>4 DEF ProjectsInv
<1>10. ASSUME NEW i \in 1 .. n + 1, NEW j \in 1 .. n + 1, projects'[i].id = projects'[j].id
       PROVE  i = j
  <2>1. i = n + 1 => projects'[i].id = made + 1
    BY <1>2, <1>4
  <2>2. j = n + 1 => projects'[j].id = made + 1
    BY <1>2, <1>4
  <2> QED
    BY <1>6, <1>7, <1>9, <1>10, <2>1, <2>2
<1>11. \A i \in 1 .. n + 1 : projects'[i].id \in 1 .. made'
  BY <1>2, <1>4, <1>6, <1>7, <1>8
<1>12. ProjectsInv'
  BY <1>4, <1>10, <1>11 DEF ProjectsInv
<1>13. MakesOf(projects', made')
  <2>1. \A j \in 1 .. n : \E k \in DOMAIN projects :
          projects'[j].id = projects[k].id /\ projects'[j].owner = projects[k].owner
    BY <1>4, <1>5
  <2>2. projects'[n + 1].id > made
    BY <1>2, <1>4, <1>8
  <2>3. made' \in Nat /\ made <= made'
    BY <1>2
  <2> QED
    BY <1>4, <1>6, <2>1, <2>2, <2>3 DEF MakesOf
<1> QED
  BY <1>2, <1>4, <1>6, <1>7, <1>12, <1>13

LEMMA DroppedIs ==
  ASSUME WorkspaceIsTyped
  PROVE  /\ Dropped \in [Browsers -> Clients]
         /\ \A b \in Browsers : \A ts, us : Dropped[b] = browser[b] \/ MayBe(Dropped[b], ts, us)
<1>1. ASSUME NEW b \in Browsers
      PROVE  /\ Dropped[b] \in Clients
             /\ \A ts, us : Dropped[b] = browser[b] \/ MayBe(Dropped[b], ts, us)
  <2>1. PICK c \in Clients : c = browser[b]
    BY DEF WorkspaceIsTyped
  <2>2. Dropped[b] = IF c.stage \in InFlight THEN [c EXCEPT !.stage = "dropped"] ELSE c
    BY <2>1 DEF Dropped
  <2>3. CASE c.stage \in InFlight
    <3>1. PICK d : d = [c EXCEPT !.stage = "dropped"]
      OBVIOUS
    <3>2. d \in Clients /\ d.stage = "dropped"
      BY <3>1 DEF Clients, Stages
    <3>3. \A ts, us : MayBe(d, ts, us)
      BY <3>2 DEF MayBe, InFlight
    <3> QED
      BY <2>2, <2>3, <3>1, <3>2, <3>3
  <2>4. CASE c.stage \notin InFlight
    BY <2>1, <2>2, <2>4
  <2> QED
    BY <2>3, <2>4
<1> QED
  BY <1>1 DEF Dropped

\* One client moves, or all of them are dropped; nothing is stored.
LEMMA ClientsMove ==
  ASSUME WorkspaceInv, UNCHANGED stores, handle' \in [Accounts -> Handles],
         browser' \in [Browsers -> Clients],
         \A b \in Browsers : browser'[b] = browser[b] \/ MayBe(browser'[b], tokens, users)
  PROVE  WorkspaceInv'
<1>1. /\ users' = users /\ tokens' = tokens /\ projects' = projects /\ made' = made
      /\ sessions' = sessions
  BY DEF stores
<1>2. WorkspaceIsTyped'
  BY <1>1 DEF WorkspaceInv, WorkspaceIsTyped
<1>3. AccountsInv'
  <2>1. GrowsTo(users') /\ IssuesTo(tokens', users')
    BY <1>1, NobodyElse DEF WorkspaceInv
  <2> QED
    BY <1>1, <2>1, AccountsKept DEF WorkspaceInv
<1>4. ProjectsInv'
  BY <1>1 DEF WorkspaceInv, ProjectsInv
<1>5. OwnedInv'
  BY <1>1 DEF WorkspaceInv, OwnedInv, IsOwned
<1> QED
  BY <1>2, <1>3, <1>4, <1>5 DEF WorkspaceInv

LEMMA ClientMoves ==
  ASSUME WorkspaceInv, UNCHANGED stores, handle' = handle, NEW b \in Browsers, NEW c \in Clients,
         browser' = [browser EXCEPT ![b] = c],
         c.stage # "in", c.stage \in InFlight => c.account \in Accounts
  PROVE  WorkspaceInv'
<1>1. browser' \in [Browsers -> Clients] /\ handle' \in [Accounts -> Handles]
  BY DEF WorkspaceInv, WorkspaceIsTyped
<1>2. \A x \in Browsers : browser'[x] = browser[x] \/ browser'[x] = c
  BY DEF WorkspaceInv, WorkspaceIsTyped
<1>3. MayBe(c, tokens, users)
  BY DEF MayBe
<1> QED
  BY <1>1, <1>2, <1>3, ClientsMove

\* The steps of a sign-in before its user arrives.
LEMMA SignInSteps ==
  ASSUME WorkspaceInv, NEW b \in Browsers,
         \/ \E a \in Accounts : Callback(b, a)
         \/ Exchanged(b) \/ Fetched(b) \/ GithubFails(b)
         \/ \E file \in Files : Unreadable(b, file)
  PROVE  WorkspaceInv'
<1> PICK c \in Clients : c = browser[b]
  BY DEF WorkspaceInv, WorkspaceIsTyped
<1>1. c = [stage |-> c.stage, account |-> c.account, login |-> c.login, token |-> c.token]
  BY DEF Clients
<1>2. c.stage \in InFlight => c.account \in Accounts
  BY DEF WorkspaceInv, AccountsInv
<1>3. ASSUME NEW a \in Accounts, Callback(b, a) PROVE WorkspaceInv'
  <2>1. PICK d : d = [SignedOut EXCEPT !.stage = "exchanging", !.account = a]
    OBVIOUS
  <2>2. d = [stage |-> "exchanging", account |-> a, login |-> Nobody, token |-> 0]
    BY <2>1 DEF SignedOut
  <2>3. d \in Clients /\ d.stage # "in" /\ d.account \in Accounts
    BY <2>2 DEF Clients, Stages, Logins
  <2>4. browser' = [browser EXCEPT ![b] = d]
    BY <1>3, <2>1 DEF Callback
  <2> QED
    BY <1>3, <2>3, <2>4, ClientMoves DEF Callback
<1>4. ASSUME Exchanged(b) PROVE WorkspaceInv'
  <2>1. PICK d : d = [c EXCEPT !.stage = "fetching"]
    OBVIOUS
  <2>2. d \in Clients /\ d.stage = "fetching" /\ d.account = c.account
    BY <2>1 DEF Clients, Stages
  <2>3. browser' = [browser EXCEPT ![b] = d] /\ c.stage = "exchanging"
    BY <1>4, <2>1 DEF Exchanged
  <2> QED
    BY <1>2, <1>4, <2>2, <2>3, ClientMoves DEF Exchanged, InFlight
<1>5. ASSUME Fetched(b) PROVE WorkspaceInv'
  <2>1. c.account \in Accounts /\ c.stage = "fetching"
    BY <1>2, <1>5 DEF Fetched, InFlight
  <2>2. PICK h : h = handle[c.account]
    OBVIOUS
  <2>3. h \in Logins
    BY <2>1, <2>2 DEF WorkspaceInv, WorkspaceIsTyped, Logins
  <2>4. PICK d : d = [stage |-> "fetched", account |-> c.account, login |-> h, token |-> c.token]
    OBVIOUS
  <2>5. d \in Clients /\ d.stage = "fetched" /\ d.account = c.account
    BY <2>3, <2>4 DEF Clients, Stages
  <2>6. browser' = [browser EXCEPT ![b] = d]
    <3>1. browser \in [Browsers -> Clients]
      BY DEF WorkspaceInv, WorkspaceIsTyped
    <3>2. PICK e : e = [browser EXCEPT ![b].stage = "fetched", ![b].login = h]
      OBVIOUS
    <3>3. browser' = e
      BY <1>5, <2>2, <3>2 DEF Fetched
    <3>4. ASSUME NEW x \in Browsers PROVE e[x] = IF x = b THEN d ELSE browser[x]
      <4>1. CASE x = b
        <5>1. e[b] = [c EXCEPT !.stage = "fetched", !.login = h]
          BY <3>1, <3>2
        <5> QED
          BY <1>1, <2>4, <4>1, <5>1
      <4>2. CASE x # b
        BY <3>1, <3>2, <4>2
      <4> QED
        BY <4>1, <4>2
    <3>5. e = [x \in Browsers |-> e[x]]
      BY <3>1, <3>2
    <3>6. e = [browser EXCEPT ![b] = d]
      BY <3>1, <3>4, <3>5
    <3> QED
      BY <3>3, <3>6
  <2> QED
    BY <1>5, <2>1, <2>5, <2>6, ClientMoves DEF Fetched
<1>6. ASSUME GithubFails(b) PROVE WorkspaceInv'
  <2>1. PICK d : d = [SignedOut EXCEPT !.stage = "error"]
    OBVIOUS
  <2>2. d \in Clients /\ d.stage = "error"
    BY <2>1 DEF SignedOut, Clients, Stages, Logins
  <2>3. browser' = [browser EXCEPT ![b] = d]
    BY <1>6, <2>1 DEF GithubFails, AnsweredWithError
  <2> QED
    BY <1>6, <2>2, <2>3, ClientMoves DEF GithubFails, InFlight
<1>7. ASSUME NEW file \in Files, Unreadable(b, file) PROVE WorkspaceInv'
  <2>1. /\ browser' \in [Browsers -> Clients]
        /\ \A x \in Browsers : browser'[x] = browser[x] \/ MayBe(browser'[x], tokens, users)
    BY <1>7, DroppedIs DEF Unreadable, WorkspaceInv
  <2>2. UNCHANGED stores /\ handle' \in [Accounts -> Handles]
    BY <1>7 DEF Unreadable, WorkspaceInv, WorkspaceIsTyped
  <2> QED
    BY <2>1, <2>2, ClientsMove
<1> QED
  BY <1>3, <1>4, <1>5, <1>6, <1>7

\* The user a sign-in refreshes or creates (the LET of UserArrives).
IdOf(b) == IF Match(b) = 0 THEN Len(users) + 1 ELSE Match(b)

Upserted(b) ==
  IF Match(b) = 0
    THEN Append(users, [github |-> browser[b].account, login |-> browser[b].login])
    ELSE [users EXCEPT ![IdOf(b)].login = browser[b].login]

LEMMA UpsertIs ==
  ASSUME WorkspaceInv, NEW b \in Browsers, browser[b].stage = "fetched"
  PROVE  /\ GrowsTo(Upserted(b)) /\ IdOf(b) \in DOMAIN Upserted(b) /\ IdOf(b) \in Nat
         /\ Upserted(b)[IdOf(b)].github = browser[b].account
<1> PICK c \in Clients : c = browser[b]
  BY DEF WorkspaceInv, WorkspaceIsTyped
<1>1. c.account \in Accounts /\ c.login \in Logins
  BY DEF WorkspaceInv, AccountsInv, InFlight, Clients
<1>2. PICK n \in Nat : n = Len(users) /\ DOMAIN users = 1 .. n
  BY LenProperties DEF WorkspaceInv, WorkspaceIsTyped
<1>3. users \in Seq(Users) /\ \A i \in 1 .. n : users[i] \in Users
  BY <1>2, ElementOfSeq DEF WorkspaceInv, WorkspaceIsTyped
<1>4. \A i, j \in 1 .. n : users[i].github = users[j].github => i = j
  BY <1>2 DEF WorkspaceInv, AccountsInv
<1>5. PICK us : us = Upserted(b)
  OBVIOUS
<1>6. PICK id : id = IdOf(b)
  OBVIOUS
<1>7. CASE Match(b) = 0
  <2>1. PICK u : u = [github |-> c.account, login |-> c.login]
    OBVIOUS
  <2>2. u \in Users /\ u.github = c.account
    BY <1>1, <2>1 DEF Users
  <2>3. us = Append(users, u) /\ id = n + 1
    BY <1>2, <1>5, <1>6, <1>7, <2>1 DEF Upserted, IdOf
  <2>4. us \in Seq(Users) /\ Len(us) = n + 1
    BY <1>2, <1>3, <2>2, <2>3, AppendProperties
  <2>5. DOMAIN us = 1 .. n + 1 /\ us[n + 1] = u /\ \A i \in 1 .. n : us[i] = users[i]
    BY <1>2, <1>3, <2>2, <2>3, <2>4, AppendProperties, LenProperties
  <2>6. \A i \in 1 .. n : us[i].github # us[n + 1].github
    BY <1>2, <1>7, <2>2, <2>5, MatchIs DEF WorkspaceInv
  <2>7. \A i \in 1 .. n + 1 : i = n + 1 \/ i \in 1 .. n
    OBVIOUS
  <2>8. \A i, j \in 1 .. n + 1 : us[i].github = us[j].github => i = j
    BY <1>4, <2>5, <2>6, <2>7
  <2>9. n + 1 \in 1 .. n + 1 /\ n + 1 \in Nat /\ \A i \in 1 .. n : i \in 1 .. n + 1
    OBVIOUS
  <2>10. GrowsTo(us)
    BY <1>2, <2>4, <2>5, <2>8, <2>9 DEF GrowsTo
  <2> QED
    BY <1>5, <1>6, <2>2, <2>3, <2>5, <2>9, <2>10
<1>8. CASE Match(b) # 0
  <2>1. id \in 1 .. n /\ users[id].github = c.account
    BY <1>2, <1>6, <1>8, MatchIs DEF WorkspaceInv, IdOf
  <2>2. us = [users EXCEPT ![id].login = c.login]
    BY <1>5, <1>6, <1>8 DEF Upserted
  <2>3. PICK w \in Users : w = users[id]
    BY <1>3, <2>1
  <2>4. PICK v : v = [w EXCEPT !.login = c.login]
    OBVIOUS
  <2>5. v \in Users /\ v.github = w.github
    BY <1>1, <2>4 DEF Users
  <2>6. users \in [1 .. n -> Users]
    BY <1>2, <1>3, LenProperties
  <2>7. us = [users EXCEPT ![id] = v]
    BY <2>1, <2>2, <2>3, <2>4, <2>6
  <2>8. us \in [1 .. n -> Users] /\ \A i \in 1 .. n : us[i].github = users[i].github
    BY <2>1, <2>3, <2>5, <2>6, <2>7
  <2>9. us \in Seq(Users) /\ DOMAIN us = 1 .. n
    BY <2>8, SeqDef
  <2>10. GrowsTo(us)
    BY <1>2, <1>4, <2>8, <2>9 DEF GrowsTo
  <2> QED
    BY <1>5, <1>6, <2>1, <2>8, <2>9, <2>10
<1> QED
  BY <1>7, <1>8

\* What users.json holds is of their accounts, whichever of the writes is made.
LEMMA UsersArrive ==
  ASSUME WorkspaceInv, UNCHANGED <<handle, projects, made, sessions>>,
         GrowsTo(users'), IssuesTo(tokens', users'), browser' \in [Browsers -> Clients],
         \A b \in Browsers : browser'[b] = browser[b] \/ MayBe(browser'[b], tokens', users')
  PROVE  WorkspaceInv'
<1>1. WorkspaceIsTyped'
  BY DEF WorkspaceInv, WorkspaceIsTyped, GrowsTo, IssuesTo
<1>2. AccountsInv'
  BY AccountsKept DEF WorkspaceInv
<1>3. ProjectsInv'
  BY DEF WorkspaceInv, ProjectsInv
<1>4. OwnedInv'
  <2>1. MakesOf(projects', made')
    BY NoneMade DEF WorkspaceInv
  <2> QED
    BY <2>1, SessionsKept DEF WorkspaceInv
<1> QED
  BY <1>1, <1>2, <1>3, <1>4 DEF WorkspaceInv

LEMMA UserArrivesStep ==
  ASSUME WorkspaceInv, NEW b \in Browsers, NEW cut, UserArrives(b, cut)
  PROVE  WorkspaceInv'
<1>1. /\ browser[b].stage = "fetched"
      /\ users' = IF "users" \in torn \cup {cut} THEN users ELSE Upserted(b)
      /\ IF "users" \in torn \/ (cut = "none" /\ "tokens" \in torn)
           THEN browser' = AnsweredWithError(b) /\ tokens' = tokens
         ELSE IF cut # "none"
           THEN browser' = Dropped /\ tokens' = tokens
         ELSE /\ tokens' = Append(tokens, IdOf(b))
              /\ browser' = [browser EXCEPT ![b] =
                               [@ EXCEPT !.stage = "in", !.token = Len(tokens')]]
      /\ UNCHANGED <<handle, projects, made, sessions>>
  BY DEF UserArrives, Upserted, IdOf, Tears
<1>2. /\ GrowsTo(Upserted(b)) /\ IdOf(b) \in DOMAIN Upserted(b) /\ IdOf(b) \in Nat
      /\ Upserted(b)[IdOf(b)].github = browser[b].account
  BY <1>1, UpsertIs
<1>3. GrowsTo(users) /\ IssuesTo(tokens, users)
  BY NobodyElse DEF WorkspaceInv
<1>4. GrowsTo(users')
  BY <1>1, <1>2, <1>3
<1>5. IssuesTo(tokens, users')
  BY <1>3, <1>4 DEF IssuesTo, GrowsTo, WorkspaceInv, AccountsInv
<1>6. CASE tokens' = tokens /\ browser' \in {AnsweredWithError(b), Dropped}
  <2>1. /\ browser' \in [Browsers -> Clients]
        /\ \A x \in Browsers : browser'[x] = browser[x] \/ MayBe(browser'[x], tokens', users')
    <3>1. CASE browser' = AnsweredWithError(b)
      <4>1. PICK d : d = [SignedOut EXCEPT !.stage = "error"]
        OBVIOUS
      <4>2. d \in Clients /\ d.stage = "error"
        BY <4>1 DEF SignedOut, Clients, Stages, Logins
      <4>3. browser' = [browser EXCEPT ![b] = d] /\ browser \in [Browsers -> Clients]
        BY <3>1, <4>1 DEF AnsweredWithError, WorkspaceInv, WorkspaceIsTyped
      <4>4. MayBe(d, tokens', users')
        BY <4>2 DEF MayBe, InFlight
      <4> QED
        BY <4>2, <4>3, <4>4
    <3>2. CASE browser' = Dropped
      BY <3>2, DroppedIs DEF WorkspaceInv
    <3> QED
      BY <1>6, <3>1, <3>2
  <2> QED
    BY <1>1, <1>4, <1>5, <1>6, <2>1, UsersArrive
<1>7. CASE /\ tokens' = Append(tokens, IdOf(b)) /\ users' = Upserted(b)
           /\ browser' = [browser EXCEPT ![b] = [@ EXCEPT !.stage = "in", !.token = Len(tokens')]]
  <2>1. PICK id \in Nat : id = IdOf(b)
    BY <1>2
  <2>2. PICK n \in Nat : n = Len(tokens) /\ DOMAIN tokens = 1 .. n
    BY LenProperties DEF WorkspaceInv, WorkspaceIsTyped
  <2>3. tokens \in Seq(Nat) /\ tokens' = Append(tokens, id)
    BY <1>7, <2>1 DEF WorkspaceInv, WorkspaceIsTyped
  <2>4. tokens' \in Seq(Nat) /\ Len(tokens') = n + 1
    BY <2>1, <2>2, <2>3, AppendProperties
  <2>5. /\ DOMAIN tokens' = 1 .. n + 1 /\ tokens'[n + 1] = id
        /\ \A k \in 1 .. n : tokens'[k] = tokens[k]
    BY <2>1, <2>2, <2>3, <2>4, AppendProperties, LenProperties
  <2>6. \A k \in 1 .. n + 1 : k = n + 1 \/ k \in 1 .. n
    OBVIOUS
  <2>7. n + 1 \in 1 .. n + 1 /\ n + 1 \in Nat /\ \A k \in 1 .. n : k \in 1 .. n + 1
    OBVIOUS
  <2>8. id \in DOMAIN users' /\ users'[id].github = browser[b].account
    BY <1>2, <1>7, <2>1
  <2>9. IssuesTo(tokens', users')
    BY <1>5, <2>2, <2>4, <2>5, <2>6, <2>7, <2>8 DEF IssuesTo
  <2>10. PICK c \in Clients : c = browser[b]
    BY DEF WorkspaceInv, WorkspaceIsTyped
  <2>11. PICK d : d = [c EXCEPT !.stage = "in", !.token = n + 1]
    OBVIOUS
  <2>12. d \in Clients /\ d.stage = "in" /\ d.token = n + 1 /\ d.account = c.account
    BY <2>7, <2>11 DEF Clients, Stages
  <2>13. browser' = [browser EXCEPT ![b] = d] /\ browser \in [Browsers -> Clients]
    BY <1>7, <2>4, <2>10, <2>11 DEF WorkspaceInv, WorkspaceIsTyped
  <2>14. MayBe(d, tokens', users')
    BY <2>5, <2>7, <2>8, <2>10, <2>12 DEF MayBe, InFlight
  <2>15. /\ browser' \in [Browsers -> Clients]
         /\ \A x \in Browsers : browser'[x] = browser[x] \/ MayBe(browser'[x], tokens', users')
    BY <2>12, <2>13, <2>14
  <2> QED
    BY <1>1, <1>4, <2>9, <2>15, UsersArrive
<1> QED
  BY <1>1, <1>6, <1>7

\* The user a signed-in client's token names.
LEMMA UserIs ==
  ASSUME WorkspaceInv, NEW b \in Browsers, SignedIn(b)
  PROVE  /\ UserOf(b) \in DOMAIN users /\ UserOf(b) \in Nat
         /\ users[UserOf(b)].github = browser[b].account /\ browser[b].account \in Accounts
<1>1. /\ browser[b].token \in DOMAIN tokens
      /\ users[tokens[browser[b].token]].github = browser[b].account
  BY DEF WorkspaceInv, AccountsInv, SignedIn
<1>2. PICK u : u = UserOf(b)
  OBVIOUS
<1>3. u \in DOMAIN users /\ users[u].github = browser[b].account
  BY <1>1, <1>2 DEF WorkspaceInv, AccountsInv, UserOf
<1>4. PICK n \in Nat : n = Len(users) /\ DOMAIN users = 1 .. n
  BY LenProperties DEF WorkspaceInv, WorkspaceIsTyped
<1>5. u \in Nat /\ users[u] \in Users
  BY <1>3, <1>4, ElementOfSeq DEF WorkspaceInv, WorkspaceIsTyped
<1> QED
  BY <1>2, <1>3, <1>5 DEF Users

\* Projects come, change and go; accounts and sessions stay.
LEMMA ProjectsMove ==
  ASSUME WorkspaceInv, UNCHANGED <<handle, users, tokens, sessions, browser>>,
         ProjectsInv', MakesOf(projects', made')
  PROVE  WorkspaceInv'
<1>1. WorkspaceIsTyped'
  BY DEF WorkspaceInv, WorkspaceIsTyped, MakesOf
<1>2. AccountsInv'
  BY DEF WorkspaceInv, AccountsInv
<1>3. GrowsTo(users')
  BY NobodyElse DEF WorkspaceInv
<1>4. OwnedInv'
  BY <1>3, SessionsKept DEF WorkspaceInv
<1> QED
  BY <1>1, <1>2, <1>4 DEF WorkspaceInv

\* Ensuring a home leaves the projects as they are or makes one.
LEMMA HomeEnsured ==
  ASSUME WorkspaceInv, NEW owner \in Nat, EnsureHome(owner)
  PROVE  /\ ProjectsInv' /\ MakesOf(projects', made')
         /\ HomeOf(owner) = 0 =>
              /\ made' = made + 1
              /\ \A j \in DOMAIN projects' :
                   projects'[j].id = made + 1 => projects'[j].owner = owner
         /\ HomeOf(owner) # 0 => projects' = projects /\ made' = made
<1>1. CASE HomeOf(owner) # 0
  <2>1. projects' = projects /\ made' = made
    BY <1>1 DEF EnsureHome
  <2> QED
    BY <1>1, <2>1, NoneMade DEF WorkspaceInv, ProjectsInv
<1>2. CASE HomeOf(owner) = 0
  <2>1. made' = made + 1 /\ projects' = Append(projects, Project(owner, Home))
    BY <1>2 DEF EnsureHome
  <2>2. Home \in ProjectNames
    BY WorkspaceAssumption DEF WorkspaceAssumption
  <2>3. /\ ProjectsInv' /\ MakesOf(projects', made')
        /\ \A j \in DOMAIN projects' :
             projects'[j].id = made + 1 => projects'[j].owner = owner
    BY <2>1, <2>2, ProjectMade DEF WorkspaceInv
  <2> QED
    BY <1>2, <2>1, <2>3
<1> QED
  BY <1>1, <1>2

LEMMA ProjectSteps ==
  ASSUME WorkspaceInv, NEW b \in Browsers,
         \/ \E name \in ProjectNames : CreateProject(b, name)
         \/ \E i \in DOMAIN projects, name \in ProjectNames : RenameProject(b, i, name)
         \/ \E i \in DOMAIN projects : RemoveProject(b, i)
         \/ ListProjects(b)
  PROVE  WorkspaceInv'
<1>1. PICK n \in Nat : n = Len(projects) /\ DOMAIN projects = 1 .. n
  BY LenProperties DEF WorkspaceInv, WorkspaceIsTyped
<1>2. projects \in Seq(Projects) /\ made \in Nat
  BY DEF WorkspaceInv, WorkspaceIsTyped
<1>3. ASSUME NEW name \in ProjectNames, CreateProject(b, name) PROVE WorkspaceInv'
  <2>1. /\ SignedIn(b) /\ made' = made + 1
        /\ projects' = Append(projects, Project(UserOf(b), name))
    BY <1>3 DEF CreateProject
  <2>2. ProjectsInv' /\ MakesOf(projects', made')
    BY <2>1, UserIs, ProjectMade DEF WorkspaceInv
  <2> QED
    BY <1>3, <2>2, ProjectsMove DEF CreateProject
<1>4. ASSUME NEW i \in DOMAIN projects, NEW name \in ProjectNames, RenameProject(b, i, name)
      PROVE  WorkspaceInv'
  <2>1. projects' = [projects EXCEPT ![i].name = name] /\ made' = made
    BY <1>4 DEF RenameProject
  <2>2. projects \in [1 .. n -> Projects]
    BY <1>1, <1>2, LenProperties
  <2>3. PICK w \in Projects : w = projects[i]
    BY <1>1, <2>2
  <2>4. PICK v : v = [w EXCEPT !.name = name]
    OBVIOUS
  <2>5. v \in Projects /\ v.id = w.id /\ v.owner = w.owner
    BY <2>4 DEF Projects
  <2>6. projects' = [projects EXCEPT ![i] = v]
    BY <2>1, <2>2, <2>3, <2>4
  <2>7. /\ projects' \in [1 .. n -> Projects]
        /\ \A j \in 1 .. n : /\ projects'[j].id = projects[j].id
                             /\ projects'[j].owner = projects[j].owner
    BY <1>1, <2>2, <2>3, <2>5, <2>6
  <2>8. projects' \in Seq(Projects) /\ DOMAIN projects' = 1 .. n
    BY <2>7, SeqDef
  <2>9. ProjectsInv'
    BY <1>1, <2>1, <2>7, <2>8 DEF WorkspaceInv, ProjectsInv
  <2>10. MakesOf(projects', made')
    BY <1>1, <1>2, <2>1, <2>7, <2>8 DEF MakesOf
  <2> QED
    BY <1>4, <2>9, <2>10, ProjectsMove DEF RenameProject
<1>5. ASSUME NEW i \in DOMAIN projects, RemoveProject(b, i) PROVE WorkspaceInv'
  <2>1. PICK r : r = RemoveAt(projects, i)
    OBVIOUS
  <2>2. projects' = r /\ made' = made
    BY <1>5, <2>1 DEF RemoveProject
  <2>3. /\ r \in Seq(Projects)
        /\ \A k \in DOMAIN r : \/ k < i /\ k \in DOMAIN projects /\ r[k] = projects[k]
                               \/ k >= i /\ k + 1 \in DOMAIN projects /\ r[k] = projects[k + 1]
        /\ DOMAIN r \subseteq Nat
    BY <1>2, <2>1, Removed
  <2>4. i \in Nat
    BY <1>1
  <2>5. ASSUME NEW j \in DOMAIN r, NEW k \in DOMAIN r, r[j].id = r[k].id PROVE j = k
    <3>1. \A x, y \in DOMAIN projects : projects[x].id = projects[y].id => x = y
      BY DEF WorkspaceInv, ProjectsInv
    <3>2. j \in Nat /\ k \in Nat
      BY <2>3
    <3>3. \/ j < i /\ j \in DOMAIN projects /\ r[j] = projects[j]
          \/ j >= i /\ j + 1 \in DOMAIN projects /\ r[j] = projects[j + 1]
      BY <2>3
    <3>4. \/ k < i /\ k \in DOMAIN projects /\ r[k] = projects[k]
          \/ k >= i /\ k + 1 \in DOMAIN projects /\ r[k] = projects[k + 1]
      BY <2>3
    <3>5. CASE j < i /\ j \in DOMAIN projects /\ r[j] = projects[j]
      <4>1. CASE k < i /\ k \in DOMAIN projects /\ r[k] = projects[k]
        BY <2>5, <3>1, <3>5, <4>1
      <4>2. CASE k >= i /\ k + 1 \in DOMAIN projects /\ r[k] = projects[k + 1]
        <5>1. j = k + 1
          BY <2>5, <3>1, <3>5, <4>2
        <5> QED
          BY <2>4, <3>2, <3>5, <4>2, <5>1
      <4> QED
        BY <3>4, <4>1, <4>2
    <3>6. CASE j >= i /\ j + 1 \in DOMAIN projects /\ r[j] = projects[j + 1]
      <4>1. CASE k < i /\ k \in DOMAIN projects /\ r[k] = projects[k]
        <5>1. j + 1 = k
          BY <2>5, <3>1, <3>6, <4>1
        <5> QED
          BY <2>4, <3>2, <3>6, <4>1, <5>1
      <4>2. CASE k >= i /\ k + 1 \in DOMAIN projects /\ r[k] = projects[k + 1]
        <5>1. j + 1 = k + 1
          BY <2>5, <3>1, <3>6, <4>2
        <5> QED
          BY <3>2, <5>1
      <4> QED
        BY <3>4, <4>1, <4>2
    <3> QED
      BY <3>3, <3>5, <3>6
  <2>6. \A k \in DOMAIN r : \E x \in DOMAIN projects : r[k] = projects[x]
    BY <2>3
  <2>7. ProjectsInv'
    <3>1. \A k \in DOMAIN r : r[k].id \in 1 .. made
      BY <2>6 DEF WorkspaceInv, ProjectsInv
    <3> QED
      BY <2>2, <2>5, <3>1 DEF ProjectsInv
  <2>8. MakesOf(projects', made')
    <3>1. made <= made
      BY <1>2
    <3> QED
      BY <1>2, <2>2, <2>3, <2>6, <3>1 DEF MakesOf
  <2> QED
    BY <1>5, <2>7, <2>8, ProjectsMove DEF RemoveProject
<1>6. ASSUME ListProjects(b) PROVE WorkspaceInv'
  <2>1. ProjectsInv' /\ MakesOf(projects', made')
    BY <1>6, UserIs, HomeEnsured DEF ListProjects
  <2> QED
    BY <1>6, <2>1, ProjectsMove DEF ListProjects
<1> QED
  BY <1>3, <1>4, <1>5, <1>6

\* A session is of the user whose client asks, in a project that is the user's unless
\* the client has chosen it.
LEMMA SessionStep ==
  ASSUME WorkspaceInv, NEW b \in Browsers,
         NEW p \in {projects[i].id : i \in DOMAIN projects} \cup {Nobody}, NEW cut,
         CreateSession(b, p, cut)
  PROVE  WorkspaceInv'
<1> DEFINE place == IF p # Nobody THEN p
                    ELSE IF HomeOf(UserOf(b)) = 0 THEN made + 1
                    ELSE projects[HomeOf(UserOf(b))].id
<1>1. PICK owner \in Nat : /\ owner = UserOf(b) /\ owner \in DOMAIN users
                           /\ users[owner].github = browser[b].account
                           /\ browser[b].account \in Accounts
  BY UserIs DEF CreateSession
<1>2. UNCHANGED <<handle, users, tokens>>
  BY DEF CreateSession
<1>3. IF p # Nobody \/ cut = "projects" THEN UNCHANGED <<projects, made>> ELSE EnsureHome(owner)
  BY <1>1 DEF CreateSession
<1>4. /\ ProjectsInv' /\ MakesOf(projects', made')
      /\ p = Nobody /\ cut # "projects" /\ HomeOf(owner) = 0 =>
           /\ made' = made + 1
           /\ \A j \in DOMAIN projects' : projects'[j].id = made + 1 => projects'[j].owner = owner
      /\ p = Nobody /\ cut # "projects" /\ HomeOf(owner) # 0 =>
           projects' = projects /\ made' = made
  <2>1. CASE p # Nobody \/ cut = "projects"
    <3>1. projects' = projects /\ made' = made
      BY <1>3, <2>1
    <3> QED
      BY <2>1, <3>1, NoneMade DEF WorkspaceInv, ProjectsInv
  <2>2. CASE ~(p # Nobody \/ cut = "projects")
    BY <1>3, <2>2, HomeEnsured
  <2> QED
    BY <2>1, <2>2
<1>5. GrowsTo(users') /\ IssuesTo(tokens', users')
  BY <1>2, NobodyElse DEF WorkspaceInv
<1>6. CASE cut # "none"
  <2>1. browser' = Dropped /\ sessions' = sessions
    BY <1>6 DEF CreateSession, Tears
  <2>2. /\ browser' \in [Browsers -> Clients]
        /\ \A x \in Browsers : browser'[x] = browser[x] \/ MayBe(browser'[x], tokens', users')
    BY <2>1, DroppedIs DEF WorkspaceInv
  <2>3. WorkspaceIsTyped'
    BY <1>2, <1>4, <2>1, <2>2 DEF WorkspaceInv, WorkspaceIsTyped, MakesOf
  <2>4. AccountsInv'
    BY <1>5, <2>2, AccountsKept DEF WorkspaceInv
  <2>5. OwnedInv'
    BY <1>4, <1>5, <2>1, SessionsKept DEF WorkspaceInv
  <2> QED
    BY <1>4, <2>3, <2>4, <2>5 DEF WorkspaceInv
<1>7. CASE cut = "none"
  <2>1. browser' = browser
    BY <1>7 DEF CreateSession
  <2>2. PICK s : s = [owner |-> owner, project |-> place, named |-> p # Nobody,
                      by |-> browser[b].account]
    OBVIOUS
  <2>3. sessions' = Append(sessions, s)
    BY <1>1, <1>7, <2>2 DEF CreateSession
  <2>4. place \in Nat
    <3>1. CASE p # Nobody
      <4>1. PICK i \in DOMAIN projects : p = projects[i].id
        BY <3>1
      <4>2. projects[i].id \in 1 .. made /\ made \in Nat
        BY DEF WorkspaceInv, WorkspaceIsTyped, ProjectsInv
      <4> QED
        BY <3>1, <4>1, <4>2
    <3>2. CASE p = Nobody /\ HomeOf(owner) = 0
      <4>1. made \in Nat
        BY DEF WorkspaceInv, WorkspaceIsTyped
      <4> QED
        BY <1>1, <3>2, <4>1
    <3>3. CASE p = Nobody /\ HomeOf(owner) # 0
      <4>1. HomeOf(owner) \in DOMAIN projects
        BY <3>3, HomeIs DEF WorkspaceInv
      <4>2. projects[HomeOf(owner)].id \in 1 .. made /\ made \in Nat
        BY <4>1 DEF WorkspaceInv, WorkspaceIsTyped, ProjectsInv
      <4> QED
        BY <1>1, <3>3, <4>2
    <3> QED
      BY <3>1, <3>2, <3>3
  <2>5. s \in Sessions
    <3>1. (p # Nobody) \in BOOLEAN
      OBVIOUS
    <3> HIDE DEF place
    <3> QED
      BY <1>1, <2>2, <2>4, <3>1 DEF Sessions
  <2>6. IsOwned(s)'
    <3>1. s.owner = owner /\ s.by = browser[b].account /\ s.project = place
      BY <2>2
    <3>2. ~s.named => p = Nobody
      BY <2>2
    <3>3. s.owner \in DOMAIN users' /\ users'[s.owner].github = s.by
      BY <1>1, <1>2, <3>1
    <3>4. ASSUME p = Nobody
          PROVE  /\ s.project \in 1 .. made'
                 /\ \A j \in DOMAIN projects' :
                      projects'[j].id = s.project => projects'[j].owner = s.owner
      <4>1. made \in Nat /\ cut # "projects"
        BY <1>7 DEF WorkspaceInv, WorkspaceIsTyped
      <4>2. CASE HomeOf(owner) = 0
        <5>1. place = made + 1
          BY <1>1, <3>4, <4>2
        <5>2. made + 1 \in 1 .. made + 1
          BY <4>1
        <5> HIDE DEF place
        <5> QED
          BY <1>4, <3>1, <3>4, <4>1, <4>2, <5>1, <5>2
      <4>3. CASE HomeOf(owner) # 0
        <5>1. PICK i \in DOMAIN projects : i = HomeOf(owner) /\ projects[i].owner = owner
          BY <4>3, HomeIs DEF WorkspaceInv
        <5>2. place = projects[i].id
          BY <1>1, <3>4, <4>3, <5>1
        <5>3. projects' = projects /\ made' = made
          BY <1>4, <3>4, <4>1, <4>3
        <5>4. projects[i].id \in 1 .. made
          BY DEF WorkspaceInv, ProjectsInv
        <5>5. \A j \in DOMAIN projects : projects[j].id = projects[i].id => j = i
          BY DEF WorkspaceInv, ProjectsInv
        <5> HIDE DEF place
        <5> QED
          BY <3>1, <5>1, <5>2, <5>3, <5>4, <5>5
      <4> QED
        BY <4>2, <4>3
    <3> QED
      BY <3>2, <3>3, <3>4 DEF IsOwned
  <2> HIDE DEF place
  <2>7. PICK n \in Nat : n = Len(sessions) /\ DOMAIN sessions = 1 .. n
    BY LenProperties DEF WorkspaceInv, WorkspaceIsTyped
  <2>8. sessions \in Seq(Sessions)
    BY DEF WorkspaceInv, WorkspaceIsTyped
  <2>9. sessions' \in Seq(Sessions) /\ Len(sessions') = n + 1
    BY <2>3, <2>5, <2>7, <2>8, AppendProperties
  <2>10. /\ DOMAIN sessions' = 1 .. n + 1 /\ sessions'[n + 1] = s
         /\ \A i \in 1 .. n : sessions'[i] = sessions[i]
    BY <2>3, <2>5, <2>7, <2>8, <2>9, AppendProperties, LenProperties
  <2>11. WorkspaceIsTyped'
    BY <1>2, <1>4, <2>1, <2>9 DEF WorkspaceInv, WorkspaceIsTyped, MakesOf
  <2>12. AccountsInv'
    BY <1>2, <2>1 DEF WorkspaceInv, AccountsInv
  <2>13. ASSUME NEW i \in 1 .. n + 1 PROVE (IsOwned(sessions[i]))'
    <3>1. PICK x : x = sessions'[i]
      OBVIOUS
    <3>2. IsOwned(x)'
      <4>1. CASE i = n + 1
        BY <2>6, <2>10, <3>1, <4>1
      <4>2. CASE i # n + 1
        <5>1. i \in 1 .. n
          BY <4>2
        <5>2. IsOwned(x)
          BY <2>7, <2>10, <3>1, <5>1 DEF WorkspaceInv, OwnedInv
        <5> QED
          BY <1>4, <1>5, <5>2, OwnedKept DEF WorkspaceInv
      <4> QED
        BY <4>1, <4>2
    <3> QED
      BY <3>1, <3>2 DEF IsOwned
  <2>14. OwnedInv'
    BY <2>10, <2>13 DEF OwnedInv
  <2> QED
    BY <1>4, <2>11, <2>12, <2>14 DEF WorkspaceInv
<1> QED
  BY <1>6, <1>7

LEMMA WorkspaceStep == WorkspaceInv /\ [WorkspaceNext]_workspaceVars => WorkspaceInv'
<1> SUFFICES ASSUME WorkspaceInv, [WorkspaceNext]_workspaceVars PROVE WorkspaceInv'
  OBVIOUS
<1>1. ASSUME NEW a \in Accounts, NEW h \in Handles, RenameAccount(a, h) PROVE WorkspaceInv'
  <2>1. handle' \in [Accounts -> Handles]
    BY <1>1 DEF RenameAccount, WorkspaceInv, WorkspaceIsTyped
  <2>2. browser' = browser /\ UNCHANGED stores
    BY <1>1 DEF RenameAccount
  <2>3. browser' \in [Browsers -> Clients]
    BY <2>2 DEF WorkspaceInv, WorkspaceIsTyped
  <2> QED
    BY <2>1, <2>2, <2>3, ClientsMove
<1>2. CASE UNCHANGED workspaceVars
  <2>1. UNCHANGED stores /\ handle' = handle /\ browser' = browser
    BY <1>2 DEF workspaceVars
  <2>2. browser' \in [Browsers -> Clients] /\ handle' \in [Accounts -> Handles]
    BY <2>1 DEF WorkspaceInv, WorkspaceIsTyped
  <2> QED
    BY <2>1, <2>2, ClientsMove
<1> QED
  BY <1>1, <1>2, SignInSteps, UserArrivesStep, ProjectSteps, SessionStep DEF WorkspaceNext

\* Who signs in finds the account's own workspace: the token names its user, and all the
\* sessions made under the account are that user's, those that named no project in one
\* of the user's projects (upsertByGithub, TokenStore, getOrCreateDefault).
THEOREM FoundAgainHolds == WorkspaceSpec => []WorkspaceIsFoundAgain
<1>1. WorkspaceInit => WorkspaceInv
  <2> SUFFICES ASSUME WorkspaceInit PROVE WorkspaceInv
    OBVIOUS
  <2>1. SignedOut \in Clients /\ SignedOut.stage = "out"
    BY DEF SignedOut, Clients, Stages, Logins
  <2>2. /\ users = <<>> /\ tokens = <<>> /\ projects = <<>> /\ sessions = <<>> /\ made = 0
        /\ handle \in [Accounts -> Handles] /\ browser \in [Browsers -> Clients]
        /\ \A b \in Browsers : browser[b].stage = "out"
    BY <2>1, WorkspaceAssumption DEF WorkspaceInit, WorkspaceAssumption
  <2>3. \A S : <<>> \in Seq(S)
    OBVIOUS
  <2>4. DOMAIN <<>> = {}
    OBVIOUS
  <2>5. WorkspaceIsTyped
    BY <2>2, <2>3 DEF WorkspaceIsTyped
  <2> QED
    BY <2>2, <2>4, <2>5
    DEF WorkspaceInv, AccountsInv, ProjectsInv, OwnedInv, InFlight
<1>2. WorkspaceInv => WorkspaceIsFoundAgain
  <2> SUFFICES ASSUME WorkspaceInv, NEW b \in Browsers, SignedIn(b)
               PROVE  LET user == UserOf(b)
                          own == {i \in DOMAIN sessions : sessions[i].by = browser[b].account}
                      IN  /\ users[user].github = browser[b].account
                          /\ own = {i \in DOMAIN sessions : sessions[i].owner = user}
                          /\ \A i \in own : \A j \in DOMAIN projects :
                               ~sessions[i].named /\ projects[j].id = sessions[i].project =>
                                 projects[j].owner = user
    BY DEF WorkspaceIsFoundAgain
  <2>1. PICK user : user = UserOf(b)
    OBVIOUS
  <2>2. user \in DOMAIN users /\ users[user].github = browser[b].account
    BY <2>1, UserIs
  <2>3. \A i \in DOMAIN sessions :
          /\ sessions[i].owner \in DOMAIN users
          /\ users[sessions[i].owner].github = sessions[i].by
    BY DEF WorkspaceInv, OwnedInv, IsOwned
  <2>4. \A i, j \in DOMAIN users : users[i].github = users[j].github => i = j
    BY DEF WorkspaceInv, AccountsInv
  <2>5. \A i \in DOMAIN sessions :
          sessions[i].by = browser[b].account <=> sessions[i].owner = user
    BY <2>2, <2>3, <2>4
  <2>6. \A i \in DOMAIN sessions : \A j \in DOMAIN projects :
          ~sessions[i].named /\ projects[j].id = sessions[i].project =>
            projects[j].owner = sessions[i].owner
    BY DEF WorkspaceInv, OwnedInv, IsOwned
  <2> QED
    BY <2>1, <2>2, <2>5, <2>6
<1> QED
  BY <1>1, <1>2, WorkspaceStep, PTL DEF WorkspaceSpec

-----------------------------------------------------------------------------
(* What Select keeps. *)

LEMMA SelectTyped ==
  ASSUME NEW T, NEW s \in Seq(T), NEW K PROVE Select(s, K) \in Seq(T \cap K)
<1>1. PICK n \in Nat : n = Len(s)
  BY LenProperties
<1>2. DOMAIN s = 1 .. n /\ \A i \in 1 .. n : s[i] \in T
  BY <1>1, LenProperties, ElementOfSeq
<1> DEFINE p == [i \in DOMAIN s |-> IF s[i] \in K THEN <<s[i]>> ELSE <<>>]
<1>3. ASSUME NEW i \in 1 .. n
      PROVE  (IF s[i] \in K THEN <<s[i]>> ELSE <<>>) \in Seq(T \cap K)
  <2>1. CASE s[i] \in K
    <3>1. s[i] \in T \cap K
      BY <1>2, <2>1
    <3>2. <<s[i]>> \in Seq(T \cap K)
      BY <3>1, SingleSeq
    <3> QED
      BY <2>1, <3>2
  <2>2. CASE s[i] \notin K
    BY <2>2, EmptySeq
  <2> QED
    BY <2>1, <2>2
<1>4. p \in [1 .. n -> Seq(T \cap K)]
  BY <1>2, <1>3
<1> HIDE DEF p
<1>5. p \in Seq(Seq(T \cap K))
  BY <1>4, FunSeq
<1>6. FlattenSeq(p) \in Seq(T \cap K)
  BY <1>5, FlattenTyped
<1> QED
  BY <1>6 DEF Select, p

LEMMA SelectAll == ASSUME NEW K, NEW s \in Seq(K) PROVE Select(s, K) = s
<1>1. PICK n \in Nat : n = Len(s)
  BY LenProperties
<1>2. DOMAIN s = 1 .. n /\ \A i \in 1 .. n : s[i] \in K
  BY <1>1, LenProperties, ElementOfSeq
<1> DEFINE p == [i \in DOMAIN s |-> IF s[i] \in K THEN <<s[i]>> ELSE <<>>]
           q == [i \in DOMAIN s |-> <<s[i]>>]
<1>3. p = q
  BY <1>2
<1>4. FlattenSeq(q) = s
  <2> HIDE DEF q
  <2>1. q = [i \in DOMAIN s |-> <<s[i]>>]
    BY DEF q
  <2> QED
    BY <2>1, FlattenSingles
<1> HIDE DEF p, q
<1> QED
  BY <1>3, <1>4 DEF Select, p

LEMMA SelectNone ==
  ASSUME NEW T, NEW s \in Seq(T), NEW K, T \cap K = {} PROVE Select(s, K) = <<>>
<1>1. PICK n \in Nat : n = Len(s)
  BY LenProperties
<1>2. DOMAIN s = 1 .. n /\ \A i \in 1 .. n : s[i] \notin K
  BY <1>1, LenProperties, ElementOfSeq
<1> DEFINE p == [i \in DOMAIN s |-> IF s[i] \in K THEN <<s[i]>> ELSE <<>>]
<1>3. p \in [1 .. n -> {<<>>}]
  BY <1>2
<1> HIDE DEF p
<1>4. p \in Seq({<<>>})
  BY <1>3, FunSeq
<1>5. FlattenSeq(p) = <<>>
  BY <1>4, FlattenBlank
<1> QED
  BY <1>5 DEF Select, p

LEMMA SelectConcat ==
  ASSUME NEW T, NEW s \in Seq(T), NEW t \in Seq(T), NEW K
  PROVE  Select(s \o t, K) = Select(s, K) \o Select(t, K)
<1>1. PICK m \in Nat : m = Len(s)
  BY LenProperties
<1>2. PICK n \in Nat : n = Len(t)
  BY LenProperties
<1>3. PICK u \in Seq(T) : u = s \o t
  BY ConcatProperties
<1>4. /\ Len(u) = m + n
      /\ \A i \in 1 .. m + n : u[i] = IF i <= m THEN s[i] ELSE t[i - m]
  BY <1>1, <1>2, <1>3, ConcatProperties
<1>5. DOMAIN s = 1 .. m /\ DOMAIN t = 1 .. n /\ DOMAIN u = 1 .. m + n
  BY <1>1, <1>2, <1>4, LenProperties
<1>6. (\A i \in 1 .. m : s[i] \in T) /\ \A i \in 1 .. n : t[i] \in T
  BY <1>1, <1>2, ElementOfSeq
<1> DEFINE one(x) == IF x \in K THEN <<x>> ELSE <<>>
           p == [i \in DOMAIN s |-> one(s[i])]
           q == [i \in DOMAIN t |-> one(t[i])]
           r == [i \in DOMAIN u |-> one(u[i])]
<1>7. ASSUME NEW x \in T PROVE one(x) \in Seq(T)
  <2>1. <<x>> \in Seq(T) /\ <<>> \in Seq(T)
    BY SingleSeq, EmptySeq
  <2> QED
    BY <2>1
<1> HIDE DEF one
<1>8. /\ p \in [1 .. m -> Seq(T)] /\ \A i \in 1 .. m : p[i] = one(s[i])
      /\ q \in [1 .. n -> Seq(T)] /\ \A i \in 1 .. n : q[i] = one(t[i])
  BY <1>5, <1>6, <1>7
<1>9. /\ r \in [1 .. m + n -> Seq(T)]
      /\ \A i \in 1 .. m + n : r[i] = one(u[i])
  <2>1. \A i \in 1 .. m + n : u[i] \in T
    BY <1>4, ElementOfSeq
  <2> QED
    BY <1>5, <1>7, <2>1
<1> HIDE DEF p, q, r
<1>10. /\ p \in Seq(Seq(T)) /\ Len(p) = m
       /\ q \in Seq(Seq(T)) /\ Len(q) = n
       /\ r \in Seq(Seq(T)) /\ Len(r) = m + n
  <2>1. m + n \in Nat
    OBVIOUS
  <2> QED
    BY <1>8, <1>9, <2>1, FunSeq
<1>11. PICK v \in Seq(Seq(T)) : v = p \o q
  BY <1>10, ConcatProperties
<1>12. /\ Len(v) = m + n
       /\ \A i \in 1 .. m + n : v[i] = IF i <= m THEN p[i] ELSE q[i - m]
  BY <1>10, <1>11, ConcatProperties
<1>13. ASSUME NEW i \in 1 .. m + n PROVE v[i] = r[i]
  <2>1. CASE i <= m
    <3>1. i \in 1 .. m
      BY <2>1
    <3> QED
      BY <1>4, <1>8, <1>9, <1>12, <2>1, <3>1
  <2>2. CASE ~(i <= m)
    <3>1. i - m \in 1 .. n
      BY <2>2
    <3> QED
      BY <1>4, <1>8, <1>9, <1>12, <2>2, <3>1
  <2> QED
    BY <2>1, <2>2
<1>14. v = r
  BY <1>10, <1>12, <1>13, SeqEqual
<1>15. FlattenSeq(r) = FlattenSeq(p) \o FlattenSeq(q)
  BY <1>10, <1>11, <1>14, FlattenConcat
<1> QED
  BY <1>3, <1>15 DEF Select, p, q, r, one

-----------------------------------------------------------------------------
(* What a child prints, and the texts a reader has of it. *)

Pieces == [line : Nat \ {0}, part : {"first", "second", "newline"}]

\* What the child printed after line a, up to its piece b.
Text(a, b) == SubSeq(Output, 3 * a + 1, b)

LEMMA Thirds ==
  ASSUME NEW i \in Nat
  PROVE  /\ i \div 3 \in Nat /\ 3 * (i \div 3) <= i /\ i <= 3 * (i \div 3) + 2
         /\ \A q \in Nat : 3 * q <= i /\ i <= 3 * q + 2 => i \div 3 = q
OBVIOUS

LEMMA MaxIs ==
  ASSUME NEW S \in SUBSET Nat, NEW x \in S, \A y \in S : y <= x
  PROVE  Max(S) = x
<1>1. \A y \in S : x >= y
  OBVIOUS
<1>2. \A z \in S : (\A y \in S : z >= y) => z = x
  OBVIOUS
<1> QED
  BY <1>1, <1>2, Zenon DEF Max

LEMMA OutputIs ==
  ASSUME script \in Seq(Lines)
  PROVE  /\ Output \in Seq(Pieces) /\ Len(Output) = 3 * Len(script)
         /\ \A n \in 0 .. Len(script) - 1 :
              /\ Output[3 * n + 1] = Piece(n + 1, "first")
              /\ Output[3 * n + 2] = Piece(n + 1, "second")
              /\ Output[3 * n + 3] = Piece(n + 1, "newline")
<1>1. PICK len \in Nat : len = Len(script)
  BY LenProperties
<1>2. \A i \in 1 .. 3 * len : Output[i] = Piece((i + 2) \div 3, Parts[((i - 1) % 3) + 1])
  BY <1>1 DEF Output
<1>3. ASSUME NEW n \in 0 .. len - 1
      PROVE  /\ Output[3 * n + 1] = Piece(n + 1, "first")
             /\ Output[3 * n + 2] = Piece(n + 1, "second")
             /\ Output[3 * n + 3] = Piece(n + 1, "newline")
  <2>1. /\ 3 * n + 1 \in 1 .. 3 * len /\ ((3 * n + 1) + 2) \div 3 = n + 1
        /\ ((3 * n + 1) - 1) % 3 = 0
    OBVIOUS
  <2>2. /\ 3 * n + 2 \in 1 .. 3 * len /\ ((3 * n + 2) + 2) \div 3 = n + 1
        /\ ((3 * n + 2) - 1) % 3 = 1
    OBVIOUS
  <2>3. /\ 3 * n + 3 \in 1 .. 3 * len /\ ((3 * n + 3) + 2) \div 3 = n + 1
        /\ ((3 * n + 3) - 1) % 3 = 2
    OBVIOUS
  <2>4. Parts[0 + 1] = "first" /\ Parts[1 + 1] = "second" /\ Parts[2 + 1] = "newline"
    BY DEF Parts
  <2> QED
    BY <1>2, <2>1, <2>2, <2>3, <2>4
<1>4. ASSUME NEW i \in 1 .. 3 * len
      PROVE  Piece((i + 2) \div 3, Parts[((i - 1) % 3) + 1]) \in Pieces
  <2>1. (i + 2) \div 3 \in Nat \ {0} /\ (i - 1) % 3 \in {0, 1, 2}
    OBVIOUS
  <2>2. PICK r \in {0, 1, 2} : r = (i - 1) % 3
    BY <2>1
  <2>3. Parts[r + 1] \in {"first", "second", "newline"}
    BY DEF Parts
  <2> QED
    BY <2>1, <2>2, <2>3 DEF Piece, Pieces
<1>5. Output \in [1 .. 3 * len -> Pieces]
  BY <1>1, <1>4 DEF Output
<1>6. 3 * len \in Nat
  OBVIOUS
<1>7. Output \in Seq(Pieces) /\ Len(Output) = 3 * len
  BY <1>5, <1>6, FunSeq
<1> QED
  BY <1>1, <1>3, <1>7

LEMMA TextIs ==
  ASSUME script \in Seq(Lines), NEW a \in Nat, NEW b \in Nat, 3 * a <= b, b <= 3 * Len(script)
  PROVE  /\ Text(a, b) \in Seq(Pieces) /\ Len(Text(a, b)) = b - 3 * a
         /\ DOMAIN Text(a, b) = 1 .. b - 3 * a
         /\ \A i \in 1 .. b - 3 * a : Text(a, b)[i] = Output[3 * a + i]
<1>1. PICK len \in Nat : len = Len(script)
  BY LenProperties
<1>2. Len(Output) = 3 * len /\ Output \in Seq(Pieces)
  BY <1>1, OutputIs
<1>3. \A i \in 3 * a + 1 .. b : Output[i] \in Pieces
  <2>1. \A i \in 3 * a + 1 .. b : i \in 1 .. Len(Output)
    BY <1>1, <1>2
  <2> QED
    BY <1>2, <2>1, ElementOfSeq
<1>4. PICK m \in Int : m = 3 * a + 1
  OBVIOUS
<1>5. /\ Text(a, b) \in Seq(Pieces)
      /\ Len(Text(a, b)) = IF m <= b THEN b - m + 1 ELSE 0
      /\ \A i \in 1 .. b - m + 1 : Text(a, b)[i] = Output[m + i - 1]
  <2>1. Text(a, b) = SubSeq(Output, m, b)
    BY <1>4 DEF Text
  <2>2. \A i \in m .. b : Output[i] \in Pieces
    BY <1>3, <1>4
  <2> QED
    BY <2>1, <2>2, SubSeqProperties
<1>6. Len(Text(a, b)) = b - 3 * a
  BY <1>4, <1>5
<1>7. \A i \in 1 .. b - 3 * a : Text(a, b)[i] = Output[3 * a + i]
  <2> TAKE i \in 1 .. b - 3 * a
  <2>1. i \in 1 .. b - m + 1 /\ m + i - 1 = 3 * a + i
    BY <1>4
  <2> QED
    BY <1>5, <2>1
<1> QED
  BY <1>5, <1>6, <1>7, LenProperties

\* The pieces of a text, by their place in it.
LEMMA PieceIs ==
  ASSUME script \in Seq(Lines), NEW a \in Nat, NEW b \in Nat, 3 * a <= b, b <= 3 * Len(script),
         NEW i \in 1 .. b - 3 * a
  PROVE  /\ Text(a, b)[i].part = "newline" <=> i = 3 * (i \div 3)
         /\ Text(a, b)[i].part = "first" <=> i = 3 * (i \div 3) + 1
         /\ i = 1 => Text(a, b)[i] = Piece(a + 1, "first")
         /\ i = 2 => Text(a, b)[i] = Piece(a + 1, "second")
<1>1. PICK len \in Nat : len = Len(script)
  BY LenProperties
<1>2. PICK q \in Nat : q = (i - 1) \div 3
  BY Thirds
<1>3. 3 * q <= i - 1 /\ i - 1 <= 3 * q + 2
  BY <1>2, Thirds
<1>4. i = 3 * q + 1 \/ i = 3 * q + 2 \/ i = 3 * q + 3
  BY <1>3
<1>5. a + q \in 0 .. len - 1
  BY <1>1, <1>3
<1>6. PICK n \in Nat : n = a + q
  OBVIOUS
<1>7. /\ Output[3 * n + 1] = Piece(n + 1, "first")
      /\ Output[3 * n + 2] = Piece(n + 1, "second")
      /\ Output[3 * n + 3] = Piece(n + 1, "newline")
  BY <1>1, <1>5, <1>6, OutputIs
<1>8. Text(a, b)[i] = Output[3 * a + i]
  BY TextIs
<1>12. \A m \in Nat, part \in {"first", "second", "newline"} : Piece(m, part).part = part
  BY DEF Piece
<1>9. CASE i = 3 * q + 1
  <2>1. 3 * a + i = 3 * n + 1 /\ i # 3 * (i \div 3) /\ i = 3 * (i \div 3) + 1
    BY <1>6, <1>9
  <2>2. i # 2 /\ (i = 1 => n = a)
    BY <1>6, <1>9
  <2>3. Text(a, b)[i] = Piece(n + 1, "first")
    BY <1>7, <1>8, <2>1
  <2>4. Text(a, b)[i].part = "first"
    BY <1>12, <2>3
  <2> QED
    BY <2>1, <2>2, <2>3, <2>4
<1>10. CASE i = 3 * q + 2
  <2>1. 3 * a + i = 3 * n + 2 /\ i # 3 * (i \div 3) /\ i # 3 * (i \div 3) + 1
    BY <1>6, <1>10
  <2>2. i # 1 /\ (i = 2 => n = a)
    BY <1>6, <1>10
  <2>3. Text(a, b)[i] = Piece(n + 1, "second")
    BY <1>7, <1>8, <2>1
  <2>4. Text(a, b)[i].part = "second"
    BY <1>12, <2>3
  <2> QED
    BY <2>1, <2>2, <2>3, <2>4
<1>11. CASE i = 3 * q + 3
  <2>1. 3 * a + i = 3 * n + 3 /\ i = 3 * (i \div 3) /\ i # 3 * (i \div 3) + 1
    BY <1>6, <1>11
  <2>2. i # 1 /\ i # 2
    BY <1>11
  <2>3. Text(a, b)[i] = Piece(n + 1, "newline")
    BY <1>7, <1>8, <2>1
  <2>4. Text(a, b)[i].part = "newline"
    BY <1>12, <2>3
  <2> QED
    BY <2>1, <2>2, <2>3, <2>4
<1> QED
  BY <1>4, <1>9, <1>10, <1>11

\* What stands before place i of a text is a text too.
LEMMA LineBeforeIs ==
  ASSUME script \in Seq(Lines), NEW a \in Nat, NEW b \in Nat, 3 * a <= b, b <= 3 * Len(script),
         NEW i \in 1 .. b - 3 * a + 1
  PROVE  LineBefore(Text(a, b), i) = Text(a + (i - 1) \div 3, 3 * a + i - 1)
<1>1. PICK len \in Nat : len = Len(script)
  BY LenProperties
<1>2. PICK q \in Nat : q = (i - 1) \div 3
  BY Thirds
<1>3. 3 * q <= i - 1 /\ i - 1 <= 3 * q + 2
  BY <1>2, Thirds
<1> DEFINE t == Text(a, b)
           before == {0} \cup {j \in Newlines(t) : j < i}
<1>4. \A j \in 1 .. b - 3 * a : j \in Newlines(t) <=> j = 3 * (j \div 3)
  <2> TAKE j \in 1 .. b - 3 * a
  <2>1. t[j].part = "newline" <=> j = 3 * (j \div 3)
    BY PieceIs
  <2>2. DOMAIN t = 1 .. b - 3 * a
    BY TextIs
  <2> HIDE DEF t
  <2> QED
    BY <2>1, <2>2 DEF Newlines
<1>5. Newlines(t) \subseteq 1 .. b - 3 * a
  BY TextIs DEF Newlines
<1> HIDE DEF t
<1>6. before \in SUBSET Nat
  BY <1>5
<1>7. 3 * q \in before
  <2>1. CASE q = 0
    BY <2>1
  <2>2. CASE q # 0
    <3>1. 3 * q \in 1 .. b - 3 * a /\ 3 * q = 3 * ((3 * q) \div 3) /\ 3 * q < i
      BY <1>3, <2>2
    <3> QED
      BY <1>4, <3>1
  <2> QED
    BY <2>1, <2>2
<1>8. ASSUME NEW j \in before PROVE j <= 3 * q
  <2>1. CASE j = 0
    BY <2>1
  <2>2. CASE j # 0
    <3>1. j \in 1 .. b - 3 * a /\ j \in Newlines(t) /\ j < i
      BY <1>5, <2>2
    <3>2. j = 3 * (j \div 3)
      BY <1>4, <3>1
    <3> QED
      BY <1>3, <3>1, <3>2
  <2> QED
    BY <2>1, <2>2
<1>9. Max(before) = 3 * q
  <2> HIDE DEF before
  <2> QED
    BY <1>6, <1>7, <1>8, MaxIs
<1>10. LineBefore(t, i) = SubSeq(t, 3 * q + 1, i - 1)
  BY <1>9 DEF LineBefore
<1> DEFINE u == SubSeq(t, 3 * q + 1, i - 1)
           v == Text(a + q, 3 * a + i - 1)
<1>11. /\ t \in Seq(Pieces) /\ Len(t) = b - 3 * a
       /\ \A j \in 1 .. b - 3 * a : t[j] = Output[3 * a + j]
  BY TextIs DEF t
<1>12. /\ u \in Seq(Pieces) /\ Len(u) = i - 1 - 3 * q
       /\ \A j \in 1 .. i - 1 - 3 * q : u[j] = t[3 * q + j]
  <2>1. \A j \in 3 * q + 1 .. i - 1 : t[j] \in Pieces
    <3>1. \A j \in 3 * q + 1 .. i - 1 : j \in 1 .. Len(t)
      BY <1>11
    <3> QED
      BY <1>11, <3>1, ElementOfSeq
  <2>2. 3 * q + 1 \in Int /\ i - 1 \in Int
    OBVIOUS
  <2>3. /\ u \in Seq(Pieces)
        /\ Len(u) = IF 3 * q + 1 <= i - 1 THEN (i - 1) - (3 * q + 1) + 1 ELSE 0
        /\ \A j \in 1 .. (i - 1) - (3 * q + 1) + 1 : u[j] = t[(3 * q + 1) + j - 1]
    BY <2>1, <2>2, SubSeqProperties
  <2> HIDE DEF u
  <2>4. Len(u) = i - 1 - 3 * q
    BY <1>3, <2>3
  <2>5. ASSUME NEW j \in 1 .. i - 1 - 3 * q PROVE u[j] = t[3 * q + j]
    <3>1. j \in 1 .. (i - 1) - (3 * q + 1) + 1 /\ (3 * q + 1) + j - 1 = 3 * q + j
      OBVIOUS
    <3> QED
      BY <2>3, <3>1
  <2> QED
    BY <2>3, <2>4, <2>5
<1>13. /\ v \in Seq(Pieces) /\ Len(v) = i - 1 - 3 * q
       /\ \A j \in 1 .. i - 1 - 3 * q : v[j] = Output[3 * a + 3 * q + j]
  <2>1. PICK c \in Nat : c = a + q
    OBVIOUS
  <2>2. PICK d \in Nat : d = 3 * a + i - 1
    OBVIOUS
  <2>3. 3 * c <= d /\ d <= 3 * Len(script) /\ d - 3 * c = i - 1 - 3 * q
    BY <1>1, <1>3, <2>1, <2>2
  <2>4. /\ v \in Seq(Pieces) /\ Len(v) = d - 3 * c
        /\ \A j \in 1 .. d - 3 * c : v[j] = Output[3 * c + j]
    BY <2>1, <2>2, <2>3, TextIs
  <2> HIDE DEF v
  <2>5. 3 * c = 3 * a + 3 * q
    BY <2>1
  <2> QED
    BY <2>3, <2>4, <2>5
<1> HIDE DEF u, v
<1>14. ASSUME NEW j \in 1 .. i - 1 - 3 * q PROVE u[j] = v[j]
  <2>1. 3 * q + j \in 1 .. b - 3 * a /\ 3 * a + (3 * q + j) = 3 * a + 3 * q + j
    BY <1>3
  <2> QED
    BY <1>11, <1>12, <1>13, <2>1
<1>15. u = v
  BY <1>12, <1>13, <1>14, SeqEqual
<1> QED
  BY <1>2, <1>10, <1>15 DEF t, u, v

\* Line n without its newline.
LineText(n) == Text(n - 1, 3 * (n - 1) + 2)

LEMMA RemainderIs ==
  ASSUME script \in Seq(Lines), NEW a \in Nat, NEW b \in Nat, 3 * a <= b, b <= 3 * Len(script)
  PROVE  Remainder(Text(a, b)) = Text(b \div 3, b)
<1>1. PICK i \in 1 .. b - 3 * a + 1 : i = b - 3 * a + 1
  OBVIOUS
<1>2. Len(Text(a, b)) + 1 = i
  BY <1>1, TextIs
<1>3. LineBefore(Text(a, b), i) = Text(a + (i - 1) \div 3, 3 * a + i - 1)
  BY LineBeforeIs
<1>4. a + (i - 1) \div 3 = b \div 3 /\ 3 * a + i - 1 = b
  BY <1>1
<1> QED
  BY <1>2, <1>3, <1>4 DEF Remainder

LEMMA CompleteIs ==
  ASSUME script \in Seq(Lines), NEW a \in Nat, NEW b \in Nat, 3 * a <= b, b <= 3 * Len(script)
  PROVE  CompleteLines(Text(a, b)) = [j \in 1 .. (b \div 3) - a |-> LineText(a + j)]
<1>1. PICK len \in Nat : len = Len(script)
  BY LenProperties
<1>2. PICK n \in Nat : n = b - 3 * a
  OBVIOUS
<1> DEFINE t == Text(a, b)
           s == [i \in DOMAIN t |-> IF i \in Newlines(t) THEN <<LineBefore(t, i)>> ELSE <<>>]
           f == [i \in 0 .. n |-> [j \in 1 .. i \div 3 |-> LineText(a + j)]]
<1>3. Len(t) = n /\ DOMAIN t = 1 .. n
  BY <1>2, TextIs
<1>4. \A i \in 1 .. n : i \in Newlines(t) <=> i = 3 * (i \div 3)
  <2> TAKE i \in 1 .. n
  <2>1. t[i].part = "newline" <=> i = 3 * (i \div 3)
    BY <1>2, PieceIs
  <2> HIDE DEF t
  <2> QED
    BY <1>3, <2>1 DEF Newlines
<1>5. ASSUME NEW k \in 1 .. n \div 3 PROVE LineText(a + k) \in Seq(Pieces)
  <2>1. PICK c \in Nat : c = a + k - 1
    OBVIOUS
  <2>2. PICK d \in Nat : d = 3 * c + 2
    OBVIOUS
  <2>3. 3 * c <= d /\ d <= 3 * Len(script)
    BY <1>1, <1>2, <2>1, <2>2
  <2>4. Text(c, d) \in Seq(Pieces)
    BY <2>3, TextIs
  <2>5. LineText(a + k) = Text(c, d)
    BY <2>1, <2>2 DEF LineText
  <2> QED
    BY <2>4, <2>5
<1>6. ASSUME NEW i \in 1 .. n, i = 3 * (i \div 3)
      PROVE  LineBefore(t, i) = LineText(a + i \div 3)
  <2>1. i \in 1 .. b - 3 * a + 1
    BY <1>2
  <2>2. LineBefore(t, i) = Text(a + (i - 1) \div 3, 3 * a + i - 1)
    BY <2>1, LineBeforeIs
  <2>3. PICK q \in Nat : q = i \div 3
    BY Thirds
  <2>4. (i - 1) \div 3 = q - 1 /\ i - 1 = 3 * (q - 1) + 2
    BY <1>6, <2>3
  <2>5. a + (i - 1) \div 3 = (a + q) - 1 /\ 3 * a + i - 1 = 3 * ((a + q) - 1) + 2
    BY <2>4
  <2> HIDE DEF t
  <2> QED
    BY <2>2, <2>3, <2>5 DEF LineText
<1> HIDE DEF t
<1>7. /\ s \in [1 .. n -> Seq(Seq(Pieces))]
      /\ \A i \in 1 .. n : s[i] = IF i = 3 * (i \div 3) THEN <<LineText(a + i \div 3)>> ELSE <<>>
  <2>1. ASSUME NEW i \in 1 .. n
        PROVE  /\ s[i] = IF i = 3 * (i \div 3) THEN <<LineText(a + i \div 3)>> ELSE <<>>
               /\ s[i] \in Seq(Seq(Pieces))
    <3>1. CASE i = 3 * (i \div 3)
      <4>1. i \div 3 \in 1 .. n \div 3
        BY <3>1
      <4>2. s[i] = <<LineText(a + i \div 3)>>
        BY <1>3, <1>4, <1>6, <3>1
      <4>3. LineText(a + i \div 3) \in Seq(Pieces)
        BY <1>5, <4>1
      <4> QED
        BY <3>1, <4>2, <4>3, SingleSeq
    <3>2. CASE i # 3 * (i \div 3)
      <4>1. s[i] = <<>>
        BY <1>3, <1>4, <3>2
      <4> QED
        BY <3>2, <4>1, EmptySeq
    <3> QED
      BY <3>1, <3>2
  <2> QED
    BY <1>3, <2>1
<1>8. ASSUME NEW i \in 0 .. n
      PROVE  /\ f[i] = [j \in 1 .. i \div 3 |-> LineText(a + j)]
             /\ f[i] \in Seq(Seq(Pieces)) /\ Len(f[i]) = i \div 3
             /\ \A j \in 1 .. i \div 3 : f[i][j] = LineText(a + j)
  <2>1. PICK q \in Nat : q = i \div 3
    BY Thirds
  <2>2. q <= n \div 3
    BY <2>1
  <2> DEFINE g == [j \in 1 .. q |-> LineText(a + j)]
  <2>3. g \in [1 .. q -> Seq(Pieces)] /\ \A j \in 1 .. q : g[j] = LineText(a + j)
    <3>1. \A j \in 1 .. q : j \in 1 .. n \div 3
      BY <2>2
    <3> QED
      BY <1>5, <3>1
  <2>4. f[i] = g
    BY <2>1
  <2> HIDE DEF f, g
  <2>5. g \in Seq(Seq(Pieces)) /\ Len(g) = q
    BY <2>3, FunSeq
  <2> QED
    BY <2>1, <2>3, <2>4, <2>5 DEF g
<1>9. f[0] = <<>>
  <2>1. 0 \in 0 .. n /\ 0 \div 3 = 0
    OBVIOUS
  <2>2. f[0] \in Seq(Seq(Pieces)) /\ Len(f[0]) = 0
    BY <1>8, <2>1
  <2> HIDE DEF f
  <2> QED
    BY <2>2, EmptySeq
<1> HIDE DEF f, s
<1>10. ASSUME NEW i \in 1 .. n PROVE f[i] = f[i - 1] \o s[i]
  <2>1. i \in 0 .. n /\ i - 1 \in 0 .. n
    OBVIOUS
  <2>2. PICK q \in Nat : q = i \div 3
    BY Thirds
  <2>3. /\ f[i] \in Seq(Seq(Pieces)) /\ Len(f[i]) = q
        /\ \A j \in 1 .. q : f[i][j] = LineText(a + j)
    BY <1>8, <2>1, <2>2
  <2>4. CASE i = 3 * q
    <3>1. (i - 1) \div 3 = q - 1 /\ q \in 1 .. n \div 3
      BY <2>4
    <3>2. /\ f[i - 1] \in Seq(Seq(Pieces)) /\ Len(f[i - 1]) = q - 1
          /\ \A j \in 1 .. q - 1 : f[i - 1][j] = LineText(a + j)
      BY <1>8, <2>1, <3>1
    <3>3. s[i] = <<LineText(a + q)>> /\ LineText(a + q) \in Seq(Pieces)
      BY <1>5, <1>7, <2>2, <2>4, <3>1
    <3>4. PICK x \in Seq(Pieces) : x = LineText(a + q)
      BY <3>3
    <3>5. PICK y : y = <<x>>
      OBVIOUS
    <3>a. y \in Seq(Seq(Pieces)) /\ Len(y) = 1 /\ y[1] = x
      BY <3>5
    <3>b. PICK p \in Nat : p = q - 1
      BY <3>1
    <3>c. PICK g : g = f[i - 1]
      OBVIOUS
    <3>d. /\ g \in Seq(Seq(Pieces)) /\ Len(g) = p
          /\ \A j \in 1 .. p : g[j] = LineText(a + j)
      BY <3>2, <3>b, <3>c
    <3>6. PICK u : u = g \o y
      OBVIOUS
    <3>7. /\ u \in Seq(Seq(Pieces)) /\ Len(u) = p + 1
          /\ \A j \in 1 .. p + 1 : u[j] = IF j <= p THEN g[j] ELSE y[j - p]
      <4>1. PICK P : P = Seq(Pieces)
        OBVIOUS
      <4>2. g \in Seq(P) /\ y \in Seq(P) /\ Len(g) = p /\ Len(y) = 1
        BY <3>a, <3>d, <4>1
      <4>3. /\ u \in Seq(P) /\ Len(u) = p + 1
            /\ \A j \in 1 .. p + 1 : u[j] = IF j <= p THEN g[j] ELSE y[j - p]
        <5>1. /\ g \o y \in Seq(P) /\ Len(g \o y) = Len(g) + Len(y)
              /\ \A j \in 1 .. Len(g) + Len(y) :
                    (g \o y)[j] = IF j <= Len(g) THEN g[j] ELSE y[j - Len(g)]
          BY <4>2, ConcatProperties
        <5> QED
          BY <3>6, <4>2, <5>1
      <4> QED
        BY <4>1, <4>3
    <3>8. ASSUME NEW j \in 1 .. q PROVE u[j] = f[i][j]
      <4>1. j \in 1 .. p + 1 /\ f[i][j] = LineText(a + j)
        BY <2>3, <3>b
      <4>2. CASE j <= p
        <5>1. j \in 1 .. p
          BY <4>2
        <5> QED
          BY <3>d, <3>7, <4>1, <4>2, <5>1
      <4>3. CASE ~(j <= p)
        <5>1. j = q /\ j - p = 1
          BY <3>b, <4>3
        <5>2. u[j] = y[1]
          BY <3>7, <4>1, <4>3, <5>1
        <5> QED
          BY <3>4, <3>a, <4>1, <5>1, <5>2
      <4> QED
        BY <4>2, <4>3
    <3>9. Len(u) = q
      BY <3>b, <3>7
    <3>10. u = f[i]
      <4>1. PICK P : P = Seq(Pieces)
        OBVIOUS
      <4>2. PICK v : v = f[i]
        OBVIOUS
      <4>3. u \in Seq(P) /\ v \in Seq(P) /\ Len(u) = q /\ Len(v) = q
        BY <2>3, <3>7, <3>9, <4>1, <4>2
      <4>4. \A j \in 1 .. Len(u) : u[j] = v[j]
        BY <3>8, <4>2, <4>3
      <4>5. Len(u) = Len(v)
        BY <4>3
      <4>6. u = v
        BY <4>3, <4>4, <4>5, SeqEqual
      <4> QED
        BY <4>2, <4>6
    <3> QED
      BY <3>3, <3>4, <3>5, <3>6, <3>10, <3>c
  <2>5. CASE i # 3 * q
    <3>1. (i - 1) \div 3 = q
      BY <2>2, <2>5
    <3>2. f[i - 1] = f[i] /\ s[i] = <<>>
      BY <1>7, <1>8, <2>1, <2>2, <2>5, <3>1
    <3> QED
      BY <2>3, <3>2, ConcatEmptySeq
  <2> QED
    BY <2>4, <2>5
<1>11. s \in Seq(Seq(Seq(Pieces))) /\ Len(s) = n
  BY <1>7, FunSeq
<1>12. f \in [0 .. n -> Seq(Seq(Pieces))]
  <2>1. \A i \in 0 .. n : f[i] \in Seq(Seq(Pieces))
    BY <1>8
  <2> QED
    BY <2>1 DEF f
<1>13. IsFlat(Seq(Pieces), f, s)
  BY <1>9, <1>10, <1>11, <1>12 DEF IsFlat
<1>14. FlattenSeq(s) = f[n]
  <2>1. PICK T : T = Seq(Pieces)
    OBVIOUS
  <2>2. s \in Seq(Seq(T)) /\ IsFlat(T, f, s)
    BY <1>11, <1>13, <2>1
  <2>3. FlattenSeq(s) = f[Len(s)]
    BY <2>2, FlattenIs
  <2> QED
    BY <1>11, <2>3
<1>15. f[n] = [j \in 1 .. n \div 3 |-> LineText(a + j)]
  <2>1. n \in 0 .. n
    OBVIOUS
  <2> QED
    BY <1>8, <2>1
<1>16. n \div 3 = (b \div 3) - a
  BY <1>2
<1> QED
  BY <1>14, <1>15, <1>16 DEF CompleteLines, s, t

\* A text is a line if and only if it is all of one but its newline.
LEMMA LineIs ==
  ASSUME script \in Seq(Lines), NEW a \in Nat, NEW b \in Nat, 3 * a <= b, b <= 3 * Len(script)
  PROVE  /\ IsLine(Text(a, b)) <=> b = 3 * a + 2
         /\ Text(a, b) = <<>> <=> b = 3 * a
         /\ b # 3 * a => Text(a, b)[1].line = a + 1
<1>1. PICK t : t = Text(a, b)
  OBVIOUS
<1>2. t \in Seq(Pieces) /\ Len(t) = b - 3 * a
  BY <1>1, TextIs
<1>3. t = <<>> <=> b = 3 * a
  BY <1>2, EmptySeq
<1>4. b # 3 * a => t[1] = Piece(a + 1, "first")
  <2> SUFFICES ASSUME b # 3 * a PROVE t[1] = Piece(a + 1, "first")
    OBVIOUS
  <2>1. 1 \in 1 .. b - 3 * a
    OBVIOUS
  <2> QED
    BY <1>1, <2>1, PieceIs
<1>5. b = 3 * a + 2 => t[2] = Piece(a + 1, "second")
  <2> SUFFICES ASSUME b = 3 * a + 2 PROVE t[2] = Piece(a + 1, "second")
    OBVIOUS
  <2>1. 2 \in 1 .. b - 3 * a
    OBVIOUS
  <2> QED
    BY <1>1, <2>1, PieceIs
<1>6. b # 3 * a => t[1].line = a + 1 /\ t[1].part = "first"
  BY <1>4 DEF Piece
<1>7. IsLine(t) <=> b = 3 * a + 2
  <2>1. Len(t) = 2 <=> b = 3 * a + 2
    BY <1>2
  <2>2. b = 3 * a + 2 => b # 3 * a
    OBVIOUS
  <2> QED
    BY <1>5, <1>6, <2>1, <2>2 DEF IsLine
<1> QED
  BY <1>1, <1>3, <1>6, <1>7

LEMMA MappedIs ==
  ASSUME script \in Seq(Lines), NEW a \in Nat, NEW b \in Nat, 3 * a <= b, b <= 3 * Len(script)
  PROVE  Mapped(Text(a, b)) = IF b = 3 * a + 2 THEN MapLine(a + 1) ELSE <<>>
<1>1. PICK t : t = Text(a, b)
  OBVIOUS
<1>2. (IsLine(t) <=> b = 3 * a + 2) /\ (b # 3 * a => t[1].line = a + 1)
  BY <1>1, LineIs
<1>3. CASE b = 3 * a + 2
  <2>1. IsLine(t) /\ t[1].line = a + 1
    BY <1>2, <1>3
  <2> QED
    BY <1>1, <1>3, <2>1 DEF Mapped
<1>4. CASE b # 3 * a + 2
  BY <1>1, <1>2, <1>4 DEF Mapped
<1> QED
  BY <1>3, <1>4

-----------------------------------------------------------------------------
(* What the reader hands on, line by line, and what it makes of it. *)

\* The events of the first w lines.
Told(w) == FlattenSeq([n \in 1 .. w |-> MapLine(n)])

LEMMA MapLineIs ==
  ASSUME script \in Seq(Lines), NEW n \in 1 .. Len(script)
  PROVE  /\ MapLine(n) \in Seq(LineEvents)
         /\ script[n].type = "result" =>
              MapLine(n) = <<TurnEvent(IF script[n].bad THEN "error" ELSE "result", n)>>
         /\ script[n].type # "result" =>
              \A i \in DOMAIN MapLine(n) : MapLine(n)[i].kind \in Blocks
<1>1. PICK l \in LineShapes : l = script[n]
  BY TurnAssumption, ElementOfSeq
<1>2. l.blocks \in Seq(Blocks)
  BY DEF LineShapes
<1>3. n \in Nat \ {0}
  BY LenProperties
<1>4. CASE l.type = "result"
  <2>1. MapLine(n) = <<TurnEvent(IF l.bad THEN "error" ELSE "result", n)>>
    BY <1>1, <1>4 DEF MapLine
  <2>2. TurnEvent(IF l.bad THEN "error" ELSE "result", n) \in LineEvents
    BY <1>3 DEF TurnEvent, LineEvents
  <2>3. MapLine(n) \in Seq(LineEvents)
    BY <2>1, <2>2, SingleSeq
  <2> QED
    BY <1>1, <1>4, <2>1, <2>3
<1>5. CASE l.type # "result"
  <2>1. PICK kept : MapLine(n) = [i \in DOMAIN Select(l.blocks, kept) |->
                                    TurnEvent(Select(l.blocks, kept)[i], n)]
    BY <1>1, <1>5 DEF MapLine
  <2>2. PICK bs : bs = Select(l.blocks, kept)
    OBVIOUS
  <2>3. bs \in Seq(Blocks)
    <3>1. bs \in Seq(Blocks \cap kept)
      BY <1>2, <2>2, SelectTyped
    <3> QED
      BY <3>1, SeqMonotonic
  <2>4. PICK len \in Nat : len = Len(bs)
    BY <2>3, LenProperties
  <2>5. DOMAIN bs = 1 .. len /\ \A i \in 1 .. len : bs[i] \in Blocks
    BY <2>3, <2>4, LenProperties, ElementOfSeq
  <2>6. PICK es : es = [i \in 1 .. len |-> TurnEvent(bs[i], n)]
    OBVIOUS
  <2>7. MapLine(n) = es
    BY <2>1, <2>2, <2>5, <2>6
  <2>8. ASSUME NEW b \in Blocks PROVE TurnEvent(b, n) \in LineEvents /\ TurnEvent(b, n).kind = b
    BY <1>3 DEF TurnEvent, LineEvents
  <2>9. \A i \in 1 .. len : es[i] \in LineEvents /\ es[i].kind \in Blocks
    BY <2>5, <2>6, <2>8
  <2>10. es \in [1 .. len -> LineEvents]
    BY <2>6, <2>9
  <2>11. es \in Seq(LineEvents) /\ DOMAIN es = 1 .. len
    BY <2>10, FunSeq
  <2> QED
    BY <1>1, <1>5, <2>7, <2>9, <2>11
<1> QED
  BY <1>4, <1>5

LEMMA LinesTold ==
  ASSUME script \in Seq(Lines), NEW w \in Nat, NEW m \in Nat, w + m <= Len(script),
         NEW s, s = [j \in 1 .. m |-> MapLine(w + j)]
  PROVE  /\ s \in Seq(Seq(LineEvents)) /\ Len(s) = m
         /\ \A j \in 1 .. m : s[j] = MapLine(w + j)
<1>1. \A j \in 1 .. m : w + j \in 1 .. Len(script)
  BY LenProperties
<1>2. s \in [1 .. m -> Seq(LineEvents)]
  BY <1>1, MapLineIs
<1> QED
  BY <1>2, FunSeq

LEMMA ToldIs ==
  ASSUME script \in Seq(Lines), NEW w \in Nat, NEW m \in Nat, w + m <= Len(script)
  PROVE  /\ Told(w) \in Seq(LineEvents)
         /\ Told(w) \o FlattenSeq([j \in 1 .. m |-> MapLine(w + j)]) = Told(w + m)
<1>1. PICK len \in Nat : len = Len(script)
  BY LenProperties
<1> DEFINE p == [n \in 1 .. w |-> MapLine(n)]
           q == [j \in 1 .. m |-> MapLine(w + j)]
           r == [n \in 1 .. w + m |-> MapLine(n)]
<1>2. /\ p \in Seq(Seq(LineEvents)) /\ Len(p) = w
      /\ \A j \in 1 .. w : p[j] = MapLine(j)
  <2>1. p = [j \in 1 .. w |-> MapLine(0 + j)]
    OBVIOUS
  <2>2. 0 \in Nat /\ 0 + w <= Len(script)
    BY <1>1
  <2>3. p \in Seq(Seq(LineEvents)) /\ Len(p) = w
    <3> HIDE DEF p
    <3> QED
      BY <2>1, <2>2, LinesTold
  <2> QED
    BY <2>3
<1>3. /\ q \in Seq(Seq(LineEvents)) /\ Len(q) = m
      /\ \A j \in 1 .. m : q[j] = MapLine(w + j)
  <2>1. q = [j \in 1 .. m |-> MapLine(w + j)]
    OBVIOUS
  <2> HIDE DEF q
  <2> QED
    BY <2>1, LinesTold
<1>4. /\ r \in Seq(Seq(LineEvents)) /\ Len(r) = w + m
      /\ \A j \in 1 .. w + m : r[j] = MapLine(j)
  <2>1. r = [j \in 1 .. w + m |-> MapLine(0 + j)]
    OBVIOUS
  <2>2. 0 \in Nat /\ w + m \in Nat /\ 0 + (w + m) <= Len(script)
    BY <1>1
  <2>3. r \in Seq(Seq(LineEvents)) /\ Len(r) = w + m
    <3> HIDE DEF r
    <3> QED
      BY <2>1, <2>2, LinesTold
  <2> QED
    BY <2>3
<1> HIDE DEF p, q, r
<1>5. PICK T : T = Seq(LineEvents)
  OBVIOUS
<1>6. /\ p \o q \in Seq(T) /\ Len(p \o q) = Len(p) + Len(q)
      /\ \A i \in 1 .. Len(p) + Len(q) :
           (p \o q)[i] = IF i <= Len(p) THEN p[i] ELSE q[i - Len(p)]
  <2>1. p \in Seq(T) /\ q \in Seq(T)
    BY <1>2, <1>3, <1>5
  <2> QED
    BY <2>1, ConcatProperties
<1>7. ASSUME NEW i \in 1 .. w + m PROVE (p \o q)[i] = r[i]
  <2>1. CASE i <= w
    BY <1>2, <1>3, <1>4, <1>6, <2>1
  <2>2. CASE ~(i <= w)
    <3>1. i - w \in 1 .. m /\ w + (i - w) = i
      BY <2>2
    <3>2. (p \o q)[i] = q[i - w]
      BY <1>2, <1>3, <1>6, <2>2
    <3> QED
      BY <1>3, <1>4, <3>1, <3>2
  <2> QED
    BY <2>1, <2>2
<1>8. p \o q = r
  <2>1. Len(p \o q) = w + m /\ r \in Seq(T)
    BY <1>2, <1>3, <1>4, <1>5, <1>6
  <2> QED
    BY <1>4, <1>6, <1>7, <2>1, SeqEqual
<1>9. FlattenSeq(r) = FlattenSeq(p) \o FlattenSeq(q)
  BY <1>2, <1>3, <1>8, FlattenConcat
<1>10. FlattenSeq(p) \in Seq(LineEvents)
  BY <1>2, FlattenTyped
<1> QED
  BY <1>9, <1>10 DEF Told, p, q, r

LEMMA ToldTyped ==
  ASSUME script \in Seq(Lines), NEW w \in 0 .. Len(script) PROVE Told(w) \in Seq(LineEvents)
<1>1. w \in Nat /\ w + 0 <= Len(script)
  BY LenProperties
<1> QED
  BY <1>1, ToldIs

LEMMA ToldNone == Told(0) = <<>>
<1>1. [n \in 1 .. 0 |-> MapLine(n)] \in [1 .. 0 -> {<<>>}]
  OBVIOUS
<1>2. [n \in 1 .. 0 |-> MapLine(n)] \in Seq({<<>>})
  BY <1>1, FunSeq
<1> QED
  BY <1>2, FlattenBlank DEF Told

LEMMA ToldNext ==
  ASSUME script \in Seq(Lines), NEW w \in Nat, w + 1 <= Len(script)
  PROVE  Told(w + 1) = Told(w) \o MapLine(w + 1)
<1>1. w + 1 \in 1 .. Len(script)
  BY LenProperties
<1>2. PICK x \in Seq(LineEvents) : x = MapLine(w + 1)
  BY <1>1, MapLineIs
<1>3. [j \in 1 .. 1 |-> MapLine(w + j)] = <<x>>
  BY <1>2
<1>4. FlattenSeq(<<x>>) = x
  BY FlattenOne
<1>5. Told(w) \o FlattenSeq([j \in 1 .. 1 |-> MapLine(w + j)]) = Told(w + 1)
  BY ToldIs
<1> QED
  BY <1>2, <1>3, <1>4, <1>5

\* The whole lines are the first w.
LEMMA WholeIs ==
  ASSUME script \in Seq(Lines), NEW w \in 0 .. Len(script),
         \A n \in 1 .. Len(script) : Whole(n) <=> n <= w
  PROVE  WholeEvents = Told(w)
<1>1. PICK len \in Nat : len = Len(script) /\ DOMAIN script = 1 .. len
  BY LenProperties
<1>a. w \in Nat /\ w <= len
  BY <1>1
<1>2. PICK m \in Nat : m = len - w
  BY <1>a
<1> DEFINE p == [n \in 1 .. w |-> MapLine(n)]
           q == [j \in 1 .. m |-> <<>>]
           r == [n \in DOMAIN script |-> IF Whole(n) THEN MapLine(n) ELSE <<>>]
<1>3. /\ p \in Seq(Seq(LineEvents)) /\ Len(p) = w
      /\ \A j \in 1 .. w : p[j] = MapLine(j)
  <2>1. p = [j \in 1 .. w |-> MapLine(0 + j)]
    OBVIOUS
  <2>2. 0 \in Nat /\ w \in Nat /\ 0 + w <= Len(script)
    BY <1>1
  <2>3. p \in Seq(Seq(LineEvents)) /\ Len(p) = w
    <3> HIDE DEF p
    <3> QED
      BY <2>1, <2>2, LinesTold
  <2> QED
    BY <2>3
<1>4. /\ q \in Seq({<<>>}) /\ q \in Seq(Seq(LineEvents)) /\ Len(q) = m
      /\ \A j \in 1 .. m : q[j] = <<>>
  <2>1. q \in [1 .. m -> {<<>>}] /\ \A j \in 1 .. m : q[j] = <<>>
    OBVIOUS
  <2>2. <<>> \in Seq(LineEvents)
    BY EmptySeq
  <2> HIDE DEF q
  <2>3. q \in Seq({<<>>}) /\ Len(q) = m
    BY <2>1, FunSeq
  <2>4. q \in Seq(Seq(LineEvents))
    BY <2>2, <2>3, SeqMonotonic
  <2> QED
    BY <2>1, <2>3, <2>4
<1>5. ASSUME NEW n \in 1 .. len
      PROVE  r[n] = (IF n <= w THEN MapLine(n) ELSE <<>>) /\ r[n] \in Seq(LineEvents)
  <2>1. r[n] = IF n <= w THEN MapLine(n) ELSE <<>>
    BY <1>1
  <2>2. MapLine(n) \in Seq(LineEvents) /\ <<>> \in Seq(LineEvents)
    BY <1>1, MapLineIs, EmptySeq
  <2> QED
    BY <2>1, <2>2
<1>6. r \in Seq(Seq(LineEvents)) /\ Len(r) = len
  <2>1. r \in [1 .. len -> Seq(LineEvents)]
    BY <1>1, <1>5
  <2> HIDE DEF r
  <2> QED
    BY <2>1, FunSeq
<1> HIDE DEF p, q, r
<1>7. PICK T : T = Seq(LineEvents)
  OBVIOUS
<1>8. /\ p \o q \in Seq(T) /\ Len(p \o q) = Len(p) + Len(q)
      /\ \A i \in 1 .. Len(p) + Len(q) :
           (p \o q)[i] = IF i <= Len(p) THEN p[i] ELSE q[i - Len(p)]
  <2>1. p \in Seq(T) /\ q \in Seq(T)
    BY <1>3, <1>4, <1>7
  <2> QED
    BY <2>1, ConcatProperties
<1>9. ASSUME NEW i \in 1 .. len PROVE (p \o q)[i] = r[i]
  <2>1. i \in 1 .. Len(p) + Len(q)
    BY <1>2, <1>3, <1>4
  <2>2. CASE i <= w
    BY <1>3, <1>5, <1>8, <2>1, <2>2
  <2>3. CASE ~(i <= w)
    <3>1. i - w \in 1 .. m
      BY <1>2, <2>3
    <3>2. (p \o q)[i] = q[i - w]
      BY <1>3, <1>8, <2>1, <2>3
    <3> QED
      BY <1>4, <1>5, <2>3, <3>1, <3>2
  <2> QED
    BY <2>2, <2>3
<1>10. p \o q = r
  <2>1. Len(p \o q) = len /\ r \in Seq(T)
    BY <1>2, <1>3, <1>4, <1>6, <1>7, <1>8
  <2> QED
    BY <1>6, <1>8, <1>9, <2>1, SeqEqual
<1>11. FlattenSeq(r) = FlattenSeq(p) \o FlattenSeq(q)
  BY <1>3, <1>4, <1>10, FlattenConcat
<1>12. FlattenSeq(q) = <<>> /\ FlattenSeq(p) \in Seq(LineEvents)
  BY <1>3, <1>4, FlattenBlank, FlattenTyped
<1>13. FlattenSeq(r) = FlattenSeq(p)
  BY <1>11, <1>12, ConcatEmptySeq
<1> QED
  BY <1>13 DEF WholeEvents, Told, p, r

LEMMA MaxExists ==
  ASSUME NEW S \in SUBSET Nat, S # {}, NEW b \in Nat, \A y \in S : y <= b
  PROVE  Max(S) \in S /\ \A y \in S : y <= Max(S)
<1> DEFINE below == {k \in 0 .. b : \E y \in S : k = b - y}
<1>1. below \in SUBSET Nat /\ below # {}
  <2>1. PICK y \in S : TRUE
    OBVIOUS
  <2>2. y \in Nat /\ y <= b
    OBVIOUS
  <2>3. b - y \in below
    BY <2>2
  <2>4. \A k \in below : k \in Nat
    OBVIOUS
  <2> HIDE DEF below
  <2> QED
    BY <2>3, <2>4
<1>2. PICK k \in below : \A d \in below : k <= d
  <2> HIDE DEF below
  <2> QED
    BY <1>1, LeastIs
<1>3. PICK x \in S : k = b - x
  BY <1>2
<1>4. ASSUME NEW y \in S PROVE y <= x
  <2>1. b - y \in below
    OBVIOUS
  <2>2. k <= b - y
    BY <1>2, <2>1
  <2> QED
    BY <1>3, <2>2
<1>5. Max(S) = x
  BY <1>4, MaxIs
<1> QED
  BY <1>4, <1>5

Summaries == [text : Seq(LineEvents), usage : Nat, isError : BOOLEAN]

\* The places of the results in a sequence of events, and what it tells of usage and errors.
Oks(e) == {i \in DOMAIN e : e[i].kind = "result"}
UsageIn(e, u) == IF Oks(e) = {} THEN u ELSE e[Max(Oks(e))].line
ErrorIn(e) == \E i \in DOMAIN e : e[i].kind = "error"

LEMMA AccumulateIs ==
  ASSUME NEW a, NEW e
  PROVE  Accumulate(a, e) = [text |-> a.text \o Select(e, TextEvents),
                             usage |-> UsageIn(e, a.usage),
                             isError |-> a.isError \/ ErrorIn(e)]
BY DEF Accumulate, UsageIn, Oks, ErrorIn

LEMMA OksIs ==
  ASSUME NEW e \in Seq(LineEvents), Oks(e) # {}
  PROVE  /\ Max(Oks(e)) \in 1 .. Len(e) /\ e[Max(Oks(e))].kind = "result"
         /\ e[Max(Oks(e))].line \in Nat \ {0}
         /\ \A i \in Oks(e) : i <= Max(Oks(e))
<1>1. PICK n \in Nat : n = Len(e)
  BY LenProperties
<1>2. DOMAIN e = 1 .. n
  BY <1>1, LenProperties
<1>3. Oks(e) \in SUBSET Nat /\ \A y \in Oks(e) : y <= n
  BY <1>2 DEF Oks
<1>4. Max(Oks(e)) \in Oks(e) /\ \A y \in Oks(e) : y <= Max(Oks(e))
  BY <1>3, MaxExists
<1>5. PICK m : m = Max(Oks(e))
  OBVIOUS
<1>6. m \in 1 .. n /\ e[m].kind = "result"
  BY <1>2, <1>4, <1>5 DEF Oks
<1>7. e[m] \in LineEvents
  BY <1>1, <1>6, ElementOfSeq
<1>8. e[m].line \in Nat \ {0}
  BY <1>7 DEF LineEvents
<1> QED
  BY <1>1, <1>4, <1>5, <1>6, <1>8

LEMMA UsageTyped ==
  ASSUME NEW e \in Seq(LineEvents), NEW u \in Nat PROVE UsageIn(e, u) \in Nat
<1>1. CASE Oks(e) = {}
  BY <1>1 DEF UsageIn
<1>2. CASE Oks(e) # {}
  BY <1>2, OksIs DEF UsageIn
<1> QED
  BY <1>1, <1>2

LEMMA TextTyped ==
  ASSUME NEW e \in Seq(LineEvents) PROVE Select(e, TextEvents) \in Seq(LineEvents)
<1>1. Select(e, TextEvents) \in Seq(LineEvents \cap TextEvents)
  BY SelectTyped
<1> QED
  BY <1>1, SeqMonotonic

LEMMA AccumulateTyped ==
  ASSUME NEW a \in Summaries, NEW e \in Seq(LineEvents)
  PROVE  Accumulate(a, e) \in Summaries
<1>1. a.text \in Seq(LineEvents) /\ a.usage \in Nat /\ a.isError \in BOOLEAN
  BY DEF Summaries
<1>2. a.text \o Select(e, TextEvents) \in Seq(LineEvents)
  BY <1>1, TextTyped, ConcatProperties
<1>3. UsageIn(e, a.usage) \in Nat
  BY <1>1, UsageTyped
<1>4. (a.isError \/ ErrorIn(e)) \in BOOLEAN
  OBVIOUS
<1> QED
  BY <1>2, <1>3, <1>4, AccumulateIs DEF Summaries

LEMMA UsageTwice ==
  ASSUME NEW e \in Seq(LineEvents), NEW f \in Seq(LineEvents), NEW u
  PROVE  UsageIn(e \o f, u) = UsageIn(f, UsageIn(e, u))
<1>1. PICK m \in Nat : m = Len(e)
  BY LenProperties
<1>2. PICK n \in Nat : n = Len(f)
  BY LenProperties
<1>3. PICK g \in Seq(LineEvents) : g = e \o f
  BY ConcatProperties
<1>4. /\ Len(g) = m + n
      /\ \A i \in 1 .. m + n : g[i] = IF i <= m THEN e[i] ELSE f[i - m]
  BY <1>1, <1>2, <1>3, ConcatProperties
<1>5. DOMAIN e = 1 .. m /\ DOMAIN f = 1 .. n /\ DOMAIN g = 1 .. m + n
  BY <1>1, <1>2, <1>4, LenProperties
<1>6. /\ \A i \in 1 .. m : i \in Oks(g) <=> i \in Oks(e)
      /\ \A i \in 1 .. n : m + i \in Oks(g) <=> i \in Oks(f)
  <2>1. ASSUME NEW i \in 1 .. m PROVE i \in Oks(g) <=> i \in Oks(e)
    <3>1. i \in 1 .. m + n /\ i <= m
      OBVIOUS
    <3>2. g[i] = e[i]
      BY <1>4, <3>1
    <3> QED
      BY <1>5, <3>1, <3>2 DEF Oks
  <2>2. ASSUME NEW i \in 1 .. n PROVE m + i \in Oks(g) <=> i \in Oks(f)
    <3>1. m + i \in 1 .. m + n /\ ~(m + i <= m) /\ (m + i) - m = i
      OBVIOUS
    <3>2. g[m + i] = f[i]
      BY <1>4, <3>1
    <3> QED
      BY <1>5, <3>1, <3>2 DEF Oks
  <2> QED
    BY <2>1, <2>2
<1>7. Oks(e) \subseteq 1 .. m /\ Oks(f) \subseteq 1 .. n /\ Oks(g) \subseteq 1 .. m + n
  BY <1>5 DEF Oks
<1>8. ASSUME NEW i \in Oks(g), ~(i <= m) PROVE i - m \in Oks(f) /\ i - m \in 1 .. n
  <2>1. i - m \in 1 .. n /\ m + (i - m) = i
    BY <1>7, <1>8
  <2> QED
    BY <1>6, <1>8, <2>1
<1>9. Oks(g) \in SUBSET Nat
  BY <1>7
<1>10. CASE Oks(f) # {}
  <2>1. PICK x \in 1 .. n : x = Max(Oks(f)) /\ x \in Oks(f) /\ \A y \in Oks(f) : y <= x
    <3>1. Oks(f) \in SUBSET Nat /\ \A y \in Oks(f) : y <= n
      BY <1>7
    <3> QED
      BY <1>7, <1>10, <3>1, MaxExists
  <2>2. m + x \in Oks(g)
    BY <1>6, <2>1
  <2>3. ASSUME NEW y \in Oks(g) PROVE y <= m + x
    <3>1. CASE y <= m
      BY <1>7, <3>1
    <3>2. CASE ~(y <= m)
      <4>1. y - m <= x
        BY <1>8, <2>1, <3>2
      <4> QED
        BY <1>7, <4>1
    <3> QED
      BY <3>1, <3>2
  <2>4. Max(Oks(g)) = m + x
    BY <1>9, <2>2, <2>3, MaxIs
  <2>5. g[m + x] = f[x]
    <3>1. m + x \in 1 .. m + n /\ ~(m + x <= m) /\ (m + x) - m = x
      OBVIOUS
    <3> QED
      BY <1>4, <3>1
  <2> QED
    BY <1>3, <1>10, <2>1, <2>2, <2>4, <2>5 DEF UsageIn
<1>11. CASE Oks(f) = {}
  <2>1. Oks(g) = Oks(e)
    <3>1. ASSUME NEW i \in Oks(g) PROVE i \in Oks(e)
      <4>1. i <= m
        BY <1>8, <1>11
      <4>2. i \in 1 .. m
        BY <1>7, <4>1
      <4> QED
        BY <1>6, <4>2
    <3>2. ASSUME NEW i \in Oks(e) PROVE i \in Oks(g)
      BY <1>6, <1>7
    <3> QED
      BY <3>1, <3>2
  <2>2. UsageIn(g, u) = UsageIn(e, u)
    <3>1. CASE Oks(e) = {}
      BY <2>1, <3>1 DEF UsageIn
    <3>2. CASE Oks(e) # {}
      <4>1. PICK x \in 1 .. m : x = Max(Oks(e))
        BY <3>2, <1>1, OksIs
      <4>2. g[x] = e[x]
        <5>1. x \in 1 .. m + n /\ x <= m
          OBVIOUS
        <5> QED
          BY <1>4, <5>1
      <4> QED
        BY <2>1, <3>2, <4>1, <4>2 DEF UsageIn
    <3> QED
      BY <3>1, <3>2
  <2>3. UsageIn(f, UsageIn(e, u)) = UsageIn(e, u)
    BY <1>11 DEF UsageIn
  <2> QED
    BY <1>3, <2>2, <2>3
<1> QED
  BY <1>10, <1>11

LEMMA ErrorTwice ==
  ASSUME NEW e \in Seq(LineEvents), NEW f \in Seq(LineEvents)
  PROVE  ErrorIn(e \o f) <=> ErrorIn(e) \/ ErrorIn(f)
<1>1. PICK m \in Nat : m = Len(e)
  BY LenProperties
<1>2. PICK n \in Nat : n = Len(f)
  BY LenProperties
<1>3. PICK g \in Seq(LineEvents) : g = e \o f
  BY ConcatProperties
<1>4. /\ Len(g) = m + n
      /\ \A i \in 1 .. m + n : g[i] = IF i <= m THEN e[i] ELSE f[i - m]
  BY <1>1, <1>2, <1>3, ConcatProperties
<1>5. DOMAIN e = 1 .. m /\ DOMAIN f = 1 .. n /\ DOMAIN g = 1 .. m + n
  BY <1>1, <1>2, <1>4, LenProperties
<1>6. ASSUME ErrorIn(g) PROVE ErrorIn(e) \/ ErrorIn(f)
  <2>1. PICK i \in 1 .. m + n : g[i].kind = "error"
    BY <1>5, <1>6 DEF ErrorIn
  <2>2. CASE i <= m
    <3>1. i \in 1 .. m /\ e[i].kind = "error"
      BY <1>4, <2>1, <2>2
    <3> QED
      BY <1>5, <3>1 DEF ErrorIn
  <2>3. CASE ~(i <= m)
    <3>1. i - m \in 1 .. n
      BY <2>3
    <3>2. f[i - m].kind = "error"
      BY <1>4, <2>1, <2>3
    <3> QED
      BY <1>5, <3>1, <3>2 DEF ErrorIn
  <2> QED
    BY <2>2, <2>3
<1>7. ASSUME ErrorIn(e) PROVE ErrorIn(g)
  <2>1. PICK i \in 1 .. m : e[i].kind = "error"
    BY <1>5, <1>7 DEF ErrorIn
  <2>2. i \in 1 .. m + n /\ i <= m
    OBVIOUS
  <2>3. g[i] = e[i]
    BY <1>4, <2>2
  <2> QED
    BY <1>5, <2>1, <2>2, <2>3 DEF ErrorIn
<1>8. ASSUME ErrorIn(f) PROVE ErrorIn(g)
  <2>1. PICK i \in 1 .. n : f[i].kind = "error"
    BY <1>5, <1>8 DEF ErrorIn
  <2>2. m + i \in 1 .. m + n /\ ~(m + i <= m) /\ (m + i) - m = i
    OBVIOUS
  <2>3. g[m + i] = f[i]
    BY <1>4, <2>2
  <2> QED
    BY <1>5, <2>1, <2>2, <2>3 DEF ErrorIn
<1> QED
  BY <1>3, <1>6, <1>7, <1>8

LEMMA TextConcat ==
  ASSUME NEW e \in Seq(LineEvents), NEW f \in Seq(LineEvents)
  PROVE  Select(e \o f, TextEvents) = Select(e, TextEvents) \o Select(f, TextEvents)
<1>1. ASSUME NEW T, NEW s \in Seq(T), NEW t \in Seq(T)
      PROVE  Select(s \o t, TextEvents) = Select(s, TextEvents) \o Select(t, TextEvents)
  BY SelectConcat
<1> QED
  BY <1>1

AnyEvents == LineEvents \cup {TurnStart, TurnEnd}

LEMMA LinesConcat ==
  ASSUME NEW e \in Seq(AnyEvents), NEW f \in Seq(AnyEvents)
  PROVE  Select(e \o f, LineEvents) = Select(e, LineEvents) \o Select(f, LineEvents)
<1>1. ASSUME NEW T, NEW s \in Seq(T), NEW t \in Seq(T)
      PROVE  Select(s \o t, LineEvents) = Select(s, LineEvents) \o Select(t, LineEvents)
  BY SelectConcat
<1> QED
  BY <1>1

\* What is accumulated in two steps is accumulated in one.
LEMMA AccumulateTwice ==
  ASSUME NEW a \in Summaries, NEW e \in Seq(LineEvents), NEW f \in Seq(LineEvents)
  PROVE  Accumulate(Accumulate(a, e), f) = Accumulate(a, e \o f)
<1>1. PICK b : b = Accumulate(a, e)
  OBVIOUS
<1>2. /\ b.text = a.text \o Select(e, TextEvents)
      /\ b.usage = UsageIn(e, a.usage)
  BY <1>1, AccumulateIs
<1>3. b.isError = (a.isError \/ ErrorIn(e))
  BY <1>1, AccumulateIs
<1>4. b.text \o Select(f, TextEvents) = a.text \o Select(e \o f, TextEvents)
  <2>1. PICK x \in Seq(LineEvents), y \in Seq(LineEvents), z \in Seq(LineEvents) :
           x = a.text /\ y = Select(e, TextEvents) /\ z = Select(f, TextEvents)
    BY TextTyped DEF Summaries
  <2>2. (x \o y) \o z = x \o (y \o z)
    BY ConcatAssociative, SMTT(30)
  <2>3. Select(e \o f, TextEvents) = Select(e, TextEvents) \o Select(f, TextEvents)
    BY TextConcat
  <2> QED
    BY <1>2, <2>1, <2>2, <2>3
<1>5. UsageIn(f, b.usage) = UsageIn(e \o f, a.usage)
  BY <1>2, UsageTwice
<1>6. (b.isError \/ ErrorIn(f)) = (a.isError \/ ErrorIn(e \o f))
  <2>1. ErrorIn(e \o f) <=> ErrorIn(e) \/ ErrorIn(f)
    BY ErrorTwice
  <2> QED
    BY <1>3, <2>1, Zenon
<1>7. Accumulate(b, f) = [text |-> b.text \o Select(f, TextEvents),
                          usage |-> UsageIn(f, b.usage),
                          isError |-> b.isError \/ ErrorIn(f)]
  BY AccumulateIs
<1>8. Accumulate(a, e \o f) = [text |-> a.text \o Select(e \o f, TextEvents),
                               usage |-> UsageIn(e \o f, a.usage),
                               isError |-> a.isError \/ ErrorIn(e \o f)]
  BY AccumulateIs
<1> QED
  BY <1>1, <1>4, <1>5, <1>6, <1>7, <1>8, Zenon

Good(n) == script[n].type = "result" /\ ~script[n].bad
Bad(n) == script[n].type = "result" /\ script[n].bad

LEMMA LineCounts ==
  ASSUME script \in Seq(Lines), NEW n \in 1 .. Len(script)
  PROVE  /\ ErrorIn(MapLine(n)) <=> Bad(n)
         /\ \A u : UsageIn(MapLine(n), u) = IF Good(n) THEN n ELSE u
<1>1. PICK e \in Seq(LineEvents) : e = MapLine(n)
  BY MapLineIs
<1>2. CASE script[n].type = "result"
  <2>1. PICK v : v = TurnEvent(IF script[n].bad THEN "error" ELSE "result", n)
    OBVIOUS
  <2>2. e = <<v>>
    BY <1>1, <1>2, <2>1, MapLineIs
  <2>3. DOMAIN e = {1} /\ e[1] = v
    BY <2>2
  <2>4. CASE script[n].bad
    <3>1. v.kind = "error"
      BY <2>1, <2>4 DEF TurnEvent
    <3>2. Bad(n) /\ ~Good(n)
      BY <1>2, <2>4 DEF Bad, Good
    <3>3. ErrorIn(e)
      BY <2>3, <3>1 DEF ErrorIn
    <3>4. Oks(e) = {}
      BY <2>3, <3>1 DEF Oks
    <3> QED
      BY <1>1, <3>2, <3>3, <3>4 DEF UsageIn
  <2>5. CASE ~script[n].bad
    <3>1. v.kind = "result" /\ v.line = n
      BY <2>1, <2>5 DEF TurnEvent
    <3>2. ~Bad(n) /\ Good(n)
      BY <1>2, <2>5 DEF Bad, Good
    <3>3. ~ErrorIn(e)
      BY <2>3, <3>1 DEF ErrorIn
    <3>4. Oks(e) = {1}
      BY <2>3, <3>1 DEF Oks
    <3>5. Max({1}) = 1
      BY MaxIs
    <3>6. \A u : UsageIn(e, u) = n
      BY <2>3, <3>1, <3>4, <3>5 DEF UsageIn
    <3> QED
      BY <1>1, <3>2, <3>3, <3>6
  <2> QED
    BY <2>4, <2>5
<1>3. CASE script[n].type # "result"
  <2>1. \A i \in DOMAIN e : e[i].kind \in Blocks
    BY <1>1, <1>3, MapLineIs
  <2>2. \A i \in DOMAIN e : e[i].kind # "error" /\ e[i].kind # "result"
    BY <2>1 DEF Blocks
  <2>3. ~ErrorIn(e) /\ Oks(e) = {}
    BY <2>2 DEF ErrorIn, Oks
  <2>4. ~Bad(n) /\ ~Good(n)
    BY <1>3 DEF Bad, Good
  <2> QED
    BY <1>1, <2>3, <2>4 DEF UsageIn
<1> QED
  BY <1>2, <1>3

\* What w lines tell of errors and of usage.
Counted(w) ==
  /\ ErrorIn(Told(w)) <=> \E n \in 1 .. w : Bad(n)
  /\ UsageIn(Told(w), 0) \in Nat
  /\ \A n \in 1 .. w : Good(n) => n <= UsageIn(Told(w), 0)
  /\ UsageIn(Told(w), 0) # 0 => UsageIn(Told(w), 0) \in 1 .. w /\ Good(UsageIn(Told(w), 0))

LEMMA LinesCount ==
  ASSUME script \in Seq(Lines), NEW w \in 0 .. Len(script) PROVE Counted(w)
<1>1. PICK len \in Nat : len = Len(script)
  BY LenProperties
<1> DEFINE S == {k \in Nat : k <= len => Counted(k)}
<1>2. Counted(0)
  <2>1. Told(0) = <<>> /\ DOMAIN <<>> = {}
    BY ToldNone
  <2>2. Oks(Told(0)) = {} /\ ~ErrorIn(Told(0))
    BY <2>1 DEF Oks, ErrorIn
  <2>3. UsageIn(Told(0), 0) = 0
    BY <2>2 DEF UsageIn
  <2> QED
    BY <2>2, <2>3 DEF Counted
<1>3. ASSUME NEW k \in Nat, k + 1 <= len, Counted(k) PROVE Counted(k + 1)
  <2>1. k + 1 \in 1 .. Len(script) /\ k \in 0 .. Len(script) /\ k + 1 <= Len(script)
    BY <1>1, <1>3
  <2>2. PICK e \in Seq(LineEvents) : e = Told(k)
    BY <2>1, ToldTyped
  <2>3. PICK f \in Seq(LineEvents) : f = MapLine(k + 1)
    BY <2>1, MapLineIs
  <2>4. Told(k + 1) = e \o f
    BY <2>1, <2>2, <2>3, ToldNext
  <2>5. PICK u : u = UsageIn(e, 0)
    OBVIOUS
  <2>6. UsageIn(Told(k + 1), 0) = IF Good(k + 1) THEN k + 1 ELSE u
    <3>1. UsageIn(e \o f, 0) = UsageIn(f, u)
      BY <2>5, UsageTwice
    <3>2. UsageIn(f, u) = IF Good(k + 1) THEN k + 1 ELSE u
      BY <2>1, <2>3, LineCounts
    <3> QED
      BY <2>4, <3>1, <3>2
  <2>7. ErrorIn(Told(k + 1)) <=> ErrorIn(e) \/ Bad(k + 1)
    <3>1. ErrorIn(e \o f) <=> ErrorIn(e) \/ ErrorIn(f)
      BY ErrorTwice
    <3>2. ErrorIn(f) <=> Bad(k + 1)
      BY <2>1, <2>3, LineCounts
    <3> QED
      BY <2>4, <3>1, <3>2
  <2>8. /\ ErrorIn(e) <=> \E n \in 1 .. k : Bad(n)
        /\ u \in Nat /\ \A n \in 1 .. k : Good(n) => n <= u
        /\ u # 0 => u \in 1 .. k /\ Good(u)
    BY <1>3, <2>2, <2>5 DEF Counted
  <2>9. ErrorIn(Told(k + 1)) <=> \E n \in 1 .. k + 1 : Bad(n)
    <3>1. (\E n \in 1 .. k + 1 : Bad(n)) <=> (\E n \in 1 .. k : Bad(n)) \/ Bad(k + 1)
      <4>1. \A n : n \in 1 .. k + 1 <=> n \in 1 .. k \/ n = k + 1
        OBVIOUS
      <4> QED
        BY <4>1, Zenon
    <3> QED
      BY <2>7, <2>8, <3>1
  <2>10. PICK v : v = UsageIn(Told(k + 1), 0)
    OBVIOUS
  <2>11. v = IF Good(k + 1) THEN k + 1 ELSE u
    BY <2>6, <2>10
  <2>12. /\ v \in Nat /\ \A n \in 1 .. k + 1 : Good(n) => n <= v
         /\ v # 0 => v \in 1 .. k + 1 /\ Good(v)
    <3>1. CASE Good(k + 1)
      BY <2>11, <3>1
    <3>2. CASE ~Good(k + 1)
      <4>1. v = u
        BY <2>11, <3>2
      <4>2. \A n \in 1 .. k + 1 : Good(n) => n \in 1 .. k
        <5>1. \A n \in 1 .. k + 1 : n \in 1 .. k \/ n = k + 1
          OBVIOUS
        <5> QED
          BY <3>2, <5>1
      <4> QED
        BY <2>8, <4>1, <4>2
    <3> QED
      BY <3>1, <3>2
  <2> QED
    BY <2>9, <2>10, <2>12 DEF Counted
<1>4. \A n \in Nat : n \in S
  <2>1. S \in SUBSET Nat /\ 0 \in S
    BY <1>2
  <2>2. ASSUME NEW n \in S PROVE n + 1 \in S
    BY <1>3
  <2> HIDE DEF S
  <2> QED
    BY <2>1, <2>2, Induction
<1>5. w \in Nat /\ w <= len
  BY <1>1
<1> QED
  BY <1>4, <1>5

\* What the reader makes of w lines.
Summary(w) == Accumulate(NoneYet, Told(w))

LEMMA SummaryIs ==
  ASSUME script \in Seq(Lines), NEW w \in 0 .. Len(script)
  PROVE  /\ Summary(w) \in Summaries
         /\ Summary(w).text = Select(Told(w), TextEvents)
         /\ Summary(w).usage = UsageIn(Told(w), 0)
         /\ Summary(w).isError <=> \E n \in 1 .. w : Bad(n)
<1>1. PICK e \in Seq(LineEvents) : e = Told(w)
  BY ToldTyped
<1>2. NoneYet \in Summaries
  BY EmptySeq DEF NoneYet, Summaries
<1>3. Summary(w) \in Summaries
  BY <1>1, <1>2, AccumulateTyped DEF Summary
<1>4. Summary(w) = [text |-> <<>> \o Select(e, TextEvents), usage |-> UsageIn(e, 0),
                    isError |-> FALSE \/ ErrorIn(e)]
  BY <1>1, AccumulateIs DEF Summary, NoneYet
<1>5. <<>> \o Select(e, TextEvents) = Select(e, TextEvents)
  BY TextTyped, ConcatEmptySeq
<1>6. Summary(w).isError <=> ErrorIn(e)
  <2>1. Summary(w).isError = (FALSE \/ ErrorIn(e))
    BY <1>4
  <2> QED
    BY <2>1, Zenon
<1>7. ErrorIn(e) <=> \E n \in 1 .. w : Bad(n)
  BY <1>1, LinesCount DEF Counted
<1>8. Summary(w).text = Select(e, TextEvents) /\ Summary(w).usage = UsageIn(e, 0)
  BY <1>4, <1>5
<1> QED
  BY <1>1, <1>3, <1>6, <1>7, <1>8

-----------------------------------------------------------------------------
(* The invariant of a turn. *)

Opening == IF reader = "daemon" THEN <<TurnStart>> ELSE <<>>
Ends(s) == [i \in DOMAIN s |-> TurnEnd]
Ending == IF reader = "daemon" THEN Ends(settled) ELSE <<>>

Fails(a, c) == IF reader = "local" THEN LocalError(a, c) ELSE DaemonError(a, c)

\* What is accumulated when the child could not be spawned.
Unspawned == [text |-> <<>>, usage |-> 0, isError |-> TRUE]

TurnTyped ==
  /\ reader \in {"local", "daemon", "cli"}
  /\ script \in Seq(Lines)
  /\ read \in 0 .. 3 * Len(script)
  /\ child \in {"running", "failed", "closed", "reader died"}
  /\ code \in Codes

\* A flow's agent call has collected what was printed; what it resolves with is its end.
Said == {n \in DOMAIN script : 3 * n - 2 <= read /\ script[n].type # "blank"}

CliInv ==
  /\ child # "failed"
  /\ child = "running" => \E p \in Nat : p = read /\ buf = Text(0, p)
  /\ child = "closed" =>
       \A i \in DOMAIN settled : settled[i].how = "resolved" =>
         code = 0 /\ \E n \in Said : /\ \A m \in Said : m <= n
                                     /\ 3 * n - 1 <= read /\ ~script[n].bad

\* The other readers, at piece p, have handed on the events of the first w lines, hold
\* back what they have of the line after the d-th, and have accumulated what w lines say.
StreamAt(p, d, w) ==
  /\ p = read /\ d = p \div 3
  /\ w = IF child = "closed" THEN (p + 1) \div 3 ELSE d
  /\ buf = Text(d, p)
  /\ handed = (Opening \o Told(w)) \o Ending
  /\ child = "running" => acc = Summary(w)
  /\ child = "failed" =>
       /\ read = 0 /\ acc = Unspawned
       /\ settled = <<Result(IF reader = "daemon" THEN "resolved" ELSE "rejected", Unspawned)>>
  /\ child = "closed" =>
       /\ acc = [text |-> Summary(w).text, usage |-> Summary(w).usage,
                 isError |-> Fails(Summary(w), code)]
       /\ \E r : /\ settled = <<r>> \/ (reader = "daemon" /\ settled = <<r, r>>)
                 /\ reader = "daemon" \/ r.how = "resolved" => r = Result("resolved", acc)

StreamInv == \E p, d, w \in Nat : StreamAt(p, d, w)

TurnInv ==
  /\ TurnTyped
  /\ child \in {"running", "reader died"} => settled = <<>>
  /\ reader = "cli" => CliInv
  /\ reader # "cli" /\ Alive => StreamInv

LEMMA PiecesFramed ==
  ASSUME script' = script, NEW a, NEW b
  PROVE  Text(a, b)' = Text(a, b) /\ Told(a)' = Told(a) /\ Summary(a)' = Summary(a)
<1>1. Text(a, b)' = Text(a, b)
  BY DEF Text, Output
<1>2. Told(a)' = Told(a)
  BY DEF Told, MapLine
<1>3. Summary(a)' = Summary(a)
  BY <1>2 DEF Summary
<1> QED
  BY <1>1, <1>2, <1>3

LEMMA TextGrows ==
  ASSUME script \in Seq(Lines), NEW a \in Nat, NEW b \in Nat, NEW c \in Nat,
         3 * a <= b, b <= c, c <= 3 * Len(script)
  PROVE  Text(a, b) \o SubSeq(Output, b + 1, c) = Text(a, c)
<1>1. PICK len \in Nat : len = Len(script)
  BY LenProperties
<1>2. Output \in Seq(Pieces) /\ Len(Output) = 3 * len
  BY <1>1, OutputIs
<1>3. PICK m : m = 3 * a + 1
  OBVIOUS
<1>4. m \in 1 .. Len(Output) + 1 /\ b \in m - 1 .. Len(Output) /\ c \in b .. Len(Output)
  BY <1>1, <1>2, <1>3
<1>5. SubSeq(Output, m, b) \o SubSeq(Output, b + 1, c) = SubSeq(Output, m, c)
  BY <1>2, <1>4, ConcatAdjacentSubSeq
<1> QED
  BY <1>3, <1>5 DEF Text

MappedAll(lines) == FlattenSeq([i \in DOMAIN lines |-> Mapped(lines[i])])

\* The lines completed by a chunk are mapped one by one.
LEMMA ChunkIs ==
  ASSUME script \in Seq(Lines), NEW a \in Nat, NEW b \in Nat, 3 * a <= b, b <= 3 * Len(script)
  PROVE  /\ MappedAll(CompleteLines(Text(a, b))) \in Seq(LineEvents)
         /\ Told(a) \o MappedAll(CompleteLines(Text(a, b))) = Told(b \div 3)
<1> DEFINE lines == CompleteLines(Text(a, b))
           events == MappedAll(lines)
<1>1. PICK len \in Nat : len = Len(script)
  BY LenProperties
<1>2. PICK m \in Nat : m = (b \div 3) - a
  OBVIOUS
<1>3. lines = [j \in 1 .. m |-> LineText(a + j)]
  BY <1>2, CompleteIs
<1>4. a + m <= len /\ a + m = b \div 3
  BY <1>1, <1>2
<1>5. ASSUME NEW j \in 1 .. m PROVE Mapped(LineText(a + j)) = MapLine(a + j)
  <2>1. PICK c \in Nat : c = a + j - 1
    OBVIOUS
  <2>2. PICK e \in Nat : e = 3 * c + 2
    OBVIOUS
  <2>3. 3 * c <= e /\ e <= 3 * Len(script)
    BY <1>1, <1>4, <2>1, <2>2
  <2>4. Mapped(Text(c, e)) = MapLine(c + 1)
    BY <2>2, <2>3, MappedIs
  <2>5. c + 1 = a + j
    BY <2>1
  <2> QED
    BY <2>1, <2>2, <2>4, <2>5 DEF LineText
<1>6. [i \in DOMAIN lines |-> Mapped(lines[i])] = [j \in 1 .. m |-> MapLine(a + j)]
  <2>1. DOMAIN lines = 1 .. m /\ \A i \in 1 .. m : lines[i] = LineText(a + i)
    BY <1>3
  <2> QED
    BY <1>5, <2>1
<1>7. events = FlattenSeq([j \in 1 .. m |-> MapLine(a + j)])
  BY <1>6 DEF MappedAll
<1> HIDE DEF events
<1>8. a + m <= Len(script)
  BY <1>1, <1>4
<1>9. Told(a) \o events = Told(a + m)
  BY <1>7, <1>8, ToldIs
<1>10. events \in Seq(LineEvents)
  <2>1. PICK s : s = [j \in 1 .. m |-> MapLine(a + j)]
    OBVIOUS
  <2>2. s \in Seq(Seq(LineEvents))
    BY <1>8, <2>1, LinesTold
  <2> QED
    BY <1>7, <2>1, <2>2, FlattenTyped
<1> QED
  BY <1>4, <1>9, <1>10 DEF events

\* What is flushed when the child closes is its last line, if only the newline is missing.
LEMMA FlushIs ==
  ASSUME script \in Seq(Lines), NEW p \in 0 .. 3 * Len(script), NEW d \in Nat, d = p \div 3
  PROVE  /\ Mapped(Text(d, p)) \in Seq(LineEvents)
         /\ Told(d) \o Mapped(Text(d, p)) = Told((p + 1) \div 3)
<1>1. PICK len \in Nat : len = Len(script)
  BY LenProperties
<1>2. 3 * d <= p /\ p <= 3 * d + 2 /\ p \in Nat /\ d <= len
  BY <1>1
<1>3. Mapped(Text(d, p)) = IF p = 3 * d + 2 THEN MapLine(d + 1) ELSE <<>>
  BY <1>2, MappedIs
<1>4. CASE p = 3 * d + 2
  <2>1. d + 1 \in 1 .. Len(script) /\ d + 1 <= Len(script) /\ (p + 1) \div 3 = d + 1
    BY <1>1, <1>4
  <2> QED
    BY <1>3, <1>4, <2>1, MapLineIs, ToldNext
<1>5. CASE p # 3 * d + 2
  <2>1. (p + 1) \div 3 = d /\ d \in 0 .. Len(script)
    BY <1>1, <1>2, <1>5
  <2>2. Told(d) \in Seq(LineEvents)
    BY <2>1, ToldTyped
  <2> QED
    BY <1>3, <1>5, <2>1, <2>2, EmptySeq, ConcatEmptySeq
<1> QED
  BY <1>4, <1>5

LEMMA SummaryGrows ==
  ASSUME script \in Seq(Lines), NEW w \in 0 .. Len(script), NEW v, NEW e \in Seq(LineEvents),
         Told(w) \o e = Told(v)
  PROVE  Accumulate(Summary(w), e) = Summary(v)
<1>1. NoneYet \in Summaries
  BY EmptySeq DEF NoneYet, Summaries
<1>2. PICK f \in Seq(LineEvents) : f = Told(w)
  BY ToldTyped
<1>3. Accumulate(Accumulate(NoneYet, f), e) = Accumulate(NoneYet, f \o e)
  BY <1>1, AccumulateTwice
<1> QED
  BY <1>2, <1>3 DEF Summary

-----------------------------------------------------------------------------
(* What is handed on. *)

LEMMA EndsTyped ==
  /\ Opening \in Seq(AnyEvents)
  /\ TurnEnd \in AnyEvents /\ LineEvents \subseteq AnyEvents
<1>1. TurnStart \in AnyEvents /\ TurnEnd \in AnyEvents /\ LineEvents \subseteq AnyEvents
  BY DEF AnyEvents
<1>2. <<>> \in Seq(AnyEvents) /\ <<TurnStart>> \in Seq(AnyEvents)
  BY <1>1, EmptySeq, SingleSeq
<1> QED
  BY <1>1, <1>2 DEF Opening

LEMMA TwiceIs == ASSUME NEW e PROVE <<e>> \o <<e>> = <<e, e>> /\ Append(<<e>>, e) = <<e, e>>
<1>1. PICK s, t : s = <<e>> /\ t = <<e, e>>
  OBVIOUS
<1>2. /\ s \in Seq({e}) /\ Len(s) = 1 /\ s[1] = e
      /\ t \in Seq({e}) /\ Len(t) = 2 /\ t[1] = e /\ t[2] = e
  BY <1>1
<1>3. /\ s \o s \in Seq({e}) /\ Len(s \o s) = Len(s) + Len(s)
      /\ \A i \in 1 .. Len(s) + Len(s) : (s \o s)[i] = IF i <= Len(s) THEN s[i] ELSE s[i - Len(s)]
  BY <1>2, ConcatProperties
<1>4. PICK u : u = s \o s
  OBVIOUS
<1>5. Len(u) = 2 /\ \A i \in 1 .. 2 : u[i] = t[i]
  <2>1. \A i \in 1 .. 2 : i = 1 \/ i = 2
    OBVIOUS
  <2>2. u[1] = s[1] /\ u[2] = s[1]
    BY <1>2, <1>3, <1>4
  <2> QED
    BY <1>2, <1>3, <1>4, <2>1, <2>2
<1>6. u = t
  BY <1>2, <1>3, <1>4, <1>5, SeqEqual
<1>7. Append(s, e) = s \o <<e>>
  BY <1>2, AppendIsConcat
<1> QED
  BY <1>1, <1>4, <1>6, <1>7

LEMMA EndsIs ==
  /\ Ends(<<>>) = <<>>
  /\ \A x : Ends(<<x>>) = <<TurnEnd>>
  /\ \A x, y : Ends(<<x, y>>) = <<TurnEnd, TurnEnd>>
<1>1. PICK e : e = TurnEnd
  OBVIOUS
<1>2. [i \in DOMAIN <<>> |-> e] = <<>>
  <2>1. [i \in DOMAIN <<>> |-> e] \in [1 .. 0 -> {e}]
    OBVIOUS
  <2>2. [i \in DOMAIN <<>> |-> e] \in Seq({e}) /\ Len([i \in DOMAIN <<>> |-> e]) = 0
    BY <2>1, FunSeq
  <2> QED
    BY <2>2, EmptySeq
<1>3. ASSUME NEW x PROVE [i \in DOMAIN <<x>> |-> e] = <<e>>
  OBVIOUS
<1>4. ASSUME NEW x, NEW y PROVE [i \in DOMAIN <<x, y>> |-> e] = <<e, e>>
  OBVIOUS
<1> QED
  BY <1>1, <1>2, <1>3, <1>4 DEF Ends

LEMMA NoEnding == ASSUME settled = <<>> PROVE Ending = <<>>
BY EndsIs DEF Ending

LEMMA AnyConcat ==
  ASSUME NEW o \in Seq(AnyEvents), NEW t \in Seq(LineEvents) PROVE o \o t \in Seq(AnyEvents)
<1>1. t \in Seq(AnyEvents)
  BY EndsTyped, SeqMonotonic
<1> QED
  BY <1>1, ConcatProperties

LEMMA HandedOn ==
  ASSUME NEW o \in Seq(AnyEvents), NEW t \in Seq(LineEvents), NEW e \in Seq(LineEvents)
  PROVE  ((o \o t) \o <<>>) \o e = (o \o (t \o e)) \o <<>>
<1>1. PICK a \in Seq(AnyEvents), b \in Seq(AnyEvents) : a = t /\ b = e
  BY EndsTyped, SeqMonotonic
<1>2. o \o a \in Seq(AnyEvents) /\ a \o b \in Seq(AnyEvents)
  BY ConcatProperties
<1>3. o \o (a \o b) \in Seq(AnyEvents)
  BY <1>2, ConcatProperties
<1>4. (o \o a) \o <<>> = o \o a
  BY <1>2, ConcatEmptySeq
<1>5. (o \o (a \o b)) \o <<>> = o \o (a \o b)
  BY <1>3, ConcatEmptySeq
<1>6. (o \o a) \o b = o \o (a \o b)
  BY ConcatAssociative, SMTT(30)
<1> QED
  BY <1>1, <1>4, <1>5, <1>6

-----------------------------------------------------------------------------
(* The invariant holds in every step of a turn. *)

LEMMA NoSummary == Summary(0) = NoneYet
<1>1. Oks(<<>>) = {} /\ ErrorIn(<<>>) = FALSE
  BY DEF Oks, ErrorIn
<1>2. Select(<<>>, TextEvents) = <<>>
  <2>1. <<>> \in Seq({}) /\ {} \cap TextEvents = {}
    BY EmptySeq
  <2> QED
    BY <2>1, SelectNone
<1>3. <<>> \o <<>> = <<>>
  BY EmptySeq, ConcatEmptySeq
<1>4. Accumulate(NoneYet, <<>>) = [text |-> <<>> \o <<>>, usage |-> 0, isError |-> FALSE \/ FALSE]
  BY <1>1, <1>2, AccumulateIs DEF NoneYet, UsageIn
<1>5. (FALSE \/ FALSE) = FALSE
  OBVIOUS
<1>6. Accumulate(NoneYet, <<>>) = NoneYet
  BY <1>3, <1>4, <1>5 DEF NoneYet
<1> QED
  BY <1>6, ToldNone DEF Summary

LEMMA TurnBegins == TurnInit => TurnInv
<1> SUFFICES ASSUME TurnInit PROVE TurnInv
  OBVIOUS
<1>1. script \in Seq(Lines)
  <2>1. PICK n \in 0 .. MaxLines : script \in [1 .. n -> Lines]
    BY DEF TurnInit
  <2>2. n \in Nat
    BY TurnAssumption
  <2> QED
    BY <2>1, <2>2, FunSeq
<1>2. PICK len \in Nat : len = Len(script)
  BY <1>1, LenProperties
<1>3. TurnTyped
  BY <1>1, <1>2 DEF TurnInit, TurnTyped, Codes
<1>4. Text(0, 0) = <<>>
  <2>1. 3 * 0 <= 0 /\ 0 <= 3 * Len(script) /\ 0 = 3 * 0
    BY <1>2
  <2> QED
    BY <1>1, <2>1, LineIs
<1>5. buf = <<>> /\ read = 0 /\ settled = <<>> /\ child = "running"
  BY DEF TurnInit
<1>6. CliInv
  <2>1. \E p \in Nat : p = read /\ buf = Text(0, p)
    BY <1>4, <1>5
  <2> QED
    BY <1>5, <2>1 DEF CliInv
<1>7. handed = Opening
  BY DEF TurnInit, Opening
<1>8. (Opening \o Told(0)) \o Ending = Opening
  BY <1>5, NoEnding, ToldNone, EndsTyped, ConcatEmptySeq
<1>9. acc = Summary(0)
  BY NoSummary DEF TurnInit
<1>10. StreamAt(0, 0, 0)
  <2>1. 0 \div 3 = 0
    OBVIOUS
  <2> QED
    BY <1>4, <1>5, <1>7, <1>8, <1>9, <2>1 DEF StreamAt
<1>11. StreamInv
  BY <1>10 DEF StreamInv
<1> QED
  BY <1>3, <1>5, <1>6, <1>11 DEF TurnInv

LEMMA DeadIsSound == ASSUME TurnInv, ReaderDies, settled = <<>> PROVE TurnInv'
<1>1. child' = "reader died" /\ settled' = settled
  BY DEF ReaderDies
<1>2. TurnTyped'
  BY DEF TurnInv, TurnTyped, ReaderDies
<1>3. CliInv'
  BY <1>1 DEF CliInv
<1>4. ~Alive'
  BY <1>1 DEF Alive
<1> QED
  BY <1>1, <1>2, <1>3, <1>4 DEF TurnInv

LEMMA DataStep == ASSUME TurnInv, NEW k \in Nat, Data(k) PROVE TurnInv'
<1>1. /\ child = "running" /\ settled = <<>> /\ script \in Seq(Lines)
      /\ reader \in {"local", "daemon", "cli"} /\ code \in Codes
  BY DEF Data, TurnInv, TurnTyped
<1>2. PICK len \in Nat : len = Len(script)
  BY <1>1, LenProperties
<1>3. PICK p \in Nat : p = read /\ p <= 3 * len
  <2>1. read \in 0 .. 3 * Len(script)
    BY DEF TurnInv, TurnTyped
  <2> QED
    BY <1>2, <2>1
<1>4. PICK q \in Nat : q = p + k
  OBVIOUS
<1>5. PICK text : text = buf \o SubSeq(Output, p + 1, q)
  OBVIOUS
<1>6. q <= 3 * len
  <2>1. Len(Output) = 3 * len
    BY <1>1, <1>2, OutputIs
  <2> QED
    BY <1>3, <1>4, <2>1 DEF Data
<1>7. CASE ReaderDies
  BY <1>1, <1>7, DeadIsSound
<1>8. CASE ~ReaderDies
  <2> DEFINE lines == IF reader = "cli" THEN <<>> ELSE CompleteLines(text)
             events == FlattenSeq([i \in DOMAIN lines |-> Mapped(lines[i])])
  <2>1. /\ read' = q
        /\ buf' = IF reader = "cli" THEN text ELSE Remainder(text)
        /\ acc' = Accumulate(acc, events)
        /\ handed' = handed \o events
        /\ UNCHANGED <<reader, script, child, code, settled>>
    BY <1>3, <1>4, <1>5, <1>8 DEF Data
  <2>2. TurnTyped'
    BY <1>1, <1>2, <1>6, <2>1 DEF TurnTyped
  <2> HIDE DEF events, lines
  <2>3. CASE reader = "cli"
    <3>1. buf = Text(0, p)
      BY <1>1, <1>3, <2>3 DEF TurnInv, CliInv
    <3>2. text = Text(0, q)
      <4>1. 3 * 0 <= p /\ p <= q /\ q <= 3 * Len(script)
        BY <1>2, <1>4, <1>6
      <4> QED
        BY <1>1, <1>5, <3>1, <4>1, TextGrows
    <3>3. buf' = Text(0, q)'
      BY <2>1, <2>3, <3>2, PiecesFramed
    <3>4. CliInv'
      BY <1>1, <2>1, <3>3 DEF CliInv
    <3> QED
      BY <1>1, <2>1, <2>2, <2>3, <3>4 DEF TurnInv
  <2>4. CASE reader # "cli"
    <3>1. PICK d \in Nat : /\ d = p \div 3 /\ buf = Text(d, p) /\ acc = Summary(d)
                           /\ handed = (Opening \o Told(d)) \o Ending
      <4>1. StreamInv
        BY <1>1, <2>4 DEF TurnInv, Alive
      <4>2. PICK r, d, w \in Nat : StreamAt(r, d, w)
        BY <4>1 DEF StreamInv
      <4>3. r = p /\ d = p \div 3 /\ w = d
        BY <1>1, <1>3, <4>2 DEF StreamAt
      <4> QED
        BY <1>1, <4>2, <4>3 DEF StreamAt
    <3>2. 3 * d <= p /\ d \in 0 .. Len(script) /\ 3 * d <= q /\ p <= q /\ q <= 3 * Len(script)
      BY <1>2, <1>3, <1>4, <1>6, <3>1
    <3>3. text = Text(d, q)
      BY <1>1, <1>5, <3>1, <3>2, TextGrows
    <3>4. PICK v \in Nat : v = q \div 3
      BY Thirds
    <3>5. buf' = Text(v, q)
      <4>1. Remainder(Text(d, q)) = Text(v, q)
        BY <1>1, <3>2, <3>4, RemainderIs
      <4> QED
        BY <2>1, <2>4, <3>3, <4>1
    <3>6. events \in Seq(LineEvents) /\ Told(d) \o events = Told(v)
      <4>1. lines = CompleteLines(Text(d, q))
        BY <2>4, <3>3 DEF lines
      <4>2. events = MappedAll(lines)
        BY DEF events, MappedAll
      <4> QED
        BY <1>1, <3>2, <3>4, <4>1, <4>2, ChunkIs
    <3>7. acc' = Summary(v)
      BY <1>1, <2>1, <3>1, <3>2, <3>6, SummaryGrows
    <3>8. handed' = (Opening \o Told(v)) \o <<>>
      <4>1. Told(d) \in Seq(LineEvents)
        BY <1>1, <3>2, ToldTyped
      <4>2. ((Opening \o Told(d)) \o <<>>) \o events = (Opening \o (Told(d) \o events)) \o <<>>
        BY <3>6, <4>1, EndsTyped, HandedOn
      <4>3. Ending = <<>>
        BY <1>1, NoEnding
      <4> QED
        BY <2>1, <3>1, <3>6, <4>2, <4>3
    <3>9. Opening' = Opening /\ Ending' = <<>>
      <4>1. Ending = <<>> /\ Ending' = Ending
        BY <1>1, <2>1, NoEnding DEF Ending
      <4> QED
        BY <2>1, <4>1 DEF Opening
    <3>10. StreamAt(q, v, v)'
      <4>1. Text(v, q)' = Text(v, q) /\ Told(v)' = Told(v) /\ Summary(v)' = Summary(v)
        BY <2>1, PiecesFramed
      <4> QED
        BY <1>1, <2>1, <3>4, <3>5, <3>7, <3>8, <3>9, <4>1 DEF StreamAt
    <3>11. StreamInv'
      BY <3>4, <3>10 DEF StreamInv
    <3> QED
      BY <1>1, <2>1, <2>2, <2>4, <3>11 DEF TurnInv
  <2> QED
    BY <2>3, <2>4
<1> QED
  BY <1>7, <1>8

LEMMA SpawnStep == ASSUME TurnInv, SpawnError PROVE TurnInv'
<1>1. /\ child = "running" /\ settled = <<>> /\ script \in Seq(Lines) /\ read = 0
      /\ reader \in {"local", "daemon", "cli"}
  BY DEF SpawnError, TurnInv, TurnTyped
<1>2. CASE reader = "cli"
  <2>1. ReaderDies
    BY <1>2 DEF SpawnError
  <2> QED
    BY <1>1, <2>1, DeadIsSound
<1>3. CASE reader # "cli"
  <2>1. /\ child' = "failed"
        /\ handed' = IF reader = "daemon" THEN Append(handed, TurnEnd) ELSE handed
        /\ acc' = [acc EXCEPT !.isError = TRUE]
        /\ settled' = <<Result(IF reader = "daemon" THEN "resolved" ELSE "rejected", acc')>>
        /\ UNCHANGED <<reader, script, read, buf, mangled, code>>
    BY <1>3 DEF SpawnError
  <2>2. buf = Text(0, 0) /\ acc = Summary(0) /\ handed = (Opening \o Told(0)) \o Ending
    <3>1. StreamInv
      BY <1>1, <1>3 DEF TurnInv, Alive
    <3>2. PICK r, d, w \in Nat : StreamAt(r, d, w)
      BY <3>1 DEF StreamInv
    <3>3. r = 0 /\ d = 0 /\ w = 0
      BY <1>1, <3>2 DEF StreamAt
    <3> QED
      BY <1>1, <3>2, <3>3 DEF StreamAt
  <2>3. acc' = Unspawned
    <3>1. Summary(0) = NoneYet
      BY NoSummary
    <3>2. acc = [text |-> <<>>, usage |-> 0, isError |-> FALSE]
      BY <2>2, <3>1 DEF NoneYet
    <3> QED
      BY <2>1, <3>2 DEF Unspawned
  <2>4. settled' = <<Result(IF reader = "daemon" THEN "resolved" ELSE "rejected", Unspawned)>>
    BY <2>1, <2>3
  <2>5. handed = Opening /\ Ending = <<>>
    <3>1. Ending = <<>>
      BY <1>1, NoEnding
    <3>2. Opening \o <<>> = Opening
      BY EndsTyped, ConcatEmptySeq
    <3> QED
      BY <2>2, <3>1, <3>2, ToldNone
  <2>6. handed' = (Opening \o Told(0)) \o Ending'
    <3>1. Opening \o Told(0) = Opening
      BY EndsTyped, ConcatEmptySeq, ToldNone
    <3>2. CASE reader = "daemon"
      <4>1. Ending' = <<TurnEnd>>
        BY <2>1, <2>4, <3>2, EndsIs DEF Ending
      <4>2. handed' = Append(Opening, TurnEnd)
        BY <2>1, <2>5, <3>2
      <4>3. Append(Opening, TurnEnd) = Opening \o <<TurnEnd>>
        BY EndsTyped, AppendIsConcat
      <4> QED
        BY <3>1, <4>1, <4>2, <4>3
    <3>3. CASE reader # "daemon"
      <4>1. Ending' = <<>> /\ handed' = Opening
        BY <2>1, <2>5, <3>3 DEF Ending
      <4>2. Opening \o <<>> = Opening
        BY EndsTyped, ConcatEmptySeq
      <4> QED
        BY <3>1, <4>1, <4>2
    <3> QED
      BY <3>2, <3>3
  <2>7. StreamAt(0, 0, 0)'
    <3>1. Text(0, 0)' = Text(0, 0) /\ Told(0)' = Told(0)
      BY <2>1, PiecesFramed
    <3>2. Opening' = Opening
      BY <2>1 DEF Opening
    <3>3. 0 \div 3 = 0 /\ read' = 0 /\ buf' = buf /\ child' = "failed" /\ reader' = reader
      BY <1>1, <2>1
    <3>4. Unspawned' = Unspawned
      BY DEF Unspawned
    <3>5. settled' = <<Result(IF reader' = "daemon" THEN "resolved" ELSE "rejected", Unspawned)>>
      BY <2>4, <3>3
    <3> QED
      BY <2>2, <2>3, <2>6, <3>1, <3>2, <3>3, <3>4, <3>5 DEF StreamAt
  <2>8. StreamInv'
    BY <2>7 DEF StreamInv
  <2>9. TurnTyped'
    BY <2>1 DEF TurnInv, TurnTyped
  <2> QED
    BY <1>3, <2>1, <2>8, <2>9 DEF TurnInv
<1> QED
  BY <1>2, <1>3

\* The last of some texts that is neither empty nor of a blank line.
LastOf(all) ==
  LET full == {i \in DOMAIN all : all[i] # <<>> /\ script[all[i][1].line].type # "blank"}
  IN  IF full = {} THEN <<>> ELSE all[Max(full)]

\* The last line that is not blank, if it is a whole line, is what was said last.
LEMMA LastLineIs ==
  ASSUME script \in Seq(Lines), NEW p \in 0 .. 3 * Len(script), p = read, buf = Text(0, p),
         IsLine(LastLine)
  PROVE  \E n \in Said : /\ LastLine[1].line = n /\ \A m \in Said : m <= n
                         /\ 3 * n - 1 <= read
<1>1. PICK len \in Nat : len = Len(script) /\ DOMAIN script = 1 .. len
  BY LenProperties
<1>2. PICK m \in Nat : m = p \div 3
  BY Thirds
<1>3. p \in Nat /\ p <= 3 * len /\ 3 * m <= p /\ p <= 3 * m + 2 /\ m <= len
  BY <1>1, <1>2
<1>4. PICK lines : lines = CompleteLines(buf)
  OBVIOUS
<1>5. lines = [j \in 1 .. m |-> LineText(j)] /\ Remainder(buf) = Text(m, p)
  <2>1. 3 * 0 <= p /\ p <= 3 * Len(script)
    BY <1>1, <1>3
  <2>2. CompleteLines(Text(0, p)) = [j \in 1 .. (p \div 3) - 0 |-> LineText(0 + j)]
    BY <2>1, CompleteIs
  <2>3. (p \div 3) - 0 = m
    BY <1>2
  <2>4. [j \in 1 .. (p \div 3) - 0 |-> LineText(0 + j)] = [j \in 1 .. m |-> LineText(j)]
    BY <2>3
  <2>5. Remainder(Text(0, p)) = Text(m, p)
    BY <1>2, <2>1, RemainderIs
  <2> QED
    BY <1>4, <2>2, <2>4, <2>5
<1>6. ASSUME NEW c \in 0 .. m PROVE Text(c, IF c < m THEN 3 * c + 2 ELSE p) \in Seq(Pieces)
  <2>1. PICK e \in Nat : e = IF c < m THEN 3 * c + 2 ELSE p
    BY <1>3
  <2>2. 3 * c <= e /\ e <= 3 * Len(script) /\ c \in Nat
    BY <1>1, <1>3, <2>1
  <2> QED
    BY <2>1, <2>2, TextIs
<1>7. /\ lines \in Seq(Seq(Pieces)) /\ Len(lines) = m
      /\ \A j \in 1 .. m : lines[j] = Text(j - 1, 3 * (j - 1) + 2)
  <2>1. \A j \in 1 .. m : lines[j] = Text(j - 1, 3 * (j - 1) + 2)
    BY <1>5 DEF LineText
  <2>2. \A j \in 1 .. m : j - 1 \in 0 .. m /\ j - 1 < m
    OBVIOUS
  <2>3. \A j \in 1 .. m : lines[j] \in Seq(Pieces)
    BY <1>6, <2>1, <2>2
  <2>4. lines \in [1 .. m -> Seq(Pieces)]
    BY <1>5, <2>3
  <2> QED
    BY <2>1, <2>4, FunSeq
<1>8. PICK rest \in Seq(Pieces) : rest = Text(m, p)
  <2>1. m \in 0 .. m /\ ~(m < m)
    OBVIOUS
  <2> QED
    BY <1>6, <2>1
<1>9. PICK all : all = Append(lines, rest)
  OBVIOUS
<1>10. DOMAIN all = 1 .. m + 1 /\ (\A j \in 1 .. m : all[j] = lines[j]) /\ all[m + 1] = rest
  <2>1. PICK P : P = Seq(Pieces)
    OBVIOUS
  <2>2. lines \in Seq(P) /\ rest \in P
    BY <1>7, <2>1
  <2>3. /\ Append(lines, rest) \in Seq(P) /\ Len(Append(lines, rest)) = Len(lines) + 1
        /\ \A j \in 1 .. Len(lines) + 1 :
             Append(lines, rest)[j] = IF j <= Len(lines) THEN lines[j] ELSE rest
    BY <2>2, AppendProperties
  <2>4. \A j \in 1 .. m : j \in 1 .. m + 1 /\ j <= m
    OBVIOUS
  <2>5. m + 1 \in 1 .. m + 1 /\ ~(m + 1 <= m)
    OBVIOUS
  <2>6. DOMAIN all = 1 .. Len(all) /\ Len(all) = m + 1
    BY <1>7, <1>9, <2>3, LenProperties
  <2> QED
    BY <1>7, <1>9, <2>3, <2>4, <2>5, <2>6
<1>11. ASSUME NEW i \in 1 .. m + 1
       PROVE  /\ all[i] # <<>> <=> 3 * i - 2 <= p
              /\ all[i] # <<>> => all[i][1].line = i
              /\ IsLine(all[i]) => 3 * i - 1 <= p
  <2>1. PICK c \in Nat : c = i - 1
    OBVIOUS
  <2>2. PICK e \in Nat : e = IF i <= m THEN 3 * c + 2 ELSE p
    BY <1>3
  <2>3. 3 * c <= e /\ e <= 3 * Len(script)
    BY <1>1, <1>3, <2>1, <2>2
  <2>4. all[i] = Text(c, e)
    <3>1. CASE i <= m
      <4>1. i \in 1 .. m
        BY <3>1
      <4> QED
        BY <1>7, <1>10, <2>1, <2>2, <3>1, <4>1
    <3>2. CASE ~(i <= m)
      <4>1. i = m + 1 /\ c = m
        BY <2>1, <3>2
      <4> QED
        BY <1>8, <1>10, <2>2, <3>2, <4>1
    <3> QED
      BY <3>1, <3>2
  <2>5. /\ IsLine(Text(c, e)) <=> e = 3 * c + 2
        /\ Text(c, e) = <<>> <=> e = 3 * c
        /\ e # 3 * c => Text(c, e)[1].line = c + 1
    BY <2>3, LineIs
  <2>6. (e # 3 * c <=> 3 * i - 2 <= p) /\ c + 1 = i /\ (e = 3 * c + 2 => 3 * i - 1 <= p)
    BY <1>3, <2>1, <2>2
  <2> QED
    BY <2>4, <2>5, <2>6
<1> DEFINE full == {i \in DOMAIN all : all[i] # <<>> /\ script[all[i][1].line].type # "blank"}
<1>12. full = Said
  <2>1. ASSUME NEW i \in full PROVE i \in Said
    <3>1. i \in 1 .. m + 1 /\ all[i] # <<>> /\ script[all[i][1].line].type # "blank"
      BY <1>10
    <3>2. 3 * i - 2 <= p /\ all[i][1].line = i
      BY <1>11, <3>1
    <3>3. i \in 1 .. len
      BY <1>3, <3>1, <3>2
    <3> QED
      BY <1>1, <3>1, <3>2, <3>3 DEF Said
  <2>2. ASSUME NEW i \in Said PROVE i \in full
    <3>1. i \in 1 .. len /\ 3 * i - 2 <= p /\ script[i].type # "blank"
      BY <1>1 DEF Said
    <3>2. i \in 1 .. m + 1
      BY <1>3, <3>1
    <3>3. all[i] # <<>> /\ all[i][1].line = i
      BY <1>11, <3>1, <3>2
    <3> QED
      BY <1>10, <3>1, <3>2, <3>3
  <2> QED
    BY <2>1, <2>2
<1>13. LastLine = IF full = {} THEN <<>> ELSE all[Max(full)]
  <2>1. LastLine = LastOf(Append(CompleteLines(buf), Remainder(buf)))
    BY DEF LastLine, LastOf
  <2>2. Append(CompleteLines(buf), Remainder(buf)) = all
    BY <1>4, <1>5, <1>8, <1>9
  <2>3. LastOf(all) = IF full = {} THEN <<>> ELSE all[Max(full)]
    BY DEF LastOf
  <2> QED
    BY <2>1, <2>2, <2>3
<1> HIDE DEF full
<1>14. full # {}
  <2>1. ~IsLine(<<>>)
    BY EmptySeq DEF IsLine
  <2> QED
    BY <1>13, <2>1
<1>15. Max(full) \in full /\ \A y \in full : y <= Max(full)
  <2>1. full \in SUBSET Nat /\ \A y \in full : y <= len
    BY <1>1, <1>12 DEF Said
  <2> QED
    BY <1>14, <2>1, MaxExists
<1>16. PICK n : n = Max(full)
  OBVIOUS
<1>17. n \in Said /\ (\A y \in Said : y <= n) /\ LastLine = all[n]
  BY <1>12, <1>13, <1>14, <1>15, <1>16
<1>18. n \in 1 .. m + 1 /\ 3 * n - 2 <= p
  BY <1>1, <1>3, <1>17 DEF Said
<1>19. all[n][1].line = n /\ 3 * n - 1 <= p
  BY <1>11, <1>17, <1>18
<1> QED
  BY <1>17, <1>19

LEMMA CloseCli == ASSUME TurnInv, NEW c \in Codes, Close(c), reader = "cli" PROVE TurnInv'
<1>1. CliInv /\ TurnTyped
  BY DEF TurnInv
<1>2. child = "running" /\ CliClose(c)
  BY <1>1 DEF Close, CliInv
<1>3. settled = <<>>
  BY <1>2 DEF TurnInv
<1>4. PICK last : last = LastLine
  OBVIOUS
<1>5. CASE c = 0 /\ Throws(last)
  <2>1. ReaderDies
    BY <1>2, <1>4, <1>5 DEF CliClose
  <2> QED
    BY <1>3, <2>1, DeadIsSound
<1>6. CASE ~(c = 0 /\ Throws(last))
  <2>1. /\ settled' =
             IF c = 0 /\ (IsLine(last) /\ script[last[1].line].type # "garbage")
                  /\ ~script[last[1].line].bad
             THEN <<Result("resolved", [acc EXCEPT !.text = MapLine(last[1].line)])>>
             ELSE <<Result("rejected", [acc EXCEPT !.isError = TRUE])>>
        /\ child' = "closed"
        /\ code' = c
        /\ UNCHANGED <<reader, script, read, buf, mangled, acc, handed>>
    BY <1>2, <1>4, <1>6 DEF CliClose
  <2>2. TurnTyped'
    BY <1>1, <2>1 DEF TurnTyped
  <2>3. Said' = Said
    BY <2>1 DEF Said
  <2>4. ASSUME NEW i \in DOMAIN settled', settled'[i].how = "resolved"
        PROVE  c = 0 /\ \E n \in Said : /\ \A m \in Said : m <= n
                                        /\ 3 * n - 1 <= read /\ ~script[n].bad
    <3>1. PICK a, b : /\ a = Result("resolved", [acc EXCEPT !.text = MapLine(last[1].line)])
                      /\ b = Result("rejected", [acc EXCEPT !.isError = TRUE])
      OBVIOUS
    <3>2. b.how = "rejected"
      BY <3>1 DEF Result
    <3>3. c = 0 /\ IsLine(last) /\ ~script[last[1].line].bad
      <4> SUFFICES ASSUME ~(c = 0 /\ IsLine(last) /\ ~script[last[1].line].bad) PROVE FALSE
        OBVIOUS
      <4>1. settled' = <<b>>
        BY <2>1, <3>1
      <4>2. settled'[i] = b
        BY <2>4, <4>1
      <4> QED
        BY <2>4, <3>2, <4>2
    <3>4. PICK p \in Nat : p = read /\ buf = Text(0, p)
      BY <1>1, <1>2 DEF CliInv
    <3>5. script \in Seq(Lines) /\ p \in 0 .. 3 * Len(script)
      BY <1>1, <3>4 DEF TurnTyped
    <3>6. PICK n \in Said : /\ last[1].line = n /\ \A m \in Said : m <= n
                            /\ 3 * n - 1 <= read
      BY <1>4, <3>3, <3>4, <3>5, LastLineIs
    <3> QED
      BY <3>3, <3>6
  <2>5. CliInv'
    BY <2>1, <2>3, <2>4 DEF CliInv
  <2> QED
    BY <2>1, <2>2, <2>5 DEF TurnInv
<1> QED
  BY <1>5, <1>6

LEMMA OneFails == ASSUME NEW a PROVE Fails(a, 1) = TRUE
<1>1. 1 # 0 /\ 1 # Killed
  BY TurnAssumption
<1>2. LocalError(a, 1) = TRUE
  BY <1>1, Zenon DEF LocalError
<1>3. DaemonError(a, 1) = TRUE
  BY <1>1, Zenon DEF DaemonError
<1> QED
  BY <1>2, <1>3 DEF Fails

LEMMA CloseStream == ASSUME TurnInv, NEW c \in Codes, Close(c), reader # "cli" PROVE TurnInv'
<1>1. /\ child \in {"running", "failed"} /\ (child = "failed" => c = 1)
      /\ script \in Seq(Lines) /\ reader \in {"local", "daemon"}
  BY DEF Close, TurnInv, TurnTyped
<1>2. PICK len \in Nat : len = Len(script)
  BY <1>1, LenProperties
<1>3. PICK p, d, s \in Nat : StreamAt(p, d, s)
  BY <1>1 DEF TurnInv, Alive, StreamInv
<1>4. p = read /\ d = p \div 3 /\ s = d /\ buf = Text(d, p)
  BY <1>1, <1>3 DEF StreamAt
<1>5. p \in 0 .. 3 * Len(script) /\ d \in 0 .. Len(script)
  <2>1. read \in 0 .. 3 * Len(script)
    BY DEF TurnInv, TurnTyped
  <2>2. p \in 0 .. 3 * Len(script)
    BY <1>4, <2>1
  <2> QED
    BY <1>2, <1>4, <2>2
<1>6. PICK w \in Nat : w = (p + 1) \div 3
  BY Thirds
<1>7. PICK events : events = Mapped(buf)
  OBVIOUS
<1>8. events \in Seq(LineEvents) /\ Told(d) \o events = Told(w)
  BY <1>1, <1>4, <1>5, <1>6, <1>7, FlushIs
<1>9. w \in 0 .. Len(script)
  BY <1>2, <1>5, <1>6
<1>10. CASE Throws(buf)
  <2>1. ReaderDies
    BY <1>10 DEF Close
  <2>2. child = "running"
    <3> SUFFICES ASSUME child = "failed" PROVE FALSE
      BY <1>1
    <3>1. p = 0 /\ d = 0
      BY <1>3, <1>4 DEF StreamAt
    <3>2. 3 * 0 <= 0 /\ 0 <= 3 * Len(script) /\ ~(0 = 3 * 0 + 2)
      BY <1>2
    <3>3. ~IsLine(Text(0, 0))
      BY <1>1, <3>2, LineIs
    <3> QED
      BY <1>4, <1>10, <3>1, <3>3 DEF Throws
  <2>3. settled = <<>>
    BY <2>2 DEF TurnInv
  <2> QED
    BY <2>1, <2>3, DeadIsSound
<1>11. CASE ~Throws(buf)
  <2>1. PICK a : a = Accumulate(acc, events)
    OBVIOUS
  <2>2. PICK e : e = Fails(a, c)
    OBVIOUS
  <2>3. /\ child' = "closed"
        /\ code' = c
        /\ acc' = [a EXCEPT !.isError = e]
        /\ handed' = (handed \o events) \o (IF reader = "daemon" THEN <<TurnEnd>> ELSE <<>>)
        /\ settled' = IF reader = "local" /\ settled # <<>> THEN settled
                      ELSE Append(settled, Result("resolved", acc'))
        /\ UNCHANGED <<reader, script, read, buf, mangled>>
    BY <1>7, <1>11, <2>1, <2>2 DEF Close, Flush, Fails
  <2>4. TurnTyped'
    BY <1>1, <2>3 DEF TurnInv, TurnTyped
  <2>5. PICK R : R = Result("resolved", acc')
    OBVIOUS
  <2>6. /\ acc' = [text |-> Summary(w).text, usage |-> Summary(w).usage,
                   isError |-> Fails(Summary(w), c)]
        /\ \E r : /\ settled' = <<r>> \/ (reader = "daemon" /\ settled' = <<r, r>>)
                  /\ reader = "daemon" \/ r.how = "resolved" => r = R
        /\ handed' = (Opening \o Told(w)) \o Ending'
    <3>t. Told(d) \in Seq(LineEvents) /\ Told(w) \in Seq(LineEvents)
      BY <1>1, <1>5, <1>9, ToldTyped
    <3>o. Opening \in Seq(AnyEvents)
      BY EndsTyped
    <3>1. CASE child = "running"
      <4>1. acc = Summary(d) /\ settled = <<>> /\ handed = (Opening \o Told(d)) \o <<>>
        <5>1. settled = <<>>
          BY <3>1 DEF TurnInv
        <5>2. Ending = <<>>
          BY <5>1, NoEnding
        <5> QED
          BY <1>3, <1>4, <3>1, <5>1, <5>2 DEF StreamAt
      <4>2. a = Summary(w)
        BY <1>1, <1>5, <1>8, <2>1, <4>1, SummaryGrows
      <4>3. acc' = [text |-> a.text, usage |-> a.usage, isError |-> e]
        <5>1. a \in Summaries
          BY <1>1, <1>9, <4>2, SummaryIs
        <5>2. a = [text |-> a.text, usage |-> a.usage, isError |-> a.isError]
          BY <5>1 DEF Summaries
        <5> QED
          BY <2>3, <5>2
      <4>4. settled' = <<R>>
        BY <2>3, <2>5, <4>1
      <4>5. handed' = (Opening \o Told(w)) \o (IF reader = "daemon" THEN <<TurnEnd>> ELSE <<>>)
        <5>1. ((Opening \o Told(d)) \o <<>>) \o events = (Opening \o (Told(d) \o events)) \o <<>>
          BY <1>8, <3>t, <3>o, HandedOn
        <5>2. (Opening \o Told(w)) \o <<>> = Opening \o Told(w)
          BY <3>t, <3>o, AnyConcat, ConcatEmptySeq
        <5> QED
          BY <1>8, <2>3, <4>1, <5>1, <5>2
      <4>6. Ending' = IF reader = "daemon" THEN <<TurnEnd>> ELSE <<>>
        BY <2>3, <4>4, EndsIs DEF Ending
      <4> QED
        BY <2>2, <4>2, <4>3, <4>4, <4>5, <4>6
    <3>2. CASE child = "failed"
      <4>1. /\ read = 0 /\ acc = Unspawned /\ c = 1
            /\ settled = <<Result(IF reader = "daemon" THEN "resolved" ELSE "rejected", Unspawned)>>
            /\ handed = (Opening \o Told(0)) \o Ending
        BY <1>1, <1>3, <1>4, <3>2 DEF StreamAt
      <4>2. p = 0 /\ d = 0 /\ w = 0
        BY <1>4, <1>6, <4>1
      <4>3. events = <<>>
        <5>1. 3 * 0 <= 0 /\ 0 <= 3 * Len(script) /\ ~(0 = 3 * 0 + 2)
          BY <1>2
        <5> QED
          BY <1>1, <1>4, <1>7, <4>2, <5>1, MappedIs
      <4>4. e = TRUE
        BY <2>2, <4>1, OneFails
      <4>5. a.text = <<>> /\ a.usage = 0 /\ a = [text |-> a.text, usage |-> a.usage, isError |-> a.isError]
        <5>1. Oks(<<>>) = {}
          BY DEF Oks
        <5>2. Select(<<>>, TextEvents) = <<>> /\ <<>> \o <<>> = <<>>
          <6>1. <<>> \in Seq({}) /\ {} \cap TextEvents = {}
            BY EmptySeq
          <6> QED
            BY <6>1, SelectNone, ConcatEmptySeq
        <5>3. a = [text |-> <<>> \o Select(<<>>, TextEvents), usage |-> UsageIn(<<>>, 0),
                   isError |-> TRUE \/ ErrorIn(<<>>)]
          BY <2>1, <4>1, <4>3, AccumulateIs DEF Unspawned
        <5>4. UsageIn(<<>>, 0) = 0
          BY <5>1 DEF UsageIn
        <5> QED
          BY <5>2, <5>3, <5>4
      <4>6. acc' = Unspawned
        BY <2>3, <4>4, <4>5 DEF Unspawned
      <4>7. Unspawned = [text |-> Summary(w).text, usage |-> Summary(w).usage,
                         isError |-> Fails(Summary(w), c)]
        <5>1. Summary(w) = NoneYet
          BY <4>2, NoSummary
        <5>2. Fails(Summary(w), c) = TRUE
          BY <4>1, OneFails
        <5>3. PICK f : f = Fails(Summary(w), c)
          OBVIOUS
        <5>4. Summary(w).text = <<>> /\ Summary(w).usage = 0 /\ f = TRUE
          BY <5>1, <5>2, <5>3 DEF NoneYet
        <5>5. Unspawned = [text |-> Summary(w).text, usage |-> Summary(w).usage, isError |-> f]
          BY <5>4 DEF Unspawned
        <5> QED
          BY <5>3, <5>5
      <4>8. handed' = ((Opening \o Told(0)) \o Ending) \o
                        (IF reader = "daemon" THEN <<TurnEnd>> ELSE <<>>)
        <5>1. PICK h \in Seq(AnyEvents) : h = handed
          <6>1. Opening \o Told(0) \in Seq(AnyEvents)
            BY <3>t, <3>o, <4>2, AnyConcat
          <6>2. Ending = IF reader = "daemon" THEN <<TurnEnd>> ELSE <<>>
            BY <4>1, EndsIs DEF Ending
          <6>3. Ending \in Seq(AnyEvents)
            BY <6>2, EndsTyped, SingleSeq, EmptySeq
          <6> QED
            BY <4>1, <6>1, <6>3, ConcatProperties
        <5>2. h \o <<>> = h
          BY ConcatEmptySeq
        <5> QED
          BY <2>3, <4>1, <4>3, <5>1, <5>2
      <4>9. CASE reader = "local"
        <5>1. settled' = settled
          BY <2>3, <4>1, <4>9
        <5>2. PICK r : r = Result("rejected", Unspawned)
          OBVIOUS
        <5>3. settled' = <<r>> /\ r.how = "rejected"
          BY <4>1, <4>9, <5>1, <5>2 DEF Result
        <5>4. Ending = <<>> /\ Ending' = <<>>
          BY <2>3, <4>9 DEF Ending
        <5>5. ((Opening \o Told(0)) \o <<>>) \o <<>> = (Opening \o Told(0)) \o <<>>
          BY <3>t, <3>o, <4>2, AnyConcat, ConcatEmptySeq
        <5> QED
          BY <4>2, <4>6, <4>7, <4>8, <4>9, <5>3, <5>4, <5>5
      <4>10. CASE reader = "daemon"
        <5>1. settled = <<R>>
          BY <2>5, <4>1, <4>6, <4>10
        <5>2. settled' = <<R, R>>
          <6>1. settled' = Append(<<R>>, R)
            BY <2>3, <2>5, <4>10, <5>1
          <6> QED
            BY <6>1, TwiceIs
        <5>3. Ending = <<TurnEnd>>
          BY <4>10, <5>1, EndsIs DEF Ending
        <5>4. Ending' = <<TurnEnd, TurnEnd>>
          BY <2>3, <4>10, <5>2, EndsIs DEF Ending
        <5>5. ((Opening \o Told(0)) \o <<TurnEnd>>) \o <<TurnEnd>>
                = (Opening \o Told(0)) \o <<TurnEnd, TurnEnd>>
          <6>1. PICK h \in Seq(AnyEvents) : h = Opening \o Told(0)
            BY <3>t, <3>o, <4>2, AnyConcat
          <6>2. PICK z \in Seq(AnyEvents) : z = <<TurnEnd>>
            BY EndsTyped, SingleSeq
          <6>3. (h \o z) \o z = h \o (z \o z)
            BY ConcatAssociative
          <6>4. z \o z = <<TurnEnd, TurnEnd>>
            <7>1. PICK end : end = TurnEnd
              OBVIOUS
            <7>2. <<end>> \o <<end>> = <<end, end>>
              BY TwiceIs
            <7> QED
              BY <6>2, <7>1, <7>2
          <6> QED
            BY <6>1, <6>2, <6>3, <6>4
        <5> QED
          BY <4>2, <4>6, <4>7, <4>8, <4>10, <5>2, <5>3, <5>4, <5>5
      <4> QED
        BY <1>1, <4>9, <4>10
    <3> QED
      BY <1>1, <3>1, <3>2
  <2>7. StreamAt(p, d, w)'
    <3>1. Text(d, p)' = Text(d, p) /\ Told(w)' = Told(w) /\ Summary(w)' = Summary(w)
      BY <2>3, PiecesFramed
    <3>2. Opening' = Opening /\ reader' = reader /\ code' = c /\ child' = "closed"
      BY <2>3 DEF Opening
    <3>3. p = read' /\ buf' = Text(d, p)'
      BY <1>4, <2>3, <3>1
    <3>4. handed' = (Opening' \o Told(w)') \o Ending'
      BY <2>6, <3>1, <3>2
    <3>5. Fails(Summary(w), c) = Fails(Summary(w), code)'
      BY <3>1, <3>2 DEF Fails, LocalError, DaemonError
    <3>6. acc' = [text |-> Summary(w)'.text, usage |-> Summary(w)'.usage,
                  isError |-> Fails(Summary(w), code)']
      BY <2>6, <3>1, <3>5
    <3>7. \E r : /\ settled' = <<r>> \/ (reader' = "daemon" /\ settled' = <<r, r>>)
                 /\ reader' = "daemon" \/ r.how = "resolved" => r = Result("resolved", acc')
      BY <2>5, <2>6, <3>2
    <3> QED
      BY <1>4, <1>6, <3>2, <3>3, <3>4, <3>6, <3>7 DEF StreamAt
  <2>8. StreamInv'
    BY <2>7 DEF StreamInv
  <2> QED
    BY <1>1, <2>3, <2>4, <2>8 DEF TurnInv
<1> QED
  BY <1>10, <1>11

LEMMA TurnStep == TurnInv /\ [TurnNext]_turnVars => TurnInv'
<1> SUFFICES ASSUME TurnInv, [TurnNext]_turnVars PROVE TurnInv'
  OBVIOUS
<1>1. ASSUME NEW k \in 1 .. 3 * MaxLines, Data(k) PROVE TurnInv'
  BY <1>1, TurnAssumption, DataStep
<1>2. CASE SpawnError
  BY <1>2, SpawnStep
<1>3. ASSUME NEW c \in Codes, Close(c) PROVE TurnInv'
  BY <1>3, CloseCli, CloseStream
<1>4. CASE PromptRefused
  <2>1. ReaderDies /\ settled = <<>>
    BY <1>4 DEF PromptRefused, TurnInv
  <2> QED
    BY <2>1, DeadIsSound
<1>5. CASE Complain \/ UNCHANGED turnVars
  <2>1. UNCHANGED <<reader, script, read, buf, mangled, acc, handed, child, code, settled>>
    BY <1>5 DEF Complain, turnVars
  <2>2. TurnTyped' /\ (child' \in {"running", "reader died"} => settled' = <<>>)
    BY <2>1 DEF TurnInv, TurnTyped
  <2>3. CliInv => CliInv'
    <3>1. ASSUME NEW p \in Nat, buf = Text(0, p) PROVE buf' = Text(0, p)'
      BY <2>1, <3>1, PiecesFramed
    <3>2. Said' = Said
      BY <2>1 DEF Said
    <3> QED
      BY <2>1, <3>1, <3>2 DEF CliInv
  <2>4. StreamInv => StreamInv'
    <3> SUFFICES ASSUME NEW p \in Nat, NEW d \in Nat, NEW w \in Nat, StreamAt(p, d, w)
                 PROVE  StreamAt(p, d, w)'
      BY DEF StreamInv
    <3>1. Text(d, p)' = Text(d, p) /\ Told(w)' = Told(w) /\ Summary(w)' = Summary(w)
      BY <2>1, PiecesFramed
    <3>2. Opening' = Opening /\ Ending' = Ending
      BY <2>1 DEF Opening, Ending
    <3>3. Fails(Summary(w), code)' = Fails(Summary(w), code)
      BY <2>1, <3>1 DEF Fails, LocalError, DaemonError
    <3> QED
      BY <2>1, <3>1, <3>2, <3>3 DEF StreamAt
  <2> QED
    BY <2>1, <2>2, <2>3, <2>4 DEF TurnInv, Alive
<1> QED
  BY <1>1, <1>2, <1>3, <1>4, <1>5 DEF TurnNext

-----------------------------------------------------------------------------
(* What the invariant says of the properties. *)

LEMMA TurnAlways == TurnSpec => []TurnInv
<1>1. TurnInit => TurnInv
  BY TurnBegins
<1>2. TurnInv /\ [TurnNext]_turnVars => TurnInv'
  BY TurnStep
<1> QED
  BY <1>1, <1>2, PTL DEF TurnSpec

\* The lines given whole are the first w.
LEMMA WholeAre ==
  ASSUME TurnTyped, NEW p \in Nat, NEW d \in Nat, NEW w \in Nat, StreamAt(p, d, w)
  PROVE  /\ w \in 0 .. Len(script)
         /\ \A n \in 1 .. Len(script) : Whole(n) <=> n <= w
<1>1. script \in Seq(Lines) /\ read \in 0 .. 3 * Len(script)
  BY DEF TurnTyped
<1>2. PICK len \in Nat : len = Len(script)
  BY <1>1, LenProperties
<1>3. p = read /\ w = IF child = "closed" THEN (p + 1) \div 3 ELSE p \div 3
  BY DEF StreamAt
<1>4. p <= 3 * len
  BY <1>1, <1>2, <1>3
<1>5. w \in 0 .. len
  BY <1>3, <1>4
<1>6. ASSUME NEW n \in 1 .. len PROVE Whole(n) <=> n <= w
  <2>1. CASE child = "closed"
    <3>1. w = (p + 1) \div 3
      BY <1>3, <2>1
    <3>2. 3 * n <= p => 3 * n - 1 <= p
      OBVIOUS
    <3>3. 3 * n - 1 <= p <=> n <= w
      BY <3>1
    <3> QED
      BY <1>3, <2>1, <3>2, <3>3 DEF Whole
  <2>2. CASE child # "closed"
    <3>1. w = p \div 3
      BY <1>3, <2>2
    <3>2. 3 * n <= p <=> n <= w
      BY <3>1
    <3> QED
      BY <1>3, <2>2, <3>2 DEF Whole
  <2> QED
    BY <2>1, <2>2
<1> QED
  BY <1>2, <1>5, <1>6

\* What says an error, and what tells the usage, is among the first w lines.
LEMMA SaysIs ==
  ASSUME script \in Seq(Lines), NEW w \in 0 .. Len(script),
         \A n \in 1 .. Len(script) : Whole(n) <=> n <= w
  PROVE  /\ (\E n \in DOMAIN script : Whole(n) /\ Bad(n)) <=> \E n \in 1 .. w : Bad(n)
         /\ {n \in DOMAIN script : Whole(n) /\ Good(n)} = {n \in 1 .. w : Good(n)}
<1>1. PICK len \in Nat : len = Len(script) /\ DOMAIN script = 1 .. len
  BY LenProperties
<1>2. \A n : n \in DOMAIN script /\ Whole(n) <=> n \in 1 .. w
  <2> TAKE n
  <2>1. w \in Nat /\ w <= len
    BY <1>1
  <2>2. CASE n \in DOMAIN script
    <3>1. n \in 1 .. len /\ (Whole(n) <=> n <= w)
      BY <1>1, <2>2
    <3> QED
      BY <2>1, <2>2, <3>1
  <2>3. CASE n \notin DOMAIN script
    BY <1>1, <2>1, <2>3
  <2> QED
    BY <2>2, <2>3
<1> QED
  BY <1>2, Zenon

LEMMA SettledIs ==
  ASSUME TurnInv, Alive, NEW p \in Nat, NEW d \in Nat, NEW w \in Nat, StreamAt(p, d, w)
  PROVE  \E n \in Nat : DOMAIN settled = 1 .. n
<1>1. child \in {"running", "failed", "closed"}
  BY DEF TurnInv, TurnTyped, Alive
<1>2. settled = <<>> \/ (\E r : settled = <<r>>) \/ \E r : settled = <<r, r>>
  <2>1. CASE child = "running"
    BY <2>1 DEF TurnInv
  <2>2. CASE child = "failed"
    BY <2>2 DEF StreamAt
  <2>3. CASE child = "closed"
    <3>1. PICK r : settled = <<r>> \/ settled = <<r, r>>
      BY <2>3 DEF StreamAt
    <3> QED
      BY <3>1
  <2> QED
    BY <1>1, <2>1, <2>2, <2>3
<1>3. DOMAIN <<>> = 1 .. 0 /\ \A r : DOMAIN <<r>> = 1 .. 1 /\ DOMAIN <<r, r>> = 1 .. 2
  OBVIOUS
<1> QED
  BY <1>2, <1>3

\* What a reader hands on, but for the ends of the turn, is what the whole lines say,
\* however the output was cut into chunks.
THEOREM ChunkingHolds == TurnSpec => []ChunkingIsInvisible
<1>1. TurnInv => ChunkingIsInvisible
  <2> SUFFICES ASSUME TurnInv, reader # "cli", Alive
               PROVE  Select(handed, LineEvents) = WholeEvents
    BY DEF ChunkingIsInvisible
  <2>1. TurnTyped /\ script \in Seq(Lines)
    BY DEF TurnInv, TurnTyped
  <2>2. PICK p, d, w \in Nat : StreamAt(p, d, w)
    BY DEF TurnInv, StreamInv
  <2>3. w \in 0 .. Len(script) /\ \A n \in 1 .. Len(script) : Whole(n) <=> n <= w
    BY <2>1, <2>2, WholeAre
  <2>4. WholeEvents = Told(w)
    BY <2>1, <2>3, WholeIs
  <2>5. handed = (Opening \o Told(w)) \o Ending
    BY <2>2 DEF StreamAt
  <2>6. PICK t \in Seq(LineEvents) : t = Told(w)
    BY <2>1, <2>3, ToldTyped
  <2>7. TurnStart \notin LineEvents /\ TurnEnd \notin LineEvents
    <3>1. TurnStart.line = 0 /\ TurnEnd.line = 0
      BY DEF TurnStart, TurnEnd, TurnEvent
    <3> QED
      BY <3>1 DEF LineEvents
  <2>8. PICK o \in Seq({TurnStart}) : o = Opening
    BY EmptySeq, SingleSeq DEF Opening
  <2>9. PICK z \in Seq({TurnEnd}) : z = Ending
    <3>1. CASE reader = "daemon"
      <4>1. PICK s : s = settled
        OBVIOUS
      <4>2. \E n \in Nat : DOMAIN s = 1 .. n
        BY <2>2, <4>1, SettledIs
      <4>3. PICK n \in Nat : DOMAIN s = 1 .. n
        BY <4>2
      <4>4. Ends(s) \in [1 .. n -> {TurnEnd}]
        BY <4>3 DEF Ends
      <4>5. Ends(s) \in Seq({TurnEnd})
        BY <4>4, FunSeq
      <4> QED
        BY <3>1, <4>1, <4>5 DEF Ending
    <3>2. CASE reader # "daemon"
      BY <3>2, EmptySeq DEF Ending
    <3> QED
      BY <3>1, <3>2
  <2>10. /\ Select(o, LineEvents) = <<>> /\ Select(z, LineEvents) = <<>>
         /\ Select(t, LineEvents) = t
    <3>1. {TurnStart} \cap LineEvents = {} /\ {TurnEnd} \cap LineEvents = {}
      BY <2>7
    <3> QED
      BY <3>1, SelectNone, SelectAll
  <2>11. o \in Seq(AnyEvents) /\ t \in Seq(AnyEvents) /\ z \in Seq(AnyEvents)
    <3>1. {TurnStart} \subseteq AnyEvents /\ {TurnEnd} \subseteq AnyEvents
          /\ LineEvents \subseteq AnyEvents
      BY DEF AnyEvents
    <3> QED
      BY <3>1, SeqMonotonic
  <2>12. PICK h \in Seq(AnyEvents) : h = o \o t
    BY <2>11, ConcatProperties
  <2>13. Select(h, LineEvents) = t
    <3>1. Select(o \o t, LineEvents) = Select(o, LineEvents) \o Select(t, LineEvents)
      BY <2>11, LinesConcat
    <3> QED
      BY <2>10, <2>12, <3>1, ConcatEmptySeq
  <2>14. Select(h \o z, LineEvents) = t
    <3>1. Select(h \o z, LineEvents) = Select(h, LineEvents) \o Select(z, LineEvents)
      BY <2>11, LinesConcat
    <3> QED
      BY <2>10, <2>13, <3>1, ConcatEmptySeq
  <2> QED
    BY <2>4, <2>5, <2>6, <2>8, <2>9, <2>12, <2>14
<1> QED
  BY <1>1, TurnAlways, PTL

\* A chat turn resolves with an error exactly when it should, with the text and the last
\* usage of the lines it was given; a flow's agent call only with a whole last line.
THEOREM VerdictHolds == TurnSpec => []VerdictIsSound
<1>1. TurnInv => VerdictIsSound
  <2> SUFFICES ASSUME TurnInv, NEW i \in DOMAIN settled, NEW r, r = settled[i],
                      r.how = "resolved"
               PROVE
                 /\ reader = "local" =>
                      /\ r.isError <=> code # 0 \/ \E n \in DOMAIN script : Whole(n) /\ Bad(n)
                      /\ r.text = Select(WholeEvents, TextEvents)
                      /\ \A n \in {m \in DOMAIN script : Whole(m) /\ Good(m)} : n <= r.usage
                      /\ r.usage \in {m \in DOMAIN script : Whole(m) /\ Good(m)} \cup {0}
                 /\ reader = "cli" =>
                      /\ code = 0
                      /\ \E n \in Said : /\ \A m \in Said : m <= n
                                         /\ Whole(n) /\ ~script[n].bad
    BY DEF VerdictIsSound, Good, Bad, Said
  <2>1. TurnTyped /\ script \in Seq(Lines)
    BY DEF TurnInv, TurnTyped
  <2>2. settled # <<>>
    OBVIOUS
  <2>3. child \in {"failed", "closed"}
    BY <2>1, <2>2 DEF TurnInv, TurnTyped
  <2>4. CASE reader = "local"
    <3>1. PICK p, d, w \in Nat : StreamAt(p, d, w)
      BY <2>3, <2>4 DEF TurnInv, StreamInv, Alive
    <3>2. w \in 0 .. Len(script) /\ \A n \in 1 .. Len(script) : Whole(n) <=> n <= w
      BY <2>1, <3>1, WholeAre
    <3>3. child = "closed"
      <4> SUFFICES ASSUME child = "failed" PROVE FALSE
        BY <2>3
      <4>1. settled = <<Result("rejected", Unspawned)>>
        BY <2>4, <3>1 DEF StreamAt
      <4>2. r = Result("rejected", Unspawned)
        BY <4>1
      <4> QED
        BY <4>2 DEF Result
    <3>4. r = Result("resolved", acc)
      <4>1. PICK v : /\ settled = <<v>>
                     /\ v.how = "resolved" => v = Result("resolved", acc)
        BY <2>4, <3>1, <3>3 DEF StreamAt
      <4>2. r = v
        BY <4>1
      <4> QED
        BY <4>1, <4>2
    <3>5. PICK e : e = Fails(Summary(w), code)
      OBVIOUS
    <3>6. acc = [text |-> Summary(w).text, usage |-> Summary(w).usage, isError |-> e]
      BY <3>1, <3>3, <3>5 DEF StreamAt
    <3>7. r.text = Summary(w).text /\ r.usage = Summary(w).usage /\ r.isError = e
      BY <3>4, <3>6 DEF Result
    <3>8. e = (Summary(w).isError \/ code # 0)
      BY <2>4, <3>5, Zenon DEF Fails, LocalError
    <3>9. Summary(w).isError <=> \E n \in 1 .. w : Bad(n)
      BY <2>1, <3>2, SummaryIs
    <3>10. Summary(w).text = Select(Told(w), TextEvents) /\ Summary(w).usage = UsageIn(Told(w), 0)
      BY <2>1, <3>2, SummaryIs
    <3>11. WholeEvents = Told(w)
      BY <2>1, <3>2, WholeIs
    <3>12. /\ (\E n \in DOMAIN script : Whole(n) /\ Bad(n)) <=> \E n \in 1 .. w : Bad(n)
           /\ {n \in DOMAIN script : Whole(n) /\ Good(n)} = {n \in 1 .. w : Good(n)}
      BY <2>1, <3>2, SaysIs
    <3>13. r.isError <=> code # 0 \/ \E n \in DOMAIN script : Whole(n) /\ Bad(n)
      BY <3>7, <3>8, <3>9, <3>12, Zenon
    <3>14. Counted(w)
      BY <2>1, <3>2, LinesCount
    <3>15. PICK u : u = UsageIn(Told(w), 0)
      OBVIOUS
    <3>16. /\ \A n \in 1 .. w : Good(n) => n <= u
           /\ u # 0 => u \in 1 .. w /\ Good(u)
      BY <3>14, <3>15 DEF Counted
    <3>17. (\A n \in {m \in 1 .. w : Good(m)} : n <= u) /\ u \in {m \in 1 .. w : Good(m)} \cup {0}
      BY <3>16
    <3> QED
      BY <2>4, <3>7, <3>10, <3>11, <3>12, <3>13, <3>15, <3>17
  <2>5. CASE reader = "cli"
    <3>1. CliInv /\ child = "closed"
      BY <2>3, <2>5 DEF TurnInv, CliInv
    <3>2. code = 0 /\ \E n \in Said : /\ \A m \in Said : m <= n
                                      /\ 3 * n - 1 <= read /\ ~script[n].bad
      BY <3>1 DEF CliInv
    <3> QED
      BY <2>5, <3>1, <3>2 DEF Whole
  <2> QED
    BY <2>4, <2>5
<1> QED
  BY <1>1, TurnAlways, PTL

\* A daemon announces a turn first and ends it last, once unless the child never ran, with
\* one verdict: that of the server's own executor, but for a child that a signal ended.
THEOREM AgreesHolds == TurnSpec => []DaemonAgrees
<1>1. TurnInv => DaemonAgrees
  <2> DEFINE ends == {i \in DOMAIN handed : handed[i] = TurnEnd}
  <2> SUFFICES ASSUME TurnInv, reader = "daemon", Alive
               PROVE
                 /\ handed[1] = TurnStart
                 /\ child = "running" <=> ends = {}
                 /\ \A i \in ends : \A j \in i .. Len(handed) : j \in ends
                 /\ Cardinality(ends) = Len(settled)
                 /\ \A i \in DOMAIN settled : settled[i] = settled[1]
                 /\ child = "closed" =>
                      (settled[1].isError <=>
                         code = 1 \/ \E n \in DOMAIN script : Whole(n) /\ Bad(n))
    BY DEF DaemonAgrees, Bad
  <2>1. TurnTyped /\ script \in Seq(Lines) /\ child \in {"running", "failed", "closed"}
    BY DEF TurnInv, TurnTyped, Alive
  <2>2. PICK p, d, w \in Nat : StreamAt(p, d, w)
    BY DEF TurnInv, StreamInv
  <2>3. w \in 0 .. Len(script) /\ \A n \in 1 .. Len(script) : Whole(n) <=> n <= w
    BY <2>1, <2>2, WholeAre
  <2>4. PICK z \in Nat : /\ DOMAIN settled = 1 .. z /\ Len(settled) = z
                         /\ z = 0 <=> child = "running"
                         /\ \A i \in 1 .. z : settled[i] = settled[1]
    <3>1. CASE child = "running"
      <4>1. settled = <<>>
        BY <3>1 DEF TurnInv
      <4>2. DOMAIN settled = 1 .. 0 /\ Len(settled) = 0 /\ \A i \in 1 .. 0 : FALSE
        BY <4>1
      <4> QED
        BY <3>1, <4>2
    <3>2. CASE child # "running"
      <4>1. PICK r : settled = <<r>> \/ settled = <<r, r>>
        <5>1. CASE child = "failed"
          BY <2>2, <5>1 DEF StreamAt
        <5>2. CASE child = "closed"
          BY <2>2, <5>2 DEF StreamAt
        <5> QED
          BY <2>1, <3>2, <5>1, <5>2
      <4>2. CASE settled = <<r>>
        <5>1. DOMAIN settled = 1 .. 1 /\ Len(settled) = 1 /\ settled[1] = r
          BY <4>2
        <5>2. \A i \in 1 .. 1 : settled[i] = settled[1]
          OBVIOUS
        <5> QED
          BY <3>2, <5>1, <5>2
      <4>3. CASE settled = <<r, r>>
        <5>1. /\ DOMAIN settled = 1 .. 2 /\ Len(settled) = 2
              /\ settled[1] = r /\ settled[2] = r
          BY <4>3
        <5>2. \A i \in 1 .. 2 : settled[i] = settled[1]
          <6>1. \A i \in 1 .. 2 : i = 1 \/ i = 2
            OBVIOUS
          <6> QED
            BY <5>1, <6>1
        <5> QED
          BY <3>2, <5>1, <5>2
      <4> QED
        BY <4>1, <4>2, <4>3
    <3> QED
      BY <3>1, <3>2
  <2>5. PICK t \in Seq(LineEvents) : t = Told(w)
    BY <2>1, <2>3, ToldTyped
  <2>6. PICK m \in Nat : m = Len(t)
    BY LenProperties
  <2>7. PICK o : o = <<TurnStart>>
    OBVIOUS
  <2>8. o \in Seq(AnyEvents) /\ Len(o) = 1 /\ o[1] = TurnStart
    <3>1. TurnStart \in AnyEvents
      BY DEF AnyEvents
    <3> QED
      BY <2>7, <3>1
  <2>9. PICK e : e = Ends(settled)
    OBVIOUS
  <2>10. e \in Seq(AnyEvents) /\ Len(e) = z /\ \A i \in 1 .. z : e[i] = TurnEnd
    <3>1. PICK s : s = settled
      OBVIOUS
    <3>2. e = [i \in 1 .. z |-> TurnEnd]
      BY <2>4, <2>9, <3>1 DEF Ends
    <3>3. e \in [1 .. z -> AnyEvents]
      BY <3>2, EndsTyped
    <3> QED
      BY <3>2, <3>3, FunSeq
  <2>11. t \in Seq(AnyEvents) /\ \A i \in 1 .. m : t[i] \in LineEvents
    BY <2>6, EndsTyped, SeqMonotonic, ElementOfSeq
  <2>12. PICK h : h = o \o t
    OBVIOUS
  <2>13. /\ h \in Seq(AnyEvents) /\ Len(h) = 1 + m
         /\ \A i \in 1 .. 1 + m : h[i] = IF i <= 1 THEN o[i] ELSE t[i - 1]
    <3>1. /\ o \o t \in Seq(AnyEvents) /\ Len(o \o t) = Len(o) + Len(t)
          /\ \A i \in 1 .. Len(o) + Len(t) :
               (o \o t)[i] = IF i <= Len(o) THEN o[i] ELSE t[i - Len(o)]
      BY <2>8, <2>11, ConcatProperties
    <3> QED
      BY <2>6, <2>8, <2>12, <3>1
  <2>14. handed = h \o e
    BY <2>2, <2>5, <2>7, <2>9, <2>12 DEF StreamAt, Opening, Ending
  <2>15. /\ handed \in Seq(AnyEvents) /\ Len(handed) = 1 + m + z
         /\ \A i \in 1 .. 1 + m + z : handed[i] = IF i <= 1 + m THEN h[i] ELSE e[i - (1 + m)]
    <3>1. /\ h \o e \in Seq(AnyEvents) /\ Len(h \o e) = Len(h) + Len(e)
          /\ \A i \in 1 .. Len(h) + Len(e) :
               (h \o e)[i] = IF i <= Len(h) THEN h[i] ELSE e[i - Len(h)]
      BY <2>10, <2>13, ConcatProperties
    <3> QED
      BY <2>10, <2>13, <2>14, <3>1
  <2>16. DOMAIN handed = 1 .. 1 + m + z
    BY <2>15, LenProperties
  <2>17. TurnStart # TurnEnd /\ TurnEnd \notin LineEvents
    <3>1. TurnEnd.line = 0 /\ TurnStart.kind = "turn:start" /\ TurnEnd.kind = "turn:end"
      BY DEF TurnStart, TurnEnd, TurnEvent
    <3>2. TurnEnd \notin LineEvents
      BY <3>1 DEF LineEvents
    <3> QED
      BY <3>1, <3>2
  <2>18. handed[1] = TurnStart
    <3>1. 1 \in 1 .. 1 + m + z /\ 1 <= 1 + m /\ 1 \in 1 .. 1 + m
      OBVIOUS
    <3> QED
      BY <2>8, <2>13, <2>15, <3>1
  <2>19. ASSUME NEW i \in 1 .. 1 + m + z PROVE handed[i] = TurnEnd <=> i > 1 + m
    <3>1. CASE i = 1
      BY <2>17, <2>18, <3>1
    <3>2. CASE i # 1 /\ i <= 1 + m
      <4>1. i \in 1 .. 1 + m /\ ~(i <= 1) /\ i - 1 \in 1 .. m /\ ~(i > 1 + m)
        BY <3>2
      <4>2. handed[i] = t[i - 1]
        BY <2>13, <2>15, <3>2, <4>1
      <4> QED
        BY <2>11, <2>17, <4>1, <4>2
    <3>3. CASE ~(i <= 1 + m)
      <4>1. i - (1 + m) \in 1 .. z /\ i > 1 + m
        BY <3>3
      <4> QED
        BY <2>10, <2>15, <3>3, <4>1
    <3> QED
      BY <3>1, <3>2, <3>3
  <2>20. ends = 2 + m .. 1 + m + z
    <3>1. \A i : i \in ends <=> i \in 1 .. 1 + m + z /\ i > 1 + m
      BY <2>16, <2>19
    <3>2. \A i : i \in 1 .. 1 + m + z /\ i > 1 + m <=> i \in 2 + m .. 1 + m + z
      OBVIOUS
    <3> HIDE DEF ends
    <3> QED
      BY <3>1, <3>2
  <2> HIDE DEF ends
  <2>21. child = "running" <=> ends = {}
    <3>1. z = 0 <=> ends = {}
      <4>1. z = 0 => ends = {}
        BY <2>20
      <4>2. z # 0 => 2 + m \in ends
        BY <2>20
      <4> QED
        BY <4>1, <4>2
    <3> QED
      BY <2>4, <3>1
  <2>22. \A i \in ends : \A j \in i .. Len(handed) : j \in ends
    BY <2>15, <2>20
  <2>23. Cardinality(ends) = z
    <3>1. 2 + m \in Int /\ 1 + m + z \in Int
      OBVIOUS
    <3>2. Cardinality(2 + m .. 1 + m + z)
            = IF 2 + m > 1 + m + z THEN 0 ELSE 1 + m + z - (2 + m) + 1
      BY <3>1, FS_Interval
    <3> QED
      BY <2>20, <3>2
  <2>24. ASSUME child = "closed"
         PROVE  settled[1].isError <=> code = 1 \/ \E n \in DOMAIN script : Whole(n) /\ Bad(n)
    <3>1. PICK r : r = settled[1]
      OBVIOUS
    <3>2. r = Result("resolved", acc)
      <4>1. PICK v : (settled = <<v>> \/ settled = <<v, v>>) /\ v = Result("resolved", acc)
        BY <2>2, <2>24 DEF StreamAt
      <4> QED
        BY <3>1, <4>1
    <3>3. PICK f : f = Fails(Summary(w), code)
      OBVIOUS
    <3>4. acc = [text |-> Summary(w).text, usage |-> Summary(w).usage, isError |-> f]
      BY <2>2, <2>24, <3>3 DEF StreamAt
    <3>5. r.isError = f
      BY <3>2, <3>4 DEF Result
    <3>6. f = (Summary(w).isError \/ (code # 0 /\ code # Killed))
      <4>1. reader # "local"
        OBVIOUS
      <4> QED
        BY <3>3, <4>1, Zenon DEF Fails, DaemonError
    <3>7. code # 0 /\ code # Killed <=> code = 1
      <4>1. code = 0 \/ code = 1 \/ code = Killed
        BY <2>1 DEF TurnTyped, Codes
      <4>2. Killed # 0 /\ Killed # 1
        BY TurnAssumption
      <4> QED
        BY <4>1, <4>2
    <3>8. Summary(w).isError <=> \E n \in 1 .. w : Bad(n)
      BY <2>1, <2>3, SummaryIs
    <3>9. (\E n \in DOMAIN script : Whole(n) /\ Bad(n)) <=> \E n \in 1 .. w : Bad(n)
      BY <2>1, <2>3, SaysIs
    <3> QED
      BY <3>1, <3>5, <3>6, <3>7, <3>8, <3>9, Zenon
  <2> QED
    BY <2>4, <2>18, <2>21, <2>22, <2>23, <2>24
<1> QED
  BY <1>1, TurnAlways, PTL

=============================================================================
