------------------------- MODULE SpeechTextProofs -------------------------
(***************************************************************************)
(* The speech of a generation.  The chunker cuts any text as its rule says, *)
(* whatever deltas the text comes in (AlwaysSpokenAsRuled); the pipeline    *)
(* loses and repeats nothing of what is cut, for any number of generations  *)
(* and units of text and any capacity of its output (PipelineAlwaysSound);  *)
(* and the cuts it is proved for are those the chunker makes (ChunkerCuts). *)
(***************************************************************************)
EXTENDS SpeechText, Chunker, FiniteSetTheorems, SequenceTheorems, WellFoundedInduction, TLAPS

-----------------------------------------------------------------------------
(* Sequences, and sequences of sequences joined into one.                  *)

\* A set of numbers that has a member has a least one, which Min picks.
LEMMA MinIsLeast ==
  ASSUME NEW S \in SUBSET Nat, S # {}
  PROVE  Min(S) \in S /\ \A x \in S : Min(S) <= x
  <1> DEFINE R == {p \in Nat \X Nat : p[1] < p[2]}
  <1>1. IsWellFoundedOn(R, Nat)
    BY NatLessThanWellFounded, Zenon DEF OpToRel
  <1>2. PICK x \in S : \A y \in S : <<y, x>> \notin R
    <2> HIDE DEF R
    <2>1. S \subseteq Nat
      OBVIOUS
    <2> QED BY <1>1, <2>1, WFMin, Zenon
  <1>3. ASSUME NEW y \in S, y < x PROVE FALSE
    <2>1. <<y, x>> \in Nat \X Nat /\ <<y, x>>[1] < <<y, x>>[2]
      BY <1>3
    <2>2. <<y, x>> \in R
      BY <2>1, Zenon
    <2> QED BY <1>2, <2>2
  <1>4. \A y \in S : x <= y
    BY <1>3
  <1> QED BY <1>4 DEF Min

\* A bounded set of numbers that has a member has a greatest one, which Max picks.
LEMMA MaxIsGreatest ==
  ASSUME NEW S \in SUBSET Nat, S # {}, NEW b \in Nat, \A x \in S : x <= b
  PROVE  Max(S) \in S /\ \A x \in S : x <= Max(S)
  <1> DEFINE T == {b - x : x \in S}
  <1>1. T \in SUBSET Nat /\ T # {}
    <2>1. \A x \in S : b - x \in Nat
      OBVIOUS
    <2> QED BY <2>1
  <1>2. PICK t \in T : \A u \in T : t <= u
    BY <1>1, MinIsLeast
  <1>3. PICK x \in S : t = b - x
    BY <1>2
  <1>4. \A y \in S : b - x <= b - y
    BY <1>2, <1>3
  <1>5. \A y \in S : y <= x
    BY <1>4
  <1> QED BY <1>5 DEF Max

\* What holds of 1 and passes on to the next holds up to n.
LEMMA UpTo ==
  ASSUME NEW n \in Nat, NEW H,
         1 \in H, \A k \in 1 .. n : k < n /\ k \in H => k + 1 \in H
  PROVE  \A k \in 1 .. n : k \in H
  <1> DEFINE R == {p \in Nat \X Nat : p[1] < p[2]}
             T == {k \in 1 .. n : k \notin H}
  <1> SUFFICES ASSUME T # {} PROVE FALSE
    OBVIOUS
  <1>1. IsWellFoundedOn(R, Nat)
    BY NatLessThanWellFounded, Zenon DEF OpToRel
  <1>2. T \subseteq Nat
    OBVIOUS
  <1>3. PICK k \in T : \A y \in T : <<y, k>> \notin R
    <2> HIDE DEF R, T
    <2> QED BY <1>1, <1>2, WFMin, Zenon
  <1>4. k \in 1 .. n /\ k # 1 /\ k \notin H
    BY <1>3
  <1>5. <<k - 1, k>> \in R
    BY <1>4
  <1>6. k - 1 \in H
    BY <1>3, <1>4, <1>5
  <1>7. k - 1 \in 1 .. n /\ k - 1 < n /\ k - 1 + 1 = k
    BY <1>4
  <1> QED BY <1>4, <1>6, <1>7

\* f[i] is the first i of the sequences s[1], ..., s[n] joined.
Joins(s, n, f) ==
  f = [i \in 1 .. n |-> IF i = 1 THEN s[i] ELSE f[i - 1] \o s[i]]

\* There are such sequences...
LEMMA JoinsExist ==
  ASSUME NEW n \in Nat, NEW s
  PROVE  \E f : Joins(s, n, f)
  <1> DEFINE H == {m \in 1 .. n : \E f : Joins(s, m, f)}
  <1>1. CASE n = 0
    <2>1. Joins(s, 0, [i \in 1 .. 0 |-> <<>>])
      BY DEF Joins
    <2> QED BY <1>1, <2>1
  <1>2. CASE n # 0
    <2>1. 1 \in H
      <3>1. Joins(s, 1, [i \in 1 .. 1 |-> s[1]])
        BY DEF Joins
      <3> QED BY <1>2, <3>1
    <2>2. ASSUME NEW m \in 1 .. n, m < n, m \in H PROVE m + 1 \in H
      <3>1. PICK f : Joins(s, m, f)
        BY <2>2
      <3> DEFINE g == [i \in 1 .. m + 1 |-> IF i = m + 1 THEN f[m] \o s[m + 1] ELSE f[i]]
      <3>2. ASSUME NEW i \in 1 .. m + 1
            PROVE  g[i] = IF i = 1 THEN s[i] ELSE g[i - 1] \o s[i]
        <4>1. CASE i = m + 1
          <5>1. i # 1 /\ i - 1 = m /\ m \in 1 .. m + 1 /\ m # m + 1
            BY <4>1
          <5>2. g[m] = f[m] /\ g[i] = f[m] \o s[i]
            BY <4>1, <5>1
          <5> QED BY <5>1, <5>2
        <4>2. CASE i # m + 1
          <5>1. i \in 1 .. m /\ g[i] = f[i]
            BY <4>2
          <5>2. f[i] = IF i = 1 THEN s[i] ELSE f[i - 1] \o s[i]
            BY <3>1, <5>1 DEF Joins
          <5>3. CASE i = 1
            BY <5>1, <5>2, <5>3
          <5>4. CASE i # 1
            <6>1. i - 1 \in 1 .. m + 1 /\ i - 1 # m + 1
              BY <5>1, <5>4
            <6>2. g[i - 1] = f[i - 1]
              BY <6>1
            <6> QED BY <5>1, <5>2, <5>4, <6>2
          <5> QED BY <5>3, <5>4
        <4> QED BY <4>1, <4>2
      <3>3. g = [i \in 1 .. m + 1 |-> g[i]]
        OBVIOUS
      <3>4. Joins(s, m + 1, g)
        <4> HIDE DEF g
        <4> QED BY <3>2, <3>3 DEF Joins
      <3>5. m + 1 \in 1 .. n
        BY <2>2
      <3> QED BY <3>4, <3>5
    <2>3. n \in H
      <3> HIDE DEF H
      <3> QED BY <1>2, <2>1, <2>2, UpTo
    <2> QED BY <2>3
  <1> QED BY <1>1, <1>2

\* Each join is the one before it and one sequence more.
Grows(s, n, f) ==
  n # 0 => f[1] = s[1] /\ \A k \in 1 .. n : k < n => f[k + 1] = f[k] \o s[k + 1]
LEMMA JoinsGrow ==
  ASSUME NEW n \in Nat, NEW s, NEW f, Joins(s, n, f)
  PROVE  Grows(s, n, f)
  <1> SUFFICES ASSUME n # 0
               PROVE  f[1] = s[1] /\ \A k \in 1 .. n : k < n => f[k + 1] = f[k] \o s[k + 1]
    BY DEF Grows
  <1> DEFINE v(i) == IF i = 1 THEN s[i] ELSE f[i - 1] \o s[i]
  <1>1. \A i \in 1 .. n : f[i] = v(i)
    BY DEF Joins
  <1>2. f[1] = s[1]
    <2>1. v(1) = s[1] /\ 1 \in 1 .. n
      OBVIOUS
    <2> HIDE DEF v
    <2> QED BY <1>1, <2>1, Zenon
  <1>3. ASSUME NEW k \in 1 .. n, k < n PROVE f[k + 1] = f[k] \o s[k + 1]
    <2> DEFINE j == k + 1
    <2>1. j # 1 /\ j - 1 = k /\ j \in 1 .. n
      BY <1>3
    <2> HIDE DEF j
    <2>2. v(j) = f[k] \o s[j]
      BY <2>1, Zenon
    <2> HIDE DEF v
    <2>3. f[j] = f[k] \o s[j]
      BY <1>1, <2>1, <2>2, Zenon
    <2> QED BY <2>3, Zenon DEF j
  <1> QED BY <1>2, <1>3, Zenon

\* ...and no others; they depend on the first n sequences only.
LEMMA JoinsAgree ==
  ASSUME NEW n \in Nat, NEW m \in 1 .. n, NEW s, NEW t, NEW f, NEW g,
         \A i \in 1 .. m : t[i] = s[i],
         Joins(s, n, f), Joins(t, m, g)
  PROVE  g[m] = f[m]
  <1> DEFINE H == {k \in 1 .. m : g[k] = f[k]}
  <1>0. m \in Nat /\ m # 0 /\ n # 0
    OBVIOUS
  <1>1. Grows(s, n, f)
    BY JoinsGrow
  <1>2. Grows(t, m, g)
    BY <1>0, JoinsGrow
  <1>3. 1 \in H
    <2>1. 1 \in 1 .. m /\ 1 \in 1 .. n
      OBVIOUS
    <2> QED BY <1>0, <1>1, <1>2, <2>1, Zenon DEF Grows
  <1>4. ASSUME NEW k \in 1 .. m, k < m, k \in H PROVE k + 1 \in H
    <2>1. k + 1 \in 1 .. m /\ k \in 1 .. n /\ k < n
      BY <1>4
    <2>2. f[k + 1] = f[k] \o s[k + 1]
      BY <1>0, <1>1, <2>1, Zenon DEF Grows
    <2>3. g[k + 1] = g[k] \o t[k + 1]
      BY <1>0, <1>2, <1>4, Zenon DEF Grows
    <2> QED BY <1>4, <2>1, <2>2, <2>3
  <1> HIDE DEF H
  <1>5. m \in H
    BY <1>3, <1>4, UpTo
  <1> QED BY <1>5 DEF H

\* FlattenSeq joins all of them.
LEMMA FlattenJoins ==
  ASSUME NEW n \in Nat \ {0}, NEW s, Len(s) = n
  PROVE  \E f : Joins(s, n, f) /\ FlattenSeq(s) = f[n]
  <1> DEFINE Rec(f) == f = [i \in 1 .. n |-> IF i = 1 THEN s[i] ELSE f[i - 1] \o s[i]]
             flat == CHOOSE f : Rec(f)
  <1>1. PICK f : Rec(f)
    BY JoinsExist DEF Joins
  <1>2. Rec(flat)
    <2> HIDE DEF Rec
    <2> QED BY <1>1
  <1>3. FlattenSeq(s) = flat[n]
    BY DEF FlattenSeq
  <1>4. Joins(s, n, flat)
    <2> HIDE DEF flat
    <2> QED BY <1>2 DEF Joins
  <1> HIDE DEF flat
  <1> QED BY <1>3, <1>4

\* Nothing joins to nothing.
LEMMA FlattenEmpty == FlattenSeq(<<>>) = <<>>
  BY DEF FlattenSeq

\* One sequence more is put after the others.
LEMMA FlattenAppend ==
  ASSUME NEW S, NEW s \in Seq(Seq(S)), NEW c \in Seq(S)
  PROVE  FlattenSeq(Append(s, c)) = FlattenSeq(s) \o c
  <1> DEFINE n == Len(s)
             t == Append(s, c)
  <1>1. n \in Nat /\ Len(t) = n + 1 /\ t[n + 1] = c /\ \A i \in 1 .. n : t[i] = s[i]
    BY AppendProperties
  <1>n. n = 0 => s = <<>>
    BY EmptySeq
  <1> HIDE DEF n, t
  <1>2. PICK f : Joins(t, n + 1, f) /\ FlattenSeq(t) = f[n + 1]
    BY <1>1, FlattenJoins
  <1>3. Grows(t, n + 1, f) /\ n + 1 # 0
    <2>1. n + 1 \in Nat /\ n + 1 # 0
      BY <1>1
    <2> QED BY <1>2, <2>1, JoinsGrow
  <1>4. 1 \in 1 .. n + 1 /\ (n # 0 => n \in 1 .. n + 1 /\ n < n + 1)
    BY <1>1
  <1>5. CASE n = 0
    <2>1. f[1] = c
      <3>1. f[1] = t[1]
        BY <1>3, Zenon DEF Grows
      <3> QED BY <1>1, <1>5, <3>1
    <2>2. FlattenSeq(s) \o c = c
      BY <1>n, <1>5, FlattenEmpty, ConcatEmptySeq
    <2> QED BY <1>2, <1>5, <2>1, <2>2 DEF t
  <1>6. CASE n # 0
    <2>1. PICK g : Joins(s, n, g) /\ FlattenSeq(s) = g[n]
      BY <1>1, <1>6, FlattenJoins DEF n
    <2>2. g[n] = f[n]
      <3>1. n \in 1 .. n + 1 /\ n + 1 \in Nat /\ \A i \in 1 .. n : s[i] = t[i]
        BY <1>1, <1>6
      <3> QED BY <1>2, <2>1, <3>1, JoinsAgree
    <2>3. f[n + 1] = f[n] \o c
      BY <1>1, <1>3, <1>4, <1>6, Zenon DEF Grows
    <2> QED BY <1>2, <2>1, <2>2, <2>3 DEF t
  <1> QED BY <1>5, <1>6

\* Sequences over S join to a sequence over S.
LEMMA FlattenType ==
  ASSUME NEW S, NEW s \in Seq(Seq(S))
  PROVE  FlattenSeq(s) \in Seq(S)
  <1> DEFINE n == Len(s)
  <1>1. n \in Nat /\ \A i \in 1 .. n : s[i] \in Seq(S)
    OBVIOUS
  <1>2. CASE n = 0
    <2>1. s = <<>>
      BY <1>2, EmptySeq
    <2>2. <<>> \in Seq(S)
      OBVIOUS
    <2> QED BY <2>1, <2>2, FlattenEmpty, Zenon
  <1>3. CASE n # 0
    <2> HIDE DEF n
    <2>1. PICK f : Joins(s, n, f) /\ FlattenSeq(s) = f[n]
      BY <1>1, <1>3, FlattenJoins DEF n
    <2> DEFINE H == {k \in 1 .. n : f[k] \in Seq(S)}
    <2>2. Grows(s, n, f)
      BY <1>1, <2>1, JoinsGrow
    <2>3. 1 \in H
      <3>1. 1 \in 1 .. n
        BY <1>1, <1>3
      <3> QED BY <1>1, <1>3, <2>2, <3>1, Zenon DEF Grows
    <2>4. ASSUME NEW k \in 1 .. n, k < n, k \in H PROVE k + 1 \in H
      <3>1. k + 1 \in 1 .. n
        BY <1>1, <2>4
      <3>2. f[k + 1] = f[k] \o s[k + 1] /\ s[k + 1] \in Seq(S) /\ f[k] \in Seq(S)
        BY <1>1, <1>3, <2>2, <2>4, <3>1, Zenon DEF Grows
      <3>3. f[k] \o s[k + 1] \in Seq(S)
        <4> HIDE DEF H
        <4> DEFINE a == f[k]
                   b == s[k + 1]
        <4>1. a \in Seq(S) /\ b \in Seq(S)
          BY <3>2, Zenon
        <4> HIDE DEF a, b
        <4>2. a \o b \in Seq(S)
          BY <4>1, ConcatProperties
        <4> QED BY <4>2, Zenon DEF a, b
      <3> QED BY <3>1, <3>2, <3>3, Zenon
    <2> HIDE DEF H
    <2>5. n \in H
      <3>1. n \in 1 .. n
        BY <1>1, <1>3
      <3>2. \A k \in 1 .. n : k \in H
        BY <1>1, <2>3, <2>4, UpTo, Zenon
      <3> QED BY <3>1, <3>2, Zenon
    <2> QED BY <2>1, <2>5 DEF H
  <1> QED BY <1>2, <1>3

-----------------------------------------------------------------------------
(* Ascending sequences of numbers.                                         *)

\* The numbers of s rise, and none is above n.
Ascends(s, n) ==
  /\ \A i \in DOMAIN s : s[i] <= n
  /\ \A i, j \in DOMAIN s : i < j => s[i] < s[j]

\* The next number may follow.
LEMMA AscendsNext ==
  ASSUME NEW S \in SUBSET Nat, NEW s \in Seq(S), NEW n \in Nat, n + 1 \in S, Ascends(s, n)
  PROVE  Ascends(Append(s, n + 1), n + 1)
  <1> DEFINE t == Append(s, n + 1)
             L == Len(s)
  <1>1. L \in Nat /\ DOMAIN s = 1 .. L /\ \A i \in 1 .. L : s[i] \in Nat
    <2>1. L \in Nat /\ DOMAIN s = 1 .. L /\ \A i \in 1 .. L : s[i] \in S
      BY LenProperties, ElementOfSeq
    <2> HIDE DEF L
    <2> QED BY <2>1
  <1>2. Len(t) = L + 1 /\ t[L + 1] = n + 1 /\ \A i \in 1 .. L : t[i] = s[i]
    BY AppendProperties
  <1>3. t \in Seq(S)
    BY AppendProperties
  <1>4. DOMAIN t = 1 .. L + 1
    BY <1>2, <1>3
  <1> HIDE DEF t, L
  <1>5. \A i \in 1 .. L : s[i] <= n
    BY <1>1 DEF Ascends
  <1>6. \A i, j \in 1 .. L : i < j => s[i] < s[j]
    BY <1>1 DEF Ascends
  <1>7. \A i \in 1 .. L + 1 : t[i] <= n + 1
    BY <1>1, <1>2, <1>5
  <1>8. ASSUME NEW i \in 1 .. L + 1, NEW j \in 1 .. L + 1, i < j PROVE t[i] < t[j]
    <2>1. i \in 1 .. L
      BY <1>1, <1>8
    <2>2. CASE j \in 1 .. L
      BY <1>2, <1>6, <1>8, <2>1, <2>2
    <2>3. CASE j = L + 1
      BY <1>1, <1>2, <1>5, <2>1, <2>3
    <2> QED BY <1>1, <2>2, <2>3
  <1>9. Ascends(t, n + 1)
    BY <1>4, <1>7, <1>8 DEF Ascends
  <1> QED BY <1>9 DEF t

\* A part may be left out.
LEMMA AscendsWithout ==
  ASSUME NEW S \in SUBSET Nat, NEW a \in Seq(S), NEW y \in Seq(S), NEW c \in Seq(S),
         NEW n \in Nat, Ascends((a \o y) \o c, n)
  PROVE  Ascends(a \o c, n)
  <1> DEFINE ay == a \o y
             s == ay \o c
             t == a \o c
             A == Len(a)
             Y == Len(y)
             C == Len(c)
  <1>1. A \in Nat /\ Y \in Nat /\ C \in Nat
    OBVIOUS
  <1>2. /\ ay \in Seq(S) /\ Len(ay) = A + Y
        /\ \A i \in 1 .. A + Y : ay[i] = IF i <= A THEN a[i] ELSE y[i - A]
    BY ConcatProperties
  <1>3. /\ t \in Seq(S) /\ Len(t) = A + C
        /\ \A i \in 1 .. A + C : t[i] = IF i <= A THEN a[i] ELSE c[i - A]
    BY ConcatProperties
  <1> HIDE DEF ay
  <1>4. /\ s \in Seq(S) /\ Len(s) = (A + Y) + C
        /\ \A i \in 1 .. (A + Y) + C : s[i] = IF i <= A + Y THEN ay[i] ELSE c[i - (A + Y)]
    BY <1>2, ConcatProperties, SMTT(20)
  <1>5. DOMAIN s = 1 .. (A + Y) + C /\ DOMAIN t = 1 .. A + C
    BY <1>3, <1>4
  <1>6. Ascends(s, n)
    BY DEF ay
  <1> HIDE DEF s, t, A, Y, C
  <1> DEFINE at(i) == IF i <= A THEN i ELSE i + Y
  <1>7. ASSUME NEW i \in 1 .. A + C
        PROVE  at(i) \in 1 .. (A + Y) + C /\ t[i] = s[at(i)]
    <2>1. CASE i <= A
      <3>1. i \in 1 .. A + Y /\ i \in 1 .. (A + Y) + C /\ i <= A + Y
        BY <1>1, <2>1
      <3> QED BY <1>2, <1>3, <1>4, <2>1, <3>1
    <2>2. CASE i > A
      <3>1. i + Y \in 1 .. (A + Y) + C /\ ~(i + Y <= A + Y) /\ (i + Y) - (A + Y) = i - A /\ ~(i <= A)
        BY <1>1, <2>2
      <3>2. s[i + Y] = c[(i + Y) - (A + Y)]
        BY <1>4, <3>1
      <3> QED BY <1>3, <3>1, <3>2
    <2> QED BY <1>1, <2>1, <2>2
  <1>8. ASSUME NEW i \in 1 .. A + C, NEW j \in 1 .. A + C, i < j PROVE at(i) < at(j)
    BY <1>1, <1>8
  <1> HIDE DEF at
  <1>9. \A i \in 1 .. A + C : t[i] <= n
    BY <1>5, <1>6, <1>7 DEF Ascends
  <1>10. \A i, j \in 1 .. A + C : i < j => t[i] < t[j]
    BY <1>5, <1>6, <1>7, <1>8 DEF Ascends
  <1>11. Ascends(t, n)
    BY <1>5, <1>9, <1>10 DEF Ascends
  <1> QED BY <1>11 DEF t

\* So may an end.
LEMMA AscendsPart ==
  ASSUME NEW S \in SUBSET Nat, NEW a \in Seq(S), NEW y \in Seq(S), NEW n \in Nat,
         Ascends(a \o y, n)
  PROVE  Ascends(a, n)
  <1>1. (a \o y) \o <<>> = a \o y /\ a \o <<>> = a /\ <<>> \in Seq(S)
    <2>1. a \o y \in Seq(S)
      BY ConcatProperties
    <2> QED BY <2>1, ConcatEmptySeq
  <1>2. Ascends((a \o y) \o <<>>, n)
    BY <1>1
  <1>3. Ascends(a \o <<>>, n)
    BY <1>1, <1>2, AscendsWithout
  <1> QED BY <1>1, <1>3

\* A sequence is a prefix of what it is put before.
LEMMA PrefixOfConcat ==
  ASSUME NEW S, NEW a \in Seq(S), NEW b \in Seq(S)
  PROVE  IsPrefix(a, a \o b)
  <1> DEFINE c == a \o b
             A == Len(a)
  <1>1. /\ c \in Seq(S) /\ Len(c) = A + Len(b)
        /\ \A i \in 1 .. A + Len(b) : c[i] = IF i <= A THEN a[i] ELSE b[i - A]
    BY ConcatProperties
  <1>2. A \in Nat /\ Len(b) \in Nat
    OBVIOUS
  <1>3. \A i \in 1 .. A : c[i] = a[i]
    <2> HIDE DEF c, A
    <2> QED BY <1>1, <1>2
  <1> HIDE DEF c
  <1>4. SubSeq(a, 1, A) = SubSeq(c, 1, A)
    <2>1. SubSeq(a, 1, A) = [i \in 1 .. A |-> a[i]]
      OBVIOUS
    <2>2. SubSeq(c, 1, A) = [i \in 1 .. A |-> c[i]]
      BY <1>1, <1>2
    <2> HIDE DEF A
    <2> QED BY <1>3, <2>1, <2>2
  <1>5. A <= Len(c)
    BY <1>1, <1>2
  <1> QED BY <1>4, <1>5 DEF IsPrefix, c

\* All but the last, and the last, are the whole.
LEMMA FrontAndLast ==
  ASSUME NEW S, NEW b \in Seq(S), Len(b) >= 1
  PROVE  Front(b) \in Seq(S) /\ Last(b) \in S /\ Front(b) \o <<Last(b)>> = b
  <1> DEFINE n == Len(b)
  <1>1. n \in Nat /\ n >= 1 /\ n \in 1 .. n
    OBVIOUS
  <1>2. SubSeq(b, 1, n) = SubSeq(b, 1, n - 1) \o <<b[n]>>
    <2>1. 1 \in 1 .. n
      BY <1>1
    <2> QED BY <1>1, <2>1, SubSeqRecursiveSecond
  <1>3. SubSeq(b, 1, n) = b
    BY SubSeqFull
  <1>4. \A i \in 1 .. n - 1 : b[i] \in S
    <2>1. \A i \in 1 .. n : b[i] \in S
      BY ElementOfSeq
    <2> HIDE DEF n
    <2> QED BY <1>1, <2>1
  <1>5. SubSeq(b, 1, n - 1) \in Seq(S)
    <2>1. 1 \in Int /\ n - 1 \in Int
      BY <1>1
    <2> HIDE DEF n
    <2> QED BY <1>4, <2>1, SubSeqProperties
  <1>6. b[n] \in S
    BY <1>1, ElementOfSeq
  <1> QED BY <1>2, <1>3, <1>5, <1>6, Zenon DEF Front, Last

\* An element appended to a sequence of one makes a sequence of two.
LEMMA TwoElements ==
  ASSUME NEW T, NEW a \in T, NEW b \in T
  PROVE  Append(<<a>>, b) = <<a, b>>
  <1> DEFINE t == Append(<<a>>, b)
             u == <<a, b>>
  <1>1. t \in Seq(T) /\ Len(t) = 2 /\ t[1] = a /\ t[2] = b
    <2>1. <<a>> \in Seq(T) /\ Len(<<a>>) = 1 /\ 1 \in 1 .. 1 /\ <<a>>[1] = a
      OBVIOUS
    <2> QED BY <2>1, AppendProperties
  <1>2. u \in Seq(T) /\ Len(u) = 2 /\ u[1] = a /\ u[2] = b
    OBVIOUS
  <1> HIDE DEF t, u
  <1>3. \A i \in 1 .. Len(t) : t[i] = u[i]
    BY <1>1, <1>2
  <1>4. t = u
    BY <1>1, <1>2, <1>3, SeqEqual
  <1> QED BY <1>4 DEF t, u

\* One sequence, or two, joined.
LEMMA FlattenFew ==
  ASSUME NEW S, NEW a \in Seq(S), NEW b \in Seq(S)
  PROVE  FlattenSeq(<<a>>) = a /\ FlattenSeq(<<a, b>>) = a \o b
  <1>1. <<>> \in Seq(Seq(S)) /\ <<a>> \in Seq(Seq(S))
    OBVIOUS
  <1>2. Append(<<>>, a) = <<a>> /\ Append(<<a>>, b) = <<a, b>>
    <2>1. Append(<<>>, a) = <<a>>
      OBVIOUS
    <2>2. Append(<<a>>, b) = <<a, b>>
      BY TwoElements, Zenon
    <2> QED BY <2>1, <2>2
  <1>3. FlattenSeq(<<a>>) = a
    <2>1. FlattenSeq(Append(<<>>, a)) = FlattenSeq(<<>>) \o a
      BY <1>1, FlattenAppend, Zenon
    <2>2. FlattenSeq(<<>>) \o a = a
      BY FlattenEmpty, ConcatEmptySeq, Zenon
    <2> QED BY <1>2, <2>1, <2>2, Zenon
  <1>4. FlattenSeq(Append(<<a>>, b)) = FlattenSeq(<<a>>) \o b
    BY <1>1, FlattenAppend, Zenon
  <1> QED BY <1>2, <1>3, <1>4, Zenon

\* Moving the head of one sequence to the end of another leaves both in order.
LEMMA HeadMoves ==
  ASSUME NEW S, NEW s \in Seq(S), NEW t \in Seq(S), t # <<>>
  PROVE  /\ Head(t) \in S /\ Tail(t) \in Seq(S)
         /\ Append(s, Head(t)) \o Tail(t) = s \o t
  <1> DEFINE h == Head(t)
             r == Tail(t)
  <1>1. h \in S /\ r \in Seq(S) /\ <<h>> \o r = t
    <2>1. h \in S /\ r \in Seq(S)
      BY HeadTailProperties
    <2>2. <<h>> \o r = t
      <3> DEFINE n == Len(t)
      <3>1. n \in Nat /\ 1 \in 1 .. n /\ n \in 1 .. n
        BY EmptySeq
      <3>2. SubSeq(t, 1, n) = <<t[1]>> \o SubSeq(t, 1 + 1, n)
        BY <3>1, SubSeqRecursiveFirst
      <3>3. SubSeq(t, 1, n) = t
        BY SubSeqFull
      <3>4. r = SubSeq(t, 2, n) /\ h = t[1]
        BY TailIsSubSeq
      <3>5. 1 + 1 = 2
        OBVIOUS
      <3> HIDE DEF n, h, r
      <3> QED BY <3>2, <3>3, <3>4, <3>5
    <2> QED BY <2>1, <2>2
  <1>2. <<h>> \in Seq(S)
    BY <1>1
  <1>3. Append(s, h) = s \o <<h>>
    BY <1>1, AppendIsConcat, Zenon
  <1>4. (s \o <<h>>) \o r = s \o (<<h>> \o r)
    BY <1>1, <1>2, ConcatAssociative
  <1> QED BY <1>1, <1>3, <1>4, Zenon

\* Putting an element after the second of two sequences puts it after both.
LEMMA AppendAfterBoth ==
  ASSUME NEW S, NEW s \in Seq(S), NEW t \in Seq(S), NEW c \in S
  PROVE  s \o Append(t, c) = Append(s \o t, c)
  <1>1. <<c>> \in Seq(S) /\ s \o t \in Seq(S)
    BY ConcatProperties
  <1>2. Append(t, c) = t \o <<c>> /\ Append(s \o t, c) = (s \o t) \o <<c>>
    BY <1>1, AppendIsConcat, Zenon
  <1>3. (s \o t) \o <<c>> = s \o (t \o <<c>>)
    BY <1>1, ConcatAssociative
  <1> QED BY <1>2, <1>3, Zenon

\* What holds of a sequence if it holds of all shorter ones holds of them all.
LEMMA ByLength ==
  ASSUME NEW S, NEW P,
         \A s \in Seq(S) : (\A t \in Seq(S) : Len(t) < Len(s) => t \in P) => s \in P
  PROVE  \A s \in Seq(S) : s \in P
  <1> DEFINE T == {n \in Nat : \E s \in Seq(S) : Len(s) = n /\ s \notin P}
  <1> SUFFICES ASSUME NEW s \in Seq(S), s \notin P PROVE FALSE
    OBVIOUS
  <1>1. Len(s) \in T
    OBVIOUS
  <1>2. PICK n \in T : \A m \in T : n <= m
    <2>1. T \in SUBSET Nat /\ T # {}
      BY <1>1
    <2> HIDE DEF T
    <2> QED BY <2>1, MinIsLeast
  <1>3. PICK t \in Seq(S) : Len(t) = n /\ t \notin P
    BY <1>2
  <1>4. ASSUME NEW u \in Seq(S), Len(u) < Len(t) PROVE u \in P
    <2> SUFFICES ASSUME u \notin P PROVE FALSE
      OBVIOUS
    <2>1. Len(u) \in T /\ Len(u) \in Nat /\ n \in Nat
      BY <1>2
    <2> QED BY <1>2, <1>3, <1>4, <2>1
  <1> QED BY <1>3, <1>4

\* f is defined from its values at shorter sequences, for those up to length n.
Defines(f, Ends, end, next, join, s) ==
  f[s] = IF s \in Ends THEN end[s] ELSE join[<<s, f[next[s]]>>]

DefinesUpTo(S, n, f, Ends, end, next, join) ==
  \A s \in Seq(S) : Len(s) <= n => Defines(f, Ends, end, next, join, s)
Shortens(S, Ends, next) ==
  next \in [Seq(S) -> Seq(S)] /\ \A s \in Seq(S) \ Ends : Len(next[s]) < Len(s)

\* Two functions so defined up to length n agree up to length n.
LEMMA DefinesAgree ==
  ASSUME NEW S, NEW Ends, NEW end, NEW join, NEW next, Shortens(S, Ends, next),
         NEW n \in Nat, NEW f, NEW g,
         DefinesUpTo(S, n, f, Ends, end, next, join), DefinesUpTo(S, n, g, Ends, end, next, join)
  PROVE  \A s \in Seq(S) : Len(s) <= n => f[s] = g[s]
  <1> DEFINE P == {s \in Seq(S) : Len(s) <= n => f[s] = g[s]}
  <1>1. ASSUME NEW s \in Seq(S), \A t \in Seq(S) : Len(t) < Len(s) => t \in P
        PROVE  s \in P
    <2> SUFFICES ASSUME Len(s) <= n PROVE f[s] = g[s]
      OBVIOUS
    <2>1. CASE s \in Ends
      BY <2>1 DEF Defines, DefinesUpTo
    <2>2. CASE s \notin Ends
      <3>1. next[s] \in Seq(S) /\ Len(next[s]) < Len(s)
        BY <2>2 DEF Shortens
      <3>2. next[s] \in P /\ Len(next[s]) <= n
        <4>1. Len(next[s]) \in Nat /\ Len(s) \in Nat
          BY <3>1
        <4> QED BY <1>1, <3>1, <4>1
      <3>3. f[next[s]] = g[next[s]]
        BY <3>2
      <3> QED BY <2>2, <3>3 DEF Defines, DefinesUpTo
    <2> QED BY <2>1, <2>2
  <1> HIDE DEF P
  <1>2. \A s \in Seq(S) : s \in P
    BY <1>1, ByLength
  <1> QED BY <1>2 DEF P

\* There is a function so defined: recursion on shorter sequences is sound.
LEMMA RecursionByLength ==
  ASSUME NEW S, NEW R, NEW Ends, NEW end \in [Seq(S) -> R], NEW join \in [Seq(S) \X R -> R],
         NEW next, Shortens(S, Ends, next)
  PROVE  \E f \in [Seq(S) -> R] : \A s \in Seq(S) : Defines(f, Ends, end, next, join, s)
  <1> DEFINE Upto(n, f) == DefinesUpTo(S, n, f, Ends, end, next, join)
             H == {n \in Nat : \E f \in [Seq(S) -> R] : Upto(n, f)}
             turn(f) == [s \in Seq(S) |-> IF s \in Ends THEN end[s] ELSE join[<<s, f[next[s]]>>]]
  <1>0. next \in [Seq(S) -> Seq(S)] /\ \A s \in Seq(S) \ Ends : Len(next[s]) < Len(s)
    BY DEF Shortens
  <1>1. ASSUME NEW f \in [Seq(S) -> R] PROVE turn(f) \in [Seq(S) -> R]
    <2>1. ASSUME NEW s \in Seq(S) PROVE join[<<s, f[next[s]]>>] \in R
      BY <1>0, <1>1
    <2> QED BY <2>1
  <1>2. 0 \in H
    <2>1. ASSUME NEW s \in Seq(S), Len(s) <= 0 PROVE Defines(end, Ends, end, next, join, s)
      <3>1. s \in Ends
        <4> SUFFICES ASSUME s \notin Ends PROVE FALSE
          OBVIOUS
        <4>1. next[s] \in Seq(S) /\ Len(next[s]) < Len(s)
          BY <1>0
        <4>2. Len(next[s]) \in Nat
          BY <4>1
        <4> QED BY <2>1, <4>1, <4>2
      <3> QED BY <3>1 DEF Defines
    <2> QED BY <2>1 DEF DefinesUpTo
  <1>3. ASSUME NEW n \in Nat, n \in H PROVE n + 1 \in H
    <2>1. PICK f \in [Seq(S) -> R] : Upto(n, f)
      BY <1>3
    <2> DEFINE g == turn(f)
    <2>2. \A s \in Seq(S) : g[s] = IF s \in Ends THEN end[s] ELSE join[<<s, f[next[s]]>>]
      OBVIOUS
    <2>3. g \in [Seq(S) -> R]
      BY <1>1
    <2> HIDE DEF g
    <2>4. \A s \in Seq(S) : Len(s) <= n => g[s] = f[s]
      BY <2>1, <2>2 DEF Defines, DefinesUpTo
    <2>5. ASSUME NEW s \in Seq(S), Len(s) <= n + 1, s \notin Ends
          PROVE  g[next[s]] = f[next[s]]
      <3>1. next[s] \in Seq(S) /\ Len(next[s]) < Len(s)
        BY <1>0, <2>5
      <3>2. Len(next[s]) \in Nat /\ Len(s) \in Nat
        BY <3>1
      <3>3. Len(next[s]) <= n
        BY <2>5, <3>1, <3>2
      <3> QED BY <2>4, <3>1, <3>3
    <2>6. Upto(n + 1, g)
      BY <2>2, <2>5 DEF Defines, DefinesUpTo
    <2>7. n + 1 \in Nat
      OBVIOUS
    <2> HIDE DEF Upto
    <2> QED BY <2>3, <2>6, <2>7
  <1>4. \A n \in Nat : n \in H
    <2> DEFINE T == {n \in Nat : n \notin H}
    <2> HIDE DEF H
    <2> SUFFICES ASSUME NEW x \in Nat, x \notin H PROVE FALSE
      OBVIOUS
    <2>1. PICK n \in T : \A m \in T : n <= m
      <3>1. T \in SUBSET Nat /\ T # {}
        OBVIOUS
      <3> HIDE DEF T
      <3> QED BY <3>1, MinIsLeast
    <2>2. n # 0 /\ n \in Nat /\ n \notin H
      BY <1>2, <2>1
    <2>3. n - 1 \in Nat /\ n - 1 + 1 = n /\ n - 1 < n
      BY <2>2
    <2>4. n - 1 \in H
      BY <2>1, <2>3
    <2> QED BY <1>3, <2>2, <2>3, <2>4
  <1> DEFINE G == [n \in Nat |-> CHOOSE f \in [Seq(S) -> R] : Upto(n, f)]
             h == [s \in Seq(S) |-> G[Len(s)][s]]
  <1>5. \A n \in Nat : G[n] \in [Seq(S) -> R] /\ Upto(n, G[n])
    <2> HIDE DEF Upto
    <2> QED BY <1>4
  <1>6. \A s \in Seq(S) : h[s] = G[Len(s)][s]
    OBVIOUS
  <1>7. h \in [Seq(S) -> R]
    <2>1. ASSUME NEW s \in Seq(S) PROVE G[Len(s)][s] \in R
      <3>1. Len(s) \in Nat
        OBVIOUS
      <3> HIDE DEF G, Upto
      <3> QED BY <1>5, <3>1
    <2> HIDE DEF G
    <2> QED BY <2>1
  <1> HIDE DEF G, h
  <1>8. ASSUME NEW s \in Seq(S) PROVE Defines(h, Ends, end, next, join, s)
    <2>1. Len(s) \in Nat /\ Defines(G[Len(s)], Ends, end, next, join, s)
      BY <1>5 DEF DefinesUpTo
    <2>2. CASE s \in Ends
      BY <1>6, <2>1, <2>2 DEF Defines
    <2>3. CASE s \notin Ends
      <3> DEFINE t == next[s]
                 n == Len(s)
                 m == Len(t)
      <3>1. t \in Seq(S) /\ m < n /\ m \in Nat /\ n \in Nat
        BY <1>0, <2>3
      <3> HIDE DEF t
      <3>2. Upto(m, G[m]) /\ Upto(n, G[n])
        BY <1>5, <3>1
      <3>3. \A u \in Seq(S) : Len(u) <= m => G[m][u] = G[n][u]
        <4>1. Upto(m, G[n])
          BY <3>1, <3>2 DEF DefinesUpTo
        <4> DEFINE f == G[m]
                   g == G[n]
        <4>2. /\ m \in Nat /\ Shortens(S, Ends, next)
              /\ DefinesUpTo(S, m, f, Ends, end, next, join)
              /\ DefinesUpTo(S, m, g, Ends, end, next, join)
          BY <3>1, <3>2, <4>1
        <4> HIDE DEF m, n, f, g
        <4>3. \A u \in Seq(S) : Len(u) <= m => f[u] = g[u]
          BY <4>2, DefinesAgree
        <4> QED BY <4>3 DEF f, g
      <3>4. G[n][t] = h[t]
        BY <1>6, <3>1, <3>3
      <3>5. G[n][s] = join[<<s, G[n][t]>>]
        BY <2>1, <2>3 DEF Defines, t
      <3>6. h[s] = join[<<s, h[t]>>]
        BY <1>6, <3>4, <3>5
      <3> QED BY <2>3, <3>6 DEF Defines, t
    <2> QED BY <2>2, <2>3
  <1> QED BY <1>7, <1>8

\* A part of a sequence.
LEMMA PartOf ==
  ASSUME NEW S, NEW s \in Seq(S), NEW m \in Nat \ {0}, NEW n \in 0 .. Len(s)
  PROVE  /\ SubSeq(s, m, n) \in Seq(S)
         /\ Len(SubSeq(s, m, n)) = IF m <= n THEN n - m + 1 ELSE 0
         /\ \A i \in 1 .. n - m + 1 : SubSeq(s, m, n)[i] = s[m + i - 1]
  <1>1. m \in Int /\ n \in Int /\ \A i \in m .. n : s[i] \in S
    OBVIOUS
  <1> QED BY <1>1, SubSeqProperties

\* Joining is associative.
LEMMA TextsJoin ==
  ASSUME NEW S
  PROVE  /\ \A a, b, c \in Seq(S) : (a \o b) \o c = a \o (b \o c)
         /\ \A a, b \in Seq(S) : a \o b \in Seq(S)
         /\ \A a \in Seq(S) : a \o <<>> = a /\ <<>> \o a = a
  <1>1. \A a, b, c \in Seq(S) : (a \o b) \o c = a \o (b \o c)
    BY ConcatAssociative, SMTT(20)
  <1>2. \A a, b \in Seq(S) : a \o b \in Seq(S)
    BY ConcatProperties
  <1>3. \A a \in Seq(S) : a \o <<>> = a /\ <<>> \o a = a
    BY ConcatEmptySeq
  <1> QED BY <1>1, <1>2, <1>3, Zenon

\* A sequence that is not empty is a shorter one and its last element.
LEMMA TakeLast ==
  ASSUME NEW S, NEW t \in Seq(S), t # <<>>
  PROVE  \E b \in Seq(S), c \in S : t = Append(b, c) /\ Len(b) < Len(t) /\ b = Front(t) /\ c = Last(t)
  <1>1. Len(t) \in Nat /\ Len(t) >= 1
    BY EmptySeq
  <1>2. Front(t) \in Seq(S) /\ Last(t) \in S /\ Front(t) \o <<Last(t)>> = t
    BY <1>1, FrontAndLast
  <1> DEFINE b == Front(t)
             c == Last(t)
  <1>3. b \in Seq(S) /\ c \in S /\ b \o <<c>> = t
    BY <1>2
  <1> HIDE DEF b, c
  <1>4. t = Append(b, c)
    BY <1>3, AppendIsConcat
  <1>5. Len(t) = Len(b) + 1 /\ Len(b) \in Nat
    BY <1>3, <1>4, AppendProperties
  <1>6. Len(b) < Len(t)
    BY <1>5
  <1> QED BY <1>3, <1>4, <1>6 DEF b, c

\* The front and the last of a sequence one element was appended to.
LEMMA TakeAppended ==
  ASSUME NEW S, NEW b \in Seq(S), NEW c \in S
  PROVE  Front(Append(b, c)) = b /\ Last(Append(b, c)) = c
  <1> DEFINE t == Append(b, c)
             n == Len(b)
  <1>1. t \in Seq(S) /\ Len(t) = n + 1 /\ (\A i \in 1 .. n : t[i] = b[i]) /\ t[n + 1] = c
    BY AppendProperties
  <1>2. n \in Nat
    OBVIOUS
  <1> HIDE DEF t, n
  <1>3. Last(t) = c
    BY <1>1 DEF Last
  <1>4. Front(t) = SubSeq(t, 1, n)
    BY <1>1, <1>2 DEF Front
  <1>5. /\ SubSeq(t, 1, n) \in Seq(S) /\ Len(SubSeq(t, 1, n)) = n
        /\ \A i \in 1 .. n : SubSeq(t, 1, n)[i] = t[i]
    <2>1. 1 \in Nat \ {0} /\ n \in 0 .. Len(t)
      BY <1>1, <1>2
    <2>2. /\ SubSeq(t, 1, n) \in Seq(S)
          /\ Len(SubSeq(t, 1, n)) = IF 1 <= n THEN n - 1 + 1 ELSE 0
          /\ \A i \in 1 .. n - 1 + 1 : SubSeq(t, 1, n)[i] = t[1 + i - 1]
      BY <1>1, <2>1, PartOf
    <2> QED BY <1>2, <2>2
  <1>6. SubSeq(t, 1, n) = b
    <2> DEFINE u == SubSeq(t, 1, n)
    <2>1. u \in Seq(S) /\ Len(u) = Len(b) /\ \A i \in 1 .. Len(u) : u[i] = b[i]
      BY <1>1, <1>5 DEF n
    <2> HIDE DEF u
    <2>2. u = b
      BY <2>1, SeqEqual
    <2> QED BY <2>2 DEF u
  <1> QED BY <1>3, <1>4, <1>6 DEF t

\* Sequences joined to sequences flatten to texts joined to texts.
LEMMA FlattenBoth ==
  ASSUME NEW S, NEW x \in Seq(Seq(S))
  PROVE  \A y \in Seq(Seq(S)) : FlattenSeq(x \o y) = FlattenSeq(x) \o FlattenSeq(y)
  <1> DEFINE T == Seq(S)
             P == {y \in Seq(T) : FlattenSeq(x \o y) = FlattenSeq(x) \o FlattenSeq(y)}
  <1>j. \A u, v, w \in Seq(S) : (u \o v) \o w = u \o (v \o w)
    BY ConcatAssociative, SMTT(20)
  <1>0. \A y \in Seq(T) : FlattenSeq(y) \in T
    BY FlattenType
  <1>1. ASSUME NEW y \in Seq(T), \A u \in Seq(T) : Len(u) < Len(y) => u \in P
        PROVE  y \in P
    <2>1. CASE y = <<>>
      <3>1. x \o <<>> = x /\ FlattenSeq(x) \o <<>> = FlattenSeq(x)
        <4> HIDE DEF T
        <4>1. x \in Seq(T)
          BY DEF T
        <4>2. x \o <<>> = x
          BY <4>1, ConcatEmptySeq, Zenon
        <4>3. FlattenSeq(x) \in Seq(S)
          BY <1>0, <4>1, Zenon DEF T
        <4>4. FlattenSeq(x) \o <<>> = FlattenSeq(x)
          BY <4>3, ConcatEmptySeq, Zenon
        <4> QED BY <4>2, <4>4
      <3> QED BY <2>1, <3>1, FlattenEmpty
    <2>2. CASE y # <<>>
      <3> HIDE DEF T
      <3>0. x \in Seq(T)
        BY DEF T
      <3>1. PICK b \in Seq(T), c \in T : y = Append(b, c) /\ Len(b) < Len(y)
        BY <2>2, TakeLast
      <3>2. FlattenSeq(x \o b) = FlattenSeq(x) \o FlattenSeq(b)
        BY <1>1, <3>1, Zenon
      <3>3. x \o y = Append(x \o b, c) /\ x \o b \in Seq(T)
        <4>1. x \o Append(b, c) = Append(x \o b, c)
          BY <3>0, <3>1, AppendAfterBoth
        <4>2. x \o b \in Seq(T)
          BY <3>0, <3>1, TextsJoin, Zenon
        <4> QED BY <3>1, <4>1, <4>2, Zenon
      <3>4. FlattenSeq(x \o y) = FlattenSeq(x \o b) \o c /\ FlattenSeq(y) = FlattenSeq(b) \o c
        <4>1. FlattenSeq(Append(x \o b, c)) = FlattenSeq(x \o b) \o c
          BY <3>1, <3>3, FlattenAppend, Zenon DEF T
        <4>2. FlattenSeq(Append(b, c)) = FlattenSeq(b) \o c
          BY <3>1, FlattenAppend, Zenon DEF T
        <4> QED BY <3>1, <3>3, <4>1, <4>2, Zenon
      <3>5. (FlattenSeq(x) \o FlattenSeq(b)) \o c = FlattenSeq(x) \o (FlattenSeq(b) \o c)
        <4> DEFINE d == FlattenSeq(x)
                   e == FlattenSeq(b)
        <4>1. d \in Seq(S) /\ e \in Seq(S) /\ c \in Seq(S)
          BY <1>0, <3>0, <3>1, Zenon DEF T
        <4> HIDE DEF d, e
        <4>2. (d \o e) \o c = d \o (e \o c)
          BY <1>j, <4>1, Zenon
        <4> QED BY <4>2 DEF d, e
      <3> QED BY <3>2, <3>4, <3>5, Zenon
    <2> QED BY <2>1, <2>2
  <1> HIDE DEF P, T
  <1>2. \A y \in Seq(T) : y \in P
    BY <1>1, ByLength, Zenon
  <1> QED BY <1>2, Zenon DEF P, T

\* The first of several sequences comes before the others.
LEMMA FlattenFirst ==
  ASSUME NEW S, NEW e \in Seq(Seq(S)), e # <<>>
  PROVE  /\ e[1] \in Seq(S) /\ Tail(e) \in Seq(Seq(S)) /\ FlattenSeq(Tail(e)) \in Seq(S)
         /\ FlattenSeq(e) = e[1] \o FlattenSeq(Tail(e))
  <1> DEFINE T == Seq(S)
             h == Head(e)
             r == Tail(e)
  <1> HIDE DEF T
  <1>1. h \in T /\ r \in Seq(T) /\ Append(<<>>, h) \o r = <<>> \o e
    <2>1. e \in Seq(T) /\ <<>> \in Seq(T)
      BY DEF T
    <2> QED BY <2>1, HeadMoves, Zenon
  <1>2. h = e[1]
    BY DEF T
  <1> HIDE DEF h, r
  <1>3. Append(<<>>, h) = <<h>> /\ <<h>> \in Seq(T)
    BY <1>1
  <1>4. <<>> \o e = e
    <2>1. e \in Seq(T)
      BY DEF T
    <2> QED BY <2>1, ConcatEmptySeq, Zenon
  <1>5. <<h>> \o r = e
    BY <1>1, <1>3, <1>4, Zenon
  <1>6. FlattenSeq(<<h>> \o r) = FlattenSeq(<<h>>) \o FlattenSeq(r)
    BY <1>1, <1>3, FlattenBoth, Zenon DEF T
  <1>7. FlattenSeq(<<h>>) = h
    BY <1>1, FlattenFew, Zenon DEF T
  <1>8. FlattenSeq(r) \in Seq(S)
    BY <1>1, FlattenType, Zenon DEF T
  <1> QED BY <1>1, <1>2, <1>5, <1>6, <1>7, <1>8, Zenon DEF T, r

\* A sequence is a beginning of it and the rest.
LEMMA Split ==
  ASSUME NEW S, NEW s \in Seq(S), NEW k \in 0 .. Len(s)
  PROVE  /\ SubSeq(s, 1, k) \in Seq(S) /\ SubSeq(s, k + 1, Len(s)) \in Seq(S)
         /\ Len(SubSeq(s, 1, k)) = k
         /\ SubSeq(s, 1, k) \o SubSeq(s, k + 1, Len(s)) = s
  <1> DEFINE n == Len(s)
  <1>1. n \in Nat /\ k \in 0 .. n /\ n \in 0 .. n /\ 1 \in Nat \ {0} /\ k + 1 \in Nat \ {0}
    OBVIOUS
  <1>2. SubSeq(s, 1, k) \in Seq(S) /\ SubSeq(s, k + 1, n) \in Seq(S)
    BY <1>1, PartOf, Zenon
  <1>3. Len(SubSeq(s, 1, k)) = k
    <2>1. Len(SubSeq(s, 1, k)) = IF 1 <= k THEN k - 1 + 1 ELSE 0
      BY <1>1, PartOf, Zenon
    <2> HIDE DEF n
    <2> QED BY <1>1, <2>1
  <1>4. 1 \in 1 .. n + 1 /\ k \in 1 - 1 .. n /\ n \in k .. n
    <2> HIDE DEF n
    <2> QED BY <1>1
  <1>5. SubSeq(s, 1, k) \o SubSeq(s, k + 1, n) = SubSeq(s, 1, n)
    BY <1>4, ConcatAdjacentSubSeq, Zenon
  <1>6. SubSeq(s, 1, n) = s
    BY SubSeqFull, Zenon
  <1> QED BY <1>2, <1>3, <1>5, <1>6, Zenon

-----------------------------------------------------------------------------
(* Cutting a text.                                                         *)

\* The points a text of length N may be cut at.
Rising(e, N) ==
  /\ e \in Seq(1 .. N) /\ Len(e) \in Nat
  /\ \A i \in 1 .. Len(e) : CutEnd(e, i - 1) \in 0 .. N /\ CutEnd(e, i - 1) < e[i] /\ e[i] \in 1 .. N
  /\ CutEnd(e, Len(e)) \in 0 .. N

\* They rise...
LEMMA PointsRise ==
  ASSUME NEW S, NEW b \in Seq(S), NEW e \in CutPoints(b)
  PROVE  Rising(e, Len(b))
  <1> DEFINE N == Len(b)
  <1>1. N \in Nat /\ DOMAIN b = 1 .. N
    OBVIOUS
  <1>2. PICK n \in 0 .. N : e \in [1 .. n -> 1 .. N]
    BY <1>1 DEF CutPoints, BoundedSeq, SeqOf
  <1>3. n \in Nat /\ e \in Seq(1 .. N) /\ Len(e) = n
    BY <1>1, <1>2
  <1>4. \A i \in 2 .. n : e[i - 1] < e[i]
    BY <1>3 DEF CutPoints
  <1> HIDE DEF N
  <1>5. ASSUME NEW i \in 1 .. n
        PROVE  CutEnd(e, i - 1) \in 0 .. N /\ CutEnd(e, i - 1) < e[i] /\ e[i] \in 1 .. N
    <2>1. e[i] \in 1 .. N
      BY <1>2
    <2>2. CASE i = 1
      BY <1>1, <2>1, <2>2 DEF CutEnd
    <2>3. CASE i # 1
      <3>1. i - 1 \in 1 .. n /\ i \in 2 .. n /\ i - 1 # 0
        BY <2>3
      <3>2. e[i - 1] \in 1 .. N /\ e[i - 1] < e[i]
        BY <1>2, <1>4, <3>1
      <3>3. CutEnd(e, i - 1) = e[i - 1]
        BY <3>1 DEF CutEnd
      <3> QED BY <1>1, <2>1, <3>2, <3>3
    <2> QED BY <2>2, <2>3
  <1>6. CutEnd(e, n) \in 0 .. N
    <2>1. CASE n = 0
      BY <1>1, <2>1 DEF CutEnd
    <2>2. CASE n # 0
      <3>1. n \in 1 .. n
        BY <1>3, <2>2
      <3> QED BY <1>1, <1>5, <2>2, <3>1 DEF CutEnd
    <2> QED BY <2>1, <2>2
  <1> QED BY <1>3, <1>5, <1>6 DEF Rising, N

\* ...so that there are no more than the text is long; all that rise are such points.
LEMMA RisingPoints ==
  ASSUME NEW S, NEW b \in Seq(S), NEW e, Rising(e, Len(b))
  PROVE  Len(e) <= CutEnd(e, Len(e)) /\ e \in CutPoints(b)
  <1> DEFINE N == Len(b)
             n == Len(e)
             H == {k \in 1 .. n : k <= e[k]}
  <1>1. N \in Nat /\ DOMAIN b = 1 .. N
    OBVIOUS
  <1>2. /\ e \in Seq(1 .. N) /\ n \in Nat
        /\ \A i \in 1 .. n : CutEnd(e, i - 1) < e[i] /\ e[i] \in 1 .. N
    BY DEF Rising
  <1>3. \A i \in 2 .. n : e[i - 1] < e[i]
    <2> HIDE DEF n, N
    <2> SUFFICES ASSUME NEW i \in 2 .. n PROVE e[i - 1] < e[i]
      OBVIOUS
    <2>1. i \in 1 .. n /\ i - 1 # 0
      OBVIOUS
    <2> QED BY <1>2, <2>1 DEF CutEnd
  <1>4. n <= CutEnd(e, n) /\ n <= N
    <2>1. CASE n = 0
      BY <1>1, <2>1 DEF CutEnd
    <2>2. CASE n # 0
      <3> HIDE DEF n, N
      <3>1. 1 \in H
        BY <1>2, <2>2
      <3>2. ASSUME NEW k \in 1 .. n, k < n, k \in H PROVE k + 1 \in H
        <4>1. k + 1 \in 2 .. n /\ k + 1 \in 1 .. n /\ (k + 1) - 1 = k
          BY <1>2, <3>2
        <4>2. k <= e[k] /\ e[k] < e[k + 1] /\ e[k] \in 1 .. N /\ e[k + 1] \in 1 .. N
          BY <1>2, <1>3, <3>2, <4>1
        <4>3. k + 1 <= e[k + 1]
          BY <1>1, <4>2
        <4> QED BY <4>1, <4>3
      <3> HIDE DEF H
      <3>3. \A k \in 1 .. n : k \in H
        BY <1>2, <3>1, <3>2, UpTo
      <3>4. n <= e[n] /\ e[n] <= N
        <4>1. n \in 1 .. n
          BY <1>2, <2>2
        <4>2. n \in H /\ e[n] \in 1 .. N
          BY <1>2, <3>3, <4>1, Zenon
        <4> QED BY <1>1, <4>2 DEF H
      <3> QED BY <1>1, <1>2, <2>2, <3>4 DEF CutEnd
    <2> QED BY <2>1, <2>2
  <1>5. e \in [1 .. n -> 1 .. N]
    BY <1>2
  <1>6. e \in BoundedSeq(1 .. N, N)
    <2>1. n \in 0 .. N
      <3> HIDE DEF n, N
      <3> QED BY <1>1, <1>2, <1>4
    <2> HIDE DEF n, N
    <2> QED BY <1>5, <2>1 DEF BoundedSeq, SeqOf
  <1> QED BY <1>1, <1>3, <1>4, <1>6, Zenon DEF CutPoints

\* Nothing is lost by cutting: the chunks, none of them empty, and the rest are the text.
LEMMA CutsKeep ==
  ASSUME NEW S, NEW b \in Seq(S), NEW c \in Cuts(b)
  PROVE  /\ c.chunks \in Seq(Seq(S)) /\ c.rest \in Seq(S)
         /\ FlattenSeq(c.chunks) \o c.rest = b
         /\ \A i \in DOMAIN c.chunks : c.chunks[i] # <<>>
  <1>1. PICK e \in CutPoints(b) : c = CutAt(b, e)
    BY DEF Cuts
  <1> DEFINE N == Len(b)
             n == Len(e)
             x == c.chunks
             r == c.rest
             at(i) == CutEnd(e, i - 1) + 1
  <1>2. Rising(e, N)
    BY PointsRise
  <1>3. /\ N \in Nat /\ n \in Nat /\ DOMAIN e = 1 .. n
        /\ \A i \in 1 .. n : CutEnd(e, i - 1) \in 0 .. N /\ CutEnd(e, i - 1) < e[i] /\ e[i] \in 1 .. N
        /\ CutEnd(e, n) \in 0 .. N
    BY <1>2 DEF Rising
  <1>4. x = [i \in 1 .. n |-> SubSeq(b, at(i), e[i])] /\ r = SubSeq(b, CutEnd(e, n) + 1, N)
    <2>1. c = Cut([i \in 1 .. n |-> SubSeq(b, at(i), e[i])], SubSeq(b, CutEnd(e, n) + 1, N))
      BY <1>1, <1>3, Zenon DEF CutAt
    <2> HIDE DEF at, n, N
    <2> QED BY <2>1 DEF Cut
  <1>5. ASSUME NEW i \in 1 .. n
        PROVE  x[i] = SubSeq(b, at(i), e[i]) /\ x[i] \in Seq(S) /\ x[i] # <<>>
    <2> HIDE DEF x, n, N
    <2>1. x[i] = SubSeq(b, at(i), e[i])
      BY <1>4, Zenon
    <2>2. at(i) \in Nat \ {0} /\ e[i] \in 0 .. N /\ at(i) <= e[i]
      BY <1>3
    <2> HIDE DEF at
    <2>3. SubSeq(b, at(i), e[i]) \in Seq(S) /\ Len(SubSeq(b, at(i), e[i])) = e[i] - at(i) + 1
      BY <2>2, PartOf DEF N
    <2>4. e[i] - at(i) + 1 # 0
      BY <1>3, <2>2
    <2>5. SubSeq(b, at(i), e[i]) # <<>>
      <3>1. Len(SubSeq(b, at(i), e[i])) # 0
        BY <2>3, <2>4, Zenon
      <3> DEFINE d == SubSeq(b, at(i), e[i])
      <3> HIDE DEF d
      <3>2. Len(d) # 0 => d # <<>>
        OBVIOUS
      <3> QED BY <3>1, <3>2 DEF d
    <2> QED BY <2>1, <2>3, <2>5, Zenon
  <1> DEFINE T == Seq(S)
  <1>6. x \in Seq(T) /\ Len(x) = n /\ DOMAIN x = 1 .. n
    <2>1. x \in [1 .. n -> T]
      <3>1. DOMAIN x = 1 .. n /\ x = [i \in 1 .. n |-> x[i]]
        <4> HIDE DEF at, n, x
        <4> QED BY <1>4
      <3> HIDE DEF x, n
      <3> QED BY <1>5, <3>1
    <2> HIDE DEF x, n, T
    <2> QED BY <1>3, <2>1
  <1>7. r \in Seq(S)
    <2>1. CutEnd(e, n) + 1 \in Nat \ {0} /\ N \in 0 .. N
      <3> HIDE DEF n, N
      <3> QED BY <1>3
    <2>2. SubSeq(b, CutEnd(e, n) + 1, N) \in Seq(S)
      BY <2>1, PartOf, Zenon
    <2> QED BY <1>4, <2>2, Zenon
  <1>8. FlattenSeq(x) = SubSeq(b, 1, CutEnd(e, n))
    <2> HIDE DEF x, r, T
    <2>1. CASE n = 0
      <3>1. x = <<>>
        BY <1>6, <2>1, EmptySeq
      <3>2. SubSeq(b, 1, 0) = <<>>
        BY SubSeqEmpty
      <3>3. CutEnd(e, n) = 0
        BY <2>1 DEF CutEnd
      <3> QED BY <3>1, <3>2, <3>3, FlattenEmpty, Zenon
    <2>2. CASE n # 0
      <3> HIDE DEF n, N
      <3>1. PICK f : Joins(x, n, f) /\ FlattenSeq(x) = f[n]
        BY <1>3, <1>6, <2>2, FlattenJoins
      <3> DEFINE H == {k \in 1 .. n : f[k] = SubSeq(b, 1, e[k])}
      <3>2. Grows(x, n, f)
        BY <1>3, <3>1, JoinsGrow
      <3>3. 1 \in H
        <4>1. 1 \in 1 .. n /\ at(1) = 1
          BY <1>3, <2>2 DEF CutEnd
        <4>2. f[1] = x[1]
          BY <2>2, <3>2, <4>1, Zenon DEF Grows
        <4>3. x[1] = SubSeq(b, at(1), e[1])
          BY <1>5, <4>1, Zenon
        <4> QED BY <4>1, <4>2, <4>3, Zenon
      <3>4. ASSUME NEW k \in 1 .. n, k < n, k \in H PROVE k + 1 \in H
        <4>1. k + 1 \in 1 .. n /\ at(k + 1) = e[k] + 1
          <5>1. k + 1 \in 1 .. n /\ (k + 1) - 1 = k /\ k # 0
            BY <1>3, <3>4
          <5> QED BY <5>1 DEF CutEnd
        <4>2. f[k + 1] = f[k] \o x[k + 1]
          BY <2>2, <3>2, <3>4, Zenon DEF Grows
        <4>3. x[k + 1] = SubSeq(b, e[k] + 1, e[k + 1])
          BY <1>5, <4>1, Zenon
        <4>4. 1 \in 1 .. N + 1 /\ e[k] \in 1 - 1 .. N /\ e[k + 1] \in e[k] .. N
          <5>1. (k + 1) - 1 = k /\ k # 0
            BY <3>4
          <5>2. CutEnd(e, (k + 1) - 1) < e[k + 1] /\ e[k] \in 1 .. N /\ e[k + 1] \in 1 .. N
            BY <1>3, <3>4, <4>1
          <5>3. e[k] < e[k + 1]
            BY <5>1, <5>2 DEF CutEnd
          <5> QED BY <1>3, <5>2, <5>3
        <4>5. SubSeq(b, 1, e[k]) \o SubSeq(b, e[k] + 1, e[k + 1]) = SubSeq(b, 1, e[k + 1])
          BY <4>4, ConcatAdjacentSubSeq, Zenon DEF N
        <4>6. f[k] = SubSeq(b, 1, e[k])
          BY <3>4
        <4> QED BY <4>1, <4>2, <4>3, <4>5, <4>6, Zenon
      <3> HIDE DEF H
      <3>5. \A k \in 1 .. n : k \in H
        BY <1>3, <3>3, <3>4, UpTo, Zenon
      <3>6. n \in H
        <4>1. n \in 1 .. n
          BY <1>3, <2>2
        <4> QED BY <3>5, <4>1, Zenon
      <3>7. CutEnd(e, n) = e[n]
        BY <2>2 DEF CutEnd
      <3> QED BY <3>1, <3>6, <3>7 DEF H
    <2> QED BY <2>1, <2>2
  <1>9. SubSeq(b, 1, CutEnd(e, n)) \o SubSeq(b, CutEnd(e, n) + 1, N) = b
    BY <1>3, Split, Zenon
  <1>10. FlattenSeq(x) \o r = b
    BY <1>4, <1>8, <1>9, Zenon
  <1>11. \A i \in DOMAIN x : x[i] # <<>>
    BY <1>5, <1>6, Zenon
  <1> QED BY <1>6, <1>7, <1>10, <1>11, Zenon

\* What follows place k of b, and a c and an r that meet in it.
Continues(b, k, t) == t = SubSeq(b, k + 1, Len(b))
Parted(b, k, c, r) ==
  /\ k + Len(c) \in 0 .. Len(b)
  /\ c = SubSeq(b, k + 1, k + Len(c)) /\ r = SubSeq(b, k + Len(c) + 1, Len(b))

\* A sequence that continues b after k is c and r: c ends where r begins.
LEMMA JoinedParts ==
  ASSUME NEW S, NEW b \in Seq(S), NEW k \in 0 .. Len(b), NEW c \in Seq(S), NEW r \in Seq(S),
         Continues(b, k, c \o r)
  PROVE  Parted(b, k, c, r)
  <1> DEFINE N == Len(b)
             m == Len(c)
             l == Len(r)
             t == c \o r
             z == k + m
  <1>1. /\ t \in Seq(S) /\ Len(t) = m + l /\ m \in Nat /\ l \in Nat /\ N \in Nat
        /\ \A i \in 1 .. m + l : t[i] = IF i <= m THEN c[i] ELSE r[i - m]
    <2>1. /\ t \in Seq(S) /\ Len(t) = m + l
          /\ \A i \in 1 .. m + l : t[i] = IF i <= m THEN c[i] ELSE r[i - m]
      BY ConcatProperties, Zenon
    <2>2. m \in Nat /\ l \in Nat /\ N \in Nat
      OBVIOUS
    <2> QED BY <2>1, <2>2, Zenon
  <1>2. k \in 0 .. N /\ k + 1 \in Nat \ {0} /\ N \in 0 .. N
    OBVIOUS
  <1>3. /\ Len(t) = IF k + 1 <= N THEN N - (k + 1) + 1 ELSE 0
        /\ \A i \in 1 .. N - (k + 1) + 1 : t[i] = b[k + 1 + i - 1]
    BY <1>2, PartOf DEF t, Continues
  <1> HIDE DEF N, m, l, t, z
  <1>4. m + l = N - k
    BY <1>1, <1>2, <1>3
  <1>5. z \in 0 .. N /\ z + 1 \in Nat \ {0} /\ N - z = l /\ z - k = m
    BY <1>1, <1>2, <1>4 DEF z
  <1>6. \A i \in 1 .. m : c[i] = b[k + i]
    <2> SUFFICES ASSUME NEW i \in 1 .. m PROVE c[i] = b[k + i]
      OBVIOUS
    <2>1. i \in 1 .. m + l /\ i \in 1 .. N - (k + 1) + 1 /\ k + 1 + i - 1 = k + i /\ i <= m
      BY <1>1, <1>2, <1>4
    <2> QED BY <1>1, <1>3, <2>1
  <1>7. \A i \in 1 .. l : r[i] = b[z + i]
    <2> SUFFICES ASSUME NEW i \in 1 .. l PROVE r[i] = b[z + i]
      OBVIOUS
    <2> DEFINE j == m + i
    <2>1. j \in 1 .. m + l /\ j \in 1 .. N - (k + 1) + 1 /\ k + 1 + j - 1 = z + i /\ ~(j <= m)
          /\ j - m = i
      BY <1>1, <1>2, <1>4, <1>5
    <2> HIDE DEF j
    <2>2. t[j] = r[j - m]
      BY <1>1, <2>1
    <2>3. t[j] = b[k + 1 + j - 1]
      BY <1>3, <2>1
    <2> QED BY <2>1, <2>2, <2>3
  <1>8. c = SubSeq(b, k + 1, z)
    <2> DEFINE d == SubSeq(b, k + 1, z)
    <2>1. d \in Seq(S) /\ Len(d) = m /\ \A i \in 1 .. m : d[i] = b[k + i]
      <3>1. /\ d \in Seq(S)
            /\ Len(d) = IF k + 1 <= z THEN z - (k + 1) + 1 ELSE 0
            /\ \A i \in 1 .. z - (k + 1) + 1 : d[i] = b[k + 1 + i - 1]
        BY <1>2, <1>5, PartOf DEF N
      <3> HIDE DEF d
      <3>2. Len(d) = m
        BY <1>1, <1>2, <1>5, <3>1
      <3>3. ASSUME NEW i \in 1 .. m PROVE d[i] = b[k + i]
        <4>1. i \in 1 .. z - (k + 1) + 1 /\ k + 1 + i - 1 = k + i
          BY <1>1, <1>2, <1>5
        <4> QED BY <3>1, <4>1
      <3> QED BY <3>1, <3>2, <3>3
    <2> HIDE DEF d
    <2>2. c = d
      BY <1>6, <2>1, SeqEqual DEF m
    <2> QED BY <2>2 DEF d
  <1>9. r = SubSeq(b, z + 1, N)
    <2> DEFINE d == SubSeq(b, z + 1, N)
    <2>1. d \in Seq(S) /\ Len(d) = l /\ \A i \in 1 .. l : d[i] = b[z + i]
      <3>1. /\ d \in Seq(S)
            /\ Len(d) = IF z + 1 <= N THEN N - (z + 1) + 1 ELSE 0
            /\ \A i \in 1 .. N - (z + 1) + 1 : d[i] = b[z + 1 + i - 1]
        BY <1>2, <1>5, PartOf DEF N
      <3> HIDE DEF d
      <3>2. Len(d) = l
        BY <1>1, <1>2, <1>5, <3>1
      <3>3. ASSUME NEW i \in 1 .. l PROVE d[i] = b[z + i]
        <4>1. i \in 1 .. N - (z + 1) + 1 /\ z + 1 + i - 1 = z + i
          BY <1>1, <1>2, <1>5
        <4> QED BY <3>1, <4>1
      <3> QED BY <3>1, <3>2, <3>3
    <2> HIDE DEF d
    <2>2. r = d
      BY <1>7, <2>1, SeqEqual DEF l
    <2> QED BY <2>2 DEF d
  <1> QED BY <1>5, <1>8, <1>9, Zenon DEF z, m, N, Parted

\* A chunk more is an end more.
LEMMA CutOnce ==
  ASSUME NEW S, NEW b \in Seq(S), NEW y \in Seq(Seq(S)), NEW c \in Seq(S), c # <<>>, NEW r \in Seq(S),
         Cut(y, c \o r) \in Cuts(b)
  PROVE  Cut(Append(y, c), r) \in Cuts(b)
  <1> DEFINE T == Seq(S)
             cr == c \o r
             N == Len(b)
             m == Len(c)
  <1> HIDE DEF T
  <1>t. T = Seq(S) /\ y \in Seq(T) /\ c \in T
    BY DEF T
  <1>1. PICK e \in CutPoints(b) : Cut(y, cr) = CutAt(b, e)
    BY Zenon DEF Cuts
  <1> DEFINE n == Len(e)
             k == CutEnd(e, n)
             z == k + m
             at(i) == CutEnd(e, i - 1) + 1
             u == Append(e, z)
             bt(i) == CutEnd(u, i - 1) + 1
             x == Append(y, c)
  <1>2. Rising(e, N)
    BY PointsRise
  <1>3. /\ N \in Nat /\ n \in Nat /\ DOMAIN e = 1 .. n /\ e \in Seq(1 .. N) /\ k \in 0 .. N
        /\ \A i \in 1 .. n : CutEnd(e, i - 1) \in 0 .. N /\ CutEnd(e, i - 1) < e[i] /\ e[i] \in 1 .. N
    BY <1>2 DEF Rising
  <1>4. y = [i \in 1 .. n |-> SubSeq(b, at(i), e[i])] /\ cr = SubSeq(b, k + 1, N)
    <2>1. CutAt(b, e) = Cut([i \in 1 .. n |-> SubSeq(b, at(i), e[i])], SubSeq(b, k + 1, N))
      BY <1>3, Zenon DEF CutAt
    <2> HIDE DEF at, n, N, k, cr
    <2>2. Cut(y, cr) = Cut([i \in 1 .. n |-> SubSeq(b, at(i), e[i])], SubSeq(b, k + 1, N))
      BY <1>1, <2>1, Zenon
    <2> QED BY <2>2 DEF Cut
  <1>5. z \in 0 .. N /\ c = SubSeq(b, k + 1, z) /\ r = SubSeq(b, z + 1, N)
    <2>1. k \in 0 .. Len(b) /\ Continues(b, k, c \o r)
      BY <1>3, <1>4, Zenon DEF Continues
    <2>2. Parted(b, k, c, r)
      <3> HIDE DEF k
      <3> QED BY <2>1, JoinedParts, Zenon
    <2> QED BY <2>2, Zenon DEF Parted
  <1>6. m \in Nat /\ m # 0
    BY EmptySeq
  <1> HIDE DEF k, N, m, cr
  <1>7. z \in 1 .. N /\ k < z
    BY <1>3, <1>5, <1>6
  <1>8. Len(y) = n /\ \A i \in 1 .. n : y[i] = SubSeq(b, at(i), e[i])
    <2> HIDE DEF at, n
    <2>1. DOMAIN y = 1 .. n /\ \A i \in 1 .. n : y[i] = SubSeq(b, at(i), e[i])
      BY <1>4
    <2>2. Len(y) \in Nat /\ DOMAIN y = 1 .. Len(y)
      BY <1>t, LenProperties
    <2>3. Len(y) = n
      BY <1>3, <2>1, <2>2
    <2> QED BY <2>1, <2>3
  <1> HIDE DEF z, n
  <1>9. u \in Seq(1 .. N) /\ Len(u) = n + 1 /\ (\A i \in 1 .. n : u[i] = e[i]) /\ u[n + 1] = z
    BY <1>3, <1>7, AppendProperties DEF n
  <1>10. x \in Seq(T) /\ Len(x) = n + 1 /\ (\A i \in 1 .. n : x[i] = y[i]) /\ x[n + 1] = c
    BY <1>8, <1>t, AppendProperties
  <1> HIDE DEF u, x
  <1>11. \A i \in 1 .. n + 1 : CutEnd(u, i - 1) = CutEnd(e, i - 1)
    <2> SUFFICES ASSUME NEW i \in 1 .. n + 1 PROVE CutEnd(u, i - 1) = CutEnd(e, i - 1)
      OBVIOUS
    <2>1. CASE i = 1
      BY <2>1 DEF CutEnd
    <2>2. CASE i # 1
      <3>1. i - 1 \in 1 .. n
        BY <1>3, <2>2
      <3> QED BY <1>9, <3>1 DEF CutEnd
    <2> QED BY <2>1, <2>2
  <1>12. CutEnd(e, (n + 1) - 1) = k /\ CutEnd(u, n + 1) = z
    <2>1. (n + 1) - 1 = n /\ n + 1 # 0
      BY <1>3
    <2> QED BY <1>9, <2>1 DEF CutEnd, k, n
  <1>13. Rising(u, N)
    <2>1. ASSUME NEW i \in 1 .. n + 1
          PROVE  CutEnd(u, i - 1) \in 0 .. N /\ CutEnd(u, i - 1) < u[i] /\ u[i] \in 1 .. N
      <3>1. CASE i = n + 1
        BY <1>3, <1>7, <1>9, <1>11, <1>12, <3>1
      <3>2. CASE i # n + 1
        <4>1. i \in 1 .. n
          BY <1>3, <3>2
        <4> QED BY <1>3, <1>9, <1>11, <4>1
      <3> QED BY <3>1, <3>2
    <2>2. CutEnd(u, n + 1) \in 0 .. N /\ n + 1 \in Nat
      BY <1>3, <1>5, <1>12
    <2> QED BY <1>9, <2>1, <2>2 DEF Rising
  <1>14. u \in CutPoints(b)
    BY <1>13, RisingPoints DEF N
  <1>15. ASSUME NEW i \in 1 .. n + 1 PROVE x[i] = SubSeq(b, bt(i), u[i])
    <2>1. CASE i = n + 1
      <3>0. n + 1 \in 1 .. n + 1
        BY <1>3
      <3>1. bt(n + 1) = k + 1
        BY <1>11, <1>12, <3>0, Zenon
      <3> QED BY <1>5, <1>9, <1>10, <2>1, <3>1
    <2>2. CASE i # n + 1
      <3>1. i \in 1 .. n
        BY <1>3, <2>2
      <3>2. bt(i) = at(i)
        BY <1>11
      <3> HIDE DEF at, bt
      <3> QED BY <1>8, <1>9, <1>10, <3>1, <3>2
    <2> QED BY <2>1, <2>2
  <1>16. x = [i \in 1 .. n + 1 |-> SubSeq(b, bt(i), u[i])]
    <2>1. DOMAIN x = 1 .. n + 1 /\ x = [i \in DOMAIN x |-> x[i]]
      BY <1>10
    <2> HIDE DEF bt
    <2> QED BY <1>15, <2>1
  <1>17. CutAt(b, u) = Cut(x, r)
    <2>1. DOMAIN u = 1 .. n + 1
      BY <1>9
    <2>2. CutAt(b, u) = Cut([i \in 1 .. n + 1 |-> SubSeq(b, bt(i), u[i])], SubSeq(b, z + 1, N))
      BY <1>9, <1>12, <2>1, Zenon DEF CutAt, N
    <2> QED BY <1>5, <1>16, <2>2, Zenon
  <1> QED BY <1>14, <1>17, Zenon DEF Cuts, x

\* Every way to cut a text into chunks that are not empty, and a rest, is in Cuts.
LEMMA CutsAll ==
  ASSUME NEW S, NEW x \in Seq(Seq(S)), NEW r \in Seq(S), \A i \in DOMAIN x : x[i] # <<>>
  PROVE  Cut(x, r) \in Cuts(FlattenSeq(x) \o r)
  <1> DEFINE T == Seq(S)
             Whole(w) == \A i \in DOMAIN w : w[i] # <<>>
             P == {w \in Seq(T) : Whole(w) => \A t \in Seq(S) : Cut(w, t) \in Cuts(FlattenSeq(w) \o t)}
  <1> HIDE DEF T
  <1>j. \A u, v, w \in Seq(S) : (u \o v) \o w = u \o (v \o w)
    BY ConcatAssociative, SMTT(20)
  <1>0. \A w \in Seq(T) : FlattenSeq(w) \in Seq(S)
    BY FlattenType DEF T
  <1>1. ASSUME NEW w \in Seq(T), \A v \in Seq(T) : Len(v) < Len(w) => v \in P
        PROVE  w \in P
    <2> SUFFICES ASSUME Whole(w), NEW t \in Seq(S) PROVE Cut(w, t) \in Cuts(FlattenSeq(w) \o t)
      OBVIOUS
    <2>1. CASE w = <<>>
      <3>1. FlattenSeq(w) \o t = t
        BY <2>1, FlattenEmpty, ConcatEmptySeq, Zenon
      <3> DEFINE e == <<>>
                 N == Len(t)
      <3>2. N \in Nat /\ Len(e) = 0 /\ DOMAIN e = {} /\ CutEnd(e, 0) = 0 /\ e \in Seq(1 .. N)
        BY DEF CutEnd
      <3>3. Rising(e, N)
        <4> HIDE DEF e, N
        <4> QED BY <3>2 DEF Rising
      <3>4. e \in CutPoints(t)
        BY <3>3, RisingPoints, Zenon
      <3>5. CutAt(t, e) = Cut(w, t)
        <4>1. CutAt(t, e) = Cut([i \in {} |-> SubSeq(t, CutEnd(e, i - 1) + 1, e[i])], SubSeq(t, 1, N))
          <5>1. CutEnd(e, Len(e)) + 1 = 1
            BY <3>2
          <5> HIDE DEF e
          <5> QED BY <3>2, <5>1, Zenon DEF CutAt
        <4>2. SubSeq(t, 1, N) = t
          BY SubSeqFull, Zenon
        <4>3. [i \in {} |-> SubSeq(t, CutEnd(e, i - 1) + 1, e[i])] = <<>>
          OBVIOUS
        <4> QED BY <2>1, <4>1, <4>2, <4>3, Zenon
      <3> QED BY <3>1, <3>4, <3>5, Zenon DEF Cuts
    <2>2. CASE w # <<>>
      <3>1. PICK v \in Seq(T), c \in T : w = Append(v, c) /\ Len(v) < Len(w)
        BY <2>2, TakeLast
      <3>2. c # <<>> /\ Whole(v)
        <4> DEFINE n == Len(v)
        <4>1. /\ n \in Nat /\ Len(w) = n + 1 /\ DOMAIN w = 1 .. n + 1 /\ DOMAIN v = 1 .. n
              /\ w[n + 1] = c /\ \A i \in 1 .. n : w[i] = v[i]
          BY <3>1, AppendProperties
        <4> HIDE DEF n
        <4>2. n + 1 \in DOMAIN w /\ \A i \in 1 .. n : i \in DOMAIN w
          BY <4>1
        <4> QED BY <4>1, <4>2, Zenon
      <3>3. c \in Seq(S) /\ c \o t \in Seq(S) /\ FlattenSeq(v) \in Seq(S)
        <4>1. c \in Seq(S)
          BY <3>1 DEF T
        <4> QED BY <1>0, <3>1, <4>1, TextsJoin, Zenon
      <3>4. Cut(v, c \o t) \in Cuts(FlattenSeq(v) \o (c \o t))
        BY <1>1, <3>1, <3>2, <3>3, Zenon
      <3>5. FlattenSeq(w) \o t = FlattenSeq(v) \o (c \o t)
        <4>1. FlattenSeq(w) = FlattenSeq(v) \o c
          BY <3>1, FlattenAppend, Zenon DEF T
        <4> DEFINE d == FlattenSeq(v)
        <4>2. d \in Seq(S)
          BY <3>3
        <4> HIDE DEF d
        <4>3. (d \o c) \o t = d \o (c \o t)
          BY <1>j, <3>3, <4>2, Zenon
        <4> QED BY <4>1, <4>3, Zenon DEF d
      <3> DEFINE b == FlattenSeq(v) \o (c \o t)
      <3>6. b \in Seq(S)
        BY <3>3, TextsJoin, Zenon
      <3> HIDE DEF b
      <3>7. Cut(Append(v, c), t) \in Cuts(b)
        BY <3>1, <3>2, <3>3, <3>4, <3>6, CutOnce, Zenon DEF b, T
      <3> QED BY <3>1, <3>5, <3>7, Zenon DEF b
    <2> QED BY <2>1, <2>2
  <1> HIDE DEF P
  <1>2. \A w \in Seq(T) : w \in P
    BY <1>1, ByLength, Zenon
  <1>3. x \in P
    BY <1>2, Zenon DEF T
  <1> QED BY <1>3, Zenon DEF P

-----------------------------------------------------------------------------
(* What a pipeline holds, and what its operations make of it.              *)

Units == 1 .. MaxUnits

\* What is spoken or waits to be, given the chunks taken, and all that is kept
\* of the text.
SaidOf(s, p) == FlattenSeq(s \o p.output)
KeptOf(s, p) == (SaidOf(s, p) \o FlattenSeq(p.emitting)) \o p.buffer

\* Units are numbers.
LEMMA UnitsAreNumbers == Units \in SUBSET Nat /\ Chunk = Seq(Units)
  BY SpeechTextAssumption DEF Units, Chunk

\* The fields of a pipeline.
LEMMA PipelineFields ==
  ASSUME NEW p \in PipelineRecord
  PROVE  /\ p.held \in BOOLEAN /\ p.closed \in BOOLEAN /\ p.cancelled \in BOOLEAN
         /\ p.pushed \in Chunk /\ p.buffer \in Chunk
         /\ p.emitting \in Seq(Chunk) /\ p.output \in Seq(Chunk)
         /\ p.from \in SUBSET {"llm", "client"}
  BY DEF PipelineRecord

\* Joining units is associative.
LEMMA Joined ==
  \A a, b, c \in Seq(Units) : (a \o b) \o c = a \o (b \o c)
  BY ConcatAssociative

\* What is kept is text.
LEMMA KeptIsText ==
  ASSUME NEW p \in PipelineRecord, NEW s \in Seq(Chunk)
  PROVE  /\ SaidOf(s, p) \in Chunk /\ FlattenSeq(p.emitting) \in Chunk
         /\ SaidOf(s, p) \o FlattenSeq(p.emitting) \in Chunk /\ KeptOf(s, p) \in Chunk
  <1>1. p.output \in Seq(Chunk) /\ p.emitting \in Seq(Chunk) /\ p.buffer \in Chunk
    BY PipelineFields
  <1> DEFINE o == p.output
             e == p.emitting
             b == p.buffer
             a == SaidOf(s, p)
             f == FlattenSeq(e)
  <1>2. s \o o \in Seq(Chunk)
    <2> HIDE DEF o
    <2> QED BY <1>1, ConcatProperties DEF o
  <1>3. a \in Chunk
    <2>1. FlattenSeq(s \o o) \in Seq(Units)
      <3> DEFINE so == s \o o
      <3>1. so \in Seq(Seq(Units))
        BY <1>2, UnitsAreNumbers, Zenon
      <3> HIDE DEF so
      <3>2. FlattenSeq(so) \in Seq(Units)
        BY <3>1, FlattenType, Zenon
      <3> QED BY <3>2 DEF so
    <2> QED BY <2>1, UnitsAreNumbers, Zenon DEF SaidOf
  <1>4. f \in Chunk
    <2>1. e \in Seq(Seq(Units))
      BY <1>1, UnitsAreNumbers, Zenon
    <2> HIDE DEF e
    <2>2. FlattenSeq(e) \in Seq(Units)
      BY <2>1, FlattenType, Zenon
    <2> QED BY <2>2, UnitsAreNumbers, Zenon
  <1> HIDE DEF a, f, b
  <1>5. a \in Seq(Units) /\ f \in Seq(Units) /\ b \in Seq(Units)
    BY <1>1, <1>3, <1>4, UnitsAreNumbers, Zenon DEF b
  <1>6. a \o f \in Seq(Units)
    BY <1>5, ConcatProperties
  <1>7. (a \o f) \o b \in Seq(Units)
    BY <1>5, <1>6, ConcatProperties
  <1> QED BY <1>3, <1>4, <1>6, <1>7, UnitsAreNumbers, Zenon DEF a, f, b, e, KeptOf

\* Flushing leaves no rest.
LEMMA FlushesKeep ==
  ASSUME NEW S, NEW b \in Seq(S), NEW c \in Flushes(b)
  PROVE  /\ c.chunks \in Seq(Seq(S)) /\ c.rest \in Seq(S)
         /\ FlattenSeq(c.chunks) \o c.rest = b /\ c.rest = <<>>
  BY CutsKeep, Zenon DEF Flushes

\* Pushing puts the next unit after all that is kept.
LEMMA PushedKeeps ==
  ASSUME NEW p \in PipelineRecord, NEW s \in Seq(Chunk), NEW by \in {"llm", "client"},
         p.emitting = <<>>, Len(p.pushed) < MaxUnits, NEW q \in Pushed(p, by)
  PROVE  /\ q \in PipelineRecord
         /\ q.held = p.held /\ q.closed = p.closed /\ q.cancelled = p.cancelled
         /\ q.output = p.output /\ q.from = p.from \cup {by}
         /\ q.pushed = Append(p.pushed, Len(p.pushed) + 1)
         /\ KeptOf(s, q) = Append(KeptOf(s, p), Len(p.pushed) + 1)
  <1> DEFINE unit == Len(p.pushed) + 1
             b == Append(p.buffer, unit)
             a == SaidOf(s, p)
  <1>1. p.pushed \in Seq(Units) /\ p.buffer \in Seq(Units) /\ a \in Seq(Units)
    BY KeptIsText, PipelineFields, UnitsAreNumbers, Zenon
  <1>2. unit \in Units
    <2>1. Len(p.pushed) \in Nat
      BY <1>1, LenProperties
    <2> QED BY <2>1, SpeechTextAssumption DEF Units
  <1>3. PICK c \in Cuts(b) :
            q = [p EXCEPT !.pushed = Append(@, unit), !.buffer = c.rest, !.emitting = c.chunks,
                          !.from = @ \cup {by}]
    BY DEF Pushed
  <1> HIDE DEF unit
  <1>4. b \in Chunk /\ b \in Seq(Units) /\ Append(p.pushed, unit) \in Chunk
    BY <1>1, <1>2, AppendProperties, UnitsAreNumbers
  <1>5. /\ c.chunks \in Seq(Chunk) /\ c.rest \in Chunk
        /\ FlattenSeq(c.chunks) \o c.rest = b
    <2> HIDE DEF b
    <2> QED BY <1>4, CutsKeep, UnitsAreNumbers, Zenon
  <1>6. /\ q.held = p.held /\ q.closed = p.closed /\ q.cancelled = p.cancelled
        /\ q.output = p.output /\ q.from = p.from \cup {by}
        /\ q.pushed = Append(p.pushed, unit) /\ q.buffer = c.rest /\ q.emitting = c.chunks
    BY <1>3 DEF PipelineRecord
  <1>7. q \in PipelineRecord
    BY <1>3, <1>4, <1>5 DEF PipelineRecord
  <1>8. KeptOf(s, q) = Append(KeptOf(s, p), unit)
    <2> DEFINE f == FlattenSeq(q.emitting)
               r == q.buffer
    <2>1. f \in Seq(Units) /\ r \in Seq(Units) /\ f \o r = b
      <3>1. q.buffer \in Chunk /\ FlattenSeq(q.emitting) \in Chunk
        BY <1>7, KeptIsText, PipelineFields, Zenon
      <3> QED BY <1>5, <1>6, <3>1, UnitsAreNumbers, Zenon
    <2>2. SaidOf(s, q) = a
      BY <1>6, Zenon DEF SaidOf
    <2>3. KeptOf(s, p) = a \o p.buffer
      <3>1. a \o <<>> = a
        BY <1>1, ConcatEmptySeq, Zenon
      <3> QED BY <3>1, FlattenEmpty, Zenon DEF KeptOf
    <2>4. KeptOf(s, q) = (a \o f) \o r
      BY <2>2, Zenon DEF KeptOf
    <2> HIDE DEF a, f, r
    <2>5. (a \o f) \o r = a \o (f \o r)
      <3>1. a \in Seq(Units) /\ f \in Seq(Units) /\ r \in Seq(Units)
        BY <1>1, <2>1
      <3> QED BY <3>1, Joined
    <2>6. a \o Append(p.buffer, unit) = Append(a \o p.buffer, unit)
      <3> DEFINE d == p.buffer
      <3>1. d \in Seq(Units) /\ a \in Seq(Units) /\ unit \in Units
        BY <1>1, <1>2
      <3> HIDE DEF d
      <3>2. a \o Append(d, unit) = Append(a \o d, unit)
        BY <3>1, AppendAfterBoth
      <3> QED BY <3>2 DEF d
    <2> QED BY <2>1, <2>3, <2>4, <2>5, <2>6, Zenon
  <1> QED BY <1>5, <1>6, <1>7, <1>8, Zenon DEF unit

\* Flushing keeps all that is kept, and leaves nothing in the chunker.
LEMMA FlushedKeeps ==
  ASSUME NEW p \in PipelineRecord, NEW s \in Seq(Chunk), NEW by \in {"llm", "client"},
         p.emitting = <<>>, NEW q \in Flushed(p, by)
  PROVE  /\ q \in PipelineRecord /\ q.buffer = <<>>
         /\ q.held = p.held /\ q.closed = p.closed /\ q.cancelled = p.cancelled
         /\ q.output = p.output /\ q.from = p.from \cup {by} /\ q.pushed = p.pushed
         /\ KeptOf(s, q) = KeptOf(s, p)
  <1> DEFINE b == p.buffer
             a == SaidOf(s, p)
  <1>1. b \in Chunk /\ b \in Seq(Units) /\ a \in Seq(Units)
    BY KeptIsText, PipelineFields, UnitsAreNumbers, Zenon
  <1>2. PICK c \in Flushes(b) :
            q = [p EXCEPT !.buffer = c.rest, !.emitting = c.chunks, !.from = @ \cup {by}]
    BY DEF Flushed
  <1>3. /\ c.chunks \in Seq(Chunk) /\ c.rest \in Chunk
        /\ FlattenSeq(c.chunks) \o c.rest = b /\ c.rest = <<>>
    <2> HIDE DEF b
    <2> QED BY <1>1, FlushesKeep, UnitsAreNumbers, Zenon
  <1>4. /\ q.held = p.held /\ q.closed = p.closed /\ q.cancelled = p.cancelled
        /\ q.output = p.output /\ q.from = p.from \cup {by}
        /\ q.pushed = p.pushed /\ q.buffer = c.rest /\ q.emitting = c.chunks
    BY <1>2 DEF PipelineRecord
  <1>5. q \in PipelineRecord
    BY <1>2, <1>3 DEF PipelineRecord
  <1>6. KeptOf(s, q) = KeptOf(s, p)
    <2> DEFINE f == FlattenSeq(q.emitting)
               r == q.buffer
    <2>1. f \in Seq(Units) /\ r \in Seq(Units) /\ f \o r = b
      <3>1. q.buffer \in Chunk /\ FlattenSeq(q.emitting) \in Chunk
        BY <1>5, KeptIsText, PipelineFields, Zenon
      <3> QED BY <1>3, <1>4, <3>1, UnitsAreNumbers, Zenon
    <2>2. SaidOf(s, q) = a
      BY <1>4, Zenon DEF SaidOf
    <2>3. KeptOf(s, p) = a \o b
      <3>1. a \o <<>> = a
        BY <1>1, ConcatEmptySeq, Zenon
      <3> QED BY <3>1, FlattenEmpty, Zenon DEF KeptOf
    <2>4. KeptOf(s, q) = (a \o f) \o r
      BY <2>2, Zenon DEF KeptOf
    <2> HIDE DEF a, b, f, r
    <2>5. (a \o f) \o r = a \o (f \o r)
      <3>1. a \in Seq(Units) /\ f \in Seq(Units) /\ r \in Seq(Units)
        BY <1>1, <2>1
      <3> QED BY <3>1, Joined
    <2> QED BY <2>1, <2>3, <2>4, <2>5, Zenon
  <1> QED BY <1>3, <1>4, <1>5, <1>6, Zenon

\* What is said is the beginning of what is kept, and rises as it does.
LEMMA SaidIsKept ==
  ASSUME NEW p \in PipelineRecord, NEW s \in Seq(Chunk), NEW n \in Nat
  PROVE  /\ IsPrefix(SaidOf(s, p), KeptOf(s, p))
         /\ Ascends(KeptOf(s, p), n) => Ascends(SaidOf(s, p), n)
  <1> DEFINE a == SaidOf(s, p)
             f == FlattenSeq(p.emitting)
             b == p.buffer
  <1>1. a \in Seq(Units) /\ f \in Seq(Units) /\ b \in Seq(Units)
    BY KeptIsText, PipelineFields, UnitsAreNumbers, Zenon
  <1>2. KeptOf(s, p) = (a \o f) \o b
    BY Zenon DEF KeptOf
  <1>3. Units \in SUBSET Nat
    BY UnitsAreNumbers
  <1> HIDE DEF a, f, b
  <1>4. (a \o f) \o b = a \o (f \o b)
    BY <1>1, Joined
  <1>5. f \o b \in Seq(Units)
    BY <1>1, ConcatProperties
  <1> DEFINE r == f \o b
  <1> HIDE DEF r
  <1>6. IsPrefix(a, a \o r) /\ (Ascends(a \o r, n) => Ascends(a, n))
    <2>1. r \in Seq(Units)
      BY <1>5 DEF r
    <2> QED BY <1>1, <1>3, <2>1, PrefixOfConcat, AscendsPart, Zenon
  <1> QED BY <1>2, <1>4, <1>6, Zenon DEF a, r

\* A chunk put at the end of the output is said after the others.
LEMMA SaidNext ==
  ASSUME NEW s \in Seq(Chunk), NEW o \in Seq(Chunk), NEW c \in Chunk
  PROVE  FlattenSeq(s \o Append(o, c)) = FlattenSeq(s \o o) \o c
  <1>1. s \o o \in Seq(Chunk)
    BY ConcatProperties
  <1>2. s \o Append(o, c) = Append(s \o o, c)
    BY AppendAfterBoth
  <1> DEFINE so == s \o o
  <1>3. so \in Seq(Seq(Units)) /\ c \in Seq(Units)
    BY <1>1, UnitsAreNumbers, Zenon
  <1> HIDE DEF so
  <1>4. FlattenSeq(Append(so, c)) = FlattenSeq(so) \o c
    BY <1>3, FlattenAppend, Zenon
  <1> QED BY <1>2, <1>4, Zenon DEF so

\* Putting a chunk into output keeps all that is kept.
LEMMA EmittedKeeps ==
  ASSUME NEW p \in PipelineRecord, NEW s \in Seq(Chunk),
         p.emitting # <<>>, Len(p.output) < Cap
  PROVE  LET q == Emitted(p)
         IN  /\ q \in PipelineRecord /\ Len(q.output) <= Cap
             /\ q.held = p.held /\ q.closed = p.closed /\ q.cancelled = p.cancelled
             /\ q.from = p.from /\ q.pushed = p.pushed /\ q.buffer = p.buffer
             /\ KeptOf(s, q) = KeptOf(s, p)
  <1> DEFINE q == Emitted(p)
             e == p.emitting
             h == e[1]
             a == SaidOf(s, p)
             b == p.buffer
             r == FlattenSeq(Tail(e))
             o == p.output
  <1>1. /\ o \in Seq(Chunk) /\ e \in Seq(Chunk) /\ e \in Seq(Seq(Units)) /\ a \in Seq(Units)
        /\ b \in Seq(Units)
    BY KeptIsText, PipelineFields, UnitsAreNumbers, Zenon
  <1>2. e # <<>>
    OBVIOUS
  <1>3. /\ h \in Seq(Units) /\ r \in Seq(Units) /\ FlattenSeq(e) = h \o r /\ h \in Chunk
        /\ Tail(e) \in Seq(Chunk)
    <2> HIDE DEF e
    <2> QED BY <1>1, <1>2, FlattenFirst, UnitsAreNumbers, Zenon
  <1>4. q = [p EXCEPT !.output = Append(@, h), !.emitting = Tail(e)]
    BY <1>1, <1>2 DEF Emitted
  <1>6. Append(o, h) \in Seq(Chunk) /\ Len(Append(o, h)) = Len(o) + 1
    <2> HIDE DEF o, h
    <2> QED BY <1>1, <1>3, AppendProperties
  <1>7. /\ q.held = p.held /\ q.closed = p.closed /\ q.cancelled = p.cancelled
        /\ q.from = p.from /\ q.pushed = p.pushed /\ q.buffer = p.buffer
        /\ q.output = Append(o, h) /\ q.emitting = Tail(e)
    <2> HIDE DEF q, h
    <2> QED BY <1>4 DEF PipelineRecord
  <1>8. q \in PipelineRecord
    <2> HIDE DEF q, h
    <2> QED BY <1>3, <1>4, <1>6 DEF PipelineRecord
  <1>9. Len(q.output) <= Cap
    <2>1. Len(o) \in Nat /\ Len(o) < Cap
      BY <1>1, LenProperties
    <2> HIDE DEF q, h, o
    <2> QED BY <1>6, <1>7, <2>1, SpeechTextAssumption
  <1>10. KeptOf(s, q) = KeptOf(s, p)
    <2> HIDE DEF q, e, h, a, b, r, o
    <2>1. SaidOf(s, q) = a \o h
      <3>1. FlattenSeq(s \o Append(o, h)) = FlattenSeq(s \o o) \o h
        BY <1>1, <1>3, SaidNext, Zenon
      <3> QED BY <1>7, <3>1, Zenon DEF SaidOf, a, o
    <2>2. KeptOf(s, q) = ((a \o h) \o r) \o b
      BY <1>7, <2>1, Zenon DEF KeptOf, b, r
    <2>3. KeptOf(s, p) = (a \o (h \o r)) \o b
      BY <1>3, Zenon DEF KeptOf, a, b, e
    <2>4. (a \o h) \o r = a \o (h \o r)
      <3>1. a \in Seq(Units) /\ h \in Seq(Units) /\ r \in Seq(Units)
        BY <1>1, <1>3
      <3> QED BY <3>1, Joined
    <2> QED BY <2>2, <2>3, <2>4, Zenon
  <1> HIDE DEF q
  <1>12. /\ q \in PipelineRecord /\ Len(q.output) <= Cap
         /\ q.held = p.held /\ q.closed = p.closed /\ q.cancelled = p.cancelled
         /\ q.from = p.from /\ q.pushed = p.pushed /\ q.buffer = p.buffer
         /\ KeptOf(s, q) = KeptOf(s, p)
    BY <1>7, <1>8, <1>9, <1>10, Zenon
  <1> QED BY <1>12, Zenon DEF q

\* The consumer takes the first chunk of the output: nothing else changes.
LEMMA TakenKeeps ==
  ASSUME NEW p \in PipelineRecord, NEW s \in Seq(Chunk), p.output # <<>>, Len(p.output) <= Cap
  PROVE  LET q == [p EXCEPT !.output = Tail(@)]
             t == Append(s, Head(p.output))
         IN  /\ q \in PipelineRecord /\ t \in Seq(Chunk) /\ Len(q.output) <= Cap
             /\ SaidOf(t, q) = SaidOf(s, p) /\ KeptOf(t, q) = KeptOf(s, p)
  <1> DEFINE q == [p EXCEPT !.output = Tail(@)]
             o == p.output
             h == Head(o)
             t == Append(s, h)
  <1>1. o \in Seq(Chunk)
    BY PipelineFields
  <1>2. h \in Chunk /\ Tail(o) \in Seq(Chunk) /\ t \o Tail(o) = s \o o
    <2> HIDE DEF o
    <2>1. o # <<>>
      BY DEF o
    <2> QED BY <1>1, <2>1, HeadMoves, Zenon
  <1>3. Len(Tail(o)) <= Cap
    <2>1. Len(Tail(o)) = Len(o) - 1 /\ Len(o) \in Nat
      BY <1>1, HeadTailProperties
    <2> QED BY <2>1, SpeechTextAssumption
  <1>4. t \in Seq(Chunk)
    <2> HIDE DEF h
    <2> QED BY <1>2, AppendProperties
  <1>5. q \in PipelineRecord /\ q.output = Tail(o) /\ q.emitting = p.emitting /\ q.buffer = p.buffer
    BY <1>2 DEF PipelineRecord
  <1>6. SaidOf(t, q) = SaidOf(s, p)
    <2> HIDE DEF q, t
    <2> QED BY <1>2, <1>5, Zenon DEF SaidOf
  <1>7. KeptOf(t, q) = KeptOf(s, p)
    <2> HIDE DEF q, t
    <2> QED BY <1>5, <1>6, Zenon DEF KeptOf
  <1>8. Len(q.output) <= Cap
    <2> HIDE DEF q
    <2> QED BY <1>3, <1>5
  <1> HIDE DEF q, t
  <1>9. /\ q \in PipelineRecord /\ t \in Seq(Chunk) /\ Len(q.output) <= Cap
        /\ SaidOf(t, q) = SaidOf(s, p) /\ KeptOf(t, q) = KeptOf(s, p)
    BY <1>4, <1>5, <1>6, <1>7, <1>8, Zenon
  <1> QED BY <1>9, Zenon DEF q, t

\* What is left out of the emission is left out of the text, and the rest rises still.
LEMMA DroppedKeeps ==
  ASSUME NEW p \in PipelineRecord, NEW q \in PipelineRecord, NEW s \in Seq(Chunk), NEW n \in Nat,
         q.output = p.output, q.buffer = p.buffer, q.emitting = <<>>, Ascends(KeptOf(s, p), n)
  PROVE  SaidOf(s, q) = SaidOf(s, p) /\ Ascends(KeptOf(s, q), n)
  <1> DEFINE a == SaidOf(s, p)
             f == FlattenSeq(p.emitting)
             b == p.buffer
  <1>1. a \in Seq(Units) /\ f \in Seq(Units) /\ b \in Seq(Units) /\ Units \in SUBSET Nat
    BY KeptIsText, PipelineFields, UnitsAreNumbers, Zenon
  <1>2. SaidOf(s, q) = a
    BY Zenon DEF SaidOf
  <1>3. KeptOf(s, q) = a \o b
    <2>1. a \o <<>> = a
      BY <1>1, ConcatEmptySeq, Zenon
    <2> QED BY <1>2, <2>1, FlattenEmpty, Zenon DEF KeptOf
  <1>4. Ascends((a \o f) \o b, n)
    BY Zenon DEF KeptOf
  <1> HIDE DEF a, f, b
  <1>5. Ascends(a \o b, n)
    BY <1>1, <1>4, AscendsWithout, Zenon
  <1> QED BY <1>2, <1>3, <1>5, Zenon DEF a

\* TryPush and TryClose put a beginning of the chunks into output, all of them when
\* they succeed.
LEMMA TriedKeeps ==
  ASSUME NEW g, NEW p \in PipelineRecord, NEW s \in Seq(Chunk), NEW n \in Nat,
         Len(p.output) <= Cap, NEW t \in Tried(g, p)
  PROVE  /\ t.ok \in BOOLEAN /\ t.p \in PipelineRecord /\ Len(t.p.output) <= Cap
         /\ t.p.held = p.held /\ t.p.closed = p.closed /\ t.p.cancelled = p.cancelled
         /\ t.p.from = p.from /\ t.p.pushed = p.pushed /\ t.p.buffer = p.buffer
         /\ t.p.emitting = <<>>
         /\ IsPrefix(SaidOf(s, t.p), KeptOf(s, p))
         /\ Ascends(KeptOf(s, p), n) => Ascends(KeptOf(s, t.p), n)
         /\ t.ok => KeptOf(s, t.p) = KeptOf(s, p)
  <1> DEFINE e == p.emitting
             o == p.output
             N == Len(e)
             a == SaidOf(s, p)
             b == p.buffer
  <1>1. PICK k \in 0 .. N :
            /\ k <= Cap - Len(o)
            /\ t = [ok |-> k = N, p |-> [p EXCEPT !.emitting = <<>>, !.output = @ \o SubSeq(e, 1, k)]]
    BY DEF Tried
  <1> DEFINE d == SubSeq(e, 1, k)
             q == t.p
  <1>2. /\ o \in Seq(Chunk) /\ e \in Seq(Chunk) /\ e \in Seq(Seq(Units)) /\ a \in Seq(Units)
        /\ b \in Seq(Units) /\ a \in Chunk
    BY KeptIsText, PipelineFields, UnitsAreNumbers, Zenon
  <1>3. N \in Nat /\ Len(o) \in Nat
    <2> HIDE DEF e, o
    <2> QED BY <1>2, LenProperties
  <1>4. d \in Seq(Chunk) /\ Len(d) = k
    <2>1. \A i \in 1 .. k : e[i] \in Chunk
      <3>1. \A i \in 1 .. N : e[i] \in Chunk
        <4> HIDE DEF e
        <4> QED BY <1>2, ElementOfSeq
      <3> HIDE DEF N, e
      <3> QED BY <1>1, <1>3, <3>1
    <2>2. k \in Nat /\ 1 \in Int /\ k \in Int
      <3> HIDE DEF N
      <3> QED BY <1>3
    <2> HIDE DEF e
    <2>3. d \in Seq(Chunk) /\ Len(d) = IF 1 <= k THEN k - 1 + 1 ELSE 0
      BY <2>1, <2>2, SubSeqProperties
    <2> HIDE DEF d
    <2> QED BY <2>2, <2>3
  <1>5. o \o d \in Seq(Chunk) /\ Len(o \o d) = Len(o) + k
    <2> HIDE DEF o, d
    <2> QED BY <1>2, <1>4, ConcatProperties
  <1> HIDE DEF d
  <1>6. /\ t.ok = (k = N) /\ q = [p EXCEPT !.emitting = <<>>, !.output = o \o d]
    BY <1>1 DEF d
  <1>7. /\ q.held = p.held /\ q.closed = p.closed /\ q.cancelled = p.cancelled
        /\ q.from = p.from /\ q.pushed = p.pushed /\ q.buffer = p.buffer
        /\ q.emitting = <<>> /\ q.output = o \o d
    <2> HIDE DEF q, o
    <2> QED BY <1>6 DEF PipelineRecord
  <1>8. q \in PipelineRecord
    <2>1. <<>> \in Seq(Chunk)
      OBVIOUS
    <2> HIDE DEF q, o
    <2> QED BY <1>5, <1>6, <2>1 DEF PipelineRecord
  <1>9. Len(q.output) <= Cap
    <2> HIDE DEF q, o, N
    <2> QED BY <1>1, <1>3, <1>5, <1>7, SpeechTextAssumption
  <1>10. d \o SubSeq(e, k + 1, N) = e /\ SubSeq(e, k + 1, N) \in Seq(Seq(Units)) /\ d \in Seq(Seq(Units))
    <2> HIDE DEF e
    <2>1. k \in 0 .. Len(e) /\ e \in Seq(Chunk)
      BY <1>1, <1>2
    <2>2. /\ SubSeq(e, 1, k) \o SubSeq(e, k + 1, Len(e)) = e
          /\ SubSeq(e, k + 1, Len(e)) \in Seq(Chunk)
      BY <2>1, Split, Zenon
    <2> QED BY <1>4, <2>2, UnitsAreNumbers, Zenon DEF d
  <1>11. PICK x \in Seq(Units), y \in Seq(Units) :
             /\ FlattenSeq(e) = x \o y /\ SaidOf(s, q) = a \o x
             /\ k = N => y = <<>>
    <2> DEFINE f == SubSeq(e, k + 1, N)
               so == s \o o
    <2>1. so \in Seq(Chunk) /\ so \o d = s \o (o \o d)
      <3> HIDE DEF o
      <3>0. /\ \A u, v \in Seq(Chunk) : u \o v \in Seq(Chunk)
            /\ \A u, v, w \in Seq(Chunk) : (u \o v) \o w = u \o (v \o w)
        BY TextsJoin
      <3>1. s \o o \in Seq(Chunk) /\ (s \o o) \o d = s \o (o \o d)
        BY <1>2, <1>4, <3>0, ZenonT(30)
      <3> QED BY <3>1, Zenon
    <2>2. so \in Seq(Seq(Units)) /\ f \in Seq(Seq(Units)) /\ d \in Seq(Seq(Units)) /\ d \o f = e
      BY <1>10, <2>1, UnitsAreNumbers, Zenon
    <2>3. k = N => f = <<>>
      <3> SUFFICES ASSUME k = N PROVE f = <<>>
        OBVIOUS
      <3>1. N + 1 \in Int /\ N \in Int /\ N < N + 1
        <4> HIDE DEF N
        <4> QED BY <1>3
      <3>2. SubSeq(e, N + 1, N) = <<>>
        BY <3>1, SubSeqEmpty, Zenon
      <3> QED BY <3>2, Zenon
    <2> HIDE DEF f, so, e, N, o
    <2>4. FlattenSeq(e) = FlattenSeq(d) \o FlattenSeq(f)
      BY <2>2, FlattenBoth, Zenon
    <2>5. FlattenSeq(so \o d) = FlattenSeq(so) \o FlattenSeq(d)
      BY <2>2, FlattenBoth, Zenon
    <2>6. FlattenSeq(d) \in Seq(Units) /\ FlattenSeq(f) \in Seq(Units)
      BY <2>2, FlattenType, Zenon
    <2>7. SaidOf(s, q) = a \o FlattenSeq(d)
      BY <1>7, <2>1, <2>5, Zenon DEF SaidOf, so, o
    <2>8. k = N => FlattenSeq(f) = <<>>
      BY <2>3, FlattenEmpty, Zenon
    <2> HIDE DEF a, q
    <2> QED BY <2>4, <2>6, <2>7, <2>8, Zenon
  <1> HIDE DEF q, e, N, o
  <1> DEFINE ax == a \o x
  <1>12. ax \in Seq(Units)
    <2> HIDE DEF a
    <2>1. a \in Seq(Units)
      BY <1>2
    <2> QED BY <2>1, ConcatProperties
  <1>13. KeptOf(s, p) = (ax \o y) \o b
    <2>1. KeptOf(s, p) = (a \o (x \o y)) \o b
      BY <1>11, Zenon DEF KeptOf, e
    <2>2. (a \o x) \o y = a \o (x \o y)
      <3> HIDE DEF a
      <3>1. a \in Seq(Units)
        BY <1>2
      <3> QED BY <3>1, Joined
    <2> QED BY <2>1, <2>2, Zenon
  <1>14. KeptOf(s, q) = ax \o b
    <2>1. ax \o <<>> = ax
      <3> HIDE DEF ax
      <3> QED BY <1>12, ConcatEmptySeq, Zenon
    <2>2. KeptOf(s, q) = (SaidOf(s, q) \o FlattenSeq(<<>>)) \o b
      BY <1>7, Zenon DEF KeptOf
    <2> QED BY <1>11, <2>1, <2>2, FlattenEmpty, Zenon
  <1>15. SaidOf(s, q) = ax
    BY <1>11, Zenon
  <1> HIDE DEF ax, b
  <1>16. (ax \o y) \o b = ax \o (y \o b) /\ y \o b \in Seq(Units)
    <2>1. b \in Seq(Units) /\ ax \in Seq(Units)
      BY <1>2, <1>12
    <2>2. (ax \o y) \o b = ax \o (y \o b)
      BY <2>1, Joined
    <2>3. y \o b \in Seq(Units)
      BY <2>1, ConcatProperties
    <2> QED BY <2>2, <2>3
  <1>17. IsPrefix(ax, KeptOf(s, p))
    <2> DEFINE yb == y \o b
    <2>1. yb \in Seq(Units)
      BY <1>16
    <2> HIDE DEF yb
    <2>2. IsPrefix(ax, ax \o yb)
      BY <1>12, <2>1, PrefixOfConcat, Zenon
    <2> QED BY <1>13, <1>16, <2>2, Zenon DEF yb
  <1>18. Ascends(KeptOf(s, p), n) => Ascends(KeptOf(s, q), n)
    <2> SUFFICES ASSUME Ascends((ax \o y) \o b, n) PROVE Ascends(ax \o b, n)
      BY <1>13, <1>14, Zenon
    <2>1. b \in Seq(Units) /\ Units \in SUBSET Nat
      BY <1>2, UnitsAreNumbers
    <2> QED BY <1>12, <2>1, AscendsWithout, Zenon
  <1>19. k = N => KeptOf(s, q) = KeptOf(s, p)
    <2>1. ax \o <<>> = ax
      BY <1>12, ConcatEmptySeq, Zenon
    <2> QED BY <1>11, <1>13, <1>14, <2>1, Zenon
  <1>20. t.ok \in BOOLEAN /\ (t.ok => k = N)
    BY <1>6
  <1> QED BY <1>7, <1>8, <1>9, <1>15, <1>17, <1>18, <1>19, <1>20, Zenon DEF q

-----------------------------------------------------------------------------
(* The inductive invariant.                                                *)

LlmPcs == {"none", "created", "recv", "write", "push", "emit", "close", "flush", "done",
           "failing", "gone"}
VoicePcs == {"none", "wait", "synth", "done", "failing", "gone"}
RdPcs == {"idle", "creating", "created", "delta", "content", "sent", "mode", "tryPush", "done",
          "doneId", "mark", "doneMode", "finish", "tryClose", "cancel"}

\* The types TypeOK leaves out.
Shapes ==
  /\ llm \in [Gens -> LlmPcs] /\ voice \in [Gens -> VoicePcs]
  /\ pipe \in [Gens -> PipelineRecord] /\ spoken \in [Gens -> Seq(Chunk)]
  /\ rd \in [pc : RdPcs, id : Nat, pipe : Nat]
Types == TypeOK /\ Shapes

\* Only the current generation's context lasts; the pipelines of the others are
\* closed, and those of the generations to come as they are made.
New(g) == pipe[g] = NewPipeline /\ llm[g] = "none" /\ spoken[g] = <<>>
Sessions ==
  /\ alive \subseteq {current}
  /\ mu \in Kinds => last < MaxGens
  /\ \A g \in Gens : (g > last => New(g)) /\ (g <= last /\ g # current => pipe[g].closed)

\* The pipeline the reader works on is that of the generation it works for, unless
\* it is closed already.
OnPipe == {"content", "sent", "mode", "tryPush", "doneId", "mark", "doneMode", "finish", "tryClose"}
OnBoth == {"sent", "mode", "tryPush", "mark", "doneMode", "finish", "tryClose"}
Reader ==
  /\ rd.pc \in OnPipe => rd.pipe \in Gens
  /\ rd.pc \in OnBoth => rd.id = rd.pipe \/ pipe[rd.pipe].closed
  /\ rd.pc = "finish" => rd.id \in textOnly

\* A pipeline's mutex is held for as long as its LLM worker emits.
Holds(g) ==
  /\ pipe[g].held <=> llm[g] \in {"emit", "flush"}
  /\ pipe[g].held => ~pipe[g].closed /\ "llm" \in pipe[g].from
  /\ ~pipe[g].held => pipe[g].emitting = <<>>
  /\ pipe[g].cancelled => pipe[g].closed
  /\ llm[g] = "flush" => pipe[g].buffer = <<>>

\* No more is pushed than was accepted.
One(b) == IF b THEN 1 ELSE 0
Load(g) == One(llm[g] = "push") + One(rd.pc \in {"mode", "tryPush"} /\ rd.id = g)
Counted(g) == Len(pipe[g].pushed) + Load(g) <= sent[g]

\* What a pipeline keeps rises, and goes no further than what was pushed.
Said(g) == SaidOf(spoken[g], pipe[g])
Kept(g) == KeptOf(spoken[g], pipe[g])
Texts(g) == Ascends(Kept(g), Len(pipe[g].pushed))

\* While a generation with one producer lasts, all of its text is kept, unless it is
\* closed or its producer has failed and is about to cancel it.
Lasts(g) == ~ContextOver(g) /\ pipe[g].from # {"llm", "client"}
Whole(g) == Kept(g) = pipe[g].pushed
Stopped(g) ==
  \/ pipe[g].closed
  \/ pipe[g].from = {"llm"} /\ llm[g] = "failing"
  \/ pipe[g].from = {"client"} /\ rd.pc = "cancel" /\ rd.id = g
Prefixed(g) == Lasts(g) => IsPrefix(Said(g), pipe[g].pushed) /\ (Whole(g) \/ Stopped(g))

\* If every text can be spoken, a pipeline that is closed while its generation lasts
\* has put all of its text into output; and a generation that is done spoke it.
Drained(g) ==
  /\ voice[g] = "done" => pipe[g].closed /\ pipe[g].output = <<>>
  /\ ~Unspeakable /\ Lasts(g) /\ pipe[g].closed => Said(g) = pipe[g].pushed
  /\ g \in done \ textOnly =>
         /\ pipe[g].closed /\ pipe[g].output = <<>>
         /\ ~Unspeakable /\ pipe[g].from # {"llm", "client"} => Said(g) = pipe[g].pushed

Sound(g) == Holds(g) /\ Counted(g) /\ Texts(g) /\ Prefixed(g) /\ Drained(g)
IInv == Types /\ Sessions /\ Reader /\ \A g \in Gens : Sound(g)

-----------------------------------------------------------------------------
(* Steps that leave the pipelines alone.                                   *)

QuietSession ==
  /\ pipe' = pipe /\ spoken' = spoken
  /\ last' = last /\ current' = current /\ textOnly' = textOnly
  /\ alive' \subseteq alive /\ (closed => closed')
  /\ mu' \in Kinds => last < MaxGens
QuietAt(g) ==
  /\ llm[g] = "none" => llm'[g] = "none"
  /\ llm[g] \in {"emit", "flush"} \/ llm'[g] \in {"emit", "flush"} => llm'[g] = llm[g]
  /\ llm[g] = "failing" => llm'[g] = "failing" \/ ContextOver(g)'
  /\ voice'[g] = "done" => voice[g] = "done" \/ (pipe[g].closed /\ pipe[g].output = <<>>)
  /\ g \in done' => g \in done \/ g \in textOnly \/ (voice[g] = "done" /\ ~ContextOver(g))
  /\ rd.pc = "cancel" /\ rd.id = g => (rd'.pc = "cancel" /\ rd'.id = g) \/ ContextOver(g)'
  /\ sent[g] + Load(g)' <= sent'[g] + Load(g)
Quiet == QuietSession /\ \A g \in Gens : QuietAt(g)

\* Such a step keeps the invariant, if it keeps the types and the reader.
LEMMA QuietKeeps ==
  ASSUME IInv, Quiet, Types', Reader'
  PROVE  IInv'
  <1>q. QuietSession /\ (\A g \in Gens : QuietAt(g)) /\ Types /\ Sessions
    BY DEF Quiet, IInv
  <1>1. Sessions'
    BY <1>q DEF QuietSession, QuietAt, Sessions, New
  <1>2. ASSUME NEW g \in Gens PROVE Sound(g)'
    <2>1. QuietAt(g) /\ Sound(g) /\ QuietSession
      BY <1>q, <1>2 DEF IInv
    <2>u. pipe' = pipe /\ spoken' = spoken /\ textOnly' = textOnly
      BY <2>1 DEF QuietSession
    <2>2. Holds(g)'
      BY <2>1, <2>u DEF Sound, QuietAt, Holds
    <2>3. Counted(g)'
      <3> DEFINE n == Len(pipe[g].pushed)
                 l == Load(g)
                 m == Load(g)'
      <3>1. n + l <= sent[g] /\ sent[g] + m <= sent'[g] + l
        BY <2>1 DEF Sound, Counted, QuietAt
      <3>2. n \in Nat /\ l \in Nat /\ m \in Nat
        <4>1. pipe[g].pushed \in Chunk
          BY <1>q, PipelineFields DEF Types, Shapes
        <4> QED BY <4>1, LenProperties DEF Chunk, Load, One
      <3>3. sent[g] \in Nat /\ sent'[g] \in Nat
        BY <1>q, SpeechTextAssumption DEF Types, TypeOK
      <3>4. Counted(g)' <=> n + m <= sent'[g]
        BY <2>u DEF Counted
      <3> HIDE DEF n, l, m
      <3> QED BY <3>1, <3>2, <3>3, <3>4
    <2>k. Kept(g)' = Kept(g) /\ Said(g)' = Said(g) /\ pipe'[g] = pipe[g]
      BY <2>u DEF Kept, Said
    <2>4. Texts(g)'
      BY <2>1, <2>k DEF Sound, Texts
    <2>5. Lasts(g)' => Lasts(g)
      <3>1. g \notin alive \/ closed => g \notin alive' \/ closed'
        BY <2>1 DEF QuietSession
      <3> QED BY <2>k, <3>1 DEF Lasts, ContextOver
    <2>6. Prefixed(g)'
      <3> SUFFICES ASSUME Lasts(g)' PROVE IsPrefix(Said(g), pipe[g].pushed) /\ (Whole(g)' \/ Stopped(g)')
        BY <2>k DEF Prefixed
      <3>1. IsPrefix(Said(g), pipe[g].pushed) /\ (Whole(g) \/ Stopped(g))
        BY <2>1, <2>5 DEF Sound, Prefixed
      <3>2. CASE Whole(g)
        BY <2>k, <3>1, <3>2 DEF Whole
      <3>3. CASE Stopped(g)
        <4>1. ~ContextOver(g)'
          BY DEF Lasts
        <4>2. Stopped(g)'
          BY <2>1, <2>k, <3>3, <4>1 DEF Stopped, QuietAt
        <4> QED BY <3>1, <4>2
      <3> QED BY <3>1, <3>2, <3>3
    <2>7. Drained(g)'
      <3>1. Drained(g)
        BY <2>1 DEF Sound
      <3>2. voice'[g] = "done" => pipe[g].closed /\ pipe[g].output = <<>>
        BY <2>1, <3>1 DEF QuietAt, Drained
      <3>3. ~Unspeakable /\ Lasts(g)' /\ pipe[g].closed => Said(g) = pipe[g].pushed
        BY <2>5, <3>1 DEF Drained
      <3>4. ASSUME g \in done' \ textOnly
            PROVE  /\ pipe[g].closed /\ pipe[g].output = <<>>
                   /\ ~Unspeakable /\ pipe[g].from # {"llm", "client"} => Said(g) = pipe[g].pushed
        <4>1. CASE g \in done
          BY <3>1, <3>4, <4>1 DEF Drained
        <4>2. CASE voice[g] = "done" /\ ~ContextOver(g)
          BY <3>1, <4>2 DEF Drained, Lasts
        <4> QED BY <2>1, <3>4, <4>1, <4>2 DEF QuietAt
      <3> QED BY <2>u, <2>k, <3>2, <3>3, <3>4 DEF Drained
    <2> QED BY <2>2, <2>3, <2>4, <2>6, <2>7 DEF Sound
  <1> QED BY <1>1, <1>2 DEF IInv

\* The session's context ends.
LEMMA CloseQuiet ==
  ASSUME IInv, Close
  PROVE  Quiet /\ Types' /\ Reader'
  <1>t. Types /\ Sessions /\ Reader /\ (\A g \in Gens : Sound(g))
    BY DEF IInv
  <1>1. QuietSession
    BY <1>t DEF Close, QuietSession, Sessions
  <1>2. ASSUME NEW g \in Gens PROVE QuietAt(g)
    BY <1>t DEF Close, QuietAt, Types, TypeOK, Load, One
  <1>3. TypeOK'
    BY <1>t DEF Close, Types, TypeOK
  <1>4. Shapes'
    BY <1>t DEF Close, Types, Shapes
  <1>5. Reader'
    BY <1>t DEF Close, Reader
  <1> QED BY <1>1, <1>2, <1>3, <1>4, <1>5 DEF Quiet, Types

\* A cancellation begins.
LEMMA CancelQuiet ==
  ASSUME IInv, Cancel
  PROVE  Quiet /\ Types' /\ Reader'
  <1>t. Types /\ Sessions /\ Reader /\ (\A g \in Gens : Sound(g))
    BY DEF IInv
  <1>1. QuietSession
    BY SpeechTextAssumption DEF Cancel, Silence, QuietSession
  <1>2. ASSUME NEW g \in Gens PROVE QuietAt(g)
    BY <1>t DEF Cancel, Silence, QuietAt, Types, TypeOK, Load, One
  <1>3. TypeOK'
    BY <1>t DEF Cancel, Silence, Types, TypeOK
  <1>4. Shapes'
    BY <1>t DEF Cancel, Types, Shapes
  <1>5. Reader'
    BY <1>t DEF Cancel, Silence, Reader
  <1> QED BY <1>1, <1>2, <1>3, <1>4, <1>5 DEF Quiet, Types

\* A generation begins to start.
LEMMA StartQuiet ==
  ASSUME IInv, NEW kind \in Kinds, Start(kind)
  PROVE  Quiet /\ Types' /\ Reader'
  <1>t. Types /\ Sessions /\ Reader /\ (\A g \in Gens : Sound(g))
    BY DEF IInv
  <1>1. QuietSession
    BY <1>t DEF Start, Silence, QuietSession
  <1>2. ASSUME NEW g \in Gens PROVE QuietAt(g)
    <2>1. sent' = sent /\ done' = done /\ voice' = voice /\ llm' = llm
      BY DEF Start, Silence
    <2>2. rd' = rd \/ (rd.pc = "idle" /\ rd'.pc = "creating")
      BY <1>t DEF Start, Types, Shapes
    <2>3. sent[g] + Load(g)' <= sent'[g] + Load(g)
      <3>1. sent[g] \in Nat
        BY <1>t, SpeechTextAssumption DEF Types, TypeOK
      <3> QED BY <2>1, <2>2, <3>1 DEF Load, One
    <2> QED BY <2>1, <2>2, <2>3 DEF QuietAt
  <1>3. TypeOK'
    BY <1>t DEF Start, Silence, Types, TypeOK, Shapes
  <1>4. Shapes'
    <2>1. llm' = llm /\ voice' = voice /\ pipe' = pipe /\ spoken' = spoken
      BY DEF Start
    <2>2. rd' \in [pc : RdPcs, id : Nat, pipe : Nat]
      <3>1. rd \in [pc : RdPcs, id : Nat, pipe : Nat] /\ current \in Nat
        BY <1>t, SpeechTextAssumption DEF Types, TypeOK, Shapes
      <3> QED BY <3>1 DEF Start, RdPcs
    <2> QED BY <1>t, <2>1, <2>2 DEF Types, Shapes
  <1>5. Reader'
    BY <1>t DEF Start, Silence, Reader, OnPipe, OnBoth, Types, Shapes
  <1> QED BY <1>1, <1>2, <1>3, <1>4, <1>5 DEF Quiet, Types

\* The answer is announced.
LEMMA LlmCreatedQuiet ==
  ASSUME IInv, NEW h \in Gens, LlmCreated(h)
  PROVE  Quiet /\ Types' /\ Reader'
  <1>t. Types /\ Sessions /\ Reader /\ (\A g \in Gens : Sound(g))
    BY DEF IInv
  <1>1. QuietSession
    BY <1>t DEF LlmCreated, session, QuietSession, Sessions
  <1>2. ASSUME NEW g \in Gens PROVE QuietAt(g)
    <2>1. llm'[g] = llm[g] \/ (llm[g] = "created" /\ llm'[g] \in {"recv", "failing"})
      BY <1>t DEF LlmCreated, LlmMoves, LlmAt, Types, Shapes
    <2>2. sent' = sent /\ rd' = rd /\ (voice'[g] = voice[g] \/ voice'[g] = "wait")
      BY <1>t DEF LlmCreated, session, Types, Shapes
    <2>3. g \in done' => g \in done \/ g \in textOnly
      BY DEF LlmCreated, session
    <2>4. sent[g] + Load(g)' <= sent'[g] + Load(g)
      <3>1. sent[g] \in Nat
        BY <1>t, SpeechTextAssumption DEF Types, TypeOK
      <3> QED BY <2>1, <2>2, <3>1 DEF Load, One
    <2> QED BY <2>1, <2>2, <2>3, <2>4 DEF QuietAt
  <1>3. TypeOK'
    BY <1>t DEF LlmCreated, session, Types, TypeOK
  <1>4. Shapes'
    BY <1>t DEF LlmCreated, LlmMoves, LlmAt, Types, Shapes, LlmPcs, VoicePcs
  <1>5. Reader'
    BY <1>t DEF LlmCreated, session, Reader
  <1> QED BY <1>1, <1>2, <1>3, <1>4, <1>5 DEF Quiet, Types

\* A delta comes.
LEMMA LlmDeltaQuiet ==
  ASSUME IInv, NEW h \in Gens, LlmDelta(h)
  PROVE  Quiet /\ Types' /\ Reader'
  <1>t. Types /\ Sessions /\ Reader /\ (\A g \in Gens : Sound(g))
    BY DEF IInv
  <1>1. QuietSession
    BY SpeechTextAssumption DEF LlmDelta, session, QuietSession
  <1>2. ASSUME NEW g \in Gens PROVE QuietAt(g)
    <2>1. llm'[g] = llm[g] \/ (llm[g] = "recv" /\ llm'[g] \in {"write", "failing"})
      BY <1>t DEF LlmDelta, LlmMoves, LlmAt
    <2>2. sent' = sent /\ rd' = rd /\ (voice'[g] = voice[g] \/ voice'[g] = "wait")
      BY <1>t DEF LlmDelta, session
    <2>3. g \in done' => g \in done \/ g \in textOnly
      BY DEF LlmDelta, session
    <2>4. sent[g] + Load(g)' <= sent'[g] + Load(g)
      <3>1. sent[g] \in Nat
        BY <1>t, SpeechTextAssumption DEF Types, TypeOK
      <3> QED BY <2>1, <2>2, <3>1 DEF Load, One
    <2> QED BY <2>1, <2>2, <2>3, <2>4 DEF QuietAt
  <1>3. TypeOK'
    BY <1>t DEF LlmDelta, session, Types, TypeOK
  <1>4. Shapes'
    BY <1>t DEF LlmDelta, LlmMoves, LlmAt, Types, Shapes, LlmPcs
  <1>5. Reader'
    BY <1>t DEF LlmDelta, session, Reader
  <1> QED BY <1>1, <1>2, <1>3, <1>4, <1>5 DEF Quiet, Types

\* A delta is written and recorded.
LEMMA LlmSendQuiet ==
  ASSUME IInv, NEW h \in Gens, LlmSend(h)
  PROVE  Quiet /\ Types' /\ Reader'
  <1>t. Types /\ Sessions /\ Reader /\ (\A g \in Gens : Sound(g))
    BY DEF IInv
  <1>1. QuietSession
    BY <1>t DEF LlmSend, session, SentTaken, QuietSession, Sessions
  <1>2. ASSUME NEW g \in Gens PROVE QuietAt(g)
    <2>1. llm'[g] = llm[g] \/ (llm[g] = "write" /\ llm'[g] \in {"recv", "push", "failing"})
      BY <1>t DEF LlmSend, LlmMoves, LlmAt, Types, Shapes
    <2>2. rd' = rd /\ voice' = voice /\ done' = done
      BY DEF LlmSend, session, SentTaken
    <2>3. sent[g] \in Nat /\ sent'[g] \in Nat /\ sent'[g] >= sent[g]
      BY <1>t DEF LlmSend, session, SentTaken, Types, TypeOK
    <2>4. llm'[g] = llm[g] \/ llm'[g] # "push" \/ sent'[g] = sent[g] + 1
      BY <1>t DEF LlmSend, LlmMoves, LlmAt, SentTaken, Types, TypeOK, Shapes
    <2>5. sent[g] + Load(g)' <= sent'[g] + Load(g)
      BY <2>1, <2>2, <2>3, <2>4 DEF Load, One
    <2> QED BY <2>1, <2>2, <2>5 DEF QuietAt
  <1>3. TypeOK'
    BY <1>t, SpeechTextAssumption DEF LlmSend, session, LlmMoves, LlmAt, SentTaken, Active, Types,
       TypeOK, Shapes
  <1>4. Shapes'
    BY <1>t DEF LlmSend, LlmMoves, LlmAt, Types, Shapes, LlmPcs
  <1>5. Reader'
    BY <1>t DEF LlmSend, session, SentTaken, Reader
  <1> QED BY <1>1, <1>2, <1>3, <1>4, <1>5 DEF Quiet, Types

\* The answer is complete.
LEMMA LlmEofQuiet ==
  ASSUME IInv, NEW h \in Gens, LlmEof(h)
  PROVE  Quiet /\ Types' /\ Reader'
  <1>t. Types /\ Sessions /\ Reader /\ (\A g \in Gens : Sound(g))
    BY DEF IInv
  <1>1. QuietSession
    BY SpeechTextAssumption DEF LlmEof, MarkAssistantTextDone, QuietSession
  <1>2. ASSUME NEW g \in Gens PROVE QuietAt(g)
    <2>1. llm'[g] = llm[g] \/ (llm[g] = "recv" /\ llm'[g] \in {"done", "failing"})
      BY <1>t DEF LlmEof, LlmMoves, LlmAt
    <2>2. sent' = sent /\ rd' = rd /\ (voice'[g] = voice[g] \/ voice'[g] = "wait")
      BY <1>t DEF LlmEof, MarkAssistantTextDone
    <2>3. g \in done' => g \in done \/ g \in textOnly
      BY DEF LlmEof, session, MarkAssistantTextDone
    <2>4. sent[g] + Load(g)' <= sent'[g] + Load(g)
      <3>1. sent[g] \in Nat
        BY <1>t, SpeechTextAssumption DEF Types, TypeOK
      <3> QED BY <2>1, <2>2, <3>1 DEF Load, One
    <2> QED BY <2>1, <2>2, <2>3, <2>4 DEF QuietAt
  <1>3. TypeOK'
    BY <1>t DEF LlmEof, MarkAssistantTextDone, Active, Types, TypeOK
  <1>4. Shapes'
    BY <1>t DEF LlmEof, LlmMoves, LlmAt, Types, Shapes, LlmPcs
  <1>5. Reader'
    BY <1>t DEF LlmEof, MarkAssistantTextDone, Reader
  <1> QED BY <1>1, <1>2, <1>3, <1>4, <1>5 DEF Quiet, Types

\* The end of the text is announced.
LEMMA LlmDoneQuiet ==
  ASSUME IInv, NEW h \in Gens, LlmDone(h)
  PROVE  Quiet /\ Types' /\ Reader'
  <1>t. Types /\ Sessions /\ Reader /\ (\A g \in Gens : Sound(g))
    BY DEF IInv
  <1>1. QuietSession
    BY <1>t DEF LlmDone, session, MarkGenerationDone, QuietSession, Sessions
  <1>2. ASSUME NEW g \in Gens PROVE QuietAt(g)
    <2>1. llm'[g] = llm[g] \/ (llm[g] = "done" /\ llm'[g] \in {"failing", "close", "gone"})
      BY <1>t DEF LlmDone, LlmMoves, LlmAt, Types, Shapes
    <2>2. sent' = sent /\ rd' = rd /\ (voice'[g] = voice[g] \/ voice'[g] = "wait")
      BY <1>t DEF LlmDone, session, MarkGenerationDone
    <2>3. g \in done' => g \in done \/ g \in textOnly
      BY DEF LlmDone, session, MarkGenerationDone, Active
    <2>4. sent[g] + Load(g)' <= sent'[g] + Load(g)
      <3>1. sent[g] \in Nat
        BY <1>t, SpeechTextAssumption DEF Types, TypeOK
      <3> QED BY <2>1, <2>2, <3>1 DEF Load, One
    <2> QED BY <2>1, <2>2, <2>3, <2>4 DEF QuietAt
  <1>3. TypeOK'
    BY <1>t DEF LlmDone, session, MarkGenerationDone, Types, TypeOK
  <1>4. Shapes'
    BY <1>t DEF LlmDone, LlmMoves, LlmAt, Types, Shapes, LlmPcs
  <1>5. Reader'
    BY <1>t DEF LlmDone, session, MarkGenerationDone, Reader
  <1> QED BY <1>1, <1>2, <1>3, <1>4, <1>5 DEF Quiet, Types

\* The provider fails.
LEMMA LlmFailsQuiet ==
  ASSUME IInv, NEW h \in Gens, LlmFails(h)
  PROVE  Quiet /\ Types' /\ Reader'
  <1>t. Types /\ Sessions /\ Reader /\ (\A g \in Gens : Sound(g))
    BY DEF IInv
  <1>1. QuietSession
    BY <1>t DEF LlmFails, session, QuietSession, Sessions
  <1>2. ASSUME NEW g \in Gens PROVE QuietAt(g)
    <2>1. llm'[g] = llm[g] \/ (llm[g] = "recv" /\ llm'[g] \in {"failing"})
      BY <1>t DEF LlmFails, LlmMoves, LlmAt
    <2>2. sent' = sent /\ rd' = rd /\ (voice'[g] = voice[g] \/ voice'[g] = "wait")
      BY <1>t DEF LlmFails, session
    <2>3. g \in done' => g \in done \/ g \in textOnly
      BY DEF LlmFails, session
    <2>4. sent[g] + Load(g)' <= sent'[g] + Load(g)
      <3>1. sent[g] \in Nat
        BY <1>t, SpeechTextAssumption DEF Types, TypeOK
      <3> QED BY <2>1, <2>2, <3>1 DEF Load, One
    <2> QED BY <2>1, <2>2, <2>3, <2>4 DEF QuietAt
  <1>3. TypeOK'
    BY <1>t DEF LlmFails, session, Types, TypeOK
  <1>4. Shapes'
    BY <1>t DEF LlmFails, LlmMoves, LlmAt, Types, Shapes, LlmPcs
  <1>5. Reader'
    BY <1>t DEF LlmFails, session, Reader
  <1> QED BY <1>1, <1>2, <1>3, <1>4, <1>5 DEF Quiet, Types

\* The LLM worker returns, and ends a context that lasts.
LEMMA LlmReturnsQuiet ==
  ASSUME IInv, NEW h \in Gens, LlmReturns(h)
  PROVE  Quiet /\ Types' /\ Reader'
  <1>t. Types /\ Sessions /\ Reader /\ (\A g \in Gens : Sound(g))
    BY DEF IInv
  <1>1. QuietSession
    BY <1>t, SpeechTextAssumption DEF LlmReturns, session, CancelFailed, Silence, QuietSession, Sessions
  <1>2. ASSUME NEW g \in Gens PROVE QuietAt(g)
    <2>1. llm'[g] = llm[g] \/ (g = h /\ llm[g] = "failing" /\ llm'[g] = "gone")
      BY <1>t DEF LlmReturns, LlmMoves, LlmAt
    <2>2. sent' = sent /\ rd' = rd /\ voice' = voice /\ done' = done
      BY DEF LlmReturns, session, CancelFailed, Silence
    <2>3. ContextOver(h)'
      BY <1>t DEF LlmReturns, session, CancelFailed, Silence, ContextOver, Sessions, Types, TypeOK
    <2>4. sent[g] + Load(g)' <= sent'[g] + Load(g)
      <3>1. sent[g] \in Nat
        BY <1>t, SpeechTextAssumption DEF Types, TypeOK
      <3> QED BY <2>1, <2>2, <3>1 DEF Load, One
    <2> QED BY <2>1, <2>2, <2>3, <2>4 DEF QuietAt
  <1>3. TypeOK'
    BY <1>t DEF LlmReturns, session, CancelFailed, Silence, Types, TypeOK
  <1>4. Shapes'
    BY <1>t DEF LlmReturns, LlmMoves, LlmAt, Types, Shapes, LlmPcs
  <1>5. Reader'
    BY <1>t DEF LlmReturns, session, CancelFailed, Silence, Reader
  <1> QED BY <1>1, <1>2, <1>3, <1>4, <1>5 DEF Quiet, Types

\* A chunk is synthesised.
LEMMA VoiceSpeaksQuiet ==
  ASSUME IInv, NEW h \in Gens, VoiceSpeaks(h)
  PROVE  Quiet /\ Types' /\ Reader'
  <1>t. Types /\ Sessions /\ Reader /\ (\A g \in Gens : Sound(g))
    BY DEF IInv
  <1>1. QuietSession
    BY <1>t DEF VoiceSpeaks, session, QuietSession, Sessions
  <1>2. ASSUME NEW g \in Gens PROVE QuietAt(g)
    BY <1>t DEF VoiceSpeaks, session, VoiceMoves, QuietAt, Types, TypeOK, Load, One
  <1>3. TypeOK'
    BY <1>t DEF VoiceSpeaks, session, Types, TypeOK
  <1>4. Shapes'
    BY <1>t DEF VoiceSpeaks, VoiceMoves, Types, Shapes, VoicePcs
  <1>5. Reader'
    BY <1>t DEF VoiceSpeaks, session, Reader
  <1> QED BY <1>1, <1>2, <1>3, <1>4, <1>5 DEF Quiet, Types

\* The consumer finds the output closed and empty, and marks the generation done.
LEMMA VoiceDoneQuiet ==
  ASSUME IInv, NEW h \in Gens, VoiceDone(h)
  PROVE  Quiet /\ Types' /\ Reader'
  <1>t. Types /\ Sessions /\ Reader /\ (\A g \in Gens : Sound(g))
    BY DEF IInv
  <1>1. QuietSession
    BY <1>t DEF VoiceDone, session, MarkGenerationDone, QuietSession, Sessions
  <1>2. ASSUME NEW g \in Gens PROVE QuietAt(g)
    BY <1>t DEF VoiceDone, session, VoiceMoves, MarkGenerationDone, Active, QuietAt, Types, TypeOK,
       Shapes, ContextOver, Load, One
  <1>3. TypeOK'
    BY <1>t DEF VoiceDone, session, MarkGenerationDone, Active, Types, TypeOK
  <1>4. Shapes'
    BY <1>t DEF VoiceDone, VoiceMoves, Types, Shapes, VoicePcs
  <1>5. Reader'
    BY <1>t DEF VoiceDone, session, MarkGenerationDone, Reader
  <1> QED BY <1>1, <1>2, <1>3, <1>4, <1>5 DEF Quiet, Types

\* The speech worker returns.
LEMMA VoiceReturnsQuiet ==
  ASSUME IInv, NEW h \in Gens, VoiceReturns(h)
  PROVE  Quiet /\ Types' /\ Reader'
  <1>t. Types /\ Sessions /\ Reader /\ (\A g \in Gens : Sound(g))
    BY DEF IInv
  <1>1. QuietSession
    BY <1>t, SpeechTextAssumption DEF VoiceReturns, session, CancelFailed, Silence, QuietSession, Sessions
  <1>2. ASSUME NEW g \in Gens PROVE QuietAt(g)
    BY <1>t DEF VoiceReturns, session, VoiceMoves, CancelFailed, Silence, QuietAt, Types, TypeOK,
       Shapes, Load, One
  <1>3. TypeOK'
    BY <1>t DEF VoiceReturns, session, CancelFailed, Silence, Types, TypeOK
  <1>4. Shapes'
    BY <1>t DEF VoiceReturns, VoiceMoves, Types, Shapes, VoicePcs
  <1>5. Reader'
    BY <1>t DEF VoiceReturns, session, CancelFailed, Silence, Reader
  <1> QED BY <1>1, <1>2, <1>3, <1>4, <1>5 DEF Quiet, Types

\* The reader announces a generation.
LEMMA RdCreatedQuiet ==
  ASSUME IInv, RdCreated
  PROVE  Quiet /\ Types' /\ Reader'
  <1>t. Types /\ Sessions /\ Reader /\ (\A g \in Gens : Sound(g))
    BY DEF IInv
  <1>1. QuietSession
    BY <1>t DEF RdCreated, session, QuietSession, Sessions
  <1>2. ASSUME NEW g \in Gens PROVE QuietAt(g)
    BY <1>t DEF RdCreated, session, RdMoves, Idle, QuietAt, Types, TypeOK, Load, One
  <1>3. TypeOK'
    BY <1>t DEF RdCreated, session, RdMoves, Idle, Types, TypeOK
  <1>4. Shapes'
    BY <1>t DEF RdCreated, RdMoves, Idle, Types, Shapes, VoicePcs, RdPcs
  <1>5. Reader'
    BY <1>t DEF RdCreated, RdMoves, Idle, Reader, OnPipe
  <1> QED BY <1>1, <1>2, <1>3, <1>4, <1>5 DEF Quiet, Types

\* A client's delta is accepted.
LEMMA RdDeltaQuiet ==
  ASSUME IInv, NEW named \in 0 .. MaxGens, RdDelta(named)
  PROVE  Quiet /\ Types' /\ Reader'
  <1>t. Types /\ Sessions /\ Reader /\ (\A g \in Gens : Sound(g))
    BY DEF IInv
  <1>1. QuietSession
    BY SpeechTextAssumption DEF RdDelta, session, QuietSession
  <1>2. ASSUME NEW g \in Gens PROVE QuietAt(g)
    BY <1>t DEF RdDelta, session, RdMoves, QuietAt, Types, TypeOK, Load, One
  <1>3. TypeOK'
    BY <1>t DEF RdDelta, session, RdMoves, Idle, Types, TypeOK
  <1>4. Shapes'
    <2>1. llm' = llm /\ voice' = voice /\ pipe' = pipe /\ spoken' = spoken
      BY DEF RdDelta
    <2>2. rd' \in [pc : RdPcs, id : Nat, pipe : Nat]
      <3>1. rd \in [pc : RdPcs, id : Nat, pipe : Nat] /\ current \in Nat
        BY <1>t, SpeechTextAssumption DEF Types, TypeOK, Shapes
      <3> QED BY <3>1 DEF RdDelta, RdMoves, Idle, RdPcs
    <2> QED BY <1>t, <2>1, <2>2 DEF Types, Shapes
  <1>5. Reader'
    BY <1>t DEF RdDelta, RdMoves, Reader, OnPipe, OnBoth
  <1> QED BY <1>1, <1>2, <1>3, <1>4, <1>5 DEF Quiet, Types

\* The reader looks the pipeline up.
LEMMA RdPipelineQuiet ==
  ASSUME IInv, RdPipeline
  PROVE  Quiet /\ Types' /\ Reader'
  <1>t. Types /\ Sessions /\ Reader /\ (\A g \in Gens : Sound(g))
    BY DEF IInv
  <1>1. QuietSession
    BY SpeechTextAssumption DEF RdPipeline, session, QuietSession
  <1>2. ASSUME NEW g \in Gens PROVE QuietAt(g)
    BY <1>t DEF RdPipeline, session, RdMoves, Idle, QuietAt, Types, TypeOK, Load, One
  <1>3. TypeOK'
    BY <1>t DEF RdPipeline, session, RdMoves, Idle, Types, TypeOK
  <1>4. Shapes'
    <2>1. llm' = llm /\ voice' = voice /\ pipe' = pipe /\ spoken' = spoken
      BY DEF RdPipeline
    <2>2. rd' \in [pc : RdPcs, id : Nat, pipe : Nat]
      <3>1. rd \in [pc : RdPcs, id : Nat, pipe : Nat] /\ current \in Nat
        BY <1>t, SpeechTextAssumption DEF Types, TypeOK, Shapes
      <3> QED BY <3>1 DEF RdPipeline, RdMoves, Idle, RdPcs
    <2> QED BY <1>t, <2>1, <2>2 DEF Types, Shapes
  <1>5. Reader'
    BY <1>t, SpeechTextAssumption DEF RdPipeline, RdMoves, Idle, Reader, OnPipe, OnBoth, Types, TypeOK, Gens
  <1> QED BY <1>1, <1>2, <1>3, <1>4, <1>5 DEF Quiet, Types

\* The reader records the delta, for the current generation only.
LEMMA RdContentQuiet ==
  ASSUME IInv, RdContent
  PROVE  Quiet /\ Types' /\ Reader'
  <1>t. Types /\ Sessions /\ Reader /\ (\A g \in Gens : Sound(g))
    BY DEF IInv
  <1>1. QuietSession
    BY SpeechTextAssumption DEF RdContent, session, QuietSession
  <1>2. ASSUME NEW g \in Gens PROVE QuietAt(g)
    BY <1>t DEF RdContent, session, RdMoves, RdAt, Idle, QuietAt, Types, TypeOK, Load, One
  <1>3. TypeOK'
    BY <1>t DEF RdContent, session, RdMoves, RdAt, Idle, Types, TypeOK
  <1>4. Shapes'
    BY <1>t DEF RdContent, RdMoves, RdAt, Idle, Types, Shapes, RdPcs
  <1>5. Reader'
    BY <1>t DEF RdContent, RdMoves, RdAt, Idle, ContentTaken, Active, Reader, OnPipe, Types,
       TypeOK, Sessions
  <1> QED BY <1>1, <1>2, <1>3, <1>4, <1>5 DEF Quiet, Types

\* The reader records what was sent.
LEMMA RdSentQuiet ==
  ASSUME IInv, RdSent
  PROVE  Quiet /\ Types' /\ Reader'
  <1>t. Types /\ Sessions /\ Reader /\ (\A g \in Gens : Sound(g))
    BY DEF IInv
  <1>1. QuietSession
    BY SpeechTextAssumption DEF RdSent, session, SentTaken, QuietSession
  <1>2. ASSUME NEW g \in Gens PROVE QuietAt(g)
    <2>1. llm' = llm /\ voice' = voice /\ done' = done
      BY DEF RdSent, session, SentTaken
    <2>2. rd.pc = "sent" /\ (rd' = Idle \/ (rd'.pc = "mode" /\ rd'.id = rd.id /\ SentTaken(rd.id)))
      BY <1>t DEF RdSent, RdMoves, RdAt, Types, Shapes
    <2>3. sent[g] \in Nat /\ sent'[g] \in Nat /\ sent'[g] >= sent[g]
      BY <1>t DEF RdSent, session, SentTaken, Types, TypeOK
    <2>4. CASE rd' = Idle
      BY <2>1, <2>2, <2>3, <2>4 DEF QuietAt, Load, One, Idle
    <2>5. CASE rd'.pc = "mode" /\ rd'.id = rd.id /\ SentTaken(rd.id)
      <3>1. rd.id = g => sent'[g] = sent[g] + 1
        BY <1>t, <2>5, SpeechTextAssumption DEF SentTaken, Types, TypeOK
      <3>2. sent[g] + Load(g)' <= sent'[g] + Load(g)
        BY <2>1, <2>2, <2>3, <2>5, <3>1 DEF Load, One
      <3> QED BY <2>1, <2>2, <2>5, <3>2 DEF QuietAt
    <2> QED BY <2>2, <2>4, <2>5
  <1>3. TypeOK'
    <2>1. sent' \in [Gens -> 0 .. MaxUnits]
      <3>1. sent \in [Gens -> 0 .. MaxUnits]
        BY <1>t DEF Types, TypeOK
      <3>2. sent' = sent \/ (sent[rd.id] < MaxUnits /\ sent' = [sent EXCEPT ![rd.id] = @ + 1])
        BY DEF RdSent, session, SentTaken
      <3>3. ASSUME NEW i \in Gens, sent[i] < MaxUnits PROVE sent[i] + 1 \in 0 .. MaxUnits
        BY <3>1, <3>3, SpeechTextAssumption
      <3> QED BY <3>1, <3>2, <3>3
    <2>2. /\ last' = last /\ current' = current /\ mu' = mu /\ alive' = alive
          /\ textOnly' = textOnly /\ textDone' = textDone /\ done' = done /\ closed' = closed
          /\ pipe' = pipe
      BY DEF RdSent, session, SentTaken
    <2>3. rd'.id \in 0 .. last /\ rd'.pipe \in 0 .. last
      <3>1. rd' = Idle \/ (rd'.id = rd.id /\ rd'.pipe = rd.pipe)
        BY <1>t DEF RdSent, RdMoves, RdAt, Types, Shapes
      <3>2. 0 \in 0 .. last /\ rd.id \in 0 .. last /\ rd.pipe \in 0 .. last
        BY <1>t, SpeechTextAssumption DEF Types, TypeOK
      <3> QED BY <3>1, <3>2 DEF Idle
    <2> QED BY <1>t, <2>1, <2>2, <2>3 DEF Types, TypeOK
  <1>4. Shapes'
    BY <1>t DEF RdSent, RdMoves, RdAt, Idle, SentTaken, Types, Shapes, LlmPcs, VoicePcs, RdPcs
  <1>5. Reader'
    BY <1>t DEF RdSent, RdMoves, RdAt, Idle, Reader, OnPipe, OnBoth, Types, Shapes, Gens
  <1> QED BY <1>1, <1>2, <1>3, <1>4, <1>5 DEF Quiet, Types

\* The reader looks whether the generation speaks.
LEMMA RdModeQuiet ==
  ASSUME IInv, RdMode
  PROVE  Quiet /\ Types' /\ Reader'
  <1>t. Types /\ Sessions /\ Reader /\ (\A g \in Gens : Sound(g))
    BY DEF IInv
  <1>1. QuietSession
    BY SpeechTextAssumption DEF RdMode, session, QuietSession
  <1>2. ASSUME NEW g \in Gens PROVE QuietAt(g)
    BY <1>t DEF RdMode, session, RdMoves, RdAt, Idle, QuietAt, Types, TypeOK, Load, One
  <1>3. TypeOK'
    BY <1>t DEF RdMode, session, RdMoves, RdAt, Idle, Types, TypeOK
  <1>4. Shapes'
    BY <1>t DEF RdMode, RdMoves, RdAt, Idle, Types, Shapes, RdPcs
  <1>5. Reader'
    BY <1>t DEF RdMode, RdMoves, RdAt, Idle, Reader, OnPipe, OnBoth
  <1> QED BY <1>1, <1>2, <1>3, <1>4, <1>5 DEF Quiet, Types

\* The end of a client's text is accepted.
LEMMA RdDoneQuiet ==
  ASSUME IInv, NEW named \in 0 .. MaxGens, RdDone(named)
  PROVE  Quiet /\ Types' /\ Reader'
  <1>t. Types /\ Sessions /\ Reader /\ (\A g \in Gens : Sound(g))
    BY DEF IInv
  <1>1. QuietSession
    BY SpeechTextAssumption DEF RdDone, session, QuietSession
  <1>2. ASSUME NEW g \in Gens PROVE QuietAt(g)
    BY <1>t DEF RdDone, session, RdMoves, QuietAt, Types, TypeOK, Load, One
  <1>3. TypeOK'
    BY <1>t DEF RdDone, session, RdMoves, Idle, Types, TypeOK
  <1>4. Shapes'
    BY <1>t DEF RdDone, RdMoves, Idle, Types, Shapes, RdPcs
  <1>5. Reader'
    BY <1>t DEF RdDone, RdMoves, Idle, Reader, OnPipe
  <1> QED BY <1>1, <1>2, <1>3, <1>4, <1>5 DEF Quiet, Types

\* The reader looks the pipeline up again.
LEMMA RdDonePipelineQuiet ==
  ASSUME IInv, RdDonePipeline
  PROVE  Quiet /\ Types' /\ Reader'
  <1>t. Types /\ Sessions /\ Reader /\ (\A g \in Gens : Sound(g))
    BY DEF IInv
  <1>1. QuietSession
    BY SpeechTextAssumption DEF RdDonePipeline, session, QuietSession
  <1>2. ASSUME NEW g \in Gens PROVE QuietAt(g)
    BY <1>t DEF RdDonePipeline, session, RdMoves, Idle, QuietAt, Types, TypeOK, Load, One
  <1>3. TypeOK'
    BY <1>t DEF RdDonePipeline, session, RdMoves, Idle, Types, TypeOK
  <1>4. Shapes'
    <2>1. llm' = llm /\ voice' = voice /\ pipe' = pipe /\ spoken' = spoken
      BY DEF RdDonePipeline
    <2>2. rd' \in [pc : RdPcs, id : Nat, pipe : Nat]
      <3>1. rd \in [pc : RdPcs, id : Nat, pipe : Nat] /\ current \in Nat
        BY <1>t, SpeechTextAssumption DEF Types, TypeOK, Shapes
      <3> QED BY <3>1 DEF RdDonePipeline, RdMoves, Idle, RdPcs
    <2> QED BY <1>t, <2>1, <2>2 DEF Types, Shapes
  <1>5. Reader'
    BY <1>t, SpeechTextAssumption DEF RdDonePipeline, RdMoves, Idle, Reader, OnPipe, OnBoth, Types,
       TypeOK, Gens
  <1> QED BY <1>1, <1>2, <1>3, <1>4, <1>5 DEF Quiet, Types

\* The reader looks the generation up again.
LEMMA RdDoneIdQuiet ==
  ASSUME IInv, RdDoneId
  PROVE  Quiet /\ Types' /\ Reader'
  <1>t. Types /\ Sessions /\ Reader /\ (\A g \in Gens : Sound(g))
    BY DEF IInv
  <1>1. QuietSession
    BY SpeechTextAssumption DEF RdDoneId, session, QuietSession
  <1>2. ASSUME NEW g \in Gens PROVE QuietAt(g)
    BY <1>t DEF RdDoneId, session, RdMoves, QuietAt, Types, TypeOK, Load, One
  <1>3. TypeOK'
    BY <1>t DEF RdDoneId, session, RdMoves, Types, TypeOK
  <1>4. Shapes'
    <2>1. llm' = llm /\ voice' = voice /\ pipe' = pipe /\ spoken' = spoken
      BY DEF RdDoneId
    <2>2. rd' \in [pc : RdPcs, id : Nat, pipe : Nat]
      <3>1. rd \in [pc : RdPcs, id : Nat, pipe : Nat] /\ current \in Nat
        BY <1>t, SpeechTextAssumption DEF Types, TypeOK, Shapes
      <3> QED BY <3>1 DEF RdDoneId, RdMoves, RdPcs
    <2> QED BY <1>t, <2>1, <2>2 DEF Types, Shapes
  <1>5. Reader'
    BY <1>t DEF RdDoneId, RdMoves, Reader, OnPipe, Types, TypeOK, Sessions
  <1> QED BY <1>1, <1>2, <1>3, <1>4, <1>5 DEF Quiet, Types

\* The reader marks the text done.
LEMMA RdMarkQuiet ==
  ASSUME IInv, RdMark
  PROVE  Quiet /\ Types' /\ Reader'
  <1>t. Types /\ Sessions /\ Reader /\ (\A g \in Gens : Sound(g))
    BY DEF IInv
  <1>1. QuietSession
    BY SpeechTextAssumption DEF RdMark, MarkAssistantTextDone, QuietSession
  <1>2. ASSUME NEW g \in Gens PROVE QuietAt(g)
    BY <1>t DEF RdMark, RdMoves, RdAt, MarkAssistantTextDone, QuietAt, Types, TypeOK, Load, One
  <1>3. TypeOK'
    BY <1>t DEF RdMark, RdMoves, RdAt, MarkAssistantTextDone, Active, Types, TypeOK
  <1>4. Shapes'
    BY <1>t DEF RdMark, RdMoves, RdAt, Types, Shapes, RdPcs
  <1>5. Reader'
    BY <1>t DEF RdMark, RdMoves, RdAt, Reader, OnPipe, OnBoth
  <1> QED BY <1>1, <1>2, <1>3, <1>4, <1>5 DEF Quiet, Types

\* The reader looks again whether the generation speaks.
LEMMA RdDoneModeQuiet ==
  ASSUME IInv, RdDoneMode
  PROVE  Quiet /\ Types' /\ Reader'
  <1>t. Types /\ Sessions /\ Reader /\ (\A g \in Gens : Sound(g))
    BY DEF IInv
  <1>1. QuietSession
    BY SpeechTextAssumption DEF RdDoneMode, session, QuietSession
  <1>2. ASSUME NEW g \in Gens PROVE QuietAt(g)
    BY <1>t DEF RdDoneMode, session, RdMoves, RdAt, QuietAt, Types, TypeOK, Load, One
  <1>3. TypeOK'
    BY <1>t DEF RdDoneMode, session, RdMoves, RdAt, Types, TypeOK
  <1>4. Shapes'
    BY <1>t DEF RdDoneMode, RdMoves, RdAt, Types, Shapes, RdPcs
  <1>5. Reader'
    BY <1>t DEF RdDoneMode, session, RdMoves, RdAt, Reader, OnPipe, OnBoth
  <1> QED BY <1>1, <1>2, <1>3, <1>4, <1>5 DEF Quiet, Types

\* The reader marks a generation without speech done.
LEMMA RdFinishQuiet ==
  ASSUME IInv, RdFinish
  PROVE  Quiet /\ Types' /\ Reader'
  <1>t. Types /\ Sessions /\ Reader /\ (\A g \in Gens : Sound(g))
    BY DEF IInv
  <1>1. QuietSession
    BY SpeechTextAssumption DEF RdFinish, MarkGenerationDone, QuietSession
  <1>2. ASSUME NEW g \in Gens PROVE QuietAt(g)
    <2>1. llm' = llm /\ voice' = voice /\ sent' = sent /\ rd.pc = "finish" /\ rd' = Idle
      BY DEF RdFinish, RdMoves, MarkGenerationDone
    <2>2. g \in done' => g \in done \/ g \in textOnly
      BY <1>t DEF RdFinish, RdMoves, MarkGenerationDone, Reader
    <2>3. sent[g] + Load(g)' <= sent'[g] + Load(g)
      <3>1. sent[g] \in Nat
        BY <1>t, SpeechTextAssumption DEF Types, TypeOK
      <3> QED BY <2>1, <3>1 DEF Load, One, Idle
    <2> QED BY <2>1, <2>2, <2>3 DEF QuietAt
  <1>3. TypeOK'
    BY <1>t DEF RdFinish, RdMoves, Idle, MarkGenerationDone, Active, Types, TypeOK
  <1>4. Shapes'
    BY <1>t DEF RdFinish, RdMoves, Idle, Types, Shapes, RdPcs
  <1>5. Reader'
    BY <1>t DEF RdFinish, RdMoves, Idle, Reader, OnPipe
  <1> QED BY <1>1, <1>2, <1>3, <1>4, <1>5 DEF Quiet, Types

\* The reader cancels the generation whose text it could not push.
LEMMA RdCancelQuiet ==
  ASSUME IInv, RdCancel
  PROVE  Quiet /\ Types' /\ Reader'
  <1>t. Types /\ Sessions /\ Reader /\ (\A g \in Gens : Sound(g))
    BY DEF IInv
  <1>1. QuietSession
    BY SpeechTextAssumption DEF RdCancel, session, CancelFailed, Silence, QuietSession
  <1>2. ASSUME NEW g \in Gens PROVE QuietAt(g)
    BY <1>t DEF RdCancel, session, RdMoves, Idle, CancelFailed, Silence, QuietAt, Types, TypeOK,
       Sessions, ContextOver, Load, One
  <1>3. TypeOK'
    BY <1>t DEF RdCancel, session, RdMoves, Idle, CancelFailed, Silence, Types, TypeOK
  <1>4. Shapes'
    BY <1>t DEF RdCancel, RdMoves, Idle, Types, Shapes, RdPcs
  <1>5. Reader'
    BY <1>t DEF RdCancel, RdMoves, Idle, Reader, OnPipe
  <1> QED BY <1>1, <1>2, <1>3, <1>4, <1>5 DEF Quiet, Types

\* Nothing happens.
LEMMA StutterQuiet ==
  ASSUME IInv, UNCHANGED vars
  PROVE  Quiet /\ Types' /\ Reader'
  <1>t. Types /\ Sessions /\ Reader /\ (\A g \in Gens : Sound(g))
    BY DEF IInv
  <1>u. /\ last' = last /\ current' = current /\ mu' = mu /\ alive' = alive /\ textOnly' = textOnly
        /\ textDone' = textDone /\ done' = done /\ sent' = sent /\ closed' = closed
        /\ pipe' = pipe /\ llm' = llm /\ voice' = voice /\ spoken' = spoken /\ rd' = rd
    BY DEF vars, session
  <1>1. QuietSession
    BY <1>t, <1>u DEF QuietSession, Sessions
  <1>2. ASSUME NEW g \in Gens PROVE QuietAt(g)
    <2>1. sent[g] \in Nat /\ Load(g)' = Load(g) /\ Load(g) \in Nat
      BY <1>t, <1>u, SpeechTextAssumption DEF Types, TypeOK, Load, One
    <2> QED BY <1>u, <2>1 DEF QuietAt
  <1>3. TypeOK' /\ Shapes'
    BY <1>t, <1>u DEF Types, TypeOK, Shapes
  <1>4. Reader'
    BY <1>t, <1>u DEF Reader
  <1> QED BY <1>1, <1>2, <1>3, <1>4 DEF Quiet, Types

\* Push and Close find the pipeline closed.
LEMMA LlmRefusedQuiet ==
  ASSUME IInv, NEW h \in Gens, UNCHANGED <<session, pipe, voice, spoken, rd>>,
         LlmMoves(h, "push", "failing") \/ LlmMoves(h, "close", "gone")
  PROVE  Quiet /\ Types' /\ Reader'
  <1>t. Types /\ Sessions /\ Reader /\ (\A g \in Gens : Sound(g))
    BY DEF IInv
  <1>u. /\ last' = last /\ current' = current /\ mu' = mu /\ alive' = alive /\ textOnly' = textOnly
        /\ textDone' = textDone /\ done' = done /\ sent' = sent /\ closed' = closed
        /\ pipe' = pipe /\ voice' = voice /\ spoken' = spoken /\ rd' = rd
    BY DEF session
  <1>1. QuietSession
    BY <1>t, <1>u DEF QuietSession, Sessions
  <1>2. ASSUME NEW g \in Gens PROVE QuietAt(g)
    <2>1. llm'[g] = llm[g] \/ (llm[g] \in {"push", "close"} /\ llm'[g] \in {"failing", "gone"})
      BY <1>t DEF LlmMoves, LlmAt, Types, Shapes
    <2>2. sent[g] \in Nat
      BY <1>t, SpeechTextAssumption DEF Types, TypeOK
    <2>3. sent[g] + Load(g)' <= sent'[g] + Load(g)
      BY <1>u, <2>1, <2>2 DEF Load, One
    <2> QED BY <1>u, <2>1, <2>3 DEF QuietAt
  <1>3. TypeOK'
    BY <1>t, <1>u DEF Types, TypeOK
  <1>4. Shapes'
    BY <1>t, <1>u DEF Types, Shapes, LlmMoves, LlmAt, LlmPcs
  <1>5. Reader'
    BY <1>t, <1>u DEF Reader
  <1> QED BY <1>1, <1>2, <1>3, <1>4, <1>5 DEF Quiet, Types

\* The reader could not take the mutex, or finds the pipeline closed.
LEMMA RdRefusedQuiet ==
  ASSUME IInv, UNCHANGED <<session, pipe, llm, voice, spoken>>, rd.pc \in {"tryPush", "tryClose"},
         rd' = Idle \/ rd' = RdAt("cancel")
  PROVE  Quiet /\ Types' /\ Reader'
  <1>t. Types /\ Sessions /\ Reader /\ (\A g \in Gens : Sound(g))
    BY DEF IInv
  <1>u. /\ last' = last /\ current' = current /\ mu' = mu /\ alive' = alive /\ textOnly' = textOnly
        /\ textDone' = textDone /\ done' = done /\ sent' = sent /\ closed' = closed
        /\ pipe' = pipe /\ voice' = voice /\ spoken' = spoken /\ llm' = llm
    BY DEF session
  <1>r. rd' = Idle \/ (rd'.pc = "cancel" /\ rd'.id = rd.id /\ rd'.pipe = rd.pipe)
    BY <1>t DEF RdAt, Types, Shapes
  <1>1. QuietSession
    BY <1>t, <1>u DEF QuietSession, Sessions
  <1>2. ASSUME NEW g \in Gens PROVE QuietAt(g)
    <2>1. sent[g] \in Nat
      BY <1>t, SpeechTextAssumption DEF Types, TypeOK
    <2>2. sent[g] + Load(g)' <= sent'[g] + Load(g)
      BY <1>u, <1>r, <2>1 DEF Load, One, Idle
    <2> QED BY <1>u, <2>2 DEF QuietAt
  <1>3. TypeOK'
    <2>1. rd'.id \in 0 .. last /\ rd'.pipe \in 0 .. last
      <3>1. 0 \in 0 .. last /\ rd.id \in 0 .. last /\ rd.pipe \in 0 .. last
        BY <1>t, SpeechTextAssumption DEF Types, TypeOK
      <3> QED BY <1>r, <3>1 DEF Idle
    <2> QED BY <1>t, <1>u, <2>1 DEF Types, TypeOK
  <1>4. Shapes'
    <2>1. rd' \in [pc : RdPcs, id : Nat, pipe : Nat]
      BY <1>t DEF RdAt, Idle, RdPcs, Types, Shapes
    <2> QED BY <1>t, <1>u, <2>1 DEF Types, Shapes
  <1>5. Reader'
    BY <1>u, <1>r DEF Reader, Idle, OnPipe, OnBoth
  <1> QED BY <1>1, <1>2, <1>3, <1>4, <1>5 DEF Quiet, Types

-----------------------------------------------------------------------------
(* Steps at one pipeline.                                                  *)

\* Only the generation h is touched, and it was started.
AtOne(h) ==
  /\ h \in 1 .. last /\ UNCHANGED session
  /\ pipe[h].closed => pipe'[h].closed
  /\ \A g \in Gens \ {h} :
         /\ pipe'[g] = pipe[g] /\ spoken'[g] = spoken[g] /\ llm'[g] = llm[g] /\ voice'[g] = voice[g]
         /\ rd.pc = "cancel" => rd' = rd
         /\ Load(g)' <= Load(g)

\* The other generations keep theirs.
LEMMA OneKeeps ==
  ASSUME IInv, NEW h \in Gens, AtOne(h), Types', Reader', Sound(h)'
  PROVE  IInv'
  <1>t. Types /\ Sessions /\ (\A g \in Gens : Sound(g))
    BY DEF IInv
  <1>u. /\ last' = last /\ current' = current /\ mu' = mu /\ alive' = alive /\ textOnly' = textOnly
        /\ done' = done /\ sent' = sent /\ closed' = closed
    BY DEF AtOne, session
  <1>1. Sessions'
    <2>1. ASSUME NEW g \in Gens
          PROVE  (g > last => New(g)') /\ (g <= last /\ g # current => pipe'[g].closed)
      <3>1. (g > last => New(g)) /\ (g <= last /\ g # current => pipe[g].closed)
        BY <1>t DEF Sessions
      <3>2. CASE g = h
        <4>1. ~(g > last)
          <5>1. last \in Nat /\ h \in 1 .. last
            BY <1>t, SpeechTextAssumption DEF Types, TypeOK, AtOne
          <5> QED BY <3>2, <5>1
        <4> QED BY <3>1, <3>2, <4>1 DEF AtOne
      <3>3. CASE g # h
        <4>1. pipe'[g] = pipe[g] /\ spoken'[g] = spoken[g] /\ llm'[g] = llm[g]
          BY <3>3 DEF AtOne
        <4> QED BY <3>1, <4>1 DEF New
      <3> QED BY <3>2, <3>3
    <2> QED BY <1>t, <1>u, <2>1 DEF Sessions
  <1>2. ASSUME NEW g \in Gens, g # h PROVE Sound(g)'
    <2>1. Sound(g)
      BY <1>t
    <2>2. /\ pipe'[g] = pipe[g] /\ spoken'[g] = spoken[g] /\ llm'[g] = llm[g] /\ voice'[g] = voice[g]
          /\ (rd.pc = "cancel" => rd' = rd) /\ Load(g)' <= Load(g)
      BY <1>2 DEF AtOne
    <2>3. Holds(g)'
      BY <2>1, <2>2 DEF Sound, Holds
    <2>4. Counted(g)'
      <3> DEFINE n == Len(pipe[g].pushed)
                 l == Load(g)
                 m == Load(g)'
      <3>1. n + l <= sent[g] /\ m <= l
        BY <2>1, <2>2 DEF Sound, Counted
      <3>2. n \in Nat /\ l \in Nat /\ m \in Nat
        <4>1. pipe[g].pushed \in Chunk
          BY <1>t, PipelineFields DEF Types, Shapes
        <4> QED BY <4>1, LenProperties DEF Chunk, Load, One
      <3>3. sent[g] \in Nat
        BY <1>t, SpeechTextAssumption DEF Types, TypeOK
      <3>4. Counted(g)' <=> n + m <= sent[g]
        BY <1>u, <2>2 DEF Counted
      <3> HIDE DEF n, l, m
      <3> QED BY <3>1, <3>2, <3>3, <3>4
    <2>k. Kept(g)' = Kept(g) /\ Said(g)' = Said(g)
      BY <2>2 DEF Kept, Said
    <2>5. Texts(g)'
      BY <2>1, <2>2, <2>k DEF Sound, Texts
    <2>6. Prefixed(g)'
      BY <1>u, <2>1, <2>2, <2>k DEF Sound, Prefixed, Lasts, ContextOver, Whole, Stopped
    <2>7. Drained(g)'
      BY <1>u, <2>1, <2>2, <2>k DEF Sound, Drained, Lasts, ContextOver
    <2> QED BY <2>3, <2>4, <2>5, <2>6, <2>7 DEF Sound
  <1> QED BY <1>1, <1>2 DEF IInv

\* So do the types and the reader.
LEMMA OneTypes ==
  ASSUME IInv, NEW h \in Gens, NEW q \in PipelineRecord, Len(q.output) <= Cap, AtOne(h),
         pipe' = [pipe EXCEPT ![h] = q],
         llm' \in [Gens -> LlmPcs], voice' \in [Gens -> VoicePcs], spoken' \in [Gens -> Seq(Chunk)],
         rd' = rd \/ rd' = Idle \/ rd' = RdAt("cancel")
  PROVE  Types' /\ Reader'
  <1>t. Types /\ Reader
    BY DEF IInv
  <1>u. /\ last' = last /\ current' = current /\ mu' = mu /\ alive' = alive /\ textOnly' = textOnly
        /\ textDone' = textDone /\ done' = done /\ sent' = sent /\ closed' = closed
    BY DEF AtOne, session
  <1>p. \A g \in Gens : pipe'[g] = IF g = h THEN q ELSE pipe[g]
    BY <1>t DEF Types, Shapes
  <1>r. rd' = rd \/ rd' = Idle \/ (rd'.pc = "cancel" /\ rd'.id = rd.id /\ rd'.pipe = rd.pipe)
    BY <1>t DEF RdAt, Types, Shapes
  <1>1. TypeOK'
    <2>1. ASSUME NEW g \in Gens PROVE pipe'[g] \in PipelineRecord /\ Len(pipe'[g].output) <= Cap
      BY <1>t, <1>p DEF Types, TypeOK
    <2>2. rd'.id \in 0 .. last /\ rd'.pipe \in 0 .. last
      <3>1. 0 \in 0 .. last /\ rd.id \in 0 .. last /\ rd.pipe \in 0 .. last
        BY <1>t, SpeechTextAssumption DEF Types, TypeOK
      <3> QED BY <1>r, <3>1 DEF Idle
    <2> QED BY <1>t, <1>u, <2>1, <2>2 DEF Types, TypeOK
  <1>2. Shapes'
    <2>1. rd' \in [pc : RdPcs, id : Nat, pipe : Nat]
      BY <1>t DEF RdAt, Idle, RdPcs, Types, Shapes
    <2>2. pipe' \in [Gens -> PipelineRecord]
      BY <1>t DEF Types, Shapes
    <2> QED BY <2>1, <2>2 DEF Shapes
  <1>3. Reader'
    <2>1. \A g \in Gens : pipe[g].closed => pipe'[g].closed
      BY DEF AtOne
    <2>2. CASE rd' = rd
      BY <1>t, <1>u, <2>1, <2>2 DEF Reader, OnPipe, OnBoth
    <2>3. CASE rd' # rd
      BY <1>r, <2>3 DEF Reader, Idle, OnPipe, OnBoth
    <2> QED BY <2>2, <2>3
  <1> QED BY <1>1, <1>2, <1>3 DEF Types

\* What is known of a pipeline before a step at it.
LEMMA Before ==
  ASSUME IInv, NEW h \in Gens
  PROVE  /\ pipe[h] \in PipelineRecord /\ spoken[h] \in Seq(Chunk) /\ Len(pipe[h].output) <= Cap
         /\ ~pipe[h].held => pipe[h].emitting = <<>>
         /\ Len(pipe[h].pushed) \in Nat /\ sent[h] \in 0 .. MaxUnits
         /\ Len(pipe[h].pushed) + Load(h) <= sent[h]
         /\ h > last => New(h)
         /\ last \in 0 .. MaxGens /\ Units \in SUBSET Nat
  <1>1. Types /\ Sessions /\ Sound(h)
    BY DEF IInv
  <1>2. pipe[h] \in PipelineRecord
    BY <1>1 DEF Types, Shapes
  <1>3. Len(pipe[h].pushed) \in Nat
    <2>1. pipe[h].pushed \in Chunk
      BY <1>2, PipelineFields
    <2> QED BY <2>1, LenProperties DEF Chunk
  <1>4. last \in 0 .. MaxGens /\ Len(pipe[h].output) <= Cap /\ sent[h] \in 0 .. MaxUnits
    BY <1>1 DEF Types, TypeOK
  <1>5. Units \in SUBSET Nat
    BY UnitsAreNumbers
  <1> QED BY <1>1, <1>2, <1>3, <1>4, <1>5 DEF Types, Shapes, Sound, Holds, Counted, Sessions

\* The LLM worker pushes a unit.
LEMMA LlmPushKeeps ==
  ASSUME IInv, NEW h \in Gens, LlmPush(h)
  PROVE  IInv'
  <1>t. Types /\ Sessions /\ Reader /\ Sound(h)
    BY DEF IInv
  <1> DEFINE p == pipe[h]
             s == spoken[h]
             n == Len(p.pushed)
  <1>1. CASE p.closed
    <2>1. LlmMoves(h, "push", "failing") /\ UNCHANGED <<session, pipe, voice, spoken, rd>>
      BY <1>1 DEF LlmPush
    <2> QED BY <2>1, LlmRefusedQuiet, QuietKeeps
  <1>2. CASE ~p.closed
    <2>1. /\ ~p.held /\ llm[h] = "push" /\ llm' = [llm EXCEPT ![h] = "emit"]
          /\ UNCHANGED <<session, voice, spoken, rd>>
      BY <1>2 DEF LlmPush, LlmMoves, LlmAt
    <2>2. PICK q0 \in Pushed(p, "llm") : pipe' = [pipe EXCEPT ![h] = [q0 EXCEPT !.held = TRUE]]
      BY <1>2 DEF LlmPush
    <2> DEFINE q == [q0 EXCEPT !.held = TRUE]
    <2>3. /\ p \in PipelineRecord /\ s \in Seq(Chunk) /\ Len(p.output) <= Cap /\ p.emitting = <<>>
          /\ n \in Nat /\ sent[h] \in 0 .. MaxUnits /\ n + Load(h) <= sent[h]
          /\ (h > last => New(h)) /\ last \in 0 .. MaxGens /\ Units \in SUBSET Nat
      BY <2>1, Before
    <2>4. n < MaxUnits /\ n + 1 \in Units
      <3>1. Load(h) >= 1 /\ Load(h) \in Nat
        BY <2>1 DEF Load, One
      <3> HIDE DEF n
      <3> QED BY <2>3, <3>1, SpeechTextAssumption DEF Units
    <2>5. /\ q0 \in PipelineRecord
          /\ q0.held = p.held /\ q0.closed = p.closed /\ q0.cancelled = p.cancelled
          /\ q0.output = p.output /\ q0.from = p.from \cup {"llm"}
          /\ q0.pushed = Append(p.pushed, n + 1)
          /\ KeptOf(s, q0) = Append(KeptOf(s, p), n + 1)
      <3> DEFINE by == "llm"
      <3>1. by \in {"llm", "client"} /\ q0 \in Pushed(p, by)
        OBVIOUS
      <3>2. p \in PipelineRecord /\ s \in Seq(Chunk) /\ p.emitting = <<>> /\ Len(p.pushed) < MaxUnits
        BY <2>3, <2>4
      <3> HIDE DEF p, s, by
      <3> QED BY <3>1, <3>2, PushedKeeps, Zenon DEF by
    <2>6. /\ q \in PipelineRecord /\ q.held = TRUE /\ q.closed = p.closed /\ q.cancelled = p.cancelled
          /\ q.output = p.output /\ q.from = p.from \cup {"llm"} /\ q.emitting = q0.emitting
          /\ q.pushed = Append(p.pushed, n + 1) /\ q.buffer = q0.buffer
      BY <2>5 DEF PipelineRecord
    <2>7. pipe'[h] = q /\ spoken'[h] = s /\ llm'[h] = "emit" /\ voice' = voice /\ rd' = rd
      BY <1>t, <2>1, <2>2 DEF Types, Shapes
    <2>8. KeptOf(s, q) = Append(KeptOf(s, p), n + 1)
      <3> HIDE DEF q
      <3> QED BY <2>5, <2>6 DEF KeptOf, SaidOf
    <2> HIDE DEF q
    <2>h. h \in 1 .. last
      <3>1. ~(h > last)
        BY <2>1, <2>3 DEF New
      <3> QED BY <2>3, <3>1, SpeechTextAssumption DEF Gens
    <2>9. AtOne(h)
      <3>1. ASSUME NEW g \in Gens \ {h} PROVE llm'[g] = llm[g] /\ pipe'[g] = pipe[g]
        BY <1>t, <2>1, <2>2 DEF Types, Shapes
      <3>2. \A g \in Gens \ {h} : Load(g)' <= Load(g)
        BY <2>1, <3>1 DEF Load, One
      <3> QED BY <1>2, <2>h, <2>1, <3>1, <3>2 DEF AtOne
    <2>10. Types' /\ Reader'
      <3>1. /\ llm' \in [Gens -> LlmPcs] /\ voice' \in [Gens -> VoicePcs]
            /\ spoken' \in [Gens -> Seq(Chunk)] /\ pipe' = [pipe EXCEPT ![h] = q]
        BY <1>t, <2>1, <2>2 DEF Types, Shapes, LlmPcs, q
      <3>2. Len(q.output) <= Cap
        BY <2>3, <2>6
      <3> QED BY <2>6, <2>7, <2>9, <3>1, <3>2, OneTypes
    <2>12. Holds(h)'
      BY <1>t, <1>2, <2>5, <2>6, <2>7 DEF Sound, Holds
    <2>13. Counted(h)'
      <3>1. Len(q.pushed) = n + 1
        <4>1. p.pushed \in Seq(Units)
          BY <2>3, PipelineFields, UnitsAreNumbers
        <4> HIDE DEF n
        <4> QED BY <2>4, <2>6, <4>1, AppendProperties DEF n
      <3>2. Load(h)' + 1 = Load(h)
        BY <2>1, <2>7 DEF Load, One
      <3>3. sent' = sent /\ Load(h)' \in Nat /\ Load(h) \in Nat
        BY <2>1 DEF session, Load, One
      <3> HIDE DEF n
      <3> QED BY <2>3, <2>7, <3>1, <3>2, <3>3 DEF Counted
    <2>14. Texts(h)'
      <3> DEFINE k == KeptOf(s, p)
      <3>1. k \in Seq(Units)
        BY <2>3, KeptIsText, UnitsAreNumbers
      <3>2. Ascends(k, n)
        BY <1>t DEF Sound, Texts, Kept
      <3> HIDE DEF k, n
      <3>3. Ascends(Append(k, n + 1), n + 1)
        BY <2>3, <2>4, <3>1, <3>2, AscendsNext
      <3>4. Len(q.pushed) = n + 1
        <4>1. p.pushed \in Seq(Units)
          BY <2>3, PipelineFields, UnitsAreNumbers
        <4> QED BY <2>4, <2>6, <4>1, AppendProperties DEF n
      <3> QED BY <2>7, <2>8, <3>3, <3>4 DEF Texts, Kept, k
    <2>15. Lasts(h)' => Whole(h)
      <3> SUFFICES ASSUME Lasts(h)' PROVE Whole(h)
        OBVIOUS
      <3>1. Lasts(h) /\ p.from \in {{}, {"llm"}}
        <4>1. p.from \in SUBSET {"llm", "client"}
          BY <2>3, PipelineFields
        <4> QED BY <2>1, <2>6, <2>7, <4>1 DEF Lasts, ContextOver, session
      <3>2. ~Stopped(h)
        BY <1>2, <2>1, <3>1 DEF Stopped
      <3> QED BY <1>t, <3>1, <3>2 DEF Sound, Prefixed
    <2>16. Prefixed(h)'
      <3> SUFFICES ASSUME Lasts(h)' PROVE IsPrefix(Said(h), pipe[h].pushed)' /\ Whole(h)'
        BY DEF Prefixed
      <3>1. Whole(h)'
        BY <2>6, <2>7, <2>8, <2>15 DEF Whole, Kept
      <3>2. IsPrefix(SaidOf(s, q), KeptOf(s, q))
        BY <2>3, <2>6, SaidIsKept
      <3> QED BY <2>7, <3>1, <3>2 DEF Whole, Kept, Said
    <2>17. Drained(h)'
      BY <1>t, <1>2, <2>1, <2>6, <2>7 DEF Sound, Drained, session
    <2> QED BY <2>9, <2>10, <2>12, <2>13, <2>14, <2>16, <2>17, OneKeeps DEF Sound
  <1> QED BY <1>1, <1>2

\* The LLM worker closes the pipeline.
LEMMA LlmCloseKeeps ==
  ASSUME IInv, NEW h \in Gens, LlmClose(h)
  PROVE  IInv'
  <1>t. Types /\ Sessions /\ Reader /\ Sound(h)
    BY DEF IInv
  <1> DEFINE p == pipe[h]
             s == spoken[h]
             n == Len(p.pushed)
  <1>1. CASE p.closed
    <2>1. LlmMoves(h, "close", "gone") /\ UNCHANGED <<session, pipe, voice, spoken, rd>>
      BY <1>1 DEF LlmClose
    <2> QED BY <2>1, LlmRefusedQuiet, QuietKeeps
  <1>2. CASE ~p.closed
    <2>1. /\ ~p.held /\ llm[h] = "close" /\ llm' = [llm EXCEPT ![h] = "flush"]
          /\ UNCHANGED <<session, voice, spoken, rd>>
      BY <1>2 DEF LlmClose, LlmMoves, LlmAt
    <2>2. PICK q0 \in Flushed(p, "llm") : pipe' = [pipe EXCEPT ![h] = [q0 EXCEPT !.held = TRUE]]
      BY <1>2 DEF LlmClose
    <2> DEFINE q == [q0 EXCEPT !.held = TRUE]
    <2>3. /\ p \in PipelineRecord /\ s \in Seq(Chunk) /\ Len(p.output) <= Cap /\ p.emitting = <<>>
          /\ n \in Nat /\ sent[h] \in 0 .. MaxUnits /\ n + Load(h) <= sent[h]
          /\ (h > last => New(h)) /\ last \in 0 .. MaxGens /\ Units \in SUBSET Nat
      BY <2>1, Before
    <2>5. /\ q0 \in PipelineRecord /\ q0.buffer = <<>>
          /\ q0.held = p.held /\ q0.closed = p.closed /\ q0.cancelled = p.cancelled
          /\ q0.output = p.output /\ q0.from = p.from \cup {"llm"} /\ q0.pushed = p.pushed
          /\ KeptOf(s, q0) = KeptOf(s, p)
      <3> DEFINE by == "llm"
      <3>1. by \in {"llm", "client"} /\ q0 \in Flushed(p, by)
        OBVIOUS
      <3>2. p \in PipelineRecord /\ s \in Seq(Chunk) /\ p.emitting = <<>>
        BY <2>3
      <3> HIDE DEF p, s, by
      <3> QED BY <3>1, <3>2, FlushedKeeps, Zenon DEF by
    <2>6. /\ q \in PipelineRecord /\ q.held = TRUE /\ q.closed = p.closed /\ q.cancelled = p.cancelled
          /\ q.output = p.output /\ q.from = p.from \cup {"llm"} /\ q.emitting = q0.emitting
          /\ q.pushed = p.pushed /\ q.buffer = q0.buffer
      BY <2>5 DEF PipelineRecord
    <2>7. pipe'[h] = q /\ spoken'[h] = s /\ llm'[h] = "flush" /\ voice' = voice /\ rd' = rd
      BY <1>t, <2>1, <2>2 DEF Types, Shapes
    <2>8. KeptOf(s, q) = KeptOf(s, p)
      <3> HIDE DEF q
      <3> QED BY <2>5, <2>6 DEF KeptOf, SaidOf
    <2> HIDE DEF q
    <2>h. h \in 1 .. last
      <3>1. ~(h > last)
        BY <2>1, <2>3 DEF New
      <3> QED BY <2>3, <3>1, SpeechTextAssumption DEF Gens
    <2>9. AtOne(h)
      <3>1. ASSUME NEW g \in Gens \ {h} PROVE llm'[g] = llm[g] /\ pipe'[g] = pipe[g]
        BY <1>t, <2>1, <2>2 DEF Types, Shapes
      <3>2. \A g \in Gens \ {h} : Load(g)' <= Load(g)
        BY <2>1, <3>1 DEF Load, One
      <3> QED BY <1>2, <2>h, <2>1, <3>1, <3>2 DEF AtOne
    <2>10. Types' /\ Reader'
      <3>1. /\ llm' \in [Gens -> LlmPcs] /\ voice' \in [Gens -> VoicePcs]
            /\ spoken' \in [Gens -> Seq(Chunk)] /\ pipe' = [pipe EXCEPT ![h] = q]
        BY <1>t, <2>1, <2>2 DEF Types, Shapes, LlmPcs, q
      <3>2. Len(q.output) <= Cap
        BY <2>3, <2>6
      <3> QED BY <2>6, <2>7, <2>9, <3>1, <3>2, OneTypes
    <2>12. Holds(h)'
      BY <1>t, <1>2, <2>5, <2>6, <2>7 DEF Sound, Holds
    <2>13. Counted(h)'
      <3>1. Load(h)' = Load(h) /\ sent' = sent
        BY <2>1, <2>7 DEF Load, One, session
      <3> QED BY <2>3, <2>6, <2>7, <3>1 DEF Counted
    <2>14. Texts(h)'
      BY <1>t, <2>6, <2>7, <2>8 DEF Sound, Texts, Kept
    <2>15. Lasts(h)' => Whole(h)
      <3> SUFFICES ASSUME Lasts(h)' PROVE Whole(h)
        OBVIOUS
      <3>1. Lasts(h) /\ p.from \in {{}, {"llm"}}
        <4>1. p.from \in SUBSET {"llm", "client"}
          BY <2>3, PipelineFields
        <4> QED BY <2>1, <2>6, <2>7, <4>1 DEF Lasts, ContextOver, session
      <3>2. ~Stopped(h)
        BY <1>2, <2>1, <3>1 DEF Stopped
      <3> QED BY <1>t, <3>1, <3>2 DEF Sound, Prefixed
    <2>16. Prefixed(h)'
      <3> SUFFICES ASSUME Lasts(h)' PROVE IsPrefix(Said(h), pipe[h].pushed)' /\ Whole(h)'
        BY DEF Prefixed
      <3>1. Whole(h)'
        BY <2>6, <2>7, <2>8, <2>15 DEF Whole, Kept
      <3>2. IsPrefix(SaidOf(s, q), KeptOf(s, q))
        BY <2>3, <2>6, SaidIsKept
      <3> QED BY <2>7, <3>1, <3>2 DEF Whole, Kept, Said
    <2>17. Drained(h)'
      BY <1>t, <1>2, <2>1, <2>6, <2>7 DEF Sound, Drained, session
    <2> QED BY <2>9, <2>10, <2>12, <2>13, <2>14, <2>16, <2>17, OneKeeps DEF Sound
  <1> QED BY <1>1, <1>2

\* The LLM worker puts a chunk into output.
LEMMA LlmEmitKeeps ==
  ASSUME IInv, NEW h \in Gens, LlmEmit(h)
  PROVE  IInv'
  <1>t. Types /\ Sessions /\ Reader /\ Sound(h)
    BY DEF IInv
  <1> DEFINE p == pipe[h]
             s == spoken[h]
             n == Len(p.pushed)
  <1> DEFINE q == Emitted(p)
  <1>1. /\ llm[h] \in {"emit", "flush"} /\ p.emitting # <<>> /\ q # p
        /\ pipe' = [pipe EXCEPT ![h] = q]
        /\ UNCHANGED <<session, llm, voice, spoken, rd>>
    BY <1>t DEF LlmEmit, Types, Shapes
  <1>2. /\ p \in PipelineRecord /\ s \in Seq(Chunk) /\ Len(p.output) <= Cap
        /\ n \in Nat /\ (h > last => New(h)) /\ last \in 0 .. MaxGens
    BY Before
  <1>3. p.held /\ ~p.closed /\ "llm" \in p.from
    BY <1>t, <1>1 DEF Sound, Holds
  <1>4. Len(p.output) < Cap
    <2> SUFFICES ASSUME ~(Len(p.output) < Cap) PROVE q = p
      BY <1>1
    <2> HIDE DEF p
    <2> QED BY <1>2 DEF Emitted, PipelineRecord
  <1>5. /\ q \in PipelineRecord /\ Len(q.output) <= Cap
        /\ q.held = p.held /\ q.closed = p.closed /\ q.cancelled = p.cancelled
        /\ q.from = p.from /\ q.pushed = p.pushed /\ q.buffer = p.buffer
        /\ KeptOf(s, q) = KeptOf(s, p)
    <2>1. p \in PipelineRecord /\ s \in Seq(Chunk)
      BY <1>2
    <2>2. p.emitting # <<>> /\ Len(p.output) < Cap
      BY <1>1, <1>2, <1>4
    <2> HIDE DEF p, s
    <2> QED BY <2>1, <2>2, EmittedKeeps, Zenon
  <1> HIDE DEF q
  <1>7. pipe'[h] = q /\ spoken'[h] = s /\ llm' = llm /\ voice' = voice /\ rd' = rd
    BY <1>t, <1>1 DEF Types, Shapes
  <1>h. h \in 1 .. last
    <2>1. ~(h > last)
      BY <1>1, <1>2 DEF New
    <2> QED BY <1>2, <2>1, SpeechTextAssumption DEF Gens
  <1>9. AtOne(h)
    <2>1. ASSUME NEW g \in Gens \ {h} PROVE pipe'[g] = pipe[g]
      BY <1>t, <1>1 DEF Types, Shapes
    <2>2. \A g \in Gens : Load(g)' <= Load(g)
      BY <1>1 DEF Load, One
    <2> QED BY <1>1, <1>3, <1>h, <2>1, <2>2 DEF AtOne
  <1>10. Types' /\ Reader'
    <2>1. /\ llm' \in [Gens -> LlmPcs] /\ voice' \in [Gens -> VoicePcs]
          /\ spoken' \in [Gens -> Seq(Chunk)]
      BY <1>t, <1>1 DEF Types, Shapes
    <2> QED BY <1>1, <1>5, <1>7, <1>9, <2>1, OneTypes
  <1>12. Holds(h)'
    BY <1>t, <1>3, <1>5, <1>7 DEF Sound, Holds
  <1>13. Counted(h)'
    <2>1. Load(h)' = Load(h) /\ sent' = sent
      BY <1>1, <1>7 DEF Load, One, session
    <2> QED BY <1>t, <1>5, <1>7, <2>1 DEF Sound, Counted
  <1>14. Texts(h)'
    BY <1>t, <1>5, <1>7 DEF Sound, Texts, Kept
  <1>16. Prefixed(h)'
    <2> SUFFICES ASSUME Lasts(h)' PROVE IsPrefix(Said(h), pipe[h].pushed)' /\ Whole(h)'
      BY DEF Prefixed
    <2>1. Lasts(h)
      BY <1>1, <1>5, <1>7 DEF Lasts, ContextOver, session
    <2>2. ~Stopped(h)
      BY <1>1, <1>3 DEF Stopped
    <2>3. Whole(h)'
      BY <1>t, <1>5, <1>7, <2>1, <2>2 DEF Sound, Prefixed, Whole, Kept
    <2>4. IsPrefix(SaidOf(s, q), KeptOf(s, q))
      BY <1>2, <1>5, SaidIsKept
    <2> QED BY <1>7, <2>3, <2>4 DEF Whole, Kept, Said
  <1>17. Drained(h)'
    BY <1>t, <1>1, <1>3, <1>5, <1>7 DEF Sound, Drained, session
  <1> QED BY <1>9, <1>10, <1>12, <1>13, <1>14, <1>16, <1>17, OneKeeps DEF Sound

\* The LLM worker has put every chunk into output; after the last text it closes.
LEMMA LlmEmittedKeeps ==
  ASSUME IInv, NEW h \in Gens, LlmEmitted(h)
  PROVE  IInv'
  <1>t. Types /\ Sessions /\ Reader /\ Sound(h)
    BY DEF IInv
  <1> DEFINE p == pipe[h]
             s == spoken[h]
             n == Len(p.pushed)
  <1> DEFINE q == [p EXCEPT !.held = FALSE, !.closed = llm[h] = "flush"]
             to == IF llm[h] = "emit" THEN "recv" ELSE "gone"
  <1>1. /\ llm[h] \in {"emit", "flush"} /\ p.emitting = <<>>
        /\ pipe' = [pipe EXCEPT ![h] = q] /\ llm' = [llm EXCEPT ![h] = to]
        /\ UNCHANGED <<session, voice, spoken, rd>>
    BY <1>t DEF LlmEmitted, LlmAt, Types, Shapes
  <1>2. /\ p \in PipelineRecord /\ s \in Seq(Chunk) /\ Len(p.output) <= Cap
        /\ n \in Nat /\ (h > last => New(h)) /\ last \in 0 .. MaxGens
    BY Before
  <1>3. p.held /\ ~p.closed /\ "llm" \in p.from /\ ~p.cancelled
    BY <1>t, <1>1 DEF Sound, Holds
  <1>5. /\ q \in PipelineRecord /\ q.emitting = <<>> /\ q.output = p.output
        /\ q.held = FALSE /\ (q.closed <=> llm[h] = "flush") /\ q.cancelled = p.cancelled
        /\ q.from = p.from /\ q.pushed = p.pushed /\ q.buffer = p.buffer
    <2> HIDE DEF p
    <2>1. p.emitting = <<>>
      BY <1>1
    <2> QED BY <1>2, <2>1 DEF PipelineRecord
  <1>6. KeptOf(s, q) = KeptOf(s, p) /\ SaidOf(s, q) = SaidOf(s, p)
    <2>1. p.emitting = <<>>
      BY <1>1
    <2> HIDE DEF q, p, s
    <2> QED BY <1>5, <2>1, Zenon DEF KeptOf, SaidOf
  <1> HIDE DEF q
  <1>7. pipe'[h] = q /\ spoken'[h] = s /\ llm'[h] = to /\ voice' = voice /\ rd' = rd
    BY <1>t, <1>1 DEF Types, Shapes
  <1>h. h \in 1 .. last
    <2>1. ~(h > last)
      BY <1>1, <1>2 DEF New
    <2> QED BY <1>2, <2>1, SpeechTextAssumption DEF Gens
  <1>9. AtOne(h)
    <2>1. ASSUME NEW g \in Gens \ {h} PROVE pipe'[g] = pipe[g] /\ llm'[g] = llm[g]
      BY <1>t, <1>1 DEF Types, Shapes
    <2>2. \A g \in Gens \ {h} : Load(g)' <= Load(g)
      BY <1>1, <2>1 DEF Load, One
    <2> QED BY <1>1, <1>3, <1>h, <2>1, <2>2 DEF AtOne
  <1>10. Types' /\ Reader'
    <2>1. /\ llm' \in [Gens -> LlmPcs] /\ voice' \in [Gens -> VoicePcs]
          /\ spoken' \in [Gens -> Seq(Chunk)]
      BY <1>t, <1>1 DEF Types, Shapes, LlmPcs
    <2>2. Len(q.output) <= Cap
      BY <1>2, <1>5
    <2> QED BY <1>1, <1>5, <1>7, <1>9, <2>1, <2>2, OneTypes
  <1>12. Holds(h)'
    <2>1. llm'[h] \notin {"emit", "flush"}
      BY <1>7
    <2> QED BY <1>3, <1>5, <1>7, <2>1 DEF Holds
  <1>13. Counted(h)'
    <2>1. Load(h)' = Load(h) /\ sent' = sent
      BY <1>1, <1>7 DEF Load, One, session
    <2> QED BY <1>t, <1>5, <1>7, <2>1 DEF Sound, Counted
  <1>14. Texts(h)'
    BY <1>t, <1>5, <1>6, <1>7 DEF Sound, Texts, Kept
  <1>15. Lasts(h)' => Whole(h) /\ IsPrefix(SaidOf(s, p), p.pushed)
    <2> SUFFICES ASSUME Lasts(h)' PROVE Whole(h) /\ IsPrefix(SaidOf(s, p), p.pushed)
      OBVIOUS
    <2>1. Lasts(h)
      BY <1>1, <1>5, <1>7 DEF Lasts, ContextOver, session
    <2>2. ~Stopped(h)
      BY <1>1, <1>3 DEF Stopped
    <2> QED BY <1>t, <2>1, <2>2 DEF Sound, Prefixed, Said
  <1>16. Prefixed(h)'
    BY <1>5, <1>6, <1>7, <1>15 DEF Prefixed, Whole, Kept, Said
  <1>17. Drained(h)'
    <2>1. Lasts(h)' /\ q.closed => SaidOf(s, q) = q.pushed
      <3> SUFFICES ASSUME Lasts(h)', llm[h] = "flush" PROVE SaidOf(s, p) = p.pushed
        BY <1>5, <1>6
      <3>1. p.buffer = <<>>
        BY <1>t DEF Sound, Holds
      <3> DEFINE a == SaidOf(s, p)
      <3>2. KeptOf(s, p) = a
        <4>1. a \in Chunk
          BY <1>2, KeptIsText
        <4>2. a \o <<>> = a
          <5> HIDE DEF a
          <5> QED BY <4>1, ConcatEmptySeq DEF Chunk
        <4> QED BY <1>1, <3>1, <4>2, FlattenEmpty, Zenon DEF KeptOf
      <3> QED BY <1>15, <3>2 DEF Whole, Kept
    <2> QED BY <1>t, <1>1, <1>3, <1>5, <1>7, <2>1 DEF Sound, Drained, session, Said
  <1> QED BY <1>9, <1>10, <1>12, <1>13, <1>14, <1>16, <1>17, OneKeeps DEF Sound

\* The emission fails: the chunks that are left are dropped.
LEMMA LlmEmitFailsKeeps ==
  ASSUME IInv, NEW h \in Gens, LlmEmitFails(h)
  PROVE  IInv'
  <1>t. Types /\ Sessions /\ Reader /\ Sound(h)
    BY DEF IInv
  <1> DEFINE p == pipe[h]
             s == spoken[h]
             n == Len(p.pushed)
  <1> DEFINE b == llm[h] = "flush"
             q == [p EXCEPT !.held = FALSE, !.emitting = <<>>, !.closed = llm[h] = "flush",
                            !.cancelled = llm[h] = "flush"]
  <1>1. /\ llm[h] \in {"emit", "flush"} /\ EmitFails(h)
        /\ pipe' = [pipe EXCEPT ![h] = q] /\ llm' = [llm EXCEPT ![h] = "failing"]
        /\ UNCHANGED <<session, voice, spoken, rd>>
    BY <1>t DEF LlmEmitFails, LlmAt, Types, Shapes
  <1>2. /\ p \in PipelineRecord /\ s \in Seq(Chunk) /\ Len(p.output) <= Cap
        /\ n \in Nat /\ (h > last => New(h)) /\ last \in 0 .. MaxGens
    BY Before
  <1>3. p.held /\ ~p.closed /\ "llm" \in p.from /\ ~p.cancelled
    BY <1>t, <1>1 DEF Sound, Holds
  <1>5. /\ q \in PipelineRecord /\ q.emitting = <<>> /\ q.output = p.output
        /\ q.held = FALSE /\ (q.closed <=> b) /\ (q.cancelled <=> b)
        /\ q.from = p.from /\ q.pushed = p.pushed /\ q.buffer = p.buffer
    <2> HIDE DEF p
    <2>1. <<>> \in Seq(Chunk)
      OBVIOUS
    <2> QED BY <1>2, <2>1 DEF PipelineRecord
  <1>6. SaidOf(s, q) = SaidOf(s, p) /\ Ascends(KeptOf(s, q), n)
    <2>1. Ascends(KeptOf(s, p), n)
      BY <1>t DEF Sound, Texts, Kept
    <2> HIDE DEF q, p, s, n
    <2> QED BY <1>2, <1>5, <2>1, DroppedKeeps
  <1> HIDE DEF q
  <1>7. pipe'[h] = q /\ spoken'[h] = s /\ llm'[h] = "failing" /\ voice' = voice /\ rd' = rd
    BY <1>t, <1>1 DEF Types, Shapes
  <1>h. h \in 1 .. last
    <2>1. ~(h > last)
      BY <1>1, <1>2 DEF New
    <2> QED BY <1>2, <2>1, SpeechTextAssumption DEF Gens
  <1>9. AtOne(h)
    <2>1. ASSUME NEW g \in Gens \ {h} PROVE pipe'[g] = pipe[g] /\ llm'[g] = llm[g]
      BY <1>t, <1>1 DEF Types, Shapes
    <2>2. \A g \in Gens \ {h} : Load(g)' <= Load(g)
      BY <1>1, <2>1 DEF Load, One
    <2> QED BY <1>1, <1>3, <1>h, <2>1, <2>2 DEF AtOne
  <1>10. Types' /\ Reader'
    <2>1. /\ llm' \in [Gens -> LlmPcs] /\ voice' \in [Gens -> VoicePcs]
          /\ spoken' \in [Gens -> Seq(Chunk)]
      BY <1>t, <1>1 DEF Types, Shapes, LlmPcs
    <2>2. Len(q.output) <= Cap
      BY <1>2, <1>5
    <2> QED BY <1>1, <1>5, <1>7, <1>9, <2>1, <2>2, OneTypes
  <1>12. Holds(h)'
    <2>1. llm'[h] \notin {"emit", "flush"}
      BY <1>7
    <2> QED BY <1>3, <1>5, <1>7, <2>1 DEF Holds
  <1>13. Counted(h)'
    <2>1. Load(h)' = Load(h) /\ sent' = sent
      BY <1>1, <1>7 DEF Load, One, session
    <2> QED BY <1>t, <1>5, <1>7, <2>1 DEF Sound, Counted
  <1>14. Texts(h)'
    BY <1>5, <1>6, <1>7 DEF Texts, Kept
  <1>16. Prefixed(h)'
    <2> SUFFICES ASSUME Lasts(h)' PROVE IsPrefix(SaidOf(s, q), q.pushed) /\ Stopped(h)'
      BY <1>7 DEF Prefixed, Said
    <2>1. Lasts(h)
      BY <1>1, <1>5, <1>7 DEF Lasts, ContextOver, session
    <2>2. IsPrefix(SaidOf(s, p), p.pushed)
      BY <1>t, <2>1 DEF Sound, Prefixed, Said
    <2>3. q.from = {"llm"}
      <3>1. p.from \in SUBSET {"llm", "client"}
        BY <1>2, PipelineFields
      <3> QED BY <1>3, <1>5, <2>1, <3>1 DEF Lasts
    <2> QED BY <1>5, <1>6, <1>7, <2>2, <2>3 DEF Stopped
  <1>17. Drained(h)'
    <2>1. ~Unspeakable => ~Lasts(h)'
      BY <1>1, <1>3 DEF EmitFails, Over, Lasts, ContextOver, session
    <2> QED BY <1>t, <1>1, <1>3, <1>5, <1>7, <2>1 DEF Sound, Drained, session
  <1> QED BY <1>9, <1>10, <1>12, <1>13, <1>14, <1>16, <1>17, OneKeeps DEF Sound

\* The consumer takes a chunk.
LEMMA VoiceTakesKeeps ==
  ASSUME IInv, NEW h \in Gens, VoiceTakes(h)
  PROVE  IInv'
  <1>t. Types /\ Sessions /\ Reader /\ Sound(h)
    BY DEF IInv
  <1> DEFINE p == pipe[h]
             s == spoken[h]
             n == Len(p.pushed)
  <1> DEFINE q == [p EXCEPT !.output = Tail(@)]
             u == Append(s, Head(p.output))
  <1>1. /\ p.output # <<>> /\ voice[h] = "wait" /\ voice' = [voice EXCEPT ![h] = "synth"]
        /\ spoken' = [spoken EXCEPT ![h] = u] /\ pipe' = [pipe EXCEPT ![h] = q]
        /\ UNCHANGED <<session, llm, rd>>
    BY <1>t DEF VoiceTakes, VoiceMoves, Types, Shapes
  <1>2. /\ p \in PipelineRecord /\ s \in Seq(Chunk) /\ Len(p.output) <= Cap
        /\ n \in Nat /\ (h > last => New(h)) /\ last \in 0 .. MaxGens
    BY Before
  <1>5. /\ q \in PipelineRecord /\ q.emitting = p.emitting
        /\ q.held = p.held /\ q.closed = p.closed /\ q.cancelled = p.cancelled
        /\ q.from = p.from /\ q.pushed = p.pushed /\ q.buffer = p.buffer
    <2> HIDE DEF p
    <2>1. p.output # <<>> /\ p.output \in Seq(Chunk)
      BY <1>1, <1>2, PipelineFields
    <2>2. Tail(p.output) \in Seq(Chunk)
      BY <2>1, HeadTailProperties
    <2> QED BY <1>2, <2>2 DEF PipelineRecord
  <1>6. /\ u \in Seq(Chunk) /\ Len(q.output) <= Cap
        /\ SaidOf(u, q) = SaidOf(s, p) /\ KeptOf(u, q) = KeptOf(s, p)
    <2>1. p \in PipelineRecord /\ s \in Seq(Chunk) /\ p.output # <<>> /\ Len(p.output) <= Cap
      BY <1>1, <1>2
    <2> HIDE DEF p, s
    <2> QED BY <2>1, TakenKeeps, Zenon
  <1> HIDE DEF q, u
  <1>7. pipe'[h] = q /\ spoken'[h] = u /\ llm' = llm /\ voice'[h] = "synth" /\ rd' = rd
    BY <1>t, <1>1 DEF Types, Shapes
  <1>h. h \in 1 .. last
    <2>1. ~(h > last)
      BY <1>1, <1>2 DEF New, NewPipeline
    <2> QED BY <1>2, <2>1, SpeechTextAssumption DEF Gens
  <1>9. AtOne(h)
    <2>1. ASSUME NEW g \in Gens \ {h}
          PROVE  pipe'[g] = pipe[g] /\ spoken'[g] = spoken[g] /\ voice'[g] = voice[g]
      BY <1>t, <1>1 DEF Types, Shapes
    <2>2. \A g \in Gens \ {h} : Load(g)' <= Load(g)
      BY <1>1 DEF Load, One
    <2> QED BY <1>1, <1>5, <1>7, <1>h, <2>1, <2>2 DEF AtOne
  <1>10. Types' /\ Reader'
    <2>1. /\ llm' \in [Gens -> LlmPcs] /\ voice' \in [Gens -> VoicePcs]
          /\ spoken' \in [Gens -> Seq(Chunk)]
      BY <1>t, <1>1, <1>6 DEF Types, Shapes, VoicePcs
    <2> QED BY <1>1, <1>5, <1>6, <1>7, <1>9, <2>1, OneTypes
  <1>12. Holds(h)'
    BY <1>t, <1>5, <1>7 DEF Sound, Holds
  <1>13. Counted(h)'
    <2>1. Load(h)' = Load(h) /\ sent' = sent
      BY <1>1, <1>7 DEF Load, One, session
    <2> QED BY <1>t, <1>5, <1>7, <2>1 DEF Sound, Counted
  <1>14. Texts(h)'
    BY <1>t, <1>5, <1>6, <1>7 DEF Sound, Texts, Kept
  <1>l. Lasts(h)' => Lasts(h)
    BY <1>1, <1>5, <1>7 DEF Lasts, ContextOver, session
  <1>16. Prefixed(h)'
    BY <1>t, <1>5, <1>6, <1>7, <1>l DEF Sound, Prefixed, Whole, Stopped, Kept, Said
  <1>17. Drained(h)'
    BY <1>t, <1>1, <1>5, <1>6, <1>7, <1>l DEF Sound, Drained, Said, session
  <1> QED BY <1>9, <1>10, <1>12, <1>13, <1>14, <1>16, <1>17, OneKeeps DEF Sound

\* The reader pushes a unit, if it gets the mutex at once.
LEMMA RdTryPushKeeps ==
  ASSUME IInv, RdTryPush
  PROVE  IInv'
  <1>t. Types /\ Sessions /\ Reader /\ (\A g \in Gens : Sound(g))
    BY DEF IInv
  <1>h. PICK h \in Gens : h = rd.pipe
    BY <1>t DEF RdTryPush, Reader, OnPipe, RdMoves
  <1> DEFINE p == pipe[h]
             s == spoken[h]
             n == Len(p.pushed)
  <1>0. rd.pc = "tryPush" /\ h \in Gens /\ h \in 1 .. last /\ (rd.id = h \/ p.closed)
    <2>1. rd.pc = "tryPush" /\ (rd.id = h \/ p.closed)
      BY <1>t, <1>h DEF RdTryPush, Reader, OnPipe, OnBoth, RdMoves
    <2>2. h \in 0 .. last /\ last \in 0 .. MaxGens
      BY <1>t, <1>h DEF Types, TypeOK
    <2>3. h \in 1 .. last
      BY <2>2, SpeechTextAssumption DEF Gens
    <2> QED BY <2>1, <2>3
  <1>1. CASE p.held \/ p.closed
    <2>1. /\ UNCHANGED <<session, pipe, llm, voice, spoken>>
          /\ rd' = Idle \/ rd' = RdAt("cancel")
      BY <1>1, <1>h DEF RdTryPush, RdMoves
    <2> QED BY <1>0, <2>1, RdRefusedQuiet, QuietKeeps
  <1>2. CASE ~p.held /\ ~p.closed
    <2>p. PICK q0 \in Pushed(p, "client") : \E t \in Tried(h, q0) :
              /\ rd' = (IF t.ok THEN Idle ELSE RdAt("cancel"))
              /\ pipe' = [pipe EXCEPT ![h] = t.p]
              /\ UNCHANGED <<session, llm, voice, spoken>>
      BY <1>2, <1>h DEF RdTryPush, RdMoves
    <2>1. PICK t \in Tried(h, q0) :
              /\ rd' = (IF t.ok THEN Idle ELSE RdAt("cancel"))
              /\ pipe' = [pipe EXCEPT ![h] = t.p]
              /\ UNCHANGED <<session, llm, voice, spoken>>
      BY <2>p
    <2> DEFINE q == t.p
    <2>3. /\ p \in PipelineRecord /\ s \in Seq(Chunk) /\ Len(p.output) <= Cap /\ p.emitting = <<>>
          /\ n \in Nat /\ sent[h] \in 0 .. MaxUnits /\ n + Load(h) <= sent[h]
          /\ last \in 0 .. MaxGens /\ Units \in SUBSET Nat
      BY <1>0, <1>2, Before
    <2>r. rd.id = h
      BY <1>0, <1>2
    <2>4. n < MaxUnits /\ n + 1 \in Units
      <3>1. Load(h) >= 1 /\ Load(h) \in Nat
        BY <1>0, <2>r DEF Load, One
      <3> HIDE DEF n
      <3> QED BY <2>3, <3>1, SpeechTextAssumption DEF Units
    <2>5. /\ q0 \in PipelineRecord
          /\ q0.held = p.held /\ q0.closed = p.closed /\ q0.cancelled = p.cancelled
          /\ q0.output = p.output /\ q0.from = p.from \cup {"client"}
          /\ q0.pushed = Append(p.pushed, n + 1)
          /\ KeptOf(s, q0) = Append(KeptOf(s, p), n + 1)
      <3> DEFINE by == "client"
      <3>1. by \in {"llm", "client"} /\ q0 \in Pushed(p, by)
        OBVIOUS
      <3>2. p \in PipelineRecord /\ s \in Seq(Chunk) /\ p.emitting = <<>> /\ Len(p.pushed) < MaxUnits
        BY <2>3, <2>4
      <3> HIDE DEF p, s, by
      <3> QED BY <3>1, <3>2, PushedKeeps, Zenon DEF by
    <2> DEFINE m == n + 1
    <2>m. m \in Nat /\ Len(q0.pushed) = m
      <3>1. p.pushed \in Seq(Units)
        BY <2>3, PipelineFields, UnitsAreNumbers
      <3> HIDE DEF n
      <3>2. Len(q0.pushed) = n + 1
        BY <2>4, <2>5, <3>1, AppendProperties DEF n
      <3> QED BY <2>3, <3>2
    <2>a. Ascends(KeptOf(s, q0), m)
      <3> DEFINE k == KeptOf(s, p)
      <3>1. k \in Seq(Units)
        BY <2>3, KeptIsText, UnitsAreNumbers
      <3>2. Ascends(k, n)
        BY <1>t, <1>0 DEF Sound, Texts, Kept
      <3> HIDE DEF k, n
      <3>3. Ascends(Append(k, n + 1), n + 1)
        BY <2>3, <2>4, <3>1, <3>2, AscendsNext
      <3> QED BY <2>5, <3>3 DEF k
    <2>k. /\ t.ok \in BOOLEAN /\ t.p \in PipelineRecord /\ Len(t.p.output) <= Cap
          /\ t.p.held = q0.held /\ t.p.closed = q0.closed /\ t.p.cancelled = q0.cancelled
          /\ t.p.from = q0.from /\ t.p.pushed = q0.pushed /\ t.p.buffer = q0.buffer
          /\ t.p.emitting = <<>>
          /\ IsPrefix(SaidOf(s, t.p), KeptOf(s, q0))
          /\ Ascends(KeptOf(s, q0), m) => Ascends(KeptOf(s, t.p), m)
          /\ t.ok => KeptOf(s, t.p) = KeptOf(s, q0)
      <3>1. q0 \in PipelineRecord /\ s \in Seq(Chunk) /\ Len(q0.output) <= Cap
        BY <2>3, <2>5
      <3>2. m \in Nat
        BY <2>m
      <3>3. t \in Tried(h, q0)
        OBVIOUS
      <3> HIDE DEF s, m
      <3> QED BY <3>1, <3>2, <3>3, TriedKeeps
    <2>6. /\ q \in PipelineRecord /\ q.held = FALSE /\ q.closed = FALSE /\ q.cancelled = FALSE
          /\ Len(q.output) <= Cap /\ q.from = p.from \cup {"client"} /\ q.emitting = <<>>
          /\ q.pushed = q0.pushed /\ q.buffer = q0.buffer /\ q.output = t.p.output
      <3>1. p.held = FALSE /\ p.closed = FALSE
        BY <1>2, <2>3, PipelineFields
      <3>2. p.cancelled = FALSE
        <4>1. p.cancelled \in BOOLEAN
          BY <2>3, PipelineFields
        <4> QED BY <1>t, <1>0, <1>2, <4>1 DEF Sound, Holds
      <3> HIDE DEF p
      <3> QED BY <2>5, <2>k, <3>1, <3>2 DEF PipelineRecord
    <2>7. pipe'[h] = q /\ spoken'[h] = s /\ llm' = llm /\ voice' = voice
      BY <1>t, <1>0, <2>1 DEF Types, Shapes
    <2>8. SaidOf(s, q) = SaidOf(s, t.p) /\ KeptOf(s, q) = KeptOf(s, t.p)
      <3> HIDE DEF q
      <3> QED BY <2>k, <2>6 DEF KeptOf, SaidOf
    <2> HIDE DEF q, m
    <2>i. \/ t.ok /\ rd' = Idle
          \/ ~t.ok /\ rd' = RdAt("cancel") /\ rd'.pc = "cancel" /\ rd'.id = h
      BY <1>t, <2>1, <2>k, <2>r DEF RdAt, Types, Shapes
    <2>l. \A g \in Gens : Load(g)' <= Load(g) /\ (g = h => Load(g)' + 1 = Load(g))
      BY <1>0, <2>i, <2>r, <2>7 DEF Load, One, Idle
    <2>9. AtOne(h)
      <3>1. ASSUME NEW g \in Gens \ {h} PROVE pipe'[g] = pipe[g]
        BY <1>t, <1>0, <2>1 DEF Types, Shapes
      <3> QED BY <1>0, <1>2, <2>1, <2>l, <3>1 DEF AtOne
    <2>10. Types' /\ Reader'
      <3>1. /\ llm' \in [Gens -> LlmPcs] /\ voice' \in [Gens -> VoicePcs]
            /\ spoken' \in [Gens -> Seq(Chunk)] /\ pipe' = [pipe EXCEPT ![h] = q]
        BY <1>t, <2>1 DEF Types, Shapes, q
      <3>2. rd' = rd \/ rd' = Idle \/ rd' = RdAt("cancel")
        BY <2>i
      <3> QED BY <1>0, <2>6, <2>9, <3>1, <3>2, OneTypes
    <2>12. Holds(h)'
      <3>1. llm[h] \notin {"emit", "flush"}
        BY <1>t, <1>0, <1>2 DEF Sound, Holds
      <3> QED BY <2>6, <2>7, <3>1 DEF Holds
    <2>13. Counted(h)'
      <3>1. Load(h)' + 1 = Load(h) /\ sent' = sent /\ Load(h)' \in Nat /\ Load(h) \in Nat
        BY <1>0, <2>1, <2>l DEF session, Load, One
      <3>2. Len(q.pushed) = n + 1
        BY <2>6, <2>m DEF m
      <3> HIDE DEF n
      <3> QED BY <2>3, <2>7, <3>1, <3>2 DEF Counted
    <2>14. Texts(h)'
      BY <2>a, <2>k, <2>m, <2>6, <2>7, <2>8 DEF Texts, Kept
    <2>15. Lasts(h)' => KeptOf(s, q0) = q0.pushed /\ q.from = {"client"}
      <3> SUFFICES ASSUME Lasts(h)' PROVE KeptOf(s, q0) = q0.pushed /\ q.from = {"client"}
        OBVIOUS
      <3>1. Lasts(h) /\ p.from \in {{}, {"client"}}
        <4>1. p.from \in SUBSET {"llm", "client"}
          BY <2>3, PipelineFields
        <4>2. ~ContextOver(h) /\ q.from # {"llm", "client"}
          BY <2>1, <2>7 DEF Lasts, ContextOver, session
        <4> QED BY <2>6, <4>1, <4>2 DEF Lasts
      <3>2. ~Stopped(h)
        BY <1>0, <1>2, <3>1 DEF Stopped
      <3>3. KeptOf(s, p) = p.pushed
        BY <1>t, <1>0, <3>1, <3>2 DEF Sound, Prefixed, Whole, Kept
      <3> QED BY <2>5, <2>6, <3>1, <3>3
    <2>16. Prefixed(h)'
      <3> SUFFICES ASSUME Lasts(h)' PROVE IsPrefix(SaidOf(s, q), q.pushed) /\ (Whole(h)' \/ Stopped(h)')
        BY <2>7 DEF Prefixed, Said
      <3>1. IsPrefix(SaidOf(s, q), q.pushed)
        BY <2>k, <2>6, <2>8, <2>15
      <3>2. CASE t.ok
        <4>1. Whole(h)'
          BY <2>k, <2>6, <2>7, <2>8, <2>15, <3>2 DEF Whole, Kept
        <4> QED BY <3>1, <4>1
      <3>3. CASE ~t.ok
        <4>1. Stopped(h)'
          BY <2>i, <2>7, <2>15, <3>3 DEF Stopped
        <4> QED BY <3>1, <4>1
      <3> QED BY <3>2, <3>3
    <2>17. Drained(h)'
      BY <1>t, <1>0, <1>2, <2>1, <2>6, <2>7 DEF Sound, Drained, session
    <2> QED BY <1>0, <2>9, <2>10, <2>12, <2>13, <2>14, <2>16, <2>17, OneKeeps DEF Sound
  <1> QED BY <1>1, <1>2

\* The reader closes the pipeline, if it gets the mutex at once.
LEMMA RdTryCloseKeeps ==
  ASSUME IInv, RdTryClose
  PROVE  IInv'
  <1>t. Types /\ Sessions /\ Reader /\ (\A g \in Gens : Sound(g))
    BY DEF IInv
  <1>h. PICK h \in Gens : h = rd.pipe
    BY <1>t DEF RdTryClose, Reader, OnPipe, RdMoves
  <1> DEFINE p == pipe[h]
             s == spoken[h]
             n == Len(p.pushed)
  <1>0. rd.pc = "tryClose" /\ h \in Gens /\ h \in 1 .. last /\ (rd.id = h \/ p.closed)
    <2>1. rd.pc = "tryClose" /\ (rd.id = h \/ p.closed)
      BY <1>t, <1>h DEF RdTryClose, Reader, OnPipe, OnBoth, RdMoves
    <2>2. h \in 0 .. last /\ last \in 0 .. MaxGens
      BY <1>t, <1>h DEF Types, TypeOK
    <2>3. h \in 1 .. last
      BY <2>2, SpeechTextAssumption DEF Gens
    <2> QED BY <2>1, <2>3
  <1>1. CASE p.held \/ p.closed
    <2>1. /\ UNCHANGED <<session, pipe, llm, voice, spoken>>
          /\ rd' = Idle \/ rd' = RdAt("cancel")
      BY <1>1, <1>h DEF RdTryClose, RdMoves
    <2> QED BY <1>0, <2>1, RdRefusedQuiet, QuietKeeps
  <1>2. CASE ~p.held /\ ~p.closed
    <2>p. PICK q0 \in Flushed(p, "client") : \E t \in Tried(h, q0) :
              /\ rd' = (IF t.ok THEN Idle ELSE RdAt("cancel"))
              /\ pipe' = [pipe EXCEPT ![h] = [t.p EXCEPT !.closed = t.ok]]
              /\ UNCHANGED <<session, llm, voice, spoken>>
      BY <1>2, <1>h DEF RdTryClose, RdMoves
    <2>1. PICK t \in Tried(h, q0) :
              /\ rd' = (IF t.ok THEN Idle ELSE RdAt("cancel"))
              /\ pipe' = [pipe EXCEPT ![h] = [t.p EXCEPT !.closed = t.ok]]
              /\ UNCHANGED <<session, llm, voice, spoken>>
      BY <2>p
    <2> DEFINE q == [t.p EXCEPT !.closed = t.ok]
    <2>3. /\ p \in PipelineRecord /\ s \in Seq(Chunk) /\ Len(p.output) <= Cap /\ p.emitting = <<>>
          /\ n \in Nat /\ sent[h] \in 0 .. MaxUnits /\ n + Load(h) <= sent[h]
          /\ last \in 0 .. MaxGens /\ Units \in SUBSET Nat
      BY <1>0, <1>2, Before
    <2>r. rd.id = h
      BY <1>0, <1>2
    <2>5. /\ q0 \in PipelineRecord /\ q0.buffer = <<>>
          /\ q0.held = p.held /\ q0.closed = p.closed /\ q0.cancelled = p.cancelled
          /\ q0.output = p.output /\ q0.from = p.from \cup {"client"} /\ q0.pushed = p.pushed
          /\ KeptOf(s, q0) = KeptOf(s, p)
      <3> DEFINE by == "client"
      <3>1. by \in {"llm", "client"} /\ q0 \in Flushed(p, by)
        OBVIOUS
      <3>2. p \in PipelineRecord /\ s \in Seq(Chunk) /\ p.emitting = <<>>
        BY <2>3
      <3> HIDE DEF p, s, by
      <3> QED BY <3>1, <3>2, FlushedKeeps, Zenon DEF by
    <2> DEFINE m == n
    <2>m. m \in Nat /\ Len(q0.pushed) = m
      BY <2>3, <2>5
    <2>a. Ascends(KeptOf(s, q0), m)
      BY <1>t, <1>0, <2>5 DEF Sound, Texts, Kept
    <2>k. /\ t.ok \in BOOLEAN /\ t.p \in PipelineRecord /\ Len(t.p.output) <= Cap
          /\ t.p.held = q0.held /\ t.p.closed = q0.closed /\ t.p.cancelled = q0.cancelled
          /\ t.p.from = q0.from /\ t.p.pushed = q0.pushed /\ t.p.buffer = q0.buffer
          /\ t.p.emitting = <<>>
          /\ IsPrefix(SaidOf(s, t.p), KeptOf(s, q0))
          /\ Ascends(KeptOf(s, q0), m) => Ascends(KeptOf(s, t.p), m)
          /\ t.ok => KeptOf(s, t.p) = KeptOf(s, q0)
      <3>1. q0 \in PipelineRecord /\ s \in Seq(Chunk) /\ Len(q0.output) <= Cap
        BY <2>3, <2>5
      <3>2. m \in Nat
        BY <2>m
      <3>3. t \in Tried(h, q0)
        OBVIOUS
      <3> HIDE DEF s, m
      <3> QED BY <3>1, <3>2, <3>3, TriedKeeps
    <2>6. /\ q \in PipelineRecord /\ q.held = FALSE /\ q.closed = t.ok /\ q.cancelled = FALSE
          /\ Len(q.output) <= Cap /\ q.from = p.from \cup {"client"} /\ q.emitting = <<>>
          /\ q.pushed = q0.pushed /\ q.buffer = q0.buffer /\ q.output = t.p.output
      <3>1. p.held = FALSE /\ p.closed = FALSE
        BY <1>2, <2>3, PipelineFields
      <3>2. p.cancelled = FALSE
        <4>1. p.cancelled \in BOOLEAN
          BY <2>3, PipelineFields
        <4> QED BY <1>t, <1>0, <1>2, <4>1 DEF Sound, Holds
      <3> HIDE DEF p
      <3> QED BY <2>5, <2>k, <3>1, <3>2 DEF PipelineRecord
    <2>7. pipe'[h] = q /\ spoken'[h] = s /\ llm' = llm /\ voice' = voice
      BY <1>t, <1>0, <2>1 DEF Types, Shapes
    <2>8. SaidOf(s, q) = SaidOf(s, t.p) /\ KeptOf(s, q) = KeptOf(s, t.p)
      <3> HIDE DEF q
      <3> QED BY <2>k, <2>6 DEF KeptOf, SaidOf
    <2> HIDE DEF q, m
    <2>i. \/ t.ok /\ rd' = Idle
          \/ ~t.ok /\ rd' = RdAt("cancel") /\ rd'.pc = "cancel" /\ rd'.id = h
      BY <1>t, <2>1, <2>k, <2>r DEF RdAt, Types, Shapes
    <2>l. \A g \in Gens : Load(g)' <= Load(g)
      BY <1>0, <2>i, <2>r, <2>7 DEF Load, One, Idle
    <2>9. AtOne(h)
      <3>1. ASSUME NEW g \in Gens \ {h} PROVE pipe'[g] = pipe[g]
        BY <1>t, <1>0, <2>1 DEF Types, Shapes
      <3> QED BY <1>0, <1>2, <2>1, <2>l, <3>1 DEF AtOne
    <2>10. Types' /\ Reader'
      <3>1. /\ llm' \in [Gens -> LlmPcs] /\ voice' \in [Gens -> VoicePcs]
            /\ spoken' \in [Gens -> Seq(Chunk)] /\ pipe' = [pipe EXCEPT ![h] = q]
        BY <1>t, <2>1 DEF Types, Shapes, q
      <3>2. rd' = rd \/ rd' = Idle \/ rd' = RdAt("cancel")
        BY <2>i
      <3> QED BY <1>0, <2>6, <2>9, <3>1, <3>2, OneTypes
    <2>12. Holds(h)'
      <3>1. llm[h] \notin {"emit", "flush"}
        BY <1>t, <1>0, <1>2 DEF Sound, Holds
      <3> QED BY <2>6, <2>7, <3>1 DEF Holds
    <2>13. Counted(h)'
      <3>1. Load(h)' <= Load(h) /\ sent' = sent /\ Load(h)' \in Nat /\ Load(h) \in Nat
        BY <1>0, <2>1, <2>l DEF session, Load, One
      <3>2. Len(q.pushed) = n
        BY <2>6, <2>m DEF m
      <3> HIDE DEF n
      <3> QED BY <2>3, <2>7, <3>1, <3>2 DEF Counted
    <2>14. Texts(h)'
      BY <2>a, <2>k, <2>m, <2>6, <2>7, <2>8 DEF Texts, Kept
    <2>15. Lasts(h)' => KeptOf(s, q0) = q0.pushed /\ q.from = {"client"}
      <3> SUFFICES ASSUME Lasts(h)' PROVE KeptOf(s, q0) = q0.pushed /\ q.from = {"client"}
        OBVIOUS
      <3>1. Lasts(h) /\ p.from \in {{}, {"client"}}
        <4>1. p.from \in SUBSET {"llm", "client"}
          BY <2>3, PipelineFields
        <4>2. ~ContextOver(h) /\ q.from # {"llm", "client"}
          BY <2>1, <2>7 DEF Lasts, ContextOver, session
        <4> QED BY <2>6, <4>1, <4>2 DEF Lasts
      <3>2. ~Stopped(h)
        BY <1>0, <1>2, <3>1 DEF Stopped
      <3>3. KeptOf(s, p) = p.pushed
        BY <1>t, <1>0, <3>1, <3>2 DEF Sound, Prefixed, Whole, Kept
      <3> QED BY <2>5, <2>6, <3>1, <3>3
    <2>16. Prefixed(h)'
      <3> SUFFICES ASSUME Lasts(h)' PROVE IsPrefix(SaidOf(s, q), q.pushed) /\ (Whole(h)' \/ Stopped(h)')
        BY <2>7 DEF Prefixed, Said
      <3>1. IsPrefix(SaidOf(s, q), q.pushed)
        BY <2>k, <2>6, <2>8, <2>15
      <3>2. CASE t.ok
        <4>1. Whole(h)'
          BY <2>k, <2>6, <2>7, <2>8, <2>15, <3>2 DEF Whole, Kept
        <4> QED BY <3>1, <4>1
      <3>3. CASE ~t.ok
        <4>1. Stopped(h)'
          BY <2>i, <2>7, <2>15, <3>3 DEF Stopped
        <4> QED BY <3>1, <4>1
      <3> QED BY <3>2, <3>3
    <2>17. Drained(h)'
      <3>1. Lasts(h)' /\ q.closed => SaidOf(s, q) = q.pushed
        <4> SUFFICES ASSUME Lasts(h)', t.ok PROVE SaidOf(s, q) = q.pushed
          BY <2>6
        <4> DEFINE a == SaidOf(s, q)
        <4>1. KeptOf(s, q) = a
          <5>1. a \in Chunk
            BY <2>3, <2>6, KeptIsText
          <5>2. a \o <<>> = a
            <6> HIDE DEF a
            <6> QED BY <5>1, ConcatEmptySeq DEF Chunk
          <5>3. q.emitting = <<>> /\ q.buffer = <<>>
            BY <2>5, <2>6
          <5> QED BY <5>2, <5>3, FlattenEmpty, Zenon DEF KeptOf
        <4> QED BY <2>k, <2>6, <2>8, <2>15, <4>1
      <3> QED BY <1>t, <1>0, <1>2, <2>1, <2>6, <2>7, <3>1 DEF Sound, Drained, session, Said
    <2> QED BY <1>0, <2>9, <2>10, <2>12, <2>13, <2>14, <2>16, <2>17, OneKeeps DEF Sound
  <1> QED BY <1>1, <1>2

-----------------------------------------------------------------------------
(* What holds Session.mu gets the pipeline's mutex.                        *)

\* The current pipeline is closed; its texts stay.
Silenced(g) ==
  /\ pipe'[g].held = pipe[g].held /\ pipe'[g].pushed = pipe[g].pushed
  /\ pipe'[g].buffer = pipe[g].buffer /\ pipe'[g].emitting = pipe[g].emitting
  /\ pipe'[g].output = pipe[g].output /\ pipe'[g].from = pipe[g].from
  /\ pipe[g].closed => pipe'[g].closed
  /\ pipe'[g].cancelled => pipe'[g].closed
  /\ g # current => pipe'[g] = pipe[g]
  /\ g = current => pipe'[g].closed /\ ~pipe'[g].held

\* Pipeline.Cancel does that.
LEMMA CancelledSilences ==
  ASSUME IInv, Cancelled(pipe)
  PROVE  pipe' \in [Gens -> PipelineRecord] /\ \A g \in Gens : Silenced(g)
  <1>t. pipe \in [Gens -> PipelineRecord] /\ (\A g \in Gens : Holds(g))
    BY DEF IInv, Types, Shapes, Sound
  <1>c. current # 0 => current \in Gens
    <2>1. current \in 0 .. last /\ last \in 0 .. MaxGens
      BY DEF IInv, Types, TypeOK
    <2> QED BY <2>1, SpeechTextAssumption DEF Gens
  <1>1. CASE pipe' = pipe /\ (current = 0 \/ pipe[current].closed)
    <2>1. ASSUME NEW g \in Gens PROVE Silenced(g)
      <3>1. g # 0
        BY SpeechTextAssumption DEF Gens
      <3>2. pipe[g].cancelled => pipe[g].closed
        BY <1>t DEF Holds
      <3>3. g = current => pipe[g].closed /\ ~pipe[g].held
        BY <1>1, <3>1 DEF Cancelled
      <3> QED BY <1>1, <3>2, <3>3 DEF Silenced
    <2> QED BY <1>t, <1>1, <2>1
  <1>2. CASE ~(current = 0 \/ pipe[current].closed)
    <2> DEFINE p == pipe[current]
               q == [p EXCEPT !.closed = TRUE, !.cancelled = TRUE]
    <2>1. pipe' = [pipe EXCEPT ![current] = q] /\ ~p.held
      BY <1>t, <1>c, <1>2 DEF Cancelled
    <2>2. p \in PipelineRecord
      BY <1>t, <1>c, <1>2
    <2>3. /\ q \in PipelineRecord /\ q.closed = TRUE /\ q.held = p.held /\ q.pushed = p.pushed
          /\ q.buffer = p.buffer /\ q.emitting = p.emitting /\ q.output = p.output
          /\ q.from = p.from
      <3> HIDE DEF p
      <3> QED BY <2>2 DEF PipelineRecord
    <2> HIDE DEF q
    <2>4. \A g \in Gens : pipe'[g] = IF g = current THEN q ELSE pipe[g]
      BY <1>t, <2>1
    <2>5. ASSUME NEW g \in Gens PROVE Silenced(g)
      <3>1. CASE g = current
        BY <2>1, <2>3, <2>4, <3>1 DEF Silenced
      <3>2. CASE g # current
        BY <1>t, <2>4, <3>2 DEF Silenced, Holds
      <3> QED BY <3>1, <3>2
    <2>6. pipe' \in [Gens -> PipelineRecord]
      BY <1>t, <2>1, <2>3
    <2> QED BY <2>5, <2>6
  <1> QED BY <1>1, <1>2 DEF Cancelled

\* What such a step keeps of a generation whose context ends, or of one that begins.
LEMMA SilencedSound ==
  ASSUME IInv, NEW g \in Gens, Silenced(g), UNCHANGED <<sent, done, voice, spoken>>,
         textOnly \subseteq textOnly', Load(g)' <= Load(g), Prefixed(g)',
         pipe'[g].closed => ContextOver(g)',
         llm'[g] = llm[g] \/ (llm[g] = "none" /\ llm'[g] = "created")
  PROVE  Sound(g)'
  <1>t. Types /\ Sound(g)
    BY DEF IInv
  <1>1. Holds(g)'
    <2>1. pipe[g].held /\ pipe'[g].closed => pipe[g].closed
      BY DEF Silenced
    <2> QED BY <1>t, <2>1 DEF Sound, Holds, Silenced
  <1>2. Counted(g)'
    <2> DEFINE n == Len(pipe[g].pushed)
    <2>1. n \in Nat /\ sent[g] \in 0 .. MaxUnits /\ n + Load(g) <= sent[g]
      BY Before
    <2>2. Load(g) \in Nat /\ Load(g)' \in Nat
      BY DEF Load, One
    <2>3. Counted(g)' <=> n + Load(g)' <= sent[g]
      BY DEF Counted, Silenced
    <2> HIDE DEF n
    <2> QED BY <2>1, <2>2, <2>3, SpeechTextAssumption
  <1>k. Kept(g)' = Kept(g) /\ Said(g)' = Said(g)
    BY DEF Kept, Said, KeptOf, SaidOf, Silenced
  <1>3. Texts(g)'
    BY <1>t, <1>k DEF Sound, Texts, Silenced
  <1>4. Drained(g)'
    <2>1. ~(Lasts(g)' /\ pipe'[g].closed)
      BY DEF Lasts
    <2>2. Drained(g) /\ (g \in done' \ textOnly' => g \in done \ textOnly) /\ voice' = voice
      BY <1>t DEF Sound
    <2> QED BY <1>k, <2>1, <2>2 DEF Drained, Silenced
  <1> QED BY <1>1, <1>2, <1>3, <1>4 DEF Sound

\* Types and the reader, after such a step.
LEMMA SilencedTypes ==
  ASSUME IInv, pipe' \in [Gens -> PipelineRecord], \A g \in Gens : Silenced(g),
         UNCHANGED <<textDone, done, sent, closed, voice, spoken>>, mu' = "free",
         llm' \in [Gens -> LlmPcs],
         last' \in {last, last + 1}, last' <= MaxGens, current' \in {0, last'},
         alive' \subseteq {last'} \cap 1 .. last',
         textOnly \subseteq textOnly', textOnly' \subseteq textOnly \cup ({last'} \cap 1 .. last'),
         rd' \in [pc : RdPcs, id : Nat, pipe : Nat],
         rd' = rd \/ rd' = Idle \/ (rd'.pc = "created" /\ rd'.id = last' /\ rd'.pipe = rd.pipe)
  PROVE  Types' /\ Reader'
  <1>t. Types /\ Reader
    BY DEF IInv
  <1>l. last \in Nat /\ last' \in Nat /\ last <= last' /\ last' <= MaxGens /\ MaxGens \in Nat
    BY <1>t, SpeechTextAssumption DEF Types, TypeOK
  <1>1. TypeOK'
    <2>1. last' \in 0 .. MaxGens /\ current' \in 0 .. last' /\ mu' \in Kinds \cup {"free", "cancel"}
      BY <1>l
    <2>2. alive' \cup textOnly' \cup textDone' \cup done' \subseteq 1 .. last'
      <3>1. 1 .. last \subseteq 1 .. last'
        BY <1>l
      <3>2. textOnly \cup textDone \cup done \subseteq 1 .. last
        BY <1>t DEF Types, TypeOK
      <3> QED BY <3>1, <3>2
    <2>3. ASSUME NEW g \in Gens PROVE pipe'[g] \in PipelineRecord /\ Len(pipe'[g].output) <= Cap
      BY <1>t DEF Types, TypeOK, Silenced
    <2>4. rd'.id \in 0 .. last' /\ rd'.pipe \in 0 .. last'
      <3>1. rd.id \in 0 .. last' /\ rd.pipe \in 0 .. last' /\ 0 \in 0 .. last' /\ last' \in 0 .. last'
        <4>1. rd.id \in 0 .. last /\ rd.pipe \in 0 .. last
          BY <1>t DEF Types, TypeOK
        <4> QED BY <1>l, <4>1
      <3>2. rd \in [pc : RdPcs, id : Nat, pipe : Nat]
        BY <1>t DEF Types, Shapes
      <3> QED BY <3>1, <3>2 DEF Idle
    <2> QED BY <1>t, <2>1, <2>2, <2>3, <2>4 DEF Types, TypeOK
  <1>2. Shapes'
    BY <1>t DEF Types, Shapes
  <1>3. Reader'
    <2>1. CASE rd' = rd
      <3>1. rd.pc \in OnPipe /\ pipe[rd.pipe].closed => pipe'[rd.pipe].closed
        BY <1>t DEF Reader, Silenced
      <3> QED BY <1>t, <2>1, <3>1 DEF Reader, OnPipe, OnBoth
    <2>2. CASE rd' # rd
      BY <2>2 DEF Reader, Idle, OnPipe, OnBoth
    <2> QED BY <2>1, <2>2
  <1> QED BY <1>1, <1>2, <1>3 DEF Types

\* A cancellation ends.
LEMMA CancelEndsKeeps ==
  ASSUME IInv, CancelEnds
  PROVE  IInv'
  <1>t. Types /\ Sessions /\ (\A g \in Gens : Sound(g))
    BY DEF IInv
  <1>1. pipe' \in [Gens -> PipelineRecord] /\ \A g \in Gens : Silenced(g)
    BY CancelledSilences DEF CancelEnds
  <1>2. /\ mu' = "free" /\ current' = 0 /\ alive' = {} /\ last' = last /\ textOnly' = textOnly
        /\ UNCHANGED <<textDone, done, sent, closed, voice, spoken>> /\ llm' = llm /\ rd' = rd
    BY <1>t DEF CancelEnds, Sessions
  <1>l. last \in 0 .. MaxGens /\ MaxGens \in Nat /\ llm \in [Gens -> LlmPcs]
    BY <1>t, SpeechTextAssumption DEF Types, TypeOK, Shapes
  <1>3. Types' /\ Reader'
    <2>r. rd' \in [pc : RdPcs, id : Nat, pipe : Nat]
      BY <1>t, <1>2 DEF Types, Shapes
    <2>1. last' \in {last, last + 1} /\ last' <= MaxGens /\ current' \in {0, last'}
      BY <1>2, <1>l
    <2>2. alive' \subseteq {last'} \cap 1 .. last' /\ textOnly' \subseteq textOnly \cup ({last'} \cap 1 .. last')
      BY <1>2
    <2>3. llm' \in [Gens -> LlmPcs] /\ textOnly \subseteq textOnly'
      BY <1>2, <1>l
    <2> QED BY <1>1, <1>2, <2>r, <2>1, <2>2, <2>3, SilencedTypes
  <1>4. Sessions'
    <2>1. ASSUME NEW g \in Gens
          PROVE  (g > last => New(g)') /\ (g <= last /\ g # 0 => pipe'[g].closed)
      <3>1. (g > last => New(g)) /\ (g <= last /\ g # current => pipe[g].closed)
        BY <1>t DEF Sessions
      <3>2. g > last => g # current
        <4>1. current \in 0 .. last
          BY <1>t DEF Types, TypeOK
        <4> QED BY <1>l, <4>1 DEF Gens
      <3> QED BY <1>1, <1>2, <3>1, <3>2 DEF New, Silenced
    <2>2. mu' \notin Kinds
      BY <1>2, SpeechTextAssumption
    <2> QED BY <1>2, <2>1, <2>2 DEF Sessions
  <1>5. ASSUME NEW g \in Gens PROVE Sound(g)'
    <2>1. ContextOver(g)'
      BY <1>2 DEF ContextOver
    <2>2. Prefixed(g)'
      BY <2>1 DEF Prefixed, Lasts
    <2>3. Load(g)' <= Load(g)
      BY <1>2 DEF Load, One
    <2> QED BY <1>1, <1>2, <2>1, <2>2, <2>3, SilencedSound
  <1> QED BY <1>3, <1>4, <1>5 DEF IInv

\* Nothing was given to a generation that has not started.
LEMMA NewIsWhole ==
  ASSUME NEW s, NEW p, s = <<>>, p = NewPipeline
  PROVE  SaidOf(s, p) = <<>> /\ KeptOf(s, p) = <<>> /\ IsPrefix(<<>>, <<>>)
  BY FlattenEmpty, ConcatEmptySeq DEF NewPipeline, SaidOf, KeptOf, IsPrefix

\* A generation starts.
LEMMA StartEndsKeeps ==
  ASSUME IInv, StartEnds
  PROVE  IInv'
  <1>t. Types /\ Sessions /\ (\A g \in Gens : Sound(g))
    BY DEF IInv
  <1>l. last \in 0 .. MaxGens /\ MaxGens \in Nat /\ llm \in [Gens -> LlmPcs]
    BY <1>t, SpeechTextAssumption DEF Types, TypeOK, Shapes
  <1>h. PICK h \in Gens : h = last + 1
    <2>1. last < MaxGens
      BY <1>t DEF Sessions, StartEnds
    <2> QED BY <1>l, <2>1 DEF Gens
  <1>n. New(h) /\ h # current
    <2>1. current \in 0 .. last
      BY <1>t DEF Types, TypeOK
    <2>2. h > last /\ h # current
      BY <1>l, <1>h, <2>1
    <2> QED BY <1>t, <2>2 DEF Sessions
  <1>1. pipe' \in [Gens -> PipelineRecord] /\ \A g \in Gens : Silenced(g)
    BY CancelledSilences DEF StartEnds
  <1>2. /\ mu' = "free" /\ current' = h /\ alive' = {h} /\ last' = h
        /\ UNCHANGED <<textDone, done, sent, closed, voice, spoken>>
        /\ (textOnly' = textOnly \/ textOnly' = textOnly \cup {h})
    BY <1>t, <1>h DEF StartEnds, Sessions
  <1>3. /\ llm' \in [Gens -> LlmPcs] /\ \A g \in Gens \ {h} : llm'[g] = llm[g]
        /\ llm'[h] \in {"none", "created"}
    <2>1. llm' = llm \/ llm' = [llm EXCEPT ![h] = "created"]
      BY <1>h DEF StartEnds
    <2>2. llm[h] = "none"
      BY <1>n DEF New
    <2>3. CASE llm' = llm
      BY <1>l, <2>2, <2>3
    <2>4. CASE llm' = [llm EXCEPT ![h] = "created"]
      BY <1>l, <2>4 DEF LlmPcs
    <2> QED BY <2>1, <2>3, <2>4
  <1>r. /\ rd' = rd \/ rd' = Idle \/ (rd'.pc = "created" /\ rd'.id = h /\ rd'.pipe = rd.pipe)
        /\ rd' \in [pc : RdPcs, id : Nat, pipe : Nat]
    <2>1. rd \in [pc : RdPcs, id : Nat, pipe : Nat] /\ h \in Nat
      BY <1>t, SpeechTextAssumption DEF Types, Shapes, Gens
    <2>2. rd' = rd \/ rd' = Idle \/ rd' = [rd EXCEPT !.pc = "created", !.id = h]
      BY <1>h DEF StartEnds
    <2>3. CASE rd' = [rd EXCEPT !.pc = "created", !.id = h]
      <3>1. rd'.pc = "created" /\ rd'.id = h /\ rd'.pipe = rd.pipe
        BY <2>1, <2>3
      <3>2. rd' \in [pc : RdPcs, id : Nat, pipe : Nat]
        BY <2>1, <2>3 DEF RdPcs
      <3> QED BY <3>1, <3>2
    <2>4. CASE rd' = Idle
      BY <2>4 DEF Idle, RdPcs
    <2> QED BY <2>1, <2>2, <2>3, <2>4
  <1>4. Types' /\ Reader'
    <2>1. last' \in {last, last + 1} /\ last' <= MaxGens /\ current' \in {0, last'} /\ h \in 1 .. h
      BY <1>2, <1>h, <1>l DEF Gens
    <2>2. alive' \subseteq {last'} \cap 1 .. last' /\ textOnly' \subseteq textOnly \cup ({last'} \cap 1 .. last')
      BY <1>2, <2>1
    <2>3. textOnly \subseteq textOnly'
      BY <1>2
    <2>4. rd' = rd \/ rd' = Idle \/ (rd'.pc = "created" /\ rd'.id = last' /\ rd'.pipe = rd.pipe)
      BY <1>2, <1>r
    <2> QED BY <1>1, <1>2, <1>3, <1>r, <2>1, <2>2, <2>3, <2>4, SilencedTypes
  <1>5. Sessions'
    <2>1. ASSUME NEW g \in Gens
          PROVE  (g > h => New(g)') /\ (g <= h /\ g # h => pipe'[g].closed)
      <3>1. (g > last => New(g)) /\ (g <= last /\ g # current => pipe[g].closed)
        BY <1>t DEF Sessions
      <3>2. (g > h => g > last /\ g # current /\ g # h) /\ (g <= h /\ g # h => g <= last)
        <4>1. current \in 0 .. last
          BY <1>t DEF Types, TypeOK
        <4> QED BY <1>l, <1>h, <4>1 DEF Gens
      <3> QED BY <1>1, <1>2, <1>3, <3>1, <3>2 DEF New, Silenced
    <2>2. mu' \notin Kinds
      BY <1>2, SpeechTextAssumption
    <2> QED BY <1>2, <2>1, <2>2 DEF Sessions
  <1>6. ASSUME NEW g \in Gens PROVE Sound(g)'
    <2>1. g # h => ContextOver(g)'
      BY <1>2 DEF ContextOver
    <2>2. pipe'[g].closed => ContextOver(g)'
      BY <1>1, <1>n, <2>1 DEF Silenced, New, NewPipeline
    <2>3. Prefixed(g)'
      <3>1. CASE g # h
        BY <2>1, <3>1 DEF Prefixed, Lasts
      <3>2. CASE g = h
        <4>1. pipe'[g] = NewPipeline /\ spoken'[g] = <<>>
          BY <1>1, <1>2, <1>n, <3>2 DEF New, Silenced
        <4>2. Said(g)' = <<>> /\ Kept(g)' = <<>> /\ IsPrefix(<<>>, <<>>)
          BY <4>1, NewIsWhole DEF Said, Kept
        <4> QED BY <4>1, <4>2 DEF Prefixed, Whole, NewPipeline
      <3> QED BY <3>1, <3>2
    <2>4. Load(g)' <= Load(g)
      <3>1. rd'.pc \in {"mode", "tryPush"} => rd' = rd
        BY <1>r DEF Idle
      <3>2. llm'[g] = "push" => llm[g] = "push"
        BY <1>3
      <3> QED BY <3>1, <3>2 DEF Load, One
    <2>5. llm'[g] = llm[g] \/ (llm[g] = "none" /\ llm'[g] = "created")
      BY <1>3, <1>n DEF New
    <2> QED BY <1>1, <1>2, <2>2, <2>3, <2>4, <2>5, SilencedSound
  <1> QED BY <1>4, <1>5, <1>6 DEF IInv

-----------------------------------------------------------------------------
(* The theorems.                                                           *)

\* It holds at the start.
LEMMA InitIInv ==
  ASSUME Init
  PROVE  IInv
  <1>1. NewPipeline \in PipelineRecord /\ Len(NewPipeline.output) = 0 /\ <<>> \in Chunk
    BY DEF NewPipeline, PipelineRecord, Chunk
  <1>2. Types
    <2>1. Len(NewPipeline.output) <= Cap /\ 0 \in 0 .. MaxUnits
      BY <1>1, SpeechTextAssumption
    <2>2. TypeOK
      <3>1. \A g \in Gens : pipe[g] \in PipelineRecord /\ Len(pipe[g].output) <= Cap
        BY <1>1, <2>1 DEF Init
      <3>2. last \in 0 .. MaxGens /\ current \in 0 .. last /\ rd.id \in 0 .. last /\ rd.pipe \in 0 .. last
        BY SpeechTextAssumption DEF Init, Idle
      <3>3. /\ mu \in Kinds \cup {"free", "cancel"} /\ closed \in BOOLEAN
            /\ alive \cup textOnly \cup textDone \cup done \subseteq 1 .. last
        BY DEF Init
      <3>4. sent \in [Gens -> 0 .. MaxUnits]
        BY <2>1 DEF Init
      <3> QED BY <3>1, <3>2, <3>3, <3>4 DEF TypeOK
    <2>3. Shapes
      BY <1>1 DEF Init, Shapes, Idle, LlmPcs, VoicePcs, RdPcs
    <2> QED BY <2>2, <2>3 DEF Types
  <1>3. Sessions
    <2>1. mu \notin Kinds
      BY SpeechTextAssumption DEF Init
    <2>2. ASSUME NEW g \in Gens PROVE New(g) /\ ~(g <= last)
      BY SpeechTextAssumption DEF Init, New, Gens
    <2> QED BY <2>1, <2>2 DEF Sessions, Init
  <1>4. Reader
    BY DEF Init, Reader, Idle, OnPipe, OnBoth
  <1>5. ASSUME NEW g \in Gens PROVE Sound(g)
    <2>1. /\ pipe[g] = NewPipeline /\ spoken[g] = <<>> /\ llm[g] = "none" /\ voice[g] = "none"
          /\ rd.pc = "idle" /\ sent[g] = 0 /\ g \notin done
      BY DEF Init, Idle
    <2>2. Said(g) = <<>> /\ Kept(g) = <<>> /\ IsPrefix(<<>>, <<>>)
      BY <2>1, NewIsWhole DEF Said, Kept
    <2>3. Holds(g)
      BY <2>1 DEF Holds, NewPipeline
    <2>4. Counted(g)
      BY <2>1 DEF Counted, NewPipeline, Load, One
    <2>5. Texts(g)
      BY <2>2 DEF Texts, Ascends
    <2>6. Prefixed(g)
      BY <2>1, <2>2 DEF Prefixed, Whole, NewPipeline
    <2>7. Drained(g)
      BY <2>1, <2>2 DEF Drained, NewPipeline
    <2> QED BY <2>3, <2>4, <2>5, <2>6, <2>7 DEF Sound
  <1> QED BY <1>2, <1>3, <1>4, <1>5 DEF IInv

\* Every step of a generation's goroutines keeps it.
LEMMA WorkersKeep ==
  ASSUME IInv, NEW h \in Gens,
         LlmRuns(h) \/ VoiceRuns(h) \/ VoiceSpeaks(h) \/ LlmDelta(h) \/ LlmEof(h) \/ LlmFails(h)
  PROVE  IInv'
  <1>1. CASE LlmCreated(h)
    BY <1>1, LlmCreatedQuiet, QuietKeeps
  <1>2. CASE LlmSend(h)
    BY <1>2, LlmSendQuiet, QuietKeeps
  <1>3. CASE LlmPush(h)
    BY <1>3, LlmPushKeeps
  <1>4. CASE LlmClose(h)
    BY <1>4, LlmCloseKeeps
  <1>5. CASE LlmEmit(h)
    BY <1>5, LlmEmitKeeps
  <1>6. CASE LlmEmitted(h)
    BY <1>6, LlmEmittedKeeps
  <1>7. CASE LlmEmitFails(h)
    BY <1>7, LlmEmitFailsKeeps
  <1>8. CASE LlmDone(h)
    BY <1>8, LlmDoneQuiet, QuietKeeps
  <1>9. CASE LlmReturns(h)
    BY <1>9, LlmReturnsQuiet, QuietKeeps
  <1>10. CASE LlmFails(h)
    BY <1>10, LlmFailsQuiet, QuietKeeps
  <1>11. CASE VoiceTakes(h)
    BY <1>11, VoiceTakesKeeps
  <1>12. CASE VoiceDone(h)
    BY <1>12, VoiceDoneQuiet, QuietKeeps
  <1>13. CASE VoiceReturns(h)
    BY <1>13, VoiceReturnsQuiet, QuietKeeps
  <1>14. CASE VoiceSpeaks(h)
    BY <1>14, VoiceSpeaksQuiet, QuietKeeps
  <1>15. CASE LlmDelta(h)
    BY <1>15, LlmDeltaQuiet, QuietKeeps
  <1>16. CASE LlmEof(h)
    BY <1>16, LlmEofQuiet, QuietKeeps
  <1> QED BY <1>1, <1>2, <1>3, <1>4, <1>5, <1>6, <1>7, <1>8, <1>9, <1>10, <1>11, <1>12, <1>13,
             <1>14, <1>15, <1>16, Zenon DEF LlmRuns, VoiceRuns

\* So does every step of the reader that has begun.
LEMMA ReadingKeeps ==
  ASSUME IInv, Reading
  PROVE  IInv'
  <1>1. CASE RdCreated
    BY <1>1, RdCreatedQuiet, QuietKeeps
  <1>2. CASE RdPipeline
    BY <1>2, RdPipelineQuiet, QuietKeeps
  <1>3. CASE RdContent
    BY <1>3, RdContentQuiet, QuietKeeps
  <1>4. CASE RdSent
    BY <1>4, RdSentQuiet, QuietKeeps
  <1>5. CASE RdMode
    BY <1>5, RdModeQuiet, QuietKeeps
  <1>6. CASE RdTryPush
    BY <1>6, RdTryPushKeeps
  <1>7. CASE RdDonePipeline
    BY <1>7, RdDonePipelineQuiet, QuietKeeps
  <1>8. CASE RdDoneId
    BY <1>8, RdDoneIdQuiet, QuietKeeps
  <1>9. CASE RdMark
    BY <1>9, RdMarkQuiet, QuietKeeps
  <1>10. CASE RdDoneMode
    BY <1>10, RdDoneModeQuiet, QuietKeeps
  <1>11. CASE RdFinish
    BY <1>11, RdFinishQuiet, QuietKeeps
  <1>12. CASE RdTryClose
    BY <1>12, RdTryCloseKeeps
  <1>13. CASE RdCancel
    BY <1>13, RdCancelQuiet, QuietKeeps
  <1> QED BY <1>1, <1>2, <1>3, <1>4, <1>5, <1>6, <1>7, <1>8, <1>9, <1>10, <1>11, <1>12, <1>13,
             Zenon DEF Reading

\* Every step keeps it.
LEMMA NextIInv ==
  ASSUME IInv, [Next]_vars
  PROVE  IInv'
  <1>1. CASE Cancel
    BY <1>1, CancelQuiet, QuietKeeps
  <1>2. CASE Close
    BY <1>2, CloseQuiet, QuietKeeps
  <1>3. CASE Locked
    BY <1>3, CancelEndsKeeps, StartEndsKeeps DEF Locked
  <1>4. CASE Reading
    BY <1>4, ReadingKeeps
  <1>5. CASE \E kind \in Kinds : Start(kind)
    BY <1>5, StartQuiet, QuietKeeps
  <1>6. CASE \E g \in Gens : LlmRuns(g) \/ VoiceRuns(g) \/ VoiceSpeaks(g) \/ LlmDelta(g) \/ LlmEof(g) \/ LlmFails(g)
    BY <1>6, WorkersKeep
  <1>7. CASE \E named \in 0..MaxGens : RdDelta(named) \/ RdDone(named)
    BY <1>7, RdDeltaQuiet, RdDoneQuiet, QuietKeeps
  <1>8. CASE UNCHANGED vars
    BY <1>8, StutterQuiet, QuietKeeps
  <1> QED BY <1>1, <1>2, <1>3, <1>4, <1>5, <1>6, <1>7, <1>8 DEF Next

\* One producer at most, counted.
LEMMA OneProducer ==
  ASSUME NEW from \in SUBSET {"llm", "client"}, Cardinality(from) <= 1
  PROVE  from # {"llm", "client"}
  <1> SUFFICES ASSUME from = {"client"} \cup {"llm"} PROVE FALSE
    OBVIOUS
  <1>1. IsFiniteSet({"client"}) /\ Cardinality({"client"}) = 1 /\ "llm" \notin {"client"}
    BY FS_Singleton
  <1>2. Cardinality({"client"} \cup {"llm"}) = Cardinality({"client"}) + 1
    BY <1>1, FS_AddElement
  <1> QED BY <1>1, <1>2

\* The invariant implies the property.
LEMMA IInvSound ==
  ASSUME IInv
  PROVE  PipelineSound
  <1>t. Types /\ (\A g \in Gens : Sound(g))
    BY DEF IInv
  <1>1. ASSUME NEW g \in Gens
        PROVE  /\ \A i, j \in DOMAIN Said(g) : i < j => Said(g)[i] < Said(g)[j]
               /\ Cardinality(pipe[g].from) <= 1 /\ ~ContextOver(g) => IsPrefix(Said(g), pipe[g].pushed)
    <2>1. pipe[g] \in PipelineRecord /\ spoken[g] \in Seq(Chunk) /\ Len(pipe[g].pushed) \in Nat
      BY Before
    <2>2. Ascends(Kept(g), Len(pipe[g].pushed)) /\ Prefixed(g)
      BY <1>t DEF Sound, Texts
    <2>3. Ascends(Said(g), Len(pipe[g].pushed))
      BY <2>1, <2>2, SaidIsKept DEF Said, Kept
    <2>4. Cardinality(pipe[g].from) <= 1 => pipe[g].from # {"llm", "client"}
      BY <2>1, PipelineFields, OneProducer
    <2> QED BY <2>2, <2>3, <2>4 DEF Ascends, Prefixed, Lasts
  <1>2. SpokenInOrder
    BY <1>1 DEF SpokenInOrder, Said, SaidOf
  <1>3. NoSendOnClosed
    BY <1>t DEF NoSendOnClosed, Sound, Holds
  <1> QED BY <1>t, <1>2, <1>3 DEF PipelineSound, Types

\* And, if every text can be spoken, that a generation announced as done spoke it all.
LEMMA IInvDone ==
  ASSUME IInv, ~Unspeakable
  PROVE  DoneMeansAllSpoken
  <1> SUFFICES ASSUME NEW g \in done \ textOnly, Cardinality(pipe[g].from) <= 1
               PROVE  FlattenSeq(spoken[g]) = pipe[g].pushed
    BY DEF DoneMeansAllSpoken
  <1>1. g \in Gens
    <2>1. done \subseteq 1 .. last /\ last \in 0 .. MaxGens
      BY DEF IInv, Types, TypeOK
    <2> QED BY <2>1, SpeechTextAssumption DEF Gens
  <1>2. pipe[g] \in PipelineRecord /\ spoken[g] \in Seq(Chunk)
    BY <1>1, Before
  <1>3. pipe[g].from # {"llm", "client"}
    BY <1>2, PipelineFields, OneProducer
  <1>4. pipe[g].output = <<>> /\ Said(g) = pipe[g].pushed
    BY <1>1, <1>3 DEF IInv, Sound, Drained
  <1>5. spoken[g] \o <<>> = spoken[g]
    BY <1>2, ConcatEmptySeq
  <1> QED BY <1>4, <1>5 DEF Said, SaidOf

\* What a pipeline's consumer speaks is the text its producers gave, in that order and
\* each unit once, while the reader, the LLM worker and a cancellation share it; and no
\* producer sends to an output that was closed: for any number of generations and units
\* of text, and any capacity of the output.
THEOREM PipelineAlwaysSound == Spec => []PipelineSound
  <1>1. Init => IInv
    BY InitIInv
  <1>2. IInv /\ [Next]_vars => IInv'
    BY NextIInv
  <1>3. IInv => PipelineSound
    BY IInvSound
  <1> QED BY <1>1, <1>2, <1>3, PTL DEF Spec

\* If the normaliser refuses no text, a generation that is announced as done has spoken
\* all that its one producer gave.
THEOREM DoneAlwaysSpoken ==
  ASSUME ~Unspeakable
  PROVE  Spec => []DoneMeansAllSpoken
  <1>1. Init => IInv
    BY InitIInv
  <1>2. IInv /\ [Next]_vars => IInv'
    BY NextIInv
  <1>3. IInv => DoneMeansAllSpoken
    BY IInvDone
  <1> QED BY <1>1, <1>2, <1>3, PTL DEF Spec

-----------------------------------------------------------------------------
(* The chunker.                                                            *)

\* A boundary has a positive priority.
LEMMA Priorities == \A c : Priority(c) \in {0, 2, 3}
  BY DEF Priority

\* Where the chunker stops reading, if it does, it stops at the first such place.
LEMMA FirstStop ==
  ASSUME NEW s \in Seq(Char), Stops(s) # {}
  PROVE  /\ Min(Stops(s)) \in Stops(s) /\ Min(Stops(s)) \in 1 .. Len(s)
         /\ \A i \in Stops(s) : Min(Stops(s)) <= i
         /\ Min(Stops(s)) <= HardLimit
  <1>1. Stops(s) \in SUBSET Nat /\ \A i \in Stops(s) : i \in 1 .. Len(s)
    BY DEF Stops
  <1>2. Min(Stops(s)) \in Stops(s) /\ \A i \in Stops(s) : Min(Stops(s)) <= i
    BY <1>1, MinIsLeast
  <1> DEFINE m == Min(Stops(s))
  <1>3. m \in Stops(s) /\ m \in 1 .. Len(s) /\ \A i \in Stops(s) : m <= i
    BY <1>1, <1>2
  <1> HIDE DEF m
  <1>4. m <= HardLimit
    <2> SUFFICES ASSUME m > HardLimit PROVE FALSE
      BY <1>3, ChunkerAssumption
    <2>1. HardLimit \in 1 .. Len(s)
      BY <1>3, ChunkerAssumption
    <2>2. HardLimit \in Stops(s)
      BY <2>1, ChunkerAssumption DEF Stops
    <2> QED BY <1>3, <2>2, ChunkerAssumption
  <1> QED BY <1>3, <1>4 DEF m

\* A text without such a place is short and has no boundary from the soft limit on.
LEMMA NoStop ==
  ASSUME NEW s \in Seq(Char), Stops(s) = {}
  PROVE  Len(s) < HardLimit /\ \A i \in DOMAIN s : i >= SoftLimit => Priority(s[i]) = 0
  <1>1. \A i \in 1 .. Len(s) : i < HardLimit
    BY ChunkerAssumption DEF Stops
  <1>2. Len(s) < HardLimit
    <2>1. CASE Len(s) = 0
      BY <2>1, ChunkerAssumption
    <2>2. CASE Len(s) # 0
      BY <1>1, <2>2
    <2> QED BY <2>1, <2>2
  <1>3. ASSUME NEW i \in DOMAIN s, i >= SoftLimit PROVE Priority(s[i]) = 0
    <2>1. ~(Priority(s[i]) > 0)
      BY <1>3 DEF Stops
    <2> QED BY <2>1, Priorities
  <1> QED BY <1>2, <1>3

\* The last of the strongest boundaries before the soft limit is one of them.
LEMMA BestIsEarly ==
  ASSUME NEW s \in Seq(Char), Early(s) # {}
  PROVE  /\ BestEarly(s) \in Early(s) /\ BestEarly(s) \in 1 .. Len(s)
         /\ \A i \in Early(s) : Priority(s[i]) <= Priority(s[BestEarly(s)])
         /\ \A i \in Early(s) :
               (\A j \in Early(s) : Priority(s[j]) <= Priority(s[i])) => i <= BestEarly(s)
  <1> DEFINE P == {Priority(s[i]) : i \in Early(s)}
             top == Max(P)
             T == {i \in Early(s) : Priority(s[i]) = top}
  <1>1. \A i \in Early(s) : i \in 1 .. Len(s)
    BY DEF Early
  <1>2. P \in SUBSET Nat /\ P # {} /\ \A x \in P : x <= 3
    BY Priorities
  <1>3. top \in P /\ \A x \in P : x <= top
    <2> HIDE DEF P
    <2> QED BY <1>2, MaxIsGreatest
  <1>4. T \in SUBSET Nat /\ T # {} /\ Len(s) \in Nat /\ \A x \in T : x <= Len(s)
    <2>1. PICK i \in Early(s) : Priority(s[i]) = top
      BY <1>3
    <2> HIDE DEF top
    <2> QED BY <1>1, <2>1
  <1>5. Max(T) \in T /\ \A x \in T : x <= Max(T)
    <2> HIDE DEF T
    <2> QED BY <1>4, MaxIsGreatest
  <1>6. BestEarly(s) = Max(T)
    BY DEF BestEarly
  <1> DEFINE b == Max(T)
  <1>7. b \in Early(s) /\ Priority(s[b]) = top /\ \A x \in T : x <= b
    BY <1>5
  <1>8. \A i \in Early(s) : Priority(s[i]) <= top
    BY <1>3
  <1> HIDE DEF b, top
  <1>9. \A i \in Early(s) : (\A j \in Early(s) : Priority(s[j]) <= Priority(s[i])) => i <= b
    <2> SUFFICES ASSUME NEW i \in Early(s), \A j \in Early(s) : Priority(s[j]) <= Priority(s[i])
                 PROVE  i <= b
      OBVIOUS
    <2>1. Priority(s[i]) <= top /\ top <= Priority(s[i])
      BY <1>7, <1>8
    <2>2. Priority(s[i]) = top
      BY <1>7, <2>1, Priorities
    <2> QED BY <1>7, <2>2
  <1> QED BY <1>1, <1>6, <1>7, <1>8, <1>9 DEF b

\* A cut is a place in the text, within the hard limit; only a text that is not
\* flushed may go without one.
LEMMA CutFits ==
  ASSUME NEW s \in Seq(Char), s # <<>>, NEW flush \in BOOLEAN,
         NEW cut, cut = FindChunkBoundary(s, flush)
  PROVE  /\ cut \in 0 .. Len(s) /\ cut <= HardLimit
         /\ cut = 0 <=> (~flush /\ Stops(s) = {})
  <1>0. Len(s) \in Nat /\ Len(s) # 0
    BY EmptySeq
  <1>1. CASE Stops(s) = {}
    BY <1>0, <1>1, NoStop, ChunkerAssumption DEF FindChunkBoundary
  <1>2. CASE Stops(s) # {}
    <2> DEFINE m == Min(Stops(s))
    <2>1. m \in 1 .. Len(s) /\ m <= HardLimit
      BY <1>2, FirstStop
    <2>2. cut = IF Priority(s[m]) > 0 \/ Early(s) = {} THEN m ELSE BestEarly(s)
      BY <1>2 DEF FindChunkBoundary
    <2> HIDE DEF m
    <2>3. CASE Priority(s[m]) > 0 \/ Early(s) = {}
      BY <1>2, <2>1, <2>2, <2>3
    <2>4. CASE ~(Priority(s[m]) > 0 \/ Early(s) = {})
      <3>1. cut = BestEarly(s) /\ cut \in Early(s) /\ cut \in 1 .. Len(s)
        BY <2>2, <2>4, BestIsEarly
      <3>2. cut < SoftLimit
        BY <3>1 DEF Early
      <3> QED BY <1>2, <3>1, <3>2, ChunkerAssumption
    <2> QED BY <2>3, <2>4
  <1> QED BY <1>1, <1>2

\* What follows a text that is cut does not move the cut.
LEMMA CutStays ==
  ASSUME NEW s \in Seq(Char), NEW t \in Seq(Char), Stops(s) # {},
         NEW f \in BOOLEAN, NEW g \in BOOLEAN
  PROVE  FindChunkBoundary(s \o t, f) = FindChunkBoundary(s, g)
  <1> DEFINE u == s \o t
             m == Min(Stops(s))
             n == Min(Stops(u))
  <1>1. u \in Seq(Char) /\ Len(u) = Len(s) + Len(t) /\ \A i \in 1 .. Len(s) : u[i] = s[i]
    BY ConcatProperties
  <1>2. Len(s) \in Nat /\ Len(t) \in Nat /\ DOMAIN s = 1 .. Len(s)
    OBVIOUS
  <1> HIDE DEF u
  <1>3. DOMAIN u = 1 .. Len(u)
    BY <1>1
  <1>4. \A i \in 1 .. Len(s) : i \in Stops(u) <=> i \in Stops(s)
    BY <1>1, <1>2, <1>3 DEF Stops
  <1>5. m \in Stops(s) /\ m \in 1 .. Len(s) /\ \A i \in Stops(s) : m <= i
    BY FirstStop
  <1> HIDE DEF m
  <1>6. m \in Stops(u)
    BY <1>4, <1>5
  <1>7. n \in Stops(u) /\ n \in 1 .. Len(u) /\ \A i \in Stops(u) : n <= i
    <2>1. Stops(u) # {}
      BY <1>6
    <2> QED BY <1>1, <2>1, FirstStop
  <1> HIDE DEF n
  <1>8. n = m
    <2>1. n <= m
      BY <1>6, <1>7
    <2>2. n \in 1 .. Len(s)
      BY <1>1, <1>2, <1>5, <1>7, <2>1
    <2>3. m <= n
      BY <1>4, <1>5, <1>7, <2>2
    <2> QED BY <1>5, <1>7, <2>1, <2>3
  <1>9. u[m] = s[m]
    BY <1>1, <1>5
  <1> DEFINE cut(v, k) == IF Priority(v[k]) > 0 \/ Early(v) = {} THEN k ELSE BestEarly(v)
  <1>10. FindChunkBoundary(s, g) = cut(s, m)
    BY DEF FindChunkBoundary, m
  <1>11. FindChunkBoundary(u, f) = cut(u, n)
    BY <1>6 DEF FindChunkBoundary, n
  <1>12. CASE Priority(s[m]) > 0
    BY <1>8, <1>9, <1>10, <1>11, <1>12 DEF u
  <1>13. CASE ~(Priority(s[m]) > 0)
    <2>1. m >= HardLimit /\ SoftLimit <= Len(s)
      <3>1. m >= HardLimit
        BY <1>5, <1>13 DEF Stops
      <3> QED BY <1>2, <1>5, <3>1, ChunkerAssumption
    <2>2. Early(u) = Early(s)
      <3>1. \A i \in DOMAIN u : i < SoftLimit => i \in 1 .. Len(s)
        BY <1>1, <1>2, <1>3, <2>1, ChunkerAssumption
      <3>2. \A i \in DOMAIN s : i \in DOMAIN u
        BY <1>1, <1>2, <1>3
      <3> QED BY <1>1, <1>2, <3>1, <3>2 DEF Early
    <2>3. \A i \in Early(s) : Priority(u[i]) = Priority(s[i])
      BY <1>1, <1>2 DEF Early
    <2>4. {Priority(u[i]) : i \in Early(u)} = {Priority(s[i]) : i \in Early(s)}
      BY <2>2, <2>3
    <2>5. BestEarly(u) = BestEarly(s)
      <3> DEFINE P == {Priority(s[i]) : i \in Early(s)}
                 top == Max(P)
      <3>1. {i \in Early(u) : Priority(u[i]) = top} = {i \in Early(s) : Priority(s[i]) = top}
        <4> HIDE DEF top
        <4> QED BY <2>2, <2>3
      <3> QED BY <2>4, <3>1 DEF BestEarly
    <2>6. FindChunkBoundary(s, g) = IF Early(s) = {} THEN m ELSE BestEarly(s)
      BY <1>10, <1>13
    <2>7. FindChunkBoundary(u, f) = IF Early(u) = {} THEN m ELSE BestEarly(u)
      BY <1>8, <1>9, <1>11, <1>13
    <2>8. FindChunkBoundary(u, f) = FindChunkBoundary(s, g)
      BY <2>2, <2>5, <2>6, <2>7
    <2> QED BY <2>8 DEF u
  <1> QED BY <1>12, <1>13

\* The rule cuts a text where a flush would.
LEMMA CutIsRuled ==
  ASSUME NEW s \in Seq(Char), s # <<>>
  PROVE  RuledCut(s) = FindChunkBoundary(s, TRUE)
  <1> DEFINE late  == {i \in SoftLimit..HardLimit : i <= Len(s) /\ Priority(s[i]) > 0}
             early == {i \in 1..SoftLimit - 1 : i <= Len(s) /\ Priority(s[i]) > 0}
             strong == {i \in early : \A j \in early : Priority(s[j]) <= Priority(s[i])}
  <1>0. Len(s) \in Nat /\ DOMAIN s = 1 .. Len(s)
    OBVIOUS
  <1>1. early = Early(s)
    BY <1>0, ChunkerAssumption DEF Early
  <1>2. RuledCut(s) = IF late # {} THEN Min(late) ELSE IF Len(s) < HardLimit THEN Len(s)
                      ELSE IF strong # {} THEN Max(strong) ELSE HardLimit
    BY DEF RuledCut
  <1>3. CASE late # {}
    <2>1. late \in SUBSET Nat
      BY ChunkerAssumption
    <2> DEFINE k == Min(late)
    <2>2. k \in late /\ \A i \in late : k <= i
      <3> HIDE DEF late
      <3> QED BY <1>3, <2>1, MinIsLeast
    <2>3. k \in 1 .. Len(s) /\ SoftLimit <= k /\ k <= HardLimit /\ Priority(s[k]) > 0
      BY <1>0, <2>2, ChunkerAssumption
    <2>4. \A i \in late : k <= i
      BY <2>2
    <2> HIDE DEF k
    <2>5. k \in Stops(s)
      BY <1>0, <2>3 DEF Stops
    <2> DEFINE m == Min(Stops(s))
    <2>6. m \in Stops(s) /\ m \in 1 .. Len(s) /\ (\A i \in Stops(s) : m <= i) /\ m <= HardLimit
      BY <2>5, FirstStop
    <2> HIDE DEF m
    <2>7. m <= k
      BY <2>5, <2>6
    <2>8. m \in late
      <3>1. (m >= SoftLimit /\ Priority(s[m]) > 0) \/ m >= HardLimit
        BY <2>6 DEF Stops
      <3>2. CASE m >= SoftLimit /\ Priority(s[m]) > 0
        BY <2>6, <3>2, ChunkerAssumption
      <3>3. CASE m >= HardLimit
        <4>1. m = k
          BY <2>3, <2>6, <2>7, <3>3, ChunkerAssumption
        <4> QED BY <2>2, <4>1 DEF k
      <3> QED BY <3>1, <3>2, <3>3
    <2>9. m = k
      BY <2>3, <2>4, <2>6, <2>7, <2>8
    <2>10. FindChunkBoundary(s, TRUE) = k
      BY <2>3, <2>5, <2>9 DEF FindChunkBoundary, m
    <2> QED BY <1>2, <1>3, <2>10 DEF k
  <1>4. CASE late = {} /\ Len(s) < HardLimit
    <2>1. Stops(s) = {}
      BY <1>0, <1>4, ChunkerAssumption DEF Stops
    <2> QED BY <1>2, <1>4, <2>1 DEF FindChunkBoundary
  <1>5. CASE late = {} /\ ~(Len(s) < HardLimit)
    <2>1. HardLimit \in 1 .. Len(s)
      BY <1>0, <1>5, ChunkerAssumption
    <2>2. HardLimit \in Stops(s)
      BY <2>1, ChunkerAssumption DEF Stops
    <2> DEFINE m == Min(Stops(s))
    <2>3. m \in Stops(s) /\ m \in 1 .. Len(s) /\ m <= HardLimit
      BY <2>2, FirstStop
    <2> HIDE DEF m
    <2>4. m = HardLimit /\ ~(Priority(s[m]) > 0)
      <3>1. \A i \in SoftLimit..HardLimit : i <= Len(s) => ~(Priority(s[i]) > 0)
        BY <1>5
      <3>2. m >= HardLimit
        BY <2>3, <3>1, ChunkerAssumption DEF Stops
      <3>3. m = HardLimit
        BY <2>3, <3>2, ChunkerAssumption
      <3> QED BY <2>1, <3>1, <3>3, ChunkerAssumption
    <2>5. FindChunkBoundary(s, TRUE) = IF Early(s) = {} THEN HardLimit ELSE BestEarly(s)
      BY <2>2, <2>4 DEF FindChunkBoundary, m
    <2>6. CASE Early(s) = {}
      <3>1. strong = {}
        BY <1>1, <2>6
      <3> QED BY <1>2, <1>5, <2>5, <2>6, <3>1
    <2>7. CASE Early(s) # {}
      <3> DEFINE b == BestEarly(s)
      <3>1. /\ b \in Early(s) /\ b \in 1 .. Len(s)
            /\ \A i \in Early(s) : Priority(s[i]) <= Priority(s[b])
            /\ \A i \in Early(s) :
                  (\A j \in Early(s) : Priority(s[j]) <= Priority(s[i])) => i <= b
        BY <2>7, BestIsEarly
      <3> HIDE DEF b
      <3>2. b \in strong /\ \A i \in strong : i <= b
        BY <1>1, <3>1
      <3>3. strong \in SUBSET Nat /\ strong # {}
        BY <3>2
      <3>4. Max(strong) \in strong /\ \A i \in strong : i <= Max(strong)
        <4> HIDE DEF strong
        <4>1. b \in Nat
          BY <3>1
        <4> QED BY <3>2, <3>3, <4>1, MaxIsGreatest
      <3>5. Max(strong) = b
        BY <3>2, <3>3, <3>4
      <3> QED BY <1>2, <1>5, <2>5, <2>7, <3>3, <3>5 DEF b
    <2> QED BY <2>6, <2>7
  <1> QED BY <1>3, <1>4, <1>5

\* The text without blank space, one character more at a time.
LEMMA SolidIs ==
  \A s \in Seq(Char) :
     /\ Solid(s) \in Seq(Char)
     /\ Solid(s) = IF s = <<>> THEN <<>>
                   ELSE IF Last(s) \in Space THEN Solid(Front(s))
                   ELSE Append(Solid(Front(s)), Last(s))
  <1> DEFINE Rec(f) ==
               f = [t \in Seq(Char) |->
                      IF t = <<>> THEN <<>>
                      ELSE IF Last(t) \in Space THEN f[Front(t)] ELSE Append(f[Front(t)], Last(t))]
             solid == CHOOSE f : Rec(f)
             T == Seq(Char)
             end == [t \in T |-> <<>>]
             next == [t \in T |-> IF t = <<>> THEN <<>> ELSE Front(t)]
             join == [p \in T \X T |-> IF Last(p[1]) \in Space \/ p[1] = <<>> THEN p[2]
                                       ELSE Append(p[2], Last(p[1]))]
  <1>1. ASSUME NEW t \in T, t # <<>>
        PROVE  Last(t) \in Char /\ Front(t) \in T /\ Len(Front(t)) < Len(t)
    <2>1. Len(t) \in Nat \ {0} /\ Len(t) - 1 \in 0 .. Len(t)
      BY <1>1, EmptySeq
    <2>2. Front(t) \in Seq(Char) /\ Len(Front(t)) = IF 1 <= Len(t) - 1 THEN Len(t) - 1 - 1 + 1 ELSE 0
      BY <2>1, PartOf DEF Front
    <2> QED BY <2>1, <2>2 DEF Last
  <1>2. Shortens(Char, {<<>>}, next)
    <2>1. \A t \in T : next[t] \in T
      BY <1>1
    <2>2. \A t \in T \ {<<>>} : Len(next[t]) < Len(t)
      BY <1>1
    <2>3. next \in [T -> T]
      BY <2>1
    <2> HIDE DEF next
    <2> QED BY <2>2, <2>3 DEF Shortens
  <1>3. end \in [T -> T] /\ join \in [T \X T -> T]
    <2>1. <<>> \in T
      OBVIOUS
    <2>2. ASSUME NEW p \in T \X T, ~(Last(p[1]) \in Space \/ p[1] = <<>>)
          PROVE  Append(p[2], Last(p[1])) \in T
      <3>1. p[1] \in T /\ p[2] \in T /\ p[1] # <<>>
        BY <2>2
      <3>2. Last(p[1]) \in Char
        BY <1>1, <3>1
      <3> QED BY <3>1, <3>2, AppendProperties
    <2>3. \A p \in T \X T : join[p] \in T
      BY <2>2
    <2> QED BY <2>1, <2>3
  <1>4. \E f \in [T -> T] : \A t \in T : Defines(f, {<<>>}, end, next, join, t)
    <2> HIDE DEF next, end, join
    <2> QED BY <1>2, <1>3, RecursionByLength
  <1>5. PICK f \in [T -> T] : \A t \in T : Defines(f, {<<>>}, end, next, join, t)
    BY <1>4
  <1>6. ASSUME NEW t \in T
        PROVE  f[t] = IF t = <<>> THEN <<>>
                      ELSE IF Last(t) \in Space THEN f[Front(t)] ELSE Append(f[Front(t)], Last(t))
    <2>1. CASE t = <<>>
      BY <1>5, <2>1 DEF Defines
    <2>2. CASE t # <<>>
      <3>1. f[t] = join[<<t, f[next[t]]>>] /\ next[t] = Front(t) /\ Front(t) \in T
        BY <1>1, <1>5, <2>2 DEF Defines
      <3>2. f[Front(t)] \in T
        BY <3>1
      <3> DEFINE p == <<t, f[Front(t)]>>
      <3>3. f[t] = join[p] /\ p \in T \X T /\ p[1] = t /\ p[2] = f[Front(t)]
        BY <3>1, <3>2
      <3> HIDE DEF p
      <3>4. join[p] = IF Last(p[1]) \in Space \/ p[1] = <<>> THEN p[2] ELSE Append(p[2], Last(p[1]))
        BY <3>3
      <3> QED BY <2>2, <3>3, <3>4
    <2> QED BY <2>1, <2>2
  <1>7. Rec(f)
    <2>1. f = [t \in T |-> f[t]]
      OBVIOUS
    <2> QED BY <1>6, <2>1
  <1>8. Rec(solid)
    <2> HIDE DEF Rec
    <2> QED BY <1>7
  <1>9. \A s \in T : Solid(s) = solid[s]
    BY DEF Solid
  <1>10. \A t \in T : solid[t] = IF t = <<>> THEN <<>>
                      ELSE IF Last(t) \in Space THEN solid[Front(t)]
                      ELSE Append(solid[Front(t)], Last(t))
    <2> HIDE DEF solid
    <2> QED BY <1>8
  <1> DEFINE P == {t \in T : solid[t] \in T}
  <1> HIDE DEF solid
  <1>11. ASSUME NEW s \in T, \A t \in T : Len(t) < Len(s) => t \in P PROVE s \in P
    <2>1. CASE s = <<>>
      BY <1>10, <2>1
    <2>2. CASE s # <<>>
      <3>1. Front(s) \in P /\ Last(s) \in Char /\ Front(s) \in T
        BY <1>1, <1>11, <2>2
      <3>2. solid[Front(s)] \in T
        BY <3>1
      <3>3. Append(solid[Front(s)], Last(s)) \in T
        BY <3>1, <3>2, AppendProperties
      <3> QED BY <1>10, <2>2, <3>2, <3>3
    <2> QED BY <2>1, <2>2
  <1>12. \A s \in T : s \in P
    <2> HIDE DEF P
    <2> QED BY <1>11, ByLength
  <1>13. \A s \in T : s # <<>> => Front(s) \in T
    BY <1>1
  <1>14. ASSUME NEW s \in T
         PROVE  /\ Solid(s) \in Seq(Char)
                /\ Solid(s) = IF s = <<>> THEN <<>>
                   ELSE IF Last(s) \in Space THEN Solid(Front(s))
                   ELSE Append(Solid(Front(s)), Last(s))
    BY <1>9, <1>10, <1>12, <1>13
  <1> QED BY <1>14

\* The rule, one chunk at a time.
LEMMA ReferenceIs ==
  \A s \in Seq(Char) :
    /\ Reference(s) \in Seq(Seq(Char))
    /\ Reference(s) =
         IF s = <<>> THEN <<>>
         ELSE <<SubSeq(s, 1, RuledCut(s))>> \o Reference(SubSeq(s, RuledCut(s) + 1, Len(s)))
  <1> DEFINE T == Seq(Char)
             R == Seq(Seq(Char))
             chunk(t) == SubSeq(t, 1, RuledCut(t))
             rest(t) == SubSeq(t, RuledCut(t) + 1, Len(t))
             Rec(f) == f = [t \in Seq(Char) |-> IF t = <<>> THEN <<>> ELSE <<chunk(t)>> \o f[rest(t)]]
             ruled == CHOOSE f : Rec(f)
             end == [t \in T |-> <<>>]
             next == [t \in T |-> IF t = <<>> THEN <<>> ELSE rest(t)]
             join == [p \in T \X R |-> IF p[1] = <<>> THEN p[2] ELSE <<chunk(p[1])>> \o p[2]]
  <1>1. ASSUME NEW t \in T, t # <<>>
        PROVE  chunk(t) \in T /\ rest(t) \in T /\ Len(rest(t)) < Len(t)
    <2> DEFINE c == RuledCut(t)
    <2>1. c \in 1 .. Len(t)
      <3>1. c = FindChunkBoundary(t, TRUE)
        BY <1>1, CutIsRuled
      <3> DEFINE yes == TRUE
      <3>2. c = FindChunkBoundary(t, yes) /\ yes \in BOOLEAN /\ yes
        BY <3>1
      <3> HIDE DEF c, yes
      <3>3. /\ c \in 0 .. Len(t) /\ c <= HardLimit
            /\ c = 0 <=> (~yes /\ Stops(t) = {})
        BY <1>1, <3>2, CutFits, Zenon
      <3>4. c # 0
        BY <3>2, <3>3, Zenon
      <3>5. Len(t) \in Nat /\ c \in 0 .. Len(t)
        BY <3>3
      <3> QED BY <3>4, <3>5
    <2>2. Len(t) \in Nat /\ c \in 0 .. Len(t) /\ c + 1 \in Nat \ {0} /\ Len(t) \in 0 .. Len(t) /\ 1 \in Nat \ {0}
      BY <2>1
    <2> HIDE DEF c
    <2>3. SubSeq(t, 1, c) \in T
      BY <2>2, PartOf
    <2>4. SubSeq(t, c + 1, Len(t)) \in T
          /\ Len(SubSeq(t, c + 1, Len(t))) = IF c + 1 <= Len(t) THEN Len(t) - (c + 1) + 1 ELSE 0
      BY <2>2, PartOf
    <2> QED BY <2>1, <2>2, <2>3, <2>4 DEF c
  <1> HIDE DEF chunk, rest
  <1>2. Shortens(Char, {<<>>}, next)
    <2>1. \A t \in T : next[t] \in T
      BY <1>1
    <2>2. \A t \in T \ {<<>>} : Len(next[t]) < Len(t)
      BY <1>1
    <2>3. next \in [T -> T]
      BY <2>1
    <2> HIDE DEF next
    <2> QED BY <2>2, <2>3 DEF Shortens
  <1>3. end \in [T -> R] /\ join \in [T \X R -> R]
    <2>1. <<>> \in R
      OBVIOUS
    <2>2. ASSUME NEW t \in T, NEW r \in R, t # <<>> PROVE <<chunk(t)>> \o r \in R
      <3>1. <<chunk(t)>> \in R
        BY <1>1, <2>2
      <3> QED BY <3>1, ConcatProperties
    <2>3. \A p \in T \X R : join[p] \in R
      BY <2>2
    <2> QED BY <2>1, <2>3
  <1>4. \E f \in [T -> R] : \A t \in T : Defines(f, {<<>>}, end, next, join, t)
    <2> HIDE DEF next, end, join, R
    <2> QED BY <1>2, <1>3, RecursionByLength
  <1>5. PICK f \in [T -> R] : \A t \in T : Defines(f, {<<>>}, end, next, join, t)
    BY <1>4
  <1>6. ASSUME NEW t \in T
        PROVE  f[t] = IF t = <<>> THEN <<>> ELSE <<chunk(t)>> \o f[rest(t)]
    <2>1. CASE t = <<>>
      BY <1>5, <2>1 DEF Defines
    <2>2. CASE t # <<>>
      <3>1. f[t] = join[<<t, f[next[t]]>>] /\ next[t] = rest(t) /\ rest(t) \in T
        BY <1>1, <1>5, <2>2 DEF Defines
      <3>2. f[rest(t)] \in R
        BY <3>1
      <3> DEFINE p == <<t, f[rest(t)]>>
      <3>3. f[t] = join[p] /\ p \in T \X R /\ p[1] = t /\ p[2] = f[rest(t)]
        BY <3>1, <3>2
      <3> HIDE DEF p, R
      <3>4. join[p] = IF p[1] = <<>> THEN p[2] ELSE <<chunk(p[1])>> \o p[2]
        BY <3>3
      <3> QED BY <2>2, <3>3, <3>4
    <2> QED BY <2>1, <2>2
  <1>7. Rec(f)
    <2>1. f = [t \in T |-> f[t]]
      OBVIOUS
    <2> QED BY <1>6, <2>1
  <1>8. Rec(ruled)
    <2> HIDE DEF Rec
    <2> QED BY <1>7
  <1>9. \A s \in T : Reference(s) = ruled[s]
    BY DEF Reference, chunk, rest
  <1>10. \A t \in T : ruled[t] = IF t = <<>> THEN <<>> ELSE <<chunk(t)>> \o ruled[rest(t)]
    <2> HIDE DEF ruled
    <2> QED BY <1>8
  <1> DEFINE P == {t \in T : ruled[t] \in R}
  <1> HIDE DEF ruled
  <1>11. ASSUME NEW s \in T, \A t \in T : Len(t) < Len(s) => t \in P PROVE s \in P
    <2>1. CASE s = <<>>
      <3>1. ruled[s] = <<>>
        BY <1>10, <2>1
      <3>2. <<>> \in R
        OBVIOUS
      <3> QED BY <3>1, <3>2
    <2>2. CASE s # <<>>
      <3>1. rest(s) \in P /\ rest(s) \in T /\ chunk(s) \in T
        BY <1>1, <1>11, <2>2
      <3>2. ruled[rest(s)] \in R /\ <<chunk(s)>> \in R
        BY <3>1
      <3>3. <<chunk(s)>> \o ruled[rest(s)] \in R
        BY <3>2, ConcatProperties
      <3> QED BY <1>10, <2>2, <3>3
    <2> QED BY <2>1, <2>2
  <1>12. \A s \in T : s \in P
    <2> HIDE DEF P
    <2> QED BY <1>11, ByLength
  <1>13. ASSUME NEW s \in T
         PROVE  /\ Reference(s) \in R
                /\ Reference(s) = IF s = <<>> THEN <<>> ELSE <<chunk(s)>> \o Reference(rest(s))
    <2>1. s # <<>> => rest(s) \in T
      BY <1>1
    <2> QED BY <1>9, <1>10, <1>12, <2>1
  <1> QED BY <1>13 DEF chunk, rest

\* A turn of extract: where s is cut, what comes out of the cut and what is left.
CutOf(s, flush) == IF s = <<>> THEN 0 ELSE FindChunkBoundary(s, flush)
ChunkOf(s, flush) == Trim(SubSeq(s, 1, CutOf(s, flush)))
RestOf(s, flush) == TrimLeft(SubSeq(s, CutOf(s, flush) + 1, Len(s)))
OutOf(s, flush) == IF ChunkOf(s, flush) = <<>> THEN <<>> ELSE <<ChunkOf(s, flush)>>
Waits(s, flush) ==
  RestOf(s, flush) = <<>> \/ (~flush /\ Len(RestOf(s, flush)) < SoftLimit)

\* The two ways of taking blank space away.
LEMMA TrimLeftIs ==
  ASSUME NEW s \in Seq(Char)
  PROVE  /\ TrimLeft(s) \in Seq(Char) /\ Len(TrimLeft(s)) <= Len(s)
         /\ \/ TrimLeft(s) = <<>> /\ \A j \in 1 .. Len(s) : s[j] \in Space
            \/ \E i \in 1 .. Len(s) :
                  /\ s[i] \notin Space /\ (\A j \in 1 .. i - 1 : s[j] \in Space)
                  /\ TrimLeft(s) = SubSeq(s, i, Len(s))
  <1> DEFINE solid == {i \in DOMAIN s : s[i] \notin Space}
  <1>0. DOMAIN s = 1 .. Len(s) /\ Len(s) \in Nat
    OBVIOUS
  <1>1. CASE solid = {}
    <2>1. TrimLeft(s) = <<>> /\ \A j \in 1 .. Len(s) : s[j] \in Space
      BY <1>0, <1>1 DEF TrimLeft
    <2> QED BY <1>0, <2>1
  <1>2. CASE solid # {}
    <2> DEFINE k == Min(solid)
    <2>1. k \in solid /\ \A i \in solid : k <= i
      <3>1. solid \in SUBSET Nat
        BY <1>0
      <3> HIDE DEF solid
      <3> QED BY <1>2, <3>1, MinIsLeast
    <2>2. TrimLeft(s) = SubSeq(s, k, Len(s))
      BY <1>2 DEF TrimLeft
    <2> HIDE DEF k
    <2>3. k \in 1 .. Len(s) /\ s[k] \notin Space
      BY <1>0, <2>1
    <2>4. \A j \in 1 .. k - 1 : s[j] \in Space
      <3> SUFFICES ASSUME NEW j \in 1 .. k - 1, s[j] \notin Space PROVE FALSE
        OBVIOUS
      <3>1. j \in 1 .. Len(s) /\ j < k
        BY <1>0, <2>3
      <3>2. j \in solid
        BY <1>0, <3>1
      <3> QED BY <2>1, <2>3, <3>1, <3>2
    <2>5. SubSeq(s, k, Len(s)) \in Seq(Char) /\ Len(SubSeq(s, k, Len(s))) = Len(s) - k + 1
      <3>1. k \in Nat \ {0} /\ Len(s) \in 0 .. Len(s) /\ k <= Len(s)
        BY <1>0, <2>3
      <3> QED BY <3>1, PartOf
    <2> QED BY <1>0, <2>2, <2>3, <2>4, <2>5
  <1> QED BY <1>1, <1>2

\* Trim starts at the first character that is not blank and ends at the last.
LEMMA TrimIs ==
  ASSUME NEW s \in Seq(Char)
  PROVE  /\ Trim(s) \in Seq(Char) /\ Len(Trim(s)) <= Len(s)
         /\ \/ Trim(s) = <<>> /\ \A j \in 1 .. Len(s) : s[j] \in Space
            \/ \E i \in 1 .. Len(s), k \in 1 .. Len(s) :
                  /\ i <= k /\ s[i] \notin Space /\ s[k] \notin Space
                  /\ (\A j \in 1 .. Len(s) : j < i \/ k < j => s[j] \in Space)
                  /\ Trim(s) = SubSeq(s, i, k)
  <1> DEFINE solid == {i \in DOMAIN s : s[i] \notin Space}
  <1>0. DOMAIN s = 1 .. Len(s) /\ Len(s) \in Nat
    OBVIOUS
  <1>1. CASE solid = {}
    <2>1. Trim(s) = <<>> /\ \A j \in 1 .. Len(s) : s[j] \in Space
      BY <1>0, <1>1 DEF Trim
    <2> QED BY <1>0, <2>1
  <1>2. CASE solid # {}
    <2> DEFINE i == Min(solid)
               k == Max(solid)
    <2>1. i \in solid /\ k \in solid /\ \A j \in solid : i <= j /\ j <= k
      <3>1. solid \in SUBSET Nat /\ \A j \in solid : j <= Len(s)
        BY <1>0
      <3> HIDE DEF solid
      <3> QED BY <1>0, <1>2, <3>1, MinIsLeast, MaxIsGreatest
    <2>2. Trim(s) = SubSeq(s, i, k)
      BY <1>2 DEF Trim
    <2> HIDE DEF i, k
    <2>3. i \in 1 .. Len(s) /\ k \in 1 .. Len(s) /\ s[i] \notin Space /\ s[k] \notin Space /\ i <= k
      BY <1>0, <2>1
    <2>4. \A j \in 1 .. Len(s) : j < i \/ k < j => s[j] \in Space
      <3> SUFFICES ASSUME NEW j \in 1 .. Len(s), j < i \/ k < j, s[j] \notin Space PROVE FALSE
        OBVIOUS
      <3>1. j \in solid
        BY <1>0
      <3> QED BY <2>1, <2>3, <3>1
    <2>5. SubSeq(s, i, k) \in Seq(Char) /\ Len(SubSeq(s, i, k)) = k - i + 1
      <3>1. i \in Nat \ {0} /\ k \in 0 .. Len(s) /\ i <= k
        BY <1>0, <2>3
      <3> QED BY <3>1, PartOf
    <2> QED BY <1>0, <2>2, <2>3, <2>4, <2>5
  <1> QED BY <1>1, <1>2

\* The parts of a turn: a chunk within the hard limit, and less text than before.
LEMMA TurnFits ==
  ASSUME NEW s \in Seq(Char), NEW flush \in BOOLEAN
  PROVE  /\ CutOf(s, flush) \in 0 .. Len(s) /\ CutOf(s, flush) <= HardLimit
         /\ CutOf(s, flush) = 0 <=> (s = <<>> \/ (~flush /\ Stops(s) = {}))
         /\ ChunkOf(s, flush) \in Seq(Char) /\ Len(ChunkOf(s, flush)) <= HardLimit
         /\ RestOf(s, flush) \in Seq(Char)
         /\ CutOf(s, flush) # 0 => Len(RestOf(s, flush)) < Len(s)
         /\ OutOf(s, flush) \in Seq(Seq(Char))
  <1> DEFINE c == CutOf(s, flush)
             a == SubSeq(s, 1, c)
             b == SubSeq(s, c + 1, Len(s))
  <1>1. /\ c \in 0 .. Len(s) /\ c <= HardLimit
        /\ c = 0 <=> (s = <<>> \/ (~flush /\ Stops(s) = {}))
    <2>1. CASE s = <<>>
      BY <2>1, ChunkerAssumption DEF CutOf
    <2>2. CASE s # <<>>
      <3>1. c = FindChunkBoundary(s, flush)
        BY <2>2 DEF CutOf
      <3> HIDE DEF c
      <3>2. /\ c \in 0 .. Len(s) /\ c <= HardLimit
            /\ c = 0 <=> (~flush /\ Stops(s) = {})
        BY <2>2, <3>1, CutFits, Zenon
      <3> QED BY <2>2, <3>2, Zenon
    <2> QED BY <2>1, <2>2
  <1> HIDE DEF c
  <1>2. Len(s) \in Nat /\ c + 1 \in Nat \ {0} /\ 1 \in Nat \ {0} /\ Len(s) \in 0 .. Len(s)
    BY <1>1
  <1>3. a \in Seq(Char) /\ Len(a) = c
    <2>1. a \in Seq(Char) /\ Len(a) = IF 1 <= c THEN c - 1 + 1 ELSE 0
      BY <1>1, <1>2, PartOf
    <2> QED BY <1>1, <2>1
  <1>4. b \in Seq(Char) /\ Len(b) = Len(s) - c
    <2>1. b \in Seq(Char) /\ Len(b) = IF c + 1 <= Len(s) THEN Len(s) - (c + 1) + 1 ELSE 0
      BY <1>1, <1>2, PartOf
    <2> QED BY <1>1, <1>2, <2>1
  <1>5. ChunkOf(s, flush) = Trim(a) /\ RestOf(s, flush) = TrimLeft(b)
    BY DEF ChunkOf, RestOf, c
  <1> HIDE DEF a, b
  <1>6. Trim(a) \in Seq(Char) /\ Len(Trim(a)) <= HardLimit
    <2>1. Trim(a) \in Seq(Char) /\ Len(Trim(a)) <= Len(a)
      BY <1>3, TrimIs
    <2>2. Len(Trim(a)) \in Nat
      BY <2>1
    <2> QED BY <1>1, <1>3, <2>1, <2>2, ChunkerAssumption
  <1>7. TrimLeft(b) \in Seq(Char) /\ (c # 0 => Len(TrimLeft(b)) < Len(s))
    <2>1. TrimLeft(b) \in Seq(Char) /\ Len(TrimLeft(b)) <= Len(b)
      BY <1>4, TrimLeftIs
    <2>2. Len(TrimLeft(b)) \in Nat
      BY <2>1
    <2> QED BY <1>1, <1>2, <1>4, <2>1, <2>2
  <1>8. OutOf(s, flush) \in Seq(Seq(Char))
    BY <1>5, <1>6 DEF OutOf
  <1> QED BY <1>1, <1>5, <1>6, <1>7, <1>8, Zenon DEF c

\* What extract returns, one turn at a time.
Outcomes == Seq(Seq(Char)) \X Seq(Char)
\* What extract returns is chunks and a text.
LEMMA OutcomePair ==
  /\ \A x \in Seq(Seq(Char)), r \in Seq(Char) : <<x, r>> \in Outcomes
  /\ \A o \in Outcomes : o[1] \in Seq(Seq(Char)) /\ o[2] \in Seq(Char)
  BY DEF Outcomes
\* Extract, one turn at a time: it stops without a cut or when what is left waits,
\* and goes on with what is left otherwise.
LEMMA ExtractIs ==
  ASSUME NEW flush \in BOOLEAN
  PROVE  \A s \in Seq(Char) :
           /\ Extract(s, flush) \in Outcomes
           /\ CutOf(s, flush) = 0 => Extract(s, flush) = <<<<>>, s>>
           /\ CutOf(s, flush) # 0 /\ Waits(s, flush) =>
                 Extract(s, flush) = <<OutOf(s, flush), RestOf(s, flush)>>
           /\ CutOf(s, flush) # 0 /\ ~Waits(s, flush) =>
                 Extract(s, flush) = <<OutOf(s, flush) \o Extract(RestOf(s, flush), flush)[1],
                                       Extract(RestOf(s, flush), flush)[2]>>
  <1> DEFINE T == Seq(Char)
             cut(t) == CutOf(t, flush)
             out(t) == OutOf(t, flush)
             rest(t) == RestOf(t, flush)
             kept(t) == Waits(t, flush)
             stops(t) == cut(t) = 0 \/ kept(t)
             Rec(f) == f = [t \in Seq(Char) |->
                              IF cut(t) = 0 THEN <<<<>>, t>>
                              ELSE IF kept(t) THEN <<out(t), rest(t)>>
                              ELSE <<out(t) \o f[rest(t)][1], f[rest(t)][2]>>]
             from == CHOOSE f : Rec(f)
             Ends == {t \in T : stops(t)}
             end == [t \in T |-> IF cut(t) = 0 THEN <<<<>>, t>> ELSE <<out(t), rest(t)>>]
             next == [t \in T |-> rest(t)]
             join == [p \in T \X Outcomes |-> <<out(p[1]) \o p[2][1], p[2][2]>>]
  <1>0. <<>> \in Seq(Seq(Char))
    OBVIOUS
  <1>1. \A t \in T : /\ rest(t) \in T /\ out(t) \in Seq(Seq(Char))
                     /\ cut(t) # 0 => Len(rest(t)) < Len(t)
    BY TurnFits, Zenon
  <1>9. \A s \in T : Extract(s, flush) = from[s]
    BY Zenon DEF Extract, CutOf, OutOf, ChunkOf, RestOf, Waits
  <1> HIDE DEF cut, out, rest, kept
  <1>2. Shortens(Char, Ends, next)
    <2>1. next \in [T -> T]
      BY <1>1
    <2>2. \A t \in T \ Ends : Len(next[t]) < Len(t)
      BY <1>1
    <2> HIDE DEF next, Ends
    <2> QED BY <2>1, <2>2 DEF Shortens
  <1>3. end \in [T -> Outcomes] /\ join \in [T \X Outcomes -> Outcomes]
    <2>1. \A t \in T : <<<<>>, t>> \in Outcomes /\ <<out(t), rest(t)>> \in Outcomes
      BY <1>0, <1>1, OutcomePair
    <2>2. ASSUME NEW t \in T, NEW o \in Outcomes PROVE <<out(t) \o o[1], o[2]>> \in Outcomes
      <3>1. out(t) \o o[1] \in Seq(Seq(Char))
        BY <1>1, ConcatProperties DEF Outcomes
      <3> QED BY <3>1 DEF Outcomes
    <2>3. \A p \in T \X Outcomes : join[p] \in Outcomes
      BY <2>2
    <2> QED BY <2>1, <2>3
  <1>4. \E f \in [T -> Outcomes] : \A t \in T : Defines(f, Ends, end, next, join, t)
    <2> HIDE DEF next, end, join, Ends
    <2> QED BY <1>2, <1>3, RecursionByLength
  <1>5. PICK f \in [T -> Outcomes] : \A t \in T : Defines(f, Ends, end, next, join, t)
    BY <1>4
  <1>6. ASSUME NEW t \in T
        PROVE  f[t] = IF cut(t) = 0 THEN <<<<>>, t>>
                      ELSE IF kept(t) THEN <<out(t), rest(t)>>
                      ELSE <<out(t) \o f[rest(t)][1], f[rest(t)][2]>>
    <2>1. CASE stops(t)
      <3>1. f[t] = end[t]
        BY <1>5, <2>1 DEF Defines
      <3> QED BY <2>1, <3>1
    <2>2. CASE ~stops(t)
      <3>1. f[t] = join[<<t, f[next[t]]>>] /\ next[t] = rest(t) /\ rest(t) \in T
        BY <1>1, <1>5, <2>2 DEF Defines
      <3>2. f[rest(t)] \in Outcomes
        BY <3>1
      <3> DEFINE p == <<t, f[rest(t)]>>
      <3>3. f[t] = join[p] /\ p \in T \X Outcomes /\ p[1] = t /\ p[2] = f[rest(t)]
        BY <3>1, <3>2
      <3> HIDE DEF p
      <3>4. join[p] = <<out(p[1]) \o p[2][1], p[2][2]>>
        BY <3>3
      <3> QED BY <2>2, <3>3, <3>4
    <2> QED BY <2>1, <2>2
  <1>7. Rec(f)
    <2>1. f = [t \in T |-> f[t]]
      OBVIOUS
    <2> QED BY <1>6, <2>1
  <1>8. Rec(from)
    <2> HIDE DEF Rec
    <2> QED BY <1>7
  <1>10. \A t \in T : from[t] = IF cut(t) = 0 THEN <<<<>>, t>>
                      ELSE IF kept(t) THEN <<out(t), rest(t)>>
                      ELSE <<out(t) \o from[rest(t)][1], from[rest(t)][2]>>
    <2> HIDE DEF from
    <2> QED BY <1>8
  <1> DEFINE P == {t \in T : from[t] \in Outcomes}
  <1> HIDE DEF from
  <1>11. ASSUME NEW s \in T, \A t \in T : Len(t) < Len(s) => t \in P PROVE s \in P
    <2>1. CASE stops(s)
      <3>1. <<<<>>, s>> \in Outcomes /\ <<out(s), rest(s)>> \in Outcomes
        BY <1>0, <1>1, OutcomePair
      <3> QED BY <1>10, <2>1, <3>1
    <2>2. CASE ~stops(s)
      <3>1. rest(s) \in P /\ rest(s) \in T
        BY <1>1, <1>11, <2>2
      <3> DEFINE o == from[rest(s)]
      <3>2. o \in Outcomes
        BY <3>1
      <3>3. from[s] = <<out(s) \o o[1], o[2]>>
        BY <1>10, <2>2
      <3> HIDE DEF o
      <3>4. out(s) \o o[1] \in Seq(Seq(Char)) /\ o[2] \in Seq(Char)
        BY <1>1, <3>2, ConcatProperties DEF Outcomes
      <3> QED BY <3>3, <3>4, OutcomePair
    <2> QED BY <2>1, <2>2
  <1>12. \A s \in T : s \in P
    <2> HIDE DEF P
    <2> QED BY <1>11, ByLength
  <1>13. ASSUME NEW s \in T
         PROVE  /\ Extract(s, flush) \in Outcomes
                /\ cut(s) = 0 => Extract(s, flush) = <<<<>>, s>>
                /\ cut(s) # 0 /\ kept(s) => Extract(s, flush) = <<out(s), rest(s)>>
                /\ cut(s) # 0 /\ ~kept(s) =>
                     Extract(s, flush) = <<out(s) \o Extract(rest(s), flush)[1],
                                           Extract(rest(s), flush)[2]>>
    BY <1>1, <1>9, <1>10, <1>12
  <1> QED BY <1>13 DEF cut, out, rest, kept

\* An empty text has nothing that is not blank.
LEMMA SolidEmpty == Solid(<<>>) = <<>>
  <1> DEFINE e == <<>>
  <1>1. e \in Seq(Char) /\ e = <<>>
    OBVIOUS
  <1> HIDE DEF e
  <1>2. Solid(e) = <<>>
    BY <1>1, SolidIs
  <1> QED BY <1>1, <1>2

\* A character more is there if it is not blank.
LEMMA SolidAppend ==
  ASSUME NEW s \in Seq(Char), NEW c \in Char
  PROVE  Solid(Append(s, c)) = IF c \in Space THEN Solid(s) ELSE Append(Solid(s), c)
  <1> DEFINE t == Append(s, c)
  <1>1. t \in Seq(Char) /\ t # <<>>
    BY AppendProperties
  <1>2. Front(t) = s /\ Last(t) = c
    BY TakeAppended
  <1> HIDE DEF t
  <1>3. Solid(t) = IF c \in Space THEN Solid(s) ELSE Append(Solid(s), c)
    BY <1>1, <1>2, SolidIs
  <1> QED BY <1>3 DEF t

\* Of two texts joined, what is not blank is that of the one and that of the other.
LEMMA SolidJoins ==
  ASSUME NEW s \in Seq(Char)
  PROVE  \A t \in Seq(Char) : Solid(s \o t) = Solid(s) \o Solid(t)
  <1> DEFINE P == {t \in Seq(Char) : Solid(s \o t) = Solid(s) \o Solid(t)}
  <1>0. \A t \in Seq(Char) : Solid(t) \in Seq(Char)
    BY SolidIs
  <1>1. ASSUME NEW t \in Seq(Char), \A u \in Seq(Char) : Len(u) < Len(t) => u \in P
        PROVE  t \in P
    <2>1. CASE t = <<>>
      <3>1. s \o <<>> = s /\ Solid(s) \o <<>> = Solid(s) /\ Solid(<<>>) = <<>>
        BY <1>0, SolidEmpty, TextsJoin
      <3> QED BY <2>1, <3>1
    <2>2. CASE t # <<>>
      <3>1. PICK b \in Seq(Char), c \in Char : t = Append(b, c) /\ Len(b) < Len(t)
        BY <2>2, TakeLast
      <3>2. Solid(s \o b) = Solid(s) \o Solid(b)
        BY <1>1, <3>1
      <3>3. s \o t = Append(s \o b, c) /\ s \o b \in Seq(Char)
        BY <3>1, AppendAfterBoth, TextsJoin
      <3>4. Solid(s \o t) = IF c \in Space THEN Solid(s \o b) ELSE Append(Solid(s \o b), c)
        BY <3>3, SolidAppend
      <3>5. Solid(t) = IF c \in Space THEN Solid(b) ELSE Append(Solid(b), c)
        BY <3>1, SolidAppend
      <3>6. Solid(s) \o Append(Solid(b), c) = Append(Solid(s) \o Solid(b), c)
        BY <1>0, AppendAfterBoth
      <3> QED BY <3>2, <3>4, <3>5, <3>6
    <2> QED BY <2>1, <2>2
  <1> HIDE DEF P
  <1>2. \A t \in Seq(Char) : t \in P
    BY <1>1, ByLength
  <1> QED BY <1>2 DEF P

\* A blank text has nothing that is not blank.
LEMMA SolidBlank ==
  \A t \in Seq(Char) : (\A i \in 1 .. Len(t) : t[i] \in Space) => Solid(t) = <<>>
  <1> DEFINE P == {t \in Seq(Char) : (\A i \in 1 .. Len(t) : t[i] \in Space) => Solid(t) = <<>>}
  <1>1. ASSUME NEW t \in Seq(Char), \A u \in Seq(Char) : Len(u) < Len(t) => u \in P
        PROVE  t \in P
    <2> SUFFICES ASSUME \A i \in 1 .. Len(t) : t[i] \in Space PROVE Solid(t) = <<>>
      OBVIOUS
    <2>1. CASE t = <<>>
      BY <2>1, SolidIs
    <2>2. CASE t # <<>>
      <3>1. PICK b \in Seq(Char), c \in Char : t = Append(b, c) /\ Len(b) < Len(t)
        BY <2>2, TakeLast
      <3>2. /\ Len(t) = Len(b) + 1 /\ Len(b) \in Nat
            /\ (\A i \in 1 .. Len(b) : t[i] = b[i]) /\ t[Len(b) + 1] = c
        BY <3>1, AppendProperties
      <3>3. c \in Space /\ \A i \in 1 .. Len(b) : b[i] \in Space
        BY <3>2
      <3>4. Solid(b) = <<>>
        BY <1>1, <3>1, <3>3
      <3> QED BY <3>1, <3>3, <3>4, SolidAppend
    <2> QED BY <2>1, <2>2
  <1> HIDE DEF P
  <1>2. \A t \in Seq(Char) : t \in P
    BY <1>1, ByLength
  <1> QED BY <1>2 DEF P

\* Taking blank space away leaves what is not blank.
LEMMA SolidPart ==
  ASSUME NEW s \in Seq(Char), NEW i \in 1 .. Len(s), NEW k \in i .. Len(s),
         \A j \in 1 .. Len(s) : j < i \/ k < j => s[j] \in Space
  PROVE  Solid(SubSeq(s, i, k)) = Solid(s)
  <1> DEFINE n == Len(s)
             a == SubSeq(s, 1, i - 1)
             b == SubSeq(s, i, k)
             c == SubSeq(s, k + 1, n)
  <1>1. n \in Nat /\ i \in Nat /\ k \in Nat /\ 1 <= i /\ i <= k /\ k <= n
    OBVIOUS
  <1>2. SubSeq(s, 1, k) = a \o b
    <2>1. 1 \in 1 .. n + 1 /\ i - 1 \in 1 - 1 .. n /\ k \in i - 1 .. n /\ i - 1 + 1 = i
      BY <1>1
    <2>2. SubSeq(s, 1, i - 1) \o SubSeq(s, i - 1 + 1, k) = SubSeq(s, 1, k)
      BY <2>1, ConcatAdjacentSubSeq
    <2> QED BY <2>1, <2>2
  <1>3. SubSeq(s, 1, n) = SubSeq(s, 1, k) \o c
    <2>1. 1 \in 1 .. n + 1 /\ k \in 1 - 1 .. n /\ n \in k .. n
      BY <1>1
    <2> QED BY <2>1, ConcatAdjacentSubSeq
  <1>4. SubSeq(s, 1, n) = s
    BY SubSeqFull
  <1>5. a \in Seq(Char) /\ Len(a) = i - 1 /\ \A j \in 1 .. i - 1 : a[j] = s[j]
    <2>1. 1 \in Nat \ {0} /\ i - 1 \in 0 .. n
      BY <1>1
    <2>2. /\ a \in Seq(Char) /\ Len(a) = IF 1 <= i - 1 THEN i - 1 - 1 + 1 ELSE 0
          /\ \A j \in 1 .. i - 1 - 1 + 1 : a[j] = s[1 + j - 1]
      BY <2>1, PartOf
    <2> HIDE DEF a
    <2> QED BY <1>1, <2>2
  <1>6. c \in Seq(Char) /\ Len(c) = n - k /\ \A j \in 1 .. n - k : c[j] = s[k + j]
    <2>1. k + 1 \in Nat \ {0} /\ n \in 0 .. n
      BY <1>1
    <2>2. /\ c \in Seq(Char) /\ Len(c) = IF k + 1 <= n THEN n - (k + 1) + 1 ELSE 0
          /\ \A j \in 1 .. n - (k + 1) + 1 : c[j] = s[k + 1 + j - 1]
      BY <2>1, PartOf
    <2> HIDE DEF c, n
    <2> QED BY <1>1, <2>2
  <1>7. b \in Seq(Char)
    <2>1. i \in Nat \ {0} /\ k \in 0 .. n
      BY <1>1
    <2> QED BY <2>1, PartOf
  <1> HIDE DEF a, b, c
  <1>8. Solid(a) = <<>>
    <2>1. \A j \in 1 .. i - 1 : a[j] \in Space
      BY <1>1, <1>5
    <2> QED BY <1>5, <2>1, SolidBlank
  <1>9. Solid(c) = <<>>
    <2>1. \A j \in 1 .. n - k : k + j \in 1 .. n /\ k < k + j
      BY <1>1
    <2>2. \A j \in 1 .. n - k : c[j] \in Space
      BY <1>6, <2>1, Zenon
    <2> QED BY <1>6, <2>2, SolidBlank
  <1>10. s = (a \o b) \o c
    BY <1>2, <1>3, <1>4, Zenon
  <1>11. Solid(s) = (Solid(a) \o Solid(b)) \o Solid(c)
    <2>1. a \o b \in Seq(Char)
      BY <1>5, <1>7, TextsJoin
    <2> QED BY <1>5, <1>6, <1>7, <1>10, <2>1, SolidJoins
  <1>12. Solid(b) \in Seq(Char)
    BY <1>7, SolidIs
  <1> QED BY <1>8, <1>9, <1>11, <1>12, TextsJoin DEF b

\* TrimLeft and Trim take blank space only.
LEMMA TrimsAreSolid ==
  ASSUME NEW s \in Seq(Char)
  PROVE  Solid(TrimLeft(s)) = Solid(s) /\ Solid(Trim(s)) = Solid(s)
  <1>0. Solid(<<>>) = <<>> /\ Len(s) \in Nat
    BY SolidEmpty
  <1>1. Solid(TrimLeft(s)) = Solid(s)
    <2>1. CASE TrimLeft(s) = <<>> /\ \A j \in 1 .. Len(s) : s[j] \in Space
      BY <1>0, <2>1, SolidBlank
    <2>2. CASE \E i \in 1 .. Len(s) :
                  /\ s[i] \notin Space /\ (\A j \in 1 .. i - 1 : s[j] \in Space)
                  /\ TrimLeft(s) = SubSeq(s, i, Len(s))
      <3>1. PICK i \in 1 .. Len(s) : (\A j \in 1 .. i - 1 : s[j] \in Space)
                                     /\ TrimLeft(s) = SubSeq(s, i, Len(s))
        BY <2>2
      <3>2. Len(s) \in i .. Len(s) /\ \A j \in 1 .. Len(s) : j < i \/ Len(s) < j => s[j] \in Space
        BY <1>0, <3>1
      <3> QED BY <3>1, <3>2, SolidPart
    <2> QED BY <2>1, <2>2, TrimLeftIs
  <1>2. Solid(Trim(s)) = Solid(s)
    <2>1. CASE Trim(s) = <<>> /\ \A j \in 1 .. Len(s) : s[j] \in Space
      BY <1>0, <2>1, SolidBlank
    <2>2. CASE \E i \in 1 .. Len(s), k \in 1 .. Len(s) :
                  /\ i <= k /\ s[i] \notin Space /\ s[k] \notin Space
                  /\ (\A j \in 1 .. Len(s) : j < i \/ k < j => s[j] \in Space)
                  /\ Trim(s) = SubSeq(s, i, k)
      <3>1. PICK i \in 1 .. Len(s), k \in 1 .. Len(s) :
                  /\ i <= k /\ (\A j \in 1 .. Len(s) : j < i \/ k < j => s[j] \in Space)
                  /\ Trim(s) = SubSeq(s, i, k)
        BY <2>2
      <3>2. k \in i .. Len(s)
        BY <1>0, <3>1
      <3> QED BY <3>1, <3>2, SolidPart
    <2> QED BY <2>1, <2>2, TrimIs
  <1> QED BY <1>1, <1>2

\* A text without blank space.
Unblank(s) == \A i \in DOMAIN s : s[i] \notin Space
\* A chunk, and chunks, the synthesiser takes.
ChunkFits(c) == c # <<>> /\ Len(c) <= HardLimit /\ Head(c) \notin Space /\ Last(c) \notin Space
Fit(xs) == \A i \in DOMAIN xs : ChunkFits(xs[i])
\* A text of which nothing can be spoken.
NothingDue(s) == \A i \in DOMAIN s : i >= SoftLimit => Priority(s[i]) = 0

\* A trimmed text that is not empty neither begins nor ends blank.
LEMMA TrimmedEnds ==
  ASSUME NEW s \in Seq(Char), Trim(s) # <<>>
  PROVE  Head(Trim(s)) \notin Space /\ Last(Trim(s)) \notin Space
  <1>1. PICK i \in 1 .. Len(s), k \in 1 .. Len(s) :
           i <= k /\ s[i] \notin Space /\ s[k] \notin Space /\ Trim(s) = SubSeq(s, i, k)
    BY TrimIs
  <1> DEFINE u == SubSeq(s, i, k)
  <1>2. u \in Seq(Char) /\ Len(u) = k - i + 1 /\ \A j \in 1 .. k - i + 1 : u[j] = s[i + j - 1]
    <2>1. i \in Nat \ {0} /\ k \in 0 .. Len(s)
      OBVIOUS
    <2> QED BY <1>1, <2>1, PartOf
  <1> HIDE DEF u
  <1>3. i \in Nat /\ k \in Nat /\ i <= k
    BY <1>1
  <1>4. u # <<>> /\ Head(u) = u[1] /\ Last(u) = u[k - i + 1]
    BY <1>2, <1>3 DEF Last
  <1>5. u[1] = s[i] /\ u[k - i + 1] = s[k]
    <2>1. 1 \in 1 .. k - i + 1 /\ k - i + 1 \in 1 .. k - i + 1
          /\ i + 1 - 1 = i /\ i + (k - i + 1) - 1 = k
      BY <1>3
    <2> QED BY <1>2, <2>1
  <1> QED BY <1>1, <1>4, <1>5 DEF u

\* What a turn takes out and what it leaves are all of the text but blank space.
LEMMA TurnKeeps ==
  ASSUME NEW s \in Seq(Char), NEW flush \in BOOLEAN
  PROVE  /\ Solid(FlattenSeq(OutOf(s, flush)) \o RestOf(s, flush)) = Solid(s)
         /\ Fit(OutOf(s, flush))
  <1> DEFINE c == CutOf(s, flush)
             n == Len(s)
             a == SubSeq(s, 1, c)
             b == SubSeq(s, c + 1, n)
             out == OutOf(s, flush)
             rest == RestOf(s, flush)
  <1>1. c \in 0 .. n /\ n \in Nat /\ rest \in Seq(Char) /\ out \in Seq(Seq(Char))
    BY TurnFits
  <1>2. a \in Seq(Char) /\ b \in Seq(Char)
    <2>1. 1 \in Nat \ {0} /\ c + 1 \in Nat \ {0} /\ c \in 0 .. n /\ n \in 0 .. n
      BY <1>1
    <2> HIDE DEF c
    <2> QED BY <2>1, PartOf
  <1>3. s = a \o b
    <2>1. 1 \in 1 .. n + 1 /\ c \in 1 - 1 .. n /\ n \in c .. n
      BY <1>1
    <2> HIDE DEF c
    <2>2. SubSeq(s, 1, c) \o SubSeq(s, c + 1, n) = SubSeq(s, 1, n)
      BY <2>1, ConcatAdjacentSubSeq
    <2> QED BY <2>2, SubSeqFull
  <1> DEFINE chunk == Trim(a)
  <1>4. out = (IF chunk = <<>> THEN <<>> ELSE <<chunk>>) /\ rest = TrimLeft(b)
    BY DEF OutOf, ChunkOf, RestOf
  <1>5. /\ chunk \in Seq(Char) /\ Len(chunk) <= HardLimit
        /\ chunk # <<>> => Head(chunk) \notin Space /\ Last(chunk) \notin Space
    <2>1. chunk = ChunkOf(s, flush)
      BY DEF ChunkOf
    <2>2. chunk \in Seq(Char) /\ Len(chunk) <= HardLimit
      BY <2>1, TurnFits
    <2> HIDE DEF a
    <2> QED BY <1>2, <2>2, TrimmedEnds
  <1>6. Solid(chunk) = Solid(a) /\ Solid(rest) = Solid(b)
    <2> HIDE DEF a, b
    <2> QED BY <1>2, <1>4, TrimsAreSolid
  <1> HIDE DEF c, a, b, out, rest, chunk
  <1>7. FlattenSeq(out) = chunk
    <2>1. CASE chunk = <<>>
      BY <1>4, <2>1, FlattenEmpty
    <2>2. CASE chunk # <<>>
      BY <1>4, <1>5, <2>2, FlattenFew
    <2> QED BY <2>1, <2>2
  <1>8. Solid(FlattenSeq(out) \o rest) = Solid(s)
    <2>1. Solid(chunk \o rest) = Solid(chunk) \o Solid(rest)
      BY <1>1, <1>5, SolidJoins
    <2>2. Solid(a \o b) = Solid(a) \o Solid(b)
      BY <1>2, SolidJoins
    <2> QED BY <1>3, <1>6, <1>7, <2>1, <2>2
  <1>9. Fit(out)
    <2>1. CASE chunk = <<>>
      BY <1>4, <2>1 DEF Fit
    <2>2. CASE chunk # <<>>
      <3>1. out = <<chunk>> /\ ChunkFits(chunk)
        BY <1>4, <1>5, <2>2 DEF ChunkFits
      <3> QED BY <3>1 DEF Fit
    <2> QED BY <2>1, <2>2
  <1> QED BY <1>8, <1>9 DEF out, rest

\* Chunks that fit, joined to chunks that fit.
LEMMA FitJoins ==
  ASSUME NEW x \in Seq(Seq(Char)), NEW y \in Seq(Seq(Char)), Fit(x), Fit(y)
  PROVE  Fit(x \o y)
  <1> DEFINE z == x \o y
             m == Len(x)
             n == Len(y)
  <1>1. /\ z \in Seq(Seq(Char)) /\ Len(z) = m + n /\ m \in Nat /\ n \in Nat
        /\ \A i \in 1 .. m + n : z[i] = IF i <= m THEN x[i] ELSE y[i - m]
    BY ConcatProperties
  <1>2. DOMAIN x = 1 .. m /\ DOMAIN y = 1 .. n
    OBVIOUS
  <1> HIDE DEF z, m, n
  <1>3. DOMAIN z = 1 .. m + n
    BY <1>1
  <1>4. ASSUME NEW i \in 1 .. m + n PROVE ChunkFits(z[i])
    <2>1. CASE i <= m
      <3>1. i \in 1 .. m /\ z[i] = x[i]
        BY <1>1, <2>1
      <3> QED BY <1>2, <3>1 DEF Fit
    <2>2. CASE ~(i <= m)
      <3>1. i - m \in 1 .. n /\ z[i] = y[i - m]
        BY <1>1, <2>2
      <3> QED BY <1>2, <3>1 DEF Fit
    <2> QED BY <2>1, <2>2
  <1> QED BY <1>3, <1>4 DEF Fit, z

\* What extract returns of s: all of it but blank space, in chunks that fit, and
\* nothing kept that could be spoken.
Returned(s, flush, o) ==
  /\ o \in Outcomes
  /\ Solid(FlattenSeq(o[1]) \o o[2]) = Solid(s) /\ Fit(o[1])
  /\ Len(o[2]) < HardLimit /\ NothingDue(o[2])
  /\ flush => o[2] = <<>>

\* A text shorter than the soft limit has nothing due.
LEMMA KeptFits ==
  ASSUME NEW r \in Seq(Char), r = <<>> \/ Len(r) < SoftLimit
  PROVE  Len(r) < HardLimit /\ NothingDue(r)
  <1>1. Len(r) \in Nat /\ DOMAIN r = 1 .. Len(r) /\ Len(r) < SoftLimit
    <2>1. CASE r = <<>>
      BY <2>1, ChunkerAssumption
    <2>2. CASE Len(r) < SoftLimit
      BY <2>2
    <2> QED BY <2>1, <2>2
  <1> QED BY <1>1, ChunkerAssumption DEF NothingDue

\* Extract returns this of every text, flushed or not.
LEMMA ExtractKeeps ==
  ASSUME NEW flush \in BOOLEAN
  PROVE  \A s \in Seq(Char) : Returned(s, flush, Extract(s, flush))
  <1> DEFINE P == {s \in Seq(Char) : Returned(s, flush, Extract(s, flush))}
  <1>1. ASSUME NEW s \in Seq(Char), \A u \in Seq(Char) : Len(u) < Len(s) => u \in P
        PROVE  s \in P
    <2> DEFINE out == OutOf(s, flush)
               rest == RestOf(s, flush)
               o == Extract(s, flush)
    <2>1. /\ out \in Seq(Seq(Char)) /\ rest \in Seq(Char)
          /\ CutOf(s, flush) # 0 => Len(rest) < Len(s)
      BY TurnFits
    <2>2. Solid(FlattenSeq(out) \o rest) = Solid(s) /\ Fit(out)
      BY TurnKeeps
    <2>3. o \in Outcomes
      BY ExtractIs
    <2>4. CASE CutOf(s, flush) = 0
      <3>1. o = <<<<>>, s>>
        BY <2>4, ExtractIs
      <3>2. s = <<>> \/ (~flush /\ Stops(s) = {})
        BY <2>4, TurnFits, Zenon
      <3>3. Len(s) < HardLimit /\ NothingDue(s)
        <4>1. CASE s = <<>>
          BY <4>1, KeptFits
        <4>2. CASE Stops(s) = {}
          BY <4>2, NoStop DEF NothingDue
        <4> QED BY <3>2, <4>1, <4>2
      <3>4. Fit(<<>>)
        BY DEF Fit
      <3>5. FlattenSeq(<<>>) \o s = s
        BY FlattenEmpty, TextsJoin
      <3>6. o[1] = <<>> /\ o[2] = s
        BY <3>1
      <3>7. flush => s = <<>>
        BY <3>2, Zenon
      <3> HIDE DEF o
      <3>8. Returned(s, flush, o)
        BY <2>3, <3>3, <3>4, <3>5, <3>6, <3>7, Zenon DEF Returned
      <3> QED BY <3>8 DEF o
    <2>5. CASE CutOf(s, flush) # 0 /\ Waits(s, flush)
      <3>1. o = <<out, rest>>
        BY <2>5, ExtractIs
      <3>2. o[1] = out /\ o[2] = rest
        BY <3>1
      <3>3. rest = <<>> \/ (~flush /\ Len(rest) < SoftLimit)
        BY <2>5 DEF Waits
      <3> HIDE DEF o, out, rest
      <3>4. Len(rest) < HardLimit /\ NothingDue(rest)
        BY <2>1, <3>3, KeptFits, Zenon
      <3>5. flush => rest = <<>>
        BY <3>3, Zenon
      <3>6. Returned(s, flush, o)
        BY <2>2, <2>3, <3>2, <3>4, <3>5, Zenon DEF Returned
      <3> QED BY <3>6 DEF o
    <2>6. CASE CutOf(s, flush) # 0 /\ ~Waits(s, flush)
      <3> DEFINE m == Extract(rest, flush)
      <3>1. o = <<out \o m[1], m[2]>>
        BY <2>6, ExtractIs
      <3>2. o[1] = out \o m[1] /\ o[2] = m[2]
        BY <3>1
      <3>3. Returned(rest, flush, m)
        BY <1>1, <2>1, <2>6
      <3> HIDE DEF o, m, out, rest
      <3>4. /\ m[1] \in Seq(Seq(Char)) /\ m[2] \in Seq(Char)
            /\ Solid(FlattenSeq(m[1]) \o m[2]) = Solid(rest) /\ Fit(m[1])
            /\ Len(m[2]) < HardLimit /\ NothingDue(m[2]) /\ (flush => m[2] = <<>>)
        BY <3>3, OutcomePair, Zenon DEF Returned
      <3> DEFINE a == FlattenSeq(out)
                 b == FlattenSeq(m[1])
                 c == m[2]
      <3>5. a \in Seq(Char) /\ b \in Seq(Char) /\ c \in Seq(Char)
        BY <2>1, <3>4, FlattenType
      <3>6. FlattenSeq(out \o m[1]) = a \o b
        BY <2>1, <3>4, FlattenBoth
      <3>7. Solid(a \o rest) = Solid(s) /\ Solid(b \o c) = Solid(rest)
        BY <2>2, <3>4
      <3> HIDE DEF a, b, c
      <3>8. Solid((a \o b) \o c) = Solid(s)
        <4>1. (a \o b) \o c = a \o (b \o c) /\ b \o c \in Seq(Char)
          BY <3>5, TextsJoin, SMTT(30)
        <4>2. Solid(a \o (b \o c)) = Solid(a) \o Solid(b \o c)
          BY <3>5, <4>1, SolidJoins
        <4>3. Solid(a \o rest) = Solid(a) \o Solid(rest)
          BY <2>1, <3>5, SolidJoins
        <4> QED BY <3>7, <4>1, <4>2, <4>3
      <3>9. Fit(out \o m[1])
        BY <2>1, <2>2, <3>4, FitJoins
      <3>10. Solid(FlattenSeq(o[1]) \o o[2]) = Solid(s)
        BY <3>2, <3>6, <3>8 DEF c
      <3>11. Returned(s, flush, o)
        BY <2>3, <3>2, <3>4, <3>9, <3>10, Zenon DEF Returned
      <3> QED BY <3>11 DEF o
    <2> QED BY <2>4, <2>5, <2>6
  <1> HIDE DEF P
  <1>2. \A s \in Seq(Char) : s \in P
    BY <1>1, ByLength
  <1> QED BY <1>2 DEF P

\* Taking blank space away leaves a text without any as it is.
LEMMA TrimUnblank ==
  ASSUME NEW s \in Seq(Char), Unblank(s)
  PROVE  TrimLeft(s) = s /\ Trim(s) = s
  <1> DEFINE n == Len(s)
  <1>1. n \in Nat /\ DOMAIN s = 1 .. n /\ SubSeq(s, 1, n) = s
    BY SubSeqFull
  <1>2. \A j \in 1 .. n : s[j] \notin Space
    BY <1>1 DEF Unblank
  <1>3. (\A j \in 1 .. n : s[j] \in Space) => s = <<>>
    <2> SUFFICES ASSUME \A j \in 1 .. n : s[j] \in Space, n # 0 PROVE FALSE
      BY EmptySeq
    <2>1. 1 \in 1 .. n
      BY <1>1
    <2> QED BY <1>2, <2>1
  <1>4. TrimLeft(s) = s
    <2>1. CASE TrimLeft(s) = <<>> /\ \A j \in 1 .. n : s[j] \in Space
      BY <1>3, <2>1
    <2>2. CASE \E i \in 1 .. n : /\ s[i] \notin Space /\ (\A j \in 1 .. i - 1 : s[j] \in Space)
                                 /\ TrimLeft(s) = SubSeq(s, i, n)
      <3>1. PICK i \in 1 .. n : (\A j \in 1 .. i - 1 : s[j] \in Space) /\ TrimLeft(s) = SubSeq(s, i, n)
        BY <2>2
      <3> HIDE DEF n
      <3>2. i = 1
        <4> SUFFICES ASSUME i # 1 PROVE FALSE
          OBVIOUS
        <4>1. 1 \in 1 .. i - 1 /\ 1 \in 1 .. n
          BY <1>1
        <4> QED BY <1>2, <3>1, <4>1
      <3> QED BY <1>1, <3>1, <3>2
    <2> QED BY <2>1, <2>2, TrimLeftIs
  <1>5. Trim(s) = s
    <2>1. CASE Trim(s) = <<>> /\ \A j \in 1 .. n : s[j] \in Space
      BY <1>3, <2>1
    <2>2. CASE \E i \in 1 .. n, k \in 1 .. n :
                  /\ i <= k /\ s[i] \notin Space /\ s[k] \notin Space
                  /\ (\A j \in 1 .. n : j < i \/ k < j => s[j] \in Space)
                  /\ Trim(s) = SubSeq(s, i, k)
      <3>1. PICK i \in 1 .. n, k \in 1 .. n :
                  /\ (\A j \in 1 .. n : j < i \/ k < j => s[j] \in Space)
                  /\ Trim(s) = SubSeq(s, i, k)
        BY <2>2
      <3> HIDE DEF n
      <3>2. 1 \in 1 .. n /\ n \in 1 .. n
        BY <1>1
      <3>3. ~(1 < i) /\ ~(k < n)
        BY <1>2, <3>1, <3>2
      <3>4. i = 1 /\ k = n
        BY <1>1, <3>3
      <3> QED BY <1>1, <3>1, <3>4
    <2> QED BY <2>1, <2>2, TrimIs
  <1> QED BY <1>4, <1>5

\* A part of a text without blank space, and the text that joins two.
LEMMA UnblankPart ==
  ASSUME NEW s \in Seq(Char), Unblank(s), NEW m \in Nat \ {0}, NEW n \in 0 .. Len(s)
  PROVE  Unblank(SubSeq(s, m, n))
  <1> DEFINE u == SubSeq(s, m, n)
  <1>1. /\ u \in Seq(Char) /\ Len(u) = IF m <= n THEN n - m + 1 ELSE 0
        /\ \A i \in 1 .. n - m + 1 : u[i] = s[m + i - 1]
    BY PartOf
  <1> HIDE DEF u
  <1>2. \A i \in 1 .. Len(u) : i \in 1 .. n - m + 1 /\ m + i - 1 \in 1 .. Len(s)
    BY <1>1
  <1>3. DOMAIN u = 1 .. Len(u) /\ DOMAIN s = 1 .. Len(s)
    BY <1>1
  <1>4. \A i \in 1 .. Len(u) : u[i] \notin Space
    BY <1>1, <1>2, <1>3 DEF Unblank
  <1> QED BY <1>3, <1>4 DEF Unblank, u

\* Two texts joined are without blank space when both are.
LEMMA UnblankJoins ==
  ASSUME NEW s \in Seq(Char), NEW t \in Seq(Char)
  PROVE  Unblank(s \o t) <=> Unblank(s) /\ Unblank(t)
  <1> DEFINE u == s \o t
             m == Len(s)
             n == Len(t)
  <1>1. /\ u \in Seq(Char) /\ Len(u) = m + n /\ m \in Nat /\ n \in Nat
        /\ \A i \in 1 .. m + n : u[i] = IF i <= m THEN s[i] ELSE t[i - m]
        /\ DOMAIN s = 1 .. m /\ DOMAIN t = 1 .. n
    BY ConcatProperties
  <1> HIDE DEF u, m, n
  <1>2. DOMAIN u = 1 .. m + n
    BY <1>1
  <1>3. ASSUME Unblank(u) PROVE Unblank(s) /\ Unblank(t)
    <2>1. \A i \in 1 .. m : i \in 1 .. m + n /\ u[i] = s[i]
      BY <1>1
    <2>2. ASSUME NEW i \in 1 .. n PROVE i + m \in 1 .. m + n /\ u[i + m] = t[i]
      <3>1. i + m \in 1 .. m + n /\ ~(i + m <= m) /\ i + m - m = i
        BY <1>1
      <3> QED BY <1>1, <3>1
    <2>3. \A i \in 1 .. m : s[i] \notin Space
      BY <1>2, <1>3, <2>1 DEF Unblank
    <2>4. \A i \in 1 .. n : t[i] \notin Space
      BY <1>2, <1>3, <2>2 DEF Unblank
    <2> QED BY <1>1, <2>3, <2>4 DEF Unblank
  <1>4. ASSUME Unblank(s), Unblank(t) PROVE Unblank(u)
    <2>1. ASSUME NEW i \in 1 .. m + n PROVE u[i] \notin Space
      <3>1. CASE i <= m
        <4>1. i \in 1 .. m /\ u[i] = s[i]
          BY <1>1, <3>1
        <4> QED BY <1>1, <1>4, <4>1 DEF Unblank
      <3>2. CASE ~(i <= m)
        <4>1. i - m \in 1 .. n /\ u[i] = t[i - m]
          BY <1>1, <3>2
        <4> QED BY <1>1, <1>4, <4>1 DEF Unblank
      <3> QED BY <3>1, <3>2
    <2> QED BY <1>2, <2>1 DEF Unblank
  <1> QED BY <1>3, <1>4 DEF u

\* A text that is cut and goes on is cut there and goes on.
LEMMA CutsGoOn ==
  ASSUME NEW s \in Seq(Char), NEW t \in Seq(Char), NEW c \in 1 .. Len(s)
  PROVE  /\ SubSeq(s \o t, 1, c) = SubSeq(s, 1, c)
         /\ SubSeq(s \o t, c + 1, Len(s \o t)) = SubSeq(s, c + 1, Len(s)) \o t
  <1> DEFINE u == s \o t
             m == Len(s)
             n == Len(t)
             a == SubSeq(u, 1, c)
             b == SubSeq(u, c + 1, Len(u))
             d == SubSeq(s, c + 1, m)
             e == d \o t
  <1>1. 1 \in 1 .. m
    OBVIOUS
  <1>2. a = SubSeq(s, 1, c)
    BY <1>1, SubSeqOfConcat1
  <1>3. /\ u \in Seq(Char) /\ Len(u) = m + n /\ m \in Nat /\ n \in Nat /\ c \in Nat /\ c <= m
        /\ \A i \in 1 .. m + n : u[i] = IF i <= m THEN s[i] ELSE t[i - m]
    BY ConcatProperties
  <1> HIDE DEF u
  <1>4. /\ d \in Seq(Char) /\ Len(d) = m - c /\ \A i \in 1 .. m - c : d[i] = s[c + i]
    <2>1. c + 1 \in Nat \ {0} /\ m \in 0 .. m
      BY <1>3
    <2>2. /\ d \in Seq(Char) /\ Len(d) = IF c + 1 <= m THEN m - (c + 1) + 1 ELSE 0
          /\ \A i \in 1 .. m - (c + 1) + 1 : d[i] = s[c + 1 + i - 1]
      BY <2>1, PartOf
    <2> HIDE DEF d, m
    <2> QED BY <1>3, <2>2
  <1>5. /\ b \in Seq(Char) /\ Len(b) = m + n - c /\ \A i \in 1 .. m + n - c : b[i] = u[c + i]
    <2>1. c + 1 \in Nat \ {0} /\ Len(u) \in 0 .. Len(u)
      BY <1>3
    <2>2. /\ b \in Seq(Char) /\ Len(b) = IF c + 1 <= Len(u) THEN Len(u) - (c + 1) + 1 ELSE 0
          /\ \A i \in 1 .. Len(u) - (c + 1) + 1 : b[i] = u[c + 1 + i - 1]
      BY <1>3, <2>1, PartOf
    <2> HIDE DEF b, m, n
    <2> QED BY <1>3, <2>2
  <1> HIDE DEF b, d
  <1>6. /\ e \in Seq(Char) /\ Len(e) = (m - c) + n
        /\ \A i \in 1 .. (m - c) + n : e[i] = IF i <= m - c THEN d[i] ELSE t[i - (m - c)]
    <2> DEFINE k == Len(d)
    <2>1. /\ e \in Seq(Char) /\ Len(e) = k + n
          /\ \A i \in 1 .. k + n : e[i] = IF i <= k THEN d[i] ELSE t[i - k]
      BY <1>4, ConcatProperties
    <2>2. k = m - c
      BY <1>4
    <2> HIDE DEF k, e, m, n
    <2> QED BY <2>1, <2>2
  <1> HIDE DEF e, m, n
  <1>7. ASSUME NEW i \in 1 .. Len(b) PROVE b[i] = e[i]
    <2>1. i \in 1 .. m + n - c /\ i \in 1 .. (m - c) + n /\ c + i \in 1 .. m + n
      BY <1>3, <1>5
    <2>2. CASE i <= m - c
      <3>1. i \in 1 .. m - c /\ c + i <= m
        BY <1>3, <2>1, <2>2
      <3> QED BY <1>3, <1>4, <1>5, <1>6, <2>1, <2>2, <3>1
    <2>3. CASE ~(i <= m - c)
      <3>1. ~(c + i <= m) /\ (c + i) - m = i - (m - c)
        BY <1>3, <2>1, <2>3
      <3>2. b[i] = u[c + i]
        BY <1>5, <2>1
      <3>4. u[c + i] = t[(c + i) - m]
        <4> DEFINE j == c + i
        <4>1. j \in 1 .. m + n /\ ~(j <= m)
          BY <2>1, <3>1
        <4> HIDE DEF j
        <4>2. u[j] = t[j - m]
          BY <1>3, <4>1
        <4> QED BY <4>2, Zenon DEF j
      <3>3. e[i] = t[i - (m - c)]
        BY <1>6, <2>1, <2>3
      <3> QED BY <3>1, <3>2, <3>3, <3>4
    <2> QED BY <2>2, <2>3
  <1>8. b = e
    <2>1. Len(b) = Len(e)
      BY <1>3, <1>5, <1>6
    <2> QED BY <1>5, <1>6, <1>7, <2>1, SeqEqual
  <1> QED BY <1>2, <1>8 DEF b, e, u, d, m

\* A turn of extract is a chunk of the rule, for the text and all that may follow it.
LEMMA TurnIsRuled ==
  ASSUME NEW s \in Seq(Char), Unblank(s), NEW flush \in BOOLEAN, CutOf(s, flush) # 0,
         NEW t \in Seq(Char), flush => t = <<>>
  PROVE  /\ Reference(s \o t) = OutOf(s, flush) \o Reference(RestOf(s, flush) \o t)
         /\ Unblank(RestOf(s, flush))
  <1> DEFINE c == CutOf(s, flush)
             u == s \o t
             a == SubSeq(s, 1, c)
             b == SubSeq(s, c + 1, Len(s))
  <1>1. c \in 1 .. Len(s) /\ Len(s) \in Nat /\ s # <<>> /\ (~flush => Stops(s) # {})
    <2>1. c \in 0 .. Len(s) /\ (c = 0 <=> (s = <<>> \/ (~flush /\ Stops(s) = {})))
      BY TurnFits, Zenon
    <2>2. s # <<>> /\ (~flush => Stops(s) # {})
      BY <2>1, Zenon
    <2>3. c \in 0 .. Len(s) /\ c # 0 /\ Len(s) \in Nat
      BY <2>1
    <2> HIDE DEF c
    <2>4. c \in 1 .. Len(s)
      BY <2>3
    <2> QED BY <2>2, <2>3, <2>4, Zenon
  <1>2. c = FindChunkBoundary(s, flush)
    BY <1>1 DEF CutOf
  <1>3. u \in Seq(Char) /\ u # <<>>
    <2>1. u \in Seq(Char) /\ Len(u) = Len(s) + Len(t) /\ Len(t) \in Nat
      BY ConcatProperties
    <2>2. Len(u) # 0
      BY <1>1, <2>1
    <2> QED BY <2>1, <2>2
  <1> HIDE DEF c
  <1>4. RuledCut(u) = c
    <2>1. RuledCut(u) = FindChunkBoundary(u, TRUE)
      BY <1>3, CutIsRuled
    <2>2. CASE flush
      <3>1. u = s /\ flush = TRUE
        BY <2>2, TextsJoin
      <3> QED BY <1>2, <2>1, <3>1
    <2>3. CASE ~flush
      <3> DEFINE yes == TRUE
      <3>1. yes \in BOOLEAN
        OBVIOUS
      <3> HIDE DEF yes
      <3>2. FindChunkBoundary(s \o t, yes) = FindChunkBoundary(s, flush)
        BY <1>1, <2>3, <3>1, CutStays, Zenon
      <3> QED BY <1>2, <2>1, <3>2 DEF yes
    <2> QED BY <2>2, <2>3
  <1>5. SubSeq(u, 1, c) = a /\ SubSeq(u, c + 1, Len(u)) = b \o t
    BY <1>1, CutsGoOn
  <1>6. Reference(u) = <<a>> \o Reference(b \o t)
    <2>1. Reference(u) = <<SubSeq(u, 1, RuledCut(u))>> \o Reference(SubSeq(u, RuledCut(u) + 1, Len(u)))
      <3> HIDE DEF u
      <3> QED BY <1>3, ReferenceIs
    <2> HIDE DEF u, a, b
    <2> QED BY <1>4, <1>5, <2>1
  <1>7. 1 \in Nat \ {0} /\ c + 1 \in Nat \ {0} /\ c \in 0 .. Len(s) /\ Len(s) \in 0 .. Len(s) /\ 1 <= c
    BY <1>1
  <1>8. a \in Seq(Char) /\ a # <<>> /\ Unblank(a)
    <2>1. a \in Seq(Char) /\ Len(a) = IF 1 <= c THEN c - 1 + 1 ELSE 0
      BY <1>7, PartOf
    <2>2. Len(a) # 0
      BY <1>1, <2>1
    <2>3. Unblank(a)
      BY <1>7, UnblankPart
    <2> HIDE DEF a
    <2> QED BY <2>1, <2>2, <2>3
  <1>9. b \in Seq(Char) /\ Unblank(b)
    BY <1>7, PartOf, UnblankPart
  <1>10. OutOf(s, flush) = (IF Trim(a) = <<>> THEN <<>> ELSE <<Trim(a)>>) /\ RestOf(s, flush) = TrimLeft(b)
    BY DEF OutOf, ChunkOf, RestOf, c
  <1> HIDE DEF a, b, u
  <1>11. Trim(a) = a /\ TrimLeft(b) = b
    BY <1>8, <1>9, TrimUnblank
  <1>12. OutOf(s, flush) = <<a>> /\ RestOf(s, flush) = b
    BY <1>8, <1>10, <1>11
  <1>13. Reference(u) = OutOf(s, flush) \o Reference(RestOf(s, flush) \o t)
    BY <1>6, <1>12
  <1> QED BY <1>9, <1>12, <1>13 DEF u

\* Joining texts is associative, and so is joining chunks.
LEMMA CharsJoin ==
  \A a, b, c \in Seq(Char) : a \o (b \o c) = (a \o b) \o c
  BY TextsJoin
\* The same of chunks.
LEMMA ChunksJoin ==
  \A a, b, c \in Seq(Seq(Char)) : a \o (b \o c) = (a \o b) \o c
  <1> DEFINE T == Seq(Char)
  <1> HIDE DEF T
  <1>1. \A a, b, c \in Seq(T) : a \o (b \o c) = (a \o b) \o c
    BY TextsJoin
  <1> QED BY <1>1 DEF T

\* What extract returns is what the rule says, whatever follows.
Ruled(s, flush, o) ==
  /\ Unblank(o[2])
  /\ \A t \in Seq(Char) : (flush => t = <<>>) => Reference(s \o t) = o[1] \o Reference(o[2] \o t)

\* Extract returns this of every text without blank space, flushed or not.
LEMMA ExtractIsRuled ==
  ASSUME NEW flush \in BOOLEAN
  PROVE  \A s \in Seq(Char) : Unblank(s) => Ruled(s, flush, Extract(s, flush))
  <1> DEFINE P == {s \in Seq(Char) : Unblank(s) => Ruled(s, flush, Extract(s, flush))}
  <1>1. ASSUME NEW s \in Seq(Char), \A u \in Seq(Char) : Len(u) < Len(s) => u \in P
        PROVE  s \in P
    <2> SUFFICES ASSUME Unblank(s) PROVE Ruled(s, flush, Extract(s, flush))
      OBVIOUS
    <2> DEFINE out == OutOf(s, flush)
               rest == RestOf(s, flush)
               o == Extract(s, flush)
    <2>1. /\ out \in Seq(Seq(Char)) /\ rest \in Seq(Char)
          /\ CutOf(s, flush) # 0 => Len(rest) < Len(s)
      BY TurnFits
    <2>2. \A t \in Seq(Char) : Reference(t) \in Seq(Seq(Char))
      BY ReferenceIs
    <2>3. CutOf(s, flush) # 0 =>
            /\ Unblank(rest)
            /\ \A t \in Seq(Char) : (flush => t = <<>>) => Reference(s \o t) = out \o Reference(rest \o t)
      <3>1. ASSUME CutOf(s, flush) # 0, NEW t \in Seq(Char), flush => t = <<>>
            PROVE  Reference(s \o t) = out \o Reference(rest \o t)
        BY <3>1, TurnIsRuled, Zenon
      <3>2. ASSUME CutOf(s, flush) # 0 PROVE Unblank(rest)
        <4> DEFINE e == <<>>
        <4>1. e \in Seq(Char) /\ (flush => e = <<>>)
          OBVIOUS
        <4> HIDE DEF e
        <4> QED BY <3>2, <4>1, TurnIsRuled, Zenon
      <3> HIDE DEF out, rest
      <3> QED BY <3>1, <3>2, Zenon
    <2>4. CASE CutOf(s, flush) = 0
      <3>1. o = <<<<>>, s>>
        BY <2>4, ExtractIs
      <3>2. o[1] = <<>> /\ o[2] = s
        BY <3>1
      <3>3. ASSUME NEW t \in Seq(Char) PROVE Reference(s \o t) = <<>> \o Reference(s \o t)
        <4>1. s \o t \in Seq(Char)
          BY TextsJoin
        <4>2. Reference(s \o t) \in Seq(Seq(Char))
          BY <2>2, <4>1
        <4> QED BY <4>2, TextsJoin
      <3> HIDE DEF o
      <3>4. Ruled(s, flush, o)
        BY <3>2, <3>3, Zenon DEF Ruled
      <3> QED BY <3>4 DEF o
    <2>5. CASE CutOf(s, flush) # 0 /\ Waits(s, flush)
      <3>1. o = <<out, rest>>
        BY <2>5, ExtractIs
      <3>2. o[1] = out /\ o[2] = rest
        BY <3>1
      <3> HIDE DEF o, out, rest
      <3>3. Ruled(s, flush, o)
        BY <2>3, <2>5, <3>2, Zenon DEF Ruled
      <3> QED BY <3>3 DEF o
    <2>6. CASE CutOf(s, flush) # 0 /\ ~Waits(s, flush)
      <3> DEFINE m == Extract(rest, flush)
      <3>1. o = <<out \o m[1], m[2]>>
        BY <2>6, ExtractIs
      <3>2. o[1] = out \o m[1] /\ o[2] = m[2]
        BY <3>1
      <3>3. Ruled(rest, flush, m)
        BY <1>1, <2>1, <2>3, <2>6
      <3>4. m \in Outcomes
        BY <2>1, ExtractIs
      <3> HIDE DEF o, m, out, rest
      <3>5. m[1] \in Seq(Seq(Char)) /\ m[2] \in Seq(Char)
        BY <3>4, OutcomePair
      <3>6. ASSUME NEW t \in Seq(Char), flush => t = <<>>
            PROVE  Reference(s \o t) = o[1] \o Reference(o[2] \o t)
        <4> DEFINE r == Reference(m[2] \o t)
                   x == m[1]
        <4>1. Reference(s \o t) = out \o Reference(rest \o t) /\ Reference(rest \o t) = x \o r
          BY <2>3, <2>6, <3>3, <3>6 DEF Ruled
        <4>2. m[2] \o t \in Seq(Char)
          BY <3>5, TextsJoin, SMTT(30)
        <4>3. r \in Seq(Seq(Char)) /\ x \in Seq(Seq(Char))
          BY <2>2, <3>5, <4>2
        <4> HIDE DEF r, x
        <4>4. out \o (x \o r) = (out \o x) \o r
          BY <2>1, <4>3, ChunksJoin, Zenon
        <4> QED BY <3>2, <4>1, <4>4 DEF r, x
      <3>7. Ruled(s, flush, o)
        BY <3>2, <3>3, <3>6, Zenon DEF Ruled
      <3> QED BY <3>7 DEF o
    <2> QED BY <2>4, <2>5, <2>6
  <1> HIDE DEF P
  <1>2. \A s \in Seq(Char) : s \in P
    BY <1>1, ByLength
  <1> QED BY <1>2 DEF P

\* However the text without blank space goes on, the chunks that came out and the
\* chunks of what is kept are those of the rule.
SoFarRuled ==
  Unblank(text) =>
    IF flushed THEN chunks = Reference(text)
    ELSE /\ Unblank(buffer)
         /\ \A t \in Seq(Char) : Reference(text \o t) = chunks \o Reference(buffer \o t)
ChunkerInv == ChunkerTypeOK /\ TextKept /\ ChunksFit /\ NothingHeldBack /\ SoFarRuled


\* An empty chunker has nothing to keep and has spoken all there was.
LEMMA EmptySound ==
  ASSUME text = <<>>, buffer = <<>>, chunks = <<>>, flushed = FALSE
  PROVE  ChunkerInv
  <1>1. ChunkerTypeOK
    <2>1. <<>> \in Seq(Char) /\ <<>> \in Seq(Seq(Char)) /\ Len(<<>>) = 0
      OBVIOUS
    <2>2. 0 < HardLimit
      BY ChunkerAssumption
    <2> QED BY <2>1, <2>2 DEF ChunkerTypeOK
  <1>2. TextKept
    <2>1. FlattenSeq(chunks) \o buffer = text
      BY FlattenEmpty
    <2> QED BY <2>1 DEF TextKept
  <1>3. ChunksFit /\ NothingHeldBack
    BY DEF ChunksFit, NothingHeldBack
  <1>4. ASSUME NEW t \in Seq(Char) PROVE Reference(text \o t) = chunks \o Reference(buffer \o t)
    <2>1. Reference(buffer \o t) \in Seq(Seq(Char)) /\ text \o t = buffer \o t
      <3>1. <<>> \o t = t
        BY TextsJoin
      <3> QED BY <3>1, ReferenceIs
    <2> QED BY <2>1, TextsJoin
  <1>5. SoFarRuled
    BY <1>4 DEF SoFarRuled, Unblank
  <1> QED BY <1>1, <1>2, <1>3, <1>5 DEF ChunkerInv

\* What an extraction returns is added to what came out, and kept.
LEMMA ExtractedSound ==
  ASSUME ChunkerInv, NEW flush \in BOOLEAN, NEW delta \in Seq(Char), flush => delta = <<>>,
         ~flushed, text' = text \o delta, flushed' = flush, Extracted(delta, flush)
  PROVE  ChunkerInv'
  <1> DEFINE s == buffer \o delta
             o == Extract(s, flush)
             x == o[1]
             r == o[2]
  <1>1. /\ text \in Seq(Char) /\ buffer \in Seq(Char) /\ chunks \in Seq(Seq(Char))
        /\ Solid(FlattenSeq(chunks) \o buffer) = Solid(text) /\ ChunksFit
    BY DEF ChunkerInv, ChunkerTypeOK, TextKept
  <1>2. s \in Seq(Char) /\ text \o delta \in Seq(Char)
    BY <1>1, TextsJoin
  <1>3. chunks' = chunks \o x /\ buffer' = r
    BY DEF Extracted
  <1>4. Returned(s, flush, o)
    <2> HIDE DEF s
    <2> QED BY <1>2, ExtractKeeps
  <1>5. Unblank(s) => Ruled(s, flush, o)
    <2> HIDE DEF s
    <2> QED BY <1>2, ExtractIsRuled
  <1> HIDE DEF o
  <1>6. /\ x \in Seq(Seq(Char)) /\ r \in Seq(Char)
        /\ Solid(FlattenSeq(x) \o r) = Solid(s) /\ Fit(x)
        /\ Len(r) < HardLimit /\ NothingDue(r) /\ (flush => r = <<>>)
    BY <1>4, OutcomePair, Zenon DEF Returned
  <1> HIDE DEF s, x, r
  <1>7. chunks \o x \in Seq(Seq(Char))
    BY <1>1, <1>6, ConcatProperties
  <1>8. ChunkerTypeOK'
    BY <1>2, <1>3, <1>6, <1>7 DEF ChunkerTypeOK
  <1>9. TextKept'
    <2> DEFINE a == FlattenSeq(chunks)
               b == FlattenSeq(x)
    <2>1. a \in Seq(Char) /\ b \in Seq(Char) /\ FlattenSeq(chunks \o x) = a \o b
      BY <1>1, <1>6, FlattenType, FlattenBoth
    <2>2. Solid(a \o buffer) = Solid(text) /\ Solid(b \o r) = Solid(s)
      BY <1>1, <1>6
    <2> HIDE DEF a, b
    <2>3. Solid((a \o b) \o r) = Solid(a) \o Solid(s)
      <3>1. (a \o b) \o r = a \o (b \o r) /\ b \o r \in Seq(Char)
        <4>1. (a \o b) \o r = a \o (b \o r)
          BY <1>6, <2>1, CharsJoin, ZenonT(30)
        <4>2. b \o r \in Seq(Char)
          BY <1>6, <2>1, TextsJoin
        <4> QED BY <4>1, <4>2
      <3>2. Solid(a \o (b \o r)) = Solid(a) \o Solid(b \o r)
        BY <2>1, <3>1, SolidJoins
      <3> QED BY <2>2, <3>1, <3>2
    <2>4. Solid(a) \o Solid(s) = Solid(text \o delta)
      <3>1. Solid(s) = Solid(buffer) \o Solid(delta)
        BY <1>1, SolidJoins DEF s
      <3>2. Solid(text \o delta) = Solid(text) \o Solid(delta)
        BY <1>1, SolidJoins
      <3>3. Solid(a \o buffer) = Solid(a) \o Solid(buffer)
        BY <1>1, <2>1, SolidJoins
      <3>4. Solid(a) \in Seq(Char) /\ Solid(buffer) \in Seq(Char) /\ Solid(delta) \in Seq(Char)
        BY <1>1, <2>1, SolidIs
      <3>5. Solid(a) \o (Solid(buffer) \o Solid(delta)) = (Solid(a) \o Solid(buffer)) \o Solid(delta)
        <4> DEFINE d == Solid(a)
                   e == Solid(buffer)
                   g == Solid(delta)
        <4>1. d \in Seq(Char) /\ e \in Seq(Char) /\ g \in Seq(Char)
          BY <3>4
        <4> HIDE DEF d, e, g
        <4>2. d \o (e \o g) = (d \o e) \o g
          BY <4>1, CharsJoin, ZenonT(30)
        <4> QED BY <4>2 DEF d, e, g
      <3> QED BY <2>2, <3>1, <3>2, <3>3, <3>5
    <2>5. Solid(FlattenSeq(chunks') \o buffer') = Solid(text')
      BY <1>3, <2>1, <2>3, <2>4
    <2>6. flushed' => buffer' = <<>>
      BY <1>3, <1>6
    <2> QED BY <2>5, <2>6 DEF TextKept
  <1>10. ChunksFit'
    <2>1. Fit(chunks)
      BY <1>1 DEF ChunksFit, Fit, ChunkFits
    <2>2. Fit(chunks \o x)
      BY <1>1, <1>6, <2>1, FitJoins
    <2> DEFINE z == chunks \o x
    <2>3. z = chunks'
      BY <1>3
    <2> HIDE DEF z
    <2>4. \A i \in DOMAIN z : /\ z[i] # <<>> /\ Len(z[i]) <= HardLimit
                              /\ Head(z[i]) \notin Space /\ Last(z[i]) \notin Space
      BY <2>2 DEF Fit, ChunkFits, z
    <2> QED BY <2>3, <2>4 DEF ChunksFit
  <1>11. NothingHeldBack'
    BY <1>3, <1>6 DEF NothingHeldBack, NothingDue
  <1>12. SoFarRuled'
    <2> SUFFICES ASSUME Unblank(text \o delta)
                 PROVE  IF flush THEN chunks \o x = Reference(text \o delta)
                        ELSE /\ Unblank(r)
                             /\ \A t \in Seq(Char) :
                                  Reference((text \o delta) \o t) = (chunks \o x) \o Reference(r \o t)
      BY <1>3 DEF SoFarRuled
    <2>1. Unblank(text) /\ Unblank(delta)
      BY <1>1, UnblankJoins
    <2>2. /\ Unblank(buffer)
          /\ \A t \in Seq(Char) : Reference(text \o t) = chunks \o Reference(buffer \o t)
      BY <2>1 DEF ChunkerInv, SoFarRuled
    <2>3. Unblank(s)
      BY <1>1, <2>1, <2>2, UnblankJoins DEF s
    <2>4. Unblank(r) /\ \A t \in Seq(Char) : (flush => t = <<>>) => Reference(s \o t) = x \o Reference(r \o t)
      BY <1>5, <2>3 DEF Ruled, x, r
    <2>5. ASSUME NEW t \in Seq(Char), flush => t = <<>>
          PROVE  Reference((text \o delta) \o t) = (chunks \o x) \o Reference(r \o t)
      <3> DEFINE w == delta \o t
                 y == Reference(r \o t)
      <3>1. w \in Seq(Char) /\ r \o t \in Seq(Char) /\ (text \o delta) \o t = text \o w
            /\ s \o t = buffer \o w
        <4>1. w \in Seq(Char) /\ r \o t \in Seq(Char)
          BY <1>6, TextsJoin
        <4>2. (text \o delta) \o t = text \o w
          BY <1>1, CharsJoin, ZenonT(60)
        <4>3. (buffer \o delta) \o t = buffer \o w
          BY <1>1, CharsJoin, ZenonT(60)
        <4> QED BY <4>1, <4>2, <4>3, Zenon DEF s
      <3>2. y \in Seq(Seq(Char))
        BY <3>1, ReferenceIs
      <3> HIDE DEF w
      <3>3. Reference(text \o w) = chunks \o Reference(buffer \o w)
        BY <2>2, <3>1
      <3>4. Reference(buffer \o w) = x \o y
        <4>1. Reference(s \o t) = x \o Reference(r \o t)
          BY <2>4, <2>5
        <4> QED BY <3>1, <4>1
      <3> HIDE DEF y
      <3>5. chunks \o (x \o y) = (chunks \o x) \o y
        BY <1>1, <1>6, <3>2, ChunksJoin, Zenon
      <3> QED BY <3>1, <3>3, <3>4, <3>5 DEF y
    <2>6. CASE flush
      <3> DEFINE e == <<>>
      <3>1. e \in Seq(Char) /\ e = <<>>
        OBVIOUS
      <3>2. (text \o delta) \o <<>> = text \o delta /\ r = <<>> /\ r \o <<>> = <<>>
        BY <1>2, <1>6, <2>6, TextsJoin
      <3> HIDE DEF e
      <3>3. Reference((text \o delta) \o e) = (chunks \o x) \o Reference(r \o e)
        BY <2>5, <3>1
      <3>4. Reference(e) = <<>>
        BY <3>1, ReferenceIs
      <3>5. (chunks \o x) \o <<>> = chunks \o x
        BY <1>7, TextsJoin
      <3> QED BY <2>6, <3>1, <3>2, <3>3, <3>4, <3>5
    <2>7. CASE ~flush
      BY <2>4, <2>5, <2>7
    <2> QED BY <2>6, <2>7
  <1> QED BY <1>8, <1>9, <1>10, <1>11, <1>12 DEF ChunkerInv

\* Every step keeps the invariant.
LEMMA ChunkerInvKept ==
  ASSUME ChunkerInv, [ChunkerNext]_chunkerVars PROVE ChunkerInv'
  <1>1. CASE Flush
    <2> DEFINE e == <<>>
               yes == TRUE
    <2>1. e \in Seq(Char) /\ e = <<>> /\ yes \in BOOLEAN /\ yes
      OBVIOUS
    <2>2. text \in Seq(Char)
      BY DEF ChunkerInv, ChunkerTypeOK
    <2>3. ~flushed /\ text' = text \o e /\ flushed' = yes /\ Extracted(e, yes)
      BY <1>1, <2>2, TextsJoin DEF Flush
    <2> HIDE DEF e, yes
    <2> QED BY <2>1, <2>3, ExtractedSound
  <1>2. CASE Reset
    <2>1. /\ text' = <<>> /\ buffer' = <<>> /\ chunks' = <<>> /\ flushed' = FALSE
      BY <1>2 DEF Reset, ChunkerInv, ChunkerTypeOK
    <2>2. (text = <<>> /\ buffer = <<>> /\ chunks = <<>> /\ flushed = FALSE)'
      BY <2>1
    <2> QED BY <2>2, EmptySound, PTL
  <1>3. ASSUME NEW n \in 1..MaxDelta, NEW delta \in [1..n -> Char], Push(delta) PROVE ChunkerInv'
    <2> DEFINE no == FALSE
    <2>1. delta \in Seq(Char) /\ no \in BOOLEAN /\ ~no
      OBVIOUS
    <2>2. flushed = FALSE
      BY <1>3 DEF Push, ChunkerInv, ChunkerTypeOK
    <2>3. text' = text \o delta /\ flushed' = no /\ Extracted(delta, no) /\ ~flushed
      BY <1>3, <2>2 DEF Push
    <2> HIDE DEF no
    <2> QED BY <2>1, <2>3, ExtractedSound
  <1>4. CASE UNCHANGED chunkerVars
    BY <1>4 DEF chunkerVars, ChunkerInv, ChunkerTypeOK, TextKept, ChunksFit, NothingHeldBack, SoFarRuled
  <1> QED BY <1>1, <1>2, <1>3, <1>4 DEF ChunkerNext

\* The invariant is more than the property.
LEMMA ChunkerInvRuled == ASSUME ChunkerInv PROVE SpokenAsRuled
  <1>1. DeltasDoNotMatter
    BY DEF ChunkerInv, SoFarRuled, DeltasDoNotMatter, Unblank
  <1> QED BY <1>1 DEF ChunkerInv, SpokenAsRuled

\* For every soft and hard limit NewChunker can end up with, and every text in every
\* sequence of deltas: nothing but blank space is lost, no chunk is blank, padded or
\* longer than the hard limit, nothing due is held back, and what is spoken of a text
\* without blank space is what the rule says of the whole text, whatever the deltas
\* (Chunker.Push, Flush and Reset).
THEOREM AlwaysSpokenAsRuled == ChunkerSpec => []SpokenAsRuled
  <1>1. ChunkerInit => ChunkerInv
    BY EmptySound DEF ChunkerInit
  <1>2. ChunkerInv /\ [ChunkerNext]_chunkerVars => ChunkerInv'
    BY ChunkerInvKept
  <1>3. ChunkerInv => SpokenAsRuled
    BY ChunkerInvRuled
  <1> QED BY <1>1, <1>2, <1>3, PTL DEF ChunkerSpec

-----------------------------------------------------------------------------
(* The chunker makes the choice the pipeline's model leaves open.          *)

\* The chunks, and the rest, without their blank space.
SolidEach(x) == [i \in DOMAIN x |-> Solid(x[i])]
ChunkerCut(s, flush) == Cut(SolidEach(Extract(s, flush)[1]), Solid(Extract(s, flush)[2]))

\* As many chunks, of one more the last.
LEMMA SolidEachIs ==
  /\ SolidEach(<<>>) = <<>>
  /\ \A x \in Seq(Seq(Char)) :
        /\ SolidEach(x) \in Seq(Seq(Char))
        /\ \A c \in Seq(Char) : SolidEach(Append(x, c)) = Append(SolidEach(x), Solid(c))
  <1> DEFINE T == Seq(Char)
  <1>0. \A s \in T : Solid(s) \in T
    BY SolidIs
  <1> HIDE DEF T
  <1>1. SolidEach(<<>>) = <<>>
    BY DEF SolidEach
  <1>2. ASSUME NEW x \in Seq(T) PROVE SolidEach(x) \in Seq(T)
    <2> DEFINE n == Len(x)
    <2>1. n \in Nat /\ DOMAIN x = 1 .. n /\ \A i \in 1 .. n : x[i] \in T
      OBVIOUS
    <2> HIDE DEF n
    <2>2. SolidEach(x) \in [1 .. n -> T]
      BY <1>0, <2>1 DEF SolidEach
    <2> QED BY <2>1, <2>2
  <1>3. ASSUME NEW x \in Seq(T), NEW c \in T
        PROVE  SolidEach(Append(x, c)) = Append(SolidEach(x), Solid(c))
    <2> DEFINE n == Len(x)
               y == Append(x, c)
               u == SolidEach(y)
               d == Solid(c)
               e == SolidEach(x)
               v == Append(e, d)
    <2>1. /\ n \in Nat /\ DOMAIN x = 1 .. n /\ y \in Seq(T) /\ Len(y) = n + 1
          /\ DOMAIN y = 1 .. n + 1 /\ (\A i \in 1 .. n : y[i] = x[i]) /\ y[n + 1] = c
      BY AppendProperties
    <2>2. e \in Seq(T) /\ u \in Seq(T) /\ d \in T
      BY <1>0, <1>2, <2>1
    <2> HIDE DEF n, y
    <2>3. /\ DOMAIN e = 1 .. n /\ DOMAIN u = 1 .. n + 1
          /\ (\A i \in 1 .. n : e[i] = Solid(x[i])) /\ \A i \in 1 .. n + 1 : u[i] = Solid(y[i])
      BY <2>1 DEF SolidEach
    <2> HIDE DEF d, e, u
    <2>4. Len(e) = n /\ Len(u) = n + 1
      BY <2>1, <2>2, <2>3, LenProperties
    <2>5. /\ v \in Seq(T) /\ Len(v) = n + 1 /\ (\A i \in 1 .. n : v[i] = e[i]) /\ v[n + 1] = d
      BY <2>2, <2>4, AppendProperties
    <2> HIDE DEF v
    <2>6. ASSUME NEW i \in 1 .. n + 1 PROVE u[i] = v[i]
      <3>1. CASE i = n + 1
        <4>1. u[i] = Solid(c)
          BY <2>1, <2>3, <3>1
        <4> QED BY <2>5, <3>1, <4>1 DEF d
      <3>2. CASE i # n + 1
        <4>1. i \in 1 .. n
          BY <2>1, <3>2
        <4> QED BY <2>1, <2>3, <2>5, <4>1
      <3> QED BY <3>1, <3>2
    <2>7. u = v
      BY <2>2, <2>4, <2>5, <2>6, SeqEqual
    <2> QED BY <2>7 DEF u, v, d, e, y
  <1> QED BY <1>1, <1>2, <1>3, Zenon DEF T

\* Taking the blank space out of what is joined is joining what it is taken out of.
LEMMA SolidFlattens ==
  \A x \in Seq(Seq(Char)) : Solid(FlattenSeq(x)) = FlattenSeq(SolidEach(x))
  <1> DEFINE T == Seq(Char)
             P == {x \in Seq(T) : Solid(FlattenSeq(x)) = FlattenSeq(SolidEach(x))}
  <1> HIDE DEF T
  <1>1. ASSUME NEW x \in Seq(T), \A u \in Seq(T) : Len(u) < Len(x) => u \in P
        PROVE  x \in P
    <2>1. CASE x = <<>>
      BY <2>1, SolidEachIs, SolidEmpty, FlattenEmpty, Zenon
    <2>2. CASE x # <<>>
      <3>1. PICK b \in Seq(T), c \in T : x = Append(b, c) /\ Len(b) < Len(x)
        BY <2>2, TakeLast
      <3>2. Solid(FlattenSeq(b)) = FlattenSeq(SolidEach(b))
        BY <1>1, <3>1, Zenon
      <3>3. FlattenSeq(x) = FlattenSeq(b) \o c /\ FlattenSeq(b) \in T
        BY <3>1, FlattenAppend, FlattenType, Zenon DEF T
      <3>4. SolidEach(x) = Append(SolidEach(b), Solid(c)) /\ SolidEach(b) \in Seq(T) /\ Solid(c) \in T
        BY <3>1, SolidEachIs, SolidIs, Zenon DEF T
      <3>5. FlattenSeq(SolidEach(x)) = FlattenSeq(SolidEach(b)) \o Solid(c)
        BY <3>4, FlattenAppend, Zenon DEF T
      <3>6. Solid(FlattenSeq(b) \o c) = Solid(FlattenSeq(b)) \o Solid(c)
        BY <3>1, <3>3, SolidJoins, Zenon DEF T
      <3> QED BY <3>2, <3>3, <3>5, <3>6, Zenon
    <2> QED BY <2>1, <2>2
  <1> HIDE DEF P
  <1>2. \A x \in Seq(T) : x \in P
    BY <1>1, ByLength, Zenon
  <1> QED BY <1>2, Zenon DEF P, T

\* A chunk the synthesiser takes is not blank.
LEMMA FitIsSolid ==
  ASSUME NEW c \in Seq(Char), ChunkFits(c)
  PROVE  Solid(c) # <<>>
  <1>1. c # <<>> /\ Last(c) \notin Space
    BY DEF ChunkFits
  <1>2. Solid(c) = Append(Solid(Front(c)), Last(c))
    BY <1>1, SolidIs
  <1>3. Solid(Front(c)) \in Seq(Char) /\ Last(c) \in Char
    <2>1. PICK b \in Seq(Char), d \in Char : c = Append(b, d) /\ b = Front(c) /\ d = Last(c)
      BY <1>1, TakeLast
    <2> QED BY <2>1, SolidIs
  <1> DEFINE s == Solid(Front(c))
             d == Last(c)
  <1> HIDE DEF s, d
  <1>4. Len(Append(s, d)) = Len(s) + 1 /\ Len(s) \in Nat
    BY <1>3, AppendProperties DEF s, d
  <1>5. Append(s, d) # <<>>
    BY <1>4
  <1> QED BY <1>2, <1>5 DEF s, d

\* Where the chunker cuts a text (Chunker.Push and Chunker.Flush) is one of the choices
\* the pipeline's model makes: with a unit for each character that is not blank, its
\* chunks and what it keeps are a cut of the text, and a flush leaves nothing.
THEOREM ChunkerCuts ==
  \A s \in Seq(Char) :
     ChunkerCut(s, FALSE) \in Cuts(Solid(s)) /\ ChunkerCut(s, TRUE) \in Flushes(Solid(s))
  <1>1. ASSUME NEW s \in Seq(Char), NEW flush \in BOOLEAN
        PROVE  /\ ChunkerCut(s, flush) \in Cuts(Solid(s))
               /\ flush => ChunkerCut(s, flush).rest = <<>>
    <2> DEFINE o == Extract(s, flush)
               x == o[1]
               r == o[2]
               y == SolidEach(x)
               t == Solid(r)
    <2>1. Returned(s, flush, o)
      BY ExtractKeeps
    <2> HIDE DEF o
    <2>2. /\ x \in Seq(Seq(Char)) /\ r \in Seq(Char) /\ Fit(x)
          /\ Solid(FlattenSeq(x) \o r) = Solid(s) /\ (flush => r = <<>>)
      BY <2>1, OutcomePair, Zenon DEF Returned
    <2> HIDE DEF x, r
    <2>3. y \in Seq(Seq(Char)) /\ t \in Seq(Char) /\ FlattenSeq(x) \in Seq(Char)
      BY <2>2, SolidEachIs, SolidIs, FlattenType, Zenon
    <2>4. FlattenSeq(y) \o t = Solid(s)
      <3>1. Solid(FlattenSeq(x) \o r) = Solid(FlattenSeq(x)) \o t
        BY <2>2, <2>3, SolidJoins, Zenon
      <3>2. Solid(FlattenSeq(x)) = FlattenSeq(y)
        BY <2>2, SolidFlattens, Zenon
      <3> QED BY <2>2, <3>1, <3>2, Zenon
    <2>5. \A i \in DOMAIN y : y[i] # <<>>
      <3> SUFFICES ASSUME NEW i \in DOMAIN y PROVE y[i] # <<>>
        OBVIOUS
      <3>1. i \in DOMAIN x /\ y[i] = Solid(x[i])
        BY DEF SolidEach
      <3>2. x[i] \in Seq(Char)
        <4> DEFINE T == Seq(Char)
        <4> HIDE DEF T
        <4>1. x \in Seq(T)
          BY <2>2 DEF T
        <4>2. x[i] \in T
          BY <3>1, <4>1
        <4> QED BY <4>2 DEF T
      <3>3. ChunkFits(x[i])
        BY <2>2, <3>1, Zenon DEF Fit
      <3> QED BY <3>1, <3>2, <3>3, FitIsSolid, Zenon
    <2> HIDE DEF y, t
    <2>6. Cut(y, t) \in Cuts(FlattenSeq(y) \o t)
      BY <2>3, <2>5, CutsAll, Zenon
    <2>7. ChunkerCut(s, flush) = Cut(y, t)
      BY Zenon DEF ChunkerCut, y, t, x, r, o
    <2>8. Cut(y, t).rest = t
      BY DEF Cut
    <2>9. flush => t = <<>>
      BY <2>2, SolidEmpty, Zenon DEF t
    <2> QED BY <2>4, <2>6, <2>7, <2>8, <2>9, Zenon
  <1> DEFINE yes == TRUE
             no == FALSE
  <1>2. yes \in BOOLEAN /\ no \in BOOLEAN /\ yes
    OBVIOUS
  <1>3. \A s \in Seq(Char) :
           ChunkerCut(s, no) \in Cuts(Solid(s)) /\ ChunkerCut(s, yes) \in Flushes(Solid(s))
    <2> HIDE DEF yes, no
    <2> QED BY <1>1, <1>2, Zenon DEF Flushes
  <1> QED BY <1>3
=============================================================================
