------------------------- MODULE ConversationProofs -------------------------
(***************************************************************************)
(* The store of a conversation, for all limits Validate accepts and any    *)
(* number of turns.                                                        *)
(***************************************************************************)
EXTENDS Conversation, WellFoundedInduction, TLAPS

-----------------------------------------------------------------------------
(* Least and greatest numbers, and induction over a bounded range.         *)

\* A set of numbers that has a member has a least one, which Min picks.
LEMMA MinIsLeast ==
  ASSUME NEW S \in SUBSET Nat, S # {}
  PROVE  Min(S) \in S /\ \A x \in S : Min(S) <= x
  <1> DEFINE R == {p \in Nat \X Nat : p[1] < p[2]}
  <1>1. IsWellFoundedOn(R, Nat)
    BY NatLessThanWellFounded, Zenon DEF OpToRel
  <1>2. PICK x \in S : \A y \in S : <<y, x>> \notin R
    <2> HIDE DEF R
    <2>1. S \subseteq Nat
      OBVIOUS
    <2> QED BY <1>1, <2>1, WFMin, Zenon
  <1>3. ASSUME NEW y \in S, y < x PROVE FALSE
    <2>1. <<y, x>> \in Nat \X Nat /\ <<y, x>>[1] < <<y, x>>[2]
      BY <1>3
    <2>2. <<y, x>> \in R
      BY <2>1, Zenon
    <2> QED BY <1>2, <2>2
  <1>4. \A y \in S : x <= y
    BY <1>3
  <1> QED BY <1>4 DEF Min

\* A bounded set of numbers that has a member has a greatest one, which Max picks.
LEMMA MaxIsGreatest ==
  ASSUME NEW S \in SUBSET Nat, S # {}, NEW b \in Nat, \A x \in S : x <= b
  PROVE  Max(S) \in S /\ \A x \in S : x <= Max(S)
  <1> DEFINE T == {b - x : x \in S}
  <1>1. T \in SUBSET Nat /\ T # {}
    <2>1. \A x \in S : b - x \in Nat
      OBVIOUS
    <2> QED BY <2>1
  <1>2. PICK t \in T : \A u \in T : t <= u
    BY <1>1, MinIsLeast
  <1>3. PICK x \in S : t = b - x
    BY <1>2
  <1>4. \A y \in S : b - x <= b - y
    BY <1>2, <1>3
  <1>5. \A y \in S : y <= x
    BY <1>4
  <1> QED BY <1>5 DEF Max

\* What holds at the start and passes on to the next holds up to n.
LEMMA UpTo ==
  ASSUME NEW n \in Nat, NEW H,
         0 \in H, \A k \in 0 .. n : k < n /\ k \in H => k + 1 \in H
  PROVE  \A k \in 0 .. n : k \in H
  <1> DEFINE T == {k \in 0 .. n : k \notin H}
  <1> SUFFICES ASSUME T # {} PROVE FALSE
    OBVIOUS
  <1>1. T \in SUBSET Nat
    OBVIOUS
  <1>2. PICK k \in T : \A u \in T : k <= u
    BY <1>1, MinIsLeast
  <1>3. k # 0 /\ k \in Nat
    BY <1>2
  <1>4. k - 1 \in H /\ k - 1 \in 0 .. n /\ k - 1 < n
    BY <1>2, <1>3
  <1>5. k - 1 + 1 \in H
    BY <1>4
  <1> QED BY <1>2, <1>3, <1>5

-----------------------------------------------------------------------------
(* Sums.                                                                   *)

\* s are the partial sums of the first n numbers of v.
Adds(v, n, s) ==
  /\ s \in [0 .. n -> Nat] /\ s[0] = 0
  /\ \A k \in 0 .. n : k < n => s[k + 1] = s[k] + v[k + 1]

Numbers(v, n) == \A k \in 1 .. n : v[k] \in Nat

\* There are partial sums...
LEMMA SumsExist ==
  ASSUME NEW n \in Nat, NEW v, Numbers(v, n)
  PROVE  \E s : Adds(v, n, s)
  <1> DEFINE H == {m \in 0 .. n : \E s : Adds(v, m, s)}
  <1>1. 0 \in H
    <2>1. Adds(v, 0, [k \in 0 .. 0 |-> 0])
      BY DEF Adds
    <2> QED BY <2>1
  <1>2. ASSUME NEW m \in 0 .. n, m < n, m \in H PROVE m + 1 \in H
    <2>1. PICK s : Adds(v, m, s)
      BY <1>2
    <2> DEFINE t == [k \in 0 .. m + 1 |-> IF k = m + 1 THEN s[m] + v[m + 1] ELSE s[k]]
    <2>2. v[m + 1] \in Nat /\ s[m] \in Nat
      BY <1>2, <2>1 DEF Adds, Numbers
    <2>3. t \in [0 .. m + 1 -> Nat] /\ t[0] = 0
      <3>1. \A k \in 0 .. m + 1 : k # m + 1 => k \in 0 .. m
        OBVIOUS
      <3>2. s \in [0 .. m -> Nat] /\ s[0] = 0
        BY <2>1 DEF Adds
      <3> QED BY <2>2, <3>1, <3>2
    <2>4. ASSUME NEW k \in 0 .. m + 1, k < m + 1 PROVE t[k + 1] = t[k] + v[k + 1]
      <3>1. k \in 0 .. m /\ k + 1 \in 0 .. m + 1 /\ t[k] = s[k]
        BY <2>4
      <3>2. CASE k = m
        BY <3>1, <3>2
      <3>3. CASE k < m
        <4>1. t[k + 1] = s[k + 1]
          BY <3>1, <3>3
        <4> QED BY <2>1, <3>1, <3>3, <4>1 DEF Adds
      <3> QED BY <3>1, <3>2, <3>3
    <2>5. Adds(v, m + 1, t)
      BY <2>3, <2>4 DEF Adds
    <2>6. m + 1 \in 0 .. n
      BY <1>2
    <2> QED BY <2>5, <2>6
  <1>3. n \in H
    <2> HIDE DEF H
    <2> QED BY <1>1, <1>2, UpTo
  <1> QED BY <1>3

\* ...and no others; they depend on the first n numbers only.
LEMMA SumsUnique ==
  ASSUME NEW n \in Nat, NEW v, NEW w, NEW s, NEW t, NEW m \in Nat, m <= n,
         Numbers(v, n), \A k \in 1 .. m : w[k] = v[k],
         Adds(v, n, s), Adds(w, m, t)
  PROVE  \A k \in 0 .. m : s[k] = t[k]
  <1> DEFINE H == {k \in 0 .. m : s[k] = t[k]}
  <1>1. 0 \in H
    BY DEF Adds
  <1>2. ASSUME NEW k \in 0 .. m, k < m, k \in H PROVE k + 1 \in H
    <2>1. k + 1 \in 1 .. m /\ k + 1 \in 0 .. m /\ k \in 0 .. n /\ k < n
      BY <1>2
    <2>2. s[k + 1] = s[k] + v[k + 1]
      BY <2>1 DEF Adds
    <2>3. t[k + 1] = t[k] + w[k + 1]
      BY <1>2 DEF Adds
    <2>4. s[k] = t[k] /\ w[k + 1] = v[k + 1]
      BY <1>2, <2>1
    <2> QED BY <2>1, <2>2, <2>3, <2>4
  <1>3. \A k \in 0 .. m : k \in H
    <2> HIDE DEF H
    <2> QED BY <1>1, <1>2, UpTo
  <1> QED BY <1>3

\* Total is the last of the partial sums.
LEMMA TotalIsSum ==
  ASSUME NEW n \in Nat, NEW v, Numbers(v, n)
  PROVE  \E s : Adds(v, n, s) /\ Total(v, n) = s[n]
  <1> DEFINE Rec(s) == s = [k \in 0 .. n |-> IF k = 0 THEN 0 ELSE s[k - 1] + v[k]]
             sum == CHOOSE s : Rec(s)
  <1>1. PICK s : Adds(v, n, s)
    BY SumsExist
  <1>2. Rec(s)
    <2>1. ASSUME NEW k \in 0 .. n PROVE s[k] = IF k = 0 THEN 0 ELSE s[k - 1] + v[k]
      <3>1. CASE k = 0
        BY <1>1, <3>1 DEF Adds
      <3>2. CASE k # 0
        <4>1. k - 1 \in 0 .. n /\ k - 1 < n /\ k - 1 + 1 = k
          BY <3>2
        <4>2. s[k - 1 + 1] = s[k - 1] + v[k - 1 + 1]
          BY <1>1, <4>1 DEF Adds
        <4> QED BY <3>2, <4>1, <4>2
      <3> QED BY <3>1, <3>2
    <2> QED BY <1>1, <2>1 DEF Adds
  <1>3. Rec(sum)
    <2> HIDE DEF Rec
    <2> QED BY <1>2
  <1>4. \A k \in 0 .. n : sum[k] = IF k = 0 THEN 0 ELSE sum[k - 1] + v[k]
    <2> HIDE DEF sum
    <2> QED BY <1>3
  <1>5. Total(v, n) = sum[n]
    BY DEF Total
  <1> HIDE DEF sum, Rec
  <1> DEFINE H == {k \in 0 .. n : sum[k] \in Nat}
  <1>6. \A k \in 0 .. n : k \in H
    <2>1. 0 \in H
      BY <1>4
    <2>2. ASSUME NEW k \in 0 .. n, k < n, k \in H PROVE k + 1 \in H
      <3>1. k + 1 \in 0 .. n /\ k + 1 \in 1 .. n /\ k + 1 - 1 = k /\ k + 1 # 0
        BY <2>2
      <3>2. sum[k + 1] = sum[k] + v[k + 1]
        BY <1>4, <3>1
      <3>3. v[k + 1] \in Nat
        BY <3>1 DEF Numbers
      <3> QED BY <2>2, <3>1, <3>2, <3>3
    <2> HIDE DEF H
    <2> QED BY <2>1, <2>2, UpTo
  <1>7. sum = [k \in 0 .. n |-> IF k = 0 THEN 0 ELSE sum[k - 1] + v[k]]
    BY <1>3 DEF Rec
  <1>8. sum \in [0 .. n -> Nat]
    BY <1>6, <1>7
  <1>9. Adds(v, n, sum)
    <2>1. sum[0] = 0
      BY <1>4
    <2>2. ASSUME NEW k \in 0 .. n, k < n PROVE sum[k + 1] = sum[k] + v[k + 1]
      <3>1. k + 1 \in 0 .. n /\ k + 1 # 0 /\ k + 1 - 1 = k
        BY <2>2
      <3> QED BY <1>4, <3>1
    <2> QED BY <1>8, <2>1, <2>2 DEF Adds
  <1> QED BY <1>5, <1>9

\* A total is a number, and depends only on the numbers it adds.
LEMMA TotalNat ==
  ASSUME NEW n \in Nat, NEW v, Numbers(v, n) PROVE Total(v, n) \in Nat
  BY TotalIsSum DEF Adds

\* Numbers that are not added may differ.
LEMMA TotalSame ==
  ASSUME NEW n \in Nat, NEW v, NEW w, Numbers(v, n), \A k \in 1 .. n : w[k] = v[k]
  PROVE  Total(w, n) = Total(v, n)
  <1>1. Numbers(w, n)
    BY DEF Numbers
  <1>2. PICK s : Adds(v, n, s) /\ Total(v, n) = s[n]
    BY TotalIsSum
  <1>3. PICK t : Adds(w, n, t) /\ Total(w, n) = t[n]
    BY <1>1, TotalIsSum
  <1>4. \A k \in 0 .. n : s[k] = t[k]
    BY <1>2, <1>3, SumsUnique
  <1> QED BY <1>2, <1>3, <1>4

\* The sum of none is nothing, and one number more adds that number.
LEMMA TotalNone == ASSUME NEW v PROVE Total(v, 0) = 0
  <1>1. Numbers(v, 0)
    BY DEF Numbers
  <1> QED BY <1>1, TotalIsSum DEF Adds

\* One number more adds that number.
LEMMA TotalNext ==
  ASSUME NEW n \in Nat, NEW v, Numbers(v, n + 1)
  PROVE  Total(v, n + 1) = Total(v, n) + v[n + 1]
  <1>1. Numbers(v, n)
    BY DEF Numbers
  <1>2. PICK s : Adds(v, n + 1, s) /\ Total(v, n + 1) = s[n + 1]
    BY TotalIsSum
  <1>3. PICK t : Adds(v, n, t) /\ Total(v, n) = t[n]
    BY <1>1, TotalIsSum
  <1>4. \A k \in 0 .. n : s[k] = t[k]
    BY <1>2, <1>3, SumsUnique
  <1>5. s[n + 1] = s[n] + v[n + 1]
    <2>1. n \in 0 .. n + 1 /\ n < n + 1
      OBVIOUS
    <2> QED BY <1>2, <2>1 DEF Adds
  <1> QED BY <1>2, <1>3, <1>4, <1>5

\* More and larger numbers have a larger sum.
LEMMA TotalMonotone ==
  ASSUME NEW n \in Nat, NEW m \in Nat, m <= n, NEW v, NEW w, Numbers(w, n), Numbers(v, m),
         \A k \in 1 .. m : v[k] <= w[k]
  PROVE  Total(v, m) <= Total(w, n)
  <1>1. PICK s : Adds(v, m, s) /\ Total(v, m) = s[m]
    BY TotalIsSum
  <1>2. PICK t : Adds(w, n, t) /\ Total(w, n) = t[n]
    BY TotalIsSum
  <1> DEFINE H == {k \in 0 .. n : IF k <= m THEN s[k] <= t[k] ELSE s[m] <= t[k]}
  <1>3. 0 \in H
    BY <1>1, <1>2 DEF Adds
  <1>4. ASSUME NEW k \in 0 .. n, k < n, k \in H PROVE k + 1 \in H
    <2>1. k + 1 \in 0 .. n /\ k + 1 \in 1 .. n /\ k + 1 - 1 = k
      BY <1>4
    <2>2. t[k + 1] = t[k] + w[k + 1] /\ t[k] \in Nat /\ w[k + 1] \in Nat
      BY <1>2, <1>4, <2>1 DEF Adds, Numbers
    <2>3. CASE k + 1 <= m
      <3>1. k + 1 \in 1 .. m
        BY <2>1, <2>3
      <3>2. s[k + 1] = s[k] + v[k + 1] /\ s[k] \in Nat /\ v[k + 1] \in Nat
        BY <1>1, <2>1, <2>3, <3>1 DEF Adds, Numbers
      <3>3. s[k] <= t[k] /\ v[k + 1] <= w[k + 1]
        BY <1>4, <2>3, <3>1
      <3> QED BY <2>1, <2>2, <2>3, <3>2, <3>3
    <2>4. CASE ~(k + 1 <= m)
      <3>1. s[m] <= t[k] /\ s[m] \in Nat
        BY <1>1, <1>4, <2>4 DEF Adds
      <3> QED BY <2>1, <2>2, <2>4, <3>1
    <2> QED BY <2>3, <2>4
  <1>5. \A k \in 0 .. n : k \in H
    <2> HIDE DEF H
    <2> QED BY <1>3, <1>4, UpTo
  <1>6. n \in H
    BY <1>5
  <1>7. n <= m => m = n
    OBVIOUS
  <1> QED BY <1>1, <1>2, <1>6, <1>7

-----------------------------------------------------------------------------
(* The store.                                                              *)

USE DEF Gens, Bytes

\* What the limits say of an item's length: words are not spoken in chunks, and of
\* an answer no more is sent than was generated, nor spoken than was sent.
Sized(p) ==
  /\ p.content \in Bytes
  /\ p.role = "user" => p.sentText = 0 /\ p.chunks = <<>>
  /\ p.role = "assistant" => p.sentText <= p.content /\ ChunkBytes(p) <= p.sentText

\* Two items, of which the second is the later, may stand in one store.
Follow(p, q) ==
  /\ p.turn <= q.turn
  /\ p.turn = q.turn => p.role = "user" /\ q.role = "assistant"
  /\ p.role = "assistant" /\ q.role = "assistant" => p.gen # q.gen

\* The prompt, and exchanges in the order of their turns: the words, then the answer.
Prompted(its) ==
  /\ its[1].role = "system" /\ its[1].turn = 0 /\ its[1].status = "committed"
  /\ its[1].content = PromptBytes /\ its[1].sentText = 0 /\ its[1].chunks = <<>>
Spoken(p) ==
  /\ p.role \in {"user", "assistant"} /\ p.turn # 0 /\ Sized(p)
  /\ p.role = "user" => p.status = "committed"
  /\ p.role = "assistant" => p.gen # 0
Ordered(its) == \A i, j \in 2 .. Len(its) : i < j => Follow(its[i], its[j])
Well(its) ==
  /\ its \in Seq(ItemRecord) /\ Len(its) >= 1
  /\ Prompted(its)
  /\ \A i \in 2 .. Len(its) : Spoken(its[i])
  /\ Ordered(its)

\* What the limits say, one by one.
LEMMA Limits ==
  /\ PromptBytes \in Nat /\ MaxItemBytes \in Nat /\ MaxItemBytes >= 1
  /\ MaxItems \in Nat /\ MaxItems >= 3 /\ MaxBytes \in Nat
  /\ MaxBytes >= 4 * MaxItemBytes + PromptBytes
  /\ MaxContextItems \in Nat /\ MaxContextItems >= 2
  /\ MaxContextBytes \in Nat /\ MaxContextBytes >= PromptBytes + MaxItemBytes
  /\ MaxTurns \in Nat /\ MaxChunks \in Nat /\ ChunkFrames \in Nat
  BY ConfigAssumption

\* The fields of an item, by their types.
LEMMA ItemTyped ==
  ASSUME NEW p \in ItemRecord
  PROVE  /\ p.turn \in Nat /\ p.gen \in Nat /\ p.sentText \in Nat /\ p.content \in Nat
         /\ p.chunks \in Seq(ChunkRecord) /\ p.generated \in Nat /\ p.sent \in Nat
         /\ p.played \in Nat /\ p.status \in Statuses
  BY Limits DEF ItemRecord

\* The chunks of an item have a size.
LEMMA ChunksNumbers ==
  ASSUME NEW c \in Seq(ChunkRecord)
  PROVE  Numbers(BytesOf(c), Len(c)) /\ Total(BytesOf(c), Len(c)) \in Nat
  <1>1. \A k \in 1 .. Len(c) : c[k].bytes \in Nat
    <2>1. \A k \in 1 .. Len(c) : c[k] \in ChunkRecord
      OBVIOUS
    <2>2. \A x \in ChunkRecord : x.bytes \in Nat
      BY Limits DEF ChunkRecord
    <2> QED BY <2>1, <2>2
  <1>2. Numbers(BytesOf(c), Len(c))
    BY <1>1 DEF Numbers, BytesOf
  <1> QED BY <1>2, TotalNat

\* So has the item.
LEMMA ItemBytesNat ==
  ASSUME NEW p \in ItemRecord
  PROVE  ItemBytes(p) \in Nat /\ ChunkBytes(p) \in Nat
  <1>1. ChunkBytes(p) \in Nat
    BY ItemTyped, ChunksNumbers DEF ChunkBytes
  <1>2. p.sentText \in Nat /\ p.content \in Nat
    BY ItemTyped
  <1> QED BY <1>1, <1>2 DEF ItemBytes

\* Words take at most the length of an item, an answer at most three times that.
LEMMA ItemBytesBound ==
  ASSUME NEW p \in ItemRecord, Sized(p), p.role \in {"user", "assistant"}
  PROVE  /\ ItemBytes(p) <= 3 * MaxItemBytes
         /\ p.role = "user" => ItemBytes(p) <= MaxItemBytes
  <1>1. ChunkBytes(p) \in Nat /\ p.sentText \in Nat /\ p.content \in Nat
    BY ItemBytesNat, ItemTyped
  <1>2. p.content <= MaxItemBytes /\ MaxItemBytes \in Nat
    BY Limits DEF Sized
  <1>3. CASE p.role = "user"
    <2>1. ChunkBytes(p) = 0
      BY <1>3, TotalNone DEF Sized, ChunkBytes
    <2>2. p.sentText = 0
      BY <1>3 DEF Sized
    <2> QED BY <1>1, <1>2, <2>1, <2>2 DEF ItemBytes
  <1>4. CASE p.role = "assistant"
    <2>1. p.sentText <= p.content /\ ChunkBytes(p) <= p.sentText
      BY <1>4 DEF Sized
    <2> QED BY <1>1, <1>2, <1>4, <2>1 DEF ItemBytes
  <1> QED BY <1>3, <1>4

\* What a cut leaves: the prompt and the items behind the cut.
LEMMA AfterIs ==
  ASSUME NEW its, its \in Seq(ItemRecord), NEW n \in 1 .. Len(its)
  PROVE  /\ After(its, n) \in Seq(ItemRecord)
         /\ Len(After(its, n)) = Len(its) - n + 1
         /\ After(its, n)[1] = its[1]
         /\ \A k \in 2 .. Len(its) - n + 1 : After(its, n)[k] = its[n + k - 1]
  <1> DEFINE rest == SubSeq(its, n + 1, Len(its))
  <1>1. /\ rest \in Seq(ItemRecord) /\ Len(rest) = Len(its) - n
        /\ \A k \in 1 .. Len(its) - n : rest[k] = its[n + k]
    OBVIOUS
  <1>2. its[1] \in ItemRecord /\ Len(its) \in Nat
    OBVIOUS
  <1> HIDE DEF rest
  <1>3. /\ <<its[1]>> \o rest \in Seq(ItemRecord)
        /\ Len(<<its[1]>> \o rest) = 1 + Len(rest)
        /\ (<<its[1]>> \o rest)[1] = its[1]
    BY <1>1, <1>2
  <1>4. ASSUME NEW k \in 2 .. Len(its) - n + 1
        PROVE  (<<its[1]>> \o rest)[k] = its[n + k - 1]
    <2>1. k - 1 \in 1 .. Len(its) - n /\ n + (k - 1) = n + k - 1 /\ k \in 1 .. 1 + Len(rest)
      BY <1>1, <1>2
    <2>2. (<<its[1]>> \o rest)[k] = rest[k - 1]
      BY <1>1, <1>2, <2>1
    <2> QED BY <1>1, <2>1, <2>2
  <1> QED BY <1>1, <1>3, <1>4 DEF After, rest

\* A store stays one when its oldest items leave.
LEMMA AfterWell ==
  ASSUME NEW its, Well(its), NEW n \in 1 .. Len(its)
  PROVE  Well(After(its, n))
  <1> DEFINE kept == After(its, n)
             back(k) == n + k - 1
  <1>1. /\ kept \in Seq(ItemRecord) /\ Len(kept) = Len(its) - n + 1 /\ kept[1] = its[1]
        /\ \A k \in 2 .. Len(kept) : kept[k] = its[back(k)]
    <2>1. its \in Seq(ItemRecord)
      BY DEF Well
    <2> QED BY <2>1, AfterIs, ZenonT(30)
  <1>2. \A k \in 2 .. Len(kept) : back(k) \in 2 .. Len(its)
    BY <1>1
  <1>3. \A j, k \in 2 .. Len(kept) : j < k => back(j) < back(k)
    BY <1>1
  <1> HIDE DEF kept, back
  <1>4. Ordered(kept)
    BY <1>1, <1>2, <1>3 DEF Well, Ordered
  <1>5. Len(kept) >= 1
    BY <1>1
  <1>6. Prompted(kept)
    BY <1>1 DEF Well, Prompted
  <1>7. \A k \in 2 .. Len(kept) : Spoken(kept[k])
    BY <1>1, <1>2 DEF Well
  <1> QED BY <1>1, <1>4, <1>5, <1>6, <1>7 DEF Well, kept

OneExchange(its) == \A i, j \in 2 .. Len(its) : its[i].turn = its[j].turn

\* A prompt, one's words and one's answer always fit.
LEMMA ExchangeFits ==
  ASSUME NEW its, Well(its), Len(its) <= 3, OneExchange(its)
  PROVE  Fits(its)
  <1> DEFINE v == [i \in DOMAIN its |-> ItemBytes(its[i])]
             M == MaxItemBytes
  <1>1. Len(its) \in 1 .. 3 /\ its \in Seq(ItemRecord) /\ M \in Nat
    <2>1. its \in Seq(ItemRecord) /\ Len(its) >= 1 /\ M \in Nat
      BY Limits DEF Well
    <2>2. Len(its) \in Nat /\ Len(its) >= 1 /\ Len(its) <= 3
      BY <2>1
    <2>3. Len(its) \in 1 .. 3
      <3> DEFINE L == Len(its)
      <3>1. L \in Nat /\ L >= 1 /\ L <= 3
        BY <2>2
      <3> HIDE DEF L
      <3>2. L \in 1 .. 3
        BY <3>1
      <3> QED BY <3>2 DEF L
    <2> QED BY <2>1, <2>3
  <1>2. \A i \in 1 .. Len(its) : its[i] \in ItemRecord /\ v[i] = ItemBytes(its[i])
    BY <1>1
  <1>3. Numbers(v, Len(its))
    BY <1>2, ItemBytesNat DEF Numbers
  <1>4. v[1] = PromptBytes
    <2>1. ChunkBytes(its[1]) = 0
      BY TotalNone DEF Well, Prompted, ChunkBytes
    <2>2. its[1].content = PromptBytes /\ its[1].sentText = 0 /\ 1 \in 1 .. Len(its)
      BY <1>1 DEF Well, Prompted
    <2> QED BY <1>2, <2>1, <2>2, Limits DEF ItemBytes
  <1>5. \A i \in 2 .. Len(its) : v[i] <= 3 * M /\ (its[i].role = "user" => v[i] <= M)
    BY <1>2, ItemBytesBound DEF Well, Spoken
  <1>6. Len(its) = 3 => v[2] <= M
    <2> SUFFICES ASSUME Len(its) = 3 PROVE its[2].role = "user"
      BY <1>5
    <2>1. 2 \in 2 .. Len(its) /\ 3 \in 2 .. Len(its)
      OBVIOUS
    <2> QED BY <2>1 DEF Well, Ordered, Follow, OneExchange
  <1> HIDE DEF v
  <1>14. \A k \in 1 .. Len(its) : v[k] \in Nat
    BY <1>3 DEF Numbers
  <1>7. Total(v, 0) = 0
    BY TotalNone
  <1>8. Total(v, 1) = v[1]
    <2>1. Numbers(v, 0 + 1) /\ v[1] \in Nat
      <3>1. 1 \in 1 .. Len(its)
        BY <1>1
      <3>2. v[1] \in Nat
        BY <1>14, <3>1
      <3>3. \A k \in 1 .. 0 + 1 : k = 1
        OBVIOUS
      <3> QED BY <3>2, <3>3 DEF Numbers
    <2>2. Total(v, 0 + 1) = Total(v, 0) + v[0 + 1]
      BY <2>1, TotalNext
    <2> QED BY <1>7, <2>1, <2>2
  <1>9. Len(its) >= 2 => Total(v, 2) = v[1] + v[2] /\ v[2] \in Nat
    <2> SUFFICES ASSUME Len(its) >= 2 PROVE Total(v, 2) = v[1] + v[2] /\ v[2] \in Nat
      OBVIOUS
    <2>1. Numbers(v, 1 + 1) /\ v[2] \in Nat
      BY <1>1, <1>3 DEF Numbers
    <2> QED BY <1>8, <2>1, TotalNext
  <1>10. Len(its) = 3 => Total(v, 3) = v[1] + v[2] + v[3] /\ v[3] \in Nat
    <2> SUFFICES ASSUME Len(its) = 3 PROVE Total(v, 3) = v[1] + v[2] + v[3] /\ v[3] \in Nat
      OBVIOUS
    <2>1. Numbers(v, 2 + 1) /\ v[3] \in Nat
      BY <1>1, <1>3 DEF Numbers
    <2> QED BY <1>9, <2>1, TotalNext
  <1>11. Total(v, Len(its)) <= PromptBytes + 4 * M
    <2>1. CASE Len(its) = 1
      BY <1>1, <1>4, <1>8, <2>1, Limits
    <2>2. CASE Len(its) = 2
      <3>1. v[2] <= 3 * M
        BY <1>5, <2>2
      <3> QED BY <1>1, <1>4, <1>9, <2>2, <3>1, Limits
    <2>3. CASE Len(its) = 3
      <3>1. v[3] <= 3 * M
        BY <1>5, <2>3
      <3>2. Total(v, 3) = v[1] + v[2] + v[3] /\ v[2] <= M /\ v[2] \in Nat /\ v[3] \in Nat
        BY <1>6, <1>9, <1>10, <2>3
      <3> QED BY <1>1, <1>4, <2>3, <3>1, <3>2, Limits
    <2> QED BY <1>1, <2>1, <2>2, <2>3
  <1>12. Size(its) = Total(v, Len(its))
    BY DEF Size, v
  <1>13. Total(v, Len(its)) \in Nat
    BY <1>1, <1>3, TotalNat
  <1> QED BY <1>1, <1>11, <1>12, <1>13, Limits DEF Fits

\* Turns do not decrease.
LEMMA TurnsOrdered ==
  ASSUME NEW its, Well(its), NEW i \in 1 .. Len(its), NEW j \in 1 .. Len(its), i <= j
  PROVE  its[i].turn <= its[j].turn /\ its[i].turn \in Nat /\ its[j].turn \in Nat
  <1>1. its[i].turn \in Nat /\ its[j].turn \in Nat
    BY ItemTyped DEF Well
  <1>2. CASE i = 1
    BY <1>1, <1>2 DEF Well, Prompted
  <1>3. CASE i = j
    BY <1>1, <1>3
  <1>4. CASE i # 1 /\ i # j
    <2>1. i \in 2 .. Len(its) /\ j \in 2 .. Len(its) /\ i < j
      BY <1>4
    <2> QED BY <1>1, <2>1 DEF Well, Ordered, Follow
  <1> QED BY <1>2, <1>3, <1>4

\* Where the exchange at the end of a store begins.
LEMMA ExchangeBegins ==
  ASSUME NEW its, Well(its), Len(its) >= 2, NEW current, current = its[Len(its)].turn
  PROVE  \E n \in Cuts(its) :
            /\ \A i \in 2 .. n : its[i].turn # current
            /\ Len(its) - n + 1 <= 3
            /\ \A i \in n + 1 .. Len(its) : its[i].turn = current
  <1> DEFINE L == Len(its)
             t(i) == its[i].turn
             Earlier(n) == \A i \in 2 .. n : t(i) # current
             Here(n) == \A i \in n + 1 .. L : t(i) = current
  <1>1. L \in Nat /\ L >= 2
    BY DEF Well
  <1>2. current \in Nat /\ t(L) = current /\ \A i \in 1 .. L : t(i) \in Nat
    BY <1>1, TurnsOrdered
  <1>3. \A i, j \in 1 .. L : i <= j => t(i) <= t(j)
    BY TurnsOrdered, SMTT(20)
  <1>4. \A n \in 1 .. L : n = 1 \/ t(n) # t(n + 1) => n \in Cuts(its)
    <2>1. DOMAIN its = 1 .. L
      BY DEF Well
    <2> QED BY <2>1 DEF Cuts
  <1>5. ASSUME L > 3, t(L - 1) = current PROVE t(L - 2) # current
    <2>1. L - 2 \in 2 .. L /\ L - 1 \in 2 .. L /\ L \in 2 .. L /\ L - 2 < L - 1 /\ L - 1 < L
      BY <1>1, <1>5
    <2>2. Follow(its[L - 2], its[L - 1]) /\ Follow(its[L - 1], its[L])
      <3> HIDE DEF L
      <3> QED BY <2>1 DEF Well, Ordered, L
    <2>3. its[L - 1].role = "user"
      BY <1>5, <2>2 DEF Follow
    <2> QED BY <1>5, <2>2, <2>3 DEF Follow
  <1> SUFFICES \E n \in 1 .. L : n \in Cuts(its) /\ Earlier(n) /\ L - n <= 2 /\ Here(n)
    BY <1>1
  <1> HIDE DEF L, t
  <1>6. ASSUME NEW n \in 1 .. L, t(n) # current PROVE Earlier(n)
    <2> SUFFICES ASSUME NEW i \in 2 .. n PROVE t(i) # current
      OBVIOUS
    <2>1. i \in 1 .. L /\ L \in 1 .. L /\ i <= n /\ n <= L
      BY <1>1
    <2>2. t(i) <= t(n) /\ t(n) <= t(L)
      BY <1>3, <2>1
    <2> QED BY <1>2, <1>6, <2>1, <2>2
  <1>7. CASE L = 2
    <2>1. 1 \in 1 .. L /\ 1 \in Cuts(its)
      BY <1>1, <1>4
    <2>2. Earlier(1)
      OBVIOUS
    <2>3. \A i \in 1 + 1 .. L : i = L
      BY <1>7
    <2>4. Here(1)
      BY <1>2, <2>3
    <2> QED BY <1>7, <2>1, <2>2, <2>4
  <1>8. CASE L > 2 /\ t(L - 1) # current
    <2>1. L - 1 \in 1 .. L /\ L - 1 + 1 = L /\ L - (L - 1) <= 2
      BY <1>1, <1>8
    <2>2. L - 1 \in Cuts(its)
      BY <1>2, <1>4, <1>8, <2>1
    <2>3. Earlier(L - 1)
      BY <1>6, <1>8, <2>1
    <2>4. \A i \in L - 1 + 1 .. L : i = L
      BY <1>1
    <2>5. Here(L - 1)
      BY <1>2, <2>4
    <2> HIDE DEF Earlier, Here
    <2> QED BY <2>1, <2>2, <2>3, <2>5
  <1>9. CASE L > 2 /\ t(L - 1) = current
    <2>1. L - 2 \in 1 .. L /\ L - 2 + 1 = L - 1 /\ L - (L - 2) <= 2
      BY <1>1, <1>9
    <2>2. \A i \in L - 2 + 1 .. L : i = L \/ i = L - 1
      BY <1>1
    <2>3. Here(L - 2)
      BY <1>2, <1>9, <2>2
    <2>4. L - 2 \in Cuts(its) /\ Earlier(L - 2)
      <3>1. CASE L = 3
        <4>1. Earlier(1) /\ L - 2 = 1
          BY <3>1
        <4> QED BY <1>4, <2>1, <4>1
      <3>2. CASE L # 3
        <4>1. t(L - 2) # current
          BY <1>1, <1>5, <1>9, <3>2
        <4> HIDE DEF Earlier
        <4> QED BY <1>4, <1>6, <1>9, <2>1, <4>1
      <3> QED BY <3>1, <3>2
    <2> HIDE DEF Earlier, Here
    <2> QED BY <2>1, <2>3, <2>4
  <1> QED BY <1>1, <1>7, <1>8, <1>9

\* The exchange at the end of a store can be kept alone, and fits.
LEMMA LastExchange ==
  ASSUME NEW its, Well(its), Len(its) >= 2, NEW current, current = its[Len(its)].turn
  PROVE  \E n \in Cuts(its) : Fits(After(its, n)) /\ \A i \in 2 .. n : its[i].turn # current
  <1>1. PICK n \in Cuts(its) : /\ \A i \in 2 .. n : its[i].turn # current
                               /\ Len(its) - n + 1 <= 3
                               /\ \A i \in n + 1 .. Len(its) : its[i].turn = current
    BY ExchangeBegins
  <1> DEFINE L == Len(its)
             kept == After(its, n)
  <1>2. its \in Seq(ItemRecord) /\ L \in Nat /\ n \in 1 .. L
    BY DEF Well, Cuts
  <1>3. /\ Well(kept) /\ Len(kept) = L - n + 1
        /\ \A k \in 2 .. L - n + 1 : kept[k] = its[n + k - 1]
    BY <1>2, AfterIs, AfterWell
  <1> HIDE DEF kept
  <1>4. ASSUME NEW k \in 2 .. Len(kept) PROVE kept[k].turn = current
    <2>1. k \in 2 .. L - n + 1
      BY <1>3
    <2>2. n + k - 1 \in n + 1 .. L
      <3> HIDE DEF L
      <3> QED BY <1>2, <2>1
    <2> QED BY <1>1, <1>3, <2>1, <2>2
  <1>5. Fits(kept)
    BY <1>1, <1>3, <1>4, ExchangeFits DEF OneExchange
  <1> QED BY <1>1, <1>5 DEF kept

\* trim leaves a store within the limits, and takes nothing of the current exchange.
LEMMA TrimmedIs ==
  ASSUME NEW its, Well(its), Len(its) >= 2, NEW current, current = its[Len(its)].turn
  PROVE  \E n \in Cuts(its) : /\ Trimmed(its, current) = After(its, n)
                              /\ \A i \in 2 .. n : its[i].turn # current
                              /\ Fits(After(its, n))
  <1> DEFINE cuts == {n \in Cuts(its) : \A i \in 2 .. n : its[i].turn # current}
             fit == {n \in cuts : Fits(After(its, n))}
  <1>1. fit # {}
    BY LastExchange
  <1>2. fit \in SUBSET Nat
    <2>1. its \in Seq(ItemRecord)
      BY DEF Well
    <2>2. Cuts(its) \subseteq Nat
      BY <2>1 DEF Cuts
    <2> QED BY <2>2
  <1>3. Min(fit) \in fit
    <2> HIDE DEF fit
    <2> QED BY <1>1, <1>2, MinIsLeast
  <1>4. Trimmed(its, current) = After(its, Min(fit))
    BY <1>1 DEF Trimmed
  <1> QED BY <1>3, <1>4

\* kept is a store of the last item and maybe others of its.
Keeps(its, kept) ==
  /\ Well(kept) /\ Fits(kept) /\ Len(kept) >= 2
  /\ kept[Len(kept)] = its[Len(its)]
  /\ \A k \in 2 .. Len(kept) : \E i \in 2 .. Len(its) : kept[k] = its[i]

\* What trimming keeps, without saying where the cut is.
LEMMA TrimmedWell ==
  ASSUME NEW its, Well(its), Len(its) >= 2, NEW current, current = its[Len(its)].turn
  PROVE  Keeps(its, Trimmed(its, current))
  <1>1. PICK n \in Cuts(its) : /\ Trimmed(its, current) = After(its, n)
                               /\ \A i \in 2 .. n : its[i].turn # current
                               /\ Fits(After(its, n))
    BY TrimmedIs
  <1> DEFINE L == Len(its)
             kept == After(its, n)
             m == L - n + 1
  <1>2. its \in Seq(ItemRecord) /\ L \in Nat /\ n \in 1 .. L /\ L >= 2
    BY DEF Well, Cuts
  <1>3. n # L
    BY <1>1, <1>2
  <1>4. /\ Well(kept) /\ Len(kept) = m
        /\ \A k \in 2 .. m : kept[k] = its[n + k - 1]
    BY <1>2, AfterIs, AfterWell
  <1> HIDE DEF kept
  <1>5. m \in 2 .. L /\ n + m - 1 = L /\ \A k \in 2 .. m : n + k - 1 \in 2 .. L
    <2> HIDE DEF L
    <2> QED BY <1>2, <1>3
  <1> HIDE DEF L, m
  <1>6. kept[m] = its[L] /\ m >= 2
    <2>1. m \in 2 .. m /\ m >= 2
      BY <1>5
    <2> QED BY <1>4, <1>5, <2>1
  <1>7. \A k \in 2 .. m : \E i \in 2 .. L : kept[k] = its[i]
    BY <1>4, <1>5
  <1>8. Keeps(its, kept)
    BY <1>1, <1>4, <1>6, <1>7 DEF Keeps, kept, L
  <1> QED BY <1>1, <1>8 DEF kept

\* What is left of its in jts when the items up to the n-th, none of them of this turn,
\* are gone: the prompt, the items behind the n-th, and maybe new ones of this turn.
Rest(its, n, jts, turn) ==
  /\ n \in Cuts(its) /\ \A i \in 2 .. n : its[i].turn # turn
  /\ jts[1] = its[1] /\ Len(jts) >= Len(its) - n + 1
  /\ \A k \in 2 .. Len(its) - n + 1 : jts[k] = its[n + k - 1]
  /\ \A k \in Len(its) - n + 2 .. Len(jts) : jts[k].turn = turn
Leaves(its, jts, turn) == \E n \in Nat : Rest(its, n, jts, turn)

\* Trimming leaves that.
LEMMA TrimLeaves ==
  ASSUME NEW its, Well(its), Len(its) >= 2, NEW current, current = its[Len(its)].turn
  PROVE  Leaves(its, Trimmed(its, current), current)
  <1>1. PICK n \in Cuts(its) : /\ Trimmed(its, current) = After(its, n)
                               /\ \A i \in 2 .. n : its[i].turn # current
    BY TrimmedIs
  <1> DEFINE L == Len(its)
             kept == After(its, n)
  <1>2. its \in Seq(ItemRecord) /\ L \in Nat /\ n \in 1 .. L /\ n \in Nat
    BY DEF Well, Cuts
  <1>3. /\ Len(kept) = L - n + 1 /\ kept[1] = its[1]
        /\ \A k \in 2 .. L - n + 1 : kept[k] = its[n + k - 1]
    BY <1>2, AfterIs
  <1> HIDE DEF kept, L
  <1>4. L - n + 2 .. L - n + 1 = {} /\ L - n + 1 >= L - n + 1
    BY <1>2
  <1>5. Rest(its, n, kept, current)
    BY <1>1, <1>3, <1>4 DEF Rest, L
  <1> QED BY <1>1, <1>2, <1>5 DEF Leaves, kept

\* So does trimming for an item that joined.
LEMMA JoinLeaves ==
  ASSUME NEW its, its \in Seq(ItemRecord), Len(its) >= 1, NEW p \in ItemRecord,
         Well(Append(its, p))
  PROVE  Leaves(its, Trimmed(Append(its, p), p.turn), p.turn)
  <1> DEFINE L == Len(its)
             all == Append(its, p)
             jts == Trimmed(all, p.turn)
  <1>1. /\ L \in Nat /\ L >= 1 /\ Len(all) = L + 1 /\ all[L + 1] = p /\ DOMAIN its = 1 .. L
        /\ DOMAIN all = 1 .. L + 1 /\ \A k \in 1 .. L : all[k] = its[k]
    OBVIOUS
  <1> HIDE DEF all, L
  <1>2. Len(all) >= 2 /\ p.turn = all[Len(all)].turn /\ L + 1 \in 1 .. L + 1
    BY <1>1
  <1>3. Well(all)
    BY DEF all
  <1>4. PICK n \in Nat : Rest(all, n, jts, p.turn)
    BY <1>2, <1>3, TrimLeaves DEF Leaves
  <1> HIDE DEF jts
  <1>5. /\ n \in Cuts(all) /\ \A i \in 2 .. n : all[i].turn # p.turn
        /\ jts[1] = all[1] /\ Len(jts) >= L + 1 - n + 1
        /\ \A k \in 2 .. L + 1 - n + 1 : jts[k] = all[n + k - 1]
        /\ \A k \in L + 1 - n + 2 .. Len(jts) : jts[k].turn = p.turn
    BY <1>1, <1>4 DEF Rest
  <1>6. n \in 1 .. L
    <2>1. n \in 1 .. L + 1
      BY <1>1, <1>5 DEF Cuts
    <2>2. n # L + 1
      <3>1. L + 1 \in 2 .. L + 1
        BY <1>1
      <3> QED BY <1>1, <1>5, <3>1
    <2> QED BY <1>1, <2>1, <2>2
  <1>7. n \in Cuts(its)
    <2>1. n = 1 \/ n = L + 1 \/ all[n].turn # all[n + 1].turn
      BY <1>1, <1>5 DEF Cuts
    <2>2. n # L => n \in 1 .. L /\ n + 1 \in 1 .. L
      BY <1>1, <1>6
    <2>3. n # L + 1
      BY <1>1, <1>6
    <2>4. n = 1 \/ n = L \/ its[n].turn # its[n + 1].turn
      BY <1>1, <2>1, <2>2, <2>3
    <2>5. DOMAIN its = 1 .. L /\ Len(its) = L
      BY <1>1 DEF L
    <2> QED BY <1>6, <2>4, <2>5, Zenon DEF Cuts
  <1>8. \A i \in 2 .. n : its[i].turn # p.turn
    <2>1. \A i \in 2 .. n : i \in 1 .. L
      BY <1>1, <1>6
    <2> QED BY <1>1, <1>5, <2>1
  <1>9. jts[1] = its[1] /\ Len(jts) >= L - n + 1
    <2>1. 1 \in 1 .. L
      BY <1>1
    <2>2. L + 1 - n + 1 >= L - n + 1 /\ L - n + 1 \in Nat
      BY <1>1, <1>6
    <2>3. Len(jts) \in Nat
      <3>1. Keeps(all, jts)
        BY <1>2, <1>3, TrimmedWell DEF jts
      <3> QED BY <3>1 DEF Keeps, Well
    <2>4. Len(jts) >= L - n + 1
      BY <1>1, <1>5, <1>6, <2>3
    <2> QED BY <1>1, <1>5, <2>1, <2>4
  <1>10. \A k \in 2 .. L - n + 1 : jts[k] = its[n + k - 1]
    <2> SUFFICES ASSUME NEW k \in 2 .. L - n + 1 PROVE jts[k] = its[n + k - 1]
      OBVIOUS
    <2>1. k \in 2 .. L + 1 - n + 1 /\ n + k - 1 \in 1 .. L
      BY <1>1, <1>6
    <2> QED BY <1>1, <1>5, <2>1
  <1>11. \A k \in L - n + 2 .. Len(jts) : jts[k].turn = p.turn
    <2> SUFFICES ASSUME NEW k \in L - n + 2 .. Len(jts) PROVE jts[k].turn = p.turn
      OBVIOUS
    <2>1. \/ k \in L + 1 - n + 2 .. Len(jts)
          \/ (k \in 2 .. L + 1 - n + 1 /\ n + k - 1 = L + 1)
      BY <1>1, <1>6
    <2> QED BY <1>1, <1>5, <2>1
  <1>12. Rest(its, n, jts, p.turn)
    BY <1>7, <1>8, <1>9, <1>10, <1>11 DEF Rest, L
  <1> QED BY <1>12 DEF Leaves, jts, all

\* Leaving twice is leaving.
LEMMA LeavesTwice ==
  ASSUME NEW its, NEW jts, NEW kts, NEW turn, Well(its), Well(jts), Well(kts),
         Leaves(its, jts, turn), Leaves(jts, kts, turn)
  PROVE  Leaves(its, kts, turn)
  <1> DEFINE L == Len(its)
             M == Len(jts)
             K == Len(kts)
  <1>1. PICK a \in Nat : Rest(its, a, jts, turn)
    BY DEF Leaves
  <1>2. PICK b \in Nat : Rest(jts, b, kts, turn)
    BY DEF Leaves
  <1>3. L \in Nat /\ M \in Nat /\ K \in Nat /\ DOMAIN its = 1 .. L /\ DOMAIN jts = 1 .. M
    BY DEF Well
  <1>4. /\ a \in 1 .. L /\ (a = 1 \/ a = L \/ its[a].turn # its[a + 1].turn)
        /\ \A i \in 2 .. a : its[i].turn # turn
        /\ jts[1] = its[1] /\ M >= L - a + 1
        /\ \A k \in 2 .. L - a + 1 : jts[k] = its[a + k - 1]
        /\ \A k \in L - a + 2 .. M : jts[k].turn = turn
    BY <1>1, <1>3, Zenon DEF Rest, Cuts
  <1>5. /\ b \in 1 .. M /\ (b = 1 \/ b = M \/ jts[b].turn # jts[b + 1].turn)
        /\ \A i \in 2 .. b : jts[i].turn # turn
        /\ kts[1] = jts[1] /\ K >= M - b + 1
        /\ \A k \in 2 .. M - b + 1 : kts[k] = jts[b + k - 1]
        /\ \A k \in M - b + 2 .. K : kts[k].turn = turn
    BY <1>2, <1>3, Zenon DEF Rest, Cuts
  <1> HIDE DEF L, M, K
  <1> DEFINE n == a + b - 1
  <1>6. b <= L - a + 1
    <2> SUFFICES ASSUME ~(b <= L - a + 1) PROVE FALSE
      OBVIOUS
    <2>1. b \in L - a + 2 .. M /\ b \in 2 .. b
      BY <1>3, <1>4, <1>5
    <2> QED BY <1>4, <1>5, <2>1
  <1>7. n \in 1 .. L /\ n \in Nat /\ n - a + 1 = b
    BY <1>3, <1>4, <1>5, <1>6
  <1>8. n = 1 \/ n = L \/ its[n].turn # its[n + 1].turn
    <2>1. CASE b = 1
      BY <1>3, <1>4, <2>1
    <2>2. CASE b # 1 /\ n # L
      <3>1. /\ b \in 2 .. L - a + 1 /\ b + 1 \in 2 .. L - a + 1 /\ b # M
            /\ a + b - 1 = n /\ a + (b + 1) - 1 = n + 1
        BY <1>3, <1>4, <1>5, <1>6, <2>2
      <3>2. jts[b] = its[n] /\ jts[b + 1] = its[n + 1]
        BY <1>4, <3>1
      <3> QED BY <1>5, <2>2, <3>1, <3>2
    <2> QED BY <2>1, <2>2
  <1>9. \A i \in 2 .. n : its[i].turn # turn
    <2> SUFFICES ASSUME NEW i \in 2 .. n PROVE its[i].turn # turn
      OBVIOUS
    <2>1. CASE i <= a
      BY <1>4, <2>1
    <2>2. CASE ~(i <= a)
      <3> DEFINE k == i - a + 1
      <3>1. k \in 2 .. b /\ k \in 2 .. L - a + 1 /\ a + k - 1 = i
        BY <1>3, <1>4, <1>5, <1>6, <1>7, <2>2
      <3> HIDE DEF k
      <3>2. jts[k] = its[i]
        BY <1>4, <3>1
      <3> QED BY <1>5, <3>1, <3>2
    <2> QED BY <2>1, <2>2
  <1>10. kts[1] = its[1] /\ K >= L - n + 1
    BY <1>3, <1>4, <1>5, <1>7
  <1>11. \A k \in 2 .. L - n + 1 : kts[k] = its[n + k - 1]
    <2> SUFFICES ASSUME NEW k \in 2 .. L - n + 1 PROVE kts[k] = its[n + k - 1]
      OBVIOUS
    <2> DEFINE j == b + k - 1
    <2>1. k \in 2 .. M - b + 1 /\ j \in 2 .. L - a + 1 /\ a + j - 1 = n + k - 1
      BY <1>3, <1>4, <1>5, <1>7
    <2>2. kts[k] = jts[j]
      BY <1>5, <2>1
    <2> HIDE DEF j
    <2> QED BY <1>4, <2>1, <2>2
  <1>12. \A k \in L - n + 2 .. K : kts[k].turn = turn
    <2> SUFFICES ASSUME NEW k \in L - n + 2 .. K PROVE kts[k].turn = turn
      OBVIOUS
    <2>1. CASE k \in M - b + 2 .. K
      BY <1>5, <2>1
    <2>2. CASE ~(k \in M - b + 2 .. K)
      <3> DEFINE j == b + k - 1
      <3>1. k \in 2 .. M - b + 1 /\ j \in L - a + 2 .. M
        BY <1>3, <1>4, <1>5, <1>7, <2>2
      <3>2. kts[k] = jts[j]
        BY <1>5, <3>1, Zenon
      <3> HIDE DEF j
      <3> QED BY <1>4, <3>1, <3>2
    <2> QED BY <2>1, <2>2
  <1> HIDE DEF n
  <1>13. n \in Cuts(its)
    BY <1>3, <1>7, <1>8, Zenon DEF Cuts, L
  <1>14. Rest(its, n, kts, turn)
    BY <1>9, <1>10, <1>11, <1>12, <1>13 DEF Rest, L, K
  <1> QED BY <1>7, <1>14 DEF Leaves

\* A later item joins a store.
LEMMA AppendWell ==
  ASSUME NEW its, Well(its), NEW p \in ItemRecord, Spoken(p),
         \A i \in 2 .. Len(its) : Follow(its[i], p)
  PROVE  LET all == Append(its, p)
         IN  /\ Well(all) /\ Len(all) = Len(its) + 1 /\ all[Len(all)] = p
             /\ \A k \in 1 .. Len(its) : all[k] = its[k]
  <1> DEFINE L == Len(its)
             all == Append(its, p)
  <1>1. its \in Seq(ItemRecord) /\ L \in Nat /\ L >= 1
    BY DEF Well
  <1>2. /\ all \in Seq(ItemRecord) /\ Len(all) = L + 1 /\ all[L + 1] = p
        /\ \A k \in 1 .. L : all[k] = its[k]
    BY <1>1
  <1> HIDE DEF all
  <1>3. \A k \in 2 .. L + 1 : k = L + 1 \/ k \in 2 .. L
    <2> HIDE DEF L
    <2> QED BY <1>1
  <1>4. \A k \in 2 .. L : k \in 1 .. L
    OBVIOUS
  <1>5. ASSUME NEW i \in 2 .. L + 1, NEW j \in 2 .. L + 1, i < j
        PROVE  Follow(all[i], all[j])
    <2>1. i \in 2 .. L
      <3> HIDE DEF L
      <3> QED BY <1>1, <1>5
    <2>2. CASE j = L + 1
      BY <1>2, <1>4, <2>1, <2>2
    <2>3. CASE j \in 2 .. L
      BY <1>2, <1>4, <1>5, <2>1, <2>3 DEF Well, Ordered
    <2> QED BY <1>3, <2>2, <2>3
  <1>6. Ordered(all)
    BY <1>2, <1>5 DEF Ordered
  <1>7. \A k \in 2 .. L + 1 : Spoken(all[k])
    BY <1>2, <1>3, <1>4 DEF Well
  <1>8. all[1] = its[1] /\ Len(all) >= 1
    <2>1. 1 \in 1 .. L /\ L + 1 >= 1
      BY <1>1
    <2> QED BY <1>2, <2>1
  <1>9. Prompted(all)
    BY <1>8 DEF Well, Prompted
  <1> QED BY <1>2, <1>6, <1>7, <1>8, <1>9 DEF Well, all

\* The same item, with other contents.
Same(p, q) == q.role = p.role /\ q.turn = p.turn /\ q.gen = p.gen

\* The last item changes, and remains that item.
LEMMA ChangeWell ==
  ASSUME NEW its, Well(its), Len(its) >= 2, NEW p \in ItemRecord, Spoken(p),
         Same(its[Len(its)], p)
  PROVE  LET all == [its EXCEPT ![Len(its)] = p]
         IN  /\ Well(all) /\ Len(all) = Len(its) /\ all[Len(its)] = p
             /\ \A k \in 1 .. Len(its) : k # Len(its) => all[k] = its[k]
  <1> DEFINE L == Len(its)
             all == [its EXCEPT ![L] = p]
  <1>1. its \in Seq(ItemRecord) /\ L \in Nat /\ L >= 2
    BY DEF Well
  <1>2. /\ all \in Seq(ItemRecord) /\ Len(all) = L /\ all[L] = p
        /\ \A k \in 1 .. L : k # L => all[k] = its[k]
    BY <1>1
  <1> HIDE DEF all, L
  <1>3. \A k \in 1 .. L : Same(its[k], all[k])
    BY <1>2 DEF Same, L
  <1>4. Ordered(all)
    <2> SUFFICES ASSUME NEW i \in 2 .. L, NEW j \in 2 .. L, i < j
                 PROVE  Follow(all[i], all[j])
      BY <1>2 DEF Ordered
    <2>1. Follow(its[i], its[j])
      BY DEF Well, Ordered, L
    <2>2. Same(its[i], all[i]) /\ Same(its[j], all[j])
      BY <1>3
    <2> QED BY <2>1, <2>2 DEF Follow, Same
  <1>5. \A k \in 2 .. L : Spoken(all[k])
    <2> SUFFICES ASSUME NEW k \in 2 .. L PROVE Spoken(all[k])
      OBVIOUS
    <2>1. Spoken(its[k]) /\ k \in 1 .. L
      BY DEF Well, L
    <2> QED BY <1>2, <2>1
  <1>6. all[1] = its[1] /\ Len(all) >= 1
    BY <1>1, <1>2
  <1>7. Prompted(all)
    BY <1>6 DEF Well, Prompted
  <1> QED BY <1>2, <1>4, <1>5, <1>6, <1>7 DEF Well, all, L

-----------------------------------------------------------------------------
(* What happens to an answer.                                              *)

\* The last item is the answer of g.
Answers(its, g) ==
  /\ Well(its) /\ Len(its) >= 2
  /\ its[Len(its)].role = "assistant" /\ its[Len(its)].gen = g

\* The store finds it there.
LEMMA AnswerFound ==
  ASSUME NEW its, NEW g, Answers(its, g)
  PROVE  /\ HasAssistant(its, g) /\ AssistantAt(its, g) = Len(its)
         /\ IsPending(its, g) <=> its[Len(its)].status = "pending"
         /\ \A p : Changed(its, g, p) = [its EXCEPT ![Len(its)] = p]
  <1> DEFINE L == Len(its)
             S == {i \in DOMAIN its : its[i].role = "assistant" /\ its[i].gen = g}
  <1>1. its \in Seq(ItemRecord) /\ L \in Nat /\ L >= 2 /\ DOMAIN its = 1 .. L
    BY DEF Answers, Well
  <1>2. L \in S
    BY <1>1 DEF Answers
  <1>3. ASSUME NEW i \in S PROVE i = L
    <2> SUFFICES ASSUME i # L PROVE FALSE
      OBVIOUS
    <2>1. i \in 1 .. L /\ its[i].role = "assistant" /\ its[i].gen = g
      BY <1>1
    <2>2. i # 1
      BY <2>1 DEF Answers, Well, Prompted
    <2>3. i \in 2 .. L /\ L \in 2 .. L /\ i < L
      <3> HIDE DEF L
      <3> QED BY <1>1, <2>1, <2>2
    <2>4. Follow(its[i], its[L])
      BY <2>3 DEF Answers, Well, Ordered
    <2> QED BY <2>1, <2>4 DEF Answers, Follow
  <1>4. S = {L}
    BY <1>2, <1>3
  <1>5. IndexesOf(its, "assistant", "gen", g) = S
    BY DEF IndexesOf
  <1>6. Min(S) = L
    <2>1. S \in SUBSET Nat
      BY <1>1, <1>4
    <2> HIDE DEF S
    <2> QED BY <1>4, <2>1, MinIsLeast
  <1>7. HasAssistant(its, g) /\ AssistantAt(its, g) = L
    BY <1>4, <1>5, <1>6 DEF HasAssistant, AssistantAt
  <1> QED BY <1>7 DEF IsPending, Changed

\* The item q is p with other marks: its text and its chunks are the same.
Marked(p, q) ==
  /\ q \in ItemRecord /\ Same(p, q) /\ q.textOnly = p.textOnly
  /\ q.content = p.content /\ q.sentText = p.sentText /\ q.generated = p.generated
  /\ Len(q.chunks) = Len(p.chunks)
  /\ \A k \in 1 .. Len(p.chunks) : /\ q.chunks[k].bytes = p.chunks[k].bytes
                                   /\ q.chunks[k].end = p.chunks[k].end

\* Marking twice is marking.
LEMMA MarkedTwice ==
  ASSUME NEW p, NEW q, NEW r, Marked(p, q), Marked(q, r) PROVE Marked(p, r)
  BY DEF Marked, Same

\* Marks take no room.
LEMMA MarkedSize ==
  ASSUME NEW p \in ItemRecord, NEW q, Marked(p, q)
  PROVE  ItemBytes(q) = ItemBytes(p) /\ ChunkBytes(q) = ChunkBytes(p)
  <1> DEFINE n == Len(p.chunks)
  <1>1. p.chunks \in Seq(ChunkRecord) /\ q.chunks \in Seq(ChunkRecord)
    BY ItemTyped DEF Marked
  <1>2. n \in Nat /\ Len(q.chunks) = n
    BY <1>1 DEF Marked
  <1>3. Numbers(BytesOf(p.chunks), n)
    BY <1>1, ChunksNumbers
  <1>4. \A k \in 1 .. n : BytesOf(q.chunks)[k] = BytesOf(p.chunks)[k]
    <2>1. DOMAIN p.chunks = 1 .. n /\ DOMAIN q.chunks = 1 .. n
      BY <1>1, <1>2
    <2> QED BY <2>1 DEF BytesOf, Marked
  <1>5. Total(BytesOf(q.chunks), n) = Total(BytesOf(p.chunks), n)
    <2> HIDE DEF n
    <2> QED BY <1>2, <1>3, <1>4, TotalSame
  <1>6. ChunkBytes(q) = ChunkBytes(p)
    BY <1>2, <1>5 DEF ChunkBytes
  <1> QED BY <1>6 DEF Marked, ItemBytes

\* The marks of an answer leave it one.
LEMMA MarkedSpoken ==
  ASSUME NEW p \in ItemRecord, NEW q, Marked(p, q), p.role = "assistant", Spoken(p)
  PROVE  Spoken(q)
  <1>1. ChunkBytes(q) = ChunkBytes(p)
    BY MarkedSize
  <1> QED BY <1>1 DEF Spoken, Sized, Marked, Same

\* A status is a mark, and so are the two ends.
LEMMA StatusMarks ==
  ASSUME NEW p \in ItemRecord, NEW s \in Statuses
  PROVE  Marked(p, [p EXCEPT !.status = s]) /\ [p EXCEPT !.status = s].status = s
  BY DEF Marked, Same, ItemRecord

\* The end of the text or of the audio is a mark.
LEMMA EndMarks ==
  ASSUME NEW p \in ItemRecord
  PROVE  /\ Marked(p, [p EXCEPT !.audioDone = TRUE])
         /\ Marked(p, [p EXCEPT !.llmDone = TRUE])
  BY DEF Marked, Same, ItemRecord

\* complete only sets the status.
LEMMA CompletedMarks ==
  ASSUME NEW p \in ItemRecord
  PROVE  /\ Marked(p, Completed(p))
         /\ Completed(p).status = p.status \/ Completed(p).status \in {"completed", "cancelled"}
  <1>1. Marked(p, p)
    BY DEF Marked, Same
  <1>2. \/ Completed(p) = p
        \/ \E s \in {"completed", "cancelled"} : Completed(p) = [p EXCEPT !.status = s]
    BY DEF Completed
  <1>3. "completed" \in Statuses /\ "cancelled" \in Statuses
    BY DEF Statuses
  <1>4. CASE Completed(p) = p
    BY <1>1, <1>4
  <1>5. ASSUME NEW s \in {"completed", "cancelled"}, Completed(p) = [p EXCEPT !.status = s]
        PROVE  Marked(p, Completed(p)) /\ Completed(p).status = s
    BY <1>3, <1>5, StatusMarks
  <1> QED BY <1>2, <1>4, <1>5

\* The item that Progress makes of p.
Progressed(p, sent, played) ==
  LET s == Greater(p.sent, Lesser(sent, p.generated))
      y == Greater(p.played, Lesser(played, s))
      heard(c) == [c EXCEPT !.played = @ \/ Heard(c, s, y)]
  IN  [p EXCEPT !.sent = s, !.played = y,
                !.chunks = [i \in DOMAIN p.chunks |-> heard(p.chunks[i])]]

\* Progress moves positions and marks chunks as played.
LEMMA ProgressMarks ==
  ASSUME NEW p \in ItemRecord, NEW sent \in Nat, NEW played \in Nat
  PROVE  Marked(p, Progressed(p, sent, played)) /\ Progressed(p, sent, played).status = p.status
  <1> DEFINE s == Greater(p.sent, Lesser(sent, p.generated))
             y == Greater(p.played, Lesser(played, s))
             heard(c) == [c EXCEPT !.played = @ \/ Heard(c, s, y)]
             new == [i \in DOMAIN p.chunks |-> heard(p.chunks[i])]
             n == Len(p.chunks)
  <1>1. s \in Nat /\ y \in Nat
    BY ItemTyped DEF Greater, Lesser
  <1>2. p.chunks \in Seq(ChunkRecord) /\ n \in Nat /\ DOMAIN p.chunks = 1 .. n
    BY ItemTyped
  <1> HIDE DEF s, y
  <1>3. ASSUME NEW c \in ChunkRecord
        PROVE  heard(c) \in ChunkRecord /\ heard(c).bytes = c.bytes /\ heard(c).end = c.end
    <2> DEFINE b == c.played \/ Heard(c, s, y)
    <2>1. b \in BOOLEAN
      BY Zenon DEF Heard
    <2>2. heard(c) = [c EXCEPT !.played = b]
      OBVIOUS
    <2> HIDE DEF b
    <2> QED BY <2>1, <2>2 DEF ChunkRecord
  <1> HIDE DEF heard
  <1>4. new \in Seq(ChunkRecord) /\ Len(new) = n
    BY <1>2, <1>3
  <1>5. \A k \in 1 .. n : new[k].bytes = p.chunks[k].bytes /\ new[k].end = p.chunks[k].end
    BY <1>2, <1>3
  <1> HIDE DEF new
  <1>6. Progressed(p, sent, played) = [p EXCEPT !.sent = s, !.played = y, !.chunks = new]
    BY DEF Progressed, s, y, heard, new
  <1> DEFINE q == [p EXCEPT !.sent = s, !.played = y, !.chunks = new]
  <1>7. q \in ItemRecord
    BY <1>1, <1>4 DEF ItemRecord
  <1>8. /\ q.role = p.role /\ q.turn = p.turn /\ q.gen = p.gen /\ q.textOnly = p.textOnly
        /\ q.content = p.content /\ q.sentText = p.sentText /\ q.generated = p.generated
        /\ q.chunks = new /\ q.status = p.status
    BY DEF ItemRecord
  <1> HIDE DEF q
  <1>9. Marked(p, q)
    BY <1>4, <1>5, <1>7, <1>8 DEF Marked, Same
  <1> QED BY <1>6, <1>8, <1>9 DEF q

-----------------------------------------------------------------------------
(* The store while an answer is pending.                                   *)

\* Nothing happened, or the pending answer at the end was marked.
Touched(its, jts) ==
  \/ jts = its
  \/ /\ its[Len(its)].status = "pending"
     /\ \E q : Marked(its[Len(its)], q) /\ jts = [its EXCEPT ![Len(its)] = q]

\* A marked store.
LEMMA TouchedStore ==
  ASSUME NEW its, NEW jts, NEW g, Answers(its, g), Touched(its, jts)
  PROVE  /\ Answers(jts, g) /\ Len(jts) = Len(its)
         /\ Marked(its[Len(its)], jts[Len(its)])
         /\ \A k \in 1 .. Len(its) : k # Len(its) => jts[k] = its[k]
         /\ Fits(its) => Fits(jts)
  <1> DEFINE L == Len(its)
             p == its[L]
  <1>1. /\ its \in Seq(ItemRecord) /\ L \in Nat /\ L >= 2 /\ p \in ItemRecord /\ Spoken(p)
        /\ p.role = "assistant" /\ p.gen = g /\ Well(its)
    BY DEF Answers, Well
  <1>2. CASE jts = its
    <2>1. Marked(p, p)
      BY <1>1 DEF Marked, Same
    <2> QED BY <1>2, <2>1
  <1>3. ASSUME NEW q, Marked(p, q), jts = [its EXCEPT ![L] = q]
        PROVE  /\ Answers(jts, g) /\ Len(jts) = L /\ Marked(p, jts[L])
               /\ \A k \in 1 .. L : k # L => jts[k] = its[k]
               /\ Fits(its) => Fits(jts)
    <2>1. q \in ItemRecord /\ Same(p, q)
      BY <1>3 DEF Marked
    <2>2. Spoken(q)
      BY <1>1, <1>3, MarkedSpoken
    <2>3. /\ Well(jts) /\ Len(jts) = L /\ jts[L] = q
          /\ \A k \in 1 .. L : k # L => jts[k] = its[k]
      <3> DEFINE all == [its EXCEPT ![Len(its)] = q]
      <3>1. Well(its) /\ Len(its) >= 2 /\ Same(its[Len(its)], q)
        BY <1>1, <2>1
      <3> HIDE DEF p
      <3>2. /\ Well(all) /\ Len(all) = Len(its) /\ all[Len(its)] = q
            /\ \A k \in 1 .. Len(its) : k # Len(its) => all[k] = its[k]
        BY <2>1, <2>2, <3>1, ChangeWell
      <3>3. jts = all
        BY <1>3
      <3> HIDE DEF all
      <3> QED BY <3>2, <3>3
    <2>4. Answers(jts, g)
      BY <1>1, <2>1, <2>3 DEF Answers, Same
    <2>5. Size(jts) = Size(its)
      <3> DEFINE v == [i \in DOMAIN its |-> ItemBytes(its[i])]
                 w == [i \in DOMAIN jts |-> ItemBytes(jts[i])]
      <3>1. DOMAIN its = 1 .. L /\ DOMAIN jts = 1 .. L
        BY <1>1, <2>3 DEF Well
      <3>2. ItemBytes(q) = ItemBytes(p)
        <4>1. p \in ItemRecord
          BY <1>1, SMTT(20)
        <4> QED BY <1>3, <4>1, MarkedSize
      <3>3. \A k \in 1 .. L : w[k] = v[k]
        BY <2>3, <3>1, <3>2
      <3>4. v = w
        BY <3>1, <3>3
      <3> QED BY <2>3, <3>4 DEF Size
    <2> QED BY <1>3, <2>3, <2>4, <2>5 DEF Fits
  <1> QED BY <1>2, <1>3 DEF Touched

\* Marks upon marks.
LEMMA TouchedTwice ==
  ASSUME NEW its, NEW jts, NEW kts, NEW g, Answers(its, g), Touched(its, jts), Touched(jts, kts)
  PROVE  Touched(its, kts)
  <1> DEFINE L == Len(its)
  <1>1. its \in Seq(ItemRecord) /\ L \in Nat /\ L >= 2
    BY DEF Answers, Well
  <1>2. Len(jts) = L
    BY TouchedStore
  <1>3. CASE jts = its \/ kts = jts
    BY <1>3
  <1>4. ASSUME NEW q, Marked(its[L], q), jts = [its EXCEPT ![L] = q], its[L].status = "pending",
               NEW r, Marked(jts[L], r), kts = [jts EXCEPT ![L] = r]
        PROVE  Touched(its, kts)
    <2>1. jts[L] = q
      BY <1>1, <1>4
    <2>2. Marked(its[L], r)
      BY <1>4, <2>1, MarkedTwice
    <2>3. kts = [its EXCEPT ![L] = r]
      BY <1>1, <1>4
    <2> QED BY <1>4, <2>2, <2>3 DEF Touched
  <1> QED BY <1>2, <1>3, <1>4 DEF Touched

\* What Progress does to a store whose answer is pending.
LEMMA ProgressIs ==
  ASSUME NEW its, NEW g, Answers(its, g), its[Len(its)].status = "pending",
         ~its[Len(its)].textOnly, NEW s, NEW y
  PROVE  Progress(its, g, s, y)
           = [its EXCEPT ![Len(its)] = Completed(Progressed(its[Len(its)], s, y))]
  <1> DEFINE p == its[AssistantAt(its, g)]
             q == Completed(Progressed(p, s, y))
  <1>1. AssistantAt(its, g) = Len(its) /\ IsPending(its, g)
        /\ Changed(its, g, q) = [its EXCEPT ![Len(its)] = q]
    BY AnswerFound
  <1>2. ~p.textOnly
    BY <1>1
  <1>3. Progress(its, g, s, y) = Changed(its, g, q)
    BY <1>1, <1>2, Zenon DEF Progress, Progressed
  <1>4. q = Completed(Progressed(its[Len(its)], s, y))
    BY <1>1
  <1> HIDE DEF q
  <1> QED BY <1>1, <1>3, <1>4

\* The end of the text or of the audio.
Ended(p, audio) == IF audio THEN [p EXCEPT !.audioDone = TRUE] ELSE [p EXCEPT !.llmDone = TRUE]

\* What Done does.
LEMMA DoneIs ==
  ASSUME NEW its, NEW g, Answers(its, g), its[Len(its)].status = "pending", NEW audio
  PROVE  Done(its, g, audio) = [its EXCEPT ![Len(its)] = Completed(Ended(its[Len(its)], audio))]
  <1> DEFINE p == its[AssistantAt(its, g)]
             q == Completed(Ended(p, audio))
  <1>1. AssistantAt(its, g) = Len(its) /\ IsPending(its, g)
        /\ Changed(its, g, q) = [its EXCEPT ![Len(its)] = q]
    BY AnswerFound
  <1>2. Done(its, g, audio) = Changed(its, g, q)
    BY <1>1, Zenon DEF Done, Ended
  <1>3. q = Completed(Ended(its[Len(its)], audio))
    BY <1>1
  <1> HIDE DEF q
  <1> QED BY <1>1, <1>2, <1>3

\* Progress, Done and Finalize are marks, and Finalize leaves nothing pending.
LEMMA ProgressTouches ==
  ASSUME NEW its, NEW g, Answers(its, g), NEW sent \in Nat, NEW played \in Nat
  PROVE  Touched(its, Progress(its, g, sent, played))
  <1> DEFINE p == its[Len(its)]
             q == Progressed(p, sent, played)
  <1>1. p \in ItemRecord
    BY DEF Answers, Well
  <1>2. CASE ~IsPending(its, g) \/ p.textOnly
    BY <1>2, AnswerFound DEF Progress, Touched
  <1>3. CASE IsPending(its, g) /\ ~p.textOnly
    <2>1. Progress(its, g, sent, played) = [its EXCEPT ![Len(its)] = Completed(q)]
      BY <1>3, AnswerFound, ProgressIs
    <2>2. Marked(p, q) /\ q \in ItemRecord
      BY <1>1, ProgressMarks DEF Marked
    <2> HIDE DEF q
    <2>3. Marked(p, Completed(q))
      BY <2>2, CompletedMarks, MarkedTwice
    <2> QED BY <1>3, <2>1, <2>3, AnswerFound DEF Touched
  <1> QED BY <1>2, <1>3

\* Done is a mark.
LEMMA DoneTouches ==
  ASSUME NEW its, NEW g, Answers(its, g), NEW audio \in BOOLEAN
  PROVE  Touched(its, Done(its, g, audio))
  <1> DEFINE p == its[Len(its)]
             q == Ended(p, audio)
  <1>1. p \in ItemRecord
    BY DEF Answers, Well
  <1>2. CASE ~IsPending(its, g)
    BY <1>2 DEF Done, Touched
  <1>3. CASE IsPending(its, g)
    <2>1. Done(its, g, audio) = [its EXCEPT ![Len(its)] = Completed(q)]
      BY <1>3, AnswerFound, DoneIs
    <2>2. Marked(p, q) /\ q \in ItemRecord
      BY <1>1, EndMarks DEF Marked, Ended
    <2> HIDE DEF q
    <2>3. Marked(p, Completed(q))
      BY <2>2, CompletedMarks, MarkedTwice
    <2> QED BY <1>3, <2>1, <2>3, AnswerFound DEF Touched
  <1> QED BY <1>2, <1>3

\* Finalize is a mark that leaves nothing pending.
LEMMA FinalizeTouches ==
  ASSUME NEW its, NEW g, Answers(its, g)
  PROVE  /\ Touched(its, Finalize(its, g))
         /\ Finalize(its, g)[Len(its)].status # "pending"
  <1> DEFINE L == Len(its)
             p == its[L]
             c == Completed(p)
  <1>1. p \in ItemRecord /\ its \in Seq(ItemRecord) /\ L \in Nat /\ L >= 2
    BY DEF Answers, Well
  <1>2. CASE ~IsPending(its, g)
    BY <1>2, AnswerFound DEF Finalize, Touched
  <1>3. CASE IsPending(its, g)
    <2> DEFINE q == IF c.status # "pending" THEN c
                    ELSE IF Delivered(c) = 0 /\ c.played = 0 THEN [c EXCEPT !.status = "cancelled"]
                    ELSE [c EXCEPT !.status = "interrupted"]
    <2>1. Finalize(its, g) = [its EXCEPT ![L] = q]
      BY <1>3, AnswerFound DEF Finalize
    <2>2. Marked(p, c) /\ c \in ItemRecord
      BY <1>1, CompletedMarks DEF Marked
    <2> HIDE DEF c
    <2>3. "cancelled" \in Statuses /\ "interrupted" \in Statuses
      BY DEF Statuses
    <2>4. Marked(p, q) /\ q.status # "pending"
      BY <2>2, <2>3, StatusMarks, MarkedTwice
    <2> HIDE DEF q
    <2>5. Finalize(its, g)[L] = q
      BY <1>1, <2>1
    <2> QED BY <1>3, <2>1, <2>4, <2>5, AnswerFound DEF Touched
  <1> QED BY <1>2, <1>3

-----------------------------------------------------------------------------
(* The messages of a request.                                              *)

\* m are the messages gathered up to each item behind the n-th.
Gathers(its, n, m) ==
  /\ m \in [n .. Len(its) -> Seq(MessageRecord)] /\ m[n] = <<>>
  /\ \A i \in n .. Len(its) :
        i < Len(its) => m[i + 1] = IF Said(its, i + 1) THEN Append(m[i], Message(its[i + 1]))
                                   ELSE m[i]

\* What was heard of an item is a number of bytes.
LEMMA DeliveredNat ==
  ASSUME NEW p \in ItemRecord PROVE Delivered(p) \in Nat
  <1> DEFINE n == Len(p.chunks)
             heard == {k \in 0 .. n : \A i \in 1 .. k : p.chunks[i].played}
             v == BytesOf(p.chunks)
  <1>1. n \in Nat /\ p.sentText \in Nat
    BY ItemTyped
  <1>2. Numbers(v, n)
    BY ItemTyped, ChunksNumbers
  <1>3. Max(heard) \in heard
    <2>1. 0 \in heard
      BY <1>1
    <2>2. heard \in SUBSET Nat /\ \A x \in heard : x <= n
      BY <1>1
    <2> HIDE DEF heard, n
    <2> QED BY <1>1, <2>1, <2>2, MaxIsGreatest
  <1> DEFINE k == Max(heard)
  <1>4. k \in 0 .. n
    BY <1>3
  <1> HIDE DEF k, n, v
  <1>5. Numbers(v, k) /\ k \in Nat
    BY <1>1, <1>2, <1>4 DEF Numbers
  <1>6. Total(v, k) \in Nat
    BY <1>5, TotalNat
  <1>7. Delivered(p) = IF p.textOnly THEN p.sentText ELSE Total(v, k)
    BY DEF Delivered, k, n, v
  <1> QED BY <1>1, <1>6, <1>7

\* What an item says is a message.
LEMMA MessageTyped ==
  ASSUME NEW p \in ItemRecord, p.role \in {"user", "assistant"}
  PROVE  Message(p) \in MessageRecord
  BY DeliveredNat, ItemTyped DEF Message, MessageRecord

\* The messages can be gathered item by item...
LEMMA MessagesExist ==
  ASSUME NEW its, Well(its), NEW n \in 1 .. Len(its)
  PROVE  \E m : Gathers(its, n, m)
  <1> DEFINE L == Len(its)
             step(i, ms) == IF Said(its, i) THEN Append(ms, Message(its[i])) ELSE ms
             G(k, m) == /\ m \in [n .. n + k -> Seq(MessageRecord)] /\ m[n] = <<>>
                        /\ \A i \in n .. n + k : i < n + k => m[i + 1] = step(i + 1, m[i])
             H == {k \in 0 .. L - n : \E m : G(k, m)}
  <1>1. L \in Nat /\ n \in Nat /\ n <= L /\ n >= 1
    BY DEF Well
  <1>2. ASSUME NEW i \in 2 .. L, NEW ms \in Seq(MessageRecord)
        PROVE  step(i, ms) \in Seq(MessageRecord)
    <2>1. its[i] \in ItemRecord /\ its[i].role \in {"user", "assistant"}
      BY DEF Well, Spoken
    <2>2. Message(its[i]) \in MessageRecord
      BY <2>1, MessageTyped
    <2> QED BY <2>2
  <1> HIDE DEF L, step
  <1>3. 0 \in H
    <2> DEFINE m == [i \in n .. n + 0 |-> <<>>]
    <2>1. m \in [n .. n + 0 -> Seq(MessageRecord)] /\ m[n] = <<>>
      BY <1>1
    <2>2. \A i \in n .. n + 0 : ~(i < n + 0)
      BY <1>1
    <2>3. G(0, m)
      BY <2>1, <2>2
    <2>4. 0 \in 0 .. L - n
      BY <1>1
    <2> HIDE DEF m, G
    <2> QED BY <2>3, <2>4
  <1>4. ASSUME NEW k \in 0 .. L - n, k < L - n, k \in H PROVE k + 1 \in H
    <2>1. PICK m : G(k, m)
      BY <1>4
    <2> DEFINE b == n + k
               t == [i \in n .. n + (k + 1) |-> IF i = b + 1 THEN step(b + 1, m[b]) ELSE m[i]]
    <2>2. /\ b \in n .. n + k /\ b + 1 = n + (k + 1) /\ b + 1 \in 2 .. L /\ b \in Nat
          /\ k + 1 \in 0 .. L - n
      BY <1>1, <1>4
    <2>3. \A i \in n .. n + (k + 1) : i # b + 1 => i \in n .. n + k
      BY <1>1, <2>2
    <2> HIDE DEF b
    <2>4. step(b + 1, m[b]) \in Seq(MessageRecord)
      BY <1>2, <2>1, <2>2
    <2>5. t \in [n .. n + (k + 1) -> Seq(MessageRecord)]
      BY <2>1, <2>3, <2>4
    <2>6. \A i \in n .. n + k : t[i] = m[i]
      <3>1. \A i \in n .. n + k : i \in n .. n + (k + 1) /\ i # b + 1
        BY <1>1, <2>2
      <3> QED BY <3>1
    <2>7. t[b + 1] = step(b + 1, m[b])
      <3>1. b + 1 \in n .. n + (k + 1)
        BY <1>1, <2>2
      <3> QED BY <3>1
    <2> HIDE DEF t
    <2>8. ASSUME NEW i \in n .. n + (k + 1), i < n + (k + 1)
          PROVE  t[i + 1] = step(i + 1, t[i])
      <3>1. i \in n .. n + k /\ t[i] = m[i]
        BY <1>1, <2>2, <2>6, <2>8
      <3>2. CASE i = b
        BY <2>7, <3>1, <3>2
      <3>3. CASE i # b
        <4>1. i < n + k /\ i + 1 \in n .. n + k
          BY <1>1, <2>2, <3>1, <3>3 DEF b
        <4> QED BY <2>1, <2>6, <3>1, <4>1
      <3> QED BY <3>2, <3>3
    <2>9. t[n] = <<>>
      <3>1. n \in n .. n + k
        BY <1>1
      <3> QED BY <2>1, <2>6, <3>1
    <2>10. G(k + 1, t)
      BY <2>5, <2>8, <2>9
    <2> QED BY <2>2, <2>10
  <1>5. L - n \in H
    <2> HIDE DEF H
    <2>1. L - n \in Nat
      BY <1>1
    <2>2. \A k \in 0 .. L - n : k < L - n /\ k \in H => k + 1 \in H
      BY <1>4
    <2>3. \A k \in 0 .. L - n : k \in H
      BY <1>3, <2>1, <2>2, UpTo, Zenon
    <2>4. L - n \in 0 .. L - n
      BY <2>1
    <2> QED BY <2>3, <2>4
  <1>6. PICK m : G(L - n, m)
    BY <1>5
  <1>7. n + (L - n) = L
    BY <1>1
  <1>8. Gathers(its, n, m)
    BY <1>6, <1>7 DEF Gathers, L, step
  <1> QED BY <1>8

\* ...and MessagesAfter does.
LEMMA MessagesGathered ==
  ASSUME NEW its, Well(its), NEW n \in 1 .. Len(its)
  PROVE  \E m : Gathers(its, n, m) /\ MessagesAfter(its, n) = m[Len(its)]
  <1> DEFINE L == Len(its)
             Rec(u) == u = [i \in n .. L |->
                              IF i = n THEN <<>>
                              ELSE IF Said(its, i) THEN Append(u[i - 1], Message(its[i]))
                              ELSE u[i - 1]]
             m == CHOOSE u : Rec(u)
             H == {k \in 0 .. L - n : m[n + k] \in Seq(MessageRecord)}
  <1>1. L \in Nat /\ n \in Nat /\ n <= L /\ n >= 1
    BY DEF Well
  <1>2. \E u : Rec(u)
    <2>1. PICK u : Gathers(its, n, u)
      BY MessagesExist
    <2>2. ASSUME NEW i \in n .. L
          PROVE  u[i] = IF i = n THEN <<>>
                        ELSE IF Said(its, i) THEN Append(u[i - 1], Message(its[i])) ELSE u[i - 1]
      <3>1. CASE i = n
        BY <2>1, <3>1 DEF Gathers
      <3>2. CASE i # n
        <4> HIDE DEF L
        <4>1. i - 1 \in n .. L /\ i - 1 < L /\ i - 1 + 1 = i
          BY <1>1, <3>2
        <4> QED BY <2>1, <3>2, <4>1 DEF Gathers, L
      <3> QED BY <3>1, <3>2
    <2>3. Rec(u)
      BY <2>1, <2>2 DEF Gathers
    <2> HIDE DEF Rec
    <2> QED BY <2>3
  <1>3. Rec(m)
    <2> HIDE DEF Rec
    <2> QED BY <1>2
  <1>4. MessagesAfter(its, n) = m[L]
    BY DEF MessagesAfter
  <1> HIDE DEF m, L
  <1>5. ASSUME NEW i \in n .. L
        PROVE  m[i] = IF i = n THEN <<>>
                      ELSE IF Said(its, i) THEN Append(m[i - 1], Message(its[i])) ELSE m[i - 1]
    BY <1>3
  <1>6. m[n] = <<>>
    <2>1. n \in n .. L
      BY <1>1
    <2> QED BY <1>5, <2>1
  <1>7. ASSUME NEW i \in n .. L, i < L
        PROVE  m[i + 1] = IF Said(its, i + 1) THEN Append(m[i], Message(its[i + 1])) ELSE m[i]
    <2>1. i + 1 \in n .. L /\ i + 1 # n /\ i + 1 - 1 = i
      BY <1>1, <1>7
    <2> QED BY <1>5, <2>1
  <1>8. ASSUME NEW k \in 0 .. L - n, k < L - n, k \in H PROVE k + 1 \in H
    <2> DEFINE i == n + k
    <2>1. i \in n .. L /\ i < L /\ n + (k + 1) = i + 1 /\ i + 1 \in 2 .. L /\ k + 1 \in 0 .. L - n
      BY <1>1, <1>8
    <2>2. m[i] \in Seq(MessageRecord)
      BY <1>8
    <2> HIDE DEF i
    <2>3. its[i + 1] \in ItemRecord /\ its[i + 1].role \in {"user", "assistant"}
      BY <2>1 DEF Well, Spoken, L
    <2>4. Message(its[i + 1]) \in MessageRecord
      BY <2>3, MessageTyped
    <2>5. m[i + 1] \in Seq(MessageRecord)
      <3>1. Append(m[i], Message(its[i + 1])) \in Seq(MessageRecord)
        BY <2>2, <2>4
      <3>2. m[i + 1] = Append(m[i], Message(its[i + 1])) \/ m[i + 1] = m[i]
        BY <1>7, <2>1
      <3> QED BY <2>2, <3>1, <3>2
    <2> QED BY <2>1, <2>5
  <1>9. \A k \in 0 .. L - n : k \in H
    <2>1. 0 \in H
      <3>1. 0 \in 0 .. L - n /\ n + 0 = n
        BY <1>1
      <3>2. m[n + 0] = <<>>
        BY <1>6, <3>1
      <3>3. <<>> \in Seq(MessageRecord)
        OBVIOUS
      <3> QED BY <3>1, <3>2, <3>3
    <2>2. L - n \in Nat
      BY <1>1
    <2> HIDE DEF H
    <2> QED BY <1>8, <2>1, <2>2, UpTo
  <1>10. \A i \in n .. L : m[i] \in Seq(MessageRecord)
    <2> SUFFICES ASSUME NEW i \in n .. L PROVE m[i] \in Seq(MessageRecord)
      OBVIOUS
    <2>1. i - n \in 0 .. L - n /\ n + (i - n) = i
      BY <1>1
    <2> QED BY <1>9, <2>1
  <1>11. m \in [n .. L -> Seq(MessageRecord)]
    BY <1>3, <1>10
  <1>12. Gathers(its, n, m)
    BY <1>6, <1>7, <1>11 DEF Gathers, L
  <1> QED BY <1>4, <1>12 DEF L

\* The request r asks about the words of a turn, within the window.
Asks(r, turn) ==
  /\ r # <<>> /\ Last(r).role = "user" /\ Last(r).turn = turn
  /\ 1 + Len(r) <= MaxContextItems
  /\ PromptBytes + MessageBytes(r) <= MaxContextBytes

\* The window has room for the last words, and Context ends with them.
LEMMA ContextAsks ==
  ASSUME NEW its, Well(its), Len(its) >= 2, its[Len(its)].role = "user",
         its[Len(its) - 1].turn # its[Len(its)].turn
  PROVE  /\ Context(its, 0) \in Seq(MessageRecord)
         /\ Asks(Context(its, 0), its[Len(its)].turn)
         /\ \E n \in 1 .. Len(its) : Context(its, 0) = MessagesAfter(its, n) /\ n \in Cuts(its)
  <1> DEFINE L == Len(its)
             p == its[L]
             said == Message(p)
             room == {n \in Cuts(its) : InWindow(MessagesAfter(its, n) \o <<>>)}
  <1>1. /\ its \in Seq(ItemRecord) /\ L \in Nat /\ L >= 2 /\ DOMAIN its = 1 .. L
        /\ p \in ItemRecord /\ Spoken(p) /\ p.role = "user"
    BY DEF Well
  <1>2. L - 1 \in 1 .. L /\ L - 1 < L /\ L - 1 + 1 = L
    <2>1. L \in Nat /\ L >= 2
      BY <1>1
    <2> HIDE DEF L
    <2> QED BY <2>1
  <1>3. L - 1 \in Cuts(its)
    BY <1>1, <1>2, Zenon DEF Cuts
  <1>4. Said(its, L)
    BY <1>1 DEF Said, Spoken
  <1>5. said \in MessageRecord
    BY <1>1, MessageTyped
  <1>6. said.role = "user" /\ said.turn = p.turn /\ said.bytes \in Bytes
    <2> HIDE DEF p
    <2>1. said = [role |-> "user", turn |-> p.turn, bytes |-> p.content]
      BY <1>1 DEF Message
    <2>2. p.content \in Bytes
      BY <1>1 DEF Spoken, Sized
    <2> QED BY <2>1, <2>2
  <1> HIDE DEF said, p
  <1>7. ASSUME NEW n \in 1 .. L, n < L
        PROVE  \E s \in Seq(MessageRecord) : /\ MessagesAfter(its, n) = Append(s, said)
                                             /\ n = L - 1 => s = <<>>
    <2>1. PICK m : Gathers(its, n, m) /\ MessagesAfter(its, n) = m[L]
      BY MessagesGathered
    <2>2. L - 1 \in n .. L
      BY <1>1, <1>7
    <2>3. m[L - 1 + 1] = Append(m[L - 1], Message(its[L - 1 + 1]))
      BY <1>2, <1>4, <2>1, <2>2 DEF Gathers
    <2>4. m[L - 1] \in Seq(MessageRecord) /\ (n = L - 1 => m[L - 1] = <<>>)
      BY <2>1, <2>2 DEF Gathers
    <2> QED BY <1>2, <2>1, <2>3, <2>4, Zenon DEF said, p
  <1> HIDE DEF L
  <1>8. L - 1 \in room
    <2> DEFINE ms == MessagesAfter(its, L - 1)
               one == <<said>>
    <2>1. ms = Append(<<>>, said)
      BY <1>2, <1>7
    <2>2. ms \o <<>> = one
      BY <1>5, <2>1
    <2>3. /\ Len(one) = 1 /\ BytesOf(one)[1] = said.bytes /\ DOMAIN one = 1 .. 1
      BY DEF BytesOf
    <2>4. Numbers(BytesOf(one), 0 + 1)
      BY <1>6, <2>3, Limits DEF Numbers
    <2>5. Total(BytesOf(one), 0 + 1) = Total(BytesOf(one), 0) + BytesOf(one)[0 + 1]
      BY <2>4, TotalNext
    <2>6. Total(BytesOf(one), 0) = 0
      BY TotalNone
    <2>7. MessageBytes(one) = said.bytes
      BY <1>6, <2>3, <2>5, <2>6, Limits DEF MessageBytes
    <2> HIDE DEF one
    <2>8. InWindow(one)
      BY <1>6, <2>3, <2>7, Limits DEF InWindow
    <2> QED BY <1>3, <2>2, <2>8
  <1>9. Min(room) \in room /\ Min(room) <= L - 1
    <2>1. room \in SUBSET Nat
      BY <1>1 DEF Cuts
    <2> HIDE DEF room
    <2> QED BY <1>8, <2>1, MinIsLeast
  <1> DEFINE n == Min(room)
             ms == MessagesAfter(its, n)
  <1>10. n \in 1 .. L /\ n < L
    <2>1. n \in 1 .. L
      BY <1>1, <1>9 DEF Cuts
    <2> HIDE DEF n, room
    <2> QED BY <1>1, <1>9, <2>1 DEF n
  <1>11. PICK s \in Seq(MessageRecord) : ms = Append(s, said)
    BY <1>7, <1>10
  <1>12. ms \in Seq(MessageRecord) /\ ms # <<>> /\ ms \o <<>> = ms /\ Last(ms) = said
    BY <1>5, <1>11 DEF Last
  <1>13. Context(its, 0) = ms \o <<>>
    BY <1>8 DEF Context
  <1>14. InWindow(ms)
    <2>1. InWindow(ms \o <<>>)
      BY <1>9
    <2> QED BY <1>12, <2>1
  <1> HIDE DEF ms
  <1>15. Asks(ms, p.turn)
    BY <1>6, <1>12, <1>14 DEF Asks, InWindow
  <1> QED BY <1>9, <1>10, <1>12, <1>13, <1>15 DEF L, p, ms

-----------------------------------------------------------------------------
(* The invariant.                                                          *)

Types ==
  /\ gen \in 0 .. MaxTurns /\ textOnly \in BOOLEAN /\ done \in BOOLEAN
  /\ timeline \in [open: BOOLEAN, generated: Nat, sent: Nat, played: Nat, acked: Nat]
  /\ resp \in [live: BOOLEAN, turn: 0 .. MaxTurns, used: BOOLEAN]
  /\ turns \in 0 .. MaxTurns /\ started \in 0 .. MaxTurns
  /\ wire \in Nat /\ rendered \in [Gens -> Nat]

\* What an item may say of the turns and generations handed out, the last of n items
\* being that of g, if any.
Allowed(p, i, n, g, lastTurn, lastGen) ==
  /\ p.turn <= lastTurn
  /\ p.role = "assistant" => p.gen <= lastGen
  /\ p.status = "pending" => i = n /\ g # 0

Kept == \A i \in 2 .. Len(items) : Allowed(items[i], i, Len(items), gen, turns, started)

\* A context not yet consumed is of a turn newer than all that is remembered.
Free ==
  /\ resp.turn <= turns
  /\ resp.live /\ ~resp.used =>
        resp.turn # 0 /\ \A i \in 2 .. Len(items) : items[i].turn < resp.turn

Requested ==
  /\ request \in Seq(MessageRecord)
  /\ gen # 0 /\ HasUser(items, items[Len(items)].turn) =>
        Asks(request, items[Len(items)].turn)

Good ==
  /\ Types /\ Well(items) /\ Fits(items)
  /\ gen # 0 => Answers(items, gen)
  /\ Kept /\ Free /\ Requested

\* Words are found where there are any.
LEMMA UserFound ==
  ASSUME NEW its, NEW turn
  PROVE  HasUser(its, turn) <=> \E i \in DOMAIN its : its[i].role = "user" /\ its[i].turn = turn
  BY DEF HasUser, IndexesOf

\* The store's promises follow.
LEMMA GoodIsSound == ASSUME Good PROVE StoreSound
  <1> DEFINE L == Len(items)
  <1>1. items \in Seq(ItemRecord) /\ L \in Nat /\ L >= 1 /\ DOMAIN items = 1 .. L
    BY DEF Good, Well
  <1>2. TypeOK
    <2>1. items # <<>>
      BY <1>1
    <2> QED BY <1>1, <2>1 DEF Good, Types, Requested, TypeOK
  <1>3. StoreBounded
    BY DEF Good, StoreBounded
  <1>4. gen # 0 => HasAssistant(items, gen) /\ AssistantAt(items, gen) = L
    BY AnswerFound DEF Good
  <1>5. OneAnswerPerTurn
    <2> SUFFICES ASSUME NEW i \in 2 .. L, NEW j \in 2 .. L, items[i].turn = items[j].turn,
                        items[i].role = items[j].role, i < j
                 PROVE  FALSE
      BY <1>1 DEF OneAnswerPerTurn
    <2>1. Follow(items[i], items[j])
      BY DEF Good, Well, Ordered
    <2> QED BY <2>1 DEF Follow
  <1>6. OnlyActivePending
    <2> SUFFICES ASSUME NEW i \in 1 .. L, items[i].status = "pending"
                 PROVE  items[i].gen = gen /\ gen # 0
      BY <1>1 DEF OnlyActivePending
    <2>1. i # 1
      BY DEF Good, Well, Prompted
    <2>2. i \in 2 .. L
      BY <1>1, <2>1
    <2>3. i = L /\ gen # 0
      BY <2>2 DEF Good, Kept, Allowed
    <2> QED BY <2>3 DEF Good, Answers
  <1>7. RequestEndsWithTurn
    BY <1>4 DEF Good, Requested, Asks, RequestEndsWithTurn
  <1> QED BY <1>2, <1>3, <1>4, <1>5, <1>6, <1>7 DEF StoreSound, ActiveItemKept

\* A new item.
LEMMA ItemIs ==
  ASSUME NEW role \in {"system", "user", "assistant"}, NEW turn \in Nat, NEW g \in Nat,
         NEW status \in Statuses, NEW bytes \in Bytes \cup {PromptBytes}, NEW text \in BOOLEAN
  PROVE  LET p == Item(role, turn, g, status, bytes, text)
         IN  /\ p \in ItemRecord
             /\ p.role = role /\ p.turn = turn /\ p.gen = g /\ p.status = status
             /\ p.content = bytes /\ p.sentText = 0 /\ p.chunks = <<>> /\ p.textOnly = text
             /\ ~p.llmDone /\ ~p.audioDone /\ p.generated = 0 /\ p.sent = 0 /\ p.played = 0
  <1>1. <<>> \in Seq(ChunkRecord) /\ 0 \in Bytes /\ 0 \in Nat
    BY Limits
  <1> QED BY <1>1 DEF Item, ItemRecord

\* It holds of a session that begins.
LEMMA InitGood == ASSUME Init PROVE Good
  <1> DEFINE p == Item("system", 0, 0, "committed", PromptBytes, FALSE)
  <1>1. p \in ItemRecord
    <2>1. "committed" \in Statuses
      BY DEF Statuses
    <2> QED BY <2>1, ItemIs
  <1>2. /\ p.role = "system" /\ p.turn = 0 /\ p.status = "committed" /\ p.content = PromptBytes
        /\ p.sentText = 0 /\ p.chunks = <<>>
    BY DEF Item
  <1>3. items = <<p>>
    BY DEF Init
  <1> HIDE DEF p
  <1>4. items \in Seq(ItemRecord) /\ Len(items) = 1 /\ items[1] = p
    BY <1>1, <1>3
  <1>5. 2 .. Len(items) = {}
    BY <1>4
  <1>6. Well(items)
    BY <1>2, <1>4, <1>5 DEF Well, Prompted, Ordered
  <1>7. Fits(items)
    <2>1. OneExchange(items)
      BY <1>5 DEF OneExchange
    <2>2. Len(items) <= 3
      BY <1>4
    <2> QED BY <1>6, <2>1, <2>2, ExchangeFits
  <1>8. Types
    <2>1. 0 \in 0 .. MaxTurns
      BY Limits
    <2>2. timeline \in [open: BOOLEAN, generated: Nat, sent: Nat, played: Nat, acked: Nat]
      BY DEF Init, NoTimeline
    <2>3. resp \in [live: BOOLEAN, turn: 0 .. MaxTurns, used: BOOLEAN]
      BY <2>1 DEF Init
    <2>4. rendered \in [Gens -> Nat] /\ wire \in Nat
      BY DEF Init
    <2> QED BY <2>1, <2>2, <2>3, <2>4 DEF Init, Types
  <1>9. Free /\ Kept /\ Requested /\ gen = 0
    BY <1>5 DEF Init, Free, Kept, Requested
  <1> QED BY <1>6, <1>7, <1>8, <1>9 DEF Good

-----------------------------------------------------------------------------
(* What leaves the store.                                                  *)

\* The same items, of which only a pending one differs.
Kin(its, jts) ==
  /\ Well(jts) /\ Len(jts) = Len(its)
  /\ \A k \in 1 .. Len(its) : /\ Same(its[k], jts[k])
                              /\ its[k].status # "pending" => jts[k] = its[k]

\* A step that lets whole exchanges go at the old end is an eviction.
LEMMA LeavesEvict ==
  ASSUME Well(items), NEW fin, NEW turn, Kin(items, fin), Leaves(fin, items', turn)
  PROVE  OnlyEvicted
  <1> DEFINE L == Len(items)
  <1>1. PICK n \in Nat : Rest(fin, n, items', turn)
    BY DEF Leaves
  <1>2. items \in Seq(ItemRecord) /\ L \in Nat /\ L >= 1 /\ DOMAIN items = 1 .. L
    BY DEF Well
  <1>3. /\ Len(fin) = L /\ DOMAIN fin = 1 .. L
        /\ \A k \in 1 .. L : Same(items[k], fin[k])
        /\ \A k \in 1 .. L : items[k].status # "pending" => fin[k] = items[k]
    BY DEF Kin, Well
  <1>4. n \in 1 .. L /\ (n = 1 \/ n = L \/ fin[n].turn # fin[n + 1].turn)
    BY <1>1, <1>3, Zenon DEF Rest, Cuts
  <1> DEFINE kept == After(items, n)
             m == L - n + 1
  <1> HIDE DEF L
  <1>5. /\ Len(kept) = m /\ kept \in Seq(ItemRecord) /\ kept[1] = items[1]
        /\ \A k \in 2 .. m : kept[k] = items[n + k - 1]
    BY <1>2, <1>4, AfterIs DEF L
  <1> HIDE DEF kept
  <1>6. n \in Cuts(items)
    <2>1. CASE n = 1 \/ n = L
      BY <1>2, <1>4, <2>1, Zenon DEF Cuts, L
    <2>2. CASE n # 1 /\ n # L
      <3>1. n \in 1 .. L /\ n + 1 \in 1 .. L
        <4>1. n \in 1 .. L /\ n # L
          BY <1>4, <2>2
        <4> QED BY <1>2, <4>1
      <3>2. fin[n].turn = items[n].turn /\ fin[n + 1].turn = items[n + 1].turn
        BY <1>3, <3>1 DEF Same
      <3> QED BY <1>2, <1>4, <2>2, <3>2, Zenon DEF Cuts, L
    <2> QED BY <2>1, <2>2
  <1>7. /\ Len(items') >= m /\ items'[1] = fin[1]
        /\ \A k \in 2 .. m : items'[k] = fin[n + k - 1]
        /\ \A k \in m + 1 .. Len(items') : items'[k].turn = turn
        /\ \A i \in 2 .. n : fin[i].turn # turn
    <2>1. /\ Len(items') >= Len(fin) - n + 1 /\ items'[1] = fin[1]
          /\ \A k \in 2 .. Len(fin) - n + 1 : items'[k] = fin[n + k - 1]
          /\ \A k \in Len(fin) - n + 2 .. Len(items') : items'[k].turn = turn
          /\ \A i \in 2 .. n : fin[i].turn # turn
      BY <1>1 DEF Rest
    <2>2. L - n + 2 = m + 1
      BY <1>2, <1>4
    <2> QED BY <1>3, <2>1, <2>2
  <1>8. \A i \in 2 .. n : items[i].turn # turn
    <2> SUFFICES ASSUME NEW i \in 2 .. n PROVE items[i].turn # turn
      OBVIOUS
    <2>1. i \in 1 .. L
      BY <1>2, <1>4
    <2> QED BY <1>3, <1>7, <2>1 DEF Same
  <1>9. \A k \in m + 1 .. Len(items') : items'[k].turn \notin OldTurns(n)
    BY <1>7, <1>8 DEF OldTurns
  <1>10. ASSUME NEW k \in 1 .. m
         PROVE  /\ <<items'[k].role, items'[k].turn, items'[k].gen>>
                     = <<kept[k].role, kept[k].turn, kept[k].gen>>
                /\ kept[k].status # "pending" => items'[k] = kept[k]
    <2> DEFINE i == IF k = 1 THEN 1 ELSE n + k - 1
    <2>1. i \in 1 .. L /\ (k # 1 => k \in 2 .. m)
      BY <1>2, <1>4
    <2>2. items'[k] = fin[i] /\ kept[k] = items[i]
      BY <1>5, <1>7, <2>1
    <2> HIDE DEF i
    <2> QED BY <1>3, <2>1, <2>2 DEF Same
  <1> HIDE DEF m
  <1>11. DOMAIN kept = 1 .. m
    BY <1>5
  <1> QED BY <1>5, <1>6, <1>7, <1>9, <1>10, <1>11 DEF OnlyEvicted, kept

\* Nothing leaves.
LEMMA NothingLeaves ==
  ASSUME NEW its, Well(its) PROVE Leaves(its, its, 0)
  <1> DEFINE L == Len(its)
  <1>1. its \in Seq(ItemRecord) /\ L \in Nat /\ L >= 1 /\ DOMAIN its = 1 .. L
    BY DEF Well
  <1>2. 1 \in Cuts(its)
    BY <1>1 DEF Cuts
  <1> HIDE DEF L
  <1>3. /\ L >= L - 1 + 1 /\ L - 1 + 2 .. L = {} /\ 2 .. 1 = {}
        /\ \A k \in 2 .. L - 1 + 1 : 1 + k - 1 = k
    BY <1>1
  <1>4. Rest(its, 1, its, 0)
    BY <1>2, <1>3 DEF Rest, L
  <1> QED BY <1>4 DEF Leaves

\* The items that marks make.
LEMMA TouchedKin ==
  ASSUME NEW its, NEW jts, NEW g, Answers(its, g), Touched(its, jts)
  PROVE  Kin(its, jts)
  <1>1. /\ Answers(jts, g) /\ Len(jts) = Len(its) /\ Marked(its[Len(its)], jts[Len(its)])
        /\ \A k \in 1 .. Len(its) : k # Len(its) => jts[k] = its[k]
    BY TouchedStore
  <1>2. jts = its \/ its[Len(its)].status = "pending"
    BY DEF Touched
  <1> QED BY <1>1, <1>2 DEF Kin, Answers, Marked, Same

\* A step that leaves the store alone evicts nothing.
LEMMA SameEvicts ==
  ASSUME Good, UNCHANGED items PROVE OnlyEvicted
  <1>1. Well(items)
    BY DEF Good
  <1>2. Kin(items, items)
    BY <1>1 DEF Kin, Same
  <1>3. Leaves(items, items', 0)
    BY <1>1, NothingLeaves
  <1> QED BY <1>1, <1>2, <1>3, LeavesEvict

-----------------------------------------------------------------------------
(* The pending answer changes.                                             *)

\* Marks on the answer in progress keep the invariant, and evict nothing.
LEMMA TouchGood ==
  ASSUME Good, Types', gen # 0, Touched(items, items'),
         UNCHANGED <<gen, resp, request, turns, started>>
  PROVE  Good' /\ OnlyEvicted
  <1> DEFINE L == Len(items)
  <1>1. Answers(items, gen) /\ L \in Nat /\ L >= 2
    BY DEF Good, Answers, Well
  <1>2. /\ Answers(items', gen) /\ Len(items') = L /\ Fits(items')
        /\ Marked(items[L], items'[L])
        /\ \A k \in 1 .. L : k # L => items'[k] = items[k]
    BY <1>1, TouchedStore DEF Good
  <1> HIDE DEF L
  <1>3. \A k \in 1 .. L : Same(items[k], items'[k])
    BY <1>2 DEF Marked, Same
  <1>4. \A k \in 2 .. L : Same(items[k], items'[k]) /\ k \in 1 .. L
    BY <1>3
  <1>5. Kept'
    <2> SUFFICES ASSUME NEW k \in 2 .. L
                 PROVE  Allowed(items'[k], k, L, gen, turns, started)
      BY <1>2 DEF Kept
    <2>1. Allowed(items[k], k, L, gen, turns, started)
      BY DEF Good, Kept, L
    <2>2. k # L => items'[k] = items[k]
      BY <1>2, <1>4
    <2>3. Same(items[k], items'[k])
      BY <1>4
    <2> QED BY <2>1, <2>2, <2>3 DEF Allowed, Same
  <1>6. Free'
    BY <1>2, <1>4 DEF Good, Free, Same, L
  <1>7. Requested'
    <2>1. items'[L].turn = items[L].turn
      BY <1>2 DEF Marked, Same
    <2>2. DOMAIN items = 1 .. L /\ DOMAIN items' = 1 .. L
      BY <1>1, <1>2 DEF Answers, Well, L
    <2>3. \A t : HasUser(items', t) => HasUser(items, t)
      BY <1>3, <2>2, UserFound DEF Same
    <2> QED BY <1>2, <2>1, <2>3 DEF Good, Requested, L
  <1>8. OnlyEvicted
    <2>1. Kin(items, items')
      BY <1>1, TouchedKin
    <2>2. Leaves(items', items', 0) /\ Well(items)
      BY <2>1, NothingLeaves DEF Kin, Good
    <2> QED BY <2>1, <2>2, LeavesEvict
  <1> QED BY <1>2, <1>5, <1>6, <1>7, <1>8 DEF Good, Answers

\* The answer in progress grew to q, and the store was trimmed.
Grown(q) ==
  /\ gen # 0 /\ items[Len(items)].status = "pending"
  /\ q \in ItemRecord /\ Spoken(q) /\ Same(items[Len(items)], q)
  /\ items' = Trimmed([items EXCEPT ![Len(items)] = q], q.turn)

\* Text or a chunk that joins it keeps the invariant too, whatever the store has to let go.
LEMMA GrowGood ==
  ASSUME Good, Types', NEW q, Grown(q), UNCHANGED <<gen, resp, request, turns, started>>
  PROVE  Good' /\ OnlyEvicted
  <1> USE DEF Grown
  <1> DEFINE L == Len(items)
             all == [items EXCEPT ![L] = q]
             m == Len(items')
  <1>1. Answers(items, gen) /\ L \in Nat /\ L >= 2 /\ Well(items)
    BY DEF Good, Answers, Well
  <1>2. /\ Well(all) /\ Len(all) = L /\ all[L] = q
        /\ \A k \in 1 .. L : k # L => all[k] = items[k]
    BY <1>1, ChangeWell
  <1> HIDE DEF all
  <1>3. /\ Well(items') /\ Fits(items') /\ m >= 2 /\ items'[m] = q
        /\ \A k \in 2 .. m : \E i \in 2 .. L : items'[k] = all[i]
    <2>1. Len(all) >= 2 /\ q.turn = all[Len(all)].turn /\ Well(all)
      BY <1>1, <1>2
    <2>2. items' = Trimmed(all, q.turn)
      BY DEF all
    <2> HIDE DEF m, L
    <2>3. Keeps(all, items')
      BY <2>1, <2>2, TrimmedWell
    <2> QED BY <1>2, <2>3 DEF Keeps, m
  <1>4. m \in Nat
    BY <1>3 DEF Well
  <1> HIDE DEF m, L
  <1>5. q.role = "assistant" /\ q.gen = gen /\ q.turn = items[L].turn
    BY <1>1 DEF Answers, Same, L
  <1>6. Answers(items', gen)
    BY <1>3, <1>5 DEF Answers, m
  <1>7. \A i \in 2 .. L : Same(items[i], all[i]) /\ i \in 1 .. L
    BY <1>2 DEF Same, L
  <1>8. Kept'
    <2> SUFFICES ASSUME NEW k \in 2 .. m
                 PROVE  Allowed(items'[k], k, m, gen, turns, started)
      BY DEF Kept, m
    <2>1. PICK i \in 2 .. L : items'[k] = all[i]
      BY <1>3
    <2>2. Allowed(items[i], i, L, gen, turns, started)
      BY DEF Good, Kept, L
    <2>3. Same(items[i], all[i])
      BY <1>7
    <2>4. CASE i # L
      BY <1>2, <1>7, <2>1, <2>2, <2>4 DEF Allowed
    <2>5. CASE i = L
      <3>1. k = m
        <4> SUFFICES ASSUME k # m PROVE FALSE
          OBVIOUS
        <4>1. m \in 2 .. m /\ k < m
          BY <1>3, <1>4
        <4>2. Follow(items'[k], items'[m])
          BY <1>3, <4>1 DEF Well, Ordered, m
        <4> QED BY <1>2, <1>3, <1>5, <2>1, <2>5, <4>2 DEF Follow
      <3> QED BY <2>1, <2>2, <2>3, <2>5, <3>1 DEF Allowed, Same
    <2> QED BY <2>4, <2>5
  <1>9. Free'
    <2> SUFFICES ASSUME resp.live /\ ~resp.used, NEW k \in 2 .. m
                 PROVE  items'[k].turn < resp.turn
      BY DEF Good, Free, m
    <2>1. PICK i \in 2 .. L : items'[k] = all[i]
      BY <1>3
    <2>2. all[i].turn = items[i].turn
      BY <1>7 DEF Same
    <2> QED BY <2>1, <2>2 DEF Good, Free, L
  <1>10. Requested'
    <2> SUFFICES ASSUME HasUser(items', items'[m].turn)
                 PROVE  Asks(request, items'[m].turn)
      BY DEF Good, Requested, m
    <2>1. DOMAIN items = 1 .. L /\ DOMAIN items' = 1 .. m
      BY <1>1, <1>3 DEF Well, L, m
    <2>2. PICK k \in 1 .. m : items'[k].role = "user" /\ items'[k].turn = items'[m].turn
      BY <2>1, UserFound
    <2>3. k # 1
      BY <1>3, <2>2 DEF Well, Prompted
    <2>4. k \in 2 .. m
      BY <1>4, <2>2, <2>3
    <2>5. PICK i \in 2 .. L : items'[k] = all[i]
      BY <1>3, <2>4
    <2>6. items[i].role = "user" /\ items[i].turn = items'[m].turn
      BY <1>7, <2>2, <2>5 DEF Same
    <2>7. HasUser(items, items'[m].turn)
      <3>1. i \in DOMAIN items
        BY <1>7, <2>1
      <3> QED BY <2>6, <3>1, UserFound
    <2> QED BY <1>3, <1>5, <2>7 DEF Good, Requested, L
  <1>11. OnlyEvicted
    <2>1. Kin(items, all)
      BY <1>2 DEF Kin, Same, L
    <2>2. Leaves(all, items', q.turn)
      <3>1. q.turn = all[Len(all)].turn /\ Len(all) >= 2
        BY <1>1, <1>2
      <3>2. items' = Trimmed(all, q.turn)
        BY Zenon DEF all, L
      <3> QED BY <1>2, <3>1, <3>2, TrimLeaves
    <2> QED BY <1>1, <2>1, <2>2, LeavesEvict
  <1> QED BY <1>3, <1>6, <1>8, <1>9, <1>10, <1>11 DEF Good

-----------------------------------------------------------------------------
(* A generation starts or ends.                                            *)

\* A store without a pending item.
Settled(its) == \A i \in 1 .. Len(its) : its[i].status # "pending"

\* Nothing is pending there, for any generation.
LEMMA SettledStays ==
  ASSUME NEW its, Well(its), Settled(its) PROVE Finalized(its) = its
  <1>1. ASSUME NEW g, HasAssistant(its, g) PROVE its[AssistantAt(its, g)].status # "pending"
    <2> DEFINE S == IndexesOf(its, "assistant", "gen", g)
    <2>1. S \in SUBSET (1 .. Len(its)) /\ S \in SUBSET Nat
      BY DEF IndexesOf, Well
    <2>2. S # {}
      BY <1>1 DEF HasAssistant
    <2> HIDE DEF S
    <2>3. Min(S) \in S
      BY <2>1, <2>2, MinIsLeast
    <2> QED BY <2>1, <2>3 DEF Settled, AssistantAt, S
  <1>2. \A g : ~IsPending(its, g)
    BY <1>1 DEF IsPending
  <1> QED BY <1>2, Zenon DEF Finalized, Finalize, Synced, Progress

\* Whatever plays is finalized: the same items, none of them pending.
LEMMA FinalizedStore ==
  ASSUME Good
  PROVE  LET fin == Finalized(items)
         IN  /\ Well(fin) /\ Fits(fin) /\ Len(fin) = Len(items) /\ Settled(fin)
             /\ \A k \in 1 .. Len(items) : Same(items[k], fin[k])
             /\ fin = items \/ (gen # 0 /\ Touched(items, fin))
  <1> DEFINE L == Len(items)
  <1>1. Well(items) /\ Fits(items) /\ L \in Nat
    BY DEF Good, Well
  <1>2. \A k \in 1 .. L : items[k].status = "pending" => k = L /\ gen # 0
    <2> SUFFICES ASSUME NEW k \in 1 .. L, items[k].status = "pending"
                 PROVE  k = L /\ gen # 0
      OBVIOUS
    <2>1. k # 1
      BY <1>1 DEF Well, Prompted
    <2>2. k \in 2 .. L
      BY <1>1, <2>1
    <2> QED BY <2>2 DEF Good, Kept, Allowed
  <1>3. CASE gen = 0
    <2>1. Settled(items)
      BY <1>2, <1>3 DEF Settled
    <2>2. Finalized(items) = items
      BY <1>1, <2>1, SettledStays
    <2>3. \A k \in 1 .. L : Same(items[k], items[k])
      BY DEF Same
    <2> DEFINE fin == Finalized(items)
    <2>4. fin = items
      BY <2>2
    <2> HIDE DEF fin
    <2>5. /\ Well(fin) /\ Fits(fin) /\ Len(fin) = Len(items) /\ Settled(fin)
          /\ \A k \in 1 .. Len(items) : Same(items[k], fin[k])
          /\ fin = items \/ (gen # 0 /\ Touched(items, fin))
      BY <1>1, <2>1, <2>3, <2>4
    <2> QED BY <2>5 DEF fin
  <1>4. CASE gen # 0
    <2> DEFINE syn == Synced(items, timeline)
               fin == Finalize(syn, gen)
    <2>1. Answers(items, gen)
      BY <1>4 DEF Good
    <2>2. timeline.sent \in Nat /\ timeline.played \in Nat
      BY DEF Good, Types
    <2>3. Touched(items, syn)
      <3>1. Touched(items, Progress(items, gen, timeline.sent, timeline.played))
        BY <2>1, <2>2, ProgressTouches
      <3>2. Touched(items, items)
        BY DEF Touched
      <3> QED BY <3>1, <3>2 DEF Synced
    <2> HIDE DEF syn
    <2>4. Answers(syn, gen) /\ Len(syn) = L
      BY <2>1, <2>3, TouchedStore
    <2>5. Touched(syn, fin) /\ fin[L].status # "pending"
      BY <2>4, FinalizeTouches
    <2> HIDE DEF fin
    <2>6. Touched(items, fin)
      BY <2>1, <2>3, <2>5, TouchedTwice
    <2>7. /\ Answers(fin, gen) /\ Len(fin) = L /\ Fits(fin) /\ Marked(items[L], fin[L])
          /\ \A k \in 1 .. L : k # L => fin[k] = items[k]
      BY <1>1, <2>1, <2>6, TouchedStore
    <2> HIDE DEF L
    <2>8. \A k \in 1 .. L : Same(items[k], fin[k])
      BY <2>7 DEF Marked, Same
    <2>9. Settled(fin)
      BY <1>2, <2>5, <2>7 DEF Settled
    <2>10. Finalized(items) = fin
      BY DEF Finalized, fin, syn
    <2> QED BY <1>4, <2>6, <2>7, <2>8, <2>9, <2>10 DEF Answers, L
  <1> QED BY <1>3, <1>4

\* It differs only where something was pending.
LEMMA FinalizedKin == ASSUME Good PROVE Kin(items, Finalized(items))
  <1> DEFINE fin == Finalized(items)
  <1>1. fin = items \/ (gen # 0 /\ Touched(items, fin))
    BY FinalizedStore
  <1> HIDE DEF fin
  <1>2. Kin(items, items)
    <2>1. Well(items)
      BY DEF Good
    <2> QED BY <2>1 DEF Kin, Same
  <1>3. ASSUME gen # 0, Touched(items, fin) PROVE Kin(items, fin)
    <2>1. Answers(items, gen)
      BY <1>3 DEF Good
    <2> QED BY <1>3, <2>1, TouchedKin
  <1>4. Kin(items, fin)
    BY <1>1, <1>2, <1>3, Zenon
  <1> QED BY <1>4 DEF fin

\* The answer of g to a turn is the last item of jts, behind items of its.
Answered(its, jts, turn, g) ==
  /\ Fits(jts) /\ Answers(jts, g) /\ jts[Len(jts)].turn = turn
  /\ \A k \in 2 .. Len(jts) : k = Len(jts) \/ (\E i \in 2 .. Len(its) : jts[k] = its[i])
  /\ Leaves(its, jts, turn)

\* The answer of a new generation joins the store.
LEMMA BeginStore ==
  ASSUME NEW its, Well(its), NEW turn \in Nat \ {0}, NEW g \in Nat \ {0}, NEW text \in BOOLEAN,
         \A i \in 2 .. Len(its) : /\ its[i].turn <= turn
                                  /\ its[i].turn = turn => its[i].role = "user"
                                  /\ its[i].role = "assistant" => its[i].gen # g
  PROVE  /\ Answered(its, BeginAssistant(its, turn, g, text), turn, g)
         /\ BeginAssistant(its, turn, g, text)[Len(BeginAssistant(its, turn, g, text))]
              = Item("assistant", turn, g, "pending", 0, text)
  <1> DEFINE p == Item("assistant", turn, g, "pending", 0, text)
             all == Append(its, p)
             L == Len(its)
             jts == Trimmed(all, turn)
             m == Len(jts)
  <1>1. "pending" \in Statuses /\ 0 \in Bytes /\ 0 <= 0
    BY Limits DEF Statuses
  <1>2. /\ p \in ItemRecord /\ p.role = "assistant" /\ p.turn = turn /\ p.gen = g
        /\ p.content = 0 /\ p.sentText = 0 /\ p.chunks = <<>>
    BY <1>1, ItemIs
  <1> HIDE DEF p
  <1>3. ChunkBytes(p) = 0
    BY <1>2, TotalNone DEF ChunkBytes
  <1>4. Spoken(p)
    BY <1>1, <1>2, <1>3 DEF Spoken, Sized
  <1>5. \A i \in 2 .. L : Follow(its[i], p)
    BY <1>2 DEF Follow
  <1>6. /\ Well(all) /\ Len(all) = L + 1 /\ all[L + 1] = p
        /\ \A k \in 1 .. L : all[k] = its[k]
    <2>1. p \in ItemRecord
      BY <1>2
    <2> HIDE DEF L
    <2> QED BY <1>4, <1>5, <2>1, AppendWell DEF L
  <1>7. L \in Nat /\ L >= 1
    BY DEF Well
  <1> HIDE DEF all, L
  <1>8. /\ L + 1 >= 2
       /\ \A i \in 2 .. L + 1 : i = L + 1 \/ (i \in 2 .. L /\ i \in 1 .. L)
    <2>1. L + 1 >= 2
      BY <1>7
    <2>2. ASSUME NEW i \in 2 .. L + 1, i # L + 1 PROVE i \in 2 .. L /\ i \in 1 .. L
      BY <1>7, <2>2
    <2> QED BY <2>1, <2>2, Zenon
  <1>9. /\ Well(jts) /\ Fits(jts) /\ m >= 2 /\ jts[m] = p
        /\ \A k \in 2 .. m : \E i \in 2 .. L + 1 : jts[k] = all[i]
    <2>1. Len(all) >= 2 /\ turn = all[Len(all)].turn /\ Well(all)
      BY <1>2, <1>6, <1>8
    <2>2. Keeps(all, jts)
      BY <2>1, TrimmedWell
    <2> HIDE DEF jts
    <2> QED BY <1>6, <2>2 DEF Keeps
  <1>10. m \in Nat
    BY <1>9 DEF Well
  <1> HIDE DEF jts, m
  <1>11. Answers(jts, g)
    BY <1>2, <1>9 DEF Answers, m
  <1>12. ASSUME NEW k \in 2 .. m, k # m PROVE \E i \in 2 .. L : jts[k] = its[i]
    <2>1. PICK i \in 2 .. L + 1 : jts[k] = all[i]
      BY <1>9
    <2>2. i # L + 1
      <3> SUFFICES ASSUME i = L + 1 PROVE FALSE
        OBVIOUS
      <3>1. m \in 2 .. m /\ k < m
        BY <1>9, <1>10, <1>12
      <3>2. Follow(jts[k], jts[m])
        BY <1>9, <3>1 DEF Well, Ordered, m
      <3> QED BY <1>2, <1>6, <1>9, <2>1, <3>2 DEF Follow
    <2> QED BY <1>6, <1>8, <2>1, <2>2
  <1>13. jts = BeginAssistant(its, turn, g, text)
    BY DEF BeginAssistant, jts, all, p
  <1>14. Leaves(its, jts, turn)
    <2>1. its \in Seq(ItemRecord) /\ Len(its) >= 1
      BY DEF Well
    <2> QED BY <1>2, <1>6, <2>1, JoinLeaves DEF jts, all
  <1>15. Answered(its, jts, turn, g)
    BY <1>2, <1>9, <1>11, <1>12, <1>14 DEF Answered, m, L
  <1>16. jts[Len(jts)] = Item("assistant", turn, g, "pending", 0, text)
    BY <1>9 DEF m, p
  <1> QED BY <1>13, <1>15, <1>16

\* The words of a turn are the last item of jts, behind items of its of older turns.
Joined(its, jts, turn) ==
  /\ Well(jts) /\ Fits(jts) /\ Len(jts) >= 2
  /\ jts[Len(jts)].role = "user" /\ jts[Len(jts)].turn = turn
  /\ jts[Len(jts)].status = "committed"
  /\ \A k \in 2 .. Len(jts) : k = Len(jts) \/ (\E i \in 2 .. Len(its) : jts[k] = its[i])
  /\ jts[Len(jts) - 1].turn # turn
  /\ Leaves(its, jts, turn)

\* New words join the store, behind all that is older.
LEMMA CommitStore ==
  ASSUME NEW its, Well(its), NEW turn \in Nat \ {0}, NEW bytes \in Bytes,
         \A i \in 2 .. Len(its) : its[i].turn < turn
  PROVE  Joined(its, CommitUser(its, turn, bytes), turn)
  <1> DEFINE p == Item("user", turn, 0, "committed", bytes, FALSE)
             all == Append(its, p)
             L == Len(its)
             jts == Trimmed(all, turn)
             m == Len(jts)
  <1>1. "committed" \in Statuses
    BY DEF Statuses
  <1>2. /\ p \in ItemRecord /\ p.role = "user" /\ p.turn = turn /\ p.status = "committed"
        /\ p.content = bytes /\ p.sentText = 0 /\ p.chunks = <<>>
    <2>1. /\ "user" \in {"system", "user", "assistant"} /\ turn \in Nat /\ 0 \in Nat
          /\ FALSE \in BOOLEAN /\ bytes \in Bytes \cup {PromptBytes}
      OBVIOUS
    <2> DEFINE q(text) == Item("user", turn, 0, "committed", bytes, text)
    <2>2. ASSUME NEW text \in BOOLEAN
          PROVE  /\ q(text) \in ItemRecord /\ q(text).role = "user" /\ q(text).turn = turn
                 /\ q(text).status = "committed" /\ q(text).content = bytes
                 /\ q(text).sentText = 0 /\ q(text).chunks = <<>>
      BY <1>1, <2>1, ItemIs
    <2>3. p = q(FALSE)
      OBVIOUS
    <2> HIDE DEF q, p
    <2> QED BY <2>2, <2>3, Zenon
  <1> HIDE DEF p
  <1>3. Spoken(p)
    BY <1>2 DEF Spoken, Sized
  <1>4. \A i \in 2 .. L : its[i].turn \in Nat
    BY TurnsOrdered, ItemTyped DEF Well
  <1>5. \A i \in 2 .. L : Follow(its[i], p)
    BY <1>2, <1>4 DEF Follow
  <1>6. /\ Well(all) /\ Len(all) = L + 1 /\ all[L + 1] = p
        /\ \A k \in 1 .. L : all[k] = its[k]
    <2>1. p \in ItemRecord
      BY <1>2
    <2> HIDE DEF L
    <2> QED BY <1>3, <1>5, <2>1, AppendWell DEF L
  <1>7. L \in Nat /\ L >= 1
    BY DEF Well
  <1>8. ~HasUser(its, turn)
    <2> SUFFICES ASSUME NEW i \in DOMAIN its, its[i].role = "user", its[i].turn = turn
                 PROVE  FALSE
      BY UserFound
    <2>1. i # 1 /\ i \in 1 .. L
      BY DEF Well, Prompted
    <2>2. i \in 2 .. L
      <3> HIDE DEF L
      <3> QED BY <1>7, <2>1
    <2> QED BY <1>4, <2>2
  <1>9. CommitUser(its, turn, bytes) = jts
    BY <1>8 DEF CommitUser, p
  <1> HIDE DEF all, L
  <1>10. /\ L + 1 >= 2
        /\ \A i \in 2 .. L + 1 : i = L + 1 \/ (i \in 2 .. L /\ i \in 1 .. L)
    <2>1. L + 1 >= 2
      BY <1>7
    <2>2. ASSUME NEW i \in 2 .. L + 1, i # L + 1 PROVE i \in 2 .. L /\ i \in 1 .. L
      BY <1>7, <2>2
    <2> QED BY <2>1, <2>2, Zenon
  <1>11. /\ Well(jts) /\ Fits(jts) /\ m >= 2 /\ jts[m] = p
         /\ \A k \in 2 .. m : \E i \in 2 .. L + 1 : jts[k] = all[i]
    <2>1. Len(all) >= 2 /\ turn = all[Len(all)].turn /\ Well(all)
      BY <1>2, <1>6, <1>10
    <2>2. Keeps(all, jts)
      BY <2>1, TrimmedWell
    <2> HIDE DEF jts
    <2> QED BY <1>6, <2>2 DEF Keeps
  <1>12. m \in Nat
    BY <1>11 DEF Well
  <1> HIDE DEF jts, m
  <1>13. ASSUME NEW k \in 2 .. m, k # m PROVE \E i \in 2 .. L : jts[k] = its[i]
    <2>1. PICK i \in 2 .. L + 1 : jts[k] = all[i]
      BY <1>11
    <2>2. i # L + 1
      <3> SUFFICES ASSUME i = L + 1 PROVE FALSE
        OBVIOUS
      <3>1. m \in 2 .. m /\ k < m
        BY <1>11, <1>12, <1>13
      <3>2. Follow(jts[k], jts[m])
        BY <1>11, <3>1 DEF Well, Ordered, m
      <3> QED BY <1>2, <1>6, <1>11, <2>1, <3>2 DEF Follow
    <2> QED BY <1>6, <1>10, <2>1, <2>2
  <1>14. jts[m - 1].turn # turn
    <2>1. CASE m = 2
      BY <1>11, <2>1 DEF Well, Prompted
    <2>2. CASE m # 2
      <3>1. m - 1 \in 2 .. m /\ m - 1 # m
        BY <1>11, <1>12, <2>2
      <3>2. PICK i \in 2 .. L : jts[m - 1] = its[i]
        BY <1>13, <3>1
      <3> QED BY <1>4, <3>2 DEF L
    <2> QED BY <2>1, <2>2
  <1>15. Leaves(its, jts, turn)
    <2>1. its \in Seq(ItemRecord) /\ Len(its) >= 1
      BY DEF Well
    <2> QED BY <1>2, <1>6, <2>1, JoinLeaves DEF jts, all
  <1> QED BY <1>2, <1>9, <1>11, <1>13, <1>14, <1>15 DEF Joined, m, L

\* The store its, what an eviction left of the items, has room for an answer to a
\* turn: there is none yet, and none is pending.
Ready(its, turn) ==
  /\ Well(its)
  /\ \E fin : Kin(items, fin) /\ (its = fin \/ Leaves(fin, its, turn))
  /\ \A i \in 2 .. Len(its) : /\ its[i].turn <= turn
                              /\ its[i].turn = turn => its[i].role = "user"
                              /\ its[i].role = "assistant" => its[i].gen <= started
                              /\ its[i].status # "pending"

\* Its answer joins the store.
LEMMA ReadyBegins ==
  ASSUME Good, NEW turn \in Nat \ {0}, NEW its, Ready(its, turn), NEW text \in BOOLEAN,
         NEW g, g = started + 1, NEW jts, jts = BeginAssistant(its, turn, g, text)
  PROVE  /\ Answered(its, jts, turn, g)
         /\ jts[Len(jts)] = Item("assistant", turn, g, "pending", 0, text)
  <1> USE DEF Ready
  <1> DEFINE L == Len(its)
  <1>1. started \in Nat /\ g \in Nat \ {0}
    BY Limits DEF Good, Types
  <1>2. \A i \in 2 .. L : its[i].gen \in Nat
    <2>1. \A i \in 2 .. L : its[i] \in ItemRecord
      BY DEF Well
    <2> QED BY <2>1, ItemTyped
  <1>3. \A i \in 2 .. Len(its) : /\ its[i].turn <= turn
                                 /\ its[i].turn = turn => its[i].role = "user"
                                 /\ its[i].role = "assistant" => its[i].gen # g
    <2>1. \A i \in 2 .. L : its[i].gen <= started => its[i].gen # g
      BY <1>1, <1>2
    <2> QED BY <2>1
  <1> QED BY <1>1, <1>3, BeginStore

\* A generation starts, with an answer to a turn no other answer was given to.
LEMMA StartGood ==
  ASSUME Good, Types', NEW turn \in Nat \ {0}, NEW its, Ready(its, turn),
         NEW text \in BOOLEAN, items' = BeginAssistant(its, turn, started + 1, text),
         gen' = started + 1, started' = started + 1,
         turn <= turns', resp'.turn <= turns', ~(resp'.live /\ ~resp'.used),
         request' \in Seq(MessageRecord),
         (\E i \in 2 .. Len(its) : its[i].turn = turn) => Asks(request', turn)
  PROVE  Good' /\ OnlyEvicted
  <1> USE DEF Ready
  <1> DEFINE L == Len(its)
             m == Len(items')
  <1>1. started \in Nat /\ started + 1 \in Nat \ {0} /\ turns' \in Nat
    BY Limits DEF Good, Types
  <1>2. \A i \in 2 .. L : its[i] \in ItemRecord /\ its[i].gen \in Nat /\ its[i].turn \in Nat
    <2>1. \A i \in 2 .. L : its[i] \in ItemRecord
      BY DEF Well
    <2> QED BY <2>1, ItemTyped
  <1>3. Answered(its, items', turn, started + 1)
    BY ReadyBegins
  <1>4. /\ Fits(items') /\ Answers(items', started + 1) /\ items'[m].turn = turn
        /\ \A k \in 2 .. m : k = m \/ \E i \in 2 .. L : items'[k] = its[i]
        /\ Leaves(its, items', turn)
    BY <1>3 DEF Answered
  <1>5. /\ m \in Nat /\ m >= 2 /\ Well(items') /\ DOMAIN items' = 1 .. m
        /\ items'[m].role = "assistant" /\ items'[m].gen = started + 1
    BY <1>4 DEF Answers, Well
  <1> HIDE DEF L, m
  <1>6. Kept'
    <2> SUFFICES ASSUME NEW k \in 2 .. m
                 PROVE  Allowed(items'[k], k, m, gen', turns', started')
      BY DEF Kept, m
    <2>1. CASE k = m
      BY <1>1, <1>4, <1>5, <2>1 DEF Allowed
    <2>2. CASE k # m
      <3>1. PICK i \in 2 .. L : items'[k] = its[i]
        BY <1>4, <2>2
      <3>2. /\ its[i].turn <= turn /\ its[i].status # "pending"
            /\ its[i].role = "assistant" => its[i].gen <= started
        BY DEF L
      <3>3. its[i].turn <= turns' /\ (its[i].role = "assistant" => its[i].gen <= started + 1)
        BY <1>1, <1>2, <3>2
      <3> QED BY <3>1, <3>2, <3>3 DEF Allowed
    <2> QED BY <2>1, <2>2
  <1>7. Free'
    BY DEF Free
  <1>8. Requested'
    <2> SUFFICES ASSUME HasUser(items', turn)
                 PROVE  Asks(request', turn)
      BY <1>4 DEF Requested, m
    <2>1. PICK k \in 1 .. m : items'[k].role = "user" /\ items'[k].turn = turn
      BY <1>5, UserFound
    <2>2. k # 1 /\ k # m
      BY <1>5, <2>1 DEF Well, Prompted
    <2>3. k \in 2 .. m
      BY <1>5, <2>1, <2>2
    <2>4. PICK i \in 2 .. L : items'[k] = its[i]
      BY <1>4, <2>2, <2>3
    <2>5. its[i].turn = turn
      BY <2>1, <2>4
    <2> QED BY <2>5 DEF L
  <1>9. OnlyEvicted
    <2>1. PICK fin : Kin(items, fin) /\ (its = fin \/ Leaves(fin, its, turn))
      OBVIOUS
    <2>2. Leaves(fin, items', turn)
      BY <1>4, <1>5, <2>1, LeavesTwice DEF Kin
    <2> QED BY <2>1, <2>2, LeavesEvict DEF Good
  <1> QED BY <1>4, <1>5, <1>6, <1>7, <1>8, <1>9 DEF Good

-----------------------------------------------------------------------------
(* Every action keeps the invariant.                                       *)

\* A turn was committed.
LEMMA NewResponseContextGood == ASSUME Good, NewResponseContext PROVE Good' /\ OnlyEvicted
  <1>1. turns \in Nat /\ turns + 1 \in 0 .. MaxTurns /\ started \in Nat
    BY Limits DEF Good, Types, NewResponseContext
  <1>2. Types'
    BY <1>1 DEF Good, Types, NewResponseContext
  <1>3. \A i \in 2 .. Len(items) : items[i].turn \in Nat /\ items[i].turn <= turns
    <2>1. \A i \in 2 .. Len(items) : items[i] \in ItemRecord
      BY DEF Good, Well
    <2> QED BY <2>1, ItemTyped DEF Good, Kept, Allowed
  <1>4. \A i \in 2 .. Len(items) : items[i].turn <= turns + 1 /\ items[i].turn < turns + 1
    BY <1>1, <1>3
  <1>5. Kept'
    BY <1>4 DEF Good, Kept, Allowed, NewResponseContext
  <1>6. resp'.turn = turns + 1 /\ turns' = turns + 1 /\ items' = items
    BY DEF NewResponseContext
  <1>7. Free'
    BY <1>1, <1>4, <1>6 DEF Free
  <1>8. Requested'
    BY DEF Good, Requested, NewResponseContext
  <1> QED BY <1>2, <1>5, <1>6, <1>7, <1>8, SameEvicts DEF Good, NewResponseContext

\* What is finalized has room for an answer to a turn of its own.
LEMMA FreshReady ==
  ASSUME Good, NEW its, its = Finalized(items)
  PROVE  Ready(its, turns + 1) /\ ~(\E i \in 2 .. Len(its) : its[i].turn = turns + 1)
  <1>1. turns \in Nat
    BY Limits DEF Good, Types
  <1>2. /\ Well(its) /\ Len(its) = Len(items) /\ Settled(its)
        /\ \A k \in 1 .. Len(items) : Same(items[k], its[k])
    BY FinalizedStore
  <1>3. Kin(items, its)
    BY FinalizedKin
  <1>4. ASSUME NEW i \in 2 .. Len(its)
        PROVE  /\ its[i].turn <= turns + 1 /\ its[i].turn # turns + 1
               /\ its[i].role = "assistant" => its[i].gen <= started
               /\ its[i].status # "pending"
    <2>1. Same(items[i], its[i]) /\ its[i].status # "pending" /\ items[i] \in ItemRecord
          /\ Allowed(items[i], i, Len(items), gen, turns, started)
      BY <1>2 DEF Good, Kept, Settled, Well
    <2>2. items[i].turn \in Nat /\ items[i].turn <= turns
      BY <2>1, ItemTyped DEF Allowed
    <2>3. items[i].turn <= turns + 1 /\ items[i].turn # turns + 1
      BY <1>1, <2>2
    <2> QED BY <2>1, <2>3 DEF Same, Allowed
  <1> QED BY <1>2, <1>3, <1>4 DEF Ready

\* A generation of its own.
LEMMA CreateGenerationGood ==
  ASSUME Good, NEW text \in BOOLEAN, CreateGeneration(text) PROVE Good' /\ OnlyEvicted
  <1> DEFINE its == Finalized(items)
  <1>1. turns \in Nat /\ turns + 1 \in 0 .. MaxTurns /\ turns + 1 \in Nat \ {0}
        /\ started \in Nat /\ started + 1 \in 0 .. MaxTurns
    <2>1. turns \in 0 .. MaxTurns /\ started \in 0 .. MaxTurns /\ turns < MaxTurns
          /\ started < MaxTurns
      BY DEF Good, Types, CreateGeneration, StartWithTurn
    <2> QED BY <2>1, Limits
  <1>2. Types'
    BY <1>1 DEF Good, Types, CreateGeneration, StartWithTurn, NoTimeline
  <1>3. Ready(its, turns + 1) /\ ~(\E i \in 2 .. Len(its) : its[i].turn = turns + 1)
    BY FreshReady
  <1>4. items' = BeginAssistant(its, turns + 1, started + 1, text)
    BY DEF CreateGeneration, StartWithTurn
  <1> HIDE DEF its
  <1>5. /\ gen' = started + 1 /\ started' = started + 1 /\ turns' = turns + 1
        /\ resp'.turn = resp.turn /\ ~resp'.live /\ request' = <<>>
    BY DEF CreateGeneration, StartWithTurn, Good, Types
  <1>6. turns + 1 <= turns' /\ resp'.turn <= turns'
    <2>1. resp.turn \in Nat /\ resp.turn <= turns
      BY Limits DEF Good, Types, Free
    <2> QED BY <1>1, <1>5, <2>1
  <1>7. request' \in Seq(MessageRecord)
    BY <1>5
  <1> QED BY <1>1, <1>2, <1>3, <1>4, <1>5, <1>6, <1>7, StartGood

\* The words of a turn join what is finalized, which has room for an answer to them.
LEMMA CommittedReady ==
  ASSUME Good, resp.live, ~resp.used, NEW bytes \in Bytes, NEW fin, fin = Finalized(items),
         NEW its, its = CommitUser(fin, resp.turn, bytes)
  PROVE  Joined(fin, its, resp.turn) /\ Ready(its, resp.turn) /\ Settled(its)
  <1> DEFINE M == Len(its)
  <1>1. /\ started \in Nat /\ resp.turn \in Nat \ {0} /\ resp.turn <= turns
        /\ \A i \in 2 .. Len(items) : items[i].turn < resp.turn
    BY Limits DEF Good, Types, Free
  <1>2. /\ Well(fin) /\ Len(fin) = Len(items) /\ Settled(fin)
        /\ \A k \in 1 .. Len(items) : Same(items[k], fin[k])
    BY FinalizedStore
  <1>3. \A i \in 2 .. Len(fin) : i \in 1 .. Len(fin)
    BY <1>2 DEF Well
  <1>4. ASSUME NEW i \in 2 .. Len(fin)
        PROVE  /\ fin[i].turn < resp.turn /\ fin[i].status # "pending"
               /\ fin[i].role = "assistant" => fin[i].gen <= started
    <2>1. Same(items[i], fin[i]) /\ fin[i].status # "pending"
      BY <1>2, <1>3 DEF Settled
    <2>2. items[i].turn < resp.turn /\ Allowed(items[i], i, Len(items), gen, turns, started)
      BY <1>1, <1>2 DEF Good, Kept
    <2> QED BY <2>1, <2>2 DEF Same, Allowed
  <1>5. /\ Well(its) /\ M >= 2
        /\ its[M].role = "user" /\ its[M].turn = resp.turn /\ its[M].status = "committed"
        /\ \A k \in 2 .. M : k = M \/ \E i \in 2 .. Len(fin) : its[k] = fin[i]
        /\ its[M - 1].turn # resp.turn /\ Leaves(fin, its, resp.turn)
    <2>1. \A i \in 2 .. Len(fin) : fin[i].turn < resp.turn
      BY <1>4
    <2>2. Joined(fin, its, resp.turn)
      BY <1>1, <1>2, <2>1, CommitStore
    <2> QED BY <2>2 DEF Joined
  <1>6. Kin(items, fin)
    BY FinalizedKin
  <1>7. ASSUME NEW k \in 2 .. M
        PROVE  /\ its[k].turn <= resp.turn /\ its[k].status # "pending"
               /\ its[k].turn = resp.turn => its[k].role = "user"
               /\ its[k].role = "assistant" => its[k].gen <= started
    <2>1. CASE k = M
      BY <1>1, <1>5, <2>1
    <2>2. CASE k # M
      <3>1. PICK i \in 2 .. Len(fin) : its[k] = fin[i]
        BY <1>5, <2>2
      <3>2. its[k].turn < resp.turn /\ its[k].turn \in Nat
        <4>1. its[k] \in ItemRecord
          BY <1>5 DEF Well
        <4> QED BY <1>4, <3>1, <4>1, ItemTyped
      <3>3. its[k].turn <= resp.turn /\ its[k].turn # resp.turn
        BY <1>1, <3>2
      <3> QED BY <1>4, <3>1, <3>3
    <2> QED BY <2>1, <2>2
  <1>8. Settled(its)
    <2> SUFFICES ASSUME NEW k \in 1 .. M PROVE its[k].status # "pending"
      BY DEF Settled
    <2>1. CASE k = 1
      BY <1>5, <2>1 DEF Well, Prompted
    <2>2. CASE k # 1
      <3>1. k \in 2 .. M
        BY <1>5, <2>2 DEF Well
      <3> QED BY <1>7, <3>1
    <2> QED BY <2>1, <2>2
  <1>9. Joined(fin, its, resp.turn)
    BY <1>1, <1>2, <1>4, CommitStore
  <1> QED BY <1>5, <1>6, <1>7, <1>8, <1>9 DEF Ready

\* The words of a turn, and the answer to them.
LEMMA BeginResponseGood ==
  ASSUME Good, NEW bytes \in Bytes, NEW text \in BOOLEAN, BeginResponse(bytes, text)
  PROVE  Good' /\ OnlyEvicted
  <1>1. started \in Nat /\ turns \in Nat /\ resp.turn \in Nat
    BY Limits DEF Good, Types
  <1>2. CASE UNCHANGED <<items, gen, textOnly, timeline, request, done, started, wire, rendered>>
    <2>1. turns' = turns /\ resp' = [resp EXCEPT !.used = TRUE]
      BY <1>2, Limits DEF BeginResponse
    <2>2. Types'
      BY <1>2, <2>1 DEF Good, Types
    <2>3. Kept' /\ Requested'
      BY <1>2, <2>1 DEF Good, Kept, Requested
    <2>4. resp'.turn = resp.turn /\ resp'.used
      BY <2>1 DEF Good, Types
    <2>5. Free'
      BY <2>1, <2>4 DEF Good, Free
    <2> QED BY <1>2, <2>2, <2>3, <2>5, SameEvicts DEF Good
  <1> DEFINE fin == Finalized(items)
             its == CommitUser(fin, resp.turn, bytes)
             M == Len(its)
  <1>3. CASE /\ resp' = [resp EXCEPT !.used = TRUE]
             /\ request' = Context(its, 0)
             /\ StartWithTurn(its, resp.turn, text)
    <2>1. /\ resp.live /\ ~resp.used /\ resp.turn # 0 /\ turns' = turns /\ resp.turn <= turns
      BY DEF BeginResponse, Good, Free
    <2>2. Joined(fin, its, resp.turn) /\ Ready(its, resp.turn) /\ Settled(its)
      BY <2>1, CommittedReady
    <2> HIDE DEF fin, its
    <2>3. /\ Well(its) /\ M >= 2 /\ its[M].role = "user" /\ its[M].turn = resp.turn
          /\ its[M - 1].turn # resp.turn
      BY <2>2 DEF Joined
    <2>4. items' = BeginAssistant(its, resp.turn, started + 1, text)
      BY <1>3, <2>2, <2>3, SettledStays DEF StartWithTurn
    <2>5. request' \in Seq(MessageRecord) /\ Asks(request', resp.turn)
      BY <1>3, <2>3, ContextAsks
    <2>6. /\ gen' = started + 1 /\ started' = started + 1 /\ resp'.turn = resp.turn
          /\ resp'.used /\ started + 1 \in 0 .. MaxTurns
      <3>1. gen' = started + 1 /\ started' = started + 1 /\ started < MaxTurns
        BY <1>3 DEF StartWithTurn
      <3>2. resp'.turn = resp.turn /\ resp'.used
        BY <1>3 DEF Good, Types
      <3>3. started + 1 \in 0 .. MaxTurns
        BY <1>1, <3>1, Limits
      <3> QED BY <3>1, <3>2, <3>3
    <2>7. Types'
      BY <1>3, <2>1, <2>6 DEF Good, Types, StartWithTurn, NoTimeline
    <2>8. resp.turn \in Nat \ {0} /\ resp.turn <= turns' /\ resp'.turn <= turns'
      BY <1>1, <2>1, <2>6
    <2> QED BY <2>2, <2>4, <2>5, <2>6, <2>7, <2>8, StartGood
  <1> QED BY <1>2, <1>3 DEF BeginResponse

\* A generation is over.
LEMMA CancelGenerationGood == ASSUME Good, CancelGeneration PROVE Good' /\ OnlyEvicted
  <1> DEFINE L == Len(items)
  <1>1. /\ Well(items') /\ Fits(items') /\ Len(items') = L /\ Settled(items')
        /\ \A k \in 1 .. L : Same(items[k], items'[k])
    BY FinalizedStore DEF CancelGeneration
  <1>2. /\ gen' = 0 /\ turns' = turns /\ started' = started /\ request' = request
        /\ ~resp'.live /\ resp'.turn = resp.turn
    BY DEF CancelGeneration, Good, Types
  <1>3. Types'
    <2>1. 0 \in 0 .. MaxTurns
      BY Limits
    <2> QED BY <2>1 DEF Good, Types, CancelGeneration
  <1>4. Kept'
    <2> SUFFICES ASSUME NEW k \in 2 .. L
                 PROVE  Allowed(items'[k], k, L, 0, turns, started)
      BY <1>1, <1>2 DEF Kept
    <2>1. Allowed(items[k], k, L, gen, turns, started)
      BY DEF Good, Kept
    <2>2. Same(items[k], items'[k]) /\ items'[k].status # "pending"
      <3>1. k \in 1 .. L
        BY DEF Good, Well
      <3> QED BY <1>1, <3>1 DEF Settled
    <2> QED BY <2>1, <2>2 DEF Allowed, Same
  <1>5. Free' /\ Requested'
    BY <1>2 DEF Good, Free, Requested
  <1>6. OnlyEvicted
    <2>1. Kin(items, items')
      BY FinalizedKin DEF CancelGeneration
    <2>2. Leaves(items', items', 0)
      BY <1>1, NothingLeaves
    <2> QED BY <2>1, <2>2, LeavesEvict DEF Good
  <1> QED BY <1>1, <1>2, <1>3, <1>4, <1>5, <1>6 DEF Good

\* What the workers' handlers find: the answer of their generation, at the end.
LEMMA ActiveAnswer ==
  ASSUME Good, NEW g, Active(g)
  PROVE  /\ g = gen /\ gen # 0 /\ Answers(items, gen)
         /\ items[Len(items)] \in ItemRecord /\ Spoken(items[Len(items)])
         /\ items[Len(items)].role = "assistant"
         /\ AssistantAt(items, g) = Len(items)
         /\ \A q : Changed(items, g, q) = [items EXCEPT ![Len(items)] = q]
  <1>1. g = gen /\ gen # 0 /\ Answers(items, gen)
    BY DEF Active, Good
  <1>2. Len(items) \in Nat /\ Len(items) >= 2 /\ Well(items)
    BY <1>1 DEF Answers, Well
  <1>3. Len(items) \in 1 .. Len(items) /\ Len(items) \in 2 .. Len(items)
    BY <1>2
  <1>4. /\ items[Len(items)] \in ItemRecord /\ Spoken(items[Len(items)])
        /\ items[Len(items)].role = "assistant"
    BY <1>1, <1>2, <1>3 DEF Answers, Well
  <1>5. /\ AssistantAt(items, gen) = Len(items)
        /\ \A q : Changed(items, gen, q) = [items EXCEPT ![Len(items)] = q]
    BY <1>1, AnswerFound
  <1> QED BY <1>1, <1>4, <1>5

\* Text received.
LEMMA AppendContentGrows ==
  ASSUME Good, NEW g, AppendContent(g)
  PROVE  Grown([items[Len(items)] EXCEPT !.content = items[Len(items)].content + 1])
  <1> DEFINE p == items[Len(items)]
             q == [p EXCEPT !.content = p.content + 1]
  <1>1. /\ gen # 0 /\ p \in ItemRecord /\ Spoken(p) /\ p.role = "assistant"
        /\ AssistantAt(items, g) = Len(items)
        /\ Changed(items, g, q) = [items EXCEPT ![Len(items)] = q]
    BY ActiveAnswer DEF AppendContent
  <1>2. p.content < MaxItemBytes /\ items' = Trimmed([items EXCEPT ![Len(items)] = q], p.turn)
    BY <1>1 DEF AppendContent
  <1> HIDE DEF p
  <1>3. p.content \in Nat /\ p.sentText \in Nat /\ MaxItemBytes \in Nat
    BY <1>1, ItemTyped, Limits
  <1>4. p.content + 1 \in Bytes /\ p.content <= p.content + 1
    BY <1>2, <1>3
  <1>5. q \in ItemRecord
    BY <1>1, <1>4 DEF ItemRecord
  <1>6. /\ Same(p, q) /\ q.content = p.content + 1 /\ q.sentText = p.sentText
        /\ q.chunks = p.chunks
    BY <1>1 DEF Same, ItemRecord
  <1> HIDE DEF q
  <1>7. Spoken(q)
    <2>1. p.sentText <= p.content /\ ChunkBytes(p) <= p.sentText
      BY <1>1 DEF Spoken, Sized
    <2>2. p.sentText <= p.content + 1
      BY <1>3, <2>1
    <2>3. ChunkBytes(q) = ChunkBytes(p)
      BY <1>6 DEF ChunkBytes
    <2> QED BY <1>1, <1>4, <1>6, <2>1, <2>2, <2>3 DEF Spoken, Sized, Same
  <1>8. Same(items[Len(items)], q) /\ items' = Trimmed([items EXCEPT ![Len(items)] = q], q.turn)
    BY <1>2, <1>6 DEF p, Same
  <1>9. items[Len(items)].status = "pending"
    BY ActiveAnswer, AnswerFound DEF AppendContent, TextRoom
  <1> QED BY <1>1, <1>5, <1>7, <1>8, <1>9 DEF Grown, p, q

\* That keeps the invariant.
LEMMA AppendContentGood == ASSUME Good, NEW g, AppendContent(g) PROVE Good' /\ OnlyEvicted
  <1>1. Types' /\ UNCHANGED <<gen, resp, request, turns, started>>
    BY DEF AppendContent, Good, Types
  <1> QED BY <1>1, AppendContentGrows, GrowGood

\* Text sent.
LEMMA AppendSentGrows ==
  ASSUME Good, NEW g, AppendSent(g)
  PROVE  Grown([items[Len(items)] EXCEPT !.sentText = items[Len(items)].sentText + 1])
  <1> DEFINE p == items[Len(items)]
             q == [p EXCEPT !.sentText = p.sentText + 1]
  <1>1. /\ gen # 0 /\ p \in ItemRecord /\ Spoken(p) /\ p.role = "assistant"
        /\ AssistantAt(items, g) = Len(items)
        /\ Changed(items, g, q) = [items EXCEPT ![Len(items)] = q]
    BY ActiveAnswer DEF AppendSent
  <1>2. p.sentText < p.content /\ items' = Trimmed([items EXCEPT ![Len(items)] = q], p.turn)
    BY <1>1 DEF AppendSent
  <1> HIDE DEF p
  <1>3. p.content \in Nat /\ p.sentText \in Nat /\ p.content \in Bytes /\ MaxItemBytes \in Nat
        /\ ChunkBytes(p) \in Nat /\ ChunkBytes(p) <= p.sentText
    BY <1>1, ItemTyped, ItemBytesNat, Limits DEF Spoken, Sized
  <1>4. /\ p.sentText + 1 \in Bytes /\ p.sentText + 1 <= p.content
        /\ ChunkBytes(p) <= p.sentText + 1
    BY <1>2, <1>3
  <1>5. q \in ItemRecord
    BY <1>1, <1>4 DEF ItemRecord
  <1>6. /\ Same(p, q) /\ q.content = p.content /\ q.sentText = p.sentText + 1
        /\ q.chunks = p.chunks
    BY <1>1 DEF Same, ItemRecord
  <1> HIDE DEF q
  <1>7. Spoken(q)
    <2>1. ChunkBytes(q) = ChunkBytes(p)
      BY <1>6 DEF ChunkBytes
    <2> QED BY <1>1, <1>3, <1>4, <1>6, <2>1 DEF Spoken, Sized, Same
  <1>8. Same(items[Len(items)], q) /\ items' = Trimmed([items EXCEPT ![Len(items)] = q], q.turn)
    BY <1>2, <1>6 DEF p, Same
  <1>9. items[Len(items)].status = "pending"
    BY ActiveAnswer, AnswerFound DEF AppendSent
  <1> QED BY <1>1, <1>5, <1>7, <1>8, <1>9 DEF Grown, p, q

\* That keeps the invariant.
LEMMA AppendSentGood == ASSUME Good, NEW g, AppendSent(g) PROVE Good' /\ OnlyEvicted
  <1>1. Types' /\ UNCHANGED <<gen, resp, request, turns, started>>
    BY DEF AppendSent, Good, Types
  <1> QED BY <1>1, AppendSentGrows, GrowGood

\* A chunk more is its bytes more.
LEMMA ChunkAdds ==
  ASSUME NEW p, NEW q, NEW c \in ChunkRecord, p.chunks \in Seq(ChunkRecord),
         q.chunks = Append(p.chunks, c)
  PROVE  ChunkBytes(q) = ChunkBytes(p) + c.bytes
  <1> DEFINE n == Len(p.chunks)
             v == BytesOf(p.chunks)
             w == BytesOf(q.chunks)
  <1>1. n \in Nat /\ q.chunks \in Seq(ChunkRecord) /\ Len(q.chunks) = n + 1
    OBVIOUS
  <1>2. Numbers(v, n) /\ Numbers(w, n + 1)
    BY <1>1, ChunksNumbers
  <1>3. (\A k \in 1 .. n : w[k] = v[k]) /\ w[n + 1] = c.bytes
    BY <1>1 DEF BytesOf
  <1> HIDE DEF n, v, w
  <1>4. Total(w, n) = Total(v, n)
    BY <1>1, <1>2, <1>3, TotalSame
  <1>5. Total(w, n + 1) = Total(w, n) + w[n + 1]
    BY <1>1, <1>2, TotalNext
  <1> QED BY <1>1, <1>3, <1>4, <1>5 DEF ChunkBytes, n, v, w

\* The answer with a chunk more, up to a frame.
Spoke(p, end) ==
  [p EXCEPT !.chunks = Append(p.chunks, [bytes |-> 1, first |-> timeline.generated,
                                         end |-> end, played |-> FALSE]),
            !.generated = end]

\* A chunk synthesised.
LEMMA RegisterSpeechChunkGrows ==
  ASSUME Good, NEW g, NEW frames \in 1 .. ChunkFrames, RegisterSpeechChunk(g, frames)
  PROVE  Grown(Spoke(items[Len(items)], timeline.generated + frames))
  <1> DEFINE p == items[Len(items)]
             end == timeline.generated + frames
             c == [bytes |-> 1, first |-> timeline.generated, end |-> end, played |-> FALSE]
             q == [p EXCEPT !.chunks = Append(p.chunks, c), !.generated = end]
  <1>1. /\ gen # 0 /\ p \in ItemRecord /\ Spoken(p) /\ p.role = "assistant"
        /\ AssistantAt(items, g) = Len(items)
        /\ Changed(items, g, q) = [items EXCEPT ![Len(items)] = q]
    BY ActiveAnswer DEF RegisterSpeechChunk
  <1>2. ChunkBytes(p) < p.sentText /\ items' = Trimmed([items EXCEPT ![Len(items)] = q], p.turn)
    BY <1>1 DEF RegisterSpeechChunk
  <1>3. timeline.generated \in Nat /\ end \in Nat
    <2>1. timeline.generated \in Nat
      BY DEF Good, Types
    <2> QED BY <2>1
  <1> HIDE DEF p, end
  <1>4. c \in ChunkRecord /\ c.bytes = 1
    <2>1. 1 \in Bytes
      BY Limits
    <2> QED BY <1>3, <2>1 DEF ChunkRecord
  <1> HIDE DEF c
  <1>5. p.chunks \in Seq(ChunkRecord) /\ Append(p.chunks, c) \in Seq(ChunkRecord)
    BY <1>1, <1>4, ItemTyped
  <1>6. q \in ItemRecord
    BY <1>1, <1>3, <1>5 DEF ItemRecord
  <1>7. /\ Same(p, q) /\ q.content = p.content /\ q.sentText = p.sentText
        /\ q.chunks = Append(p.chunks, c)
    BY <1>1 DEF Same, ItemRecord
  <1> HIDE DEF q
  <1>8. Spoken(q)
    <2>1. ChunkBytes(q) = ChunkBytes(p) + 1
      BY <1>4, <1>5, <1>7, ChunkAdds
    <2>2. ChunkBytes(p) \in Nat /\ p.sentText \in Nat
      BY <1>1, ItemBytesNat, ItemTyped
    <2>3. ChunkBytes(q) <= p.sentText
      BY <1>2, <2>1, <2>2
    <2> QED BY <1>1, <1>7, <2>3 DEF Spoken, Sized, Same
  <1>9. Same(items[Len(items)], q)
        /\ items' = Trimmed([items EXCEPT ![Len(items)] = q], q.turn)
    BY <1>2, <1>7 DEF p, Same
  <1>10. items[Len(items)].status = "pending"
    BY ActiveAnswer, AnswerFound DEF RegisterSpeechChunk
  <1>11. Grown(q)
    BY <1>1, <1>6, <1>8, <1>9, <1>10 DEF Grown, p
  <1> QED BY <1>11 DEF Spoke, p, q, c, end

\* That keeps the invariant.
LEMMA RegisterSpeechChunkGood ==
  ASSUME Good, NEW g, NEW frames \in 1 .. ChunkFrames, RegisterSpeechChunk(g, frames)
  PROVE  Good' /\ OnlyEvicted
  <1> DEFINE end == timeline.generated + frames
  <1>1. Grown(Spoke(items[Len(items)], end))
    BY RegisterSpeechChunkGrows
  <1>2. UNCHANGED <<gen, resp, request, turns, started>>
    BY DEF RegisterSpeechChunk
  <1>3. timeline.generated \in Nat /\ end \in Nat
    BY DEF Good, Types
  <1>4. timeline' = [timeline EXCEPT !.generated = end]
    BY DEF RegisterSpeechChunk
  <1> HIDE DEF end
  <1>5. Types'
    <2>1. timeline' \in [open: BOOLEAN, generated: Nat, sent: Nat, played: Nat, acked: Nat]
      BY <1>3, <1>4 DEF Good, Types
    <2> QED BY <2>1 DEF RegisterSpeechChunk, Good, Types
  <1> QED BY <1>1, <1>2, <1>5, GrowGood

\* The positions of a timeline are marked on the answer.
LEMMA SyncTouches ==
  ASSUME Good, gen # 0, NEW its, Answers(its, gen), NEW t, t.sent \in Nat, t.played \in Nat
  PROVE  Touched(its, Synced(its, t))
  <1>1. Touched(its, Progress(its, gen, t.sent, t.played))
    BY ProgressTouches
  <1>2. Touched(its, its)
    BY DEF Touched
  <1> QED BY <1>1, <1>2 DEF Synced

\* The text ended.
LEMMA MarkAssistantTextDoneGood ==
  ASSUME Good, NEW g, MarkAssistantTextDone(g)
  PROVE  Good' /\ OnlyEvicted
  <1>1. g = gen /\ gen # 0 /\ Answers(items, gen)
    BY ActiveAnswer DEF MarkAssistantTextDone
  <1>2. Touched(items, items')
    BY <1>1, DoneTouches DEF MarkAssistantTextDone
  <1>3. Types' /\ UNCHANGED <<gen, resp, request, turns, started>>
    BY DEF MarkAssistantTextDone, Good, Types
  <1> QED BY <1>1, <1>2, <1>3, TouchGood

\* A frame was sent.
LEMMA RecordAudioSentGood == ASSUME Good, NEW g, RecordAudioSent(g) PROVE Good' /\ OnlyEvicted
  <1>1. g = gen /\ gen # 0 /\ Answers(items, gen)
    BY ActiveAnswer DEF RecordAudioSent
  <1> DEFINE y == Greater(timeline.played, Lesser(timeline.acked, wire))
  <1>2. y \in Nat /\ wire \in Nat
    <2>1. timeline.played \in Nat /\ timeline.acked \in Nat /\ wire \in Nat
      BY DEF Good, Types
    <2> QED BY <2>1 DEF Greater, Lesser
  <1>3. timeline' = [timeline EXCEPT !.sent = wire, !.played = y]
    BY DEF RecordAudioSent
  <1> HIDE DEF y
  <1>4. timeline' \in [open: BOOLEAN, generated: Nat, sent: Nat, played: Nat, acked: Nat]
    BY <1>2, <1>3 DEF Good, Types
  <1>5. Types' /\ UNCHANGED <<gen, resp, request, turns, started>>
    BY <1>4 DEF RecordAudioSent, Good, Types
  <1>6. Touched(items, items')
    BY <1>1, <1>4, SyncTouches DEF RecordAudioSent
  <1> QED BY <1>1, <1>5, <1>6, TouchGood

\* A position was rendered.
LEMMA RecordPlaybackGood ==
  ASSUME Good, NEW g, NEW frames \in Nat, RecordPlayback(g, frames) PROVE Good' /\ OnlyEvicted
  <1>1. g = gen /\ gen # 0 /\ Answers(items, gen)
    BY ActiveAnswer DEF RecordPlayback
  <1> DEFINE a == Greater(timeline.acked, Lesser(frames, wire))
             y == Greater(timeline.played, Lesser(frames, timeline.sent))
  <1>2. a \in Nat /\ y \in Nat
    <2>1. timeline.played \in Nat /\ timeline.acked \in Nat /\ timeline.sent \in Nat /\ wire \in Nat
      BY DEF Good, Types
    <2> QED BY <2>1 DEF Greater, Lesser
  <1>3. timeline' = [timeline EXCEPT !.acked = a, !.played = y]
    BY DEF RecordPlayback
  <1> HIDE DEF a, y
  <1>4. timeline' \in [open: BOOLEAN, generated: Nat, sent: Nat, played: Nat, acked: Nat]
    BY <1>2, <1>3 DEF Good, Types
  <1>5. Types' /\ UNCHANGED <<gen, resp, request, turns, started>>
    BY <1>4 DEF RecordPlayback, Good, Types
  <1>6. Touched(items, items')
    BY <1>1, <1>4, SyncTouches DEF RecordPlayback
  <1> QED BY <1>1, <1>5, <1>6, TouchGood

\* The audio ended.
LEMMA MarkGenerationDoneGood ==
  ASSUME Good, NEW g, MarkGenerationDone(g)
  PROVE  Good' /\ OnlyEvicted
  <1> DEFINE jts == Done(items, g, TRUE)
  <1>1. g = gen /\ gen # 0 /\ Answers(items, gen)
    BY ActiveAnswer DEF MarkGenerationDone
  <1>2. Touched(items, jts)
    BY <1>1, DoneTouches
  <1>3. items' = Synced(jts, timeline)
    BY DEF MarkGenerationDone
  <1> HIDE DEF jts
  <1>4. Answers(jts, gen)
    BY <1>1, <1>2, TouchedStore
  <1>5. timeline.sent \in Nat /\ timeline.played \in Nat
    BY DEF Good, Types
  <1>6. Touched(jts, items')
    BY <1>1, <1>3, <1>4, <1>5, SyncTouches
  <1>7. Touched(items, items')
    BY <1>1, <1>2, <1>6, TouchedTwice
  <1>8. Types' /\ UNCHANGED <<gen, resp, request, turns, started>>
    BY DEF MarkGenerationDone, Good, Types
  <1> QED BY <1>1, <1>7, <1>8, TouchGood

\* Frames on the wire and in the client leave the store alone.
LEMMA FramesGood ==
  ASSUME Good, (\E g \in Gens : WriteFrame(g)) \/ Render
  PROVE  Good' /\ OnlyEvicted
  <1>1. UNCHANGED <<items, gen, textOnly, timeline, resp, request, done, turns, started>>
    BY DEF WriteFrame, Render
  <1>2. wire' \in Nat /\ rendered' \in [Gens -> Nat]
    BY DEF WriteFrame, Render, Good, Types
  <1>3. Types'
    BY <1>1, <1>2 DEF Good, Types
  <1>4. Kept' /\ Free' /\ Requested'
    BY <1>1 DEF Good, Kept, Free, Requested
  <1> QED BY <1>1, <1>3, <1>4, SameEvicts DEF Good

\* One step of the session.
LEMMA NextGood == ASSUME Good, [Next]_vars PROVE Good' /\ OnlyEvicted
  <1>1. CASE NewResponseContext
    BY <1>1, NewResponseContextGood
  <1>2. ASSUME NEW bytes \in Bytes, NEW text \in BOOLEAN, BeginResponse(bytes, text) PROVE Good' /\ OnlyEvicted
    BY <1>2, BeginResponseGood
  <1>3. ASSUME NEW text \in BOOLEAN, CreateGeneration(text) PROVE Good' /\ OnlyEvicted
    BY <1>3, CreateGenerationGood
  <1>4. CASE CancelGeneration
    BY <1>4, CancelGenerationGood
  <1>5. ASSUME NEW g \in Gens, AppendContent(g) PROVE Good' /\ OnlyEvicted
    BY <1>5, AppendContentGood
  <1>6. ASSUME NEW g \in Gens, AppendSent(g) PROVE Good' /\ OnlyEvicted
    BY <1>6, AppendSentGood
  <1>7. ASSUME NEW g \in Gens, MarkAssistantTextDone(g) PROVE Good' /\ OnlyEvicted
    BY <1>7, MarkAssistantTextDoneGood
  <1>8. ASSUME NEW g \in Gens, NEW frames \in 1 .. ChunkFrames, RegisterSpeechChunk(g, frames)
        PROVE  Good' /\ OnlyEvicted
    BY <1>8, RegisterSpeechChunkGood
  <1>9. CASE (\E g \in Gens : WriteFrame(g)) \/ Render
    BY <1>9, FramesGood
  <1>10. ASSUME NEW g \in Gens, RecordAudioSent(g) PROVE Good' /\ OnlyEvicted
    BY <1>10, RecordAudioSentGood
  <1>11. ASSUME NEW g \in Gens, NEW frames \in 0 .. rendered[g], RecordPlayback(g, frames)
         PROVE  Good' /\ OnlyEvicted
    <2>1. frames \in Nat
      OBVIOUS
    <2> QED BY <1>11, <2>1, RecordPlaybackGood
  <1>12. ASSUME NEW g \in Gens, MarkGenerationDone(g) PROVE Good' /\ OnlyEvicted
    BY <1>12, MarkGenerationDoneGood
  <1>13. CASE UNCHANGED vars
    <2>1. Types' /\ Kept' /\ Free' /\ Requested'
      BY <1>13 DEF Good, Types, Kept, Free, Requested, vars
    <2>2. UNCHANGED items
      BY <1>13 DEF vars
    <2> QED BY <1>13, <2>1, <2>2, SameEvicts DEF Good, vars
  <1> QED BY <1>1, <1>2, <1>3, <1>4, <1>5, <1>6, <1>7, <1>8, <1>9, <1>10, <1>11, <1>12, <1>13,
             Zenon DEF Next

-----------------------------------------------------------------------------
(* What was heard.                                                         *)

\* Text, speech and playback of an answer are over.
Ripe(p) == p.llmDone /\ p.audioDone /\ \A k \in 1 .. Len(p.chunks) : p.chunks[k].played

\* What is remembered of an answer is no more than was rendered of it.
Remembered(p, r) ==
  p.role = "assistant" =>
      /\ p.gen \in Gens /\ p.status # "committed" /\ p.played <= r[p.gen]
      /\ \A k \in 1 .. Len(p.chunks) : p.chunks[k].played => p.chunks[k].end <= r[p.gen]
Recalls(its, r) == \A i \in 2 .. Len(its) : Remembered(its[i], r)

\* The positions of a timeline of which n frames are on the wire, or were rendered.
Timed(t, n) == t.played <= t.sent /\ t.sent <= n /\ n <= t.generated
Rendered(t, n) == t.played <= n /\ t.acked <= n

\* An answer has the timeline's frames...
Within(p, t) ==
  /\ p.status \in {"pending", "completed"} \/ p.chunks = <<>>
  /\ p.status = "pending" =>
        p.generated = t.generated /\ \A k \in 1 .. Len(p.chunks) : p.chunks[k].end <= t.generated

\* ...and knows, while it is pending, which of its chunks were played; not all is over.
Upto(p, t) ==
  p.status = "pending" =>
      ~Ripe(p) /\ \A k \in 1 .. Len(p.chunks) : p.chunks[k].end <= t.played => p.chunks[k].played

Tracks(p, t) == p.textOnly = ~t.open /\ (~p.textOnly => Within(p, t) /\ Upto(p, t))

\* What was heard of the answers of its, but that of g, r quotes after their words.
Quotes(its, r, g) ==
  \A i \in 2 .. Len(its), k \in 1 .. Len(r) :
      /\ its[i].role = "assistant" /\ its[i].gen # g
      /\ r[k].role = "user" /\ r[k].turn = its[i].turn
      /\ Delivered(its[i]) > 0 /\ its[i].status # "cancelled"
      => k < Len(r) /\ r[k + 1] = Message(its[i])

Faithful ==
  /\ Recalls(items, rendered) /\ Timed(timeline, wire)
  /\ gen # 0 => /\ Rendered(timeline, rendered[gen])
                /\ Tracks(items[Len(items)], timeline)
                /\ Quotes(items, request, gen)

\* Delivered adds up the chunks that were played, up to one that was not.
LEMMA DeliveredIs ==
  ASSUME NEW p \in ItemRecord, ~p.textOnly
  PROVE  \E k \in 0 .. Len(p.chunks) : /\ \A i \in 1 .. k : p.chunks[i].played
                                       /\ Delivered(p) = Total(BytesOf(p.chunks), k)
  <1> DEFINE n == Len(p.chunks)
             heard == {k \in 0 .. n : \A i \in 1 .. k : p.chunks[i].played}
  <1>1. n \in Nat
    BY ItemTyped
  <1>2. Max(heard) \in heard
    <2>1. 0 \in heard
      BY <1>1
    <2>2. heard \in SUBSET Nat /\ \A x \in heard : x <= n
      BY <1>1
    <2> HIDE DEF heard, n
    <2> QED BY <1>1, <2>1, <2>2, MaxIsGreatest
  <1>3. Delivered(p) = Total(BytesOf(p.chunks), Max(heard))
    BY DEF Delivered
  <1> QED BY <1>2, <1>3

\* What is remembered was heard.
LEMMA RecallsHeard ==
  ASSUME Well(items), Recalls(items, rendered), rendered \in [Gens -> Nat] PROVE RememberedWasHeard
  <1> SUFFICES ASSUME NEW i \in DOMAIN items, items[i].role = "assistant", ~items[i].textOnly
               PROVE  Delivered(items[i])
                        <= Total([k \in DOMAIN items[i].chunks |->
                                     IF items[i].chunks[k].end <= rendered[items[i].gen]
                                     THEN items[i].chunks[k].bytes ELSE 0],
                                 Len(items[i].chunks))
    BY DEF RememberedWasHeard
  <1> DEFINE p == items[i]
             n == Len(p.chunks)
             v == BytesOf(p.chunks)
             w == [k \in DOMAIN p.chunks |->
                     IF p.chunks[k].end <= rendered[p.gen] THEN p.chunks[k].bytes ELSE 0]
  <1>1. p \in ItemRecord /\ i \in 2 .. Len(items)
    <2>1. items \in Seq(ItemRecord) /\ i # 1 /\ i \in 1 .. Len(items)
      BY DEF Well, Prompted
    <2> QED BY <2>1
  <1>2. \A k \in 1 .. n : p.chunks[k].played => p.chunks[k].end <= rendered[p.gen]
    BY <1>1 DEF Recalls, Remembered
  <1>3. PICK k \in 0 .. n : (\A j \in 1 .. k : p.chunks[j].played) /\ Delivered(p) = Total(v, k)
    BY <1>1, DeliveredIs
  <1>4. Numbers(v, n) /\ n \in Nat /\ DOMAIN p.chunks = 1 .. n
    BY <1>1, ItemTyped, ChunksNumbers
  <1>5. \A j \in 1 .. n : v[j] = p.chunks[j].bytes
    BY <1>4 DEF BytesOf
  <1>6. \A j \in 1 .. n : w[j] = IF p.chunks[j].end <= rendered[p.gen] THEN v[j] ELSE 0
    BY <1>4, <1>5
  <1> HIDE DEF p, n, v, w
  <1>7. k \in Nat /\ k <= n /\ \A j \in 1 .. k : j \in 1 .. n
    BY <1>3, <1>4
  <1>8. Numbers(w, n) /\ Numbers(v, k)
    BY <1>4, <1>6, <1>7 DEF Numbers
  <1>9. \A j \in 1 .. k : v[j] <= w[j]
    <2> SUFFICES ASSUME NEW j \in 1 .. k PROVE v[j] <= w[j]
      OBVIOUS
    <2>1. w[j] = v[j] /\ v[j] \in Nat
      BY <1>2, <1>3, <1>4, <1>6, <1>7 DEF Numbers
    <2> QED BY <2>1
  <1>10. Total(v, k) <= Total(w, n)
    BY <1>4, <1>7, <1>8, <1>9, TotalMonotone
  <1> QED BY <1>3, <1>10 DEF p, n, v, w

\* What is complete is said to be.
LEMMA TracksComplete ==
  ASSUME Good, Faithful PROVE CompletesWhenHeard
  <1> SUFFICES ASSUME NEW i \in DOMAIN items,
                      items[i].role = "assistant", items[i].gen = gen, ~items[i].textOnly,
                      items[i].llmDone, items[i].audioDone,
                      timeline.played = timeline.generated, items[i].chunks # <<>>
               PROVE  items[i].status = "completed"
    BY DEF CompletesWhenHeard
  <1> DEFINE L == Len(items)
  <1>1. items \in Seq(ItemRecord) /\ i \in 1 .. L /\ L \in Nat /\ i # 1 /\ i \in 2 .. L
    <2>1. items \in Seq(ItemRecord) /\ i # 1 /\ i \in 1 .. L /\ L \in Nat
      BY DEF Good, Well, Prompted
    <2> HIDE DEF L
    <2> QED BY <2>1
  <1>2. gen # 0
    BY <1>1 DEF Good, Well, Spoken
  <1>3. i = L
    <2> SUFFICES ASSUME i # L PROVE FALSE
      OBVIOUS
    <2>1. L \in 2 .. L /\ i < L
      <3> HIDE DEF L
      <3> QED BY <1>1
    <2>2. Follow(items[i], items[L])
      BY <1>1, <2>1 DEF Good, Well, Ordered
    <2> QED BY <1>2, <2>2 DEF Follow, Good, Answers
  <1>4. Within(items[i], timeline) /\ Upto(items[i], timeline)
    BY <1>2, <1>3 DEF Faithful, Tracks
  <1>5. CASE items[i].status = "pending"
    <2>1. \A k \in 1 .. Len(items[i].chunks) : items[i].chunks[k].played
      BY <1>4, <1>5 DEF Within, Upto
    <2> QED BY <1>4, <1>5, <2>1 DEF Upto, Ripe
  <1> QED BY <1>4, <1>5 DEF Within

\* What is quoted was heard.
LEMMA QuotesHeard ==
  ASSUME Good, Faithful PROVE RequestQuotesHeard
  <1> SUFFICES ASSUME gen # 0, NEW i \in DOMAIN items, NEW k \in DOMAIN request,
                      items[i].role = "assistant", items[i].gen # gen,
                      request[k].role = "user", request[k].turn = items[i].turn,
                      Delivered(items[i]) > 0, items[i].status # "cancelled"
               PROVE  /\ k < Len(request)
                      /\ request[k + 1] = [role |-> "assistant", turn |-> items[i].turn,
                                           bytes |-> Delivered(items[i])]
    BY DEF RequestQuotesHeard
  <1>1. i \in 2 .. Len(items)
    <2>1. items \in Seq(ItemRecord) /\ i # 1 /\ i \in 1 .. Len(items)
      BY DEF Good, Well, Prompted
    <2> QED BY <2>1
  <1>2. k \in 1 .. Len(request)
    BY DEF Good, Requested
  <1>3. k < Len(request) /\ request[k + 1] = Message(items[i])
    BY <1>1, <1>2, Zenon DEF Faithful, Quotes
  <1> QED BY <1>3 DEF Message

\* complete touches the status alone, and leaves nothing pending that is over.
LEMMA CompletedIs ==
  ASSUME NEW p \in ItemRecord
  PROVE  LET q == Completed(p)
         IN  /\ q.role = p.role /\ q.gen = p.gen /\ q.textOnly = p.textOnly
             /\ q.chunks = p.chunks /\ q.generated = p.generated /\ q.played = p.played
             /\ q.status = p.status \/ q.status \in {"completed", "cancelled"}
             /\ q.status = "cancelled" => q.chunks = <<>> \/ q.status = p.status
             /\ ~p.textOnly /\ q.status = "pending" => ~Ripe(q)
  <1> DEFINE q == Completed(p)
  <1>1. /\ p.chunks \in Seq(ChunkRecord) /\ p.status \in Statuses
    BY ItemTyped
  <1>2. DOMAIN p.chunks = 1 .. Len(p.chunks)
    BY <1>1
  <1>3. \/ /\ q = p
           /\ ~p.textOnly => ~(p.llmDone /\ p.audioDone /\ \A i \in DOMAIN p.chunks : p.chunks[i].played)
        \/ q = [p EXCEPT !.status = "completed"]
        \/ p.chunks = <<>> /\ q = [p EXCEPT !.status = "cancelled"]
    <2>1. p.chunks = <<>> \/ ~(p.chunks = <<>>)
      OBVIOUS
    <2> QED BY Zenon DEF Completed
  <1>4. CASE /\ q = p
             /\ ~p.textOnly => ~(p.llmDone /\ p.audioDone /\ \A i \in DOMAIN p.chunks : p.chunks[i].played)
    <2> HIDE DEF q
    <2>1. ~p.textOnly => ~Ripe(p)
      BY <1>2, <1>4 DEF Ripe
    <2> QED BY <1>4, <2>1 DEF q
  <1>5. ASSUME NEW s \in {"completed", "cancelled"}, q = [p EXCEPT !.status = s]
        PROVE  /\ q.role = p.role /\ q.gen = p.gen /\ q.textOnly = p.textOnly
               /\ q.chunks = p.chunks /\ q.generated = p.generated /\ q.played = p.played
               /\ q.status = s
    <2> HIDE DEF q
    <2> QED BY <1>5 DEF ItemRecord
  <1>6. CASE q = [p EXCEPT !.status = "completed"]
    BY <1>5, <1>6
  <1>7. CASE p.chunks = <<>> /\ q = [p EXCEPT !.status = "cancelled"]
    BY <1>5, <1>7
  <1> QED BY <1>3, <1>4, <1>6, <1>7

\* Progress marks what was played up to a position, and nothing beyond.
LEMMA ProgressedIs ==
  ASSUME NEW p \in ItemRecord, NEW sent \in Nat, NEW played \in Nat
  PROVE  LET q == Progressed(p, sent, played)
         IN  /\ q.role = p.role /\ q.gen = p.gen /\ q.textOnly = p.textOnly
             /\ q.status = p.status /\ q.generated = p.generated
             /\ Len(q.chunks) = Len(p.chunks)
             /\ \A b \in Nat : p.played <= b /\ played <= b => q.played <= b
             /\ \A k \in 1 .. Len(p.chunks) :
                   /\ q.chunks[k].end = p.chunks[k].end
                   /\ q.chunks[k].played => p.chunks[k].played \/ p.chunks[k].end <= q.played
                   /\ p.chunks[k].played => q.chunks[k].played
                   /\ /\ p.chunks[k].end <= played /\ played <= sent /\ sent <= p.generated
                      => q.chunks[k].played
  <1> DEFINE s == Greater(p.sent, Lesser(sent, p.generated))
             y == Greater(p.played, Lesser(played, s))
             heard(c) == [c EXCEPT !.played = @ \/ Heard(c, s, y)]
             new == [i \in DOMAIN p.chunks |-> heard(p.chunks[i])]
             n == Len(p.chunks)
  <1>1. p.sent \in Nat /\ p.generated \in Nat /\ p.played \in Nat
    BY ItemTyped
  <1>2. s \in Nat /\ y \in Nat
    BY <1>1 DEF Greater, Lesser
  <1>3. \A b \in Nat : p.played <= b /\ played <= b => y <= b
    <2> HIDE DEF s
    <2> QED BY <1>1, <1>2 DEF Greater, Lesser
  <1>4. played <= sent /\ sent <= p.generated => sent <= s /\ played <= y
    <2>1. sent <= p.generated => sent <= s
      BY <1>1 DEF Greater, Lesser
    <2> HIDE DEF s
    <2>2. played <= s => played <= y
      BY <1>1, <1>2 DEF Greater, Lesser
    <2> QED BY <1>1, <1>2, <2>1, <2>2
  <1> HIDE DEF s, y
  <1>5. p.chunks \in Seq(ChunkRecord) /\ n \in Nat /\ DOMAIN p.chunks = 1 .. n
    BY ItemTyped
  <1>6. ASSUME NEW c \in ChunkRecord
        PROVE  /\ heard(c).end = c.end
               /\ heard(c).played <=> c.played \/ (c.end <= s /\ c.end <= y)
               /\ c.end \in Nat
    <2> DEFINE b == c.played \/ Heard(c, s, y)
    <2>1. heard(c) = [c EXCEPT !.played = b]
      OBVIOUS
    <2>2. c.end \in Nat
      BY DEF ChunkRecord
    <2>3. b <=> c.played \/ (c.end <= s /\ c.end <= y)
      BY <1>2, <2>2 DEF Heard
    <2> HIDE DEF b
    <2>4. heard(c).played = b /\ heard(c).end = c.end
      BY <2>1 DEF ChunkRecord
    <2> QED BY <2>2, <2>3, <2>4
  <1> HIDE DEF heard
  <1>7. Len(new) = n /\ \A k \in 1 .. n : new[k] = heard(p.chunks[k]) /\ p.chunks[k] \in ChunkRecord
    BY <1>5
  <1>8. ASSUME NEW k \in 1 .. n
        PROVE  /\ new[k].end = p.chunks[k].end
               /\ new[k].played => p.chunks[k].played \/ p.chunks[k].end <= y
               /\ p.chunks[k].played => new[k].played
               /\ /\ p.chunks[k].end <= played /\ played <= sent /\ sent <= p.generated
                  => new[k].played
    <2> DEFINE c == p.chunks[k]
    <2>1. new[k] = heard(c) /\ c \in ChunkRecord
      BY <1>7
    <2> HIDE DEF c, new
    <2>2. /\ new[k].end = c.end /\ c.end \in Nat
          /\ new[k].played <=> c.played \/ (c.end <= s /\ c.end <= y)
      BY <1>6, <2>1
    <2>3. c.end <= played /\ played <= sent /\ sent <= p.generated => c.end <= s /\ c.end <= y
      BY <1>1, <1>2, <1>4, <2>2
    <2> QED BY <2>2, <2>3 DEF c
  <1> HIDE DEF new
  <1>9. Progressed(p, sent, played) = [p EXCEPT !.sent = s, !.played = y, !.chunks = new]
    BY DEF Progressed, s, y, heard, new
  <1> DEFINE q == [p EXCEPT !.sent = s, !.played = y, !.chunks = new]
  <1>10. /\ q.role = p.role /\ q.gen = p.gen /\ q.textOnly = p.textOnly
         /\ q.generated = p.generated /\ q.played = y
         /\ q.chunks = new /\ q.status = p.status
    BY DEF ItemRecord
  <1> HIDE DEF q
  <1> QED BY <1>3, <1>7, <1>8, <1>9, <1>10 DEF q

\* What is remembered stays so when an answer is completed or progresses.
LEMMA CompletedRemembers ==
  ASSUME NEW p \in ItemRecord, NEW r, Remembered(p, r) PROVE Remembered(Completed(p), r)
  <1> DEFINE q == Completed(p)
  <1>1. /\ q.role = p.role /\ q.gen = p.gen /\ q.chunks = p.chunks /\ q.played = p.played
        /\ q.status = p.status \/ q.status \in {"completed", "cancelled"}
    BY CompletedIs
  <1> HIDE DEF q
  <1>2. Remembered(q, r)
    BY <1>1 DEF Remembered
  <1> QED BY <1>2 DEF q

\* The positions must be of rendered frames.
LEMMA ProgressedRemembers ==
  ASSUME NEW p \in ItemRecord, NEW r \in [Gens -> Nat], Remembered(p, r),
         NEW sent \in Nat, NEW played \in Nat, p.role = "assistant" => played <= r[p.gen]
  PROVE  Remembered(Progressed(p, sent, played), r)
  <1> SUFFICES ASSUME p.role = "assistant" PROVE Remembered(Progressed(p, sent, played), r)
    BY ProgressedIs DEF Remembered
  <1> DEFINE q == Progressed(p, sent, played)
             b == r[p.gen]
  <1>1. /\ p.gen \in Gens /\ p.status # "committed" /\ p.played <= b /\ played <= b
        /\ \A k \in 1 .. Len(p.chunks) : p.chunks[k].played => p.chunks[k].end <= b
    BY DEF Remembered
  <1>2. b \in Nat /\ p.played \in Nat
    BY <1>1, ItemTyped
  <1>3. /\ q.role = p.role /\ q.gen = p.gen /\ q.status = p.status
        /\ Len(q.chunks) = Len(p.chunks)
        /\ \A a \in Nat : p.played <= a /\ played <= a => q.played <= a
        /\ \A k \in 1 .. Len(p.chunks) :
              /\ q.chunks[k].end = p.chunks[k].end
              /\ q.chunks[k].played => p.chunks[k].played \/ p.chunks[k].end <= q.played
    BY ProgressedIs
  <1>4. q.played \in Nat
    <2>1. Marked(p, q)
      BY ProgressMarks
    <2> HIDE DEF q
    <2> QED BY <2>1, ItemTyped DEF Marked
  <1> HIDE DEF q
  <1>5. q.played <= b
    BY <1>1, <1>2, <1>3
  <1>6. ASSUME NEW k \in 1 .. Len(p.chunks), q.chunks[k].played PROVE q.chunks[k].end <= b
    <2>1. CASE p.chunks[k].played
      BY <1>1, <1>3, <2>1
    <2>2. CASE p.chunks[k].end <= q.played
      <3>1. p.chunks[k].end \in Nat
        <4>1. p.chunks \in Seq(ChunkRecord)
          BY ItemTyped
        <4>2. p.chunks[k] \in ChunkRecord
          BY <4>1
        <4> QED BY <4>2 DEF ChunkRecord
      <3> QED BY <1>2, <1>3, <1>4, <1>5, <2>2, <3>1
    <2> QED BY <1>3, <1>6, <2>1, <2>2
  <1>7. Remembered(q, r)
    BY <1>1, <1>3, <1>5, <1>6 DEF Remembered, b
  <1> QED BY <1>7 DEF q

\* One item changes, and what is remembered stays so.
LEMMA RecallsChange ==
  ASSUME NEW its, NEW g, Answers(its, g), NEW r, Recalls(its, r), NEW q, Remembered(q, r)
  PROVE  LET all == [its EXCEPT ![Len(its)] = q]
         IN  /\ Recalls(all, r) /\ Len(all) = Len(its) /\ all[Len(its)] = q
             /\ \A k \in 1 .. Len(its) : k # Len(its) => all[k] = its[k]
  <1> DEFINE L == Len(its)
             all == [its EXCEPT ![L] = q]
  <1>1. its \in Seq(ItemRecord) /\ L \in Nat /\ L >= 2
    BY DEF Answers, Well
  <1>2. /\ Len(all) = L /\ all[L] = q
        /\ \A k \in 1 .. L : k # L => all[k] = its[k]
    BY <1>1
  <1> HIDE DEF all
  <1>3. Recalls(all, r)
    <2> SUFFICES ASSUME NEW k \in 2 .. L PROVE Remembered(all[k], r)
      BY <1>2 DEF Recalls
    <2>1. Remembered(its[k], r) /\ k \in 1 .. L
      <3>1. k \in 1 .. L
        <4> HIDE DEF L
        <4> QED BY <1>1
      <3> QED BY <3>1 DEF Recalls
    <2> QED BY <1>2, <2>1
  <1> QED BY <1>2, <1>3 DEF all

\* The positions of the timeline t come to the answer in progress.
Synchronous(its, t, r) ==
  /\ Recalls(its, r)
  /\ its[Len(its)].textOnly = ~t.open
  /\ ~its[Len(its)].textOnly => Within(its[Len(its)], t)
Moved(its, jts) ==
  Len(jts) = Len(its) /\ \A k \in 1 .. Len(its) : k # Len(its) => jts[k] = its[k]

\* Then the store knows all that the timeline does.
LEMMA SyncedTracks ==
  ASSUME NEW its, Answers(its, gen), gen \in Gens, NEW r \in [Gens -> Nat],
         NEW t \in [open: BOOLEAN, generated: Nat, sent: Nat, played: Nat, acked: Nat],
         Timed(t, t.sent), t.played <= r[gen], Synchronous(its, t, r)
  PROVE  /\ Recalls(Synced(its, t), r) /\ Tracks(Synced(its, t)[Len(its)], t)
         /\ Moved(its, Synced(its, t))
  <1> DEFINE L == Len(its)
             p == its[L]
             q == Completed(Progressed(p, t.sent, t.played))
  <1>1. p \in ItemRecord /\ p.role = "assistant" /\ p.gen = gen /\ L \in 2 .. L
    <2>1. its \in Seq(ItemRecord) /\ L \in Nat /\ L >= 2
      BY DEF Answers, Well
    <2> QED BY <2>1 DEF Answers
  <1>2. /\ t.sent \in Nat /\ t.played \in Nat /\ t.generated \in Nat
        /\ t.played <= t.sent /\ t.sent <= t.generated
    BY DEF Timed
  <1>3. CASE ~t.open
    BY <1>3, Zenon DEF Synced, Synchronous, Tracks, Moved
  <1>4. CASE t.open /\ p.status # "pending"
    <2>1. Synced(its, t) = its
      BY <1>4, AnswerFound, Zenon DEF Synced, Progress
    <2>2. Tracks(p, t)
      BY <1>4 DEF Synchronous, Tracks, Upto
    <2> QED BY <2>1, <2>2 DEF Synchronous, Moved
  <1>5. CASE t.open /\ p.status = "pending"
    <2>1. ~p.textOnly /\ Within(p, t)
      BY <1>5 DEF Synchronous
    <2>2. Synced(its, t) = [its EXCEPT ![L] = q]
      <3>1. Progress(its, gen, t.sent, t.played) = [its EXCEPT ![L] = q]
        BY <1>5, <2>1, ProgressIs
      <3> HIDE DEF q
      <3> QED BY <1>5, <3>1 DEF Synced
    <2> DEFINE a == Progressed(p, t.sent, t.played)
    <2>3. Remembered(a, r) /\ a \in ItemRecord
      <3>1. Remembered(p, r)
        BY <1>1 DEF Synchronous, Recalls
      <3> HIDE DEF p
      <3>2. Remembered(a, r)
        BY <1>1, <1>2, <3>1, ProgressedRemembers
      <3>3. Marked(p, a)
        BY <1>1, <1>2, ProgressMarks
      <3> HIDE DEF a
      <3> QED BY <3>2, <3>3 DEF Marked
    <2>4. /\ a.textOnly = p.textOnly /\ a.status = p.status /\ a.generated = p.generated
          /\ Len(a.chunks) = Len(p.chunks)
          /\ \A k \in 1 .. Len(p.chunks) :
                /\ a.chunks[k].end = p.chunks[k].end
                /\ /\ p.chunks[k].end <= t.played /\ t.played <= t.sent /\ t.sent <= p.generated
                   => a.chunks[k].played
      <3> HIDE DEF p
      <3> QED BY <1>1, <1>2, ProgressedIs, SMTT(20)
    <2> HIDE DEF a
    <2>5. Remembered(q, r)
      BY <2>3, CompletedRemembers DEF a
    <2>6. /\ q.textOnly = a.textOnly /\ q.chunks = a.chunks /\ q.generated = a.generated
          /\ q.status = a.status \/ q.status \in {"completed", "cancelled"}
          /\ q.status = "cancelled" => q.chunks = <<>> \/ q.status = a.status
          /\ ~a.textOnly /\ q.status = "pending" => ~Ripe(q)
      BY <2>3, CompletedIs DEF a
    <2> HIDE DEF q, p
    <2>7. /\ p.generated = t.generated /\ p.status = "pending"
          /\ \A k \in 1 .. Len(p.chunks) : p.chunks[k].end <= t.generated
      BY <1>5, <2>1 DEF Within
    <2>8. Within(q, t)
      BY <2>4, <2>6, <2>7 DEF Within
    <2>9. Upto(q, t)
      BY <1>2, <2>1, <2>4, <2>6, <2>7 DEF Upto
    <2>10. Tracks(q, t)
      <3>1. p.textOnly = ~t.open
        BY DEF Synchronous, p
      <3>2. q.textOnly = ~t.open
        BY <2>4, <2>6, <3>1, Zenon
      <3> QED BY <2>8, <2>9, <3>2, Zenon DEF Tracks
    <2> HIDE DEF L
    <2>11. Recalls([its EXCEPT ![L] = q], r) /\ Moved(its, [its EXCEPT ![L] = q])
           /\ [its EXCEPT ![L] = q][L] = q
      BY <2>5, RecallsChange DEF Synchronous, Moved, L
    <2> QED BY <2>2, <2>10, <2>11 DEF L
  <1> QED BY <1>3, <1>4, <1>5

\* The end of the text or of the audio is noted, and the store knows no less.
LEMMA DoneTracks ==
  ASSUME NEW its, NEW g, Answers(its, g), NEW r, Recalls(its, r), NEW t,
         Tracks(its[Len(its)], t), NEW audio \in BOOLEAN
  PROVE  /\ Recalls(Done(its, g, audio), r) /\ Tracks(Done(its, g, audio)[Len(its)], t)
         /\ Moved(its, Done(its, g, audio))
  <1> DEFINE L == Len(its)
             p == its[L]
             e == Ended(p, audio)
             q == Completed(e)
  <1>1. p \in ItemRecord /\ L \in 2 .. L
    <2>1. its \in Seq(ItemRecord) /\ L \in Nat /\ L >= 2
      BY DEF Answers, Well
    <2> QED BY <2>1
  <1>2. CASE p.status # "pending"
    <2>1. Done(its, g, audio) = its
      BY <1>2, AnswerFound, Zenon DEF Done
    <2> QED BY <2>1 DEF Moved
  <1>3. CASE p.status = "pending"
    <2>1. Done(its, g, audio) = [its EXCEPT ![L] = q]
      BY <1>3, DoneIs
    <2>2. e \in ItemRecord
      <3> HIDE DEF p
      <3> QED BY <1>1, EndMarks DEF Marked, Ended
    <2>3. /\ e.role = p.role /\ e.gen = p.gen /\ e.textOnly = p.textOnly /\ e.status = p.status
          /\ e.chunks = p.chunks /\ e.generated = p.generated /\ e.played = p.played
      <3> HIDE DEF p
      <3> QED BY <1>1 DEF Ended, ItemRecord
    <2>4. Remembered(p, r)
      BY <1>1 DEF Recalls
    <2> HIDE DEF e
    <2>5. Remembered(q, r)
      <3>1. Remembered(e, r)
        BY <2>3, <2>4 DEF Remembered
      <3> QED BY <2>2, <3>1, CompletedRemembers
    <2>6. /\ q.textOnly = e.textOnly /\ q.chunks = e.chunks /\ q.generated = e.generated
          /\ q.status = e.status \/ q.status \in {"completed", "cancelled"}
          /\ q.status = "cancelled" => q.chunks = <<>> \/ q.status = e.status
          /\ ~e.textOnly /\ q.status = "pending" => ~Ripe(q)
      BY <2>2, CompletedIs
    <2> HIDE DEF q, p, L
    <2>7. p.textOnly = ~t.open /\ (~p.textOnly => Within(p, t) /\ Upto(p, t))
      BY Zenon DEF Tracks, p, L
    <2>8. Tracks(q, t)
      <3>1. ~p.textOnly => Within(q, t)
        BY <1>3, <2>3, <2>6, <2>7 DEF Within
      <3>2. ~p.textOnly => Upto(q, t)
        BY <1>3, <2>3, <2>6, <2>7 DEF Upto
      <3>3. q.textOnly = p.textOnly
        BY <2>3, <2>6
      <3> QED BY <2>7, <3>1, <3>2, <3>3, Zenon DEF Tracks
    <2>9. Recalls([its EXCEPT ![L] = q], r) /\ Moved(its, [its EXCEPT ![L] = q])
          /\ [its EXCEPT ![L] = q][L] = q
      BY <2>5, RecallsChange DEF Moved, L
    <2> QED BY <2>1, <2>8, <2>9 DEF L
  <1> QED BY <1>2, <1>3

\* Finalize adds nothing to what is remembered.
LEMMA FinalizeRecalls ==
  ASSUME NEW its, NEW g, Answers(its, g), NEW r, Recalls(its, r)
  PROVE  Recalls(Finalize(its, g), r)
  <1> DEFINE L == Len(its)
             p == its[L]
             c == Completed(p)
             q == IF c.status # "pending" THEN c
                  ELSE IF Delivered(c) = 0 /\ c.played = 0 THEN [c EXCEPT !.status = "cancelled"]
                  ELSE [c EXCEPT !.status = "interrupted"]
  <1>1. p \in ItemRecord /\ L \in 2 .. L
    <2>1. its \in Seq(ItemRecord) /\ L \in Nat /\ L >= 2
      BY DEF Answers, Well
    <2> QED BY <2>1
  <1>2. CASE ~IsPending(its, g)
    BY <1>2 DEF Finalize
  <1>3. CASE IsPending(its, g)
    <2>1. Finalize(its, g) = [its EXCEPT ![L] = q]
      BY <1>3, AnswerFound DEF Finalize
    <2>2. Remembered(c, r) /\ c \in ItemRecord
      <3>1. Remembered(p, r)
        BY <1>1 DEF Recalls
      <3> HIDE DEF p
      <3> QED BY <1>1, <3>1, CompletedRemembers, CompletedMarks DEF Marked
    <2> HIDE DEF c
    <2>3. ASSUME NEW s \in {"cancelled", "interrupted"} PROVE Remembered([c EXCEPT !.status = s], r)
      <3> DEFINE d == [c EXCEPT !.status = s]
      <3>1. d.role = c.role /\ d.gen = c.gen /\ d.chunks = c.chunks /\ d.played = c.played /\ d.status = s
        BY <2>2 DEF ItemRecord
      <3> HIDE DEF d
      <3>2. Remembered(d, r)
        BY <2>2, <3>1 DEF Remembered
      <3> QED BY <3>2 DEF d
    <2>4. Remembered(q, r)
      BY <2>2, <2>3
    <2> HIDE DEF q, L
    <2>5. Recalls([its EXCEPT ![L] = q], r)
      BY <2>4, RecallsChange DEF L
    <2> QED BY <2>1, <2>5
  <1> QED BY <1>2, <1>3

\* Whatever plays is finalized with what is known to be heard.
LEMMA FinalizedRecalls ==
  ASSUME Good, Faithful PROVE Recalls(Finalized(items), rendered)
  <1>1. CASE gen = 0
    <2>1. Finalized(items) = items
      BY <1>1, FinalizedStore
    <2> QED BY <2>1 DEF Faithful
  <1>2. CASE gen # 0
    <2> DEFINE syn == Synced(items, timeline)
    <2>1. /\ Answers(items, gen) /\ gen \in Gens
          /\ timeline \in [open: BOOLEAN, generated: Nat, sent: Nat, played: Nat, acked: Nat]
          /\ rendered \in [Gens -> Nat] /\ wire \in Nat
      BY <1>2, Limits DEF Good, Types
    <2>2. timeline.sent \in Nat /\ timeline.played \in Nat /\ timeline.generated \in Nat
      BY <2>1
    <2>3. Timed(timeline, timeline.sent) /\ timeline.played <= rendered[gen]
      BY <1>2, <2>1, <2>2 DEF Faithful, Timed, Rendered
    <2>4. Synchronous(items, timeline, rendered)
      BY <1>2, Zenon DEF Faithful, Tracks, Synchronous
    <2>5. Recalls(syn, rendered)
      BY <2>1, <2>3, <2>4, SyncedTracks
    <2>6. Touched(items, syn)
      BY <1>2, <2>1, <2>2, SyncTouches
    <2> HIDE DEF syn
    <2>7. Answers(syn, gen)
      BY <2>1, <2>6, TouchedStore
    <2>8. Recalls(Finalize(syn, gen), rendered)
      BY <2>5, <2>7, FinalizeRecalls
    <2> QED BY <2>8 DEF Finalized, syn
  <1> QED BY <1>1, <1>2

\* More is rendered, and what is remembered was still heard.
LEMMA RecallsMore ==
  ASSUME NEW its \in Seq(ItemRecord), NEW r \in [Gens -> Nat], NEW s \in [Gens -> Nat],
         \A g \in Gens : r[g] <= s[g], Recalls(its, r)
  PROVE  Recalls(its, s)
  <1> SUFFICES ASSUME NEW i \in 2 .. Len(its), its[i].role = "assistant"
               PROVE  Remembered(its[i], s)
    BY DEF Recalls, Remembered
  <1> DEFINE p == its[i]
             b == r[p.gen]
             d == s[p.gen]
  <1>1. p \in ItemRecord /\ p.role = "assistant" /\ Remembered(p, r)
    BY DEF Recalls
  <1> HIDE DEF p
  <1>2. /\ p.gen \in Gens /\ p.status # "committed" /\ p.played <= b
        /\ \A k \in 1 .. Len(p.chunks) : p.chunks[k].played => p.chunks[k].end <= b
    BY <1>1 DEF Remembered
  <1>3. b \in Nat /\ d \in Nat /\ b <= d /\ p.played \in Nat /\ p.chunks \in Seq(ChunkRecord)
    BY <1>1, <1>2, ItemTyped
  <1> HIDE DEF b, d
  <1>4. \A k \in 1 .. Len(p.chunks) : p.chunks[k].end \in Nat
    <2>1. \A k \in 1 .. Len(p.chunks) : p.chunks[k] \in ChunkRecord
      BY <1>3
    <2> QED BY <2>1 DEF ChunkRecord
  <1>5. p.played <= d /\ \A k \in 1 .. Len(p.chunks) : p.chunks[k].played => p.chunks[k].end <= d
    BY <1>2, <1>3, <1>4
  <1>6. Remembered(p, s)
    BY <1>1, <1>2, <1>5 DEF Remembered, d
  <1> QED BY <1>6 DEF p

\* The positions are numbers.
LEMMA TimelineTyped ==
  ASSUME Good
  PROVE  /\ timeline.generated \in Nat /\ timeline.sent \in Nat /\ timeline.played \in Nat
         /\ timeline.acked \in Nat /\ wire \in Nat /\ rendered \in [Gens -> Nat]
         /\ gen # 0 => gen \in Gens /\ rendered[gen] \in Nat
  <1>1. /\ timeline \in [open: BOOLEAN, generated: Nat, sent: Nat, played: Nat, acked: Nat]
        /\ wire \in Nat /\ rendered \in [Gens -> Nat] /\ gen \in 0 .. MaxTurns /\ MaxTurns \in Nat
    BY Limits DEF Good, Types
  <1>2. gen # 0 => gen \in Gens
    BY <1>1
  <1> QED BY <1>1, <1>2

\* The store and the timeline rest; the client may render more.
LEMMA SameFaithful ==
  ASSUME Good, Faithful, UNCHANGED <<items, gen, timeline, request, wire>>,
         rendered' \in [Gens -> Nat], \A g \in Gens : rendered[g] <= rendered'[g]
  PROVE  Faithful'
  <1>1. items \in Seq(ItemRecord)
    BY DEF Good, Well
  <1>2. Recalls(items, rendered')
    BY <1>1, TimelineTyped, RecallsMore DEF Faithful
  <1>3. ASSUME gen # 0 PROVE Rendered(timeline, rendered'[gen])
    <2>1. /\ gen \in Gens /\ timeline.played \in Nat /\ timeline.acked \in Nat
          /\ rendered[gen] \in Nat /\ rendered'[gen] \in Nat /\ rendered[gen] <= rendered'[gen]
          /\ timeline.played <= rendered[gen] /\ timeline.acked <= rendered[gen]
      BY <1>3, TimelineTyped DEF Faithful, Rendered
    <2> QED BY <2>1 DEF Rendered
  <1> QED BY <1>2, <1>3, Zenon DEF Faithful

\* What was heard of older answers is still quoted when some of them leave.
LEMMA QuotesStay ==
  ASSUME NEW its, NEW jts, NEW r, NEW g, Quotes(its, r, g),
         \A k \in 2 .. Len(jts) : jts[k].gen = g \/ \E i \in 2 .. Len(its) : jts[k] = its[i]
  PROVE  Quotes(jts, r, g)
  <1> SUFFICES ASSUME NEW j \in 2 .. Len(jts), NEW k \in 1 .. Len(r),
                      jts[j].role = "assistant", jts[j].gen # g,
                      r[k].role = "user", r[k].turn = jts[j].turn,
                      Delivered(jts[j]) > 0, jts[j].status # "cancelled"
               PROVE  k < Len(r) /\ r[k + 1] = Message(jts[j])
    BY Zenon DEF Quotes
  <1>1. PICK i \in 2 .. Len(its) : jts[j] = its[i]
    OBVIOUS
  <1> QED BY <1>1, Zenon DEF Quotes

\* The answer in progress was marked, and the rest rests.
LEMMA TouchFaithful ==
  ASSUME Good, Good', Faithful, gen # 0, UNCHANGED <<gen, request, rendered, wire>>,
         Moved(items, items'), Recalls(items', rendered), Timed(timeline', wire),
         Rendered(timeline', rendered[gen]), Tracks(items'[Len(items)], timeline')
  PROVE  Faithful'
  <1> DEFINE L == Len(items)
  <1>1. Len(items') = L /\ \A k \in 1 .. L : k # L => items'[k] = items[k]
    BY DEF Moved
  <1>2. items'[L].gen = gen
    BY <1>1 DEF Good, Answers
  <1>3. L \in Nat
    BY DEF Good, Well
  <1> HIDE DEF L
  <1>4. \A k \in 2 .. L : items'[k].gen = gen \/ \E i \in 2 .. L : items'[k] = items[i]
    BY <1>1, <1>2, <1>3
  <1>5. Quotes(items', request, gen)
    BY <1>1, <1>4, QuotesStay DEF Faithful, L
  <1>6. Tracks(items'[Len(items')], timeline')
    BY <1>1 DEF L
  <1> QED BY <1>5, <1>6, Zenon DEF Faithful

\* Text or a chunk joined it, and the oldest exchanges may have left.
LEMMA GrowFaithful ==
  ASSUME Good, Faithful, gen # 0, NEW q \in ItemRecord, Spoken(q), Same(items[Len(items)], q),
         items' = Trimmed([items EXCEPT ![Len(items)] = q], q.turn),
         UNCHANGED <<gen, request, rendered, wire>>,
         Timed(timeline', wire), Rendered(timeline', rendered[gen]),
         Remembered(q, rendered), Tracks(q, timeline')
  PROVE  Faithful'
  <1> DEFINE L == Len(items)
             all == [items EXCEPT ![L] = q]
             m == Len(items')
  <1>1. Answers(items, gen) /\ L \in Nat /\ L >= 2 /\ Well(items)
    BY DEF Good, Answers, Well
  <1>2. /\ Well(all) /\ Len(all) = L /\ all[L] = q
        /\ \A k \in 1 .. L : k # L => all[k] = items[k]
    BY <1>1, ChangeWell
  <1> HIDE DEF all
  <1>3. items'[m] = q /\ \A k \in 2 .. m : \E i \in 2 .. L : items'[k] = all[i]
    <2>1. Len(all) >= 2 /\ q.turn = all[Len(all)].turn /\ Well(all)
      BY <1>1, <1>2
    <2>2. items' = Trimmed(all, q.turn)
      BY DEF all
    <2> HIDE DEF m, L
    <2>3. Keeps(all, items')
      BY <2>1, <2>2, TrimmedWell
    <2> QED BY <1>2, <2>3 DEF Keeps, m
  <1>4. q.gen = gen
    BY <1>1 DEF Answers, Same
  <1> HIDE DEF L, m
  <1>5. ASSUME NEW k \in 2 .. m
        PROVE  items'[k] = q \/ \E i \in 2 .. L : items'[k] = items[i]
    <2>1. PICK i \in 2 .. L : items'[k] = all[i]
      BY <1>3
    <2>2. i \in 1 .. L
      BY <1>1
    <2> QED BY <1>2, <2>1, <2>2
  <1>6. Recalls(items', rendered)
    <2>1. \A i \in 2 .. L : Remembered(items[i], rendered)
      BY DEF Faithful, Recalls, L
    <2>2. \A k \in 2 .. m : Remembered(items'[k], rendered)
      BY <1>5, <2>1
    <2> QED BY <2>2 DEF Recalls, m
  <1>7. Quotes(items', request, gen)
    <2>1. Quotes(items, request, gen)
      BY DEF Faithful
    <2>2. \A k \in 2 .. Len(items') :
             items'[k].gen = gen \/ \E i \in 2 .. Len(items) : items'[k] = items[i]
      BY <1>4, <1>5 DEF L, m
    <2> DEFINE jts == items'
    <2> HIDE DEF jts
    <2> QED BY <2>1, <2>2, QuotesStay, ZenonT(30) DEF jts
  <1>8. Tracks(items'[Len(items')], timeline')
    BY <1>3 DEF m
  <1> QED BY <1>6, <1>7, <1>8, Zenon DEF Faithful

-----------------------------------------------------------------------------
(* What was heard, step by step.                                           *)

\* A turn was committed.
LEMMA NewResponseContextHeard == ASSUME Good, Faithful, NewResponseContext PROVE Faithful'
  BY SameFaithful, TimelineTyped DEF NewResponseContext

\* The client rendered a frame.
LEMMA RenderHeard == ASSUME Good, Faithful, Render PROVE Faithful'
  <1>1. gen \in Gens /\ rendered \in [Gens -> Nat]
    BY TimelineTyped DEF Render
  <1>2. rendered' = [rendered EXCEPT ![gen] = rendered[gen] + 1]
    BY DEF Render
  <1>3. rendered' \in [Gens -> Nat] /\ \A g \in Gens : rendered[g] <= rendered'[g]
    BY <1>1, <1>2
  <1> QED BY <1>3, SameFaithful DEF Render

\* A frame was written.
LEMMA WriteFrameHeard == ASSUME Good, Faithful, NEW g, WriteFrame(g) PROVE Faithful'
  <1>1. Timed(timeline, wire')
    BY TimelineTyped DEF WriteFrame, Faithful, Timed
  <1>2. UNCHANGED <<items, gen, timeline, request, rendered>>
    BY DEF WriteFrame
  <1> QED BY <1>1, <1>2, Zenon DEF Faithful

\* A position only grows; what is not known of it is still bounded.
LEMMA TracksOf ==
  ASSUME Good, Faithful, gen # 0, NEW t, t.open = timeline.open,
         t.generated = timeline.generated
  PROVE  Synchronous(items, t, rendered)
  BY DEF Faithful, Tracks, Synchronous, Within

\* The text ended.
LEMMA MarkAssistantTextDoneHeard ==
  ASSUME Good, Good', Faithful, NEW g, MarkAssistantTextDone(g) PROVE Faithful'
  <1> DEFINE its == Done(items, g, FALSE)
  <1>1. g = gen /\ gen # 0 /\ Answers(items, gen)
    BY ActiveAnswer DEF MarkAssistantTextDone
  <1>2. Recalls(items, rendered) /\ Tracks(items[Len(items)], timeline)
    BY <1>1 DEF Faithful
  <1>3. Recalls(its, rendered) /\ Tracks(its[Len(items)], timeline) /\ Moved(items, its)
    <2> DEFINE jts(audio) == Done(items, g, audio)
    <2>1. ASSUME NEW audio \in BOOLEAN
          PROVE  /\ Recalls(jts(audio), rendered) /\ Tracks(jts(audio)[Len(items)], timeline)
                 /\ Moved(items, jts(audio))
      BY <1>1, <1>2, DoneTracks
    <2>2. its = jts(FALSE) /\ FALSE \in BOOLEAN
      OBVIOUS
    <2> HIDE DEF jts, its
    <2> QED BY <2>1, <2>2, Zenon
  <1>4. items' = its
    BY DEF MarkAssistantTextDone
  <1> HIDE DEF its
  <1>5. UNCHANGED <<gen, timeline, request, rendered, wire>>
    BY DEF MarkAssistantTextDone
  <1>6. Timed(timeline, wire) /\ Rendered(timeline, rendered[gen])
    BY <1>1 DEF Faithful
  <1> QED BY <1>1, <1>3, <1>4, <1>5, <1>6, TouchFaithful

\* The timeline moved, and the store was told.
LEMMA SyncFaithful ==
  ASSUME Good, Good', Faithful, gen # 0, items' = Synced(items, timeline'),
         UNCHANGED <<gen, request, rendered, wire>>,
         timeline'.open = timeline.open, timeline'.generated = timeline.generated,
         Timed(timeline', wire), Rendered(timeline', rendered[gen])
  PROVE  Faithful'
  <1> DEFINE t == timeline'
  <1>1. /\ t \in [open: BOOLEAN, generated: Nat, sent: Nat, played: Nat, acked: Nat]
        /\ gen \in Gens /\ rendered \in [Gens -> Nat] /\ Answers(items, gen)
    BY TimelineTyped DEF Good, Types
  <1>2. Synchronous(items, t, rendered)
    BY TracksOf
  <1>3. t.sent \in Nat /\ t.played \in Nat /\ t.generated \in Nat /\ wire \in Nat
    BY <1>1, TimelineTyped
  <1>4. Timed(t, t.sent) /\ t.played <= rendered[gen]
    BY <1>3 DEF Timed, Rendered
  <1> HIDE DEF t
  <1>5. /\ Recalls(Synced(items, t), rendered) /\ Tracks(Synced(items, t)[Len(items)], t)
        /\ Moved(items, Synced(items, t))
    BY <1>1, <1>2, <1>4, SyncedTracks
  <1> QED BY <1>5, TouchFaithful DEF t

\* A frame was sent.
LEMMA RecordAudioSentHeard ==
  ASSUME Good, Good', Faithful, NEW g, RecordAudioSent(g) PROVE Faithful'
  <1>1. g = gen /\ gen # 0 /\ gen \in Gens
    BY ActiveAnswer, TimelineTyped DEF RecordAudioSent
  <1> DEFINE y == Greater(timeline.played, Lesser(timeline.acked, wire))
  <1>2. /\ timeline.sent < wire
        /\ timeline' = [timeline EXCEPT !.sent = wire, !.played = y]
    BY DEF RecordAudioSent
  <1>3. /\ timeline.generated \in Nat /\ timeline.sent \in Nat /\ timeline.played \in Nat
        /\ timeline.acked \in Nat /\ wire \in Nat /\ rendered[gen] \in Nat
        /\ timeline.played <= timeline.sent /\ wire <= timeline.generated
        /\ timeline.played <= rendered[gen] /\ timeline.acked <= rendered[gen]
    BY <1>1, TimelineTyped DEF Faithful, Timed, Rendered
  <1>4. y \in Nat /\ y <= wire /\ y <= rendered[gen]
    BY <1>2, <1>3 DEF Greater, Lesser
  <1> HIDE DEF y
  <1>5. /\ timeline'.open = timeline.open /\ timeline'.generated = timeline.generated
        /\ timeline'.sent = wire /\ timeline'.played = y /\ timeline'.acked = timeline.acked
    BY <1>2 DEF Good, Types
  <1>6. Timed(timeline', wire) /\ Rendered(timeline', rendered[gen])
    BY <1>3, <1>4, <1>5 DEF Timed, Rendered
  <1> QED BY <1>1, <1>5, <1>6, SyncFaithful DEF RecordAudioSent

\* A position was acknowledged, of frames that were rendered.
LEMMA RecordPlaybackHeard ==
  ASSUME Good, Good', Faithful, NEW g, NEW frames \in 0 .. rendered[g], RecordPlayback(g, frames)
  PROVE  Faithful'
  <1>1. g = gen /\ gen # 0 /\ gen \in Gens
    BY ActiveAnswer, TimelineTyped DEF RecordPlayback
  <1> DEFINE a == Greater(timeline.acked, Lesser(frames, wire))
             y == Greater(timeline.played, Lesser(frames, timeline.sent))
  <1>2. timeline' = [timeline EXCEPT !.acked = a, !.played = y]
    BY DEF RecordPlayback
  <1>3. /\ timeline.generated \in Nat /\ timeline.sent \in Nat /\ timeline.played \in Nat
        /\ timeline.acked \in Nat /\ wire \in Nat /\ rendered[gen] \in Nat
        /\ timeline.played <= timeline.sent /\ timeline.sent <= wire
        /\ wire <= timeline.generated
        /\ timeline.played <= rendered[gen] /\ timeline.acked <= rendered[gen]
    BY <1>1, TimelineTyped DEF Faithful, Timed, Rendered
  <1>4. frames \in Nat /\ frames <= rendered[gen]
    BY <1>1, <1>3
  <1>5. a \in Nat /\ a <= rendered[gen]
    BY <1>3, <1>4 DEF Greater, Lesser
  <1>6. y \in Nat /\ y <= timeline.sent /\ y <= rendered[gen]
    BY <1>3, <1>4 DEF Greater, Lesser
  <1> HIDE DEF a, y
  <1>7. /\ timeline'.open = timeline.open /\ timeline'.generated = timeline.generated
        /\ timeline'.sent = timeline.sent /\ timeline'.played = y /\ timeline'.acked = a
    BY <1>2 DEF Good, Types
  <1>8. Timed(timeline', wire) /\ Rendered(timeline', rendered[gen])
    BY <1>3, <1>5, <1>6, <1>7 DEF Timed, Rendered
  <1> QED BY <1>1, <1>7, <1>8, SyncFaithful DEF RecordPlayback

\* The audio ended.
LEMMA MarkGenerationDoneHeard ==
  ASSUME Good, Good', Faithful, NEW g, MarkGenerationDone(g) PROVE Faithful'
  <1> DEFINE its == Done(items, g, TRUE)
             jts == Synced(its, timeline)
  <1>1. /\ g = gen /\ gen # 0 /\ Answers(items, gen) /\ gen \in Gens
        /\ rendered \in [Gens -> Nat]
        /\ timeline \in [open: BOOLEAN, generated: Nat, sent: Nat, played: Nat, acked: Nat]
    BY ActiveAnswer, TimelineTyped DEF MarkGenerationDone, Good, Types
  <1>2. /\ Recalls(items, rendered) /\ Tracks(items[Len(items)], timeline)
        /\ Timed(timeline, wire) /\ Rendered(timeline, rendered[gen])
    BY <1>1 DEF Faithful
  <1>3. Recalls(its, rendered) /\ Tracks(its[Len(items)], timeline) /\ Moved(items, its)
    <2> DEFINE kts(audio) == Done(items, g, audio)
    <2>1. ASSUME NEW audio \in BOOLEAN
          PROVE  /\ Recalls(kts(audio), rendered) /\ Tracks(kts(audio)[Len(items)], timeline)
                 /\ Moved(items, kts(audio))
      BY <1>1, <1>2, DoneTracks
    <2>2. its = kts(TRUE) /\ TRUE \in BOOLEAN
      OBVIOUS
    <2> HIDE DEF kts, its
    <2> QED BY <2>1, <2>2, Zenon
  <1>4. Answers(its, gen)
    <2>1. Touched(items, its)
      BY <1>1, DoneTouches
    <2> HIDE DEF its
    <2> QED BY <1>1, <2>1, TouchedStore
  <1>5. items' = jts
    BY DEF MarkGenerationDone
  <1> HIDE DEF its
  <1>6. Len(its) = Len(items) /\ Synchronous(its, timeline, rendered)
    BY <1>3, Zenon DEF Tracks, Synchronous, Moved
  <1>7. Timed(timeline, timeline.sent) /\ timeline.played <= rendered[gen]
    BY <1>1, <1>2, TimelineTyped DEF Timed, Rendered
  <1>8. Recalls(jts, rendered) /\ Tracks(jts[Len(its)], timeline) /\ Moved(its, jts)
    BY <1>1, <1>4, <1>6, <1>7, SyncedTracks
  <1> HIDE DEF jts
  <1>9. Moved(items, jts)
    BY <1>3, <1>8 DEF Moved
  <1>10. UNCHANGED <<gen, timeline, request, rendered, wire>>
    BY DEF MarkGenerationDone
  <1> QED BY <1>1, <1>2, <1>5, <1>6, <1>8, <1>9, <1>10, TouchFaithful

\* More text leaves all that is known of an answer's chunks.
LEMMA TextTracks ==
  ASSUME NEW p, NEW q, NEW r, NEW t, Remembered(p, r), Tracks(p, t),
         q.role = p.role, q.gen = p.gen, q.status = p.status, q.played = p.played,
         q.chunks = p.chunks, q.textOnly = p.textOnly, q.generated = p.generated,
         q.llmDone = p.llmDone, q.audioDone = p.audioDone
  PROVE  Remembered(q, r) /\ Tracks(q, t)
  <1>1. Remembered(q, r)
    BY DEF Remembered
  <1>2. Within(p, t) => Within(q, t)
    BY DEF Within
  <1>3. Upto(p, t) => Upto(q, t)
    BY DEF Upto, Ripe
  <1> QED BY <1>1, <1>2, <1>3, Zenon DEF Tracks

\* So the answer may grow by text.
LEMMA TextFaithful ==
  ASSUME Good, Faithful, NEW q, Grown(q), UNCHANGED <<gen, request, rendered, wire, timeline>>,
         NEW p, p = items[Len(items)],
         q.role = p.role, q.gen = p.gen, q.status = p.status, q.played = p.played,
         q.chunks = p.chunks, q.textOnly = p.textOnly, q.generated = p.generated,
         q.llmDone = p.llmDone, q.audioDone = p.audioDone
  PROVE  Faithful'
  <1>1. gen # 0 /\ Len(items) \in 2 .. Len(items)
    <2>1. gen # 0 /\ Len(items) \in Nat /\ Len(items) >= 2
      BY DEF Grown, Good, Answers, Well
    <2> QED BY <2>1
  <1>2. Remembered(p, rendered) /\ Tracks(p, timeline)
    BY <1>1 DEF Faithful, Recalls
  <1>3. Remembered(q, rendered) /\ Tracks(q, timeline)
    BY <1>2, TextTracks
  <1>4. Timed(timeline, wire) /\ Rendered(timeline, rendered[gen])
    BY <1>1 DEF Faithful
  <1> QED BY <1>3, <1>4, GrowFaithful DEF Grown

\* Text received.
LEMMA AppendContentHeard == ASSUME Good, Faithful, NEW g, AppendContent(g) PROVE Faithful'
  <1> DEFINE p == items[Len(items)]
             q == [p EXCEPT !.content = p.content + 1]
  <1>1. Grown(q) /\ p \in ItemRecord
    BY AppendContentGrows, ActiveAnswer DEF AppendContent
  <1>2. /\ q.role = p.role /\ q.gen = p.gen /\ q.status = p.status /\ q.played = p.played
        /\ q.chunks = p.chunks /\ q.textOnly = p.textOnly /\ q.generated = p.generated
        /\ q.llmDone = p.llmDone /\ q.audioDone = p.audioDone
    <2> HIDE DEF p
    <2> QED BY <1>1 DEF ItemRecord
  <1>3. UNCHANGED <<gen, request, rendered, wire, timeline>>
    BY DEF AppendContent
  <1> HIDE DEF q
  <1> QED BY <1>1, <1>2, <1>3, TextFaithful

\* Text sent.
LEMMA AppendSentHeard == ASSUME Good, Faithful, NEW g, AppendSent(g) PROVE Faithful'
  <1> DEFINE p == items[Len(items)]
             q == [p EXCEPT !.sentText = p.sentText + 1]
  <1>1. Grown(q) /\ p \in ItemRecord
    BY AppendSentGrows, ActiveAnswer DEF AppendSent
  <1>2. /\ q.role = p.role /\ q.gen = p.gen /\ q.status = p.status /\ q.played = p.played
        /\ q.chunks = p.chunks /\ q.textOnly = p.textOnly /\ q.generated = p.generated
        /\ q.llmDone = p.llmDone /\ q.audioDone = p.audioDone
    <2> HIDE DEF p
    <2> QED BY <1>1 DEF ItemRecord
  <1>3. UNCHANGED <<gen, request, rendered, wire, timeline>>
    BY DEF AppendSent
  <1> HIDE DEF q
  <1> QED BY <1>1, <1>2, <1>3, TextFaithful

\* A chunk joins an answer: nobody can have heard it yet.
LEMMA ChunkTracks ==
  ASSUME NEW p \in ItemRecord, NEW r, NEW t, NEW u, Remembered(p, r), Tracks(p, t), t.open,
         p.status = "pending", Timed(t, t.sent), t.played \in Nat, t.sent \in Nat,
         t.generated \in Nat, NEW frames \in Nat \ {0}, NEW end, end = t.generated + frames,
         u.open = t.open, u.played = t.played, u.generated = end,
         NEW c \in ChunkRecord, c.end = end, ~c.played,
         NEW q, q = [p EXCEPT !.chunks = Append(p.chunks, c), !.generated = end]
  PROVE  Remembered(q, r) /\ Tracks(q, u)
  <1> DEFINE n == Len(p.chunks)
  <1>1. p.chunks \in Seq(ChunkRecord) /\ n \in Nat
    BY ItemTyped
  <1>2. /\ q.role = p.role /\ q.gen = p.gen /\ q.status = p.status /\ q.played = p.played
        /\ q.chunks = Append(p.chunks, c) /\ q.textOnly = p.textOnly /\ q.generated = end
    BY DEF ItemRecord
  <1>3. /\ Len(q.chunks) = n + 1 /\ q.chunks[n + 1] = c
        /\ \A k \in 1 .. n : q.chunks[k] = p.chunks[k] /\ p.chunks[k] \in ChunkRecord
    BY <1>1, <1>2
  <1>4. \A k \in 1 .. n + 1 : k = n + 1 \/ k \in 1 .. n
    BY <1>1
  <1>5. \A k \in 1 .. n : p.chunks[k].end \in Nat
    BY <1>3 DEF ChunkRecord
  <1>6. /\ ~p.textOnly /\ Within(p, t) /\ Upto(p, t)
    BY DEF Tracks
  <1>7. t.generated <= end /\ end \in Nat /\ ~(end <= t.played)
    BY DEF Timed
  <1> HIDE DEF n
  <1>8. Remembered(q, r)
    BY <1>2, <1>3, <1>4 DEF Remembered, n
  <1>9. Within(q, u)
    <2>1. \A k \in 1 .. n : p.chunks[k].end <= end
      BY <1>5, <1>6, <1>7 DEF Within, n
    <2>2. \A k \in 1 .. n + 1 : q.chunks[k].end <= end
      BY <1>3, <1>4, <1>7, <2>1
    <2> QED BY <1>2, <1>3, <2>2 DEF Within
  <1>10. Upto(q, u)
    <2>1. ~Ripe(q)
      <3>1. n + 1 \in 1 .. n + 1
        BY <1>1
      <3> QED BY <1>3, <3>1 DEF Ripe
    <2>2. ASSUME NEW k \in 1 .. n + 1, q.chunks[k].end <= t.played PROVE q.chunks[k].played
      BY <1>3, <1>4, <1>6, <1>7, <2>2 DEF Upto, n
    <2> QED BY <1>3, <2>1, <2>2 DEF Upto
  <1> QED BY <1>2, <1>6, <1>8, <1>9, <1>10 DEF Tracks

\* A chunk synthesised.
LEMMA RegisterSpeechChunkHeard ==
  ASSUME Good, Faithful, NEW g, NEW frames \in 1 .. ChunkFrames, RegisterSpeechChunk(g, frames)
  PROVE  Faithful'
  <1> DEFINE p == items[Len(items)]
             end == timeline.generated + frames
             c == [bytes |-> 1, first |-> timeline.generated, end |-> end, played |-> FALSE]
             q == [p EXCEPT !.chunks = Append(p.chunks, c), !.generated = end]
  <1>1. Grown(q)
    BY RegisterSpeechChunkGrows DEF Spoke
  <1>2. /\ gen # 0 /\ p \in ItemRecord /\ Len(items) \in 2 .. Len(items)
    <2>1. gen # 0 /\ Len(items) \in Nat /\ Len(items) >= 2
      BY <1>1 DEF Grown, Good, Answers, Well
    <2> QED BY <2>1, ActiveAnswer DEF RegisterSpeechChunk
  <1>3. p.status = "pending"
    BY <1>1 DEF Grown
  <1>4. /\ Remembered(p, rendered) /\ Tracks(p, timeline)
        /\ Timed(timeline, wire) /\ Rendered(timeline, rendered[gen])
    BY <1>2 DEF Faithful, Recalls
  <1>5. /\ timeline.generated \in Nat /\ timeline.sent \in Nat /\ timeline.played \in Nat
        /\ wire \in Nat /\ frames \in Nat \ {0} /\ end \in Nat /\ timeline.generated <= end
    <2>1. frames \in Nat \ {0}
      BY Limits
    <2> QED BY <2>1, TimelineTyped
  <1>6. timeline.open /\ timeline' = [timeline EXCEPT !.generated = end]
        /\ UNCHANGED <<gen, request, rendered, wire>>
    BY DEF RegisterSpeechChunk
  <1>7. c \in ChunkRecord /\ c.end = end /\ ~c.played
    <2>1. 1 \in Bytes
      BY Limits
    <2> HIDE DEF end
    <2> QED BY <1>5, <2>1 DEF ChunkRecord
  <1>8. end = timeline.generated + frames
    OBVIOUS
  <1> HIDE DEF p, c, end
  <1>9. /\ timeline'.open = timeline.open /\ timeline'.generated = end
        /\ timeline'.sent = timeline.sent /\ timeline'.played = timeline.played
        /\ timeline'.acked = timeline.acked
    BY <1>6 DEF Good, Types
  <1>10. /\ Timed(timeline', wire) /\ Rendered(timeline', rendered[gen])
         /\ Timed(timeline, timeline.sent)
    BY <1>4, <1>5, <1>9 DEF Timed, Rendered
  <1>11. q = [p EXCEPT !.chunks = Append(p.chunks, c), !.generated = end]
    OBVIOUS
  <1> HIDE DEF q
  <1>12. Remembered(q, rendered) /\ Tracks(q, timeline')
    <2> DEFINE u == timeline'
               t == timeline
               r == rendered
    <2>1. u.open = t.open /\ u.played = t.played /\ u.generated = end
      BY <1>9
    <2>2. /\ p \in ItemRecord /\ c \in ChunkRecord /\ frames \in Nat \ {0}
          /\ Remembered(p, r) /\ Tracks(p, t) /\ t.open /\ p.status = "pending"
          /\ Timed(t, t.sent) /\ t.played \in Nat /\ t.sent \in Nat /\ t.generated \in Nat
          /\ end = t.generated + frames /\ c.end = end /\ ~c.played
      BY <1>2, <1>3, <1>4, <1>5, <1>6, <1>7, <1>8, <1>10
    <2> HIDE DEF u, t, r
    <2>3. Remembered(q, r) /\ Tracks(q, u)
      BY <1>11, <2>1, <2>2, ChunkTracks, ZenonT(40)
    <2> QED BY <2>3 DEF u, r
  <1>13. Grown(q)
    BY <1>1
  <1> QED BY <1>6, <1>10, <1>12, <1>13, GrowFaithful DEF Grown

\* The answer of a new generation joins a store of which everything is known.
LEMMA StartFaithful ==
  ASSUME Good, NEW turn \in Nat \ {0}, NEW its, Ready(its, turn), NEW text \in BOOLEAN,
         started < MaxTurns, items' = BeginAssistant(its, turn, started + 1, text),
         gen' = started + 1, wire' = 0, timeline' = [NoTimeline EXCEPT !.open = ~text],
         rendered' = rendered, Recalls(its, rendered), Quotes(its, request', started + 1)
  PROVE  Faithful'
  <1> DEFINE g == started + 1
             m == Len(items')
             p == Item("assistant", turn, g, "pending", 0, text)
             t == timeline'
  <1>1. g \in Gens /\ g # 0 /\ g \in Nat /\ rendered \in [Gens -> Nat]
    <2>1. started \in Nat /\ MaxTurns \in Nat
      BY Limits DEF Good, Types
    <2> QED BY <2>1, TimelineTyped
  <1>2. /\ p.role = "assistant" /\ p.gen = g /\ p.status = "pending" /\ p.chunks = <<>>
        /\ p.textOnly = text /\ ~p.llmDone /\ p.generated = 0 /\ p.played = 0
    <2> HIDE DEF g
    <2> QED BY DEF Item
  <1>3. t.open = ~text /\ t.generated = 0 /\ t.sent = 0 /\ t.played = 0 /\ t.acked = 0
    BY DEF NoTimeline
  <1>4. Answered(its, items', turn, g) /\ items'[m] = p
    BY ReadyBegins
  <1>5. \A k \in 2 .. m : k = m \/ \E i \in 2 .. Len(its) : items'[k] = its[i]
    BY <1>4 DEF Answered
  <1> HIDE DEF g, m, p, t
  <1>6. Remembered(p, rendered)
    BY <1>1, <1>2 DEF Remembered
  <1>7. Recalls(items', rendered)
    <2>1. \A i \in 2 .. Len(its) : Remembered(its[i], rendered)
      BY DEF Recalls
    <2>2. \A k \in 2 .. m : Remembered(items'[k], rendered)
      BY <1>4, <1>5, <1>6, <2>1
    <2> QED BY <2>2 DEF Recalls, m
  <1>8. Quotes(items', request', g)
    <2>1. \A k \in 2 .. m : items'[k].gen = g \/ \E i \in 2 .. Len(its) : items'[k] = its[i]
      BY <1>2, <1>4, <1>5
    <2>2. Quotes(its, request', g)
      BY DEF g
    <2> DEFINE jts == items'
               r == request'
    <2> HIDE DEF jts, r
    <2> QED BY <2>1, <2>2, QuotesStay DEF jts, r, m
  <1>9. Timed(t, 0) /\ Rendered(t, rendered[g])
    <2>1. rendered[g] \in Nat
      BY <1>1
    <2> QED BY <1>3, <2>1 DEF Timed, Rendered
  <1>10. Tracks(p, t)
    <2>1. Within(p, t)
      BY <1>2, <1>3 DEF Within
    <2>2. Upto(p, t)
      BY <1>2, <1>3 DEF Upto, Ripe
    <2>3. p.textOnly = ~t.open
      BY <1>2, <1>3
    <2> QED BY <2>1, <2>2, <2>3, Zenon DEF Tracks
  <1>11. gen' = g /\ wire' = 0 /\ items'[Len(items')] = p
    BY <1>4 DEF g, m
  <1> QED BY <1>7, <1>8, <1>9, <1>10, <1>11 DEF Faithful, t

\* A generation of its own quotes nothing.
LEMMA CreateGenerationHeard ==
  ASSUME Good, Faithful, NEW text \in BOOLEAN, CreateGeneration(text) PROVE Faithful'
  <1> DEFINE its == Finalized(items)
             turn == turns + 1
  <1>1. turn \in Nat \ {0}
    BY Limits DEF Good, Types
  <1>2. Ready(its, turn)
    BY FreshReady
  <1>3. Recalls(its, rendered)
    BY FinalizedRecalls
  <1>4. /\ started < MaxTurns /\ items' = BeginAssistant(its, turn, started + 1, text)
        /\ gen' = started + 1 /\ wire' = 0 /\ timeline' = [NoTimeline EXCEPT !.open = ~text]
        /\ rendered' = rendered /\ request' = <<>>
    BY DEF CreateGeneration, StartWithTurn
  <1> HIDE DEF its, turn
  <1>5. Quotes(its, request', started + 1)
    BY <1>4 DEF Quotes
  <1> QED BY <1>1, <1>2, <1>3, <1>4, <1>5, StartFaithful

\* A generation is over, and what was heard of it is what counts.
LEMMA CancelGenerationHeard ==
  ASSUME Good, Faithful, CancelGeneration PROVE Faithful'
  <1>1. Recalls(items', rendered)
    BY FinalizedRecalls DEF CancelGeneration
  <1>2. gen' = 0 /\ UNCHANGED <<timeline, wire, rendered>>
    BY DEF CancelGeneration
  <1>3. Timed(timeline, wire)
    BY DEF Faithful
  <1> QED BY <1>1, <1>2, <1>3, Zenon DEF Faithful

\* The words among the messages of the items up to the i-th are followed by what was
\* said to them, unless that is still to come.
Paired(its, i, ms) ==
  \A k \in 1 .. Len(ms) : ms[k].role = "user" =>
      \E j \in 2 .. i :
          /\ its[j].role = "user" /\ its[j].turn = ms[k].turn
          /\ \/ j = i /\ k = Len(ms)
             \/ j < i /\ (Said(its, j + 1) => k < Len(ms) /\ ms[k + 1] = Message(its[j + 1]))

\* One item more.
LEMMA PairedNext ==
  ASSUME NEW its, Well(its), NEW i \in 1 .. Len(its), i < Len(its),
         NEW ms \in Seq(MessageRecord), Paired(its, i, ms),
         NEW ns, ns = IF Said(its, i + 1) THEN Append(ms, Message(its[i + 1])) ELSE ms
  PROVE  Paired(its, i + 1, ns)
  <1> DEFINE n == Len(ms)
             msg == Message(its[i + 1])
  <1>1. n \in Nat /\ i \in Nat /\ i >= 1
    BY DEF Well
  <1>2. SUFFICES ASSUME NEW k \in 1 .. Len(ns), ns[k].role = "user"
                 PROVE  \E j \in 2 .. i + 1 :
                           /\ its[j].role = "user" /\ its[j].turn = ns[k].turn
                           /\ \/ j = i + 1 /\ k = Len(ns)
                              \/ /\ j < i + 1
                                 /\ Said(its, j + 1) => k < Len(ns) /\ ns[k + 1] = Message(its[j + 1])
    BY DEF Paired
  <1>3. ASSUME k \in 1 .. n, ns[k] = ms[k]
        PROVE  \E j \in 2 .. i : /\ its[j].role = "user" /\ its[j].turn = ns[k].turn
                                 /\ j < i + 1 /\ j \in 2 .. i + 1
                                 /\ \/ j = i /\ k = n
                                    \/ Said(its, j + 1) => k < n /\ ms[k + 1] = Message(its[j + 1])
    <2>1. PICK j \in 2 .. i :
             /\ its[j].role = "user" /\ its[j].turn = ms[k].turn
             /\ \/ j = i /\ k = n
                \/ j < i /\ (Said(its, j + 1) => k < n /\ ms[k + 1] = Message(its[j + 1]))
      BY <1>2, <1>3 DEF Paired
    <2>2. j < i + 1 /\ j \in 2 .. i + 1
      BY <1>1
    <2> QED BY <1>3, <2>1, <2>2
  <1>4. CASE ~Said(its, i + 1)
    <2>1. ns = ms
      BY <1>4
    <2>2. PICK j \in 2 .. i : /\ its[j].role = "user" /\ its[j].turn = ns[k].turn
                              /\ j < i + 1 /\ j \in 2 .. i + 1
                              /\ \/ j = i /\ k = n
                                 \/ Said(its, j + 1) => k < n /\ ms[k + 1] = Message(its[j + 1])
      BY <1>3, <2>1
    <2> QED BY <1>4, <2>1, <2>2
  <1>5. CASE Said(its, i + 1)
    <2>1. ns = Append(ms, msg)
      BY <1>5
    <2> HIDE DEF msg
    <2>2. /\ Len(ns) = n + 1 /\ ns[n + 1] = msg
          /\ \A l \in 1 .. n : ns[l] = ms[l]
      BY <1>1, <2>1
    <2> HIDE DEF n
    <2>3. CASE k \in 1 .. n
      <3>1. PICK j \in 2 .. i : /\ its[j].role = "user" /\ its[j].turn = ns[k].turn
                                /\ j < i + 1 /\ j \in 2 .. i + 1
                                /\ \/ j = i /\ k = n
                                   \/ Said(its, j + 1) => k < n /\ ms[k + 1] = Message(its[j + 1])
        BY <1>3, <2>2, <2>3
      <3>2. k < Len(ns) /\ (k < n => ns[k + 1] = ms[k + 1])
        BY <1>1, <2>2, <2>3
      <3>3. CASE j = i /\ k = n
        <4>1. ns[k + 1] = Message(its[j + 1])
          BY <2>2, <3>3 DEF msg
        <4> QED BY <3>1, <3>2, <4>1
      <3>4. CASE Said(its, j + 1) => k < n /\ ms[k + 1] = Message(its[j + 1])
        BY <3>1, <3>2, <3>4
      <3> QED BY <3>1, <3>3, <3>4
    <2>4. CASE k = n + 1
      <3>1. msg.role = its[i + 1].role /\ msg.turn = its[i + 1].turn
        BY DEF msg, Message
      <3>2. i + 1 \in 2 .. i + 1
        BY <1>1
      <3> QED BY <1>2, <2>2, <2>4, <3>1, <3>2
    <2> QED BY <1>1, <2>2, <2>3, <2>4
  <1> QED BY <1>4, <1>5

\* So it is with all the messages of a store.
LEMMA MessagesPaired ==
  ASSUME NEW its, Well(its), NEW n \in 1 .. Len(its)
  PROVE  MessagesAfter(its, n) \in Seq(MessageRecord) /\ Paired(its, Len(its), MessagesAfter(its, n))
  <1> DEFINE L == Len(its)
  <1>1. PICK m : Gathers(its, n, m) /\ MessagesAfter(its, n) = m[L]
    BY MessagesGathered
  <1>2. L \in Nat /\ n \in Nat /\ 1 <= n /\ n <= L
    BY DEF Well
  <1> DEFINE N == L - n
             H == {d \in 0 .. N : Paired(its, n + d, m[n + d])}
  <1>3. N \in Nat /\ n + N = L
    BY <1>2
  <1> HIDE DEF L, N
  <1>4. 0 \in H
    <2>1. Paired(its, n, m[n])
      BY <1>1 DEF Gathers, Paired
    <2> QED BY <1>2, <1>3, <2>1
  <1>5. ASSUME NEW d \in 0 .. N, d < N, d \in H PROVE d + 1 \in H
    <2> DEFINE i == n + d
    <2>1. /\ i \in 1 .. L /\ i < L /\ i \in n .. L
          /\ i + 1 = n + (d + 1) /\ d + 1 \in 0 .. N
      BY <1>2, <1>3, <1>5
    <2>2. Paired(its, i, m[i])
      BY <1>5
    <2> HIDE DEF i
    <2>3. m[i] \in Seq(MessageRecord)
          /\ m[i + 1] = IF Said(its, i + 1) THEN Append(m[i], Message(its[i + 1])) ELSE m[i]
      BY <1>1, <2>1 DEF Gathers, L
    <2> DEFINE ms == m[i]
               ns == m[i + 1]
    <2>4. ms \in Seq(MessageRecord) /\ Paired(its, i, ms)
          /\ ns = IF Said(its, i + 1) THEN Append(ms, Message(its[i + 1])) ELSE ms
      BY <2>2, <2>3
    <2> HIDE DEF ms, ns
    <2>5. Paired(its, i + 1, ns)
      BY <2>1, <2>4, PairedNext DEF L
    <2> QED BY <2>1, <2>5 DEF ns
  <1> HIDE DEF H
  <1>6. \A d \in 0 .. N : d \in H
    <2>1. \A d \in 0 .. N : d < N /\ d \in H => d + 1 \in H
      BY <1>5
    <2> QED BY <1>3, <1>4, <2>1, UpTo
  <1>7. N \in H
    BY <1>3, <1>6
  <1>8. Paired(its, L, m[L])
    BY <1>3, <1>7 DEF H
  <1>9. m[L] \in Seq(MessageRecord)
    <2>1. L \in n .. L
      BY <1>2
    <2> QED BY <1>1, <2>1 DEF Gathers, L
  <1> QED BY <1>1, <1>8, <1>9 DEF L

\* The messages of a store in which nothing is pending quote what was heard.
LEMMA MessagesQuote ==
  ASSUME NEW its, Well(its), Settled(its), NEW n \in 1 .. Len(its), NEW g, NEW r, Recalls(its, r)
  PROVE  Quotes(its, MessagesAfter(its, n), g)
  <1> DEFINE ms == MessagesAfter(its, n)
             L == Len(its)
  <1>1. Paired(its, L, ms)
    BY MessagesPaired
  <1>2. L \in Nat
    BY DEF Well
  <1> HIDE DEF ms, L
  <1> SUFFICES ASSUME NEW i \in 2 .. L, NEW k \in 1 .. Len(ms), its[i].role = "assistant",
                      ms[k].role = "user", ms[k].turn = its[i].turn,
                      Delivered(its[i]) > 0, its[i].status # "cancelled"
               PROVE  k < Len(ms) /\ ms[k + 1] = Message(its[i])
    BY Zenon DEF Quotes, ms, L
  <1>3. PICK j \in 2 .. L :
           /\ its[j].role = "user" /\ its[j].turn = ms[k].turn
           /\ \/ j = L /\ k = Len(ms)
              \/ j < L /\ (Said(its, j + 1) => k < Len(ms) /\ ms[k + 1] = Message(its[j + 1]))
    BY <1>1 DEF Paired
  <1>4. j < i
    <2> SUFFICES ASSUME ~(j < i) PROVE FALSE
      OBVIOUS
    <2>1. i < j
      BY <1>2, <1>3
    <2>2. Follow(its[i], its[j])
      BY <2>1 DEF Well, Ordered, L
    <2> QED BY <1>3, <2>2 DEF Follow
  <1>5. i = j + 1
    <2> SUFFICES ASSUME i # j + 1 PROVE FALSE
      OBVIOUS
    <2> DEFINE l == j + 1
    <2>1. l \in 2 .. L /\ j < l /\ l < i
      BY <1>2, <1>4
    <2> HIDE DEF l
    <2>2. Follow(its[j], its[l]) /\ Follow(its[l], its[i])
      BY <2>1 DEF Well, Ordered, L
    <2>3. its[l].turn = its[i].turn
      <3>1. its[j].turn \in Nat /\ its[l].turn \in Nat
        <4>1. its[j] \in ItemRecord /\ its[l] \in ItemRecord
          BY <1>2, <2>1 DEF Well, L
        <4> QED BY <4>1, ItemTyped
      <3> QED BY <1>3, <2>2, <3>1 DEF Follow
    <2> QED BY <1>3, <2>2, <2>3 DEF Follow
  <1>6. Said(its, i)
    <2>1. its[i].status \in {"completed", "interrupted"}
      <3>1. its[i] \in ItemRecord /\ its[i].status # "pending" /\ Remembered(its[i], r)
        <4>1. i \in 1 .. L
          BY <1>2
        <4> QED BY <4>1 DEF Well, Settled, Recalls, L
      <3>2. its[i].status \in Statuses /\ its[i].status # "committed"
        BY <3>1, ItemTyped DEF Remembered
      <3> QED BY <3>1, <3>2 DEF Statuses
    <2>2. j \in 2 .. (i - 1)
      BY <1>2, <1>4
    <2> QED BY <1>3, <2>1, <2>2 DEF Said
  <1>7. j < L
    BY <1>2, <1>4
  <1> QED BY <1>3, <1>5, <1>6, <1>7

\* Words are committed, and the request that asks about them quotes what was heard.
LEMMA BeginResponseHeard ==
  ASSUME Good, Faithful, NEW bytes \in Bytes, NEW text \in BOOLEAN, BeginResponse(bytes, text)
  PROVE  Faithful'
  <1>1. CASE UNCHANGED <<items, gen, textOnly, timeline, request, done, started, wire, rendered>>
    BY <1>1, TimelineTyped, SameFaithful
  <1> DEFINE fin == Finalized(items)
             its == CommitUser(fin, resp.turn, bytes)
             M == Len(its)
             turn == resp.turn
  <1>2. CASE /\ resp' = [resp EXCEPT !.used = TRUE]
             /\ request' = Context(its, 0)
             /\ StartWithTurn(its, resp.turn, text)
    <2>1. resp.live /\ ~resp.used /\ turn \in Nat \ {0}
      BY Limits DEF BeginResponse, Good, Types, Free
    <2>2. Joined(fin, its, turn) /\ Ready(its, turn) /\ Settled(its)
      BY <2>1, CommittedReady
    <2>3. Recalls(fin, rendered)
      BY FinalizedRecalls
    <2> HIDE DEF fin, its, turn, M
    <2>4. /\ Well(its) /\ M >= 2 /\ its[M].role = "user" /\ its[M].turn = turn
          /\ its[M - 1].turn # turn
          /\ \A k \in 2 .. M : k = M \/ \E i \in 2 .. Len(fin) : its[k] = fin[i]
      BY <2>2 DEF Joined, M
    <2>5. Recalls(its, rendered)
      <3>1. Remembered(its[M], rendered)
        BY <2>4 DEF Remembered
      <3>2. \A i \in 2 .. Len(fin) : Remembered(fin[i], rendered)
        BY <2>3 DEF Recalls
      <3>3. \A k \in 2 .. M : Remembered(its[k], rendered)
        BY <2>4, <3>1, <3>2
      <3> QED BY <3>3 DEF Recalls, M
    <2>6. PICK n \in 1 .. Len(its) : Context(its, 0) = MessagesAfter(its, n)
      BY <2>4, ContextAsks DEF M
    <2>7. Quotes(its, request', started + 1)
      BY <1>2, <2>2, <2>4, <2>5, <2>6, MessagesQuote
    <2>8. /\ started < MaxTurns /\ items' = BeginAssistant(its, turn, started + 1, text)
          /\ gen' = started + 1 /\ wire' = 0 /\ timeline' = [NoTimeline EXCEPT !.open = ~text]
          /\ rendered' = rendered
      BY <1>2, <2>2, <2>4, SettledStays DEF StartWithTurn, turn
    <2> QED BY <2>1, <2>2, <2>5, <2>7, <2>8, StartFaithful
  <1> QED BY <1>1, <1>2 DEF BeginResponse

\* One step of the session.
LEMMA NextFaithful == ASSUME Good, Good', Faithful, [Next]_vars PROVE Faithful'
  <1>1. CASE NewResponseContext
    BY <1>1, NewResponseContextHeard
  <1>2. ASSUME NEW bytes \in Bytes, NEW text \in BOOLEAN, BeginResponse(bytes, text) PROVE Faithful'
    BY <1>2, BeginResponseHeard
  <1>3. ASSUME NEW text \in BOOLEAN, CreateGeneration(text) PROVE Faithful'
    BY <1>3, CreateGenerationHeard
  <1>4. CASE CancelGeneration
    BY <1>4, CancelGenerationHeard
  <1>5. ASSUME NEW g \in Gens, AppendContent(g) PROVE Faithful'
    BY <1>5, AppendContentHeard
  <1>6. ASSUME NEW g \in Gens, AppendSent(g) PROVE Faithful'
    BY <1>6, AppendSentHeard
  <1>7. ASSUME NEW g \in Gens, MarkAssistantTextDone(g) PROVE Faithful'
    BY <1>7, MarkAssistantTextDoneHeard
  <1>8. ASSUME NEW g \in Gens, NEW frames \in 1 .. ChunkFrames, RegisterSpeechChunk(g, frames)
        PROVE  Faithful'
    BY <1>8, RegisterSpeechChunkHeard
  <1>9. ASSUME NEW g \in Gens, WriteFrame(g) PROVE Faithful'
    BY <1>9, WriteFrameHeard
  <1>10. ASSUME NEW g \in Gens, RecordAudioSent(g) PROVE Faithful'
    BY <1>10, RecordAudioSentHeard
  <1>11. ASSUME NEW g \in Gens, NEW frames \in 0 .. rendered[g], RecordPlayback(g, frames)
         PROVE  Faithful'
    BY <1>11, RecordPlaybackHeard
  <1>12. ASSUME NEW g \in Gens, MarkGenerationDone(g) PROVE Faithful'
    BY <1>12, MarkGenerationDoneHeard
  <1>13. CASE Render
    BY <1>13, RenderHeard
  <1>14. CASE UNCHANGED vars
    BY <1>14, TimelineTyped, SameFaithful DEF vars
  <1> QED BY <1>1, <1>2, <1>3, <1>4, <1>5, <1>6, <1>7, <1>8, <1>9, <1>10, <1>11, <1>12, <1>13,
             <1>14, Zenon DEF Next

\* Nothing was said yet.
LEMMA InitFaithful == ASSUME Init PROVE Faithful
  BY DEF Init, Faithful, Recalls, Timed, NoTimeline

-----------------------------------------------------------------------------
(* The theorems.                                                           *)

\* The invariant of the store: the prompt and whole exchanges in the order of their
\* turns, within the limits, the answer in progress last and alone pending, and a
\* request that asks about it (internal/conversation/runtime.go:45, 299 and
\* internal/realtime/conversation.go).
THEOREM StoreKept == Spec => []Good
  <1>1. Init => Good
    BY InitGood
  <1>2. Good /\ [Next]_vars => Good'
    BY NextGood
  <1> QED BY <1>1, <1>2, PTL DEF Spec

\* The store keeps what the handlers rely on: it stays within its limits, always
\* holds the exchange in progress, one item for the words and one for the answer,
\* and its request always asks about that exchange.
THEOREM StoreAlwaysSound == Spec => []StoreSound
  <1>1. Good => StoreSound
    BY GoodIsSound
  <1> QED BY <1>1, StoreKept, PTL

\* History is append-only but for eviction: whole exchanges leave at the old end, and
\* an item that is committed or final never changes again, whatever late text, chunk
\* or acknowledgement arrives for it.
THEOREM HistoryIsOnlyEvicted == Spec => HistoryOnlyEvicted
  <1>1. Good /\ [Next]_vars => [OnlyEvicted]_vars
    BY NextGood
  <1> QED BY <1>1, StoreKept, PTL DEF Spec, HistoryOnlyEvicted

\* History is what was heard: of a spoken answer no more is remembered than the client
\* rendered, an answer heard to its end is complete in whichever order that is learned,
\* and a request quotes an exchange to the byte as it was heard
\* (internal/conversation/runtime.go:188, 236, 319 and internal/realtime/conversation.go).
THEOREM HistoryAlwaysHeard == Spec => []HistoryHeard
  <1>1. Init => Faithful
    BY InitFaithful
  <1>2. Good /\ Good' /\ Faithful /\ [Next]_vars => Faithful'
    BY NextFaithful
  <1>3. Good /\ Faithful => HistoryHeard
    <2> SUFFICES ASSUME Good, Faithful PROVE HistoryHeard
      OBVIOUS
    <2>1. RememberedWasHeard
      BY RecallsHeard DEF Good, Types, Faithful
    <2> QED BY <2>1, TracksComplete, QuotesHeard DEF HistoryHeard
  <1> QED BY <1>1, <1>2, <1>3, StoreKept, PTL DEF Spec
=============================================================================
