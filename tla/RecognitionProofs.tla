---------------------------- MODULE RecognitionProofs ----------------------------
EXTENDS Recognition, FiniteSetTheorems, SequenceTheorems, TLAPS

\* A line of distinct actors.
IsLine(s, S) == s \in Seq(S) /\ \A i, j \in 1 .. Len(s) : s[i] = s[j] => i = j

Clients == Calls \cup Closers
Starting == {"init", "probing"}
AtWork == {"holding", "init", "probing", "posting", "inferring"}

\* The admission: types, the line of the waiting calls, and the two counts.
Admitted ==
  /\ pc \in [Calls -> {"idle", "entered", "waiting", "holding"}]
  /\ ended \in [R!Users -> BOOLEAN]
  /\ queue \in 0 .. QueueCapacity
  /\ slots \in 0 .. Slots
  /\ IsLine(waiting, Ordinary)
  /\ NothingLeaks
  /\ NoOvertaking

\* What each caller of the runtime may be doing; before the runtime is up
\* nobody calls it.
Callers ==
  /\ \A c \in Calls : rpc[c] \in {"idle", "entering", "waiting"} \cup AtWork
  /\ \A c \in Closers : rpc[c] \in {"idle", "cancelling", "waiting", "holding", "awaiting", "returned"}
  /\ rpc[Boot] \in {"init", "probing", "ready", "failed"}
  /\ ~R!Booted => ~closed /\ \A a \in Clients : rpc[a] = "idle"

\* The runtime's queue and its slot: who holds it, who waits for it.
Line ==
  /\ IsLine(rwaiting, Clients)
  /\ Range(rwaiting) = {a \in Clients : rpc[a] = "waiting"}
  /\ \A a \in Clients : rpc[a] \in AtWork <=> slot = a
  /\ rqueue = Cardinality({c \in Calls : rpc[c] \notin {"idle", "entering"}})

\* A process that has not been reaped is the worker, or the one being brought
\* up by whoever is starting it, who has no worker meanwhile.
Process ==
  /\ \A p \in R!Processes : procs[p].state # "gone" => p \in {worker, starting}
  /\ worker # R!NoProcess => procs[worker].state # "gone"
  /\ starting # R!NoProcess => \E a \in R!Users : rpc[a] = "probing"
  /\ (\E a \in R!Users : rpc[a] \in Starting) => worker = R!NoProcess

\* It works for the request that is inferring, or for nobody.
Job ==
  /\ \A p \in R!Processes :
       procs[p].job # Nobody => procs[p].state = "running" /\ rpc[procs[p].job] = "inferring"
  /\ \A r \in Calls : rpc[r] = "inferring" /\ R!Running(worker) => procs[worker].job = r

\* What Close has reached, and what it leaves behind.
ClosedState ==
  /\ (\E c \in Closers : rpc[c] # "idle") => closed
  /\ (\E c \in Closers : rpc[c] = "returned") => closeDone
  /\ closeDone =>
       /\ closed /\ info.state = "closed" /\ ~info.available
       /\ worker = R!NoProcess /\ starting = R!NoProcess
       /\ \A a \in R!Users : rpc[a] \notin AtWork \ {"holding"}

\* A process that died is a failure; CUDA is not given up without one.
Device ==
  /\ \A p \in R!Processes : procs[p].state = "exited" => failed
  /\ R!FallbackSound

Runtime == R!TypeOK /\ Callers /\ Line
Recogniser == Process /\ Job /\ ClosedState /\ Device

IInv == Admitted /\ Runtime /\ Recogniser

-----------------------------------------------------------------------------

\* One joins at the end ...
LEMMA Joins ==
  ASSUME NEW S, NEW s, IsLine(s, S), NEW x \in S, x \notin Range(s)
  PROVE  /\ IsLine(Append(s, x), S) 
         /\ Range(Append(s, x)) = Range(s) \cup {x}
         /\ Append(s, x) # <<>>
<1>1. s \in Seq(S)
  BY DEF IsLine
<1>2. Append(s, x) \in Seq(S) /\ Len(Append(s, x)) = Len(s) + 1
  BY <1>1, AppendProperties
<1>3. /\ \A i \in 1 .. Len(s) : Append(s, x)[i] = s[i]
      /\ Append(s, x)[Len(s) + 1] = x
  BY <1>1, AppendProperties
<1>4. Len(s) \in Nat
  BY <1>1, LenProperties
<1>5. Range(s) = {s[i] : i \in 1 .. Len(s)}
  BY <1>1, RangeEquality
<1>6. Range(Append(s, x)) = {Append(s, x)[i] : i \in 1 .. Len(s) + 1}
  BY <1>2, RangeEquality
<1> DEFINE t == Append(s, x)
<1> HIDE DEF t
<1>7. \A i, j \in 1 .. Len(t) : t[i] = t[j] => i = j
  BY <1>2, <1>3, <1>4, <1>5 DEF IsLine, t
<1>8. Range(t) = Range(s) \cup {x}
  BY <1>3, <1>4, <1>5, <1>6 DEF t
<1> QED
  BY <1>1, <1>2, <1>7, <1>8, AppendProperties DEF IsLine, t

\* ... the first one is served ...
LEMMA FirstLeaves ==
  ASSUME NEW S, NEW s, IsLine(s, S), s # <<>>
  PROVE  /\ Head(s) \in S /\ Head(s) \in Range(s)
         /\ IsLine(Tail(s), S)
         /\ Range(Tail(s)) = Range(s) \ {Head(s)}
<1>1. s \in Seq(S)
  BY DEF IsLine
<1>2. /\ Tail(s) \in Seq(S) /\ Len(Tail(s)) = Len(s) - 1
      /\ \A i \in 1 .. Len(Tail(s)) : Tail(s)[i] = s[i + 1]
      /\ Head(s) \in S
  BY <1>1, HeadTailProperties
<1>3. Len(s) \in Nat /\ Len(s) > 0 /\ Head(s) = s[1]
  BY <1>1, LenProperties, EmptySeq
<1>4. Range(s) = {s[i] : i \in 1 .. Len(s)}
  BY <1>1, RangeEquality
<1>5. Range(Tail(s)) = {Tail(s)[i] : i \in 1 .. Len(s) - 1}
  BY <1>2, RangeEquality
<1> DEFINE t == Tail(s)
<1> HIDE DEF t
<1>6. \A i, j \in 1 .. Len(t) : t[i] = t[j] => i = j
  BY <1>2, <1>3 DEF IsLine, t
<1>7. Range(t) \subseteq Range(s) \ {Head(s)}
  BY <1>2, <1>3, <1>4, <1>5 DEF IsLine, t
<1>8. ASSUME NEW y \in Range(s) \ {Head(s)} PROVE y \in Range(t)
  <2>1. PICK i \in 1 .. Len(s) : y = s[i]
    BY <1>4
  <2>2. i - 1 \in 1 .. Len(s) - 1 /\ t[i - 1] = s[i]
    BY <1>2, <1>3, <2>1 DEF t
  <2> QED
    BY <1>5, <2>1, <2>2 DEF t
<1> QED
  BY <1>1, <1>2, <1>3, <1>4, <1>6, <1>7, <1>8 DEF IsLine, t

\* ... or one gives up, wherever it stands.
LEMMA OneLeaves ==
  ASSUME NEW S, NEW s, IsLine(s, S), NEW k \in DOMAIN s
  PROVE  /\ IsLine(RemoveAt(s, k), S)
         /\ Range(RemoveAt(s, k)) = Range(s) \ {s[k]}
<1>1. s \in Seq(S) /\ Len(s) \in Nat /\ k \in 1 .. Len(s)
  BY LenProperties DEF IsLine
<1> DEFINE a == SubSeq(s, 1, k - 1)
           b == SubSeq(s, k + 1, Len(s))
           t == a \o b
<1>2. \A i \in 1 .. Len(s) : s[i] \in S
  BY <1>1, ElementOfSeq
<1>3. /\ a \in Seq(S) /\ Len(a) = k - 1
      /\ \A i \in 1 .. k - 1 : a[i] = s[i]
  <2>1. \A i \in 1 .. k - 1 : s[i] \in S
    BY <1>1, <1>2
  <2>2. /\ a \in Seq(S) /\ Len(a) = IF 1 <= k - 1 THEN (k - 1) - 1 + 1 ELSE 0
        /\ \A i \in 1 .. (k - 1) - 1 + 1 : a[i] = s[1 + i - 1]
    BY <1>1, <2>1, SubSeqProperties
  <2> HIDE DEF a
  <2> QED
    BY <1>1, <2>2
<1>4. /\ b \in Seq(S) /\ Len(b) = Len(s) - k
      /\ \A i \in 1 .. Len(s) - k : b[i] = s[k + i]
  <2>1. \A i \in k + 1 .. Len(s) : s[i] \in S
    BY <1>1, <1>2
  <2>2. /\ b \in Seq(S) /\ Len(b) = IF k + 1 <= Len(s) THEN Len(s) - (k + 1) + 1 ELSE 0
        /\ \A i \in 1 .. Len(s) - (k + 1) + 1 : b[i] = s[(k + 1) + i - 1]
    BY <1>1, <2>1, SubSeqProperties
  <2> HIDE DEF b
  <2> QED
    BY <1>1, <2>2
<1>5. /\ t \in Seq(S) /\ Len(t) = Len(s) - 1
      /\ \A i \in 1 .. Len(s) - 1 : t[i] = IF i < k THEN s[i] ELSE s[i + 1]
  <2> HIDE DEF a, b
  <2>1. /\ t \in Seq(S) /\ Len(t) = Len(a) + Len(b)
        /\ \A i \in 1 .. Len(a) + Len(b) : t[i] = IF i <= Len(a) THEN a[i] ELSE b[i - Len(a)]
    BY <1>3, <1>4, ConcatProperties
  <2>2. Len(a) = k - 1 /\ Len(a) + Len(b) = Len(s) - 1
    BY <1>1, <1>3, <1>4
  <2> HIDE DEF t
  <2>3. ASSUME NEW i \in 1 .. Len(s) - 1 PROVE t[i] = IF i < k THEN s[i] ELSE s[i + 1]
    <3>1. CASE i < k
      BY <1>1, <1>3, <2>1, <2>2, <3>1
    <3>2. CASE ~(i < k)
      <4>1. i - (k - 1) \in 1 .. Len(s) - k /\ k + (i - (k - 1)) = i + 1 /\ ~(i <= k - 1)
        BY <1>1, <3>2
      <4>2. b[i - (k - 1)] = s[i + 1]
        BY <1>4, <4>1
      <4> QED
        BY <2>1, <2>2, <3>2, <4>1, <4>2
    <3> QED
      BY <3>1, <3>2
  <2> QED
    BY <2>1, <2>2, <2>3
<1>6. RemoveAt(s, k) = t
  BY DEF RemoveAt
<1> HIDE DEF t
<1>7. Range(s) = {s[i] : i \in 1 .. Len(s)}
  BY <1>1, RangeEquality
<1>8. Range(t) = {t[i] : i \in 1 .. Len(s) - 1}
  BY <1>5, RangeEquality
<1>9. \A i, j \in 1 .. Len(t) : t[i] = t[j] => i = j
  BY <1>1, <1>5 DEF IsLine
<1>10. Range(t) \subseteq Range(s) \ {s[k]}
  BY <1>1, <1>5, <1>7, <1>8 DEF IsLine
<1>11. ASSUME NEW y \in Range(s) \ {s[k]} PROVE y \in Range(t)
  <2>1. PICK i \in 1 .. Len(s) : y = s[i]
    BY <1>7
  <2>2. CASE i < k
    BY <1>1, <1>5, <1>8, <2>1, <2>2
  <2>3. CASE i > k
    <3>1. i - 1 \in 1 .. Len(s) - 1 /\ t[i - 1] = s[i]
      BY <1>1, <1>5, <2>1, <2>3
    <3> QED
      BY <1>8, <2>1, <3>1
  <2> QED
    BY <1>1, <2>1, <2>2, <2>3
<1> QED
  BY <1>5, <1>6, <1>9, <1>10, <1>11 DEF IsLine

-----------------------------------------------------------------------------

USE Capacities, Disjoint, RuntimeAssumption, ActorsAssumption

LEMMA CallSetsFinite ==
  /\ IsFiniteSet(Inside) /\ IsFiniteSet(Holding)
  /\ Cardinality(Inside) \in Nat /\ Cardinality(Holding) \in Nat
BY FS_Subset, FS_CardinalityType DEF Inside, Holding

\* A call that moves enters or leaves the sets that are counted, or does not.
LEMMA InsideMoves ==
  ASSUME Admitted, NEW c \in Calls, NEW s \in {"idle", "entered", "waiting", "holding"},
         pc' = [pc EXCEPT ![c] = s]
  PROVE  /\ Cardinality(Inside') = IF pc[c] = "idle" /\ s # "idle" THEN Cardinality(Inside) + 1
                                   ELSE IF pc[c] # "idle" /\ s = "idle" THEN Cardinality(Inside) - 1
                                   ELSE Cardinality(Inside)
         /\ Cardinality(Inside') \in Nat
<1>1. pc \in [Calls -> {"idle", "entered", "waiting", "holding"}]
  BY DEF Admitted
<1>2. CASE pc[c] = "idle" /\ s # "idle"
  <2>1. Inside' = Inside \cup {c} /\ c \notin Inside
    BY <1>1, <1>2 DEF Inside
  <2> QED
    <3>1. Cardinality(Inside') = Cardinality(Inside) + 1
      BY <2>1, CallSetsFinite, FS_AddElement
    <3> QED
      BY <1>2, <3>1, CallSetsFinite
<1>3. CASE pc[c] # "idle" /\ s = "idle"
  <2>1. Inside' = Inside \ {c} /\ c \in Inside
    BY <1>1, <1>3 DEF Inside
  <2>2. Cardinality(Inside') = Cardinality(Inside) - 1 /\ IsFiniteSet(Inside')
    BY <2>1, CallSetsFinite, FS_RemoveElement
  <2> QED
    BY <1>3, <2>2, FS_CardinalityType
<1>4. CASE pc[c] = "idle" <=> s = "idle"
  <2>1. Inside' = Inside
    BY <1>1, <1>4 DEF Inside
  <2> QED
    BY <1>4, <2>1, CallSetsFinite
<1> QED
  BY <1>2, <1>3, <1>4

LEMMA HoldingMoves ==
  ASSUME Admitted, NEW c \in Calls, NEW s \in {"idle", "entered", "waiting", "holding"},
         pc' = [pc EXCEPT ![c] = s]
  PROVE  /\ Cardinality(Holding') =
              IF pc[c] # "holding" /\ s = "holding" THEN Cardinality(Holding) + 1
              ELSE IF pc[c] = "holding" /\ s # "holding" THEN Cardinality(Holding) - 1
              ELSE Cardinality(Holding)
         /\ Cardinality(Holding') \in Nat
<1>1. pc \in [Calls -> {"idle", "entered", "waiting", "holding"}]
  BY DEF Admitted
<1>2. CASE pc[c] # "holding" /\ s = "holding"
  <2>1. Holding' = Holding \cup {c} /\ c \notin Holding
    BY <1>1, <1>2 DEF Holding
  <2> QED
    <3>1. Cardinality(Holding') = Cardinality(Holding) + 1
      BY <2>1, CallSetsFinite, FS_AddElement
    <3> QED
      BY <1>2, <3>1, CallSetsFinite
<1>3. CASE pc[c] = "holding" /\ s # "holding"
  <2>1. Holding' = Holding \ {c} /\ c \in Holding
    BY <1>1, <1>3 DEF Holding
  <2>2. Cardinality(Holding') = Cardinality(Holding) - 1 /\ IsFiniteSet(Holding')
    BY <2>1, CallSetsFinite, FS_RemoveElement
  <2> QED
    BY <1>3, <2>2, FS_CardinalityType
<1>4. CASE pc[c] = "holding" <=> s = "holding"
  <2>1. Holding' = Holding
    BY <1>1, <1>4 DEF Holding
  <2> QED
    BY <1>4, <2>1, CallSetsFinite
<1> QED
  BY <1>2, <1>3, <1>4

\* The line stays that of the waiting calls ...
LEMMA LineUnmoved ==
  ASSUME Admitted, NEW c \in Calls, NEW s \in {"idle", "entered", "holding"},
         pc' = [pc EXCEPT ![c] = s], pc[c] # "waiting", waiting' = waiting
  PROVE  IsLine(waiting', Ordinary) /\ Range(waiting') = {d \in Calls : pc'[d] = "waiting"}
BY DEF Admitted, NoOvertaking

\* ... when one joins it and when one gives up.
LEMMA CallWaits ==
  ASSUME Admitted, NEW c \in Ordinary, pc[c] = "entered",
         pc' = [pc EXCEPT ![c] = "waiting"], waiting' = Append(waiting, c)
  PROVE  IsLine(waiting', Ordinary) /\ Range(waiting') = {d \in Calls : pc'[d] = "waiting"}
<1>1. c \in Calls /\ c \notin Range(waiting) /\ IsLine(waiting, Ordinary)
  BY DEF Admitted, NoOvertaking, Calls
<1>2. IsLine(Append(waiting, c), Ordinary) /\ Range(Append(waiting, c)) = Range(waiting) \cup {c}
  BY <1>1, Joins
<1> QED
  BY <1>1, <1>2 DEF Admitted, NoOvertaking

LEMMA CallGivesUp ==
  ASSUME Admitted, NEW c \in Calls, pc[c] \in {"entered", "waiting"},
         pc' = [pc EXCEPT ![c] = "idle"], LeaveLine(c)
  PROVE  /\ IsLine(waiting', Ordinary) /\ Range(waiting') = {d \in Calls : pc'[d] = "waiting"}
         /\ waiting' # <<>> => waiting # <<>>
<1>1. IsLine(waiting, Ordinary) /\ Range(waiting) = {d \in Calls : pc[d] = "waiting"}
  BY DEF Admitted, NoOvertaking
<1>2. CASE pc[c] = "entered" /\ waiting' = waiting
  BY <1>1, <1>2, LineUnmoved
<1>3. CASE \E i \in DOMAIN waiting : waiting[i] = c /\ waiting' = RemoveAt(waiting, i)
  <2>1. PICK i \in DOMAIN waiting : waiting[i] = c /\ waiting' = RemoveAt(waiting, i)
    BY <1>3
  <2>2. IsLine(waiting', Ordinary) /\ Range(waiting') = Range(waiting) \ {c}
    BY <1>1, <2>1, OneLeaves
  <2>3. waiting # <<>>
    BY <2>1
  <2> QED
    BY <1>1, <2>2, <2>3 DEF Admitted
<1> QED
  BY <1>2, <1>3 DEF LeaveLine

\* Some call is inside when one is about to leave: the counters are positive.
LEMMA TokenTaken ==
  ASSUME Admitted, NEW c \in Calls
  PROVE  /\ pc[c] # "idle" => queue > 0
         /\ pc[c] = "holding" => slots > 0
<1>1. queue = Cardinality(Inside) /\ slots = Cardinality(Holding)
  BY DEF Admitted, NothingLeaks
<1>2. ASSUME pc[c] # "idle" PROVE Cardinality(Inside) # 0
  BY <1>2, CallSetsFinite, FS_EmptySet DEF Inside
<1>3. ASSUME pc[c] = "holding" PROVE Cardinality(Holding) # 0
  BY <1>3, CallSetsFinite, FS_EmptySet DEF Holding
<1> QED
  BY <1>1, <1>2, <1>3 DEF Admitted

LEMMA EnterAdmitted ==
  ASSUME Admitted, NEW c \in Calls, Enter(c)
  PROVE  Admitted'
<1>1. IsLine(waiting', Ordinary) /\ Range(waiting') = {d \in Calls : pc'[d] = "waiting"}
  BY LineUnmoved DEF Enter
<1>2. queue = Cardinality(Inside) /\ slots = Cardinality(Holding)
  BY DEF Admitted, NothingLeaks
<1>3. Cardinality(Inside') = Cardinality(Inside) + 1
  BY InsideMoves DEF Enter, Admitted
<1>4. Cardinality(Holding') = Cardinality(Holding)
  BY HoldingMoves DEF Enter, Admitted
<1> QED
  BY <1>1, <1>2, <1>3, <1>4, CallSetsFinite
  DEF Enter, Admitted, NothingLeaks, NoOvertaking

LEMMA TakeSlotAdmitted ==
  ASSUME Admitted, NEW c \in Calls, TakeSlot(c)
  PROVE  Admitted'
<1>1. IsLine(waiting', Ordinary) /\ Range(waiting') = {d \in Calls : pc'[d] = "waiting"}
  BY LineUnmoved DEF TakeSlot
<1>2. queue = Cardinality(Inside) /\ slots = Cardinality(Holding)
  BY DEF Admitted, NothingLeaks
<1>3. Cardinality(Inside') = Cardinality(Inside)
  BY InsideMoves DEF TakeSlot, Admitted
<1>4. Cardinality(Holding') = Cardinality(Holding) + 1
  BY HoldingMoves DEF TakeSlot, Admitted
<1> QED
  BY <1>1, <1>2, <1>3, <1>4, CallSetsFinite
  DEF TakeSlot, Admitted, NothingLeaks, NoOvertaking

LEMMA WaitAdmitted ==
  ASSUME Admitted, NEW c \in Calls, Wait(c)
  PROVE  Admitted'
<1>1. IsLine(waiting', Ordinary) /\ Range(waiting') = {d \in Calls : pc'[d] = "waiting"}
  BY CallWaits DEF Wait
<1>2. queue = Cardinality(Inside) /\ slots = Cardinality(Holding)
  BY DEF Admitted, NothingLeaks
<1>3. Cardinality(Inside') = Cardinality(Inside)
  BY InsideMoves DEF Wait, Admitted
<1>4. Cardinality(Holding') = Cardinality(Holding)
  BY HoldingMoves DEF Wait, Admitted
<1> QED
  BY <1>1, <1>2, <1>3, <1>4, CallSetsFinite
  DEF Wait, Admitted, NothingLeaks, NoOvertaking

LEMMA BusyAdmitted ==
  ASSUME Admitted, NEW c \in Calls, Busy(c)
  PROVE  Admitted'
<1>1. IsLine(waiting', Ordinary) /\ Range(waiting') = {d \in Calls : pc'[d] = "waiting"}
  BY LineUnmoved DEF Busy
<1>2. ended' \in [R!Users -> BOOLEAN]
  BY DEF Busy, Returned, Admitted
<1>3. queue = Cardinality(Inside) /\ slots = Cardinality(Holding)
  BY DEF Admitted, NothingLeaks
<1>4. Cardinality(Inside') = Cardinality(Inside) - 1
  BY InsideMoves DEF Busy, Admitted
<1>5. Cardinality(Holding') = Cardinality(Holding)
  BY HoldingMoves DEF Busy, Admitted
<1> QED
  BY <1>1, <1>2, <1>3, <1>4, <1>5, CallSetsFinite, TokenTaken
  DEF Busy, Admitted, NothingLeaks, NoOvertaking

LEMMA GiveUpAdmitted ==
  ASSUME Admitted, NEW c \in Calls, GiveUp(c)
  PROVE  Admitted'
<1>1. /\ IsLine(waiting', Ordinary) /\ Range(waiting') = {d \in Calls : pc'[d] = "waiting"}
      /\ waiting' # <<>> => waiting # <<>>
  BY CallGivesUp DEF GiveUp
<1>2. ended' \in [R!Users -> BOOLEAN]
  BY DEF GiveUp, Returned, Admitted
<1>3. queue = Cardinality(Inside) /\ slots = Cardinality(Holding)
  BY DEF Admitted, NothingLeaks
<1>4. Cardinality(Inside') = Cardinality(Inside) - 1
  BY InsideMoves DEF GiveUp, Admitted
<1>5. Cardinality(Holding') = Cardinality(Holding)
  BY HoldingMoves DEF GiveUp, Admitted
<1> QED
  BY <1>1, <1>2, <1>3, <1>4, <1>5, CallSetsFinite, TokenTaken
  DEF GiveUp, Admitted, NothingLeaks, NoOvertaking

\* The call that leaves hands its slot to the first in the line, or frees it.
LEMMA LeaveAdmitted ==
  ASSUME Admitted, NEW c \in Calls, Leave(c)
  PROVE  Admitted'
<1>1. ended' \in [R!Users -> BOOLEAN]
  BY DEF Leave, Returned, Admitted
<1>2. CASE waiting = <<>>
  <2>1. /\ pc' = [pc EXCEPT ![c] = "idle"] /\ waiting' = waiting /\ pc[c] = "holding"
        /\ slots' = slots - 1 /\ queue' = queue - 1
    BY <1>2 DEF Leave
  <2>2. IsLine(waiting', Ordinary) /\ Range(waiting') = {d \in Calls : pc'[d] = "waiting"}
    BY <2>1, LineUnmoved
  <2>3. queue = Cardinality(Inside) /\ slots = Cardinality(Holding)
    BY DEF Admitted, NothingLeaks
  <2>4. Cardinality(Inside') = Cardinality(Inside) - 1
    BY <2>1, InsideMoves
  <2>5. Cardinality(Holding') = Cardinality(Holding) - 1
    BY <2>1, HoldingMoves
  <2>6. queue > 0 /\ slots > 0
    BY <2>1, TokenTaken
  <2>7. queue' \in 0 .. QueueCapacity /\ slots' \in 0 .. Slots
    BY <2>1, <2>6 DEF Admitted
  <2>8. pc' \in [Calls -> {"idle", "entered", "waiting", "holding"}]
    BY <2>1 DEF Admitted
  <2> QED
    BY <1>1, <1>2, <2>1, <2>2, <2>3, <2>4, <2>5, <2>7, <2>8
    DEF Admitted, NothingLeaks, NoOvertaking
<1>3. CASE waiting # <<>>
  <2> DEFINE h == Head(waiting)
  <2>1. /\ pc' = [pc EXCEPT ![c] = "idle", ![h] = "holding"] /\ pc[c] = "holding"
        /\ slots' = slots /\ queue' = queue - 1 /\ waiting' = Tail(waiting)
    BY <1>3 DEF Leave
  <2>2. /\ h \in Ordinary /\ h \in Range(waiting) /\ IsLine(Tail(waiting), Ordinary)
        /\ Range(Tail(waiting)) = Range(waiting) \ {h}
    BY <1>3, FirstLeaves DEF Admitted
  <2> HIDE DEF h
  <2>3. /\ pc \in [Calls -> {"idle", "entered", "waiting", "holding"}]
        /\ Range(waiting) = {d \in Calls : pc[d] = "waiting"}
        /\ queue = Cardinality(Inside) /\ slots = Cardinality(Holding) /\ slots = Slots
    BY <1>3 DEF Admitted, NothingLeaks, NoOvertaking
  <2>4. h \in Calls /\ pc[h] = "waiting" /\ h # c
    BY <2>1, <2>2, <2>3
  <2>5. pc' \in [Calls -> {"idle", "entered", "waiting", "holding"}]
    BY <2>1, <2>3, <2>4
  <2>6. Inside' = Inside \ {c} /\ c \in Inside
    BY <2>1, <2>3, <2>4 DEF Inside
  <2>7. Cardinality(Inside') = Cardinality(Inside) - 1
    BY <2>6, CallSetsFinite, FS_RemoveElement
  <2>8. Holding' = (Holding \ {c}) \cup {h} /\ c \in Holding /\ h \notin Holding
    BY <2>1, <2>3, <2>4 DEF Holding
  <2>9. Cardinality(Holding \ {c}) = Cardinality(Holding) - 1 /\ IsFiniteSet(Holding \ {c})
    BY <2>8, CallSetsFinite, FS_RemoveElement
  <2>10. Cardinality(Holding') = Cardinality(Holding)
    <3>1. h \notin Holding \ {c}
      BY <2>8
    <3>2. Cardinality(Holding') = Cardinality(Holding) - 1 + 1
      BY <2>8, <2>9, <3>1, FS_AddElement
    <3> QED
      BY <3>2, CallSetsFinite
  <2>11. Range(waiting') = {d \in Calls : pc'[d] = "waiting"}
    BY <2>1, <2>2, <2>3, <2>4
  <2>12. queue > 0
    BY <2>1, TokenTaken
  <2>13. queue' \in 0 .. QueueCapacity /\ queue' = Cardinality(Inside')
    BY <2>1, <2>3, <2>7, <2>12 DEF Admitted
  <2>14. slots' \in 0 .. Slots /\ slots' = Slots /\ slots' = Cardinality(Holding')
    <3>1. slots' = slots /\ slots = Slots /\ slots = Cardinality(Holding)
      BY <2>1, <2>3
    <3> QED
      BY <2>10, <3>1
  <2> QED
    BY <1>1, <2>1, <2>2, <2>5, <2>11, <2>13, <2>14
    DEF Admitted, NothingLeaks, NoOvertaking
<1> QED
  BY <1>2, <1>3

LEMMA EndContextAdmitted ==
  ASSUME Admitted, NEW c \in Calls, EndContext(c)
  PROVE  Admitted'
BY DEF EndContext, Admitted, NothingLeaks, NoOvertaking, Inside, Holding

\* Steps that concern the runtime only.
LEMMA AdmissionUnchanged ==
  ASSUME Admitted, UNCHANGED admission, ended' \in [R!Users -> BOOLEAN]
  PROVE  Admitted'
BY DEF admission, Admitted, NothingLeaks, NoOvertaking, Inside, Holding

-----------------------------------------------------------------------------

Actors == R!Users \cup Closers
States == {"idle", "entering", "waiting", "holding", "init", "probing", "posting", "inferring",
           "cancelling", "awaiting", "returned", "ready", "failed"}
Queued == {c \in Calls : rpc[c] \notin {"idle", "entering"}}

LEMMA QueuedFinite == IsFiniteSet(Queued) /\ Cardinality(Queued) \in Nat
  BY FS_Subset, FS_CardinalityType DEF Queued

\* There is one slot, and while the runtime starts nobody calls it: at most
\* one caller is past the line.
LEMMA OneAtWork ==
  ASSUME Runtime, NEW a \in Actors, NEW b \in Actors, rpc[a] \in AtWork, rpc[b] \in AtWork
  PROVE  a = b
<1>1. ASSUME NEW d \in Clients, rpc[d] \in AtWork PROVE rpc[Boot] \in {"ready", "failed"} /\ slot = d
  BY <1>1 DEF Runtime, Callers, Line, R!Booted, AtWork, Clients
<1>2. rpc[Boot] \in {"ready", "failed"} => rpc[Boot] \notin AtWork
  BY DEF AtWork
<1>3. a \in Clients \cup {Boot} /\ b \in Clients \cup {Boot}
  BY DEF Actors, R!Users, Clients
<1> QED
  BY <1>1, <1>2, <1>3

\* A caller moves within what it counts for: the line and the slot stay.
LEMMA LineKept ==
  ASSUME Runtime, NEW a \in Actors, NEW s,
         rpc' = [rpc EXCEPT ![a] = s],
         UNCHANGED <<slot, rwaiting, rqueue>>,
         a \in Clients => /\ rpc[a] \in AtWork <=> s \in AtWork
                          /\ rpc[a] # "waiting" /\ s # "waiting",
         a \in Calls => (rpc[a] \in {"idle", "entering"} <=> s \in {"idle", "entering"})
  PROVE  Line'
<1>1. rpc \in [Actors -> States]
  BY DEF Runtime, R!TypeOK, Actors, R!Users, States
<1>2. \A d \in Clients : d \in Actors
  BY DEF Clients, Actors, R!Users
<1>3. {d \in Clients : rpc'[d] = "waiting"} = {d \in Clients : rpc[d] = "waiting"}
  BY <1>1, <1>2
<1>4. Queued' = Queued
  BY <1>1, <1>2 DEF Queued, Clients
<1>5. \A d \in Clients : rpc'[d] \in AtWork <=> rpc[d] \in AtWork
  BY <1>1, <1>2
<1> QED
  BY <1>3, <1>4, <1>5 DEF Runtime, Line, Queued

\* A request leaves: it gives back the slot and its token.
LEMMA LineLeft ==
  ASSUME Runtime, NEW r \in Calls, rpc[r] \in AtWork, R!Leave(r)
  PROVE  Line' /\ rqueue' \in 0 .. RuntimeCapacity
<1>1. rpc \in [Actors -> States] /\ rqueue \in 0 .. RuntimeCapacity
  BY DEF Runtime, R!TypeOK, Actors, R!Users, States
<1>2. /\ rpc' = [rpc EXCEPT ![r] = "idle"] /\ slot' = Nobody
      /\ rqueue' = rqueue - 1 /\ rwaiting' = rwaiting
  BY DEF R!Leave
<1>3. \A d \in Clients : d \in Actors
  BY DEF Clients, Actors, R!Users
<1>4. r \in Clients /\ slot = r
  BY DEF Runtime, Line, Clients
<1>5. Queued' = Queued \ {r} /\ r \in Queued
  BY <1>1, <1>2, <1>3, <1>4 DEF Queued, Clients, AtWork
<1>6. Cardinality(Queued') = Cardinality(Queued) - 1 /\ IsFiniteSet(Queued')
  BY <1>5, QueuedFinite, FS_RemoveElement
<1>7. rqueue' = Cardinality(Queued') /\ Cardinality(Queued') \in Nat
  BY <1>2, <1>6, FS_CardinalityType DEF Runtime, Line, Queued
<1>8. {d \in Clients : rpc'[d] = "waiting"} = {d \in Clients : rpc[d] = "waiting"}
  BY <1>1, <1>2, <1>3 DEF AtWork
<1>9. \A d \in Clients : rpc'[d] \in AtWork <=> slot' = d
  BY <1>1, <1>2, <1>3, <1>4 DEF Runtime, Line, AtWork, Clients
<1> QED
  BY <1>1, <1>2, <1>7, <1>8, <1>9 DEF Runtime, Line, Queued

\* A request is admitted to the line with a token.
LEMMA LineEntered ==
  ASSUME Runtime, NEW r \in Calls, R!Enter(r)
  PROVE  Line' /\ rqueue' \in 0 .. RuntimeCapacity /\ rwaiting' \in Seq(Clients)
<1>1. rpc \in [Actors -> States] /\ rqueue \in 0 .. RuntimeCapacity
  BY DEF Runtime, R!TypeOK, Actors, R!Users, States
<1>2. /\ rpc' = [rpc EXCEPT ![r] = "waiting"] /\ slot' = slot /\ rpc[r] = "entering"
      /\ rqueue' = rqueue + 1 /\ rwaiting' = Append(rwaiting, r) /\ rqueue < RuntimeCapacity
  BY DEF R!Enter
<1>3. r \in Clients /\ \A d \in Clients : d \in Actors
  BY DEF Clients, Actors, R!Users
<1>4. IsLine(rwaiting, Clients) /\ Range(rwaiting) = {a \in Clients : rpc[a] = "waiting"}
  BY DEF Runtime, Line
<1>5. IsLine(rwaiting', Clients) /\ Range(rwaiting') = Range(rwaiting) \cup {r}
  BY <1>2, <1>3, <1>4, Joins
<1>6. Range(rwaiting') = {a \in Clients : rpc'[a] = "waiting"}
  BY <1>1, <1>2, <1>3, <1>4, <1>5
<1>7. Queued' = Queued \cup {r} /\ r \notin Queued
  BY <1>1, <1>2, <1>3 DEF Queued, Clients
<1>8. Cardinality(Queued') = Cardinality(Queued) + 1
  BY <1>7, QueuedFinite, FS_AddElement
<1>9. rqueue' = Cardinality(Queued')
  BY <1>2, <1>8 DEF Runtime, Line, Queued
<1>10. \A d \in Clients : rpc'[d] \in AtWork <=> slot' = d
  BY <1>1, <1>2, <1>3 DEF Runtime, Line, AtWork
<1> QED
  BY <1>1, <1>2, <1>5, <1>6, <1>9, <1>10 DEF Line, Queued, IsLine

\* A Close joins the line without one.
LEMMA LineClosing ==
  ASSUME Runtime, NEW c \in Closers, R!CancelRoot(c)
  PROVE  Line' /\ rwaiting' \in Seq(Clients)
<1>1. rpc \in [Actors -> States]
  BY DEF Runtime, R!TypeOK, Actors, R!Users, States
<1>2. /\ rpc' = [rpc EXCEPT ![c] = "waiting"] /\ slot' = slot /\ rpc[c] = "cancelling"
      /\ rqueue' = rqueue /\ rwaiting' = Append(rwaiting, c)
  BY DEF R!CancelRoot
<1>3. c \in Clients /\ c \notin Calls /\ \A d \in Clients : d \in Actors
  BY DEF Clients, Actors, R!Users
<1>4. IsLine(rwaiting, Clients) /\ Range(rwaiting) = {a \in Clients : rpc[a] = "waiting"}
  BY DEF Runtime, Line
<1>5. IsLine(rwaiting', Clients) /\ Range(rwaiting') = Range(rwaiting) \cup {c}
  BY <1>2, <1>3, <1>4, Joins
<1>6. Range(rwaiting') = {a \in Clients : rpc'[a] = "waiting"}
  BY <1>1, <1>2, <1>3, <1>4, <1>5
<1>7. Queued' = Queued
  BY <1>1, <1>2, <1>3 DEF Queued, Clients
<1>8. \A d \in Clients : rpc'[d] \in AtWork <=> slot' = d
  BY <1>1, <1>2, <1>3 DEF Runtime, Line, AtWork
<1> QED
  BY <1>2, <1>5, <1>6, <1>7, <1>8 DEF Runtime, Line, Queued, IsLine

\* The one who has waited longest gets the slot.
LEMMA LineServed ==
  ASSUME Runtime, R!TakeSlot
  PROVE  Line' /\ rwaiting' \in Seq(Clients) /\ slot' \in Clients /\ rpc[slot'] = "waiting"
         /\ rpc' = [rpc EXCEPT ![slot'] = "holding"]
<1> DEFINE h == Head(rwaiting)
<1>1. rpc \in [Actors -> States]
  BY DEF Runtime, R!TypeOK, Actors, R!Users, States
<1>2. /\ rpc' = [rpc EXCEPT ![h] = "holding"] /\ slot = Nobody /\ slot' = h
      /\ rqueue' = rqueue /\ rwaiting' = Tail(rwaiting) /\ rwaiting # <<>>
  BY DEF R!TakeSlot
<1>3. \A d \in Clients : d \in Actors /\ d # Nobody
  BY DEF Clients, Actors, R!Users
<1>4. IsLine(rwaiting, Clients) /\ Range(rwaiting) = {a \in Clients : rpc[a] = "waiting"}
  BY DEF Runtime, Line
<1>5. /\ IsLine(rwaiting', Clients) /\ Range(rwaiting') = Range(rwaiting) \ {h}
      /\ h \in Clients /\ h \in Range(rwaiting)
  BY <1>2, <1>4, FirstLeaves
<1> HIDE DEF h
<1>6. rpc[h] = "waiting"
  BY <1>4, <1>5
<1>7. Range(rwaiting') = {a \in Clients : rpc'[a] = "waiting"}
  BY <1>1, <1>2, <1>3, <1>4, <1>5
<1>8. Queued' = Queued
  BY <1>1, <1>2, <1>3, <1>5, <1>6 DEF Queued, Clients
<1>9. \A d \in Clients : rpc'[d] \in AtWork <=> slot' = d
  BY <1>1, <1>2, <1>3, <1>5 DEF Runtime, Line, AtWork
<1> QED
  BY <1>2, <1>5, <1>6, <1>7, <1>8, <1>9 DEF Runtime, Line, Queued, IsLine

\* A request whose context ended leaves the line with its token.
LEMMA LineGivenUp ==
  ASSUME Runtime, NEW r \in Calls, R!GiveUp(r)
  PROVE  Line' /\ rqueue' \in 0 .. RuntimeCapacity /\ rwaiting' \in Seq(Clients)
<1>1. rpc \in [Actors -> States] /\ rqueue \in 0 .. RuntimeCapacity
  BY DEF Runtime, R!TypeOK, Actors, R!Users, States
<1>2. /\ rpc' = [rpc EXCEPT ![r] = "idle"] /\ slot' = slot /\ rpc[r] = "waiting"
      /\ rqueue' = rqueue - 1
      /\ \E i \in DOMAIN rwaiting : rwaiting[i] = r /\ rwaiting' = RemoveAt(rwaiting, i)
  BY DEF R!GiveUp, RemoveAt, R!RemoveAt
<1>3. r \in Clients /\ \A d \in Clients : d \in Actors
  BY DEF Clients, Actors, R!Users
<1>4. IsLine(rwaiting, Clients) /\ Range(rwaiting) = {a \in Clients : rpc[a] = "waiting"}
  BY DEF Runtime, Line
<1>5. IsLine(rwaiting', Clients) /\ Range(rwaiting') = Range(rwaiting) \ {r}
  BY <1>2, <1>4, OneLeaves
<1>6. Range(rwaiting') = {a \in Clients : rpc'[a] = "waiting"}
  BY <1>1, <1>2, <1>3, <1>4, <1>5
<1>7. Queued' = Queued \ {r} /\ r \in Queued
  BY <1>1, <1>2, <1>3 DEF Queued, Clients
<1>8. Cardinality(Queued') = Cardinality(Queued) - 1 /\ IsFiniteSet(Queued')
  BY <1>7, QueuedFinite, FS_RemoveElement
<1>9. rqueue' = Cardinality(Queued') /\ Cardinality(Queued') \in Nat
  BY <1>2, <1>8, FS_CardinalityType DEF Runtime, Line, Queued
<1>10. \A d \in Clients : rpc'[d] \in AtWork <=> slot' = d
  BY <1>1, <1>2, <1>3 DEF Runtime, Line, AtWork
<1> QED
  BY <1>1, <1>2, <1>5, <1>6, <1>9, <1>10 DEF Line, Queued, IsLine

-----------------------------------------------------------------------------

Records == [state : {"gone", "running", "exited"}, device : {"cpu", "cuda"}, job : Calls \cup {Nobody}]
Infos == [state : {"initializing", "ready", "unavailable", "reload_required", "closed"},
          available : BOOLEAN, fallback : BOOLEAN, selected : {"none", "cpu", "cuda"}]

\* The types of the runtime, one by one.
LEMMA RuntimeTypes ==
  ASSUME R!TypeOK
  PROVE  /\ device \in Devices
         /\ rpc \in [Actors -> States]
         /\ worker \in {0, 1, 2} /\ starting \in {0, 1, 2}
         /\ procs \in [1 .. 2 -> Records]
         /\ info \in Infos
         /\ closed \in BOOLEAN /\ rootEnded \in BOOLEAN /\ closeDone \in BOOLEAN
         /\ failed \in BOOLEAN
BY DEF R!TypeOK, Actors, R!Users, States, R!Processes, R!NoProcess, Records, Infos

\* They are kept if each is.
LEMMA RuntimeTyped ==
  ASSUME R!TypeOK,
         device' = device, slot' \in Clients \cup {Nobody}, rwaiting' \in Seq(Clients),
         rqueue' \in 0 .. RuntimeCapacity,
         rpc' \in [Actors -> States], worker' \in {0, 1, 2}, starting' \in {0, 1, 2},
         procs' \in [1 .. 2 -> Records], info' \in Infos,
         closed' \in BOOLEAN, rootEnded' \in BOOLEAN, closeDone' \in BOOLEAN, failed' \in BOOLEAN
  PROVE  R!TypeOK'
BY DEF R!TypeOK, Actors, R!Users, States, R!Processes, R!NoProcess, Records, Infos, Clients

\* A caller moves among the states of its kind; whoever is not Boot finds the
\* runtime started.
LEMMA CallersMove ==
  ASSUME Runtime, NEW a \in Actors, NEW s \in States,
         rpc' = [rpc EXCEPT ![a] = s],
         a \in Calls => s \in {"idle", "entering", "waiting"} \cup AtWork,
         a \in Closers => s \in {"idle", "cancelling", "waiting", "holding", "awaiting", "returned"},
         a = Boot => /\ s \in {"init", "probing", "ready", "failed"} /\ rpc[Boot] \in Starting
                     /\ closed' = closed,
         a # Boot => R!Booted
  PROVE  Callers' /\ rpc' \in [Actors -> States]
<1>1. rpc \in [Actors -> States]
  BY RuntimeTypes DEF Runtime
<1>2. rpc' \in [Actors -> States]
  BY <1>1
<1>3. \A d \in Actors : rpc'[d] = IF d = a THEN s ELSE rpc[d]
  BY <1>1
<1>4. \A c \in Calls : rpc'[c] \in {"idle", "entering", "waiting"} \cup AtWork
  BY <1>3 DEF Runtime, Callers, Actors, R!Users
<1>5. \A c \in Closers :
        rpc'[c] \in {"idle", "cancelling", "waiting", "holding", "awaiting", "returned"}
  BY <1>3 DEF Runtime, Callers, Actors, R!Users
<1>6. rpc'[Boot] \in {"init", "probing", "ready", "failed"}
  BY <1>3 DEF Runtime, Callers, Actors, R!Users
<1>7. ~R!Booted' => ~closed' /\ \A d \in Clients : rpc'[d] = "idle"
  <2>1. Boot \in Actors /\ Boot \notin Clients /\ \A d \in Clients : d \in Actors
    BY DEF Actors, R!Users, Clients
  <2>2. CASE a # Boot
    BY <1>3, <2>1, <2>2 DEF R!Booted
  <2>3. CASE a = Boot
    BY <1>3, <2>1, <2>3 DEF Runtime, Callers, R!Booted, Starting
  <2> QED
    BY <2>2, <2>3
<1> QED
  BY <1>2, <1>4, <1>5, <1>6, <1>7 DEF Callers

\* Whoever is doing something finds it started.
LEMMA StartedFirst ==
  ASSUME Runtime, NEW a \in Clients, rpc[a] # "idle"
  PROVE  R!Booted
BY DEF Runtime, Callers

\* A caller moves and nothing of the process, the device or Close changes.
LEMMA Quiet ==
  ASSUME Runtime, Recogniser, NEW a \in Actors, NEW s \in States,
         rpc' = [rpc EXCEPT ![a] = s],
         UNCHANGED <<device, worker, starting, procs, info, closed, closeDone, failed>>,
         rpc[a] \notin Starting \cup {"inferring"},
         s \notin AtWork \ {"holding"},
         a \in Closers => closed /\ (s = "returned" => closeDone)
  PROVE  Recogniser'
<1>1. rpc \in [Actors -> States]
  BY RuntimeTypes DEF Runtime
<1>2. \A d \in Actors : rpc'[d] = IF d = a THEN s ELSE rpc[d]
  BY <1>1
<1>3. /\ \A d \in R!Users : d \in Actors
      /\ \A d \in Calls : d \in Actors /\ d \in R!Users
      /\ \A d \in Closers : d \in Actors
  BY DEF Actors, R!Users
<1>4. \A d \in R!Users : /\ rpc[d] = "probing" => rpc'[d] = "probing"
                         /\ rpc'[d] \in AtWork \ {"holding"} => rpc'[d] = rpc[d]
  BY <1>2, <1>3 DEF Starting, AtWork
<1>5. Process'
  BY <1>3, <1>4 DEF Recogniser, Process, AtWork, Starting
<1>6. Job'
  <2>1. \A p \in R!Processes : procs[p].job # Nobody => procs[p].job \in Calls
    BY RuntimeTypes DEF Runtime, Records, R!Processes
  <2>2. \A d \in Calls : rpc'[d] = "inferring" <=> rpc[d] = "inferring"
    BY <1>2, <1>3, <1>4 DEF Starting, AtWork
  <2> QED
    BY <2>1, <2>2 DEF Recogniser, Job, R!Running
<1>7. ClosedState'
  BY <1>2, <1>3, <1>4 DEF Recogniser, ClosedState
<1>8. Device'
  BY DEF Recogniser, Device, R!FallbackSound, R!Running
<1> QED
  BY <1>5, <1>6, <1>7, <1>8 DEF Recogniser

\* What Kill leaves.
LEMMA Killed ==
  ASSUME R!TypeOK, NEW p \in {0, 1, 2}, procs' = R!Kill(p)
  PROVE  /\ procs' \in [1 .. 2 -> Records]
         /\ \A q \in 1 .. 2 : /\ q # p => procs'[q] = procs[q]
                              /\ q = p => procs'[q].state = "gone" /\ procs'[q].job = Nobody
<1>1. procs \in [1 .. 2 -> Records] /\ R!Gone \in Records
  BY RuntimeTypes DEF R!Gone, Records
<1>2. R!Gone.state = "gone" /\ R!Gone.job = Nobody
  BY DEF R!Gone
<1> HIDE DEF Records
<1>3. CASE p = 0
  BY <1>1, <1>3 DEF R!Kill, R!NoProcess
<1>4. CASE p # 0
  <2>1. procs' = [procs EXCEPT ![p] = R!Gone]
    BY <1>4 DEF R!Kill, R!NoProcess
  <2> QED
    BY <1>1, <1>2, <1>4, <2>1
<1> QED
  BY <1>3, <1>4

\* Whoever works and is not probing knows that no process is being started.
LEMMA NoneStarting ==
  ASSUME Runtime, Recogniser, NEW a \in Actors, rpc[a] \in AtWork \ {"probing"}
  PROVE  starting = 0
<1>1. SUFFICES ASSUME starting # 0 PROVE FALSE
  OBVIOUS
<1>2. PICK b \in R!Users : rpc[b] = "probing"
  BY <1>1 DEF Recogniser, Process, R!NoProcess
<1>3. a = b
  BY <1>2, OneAtWork DEF AtWork, Actors
<1> QED
  BY <1>2, <1>3

\* One who starts a process has no other; one who works reaps the worker.  What
\* they leave is no process at all.
LEMMA Reaped ==
  ASSUME Runtime, Recogniser, NEW a \in Actors,
         \/ rpc[a] \in Starting /\ a \in R!Users /\ procs' = R!Kill(starting)
         \/ rpc[a] \in AtWork \ {"probing"} /\ procs' = R!Kill(worker),
         worker' = 0, starting' = 0, device' = device,
         info'.fallback => failed' /\ device = "auto",
         failed => failed'
  PROVE  /\ Process' /\ Job' /\ Device'
         /\ procs' \in [1 .. 2 -> Records]
         /\ \A p \in 1 .. 2 : procs'[p].state = "gone"
<1>1. procs' \in [1 .. 2 -> Records]
      /\ \A q \in 1 .. 2 : procs'[q].state = "gone" /\ procs'[q].job = Nobody
  <2>1. \A q \in 1 .. 2 : procs[q].state # "gone" => q \in {worker, starting}
    BY DEF Recogniser, Process, R!Processes
  <2>2. /\ R!TypeOK /\ worker \in {0, 1, 2} /\ starting \in {0, 1, 2}
        /\ \A q \in 1 .. 2 : procs[q].state = "gone" => procs[q].job = Nobody
    BY RuntimeTypes DEF Runtime, Recogniser, Job, R!Processes
  <2>3. CASE rpc[a] \in Starting /\ a \in R!Users /\ procs' = R!Kill(starting)
    <3>1. worker = 0
      BY <2>3 DEF Recogniser, Process, R!NoProcess
    <3> QED
      BY <2>1, <2>2, <2>3, <3>1, Killed
  <2>4. CASE rpc[a] \in AtWork \ {"probing"} /\ procs' = R!Kill(worker)
    <3>1. starting = 0
      BY <2>4, NoneStarting
    <3> QED
      BY <2>1, <2>2, <2>4, <3>1, Killed
  <2> QED
    BY <2>3, <2>4
<1>2. Process'
  BY <1>1 DEF Process, R!Processes, R!NoProcess
<1>3. Job'
  BY <1>1 DEF Job, R!Processes, R!Running, R!NoProcess
<1>4. Device'
  BY <1>1 DEF Device, R!FallbackSound, R!Processes, R!Running, R!NoProcess
<1> QED
  BY <1>1, <1>2, <1>3, <1>4

-----------------------------------------------------------------------------

\* What is left to say of a step that lets one caller move.
LEMMA QuietStep ==
  ASSUME Runtime, Recogniser, NEW a \in Clients, NEW s \in States,
         rpc' = [rpc EXCEPT ![a] = s],
         a \in Calls => s \in {"idle", "entering", "waiting", "holding"},
         a \in Closers => s \in {"waiting", "holding", "awaiting", "returned"},
         R!Booted, Line',
         slot' \in Clients \cup {Nobody}, rwaiting' \in Seq(Clients),
         rqueue' \in 0 .. RuntimeCapacity, rootEnded' \in BOOLEAN,
         UNCHANGED <<device, worker, starting, procs, info, closed, closeDone, failed>>,
         rpc[a] \notin Starting \cup {"inferring"},
         a \in Closers => closed /\ (s = "returned" => closeDone)
  PROVE  Runtime' /\ Recogniser'
<1>1. a \in Actors /\ a # Boot
  BY DEF Clients, Actors, R!Users
<1>2. Callers' /\ rpc' \in [Actors -> States]
  BY <1>1, CallersMove DEF Clients, AtWork
<1>3. R!TypeOK'
  BY <1>2, RuntimeTypes, RuntimeTyped DEF Runtime
<1>4. Recogniser'
  BY <1>1, Quiet DEF Clients, AtWork
<1> QED
  BY <1>2, <1>3, <1>4 DEF Runtime

\* The variables of the line, when a step leaves them alone.
LEMMA LineTypes ==
  ASSUME Runtime
  PROVE  /\ slot \in Clients \cup {Nobody} /\ rwaiting \in Seq(Clients)
         /\ rqueue \in 0 .. RuntimeCapacity
BY DEF Runtime, R!TypeOK, Clients

LEMMA CallSound ==
  ASSUME Runtime, Recogniser, NEW r \in Calls, R!Call(r)
  PROVE  Runtime' /\ Recogniser'
<1>1. r \in Clients /\ r \in Actors /\ r \notin Closers
  BY DEF Clients, Actors, R!Users
<1>2. /\ R!Booted /\ rpc[r] = "idle"
      /\ UNCHANGED <<device, slot, rwaiting, rqueue, worker, starting, procs, info, failed>>
      /\ UNCHANGED <<closed, rootEnded, closeDone>>
  BY DEF R!Call, R!closeVars
<1>3. PICK s \in {"idle", "entering"} : rpc' = [rpc EXCEPT ![r] = s]
  <2>1. rpc = [rpc EXCEPT ![r] = rpc[r]]
    BY RuntimeTypes DEF Runtime
  <2> QED
    BY <1>2, <2>1 DEF R!Call
<1>4. Line'
  BY <1>1, <1>2, <1>3, LineKept DEF AtWork
<1> QED
  BY <1>1, <1>2, <1>3, <1>4, QuietStep, LineTypes, RuntimeTypes DEF Runtime, States, Starting

LEMMA EnterSound ==
  ASSUME Runtime, Recogniser, NEW r \in Calls, R!Enter(r)
  PROVE  Runtime' /\ Recogniser'
<1>1. r \in Clients /\ r \notin Closers
  BY DEF Clients
<1>2. /\ rpc[r] = "entering" /\ rpc' = [rpc EXCEPT ![r] = "waiting"]
      /\ UNCHANGED <<device, slot, worker, starting, procs, info, failed>>
      /\ UNCHANGED <<closed, rootEnded, closeDone>>
  BY DEF R!Enter, R!closeVars
<1>3. R!Booted
  BY <1>1, <1>2, StartedFirst
<1> QED
  BY <1>1, <1>2, <1>3, LineEntered, QuietStep, LineTypes, RuntimeTypes DEF Runtime, States, Starting

LEMMA RefusedSound ==
  ASSUME Runtime, Recogniser, NEW r \in Calls, R!Refused(r)
  PROVE  Runtime' /\ Recogniser'
<1>1. r \in Clients /\ r \in Actors /\ r \notin Closers
  BY DEF Clients, Actors, R!Users
<1>2. /\ rpc[r] = "entering" /\ rpc' = [rpc EXCEPT ![r] = "idle"]
      /\ UNCHANGED <<device, slot, rwaiting, rqueue, worker, starting, procs, info, failed>>
      /\ UNCHANGED <<closed, rootEnded, closeDone>>
  BY DEF R!Refused, R!closeVars
<1>3. R!Booted
  BY <1>1, <1>2, StartedFirst
<1>4. Line'
  BY <1>1, <1>2, LineKept DEF AtWork
<1> QED
  BY <1>1, <1>2, <1>3, <1>4, QuietStep, LineTypes, RuntimeTypes DEF Runtime, States, Starting

LEMMA GiveUpSound ==
  ASSUME Runtime, Recogniser, NEW r \in Calls, R!GiveUp(r)
  PROVE  Runtime' /\ Recogniser'
<1>1. r \in Clients /\ r \notin Closers
  BY DEF Clients
<1>2. /\ rpc[r] = "waiting" /\ rpc' = [rpc EXCEPT ![r] = "idle"]
      /\ UNCHANGED <<device, slot, worker, starting, procs, info, failed>>
      /\ UNCHANGED <<closed, rootEnded, closeDone>>
  BY DEF R!GiveUp, R!closeVars
<1>3. R!Booted
  BY <1>1, <1>2, StartedFirst
<1> QED
  BY <1>1, <1>2, <1>3, LineGivenUp, QuietStep, LineTypes, RuntimeTypes DEF Runtime, States, Starting

LEMMA TakeSlotSound ==
  ASSUME Runtime, Recogniser, R!TakeSlot
  PROVE  Runtime' /\ Recogniser'
<1>1. /\ Line' /\ rwaiting' \in Seq(Clients) /\ slot' \in Clients /\ rpc[slot'] = "waiting"
      /\ rpc' = [rpc EXCEPT ![slot'] = "holding"]
  BY LineServed
<1>2. /\ UNCHANGED <<device, rqueue, worker, starting, procs, info, failed>>
      /\ UNCHANGED <<closed, rootEnded, closeDone>>
  BY DEF R!TakeSlot, R!closeVars
<1>3. R!Booted
  BY <1>1, StartedFirst
<1>4. slot' \in Closers => closed
  BY <1>1 DEF Recogniser, ClosedState
<1> QED
  BY <1>1, <1>2, <1>3, <1>4, QuietStep, LineTypes, RuntimeTypes DEF Runtime, States, Starting

LEMMA CancelRootSound ==
  ASSUME Runtime, Recogniser, NEW c \in Closers, R!CancelRoot(c)
  PROVE  Runtime' /\ Recogniser'
<1>1. c \in Clients /\ c \notin Calls
  BY DEF Clients
<1>2. /\ rpc[c] = "cancelling" /\ rpc' = [rpc EXCEPT ![c] = "waiting"] /\ rootEnded' = TRUE
      /\ UNCHANGED <<device, slot, rqueue, worker, starting, procs, info, failed>>
      /\ UNCHANGED <<closed, closeDone>>
  BY DEF R!CancelRoot
<1>3. R!Booted
  BY <1>1, <1>2, StartedFirst
<1>4. closed
  BY <1>2 DEF Recogniser, ClosedState
<1> QED
  BY <1>1, <1>2, <1>3, <1>4, LineClosing, QuietStep, LineTypes, RuntimeTypes
  DEF Runtime, States, Starting

LEMMA CloseReturnsSound ==
  ASSUME Runtime, Recogniser, NEW c \in Closers, R!CloseReturns(c)
  PROVE  Runtime' /\ Recogniser'
<1>1. c \in Clients /\ c \in Actors /\ c \notin Calls
  BY DEF Clients, Actors, R!Users
<1>2. /\ rpc[c] = "awaiting" /\ rpc' = [rpc EXCEPT ![c] = "returned"] /\ closeDone
      /\ UNCHANGED <<device, slot, rwaiting, rqueue, worker, starting, procs, info, failed>>
      /\ UNCHANGED <<closed, rootEnded, closeDone>>
  BY DEF R!CloseReturns, R!closeVars
<1>3. R!Booted
  BY <1>1, <1>2, StartedFirst
<1>4. closed
  BY <1>2 DEF Recogniser, ClosedState
<1>5. Line'
  BY <1>1, <1>2, LineKept DEF AtWork
<1> QED
  BY <1>1, <1>2, <1>3, <1>4, <1>5, QuietStep, LineTypes, RuntimeTypes DEF Runtime, States, Starting

-----------------------------------------------------------------------------

\* A first Close forbids new work and says so; a second one waits for it.
LEMMA CloseSound ==
  ASSUME Runtime, Recogniser, NEW c \in Closers, R!Close(c)
  PROVE  Runtime' /\ Recogniser'
<1>1. c \in Clients /\ c \in Actors /\ c \notin Calls /\ c # Boot
  BY DEF Clients, Actors, R!Users
<1>2. /\ R!Booted /\ rpc[c] = "idle"
      /\ UNCHANGED <<device, slot, rwaiting, rqueue, worker, starting, procs, failed>>
      /\ UNCHANGED <<rootEnded, closeDone>>
  BY DEF R!Close
<1>3. CASE closed
  <2>1. rpc' = [rpc EXCEPT ![c] = "awaiting"] /\ closed' = closed /\ info' = info
    BY <1>3 DEF R!Close
  <2>2. Line'
    BY <1>1, <1>2, <2>1, LineKept DEF AtWork
  <2> QED
    BY <1>1, <1>2, <1>3, <2>1, <2>2, QuietStep, LineTypes, RuntimeTypes
    DEF Runtime, States, Starting
<1>4. CASE ~closed
  <2>1. /\ rpc' = [rpc EXCEPT ![c] = "cancelling"] /\ closed' = TRUE
        /\ info' = [info EXCEPT !.available = FALSE, !.state = "closed"]
    BY <1>4 DEF R!Close
  <2>2. Line'
    BY <1>1, <1>2, <2>1, LineKept DEF AtWork
  <2>3. Callers' /\ rpc' \in [Actors -> States]
    BY <1>1, <1>2, <2>1, CallersMove DEF States
  <2>4. info' \in Infos /\ info'.fallback = info.fallback
    <3>1. info \in Infos
      BY RuntimeTypes DEF Runtime
    <3> QED
      BY <2>1, <3>1 DEF Infos
  <2>5. R!TypeOK'
    BY <1>2, <2>1, <2>3, <2>4, RuntimeTypes, RuntimeTyped, LineTypes DEF Runtime
  <2>6. rpc \in [Actors -> States] /\ \A d \in R!Users : d \in Actors /\ d # c
    BY <1>1, RuntimeTypes DEF Runtime, Actors, R!Users
  <2>7. \A d \in R!Users : rpc'[d] = rpc[d]
    BY <2>1, <2>6
  <2>8. Process'
    BY <1>2, <2>7 DEF Recogniser, Process
  <2>9. Job'
    <3>1. \A p \in R!Processes : procs[p].job # Nobody => procs[p].job \in Calls
      BY RuntimeTypes DEF Runtime, Records, R!Processes
    <3> QED
      BY <1>2, <2>7, <3>1 DEF Recogniser, Job, R!Running, R!Users
  <2>10. ~closeDone /\ \A d \in Closers : rpc'[d] # "returned"
    <3>1. ~closeDone /\ \A d \in Closers : d \in Actors /\ rpc[d] = "idle"
      BY <1>4 DEF Recogniser, ClosedState, Actors
    <3> QED
      BY <2>1, <2>6, <3>1
  <2>11. ClosedState'
    BY <1>2, <2>1, <2>10 DEF ClosedState
  <2>12. Device'
    BY <1>2, <2>4 DEF Recogniser, Device, R!FallbackSound, R!Running
  <2> QED
    BY <2>2, <2>3, <2>5, <2>8, <2>9, <2>11, <2>12 DEF Runtime, Recogniser
<1> QED
  BY <1>3, <1>4

\* The last of Close: nothing runs, nothing is being started, and it says so.
LEMMA CloseWorkerSound ==
  ASSUME Runtime, Recogniser, NEW c \in Closers, R!CloseWorker(c)
  PROVE  Runtime' /\ Recogniser'
<1>1. c \in Clients /\ c \in Actors /\ c \notin Calls /\ c # Boot
  BY DEF Clients, Actors, R!Users
<1>2. /\ rpc[c] = "holding" /\ procs' = R!Kill(worker) /\ worker' = 0
      /\ info' = [info EXCEPT !.available = FALSE, !.state = "closed"]
      /\ slot' = Nobody /\ closeDone' = TRUE /\ rpc' = [rpc EXCEPT ![c] = "returned"]
      /\ UNCHANGED <<device, rwaiting, rqueue, starting, closed, rootEnded, failed>>
  BY DEF R!CloseWorker, R!NoProcess
<1>3. rpc \in [Actors -> States] /\ info \in Infos
  BY RuntimeTypes DEF Runtime
<1>4. R!Booted
  BY <1>1, <1>2, StartedFirst
<1>5. Callers' /\ rpc' \in [Actors -> States]
  BY <1>1, <1>2, <1>4, CallersMove DEF States
<1>6. info' \in Infos /\ info'.fallback = info.fallback /\ ~info'.available /\ info'.state = "closed"
  BY <1>2, <1>3 DEF Infos
<1>7. starting = 0
  BY <1>1, <1>2, NoneStarting DEF AtWork
<1>8. /\ Process' /\ Job' /\ Device' /\ procs' \in [1 .. 2 -> Records]
      /\ \A p \in 1 .. 2 : procs'[p].state = "gone"
  <2>1. info.fallback => failed /\ device = "auto"
    BY DEF Recogniser, Device, R!FallbackSound
  <2>2. rpc[c] \in AtWork \ {"probing"}
    BY <1>2 DEF AtWork
  <2>3. info'.fallback => failed' /\ device = "auto"
    BY <1>2, <1>6, <2>1
  <2> QED
    BY <1>1, <1>2, <1>7, <2>2, <2>3, Reaped
<1>9. R!TypeOK'
  BY <1>2, <1>5, <1>6, <1>7, <1>8, RuntimeTypes, RuntimeTyped, LineTypes DEF Runtime
<1>10. \A d \in Actors : rpc'[d] = IF d = c THEN "returned" ELSE rpc[d]
  BY <1>2, <1>3
<1>11. \A d \in Actors : d # c => rpc[d] \notin AtWork
  BY <1>1, <1>2, OneAtWork DEF AtWork
<1>12. Line'
  <2>1. \A d \in Clients : d \in Actors /\ d # Nobody
    BY DEF Clients, Actors, R!Users
  <2>2. {d \in Clients : rpc'[d] = "waiting"} = {d \in Clients : rpc[d] = "waiting"}
    BY <1>2, <1>10, <2>1
  <2>3. {d \in Calls : rpc'[d] \notin {"idle", "entering"}}
          = {d \in Calls : rpc[d] \notin {"idle", "entering"}}
    BY <1>1, <1>10, <2>1 DEF Clients
  <2>4. \A d \in Clients : rpc'[d] \notin AtWork
    BY <1>10, <1>11, <2>1 DEF AtWork
  <2> QED
    BY <1>2, <2>1, <2>2, <2>3, <2>4 DEF Runtime, Line
<1>13. ClosedState'
  <2>1. closed
    BY <1>2 DEF Recogniser, ClosedState
  <2>2. \A d \in R!Users : rpc'[d] \notin AtWork \ {"holding"}
    BY <1>10, <1>11 DEF Actors, AtWork
  <2> QED
    BY <1>2, <1>6, <1>7, <2>1, <2>2 DEF ClosedState, R!NoProcess
<1> QED
  BY <1>5, <1>8, <1>9, <1>12, <1>13 DEF Runtime, Recogniser

LEMMA ProcessDiesSound ==
  ASSUME Runtime, Recogniser, NEW p \in R!Processes, R!ProcessDies(p)
  PROVE  Runtime' /\ Recogniser'
<1>1. /\ p \in 1 .. 2 /\ procs[p].state = "running"
      /\ procs' = [procs EXCEPT ![p].state = "exited", ![p].job = Nobody]
      /\ failed' = TRUE
      /\ UNCHANGED <<device, rpc, slot, rwaiting, rqueue, worker, starting, info>>
      /\ UNCHANGED <<closed, rootEnded, closeDone>>
  BY DEF R!ProcessDies, R!callerVars, R!closeVars, R!Running, R!Processes
<1>2. procs \in [1 .. 2 -> Records]
  BY RuntimeTypes DEF Runtime
<1>3. /\ procs' \in [1 .. 2 -> Records]
      /\ procs'[p].state = "exited" /\ procs'[p].job = Nobody
      /\ \A q \in 1 .. 2 : q # p => procs'[q] = procs[q]
  BY <1>1, <1>2 DEF Records
<1>4. R!TypeOK'
  BY <1>1, <1>3, RuntimeTypes, RuntimeTyped, LineTypes DEF Runtime
<1>5. Callers' /\ Line'
  BY <1>1 DEF Runtime, Callers, Line, R!Booted
<1>6. Process'
  <2>1. \A q \in 1 .. 2 : procs'[q].state # "gone" <=> procs[q].state # "gone"
    BY <1>1, <1>3
  <2> QED
    BY <1>1, <2>1, RuntimeTypes DEF Runtime, Recogniser, Process, R!Processes, R!NoProcess
<1>7. Job'
  BY <1>1, <1>3, RuntimeTypes DEF Runtime, Recogniser, Job, R!Processes, R!Running, R!NoProcess
<1>8. ClosedState'
  BY <1>1 DEF Recogniser, ClosedState
<1>9. Device'
  BY <1>1, <1>3 DEF Recogniser, Device, R!FallbackSound, R!Processes, R!Running, R!NoProcess
<1> QED
  BY <1>4, <1>5, <1>6, <1>7, <1>8, <1>9 DEF Runtime, Recogniser

-----------------------------------------------------------------------------

\* noteCrash keeps the types; CUDA is given up only under "auto".
LEMMA CrashNoted ==
  ASSUME Runtime, Recogniser, info' = R!NoteCrash(info), device' = device
  PROVE  /\ info' \in Infos
         /\ info'.fallback => info.fallback \/ device = "auto"
<1>1. info \in Infos
  BY RuntimeTypes DEF Runtime
<1>2. info' = [info EXCEPT !.state = "reload_required",
                           !.fallback = info.fallback \/ (device = "auto" /\ info.selected = "cuda")]
  BY DEF R!NoteCrash
<1>3. (info.fallback \/ (device = "auto" /\ info.selected = "cuda")) \in BOOLEAN
  OBVIOUS
<1> QED
  BY <1>1, <1>2, <1>3 DEF Infos

\* A request at work leaves, for a reason that touches the process or not.
LEMMA LeaveMoves ==
  ASSUME Runtime, NEW r \in Calls, rpc[r] \in AtWork, R!Leave(r)
  PROVE  /\ Line' /\ Callers' /\ rpc' \in [Actors -> States]
         /\ rqueue' \in 0 .. RuntimeCapacity /\ slot' \in Clients \cup {Nobody}
         /\ rwaiting' \in Seq(Clients)
         /\ rpc' = [rpc EXCEPT ![r] = "idle"]
         /\ \A d \in Actors : rpc'[d] \notin AtWork
<1>1. r \in Clients /\ r \in Actors /\ r # Boot /\ r \notin Closers
  BY DEF Clients, Actors, R!Users
<1>2. rpc' = [rpc EXCEPT ![r] = "idle"] /\ slot' = Nobody /\ rwaiting' = rwaiting
  BY DEF R!Leave
<1>3. R!Booted
  BY <1>1, StartedFirst DEF AtWork
<1>4. rpc \in [Actors -> States]
  BY RuntimeTypes DEF Runtime
<1>5. \A d \in Actors : rpc'[d] = IF d = r THEN "idle" ELSE rpc[d]
  BY <1>2, <1>4
<1>6. \A d \in Actors : rpc'[d] \notin AtWork
  BY <1>1, <1>5, OneAtWork DEF AtWork
<1>7. Callers' /\ rpc' \in [Actors -> States]
  BY <1>1, <1>2, <1>3, CallersMove DEF States
<1> QED
  BY <1>2, <1>6, <1>7, LineLeft, LineTypes

\* Close has not finished while anybody works past the check.
LEMMA NotClosed ==
  ASSUME Runtime, Recogniser, NEW a \in R!Users, rpc[a] \in AtWork \ {"holding"}
  PROVE  ~closeDone /\ \A c \in Closers : rpc[c] # "returned"
BY DEF Recogniser, ClosedState

\* What Close has reached does not change while it has not finished.
LEMMA ClosingUnmoved ==
  ASSUME Runtime, Recogniser, ~closeDone, UNCHANGED <<closed, closeDone>>,
         \A c \in Closers : rpc'[c] = rpc[c]
  PROVE  ClosedState'
BY DEF Recogniser, ClosedState

LEMMA ClosersApart ==
  ASSUME Runtime, NEW a \in R!Users, NEW s, rpc' = [rpc EXCEPT ![a] = s]
  PROVE  /\ \A c \in Closers : rpc'[c] = rpc[c]
         /\ \A d \in Actors : rpc'[d] = IF d = a THEN s ELSE rpc[d]
<1>1. rpc \in [Actors -> States] /\ a \in Actors /\ a \notin Closers
  BY RuntimeTypes DEF Runtime, Actors, R!Users
<1>2. \A c \in Closers : c \in Actors
  BY DEF Actors
<1> QED
  BY <1>1, <1>2

\* A request that has the slot gives up, uses the worker or reaps it.
LEMMA CheckSound ==
  ASSUME Runtime, Recogniser, NEW r \in Calls, R!Check(r)
  PROVE  Runtime' /\ Recogniser'
<1>1. r \in Clients /\ r \in Actors /\ r \in R!Users /\ r # Boot /\ r \notin Closers
  BY DEF Clients, Actors, R!Users
<1>2. /\ rpc[r] = "holding" /\ rpc[r] \in AtWork
      /\ UNCHANGED <<device, starting, closed, rootEnded, closeDone, failed>>
  BY DEF R!Check, R!closeVars, AtWork
<1>3. R!Booted
  BY <1>1, <1>2, StartedFirst
<1>4. rpc \in [Actors -> States] /\ procs \in [1 .. 2 -> Records] /\ worker \in {0, 1, 2}
  BY RuntimeTypes DEF Runtime
<1>5. CASE closed \/ rootEnded \/ ended[r]
  <2>1. R!Leave(r) /\ UNCHANGED <<worker, procs, info>>
    BY <1>5 DEF R!Check
  <2>2. R!TypeOK'
    BY <1>2, <2>1, LeaveMoves, RuntimeTypes, RuntimeTyped DEF Runtime
  <2>3. Recogniser'
    BY <1>1, <1>2, <2>1, LeaveMoves, Quiet DEF States, Starting, AtWork
  <2> QED
    BY <1>2, <2>1, <2>2, <2>3, LeaveMoves DEF Runtime
<1>6. CASE ~(closed \/ rootEnded \/ ended[r]) /\ R!Running(worker)
  <2>1. /\ rpc' = [rpc EXCEPT ![r] = "posting"]
        /\ UNCHANGED <<slot, rwaiting, rqueue, worker, procs, info>>
    BY <1>6 DEF R!Check
  <2>2. Line'
    BY <1>1, <1>2, <2>1, LineKept DEF AtWork
  <2>3. Callers' /\ rpc' \in [Actors -> States]
    BY <1>1, <1>3, <2>1, CallersMove DEF States, AtWork
  <2>4. R!TypeOK'
    BY <1>2, <2>1, <2>3, RuntimeTypes, RuntimeTyped, LineTypes DEF Runtime
  <2>5. \A d \in Actors : rpc'[d] = IF d = r THEN "posting" ELSE rpc[d]
    BY <2>1, ClosersApart, <1>1
  <2>6. \A d \in Actors : d # r => rpc[d] \notin AtWork
    BY <1>1, <1>2, OneAtWork
  <2>7. Process'
    <3>1. starting = 0
      BY <1>1, <1>2, NoneStarting DEF AtWork
    <3>2. \A d \in R!Users : rpc'[d] \notin Starting
      BY <2>5, <2>6 DEF Actors, AtWork, Starting
    <3> QED
      BY <1>2, <2>1, <3>1, <3>2 DEF Recogniser, Process, R!NoProcess
  <2>8. Job'
    <3>1. \A p \in R!Processes : procs[p].job = Nobody
      <4>1. \A p \in R!Processes : procs[p].job # Nobody => procs[p].job \in Actors
        BY <1>4 DEF Records, R!Processes, Actors, R!Users
      <4> QED
        BY <1>2, <2>6, <4>1 DEF Recogniser, Job, AtWork
    <3>2. \A d \in Calls : rpc'[d] # "inferring"
      BY <2>5, <2>6 DEF Actors, AtWork, R!Users
    <3> QED
      BY <2>1, <3>1, <3>2 DEF Job
  <2>9. ClosedState'
    <3>1. ~closeDone
      BY <1>6 DEF Recogniser, ClosedState
    <3> QED
      BY <1>1, <1>2, <2>1, <3>1, ClosersApart, ClosingUnmoved
  <2>10. Device'
    BY <1>2, <2>1 DEF Recogniser, Device, R!FallbackSound, R!Running
  <2> QED
    BY <2>2, <2>3, <2>4, <2>7, <2>8, <2>9, <2>10 DEF Runtime, Recogniser
<1>7. CASE ~(closed \/ rootEnded \/ ended[r]) /\ ~R!Running(worker)
  <2>1. /\ rpc' = [rpc EXCEPT ![r] = "init"]
        /\ UNCHANGED <<slot, rwaiting, rqueue>>
        /\ procs' = R!Kill(worker) /\ worker' = 0
        /\ info' = IF worker = 0 THEN info ELSE R!NoteCrash(info)
    BY <1>7 DEF R!Check, R!NoProcess
  <2>2. Line'
    BY <1>1, <1>2, <2>1, LineKept DEF AtWork
  <2>3. Callers' /\ rpc' \in [Actors -> States]
    BY <1>1, <1>3, <2>1, CallersMove DEF States, AtWork
  <2>4. info' \in Infos /\ (info'.fallback => failed' /\ device = "auto")
    <3>1. info.fallback => failed /\ device = "auto"
      BY DEF Recogniser, Device, R!FallbackSound
    <3>2. CASE worker = 0
      BY <1>2, <2>1, <3>1, <3>2, RuntimeTypes DEF Runtime
    <3>3. CASE worker # 0
      <4>1. procs[worker].state = "exited"
        BY <1>4, <1>7, <3>3 DEF Recogniser, Process, R!Running, R!NoProcess, Records
      <4>2. failed
        BY <1>4, <3>3, <4>1 DEF Recogniser, Device, R!Processes
      <4>3. info' = R!NoteCrash(info)
        BY <2>1, <3>3
      <4> QED
        BY <1>2, <3>1, <4>2, <4>3, CrashNoted
    <3> QED
      BY <3>2, <3>3
  <2>5. starting = 0
    BY <1>1, <1>2, NoneStarting DEF AtWork
  <2>6. Process' /\ Job' /\ Device' /\ procs' \in [1 .. 2 -> Records]
    <3>1. rpc[r] \in AtWork \ {"probing"}
      BY <1>2
    <3> QED
      BY <1>1, <1>2, <2>1, <2>4, <2>5, <3>1, Reaped
  <2>7. R!TypeOK'
    BY <1>2, <2>1, <2>3, <2>4, <2>6, RuntimeTypes, RuntimeTyped, LineTypes DEF Runtime
  <2>8. ClosedState'
    <3>1. ~closeDone
      BY <1>7 DEF Recogniser, ClosedState
    <3> QED
      BY <1>1, <1>2, <2>1, <3>1, ClosersApart, ClosingUnmoved
  <2> QED
    BY <2>2, <2>3, <2>6, <2>7, <2>8 DEF Runtime, Recogniser
<1> QED
  BY <1>5, <1>6, <1>7

\* A process is launched where there is none, on the CPU once CUDA was given up.
LEMMA LaunchSound ==
  ASSUME Runtime, Recogniser, NEW a \in R!Users, R!Launch(a)
  PROVE  Runtime' /\ Recogniser'
<1>1. PICK p \in 1 .. 2 :
        /\ procs[p].state = "gone"
        /\ procs' = [procs EXCEPT ![p] = [R!Gone EXCEPT !.state = "running", !.device = R!Preferred]]
        /\ starting' = p
  BY DEF R!Launch, R!Processes
<1>2. /\ rpc[a] = "init" /\ rpc' = [rpc EXCEPT ![a] = "probing"]
      /\ UNCHANGED <<device, slot, rwaiting, rqueue, worker, info, failed>>
      /\ UNCHANGED <<closed, rootEnded, closeDone>>
  BY DEF R!Launch, R!closeVars
<1>3. a \in Actors /\ (a # Boot => a \in Clients) /\ a \notin Closers
  BY DEF Clients, Actors, R!Users
<1>4. a # Boot => R!Booted
  BY <1>2, <1>3, StartedFirst
<1>5. rpc \in [Actors -> States] /\ procs \in [1 .. 2 -> Records] /\ device \in Devices /\ info \in Infos
  BY RuntimeTypes DEF Runtime
<1>6. Line'
  BY <1>2, <1>3, LineKept DEF AtWork
<1>7. Callers' /\ rpc' \in [Actors -> States]
  BY <1>2, <1>3, <1>4, CallersMove DEF States, AtWork, Starting, Clients
<1>8. /\ R!Preferred \in {"cpu", "cuda"}
      /\ info.fallback /\ device = "auto" => R!Preferred = "cpu"
  BY <1>5 DEF R!Preferred, Infos
<1>9. /\ procs' \in [1 .. 2 -> Records]
      /\ procs'[p].state = "running" /\ procs'[p].job = Nobody /\ procs'[p].device = R!Preferred
      /\ \A q \in 1 .. 2 : q # p => procs'[q] = procs[q]
  <2> DEFINE new == [R!Gone EXCEPT !.state = "running", !.device = R!Preferred]
  <2>1. /\ new \in Records /\ new.state = "running" /\ new.job = Nobody
        /\ new.device = R!Preferred
    BY <1>8 DEF R!Gone, Records
  <2>2. procs' = [procs EXCEPT ![p] = new]
    BY <1>1
  <2> HIDE DEF new, Records
  <2> QED
    BY <1>5, <2>1, <2>2
<1>10. R!TypeOK'
  BY <1>1, <1>2, <1>7, <1>9, RuntimeTypes, RuntimeTyped, LineTypes DEF Runtime
<1>11. starting = 0 /\ worker = 0
  BY <1>2, <1>3, NoneStarting DEF Recogniser, Process, Starting, AtWork, R!NoProcess
<1>12. \A d \in Actors : rpc'[d] = IF d = a THEN "probing" ELSE rpc[d]
  BY <1>2, <1>5
<1>13. Process'
  <2>1. \A q \in 1 .. 2 : procs[q].state = "gone"
    BY <1>11 DEF Recogniser, Process, R!Processes
  <2> QED
    BY <1>1, <1>2, <1>3, <1>9, <1>11, <1>12, <2>1
    DEF Process, R!Processes, R!NoProcess, Actors
<1>14. Job'
  <2>1. \A d \in Actors : rpc[d] = "inferring" => d # a
    BY <1>2
  <2>2. \A q \in 1 .. 2 : q # p /\ procs[q].job # Nobody => procs[q].job \in Actors
    BY <1>5 DEF Records, Actors, R!Users
  <2> QED
    BY <1>2, <1>9, <1>11, <1>12, <2>1, <2>2
    DEF Recogniser, Job, R!Processes, R!Running, R!NoProcess, Actors, R!Users
<1>15. ClosedState'
  BY <1>2, ClosersApart, NotClosed, ClosingUnmoved DEF AtWork
<1>16. Device'
  BY <1>1, <1>2, <1>8, <1>9 DEF Recogniser, Device, R!FallbackSound, R!Processes, R!Running, R!NoProcess
<1> QED
  BY <1>6, <1>7, <1>10, <1>13, <1>14, <1>15, <1>16 DEF Runtime, Recogniser

\* The process that came up becomes the worker, with no job yet.
LEMMA ReadySound ==
  ASSUME Runtime, Recogniser, NEW a \in R!Users, R!Ready(a)
  PROVE  Runtime' /\ Recogniser'
<1> DEFINE s == IF a = Boot THEN "ready" ELSE "posting"
<1>1. /\ rpc[a] = "probing" /\ R!Running(starting) /\ worker' = starting /\ starting' = 0
      /\ info' = [info EXCEPT !.state = "ready", !.available = TRUE,
                              !.selected = procs[starting].device]
      /\ rpc' = [rpc EXCEPT ![a] = s]
      /\ UNCHANGED <<device, slot, rwaiting, rqueue, procs, failed>>
      /\ UNCHANGED <<closed, rootEnded, closeDone>>
  BY DEF R!Ready, R!closeVars, R!NoProcess
<1>2. /\ a \in Actors /\ (a # Boot => a \in Calls /\ a \in Clients) /\ a \notin Closers
      /\ Boot \notin Clients /\ Boot \notin Calls
  BY DEF Clients, Actors, R!Users
<1>3. s \in {"ready", "posting"} /\ (a = Boot => s = "ready") /\ (a # Boot => s = "posting")
  OBVIOUS
<1> HIDE DEF s
<1>4. /\ rpc \in [Actors -> States] /\ procs \in [1 .. 2 -> Records] /\ info \in Infos
      /\ worker \in {0, 1, 2} /\ starting \in {0, 1, 2}
  BY RuntimeTypes DEF Runtime
<1>5. starting \in 1 .. 2 /\ procs[starting].state = "running"
  BY <1>1, <1>4 DEF R!Running, R!NoProcess
<1>6. Line'
  BY <1>1, <1>2, <1>3, LineKept DEF AtWork
<1>7. Callers' /\ rpc' \in [Actors -> States]
  <2>1. a # Boot => R!Booted
    BY <1>1, <1>2, StartedFirst
  <2> QED
    BY <1>1, <1>2, <1>3, <2>1, CallersMove DEF States, AtWork, Starting
<1>8. info' \in Infos /\ info'.fallback = info.fallback
  <2>1. procs[starting].device \in {"cpu", "cuda"}
    BY <1>4, <1>5 DEF Records
  <2> QED
    BY <1>1, <1>4, <2>1 DEF Infos
<1>9. R!TypeOK'
  BY <1>1, <1>4, <1>7, <1>8, RuntimeTypes, RuntimeTyped, LineTypes DEF Runtime
<1>10. \A d \in Actors : rpc'[d] = IF d = a THEN s ELSE rpc[d]
  BY <1>1, <1>4
<1>11. \A d \in Actors : d # a => rpc[d] \notin AtWork
  BY <1>1, <1>2, OneAtWork DEF AtWork
<1>12. worker = 0
  BY <1>1 DEF Recogniser, Process, Starting, R!NoProcess
<1>13. Process'
  <2>1. \A d \in R!Users : rpc'[d] \notin Starting
    BY <1>3, <1>10, <1>11 DEF Actors, AtWork, Starting
  <2> QED
    BY <1>1, <1>5, <1>12, <2>1 DEF Recogniser, Process, R!NoProcess
<1>14. Job'
  <2>1. \A d \in Actors : rpc[d] # "inferring" /\ rpc'[d] # "inferring"
    BY <1>1, <1>3, <1>10, <1>11 DEF AtWork
  <2>2. \A q \in R!Processes : procs[q].job = Nobody
    <3>1. \A q \in R!Processes : procs[q].job # Nobody => procs[q].job \in Actors
      BY <1>4 DEF Records, R!Processes, Actors, R!Users
    <3> QED
      BY <2>1, <3>1 DEF Recogniser, Job
  <2> QED
    BY <1>1, <2>1, <2>2 DEF Job, Actors, R!Users
<1>15. ClosedState'
  <2>1. rpc[a] \in AtWork \ {"holding"}
    BY <1>1 DEF AtWork
  <2> QED
    BY <1>1, <2>1, ClosersApart, NotClosed, ClosingUnmoved
<1>16. Device'
  BY <1>1, <1>8 DEF Recogniser, Device, R!FallbackSound, R!Processes, R!Running, R!NoProcess
<1> QED
  BY <1>6, <1>7, <1>9, <1>13, <1>14, <1>15, <1>16 DEF Runtime, Recogniser

\* A start that failed leaves no process; CUDA may be tried again on the CPU.
LEMMA InitFailsSound ==
  ASSUME Runtime, Recogniser, NEW a \in R!Users, R!InitFails(a)
  PROVE  Runtime' /\ Recogniser'
<1>1. /\ rpc[a] \in Starting /\ procs' = R!Kill(starting) /\ starting' = 0
      /\ failed' = (failed \/ ~ended[a])
      /\ UNCHANGED <<device, worker>> /\ UNCHANGED <<closed, rootEnded, closeDone>>
  BY DEF R!InitFails, R!closeVars, R!NoProcess, Starting
<1>2. /\ a \in Actors /\ (a # Boot => a \in Calls /\ a \in Clients) /\ a \notin Closers
      /\ Boot \notin Clients /\ Boot \notin Calls
  BY DEF Clients, Actors, R!Users
<1>3. /\ rpc \in [Actors -> States] /\ info \in Infos
      /\ worker \in {0, 1, 2} /\ starting \in {0, 1, 2} /\ failed \in BOOLEAN
  BY RuntimeTypes DEF Runtime
<1>4. worker' = 0 /\ failed' \in BOOLEAN /\ (failed => failed')
  BY <1>1, <1>3 DEF Recogniser, Process, R!NoProcess
<1>5. /\ info' \in Infos
      /\ info'.fallback => failed' /\ device = "auto"
  <2>1. info.fallback => failed /\ device = "auto"
    BY DEF Recogniser, Device, R!FallbackSound
  <2>2. CASE device = "auto" /\ R!Preferred = "cuda" /\ ~ended[a]
    <3>1. info' = [info EXCEPT !.fallback = TRUE]
      BY <2>2 DEF R!InitFails
    <3> QED
      BY <1>1, <1>3, <2>2, <3>1 DEF Infos
  <2>3. CASE ~(device = "auto" /\ R!Preferred = "cuda" /\ ~ended[a])
    <3>1. info' = [info EXCEPT !.state = "unavailable", !.available = FALSE]
      BY <2>3 DEF R!InitFails
    <3> QED
      BY <1>3, <1>4, <2>1, <3>1 DEF Infos
  <2> QED
    BY <2>2, <2>3
<1>6. Process' /\ Job' /\ Device' /\ procs' \in [1 .. 2 -> Records]
  BY <1>1, <1>2, <1>4, <1>5, Reaped
<1>7. /\ Line' /\ Callers' /\ rpc' \in [Actors -> States] /\ rqueue' \in 0 .. RuntimeCapacity
      /\ slot' \in Clients \cup {Nobody} /\ rwaiting' \in Seq(Clients)
      /\ \E s \in {"init", "failed", "idle"} : rpc' = [rpc EXCEPT ![a] = s]
  <2>1. CASE a # Boot /\ R!Leave(a)
    BY <1>1, <1>2, <2>1, LeaveMoves DEF AtWork, Starting
  <2>2. ASSUME NEW s \in {"init", "failed"}, s = "failed" => a = Boot,
               rpc' = [rpc EXCEPT ![a] = s], UNCHANGED <<slot, rwaiting, rqueue>>
        PROVE  /\ Line' /\ Callers' /\ rpc' \in [Actors -> States] /\ rqueue' \in 0 .. RuntimeCapacity
               /\ slot' \in Clients \cup {Nobody} /\ rwaiting' \in Seq(Clients)
    <3>1. Line'
      BY <1>1, <1>2, <2>2, LineKept DEF AtWork, Starting
    <3>2. a # Boot => R!Booted
      BY <1>1, <1>2, StartedFirst DEF Starting
    <3>3. Callers' /\ rpc' \in [Actors -> States]
      BY <1>1, <1>2, <2>2, <3>2, CallersMove DEF States, AtWork
    <3> QED
      BY <2>2, <3>1, <3>3, LineTypes
  <2>3. \/ a # Boot /\ R!Leave(a)
        \/ /\ \/ rpc' = [rpc EXCEPT ![a] = "init"]
              \/ a = Boot /\ rpc' = [rpc EXCEPT ![a] = "failed"]
           /\ UNCHANGED <<slot, rwaiting, rqueue>>
    BY DEF R!InitFails
  <2>4. CASE a # Boot /\ R!Leave(a)
    BY <2>1, <2>4 DEF R!Leave
  <2>5. CASE rpc' = [rpc EXCEPT ![a] = "init"] /\ UNCHANGED <<slot, rwaiting, rqueue>>
    BY <2>2, <2>5
  <2>6. CASE a = Boot /\ rpc' = [rpc EXCEPT ![a] = "failed"] /\ UNCHANGED <<slot, rwaiting, rqueue>>
    BY <2>2, <2>6
  <2> QED
    BY <2>3, <2>4, <2>5, <2>6
<1>8. R!TypeOK'
  BY <1>1, <1>4, <1>5, <1>6, <1>7, RuntimeTypes, RuntimeTyped DEF Runtime
<1>9. ClosedState'
  <2>1. rpc[a] \in AtWork \ {"holding"}
    BY <1>1 DEF AtWork, Starting
  <2> QED
    BY <1>1, <1>7, <2>1, ClosersApart, NotClosed, ClosingUnmoved
<1> QED
  BY <1>6, <1>7, <1>8, <1>9 DEF Runtime, Recogniser

\* The request becomes the job of a process that has none.
LEMMA PostSound ==
  ASSUME Runtime, Recogniser, NEW r \in Calls, R!Post(r)
  PROVE  Runtime' /\ Recogniser'
<1>1. /\ rpc[r] = "posting" /\ rpc' = [rpc EXCEPT ![r] = "inferring"]
      /\ procs' = IF R!Running(worker) /\ procs[worker].job = Nobody
                    THEN [procs EXCEPT ![worker].job = r] ELSE procs
      /\ UNCHANGED <<device, slot, rwaiting, rqueue, worker, starting, info, failed>>
      /\ UNCHANGED <<closed, rootEnded, closeDone>>
  BY DEF R!Post, R!closeVars
<1>2. r \in Actors /\ r \in R!Users /\ r \in Clients /\ r # Boot /\ r \notin Closers
  BY DEF Clients, Actors, R!Users
<1>3. /\ rpc \in [Actors -> States] /\ procs \in [1 .. 2 -> Records] /\ worker \in {0, 1, 2}
      /\ r # Nobody
  BY RuntimeTypes DEF Runtime
<1>4. \A d \in Actors : rpc'[d] = IF d = r THEN "inferring" ELSE rpc[d]
  BY <1>1, <1>3
<1>5. \A d \in Actors : d # r => rpc[d] \notin AtWork
  BY <1>1, <1>2, OneAtWork DEF AtWork
<1>6. \A q \in 1 .. 2 : procs[q].job = Nobody
  <2>1. \A q \in 1 .. 2 : procs[q].job # Nobody => procs[q].job \in Actors
    BY <1>3 DEF Records, Actors, R!Users
  <2> QED
    BY <1>1, <1>5, <2>1 DEF Recogniser, Job, AtWork, R!Processes
<1>7. /\ procs' \in [1 .. 2 -> Records]
      /\ \A q \in 1 .. 2 : procs'[q].state = procs[q].state /\ procs'[q].device = procs[q].device
      /\ \A q \in 1 .. 2 : procs'[q].job = IF R!Running(worker) /\ q = worker THEN r ELSE Nobody
  <2>1. CASE R!Running(worker)
    <3>1. worker \in 1 .. 2 /\ procs[worker].job = Nobody
      BY <1>3, <1>6, <2>1 DEF R!Running, R!NoProcess
    <3>2. procs' = [procs EXCEPT ![worker].job = r]
      BY <1>1, <2>1, <3>1
    <3> QED
      BY <1>3, <1>6, <2>1, <3>1, <3>2 DEF Records
  <2>2. CASE ~R!Running(worker)
    BY <1>1, <1>3, <1>6, <2>2
  <2> QED
    BY <2>1, <2>2
<1>8. R!Running(worker)' <=> R!Running(worker)
  BY <1>1, <1>3, <1>7 DEF R!Running, R!NoProcess
<1>9. Line'
  BY <1>1, <1>2, LineKept DEF AtWork
<1>10. Callers' /\ rpc' \in [Actors -> States]
  <2>1. R!Booted
    BY <1>1, <1>2, StartedFirst
  <2> QED
    BY <1>1, <1>2, <2>1, CallersMove DEF States, AtWork
<1>11. R!TypeOK'
  BY <1>1, <1>7, <1>10, RuntimeTypes, RuntimeTyped, LineTypes DEF Runtime
<1>12. Process'
  <2>1. \A d \in R!Users : rpc'[d] \notin Starting
    BY <1>4, <1>5 DEF Actors, AtWork, Starting
  <2>2. starting = 0
    BY <1>1, <1>2, NoneStarting DEF AtWork
  <2> QED
    BY <1>1, <1>3, <1>7, <2>1, <2>2 DEF Recogniser, Process, R!NoProcess, R!Processes
<1>13. Job'
  <2>1. \A d \in Calls : rpc'[d] = "inferring" => d = r
    BY <1>4, <1>5 DEF Actors, AtWork, R!Users
  <2>2. R!Running(worker) => worker \in 1 .. 2 /\ procs[worker].state = "running"
    BY <1>3 DEF R!Running, R!NoProcess
  <2>3. rpc'[r] = "inferring"
    BY <1>2, <1>4
  <2> QED
    BY <1>1, <1>7, <1>8, <2>1, <2>2, <2>3 DEF Job, R!Processes
<1>14. ClosedState'
  <2>1. rpc[r] \in AtWork \ {"holding"}
    BY <1>1 DEF AtWork
  <2> QED
    BY <1>1, <1>2, <2>1, ClosersApart, NotClosed, ClosingUnmoved
<1>15. Device'
  BY <1>1, <1>7 DEF Recogniser, Device, R!FallbackSound, R!Processes, R!Running, R!NoProcess
<1> QED
  BY <1>9, <1>10, <1>11, <1>12, <1>13, <1>14, <1>15 DEF Runtime, Recogniser

\* The process answers and is free again.
LEMMA AnsweredSound ==
  ASSUME Runtime, Recogniser, NEW r \in Calls, R!Answered(r)
  PROVE  Runtime' /\ Recogniser'
<1>1. /\ rpc[r] = "inferring" /\ rpc[r] \in AtWork /\ R!Running(worker) /\ R!Leave(r)
      /\ procs' = [procs EXCEPT ![worker].job = Nobody]
      /\ UNCHANGED <<device, worker, starting, info, failed>>
      /\ UNCHANGED <<closed, rootEnded, closeDone>>
  BY DEF R!Answered, R!closeVars, AtWork
<1>2. r \in Actors /\ r \in R!Users /\ r \notin Closers
  BY DEF Actors, R!Users
<1>3. procs \in [1 .. 2 -> Records] /\ worker \in 1 .. 2
  BY <1>1, RuntimeTypes DEF Runtime, R!Running, R!NoProcess
<1>4. /\ Line' /\ Callers' /\ rpc' \in [Actors -> States] /\ rqueue' \in 0 .. RuntimeCapacity
      /\ slot' \in Clients \cup {Nobody} /\ rwaiting' \in Seq(Clients)
      /\ rpc' = [rpc EXCEPT ![r] = "idle"]
      /\ \A d \in Actors : rpc'[d] \notin AtWork
  BY <1>1, LeaveMoves
<1>5. /\ procs' \in [1 .. 2 -> Records]
      /\ \A q \in 1 .. 2 : procs'[q].state = procs[q].state /\ procs'[q].device = procs[q].device
      /\ \A q \in 1 .. 2 : procs'[q].job = IF q = worker THEN Nobody ELSE procs[q].job
  BY <1>1, <1>3 DEF Records
<1>6. starting = 0
  BY <1>1, <1>2, NoneStarting
<1>7. R!TypeOK'
  BY <1>1, <1>4, <1>5, RuntimeTypes, RuntimeTyped DEF Runtime
<1>8. Process'
  <2>1. \A d \in R!Users : rpc'[d] \notin Starting
    BY <1>4 DEF Actors, AtWork, Starting
  <2> QED
    BY <1>1, <1>3, <1>5, <1>6, <2>1 DEF Recogniser, Process, R!NoProcess, R!Processes
<1>9. Job'
  <2>1. \A q \in 1 .. 2 : procs'[q].job = Nobody
    BY <1>5, <1>6 DEF Recogniser, Process, Job, R!Processes, R!NoProcess
  <2>2. \A d \in Calls : rpc'[d] # "inferring"
    BY <1>4 DEF Actors, R!Users, AtWork
  <2> QED
    BY <2>1, <2>2 DEF Job, R!Processes
<1>10. ClosedState'
  <2>1. rpc[r] \in AtWork \ {"holding"}
    BY <1>1 DEF AtWork
  <2> QED
    BY <1>1, <1>2, <1>4, <2>1, ClosersApart, NotClosed, ClosingUnmoved
<1>11. Device'
  BY <1>1, <1>5 DEF Recogniser, Device, R!FallbackSound, R!Processes, R!Running, R!NoProcess
<1> QED
  BY <1>4, <1>7, <1>8, <1>9, <1>10, <1>11 DEF Runtime, Recogniser

\* A failed request takes its process with it before anybody else gets the slot.
LEMMA InferFailsSound ==
  ASSUME Runtime, Recogniser, NEW r \in Calls, R!InferFails(r)
  PROVE  Runtime' /\ Recogniser'
<1>1. /\ rpc[r] = "inferring" /\ rpc[r] \in AtWork /\ R!Leave(r)
      /\ procs' = R!Kill(worker) /\ worker' = 0
      /\ failed' = (failed \/ ~ended[r])
      /\ info' = IF ended[r] THEN [info EXCEPT !.state = "reload_required"] ELSE R!NoteCrash(info)
      /\ UNCHANGED <<device, starting>> /\ UNCHANGED <<closed, rootEnded, closeDone>>
  BY DEF R!InferFails, R!closeVars, R!NoProcess, AtWork
<1>2. r \in Actors /\ r \in R!Users /\ r \notin Closers
  BY DEF Actors, R!Users
<1>3. info \in Infos /\ failed \in BOOLEAN
  BY RuntimeTypes DEF Runtime
<1>4. /\ Line' /\ Callers' /\ rpc' \in [Actors -> States] /\ rqueue' \in 0 .. RuntimeCapacity
      /\ slot' \in Clients \cup {Nobody} /\ rwaiting' \in Seq(Clients)
      /\ rpc' = [rpc EXCEPT ![r] = "idle"]
  BY <1>1, LeaveMoves
<1>5. failed' \in BOOLEAN /\ (failed => failed')
  BY <1>1
<1>6. /\ info' \in Infos
      /\ info'.fallback => failed' /\ device = "auto"
  <2>1. info.fallback => failed /\ device = "auto"
    BY DEF Recogniser, Device, R!FallbackSound
  <2>2. CASE ended[r]
    <3>1. info' = [info EXCEPT !.state = "reload_required"]
      BY <1>1, <2>2
    <3> QED
      BY <1>3, <1>5, <2>1, <3>1 DEF Infos
  <2>3. CASE ~ended[r]
    <3>1. info' = R!NoteCrash(info) /\ failed'
      BY <1>1, <2>3
    <3> QED
      BY <1>1, <2>1, <3>1, CrashNoted
  <2> QED
    BY <2>2, <2>3
<1>7. starting = 0
  BY <1>1, <1>2, NoneStarting
<1>8. Process' /\ Job' /\ Device' /\ procs' \in [1 .. 2 -> Records]
  <2>1. rpc[r] \in AtWork \ {"probing"}
    BY <1>1
  <2> QED
    BY <1>1, <1>2, <1>5, <1>6, <1>7, <2>1, Reaped
<1>9. R!TypeOK'
  BY <1>1, <1>4, <1>5, <1>6, <1>8, RuntimeTypes, RuntimeTyped DEF Runtime
<1>10. ClosedState'
  <2>1. rpc[r] \in AtWork \ {"holding"}
    BY <1>1 DEF AtWork
  <2> QED
    BY <1>1, <1>2, <1>4, <2>1, ClosersApart, NotClosed, ClosingUnmoved
<1> QED
  BY <1>4, <1>8, <1>9, <1>10 DEF Runtime, Recogniser

-----------------------------------------------------------------------------

\* The instance counts as this module does.
LEMMA SameCardinality == \A S : R!Cardinality(S) = Cardinality(S)
  BY DEF R!Cardinality, Cardinality, R!IsFiniteSet, IsFiniteSet

LEMMA RuntimeUnchanged ==
  ASSUME Runtime, Recogniser, UNCHANGED runtime
  PROVE  Runtime' /\ Recogniser'
BY DEF runtime, Runtime, Recogniser, R!TypeOK, Callers, Line, Process, Job, ClosedState, Device,
       R!FallbackSound, R!Booted, R!Running

LEMMA Initially == RecognitionInit => IInv
<1> SUFFICES ASSUME RecognitionInit PROVE IInv
  OBVIOUS
<1>1. Admitted
  <2>1. IsLine(<<>>, Ordinary) /\ Range(<<>>) = {}
    BY DEF IsLine, Range
  <2>2. Inside = {} /\ Holding = {}
    BY DEF RecognitionInit, Inside, Holding
  <2> QED
    BY <2>1, <2>2, FS_EmptySet DEF RecognitionInit, Admitted, NothingLeaks, NoOvertaking
<1>2. /\ device \in Devices
      /\ rpc = [a \in Actors |-> IF a = Boot THEN "init" ELSE "idle"]
      /\ slot = Nobody /\ rwaiting = <<>> /\ rqueue = 0 /\ worker = 0 /\ starting = 0
      /\ procs = [p \in 1 .. 2 |-> R!Gone]
      /\ info = [state |-> "initializing", available |-> FALSE, fallback |-> FALSE,
                 selected |-> "none"]
      /\ ~closed /\ ~rootEnded /\ ~closeDone /\ ~failed
      /\ closed \in BOOLEAN /\ rootEnded \in BOOLEAN /\ closeDone \in BOOLEAN /\ failed \in BOOLEAN
  BY DEF RecognitionInit, R!Init, Actors, R!NoProcess, R!Processes
<1>3. R!Gone \in Records /\ R!Gone.state = "gone" /\ R!Gone.job = Nobody
  BY DEF R!Gone, Records
<1>4. /\ Boot \in Actors /\ rpc[Boot] = "init" /\ rpc \in [Actors -> States]
      /\ \A a \in Clients : a \in Actors /\ rpc[a] = "idle" /\ a # Nobody
      /\ \A c \in Calls : c \in Clients
      /\ \A c \in Closers : c \in Clients
  BY <1>2 DEF Actors, R!Users, Clients, States
<1>5. R!TypeOK
  BY <1>2, <1>3, <1>4 DEF R!TypeOK, Actors, R!Users, States, R!Processes, R!NoProcess, Records
<1>6. Callers
  BY <1>2, <1>4 DEF Callers, R!Booted
<1>7. Line
  <2>1. IsLine(<<>>, Clients) /\ Range(<<>>) = {}
    BY DEF IsLine, Range
  <2>2. {c \in Calls : rpc[c] \notin {"idle", "entering"}} = {}
    BY <1>4
  <2> QED
    BY <1>2, <1>4, <2>1, <2>2, FS_EmptySet DEF Line, AtWork
<1>8. Process /\ Job /\ Device
  BY <1>2, <1>3 DEF Process, Job, Device, R!FallbackSound, R!Processes, R!Running, R!NoProcess
<1>9. ClosedState
  BY <1>2, <1>4 DEF ClosedState
<1> QED
  BY <1>1, <1>5, <1>6, <1>7, <1>8, <1>9 DEF IInv, Runtime, Recogniser

\* The runtime's part of every step of the server, for whoever makes it.
LEMMA RuntimeStep ==
  ASSUME Runtime, Recogniser,
         \/ \E c \in Calls : R!Call(c) \/ R!Transcribes(c) \/ R!Answered(c) \/ R!InferFails(c)
         \/ \E a \in R!Users : R!Starts(a)
         \/ R!TakeSlot
         \/ \E c \in Closers : R!Close(c) \/ R!Closes(c)
         \/ \E p \in R!Processes : R!ProcessDies(p)
         \/ UNCHANGED runtime
  PROVE  Runtime' /\ Recogniser'
BY CallSound, EnterSound, RefusedSound, GiveUpSound, CheckSound, PostSound, AnsweredSound,
   InferFailsSound, LaunchSound, ReadySound, InitFailsSound, TakeSlotSound, CloseSound,
   CancelRootSound, CloseWorkerSound, CloseReturnsSound, ProcessDiesSound, RuntimeUnchanged
DEF R!Transcribes, R!Starts, R!Closes

\* The admission's part: a step of its own, or the slot given back, or nothing
\* but a context that ends.
LEMMA AdmissionStep ==
  ASSUME Admitted,
         \/ \E c \in Calls : \/ Enter(c) \/ TakeSlot(c) \/ Wait(c) \/ Busy(c)
                             \/ GiveUp(c) \/ Leave(c) \/ EndContext(c)
         \/ UNCHANGED admission /\ ended' \in [R!Users -> BOOLEAN]
  PROVE  Admitted'
BY EnterAdmitted, TakeSlotAdmitted, WaitAdmitted, BusyAdmitted, GiveUpAdmitted, LeaveAdmitted,
   EndContextAdmitted, AdmissionUnchanged

LEMMA Inductive == IInv /\ [RecognitionNext]_allVars => IInv'
<1> SUFFICES ASSUME IInv, [RecognitionNext]_allVars PROVE IInv'
  OBVIOUS
<1>1. Admitted /\ Runtime /\ Recogniser /\ ended \in [R!Users -> BOOLEAN]
  BY DEF IInv, Admitted
<1>2. Runtime' /\ Recogniser'
  BY <1>1, RuntimeStep
  DEF RecognitionNext, allVars, Arrives, Admission, ContextEnds, NotAsked, Asks, Transcribes,
      Answered, InferFails, Starts, TimesOut, TakesSlot, Closes, Environment, Served
<1>3. ASSUME NEW a \in R!Users,
             IF rpc'[a] = "idle" THEN Leave(a) ELSE UNCHANGED <<admission, ended>>
      PROVE  Admitted'
  <2>1. rpc'[Boot] # "idle"
    BY <1>2 DEF Runtime, Callers
  <2> QED
    BY <1>1, <1>3, <2>1, AdmissionStep DEF R!Users
<1>4. ASSUME NEW c \in Calls,
             \/ Arrives(c) \/ Admission(c) \/ ContextEnds(c) \/ NotAsked(c)
             \/ Asks(c) \/ Transcribes(c) \/ Answered(c) \/ InferFails(c)
      PROVE  Admitted'
  <2>1. CASE Arrives(c) \/ Admission(c) \/ ContextEnds(c) \/ NotAsked(c)
    BY <1>1, <2>1, AdmissionStep DEF Arrives, Admission, ContextEnds, NotAsked
  <2>2. CASE Asks(c) \/ Transcribes(c) \/ Answered(c) \/ InferFails(c)
    BY <1>3, <2>2 DEF Asks, Transcribes, Answered, InferFails, Served, R!Users
  <2> QED
    BY <1>4, <2>1, <2>2
<1>5. ASSUME NEW a \in R!Users, TimesOut(a)
      PROVE  Admitted'
  BY <1>1, <1>5, AdmissionStep DEF TimesOut
<1>6. ASSUME NEW a \in R!Users, Starts(a)
      PROVE  Admitted'
  BY <1>3, <1>6 DEF Starts, Served
<1>7. ASSUME UNCHANGED <<admission, ended>>
      PROVE  Admitted'
  BY <1>1, <1>7, AdmissionStep
<1>8. Admitted'
  <2>1. CASE RecognitionNext
    <3>1. CASE \E a \in R!Users : TimesOut(a) \/ Starts(a)
      BY <1>5, <1>6, <3>1
    <3>2. CASE TakesSlot \/ (\E c \in Closers : Closes(c)) \/ Environment
      BY <1>7, <3>2 DEF TakesSlot, Closes, Environment
    <3> QED
      BY <1>4, <2>1, <3>1, <3>2 DEF RecognitionNext
  <2>2. CASE UNCHANGED allVars
    BY <1>7, <2>2 DEF allVars
  <2> QED
    BY <2>1, <2>2
<1> QED
  BY <1>2, <1>8 DEF IInv

\* The strengthening of both invariants holds of every reachable state.
THEOREM RecognitionInductive == RecognitionSpec => []IInv
<1>1. RecognitionInit => IInv
  BY Initially
<1>2. IInv /\ [RecognitionNext]_allVars => IInv'
  BY Inductive
<1> QED
  BY <1>1, <1>2, PTL DEF RecognitionSpec

\* Both pools of tokens are whole (limited/provider.go, whispercpp/runtime.go):
\* for any number of calls, slots, tokens and Closes, whichever way a call left.
THEOREM PoolsAlwaysSound == RecognitionSpec => []PoolsSound
<1>1. IInv => PoolsSound
  <2> SUFFICES ASSUME IInv PROVE PoolsSound
    OBVIOUS
  <2>1. TypeOK
    BY DEF IInv, Admitted, TypeOK, IsLine, R!Users
  <2>2. R!NothingLeaks
    <3>1. \A c \in Calls : slot = Nobody => rpc[c] \notin AtWork
      BY DEF IInv, Runtime, Line, Clients
    <3>2. slot = Nobody => \A c \in Calls : rpc[c] \in {"idle", "entering", "waiting"}
      BY <3>1 DEF IInv, Runtime, Callers
    <3>3. rqueue = Cardinality({c \in Calls : rpc[c] \notin {"idle", "entering"}})
      BY DEF IInv, Runtime, Line
    <3> QED
      BY <3>2, <3>3, SameCardinality DEF R!NothingLeaks
  <2> QED
    BY <2>1, <2>2 DEF IInv, Admitted, Runtime, PoolsSound
<1> QED
  BY <1>1, RecognitionInductive, PTL

\* One recogniser process at most, working for the request being served or for
\* nobody, gone for good after Close, and on CUDA until something failed
\* (whispercpp/runtime.go, worker.go).
THEOREM ProcessAlwaysSound == RecognitionSpec => []ProcessSound
<1>1. IInv => ProcessSound
  <2> SUFFICES ASSUME IInv PROVE ProcessSound
    OBVIOUS
  <2>1. R!OneProcess
    <3> DEFINE live == {p \in R!Processes : procs[p].state # "gone"}
    <3>1. worker = 0 \/ starting = 0
      <4>1. ASSUME starting # 0 PROVE worker = 0
        BY <4>1 DEF IInv, Recogniser, Process, Starting, R!NoProcess
      <4> QED
        BY <4>1
    <3>2. live \subseteq {worker} \/ live \subseteq {starting}
      BY <3>1 DEF IInv, Recogniser, Process, R!Processes
    <3>3. live = {} \/ live = {worker} \/ live = {starting}
      BY <3>2
    <3> HIDE DEF live
    <3>4. Cardinality({}) = 0 /\ \A p : Cardinality({p}) = 1
      BY FS_EmptySet, FS_Singleton
    <3>5. Cardinality(live) <= 1
      BY <3>3, <3>4
    <3> QED
      BY <3>5, SameCardinality DEF R!OneProcess, live
  <2>2. R!NeverBehindObsolete
    BY DEF IInv, Recogniser, Job, R!NeverBehindObsolete
  <2>3. R!ClosedForGood
    BY DEF IInv, Recogniser, Process, ClosedState, R!ClosedForGood, R!NoProcess, R!Processes
  <2>4. R!FallbackSound
    BY DEF IInv, Recogniser, Device
  <2> QED
    BY <2>1, <2>2, <2>3, <2>4 DEF ProcessSound, R!ProcessSound
<1> QED
  BY <1>1, RecognitionInductive, PTL

-----------------------------------------------------------------------------
(***************************************************************************)
(* Recognition implements SttAdmission: seen from the admission, a call    *)
(* the runtime works for is one that holds its slot, the runtime's         *)
(* deadline is the end of its context and its return the end of the call.  *)
(***************************************************************************)

Pool == INSTANCE SttAdmission WITH ended <- [c \in Calls |-> ended[c]]

\* The runtime works only for calls that hold a slot of the admission.
AskedWithSlot == \A c \in Calls : rpc[c] # "idle" => pc[c] = "holding"

\* A step of the runtime for one caller leaves the idle ones alone.
LEMMA OthersIdle ==
  ASSUME Runtime, NEW a \in R!Users,
         R!Call(a) \/ R!Transcribes(a) \/ R!Answered(a) \/ R!InferFails(a) \/ R!Starts(a)
  PROVE  \A d \in Clients : d # a /\ rpc[d] = "idle" => rpc'[d] = "idle"
<1>1. rpc \in [Actors -> States] /\ \A d \in Clients : d \in Actors
  BY RuntimeTypes DEF Runtime, Actors, R!Users, Clients
<1>2. ASSUME NEW s, rpc' = [rpc EXCEPT ![a] = s]
      PROVE  \A d \in Clients : d # a /\ rpc[d] = "idle" => rpc'[d] = "idle"
  BY <1>1, <1>2
<1>3. CASE R!Call(a)
  BY <1>2, <1>3 DEF R!Call
<1>4. CASE R!Transcribes(a)
  BY <1>2, <1>4 DEF R!Transcribes, R!Enter, R!Refused, R!GiveUp, R!Check, R!Post, R!Leave
<1>5. CASE R!Answered(a) \/ R!InferFails(a)
  BY <1>2, <1>5 DEF R!Answered, R!InferFails, R!Leave
<1>6. CASE R!Starts(a)
  BY <1>2, <1>6 DEF R!Starts, R!Launch, R!Ready, R!InitFails, R!Leave
<1> QED
  BY <1>3, <1>4, <1>5, <1>6

\* Only Call takes a caller out of "idle".
LEMMA OnlyCallAsks ==
  ASSUME NEW a \in R!Users,
         R!Transcribes(a) \/ R!Answered(a) \/ R!InferFails(a) \/ R!Starts(a)
  PROVE  rpc[a] # "idle"
BY DEF R!Transcribes, R!Answered, R!InferFails, R!Starts, R!Enter, R!Refused, R!GiveUp,
       R!Check, R!Post, R!Launch, R!Ready, R!InitFails

\* A call that leaves passes its slot on; every other holder keeps its own.
LEMMA HoldersKeep ==
  ASSUME Admitted, NEW c \in Calls, Leave(c)
  PROVE  \A d \in Calls : d # c /\ pc[d] = "holding" => pc'[d] = "holding"
<1>1. pc \in [Calls -> {"idle", "entered", "waiting", "holding"}]
  BY DEF Admitted
<1>2. CASE waiting = <<>>
  BY <1>1, <1>2 DEF Leave
<1>3. CASE waiting # <<>>
  BY <1>1, <1>3 DEF Leave
<1> QED
  BY <1>2, <1>3

LEMMA AskedInductive ==
  ASSUME IInv, AskedWithSlot, [RecognitionNext]_allVars
  PROVE  AskedWithSlot'
<1>1. Admitted /\ Runtime
  BY DEF IInv
<1>2. /\ pc \in [Calls -> {"idle", "entered", "waiting", "holding"}]
      /\ rpc \in [Actors -> States] /\ \A d \in Calls : d \in Clients /\ d \in Actors
  BY <1>1, RuntimeTypes DEF Admitted, Runtime, Clients, Actors, R!Users
<1>3. ASSUME NEW a \in R!Users, a \in Calls => pc[a] = "holding",
             \A d \in Clients : d # a /\ rpc[d] = "idle" => rpc'[d] = "idle",
             IF rpc'[a] = "idle" THEN Leave(a) ELSE UNCHANGED <<admission, ended>>
      PROVE  AskedWithSlot'
  <2>1. CASE rpc'[a] # "idle"
    BY <1>2, <1>3, <2>1 DEF AskedWithSlot, admission
  <2>2. CASE rpc'[a] = "idle"
    <3>1. a \in Calls
      <4>1. rpc'[Boot] # "idle"
        BY <1>1, Inductive DEF IInv, Runtime, Callers
      <4> QED
        BY <2>2, <4>1 DEF R!Users
    <3> QED
      BY <1>1, <1>2, <1>3, <2>2, <3>1, HoldersKeep DEF AskedWithSlot
  <2> QED
    BY <2>1, <2>2
<1>4. ASSUME NEW c \in Calls, \/ Arrives(c) \/ Admission(c) \/ ContextEnds(c) \/ NotAsked(c)
      PROVE  AskedWithSlot'
  <2>1. rpc' = rpc /\ \A d \in Calls : d # c /\ pc[d] = "holding" => pc'[d] = "holding"
    BY <1>1, <1>2, <1>4, HoldersKeep
    DEF Arrives, Admission, ContextEnds, NotAsked, runtime, Enter, TakeSlot, Wait, Busy, GiveUp,
        EndContext
  <2>2. rpc[c] # "idle" => pc'[c] = "holding"
    BY <1>2, <1>4
    DEF AskedWithSlot, Arrives, Admission, ContextEnds, NotAsked, Enter, TakeSlot, Wait, Busy,
        GiveUp, EndContext
  <2> QED
    BY <2>1, <2>2 DEF AskedWithSlot
<1>5. ASSUME NEW c \in Calls, Asks(c) \/ Transcribes(c) \/ Answered(c) \/ InferFails(c)
      PROVE  AskedWithSlot'
  <2>1. /\ R!Call(c) \/ R!Transcribes(c) \/ R!Answered(c) \/ R!InferFails(c)
        /\ pc[c] = "holding" \/ R!Transcribes(c) \/ R!Answered(c) \/ R!InferFails(c)
        /\ IF rpc'[c] = "idle" THEN Leave(c) ELSE UNCHANGED <<admission, ended>>
    BY <1>5 DEF Asks, Transcribes, Answered, InferFails, Served
  <2>2. c \in R!Users /\ pc[c] = "holding"
    BY <2>1, OnlyCallAsks DEF AskedWithSlot, R!Users
  <2> QED
    BY <1>1, <1>3, <2>1, <2>2, OthersIdle
<1>6. ASSUME NEW a \in R!Users, Starts(a)
      PROVE  AskedWithSlot'
  <2>1. R!Starts(a) /\ (IF rpc'[a] = "idle" THEN Leave(a) ELSE UNCHANGED <<admission, ended>>)
    BY <1>6 DEF Starts, Served
  <2>2. a \in Calls => pc[a] = "holding"
    BY <2>1, OnlyCallAsks DEF AskedWithSlot
  <2> QED
    BY <1>1, <1>3, <2>1, <2>2, OthersIdle
<1>7. ASSUME UNCHANGED <<admission, ended>>, \A d \in Calls : rpc[d] = "idle" => rpc'[d] = "idle"
      PROVE  AskedWithSlot'
  BY <1>7 DEF AskedWithSlot, admission
<1>8. ASSUME NEW a \in R!Users, TimesOut(a)
      PROVE  AskedWithSlot'
  BY <1>8 DEF TimesOut, AskedWithSlot, admission, runtime
<1>9. CASE TakesSlot
  <2>1. rpc[slot'] = "waiting" /\ rpc' = [rpc EXCEPT ![slot'] = "holding"]
    BY <1>1, <1>9, LineServed DEF TakesSlot
  <2> QED
    BY <1>2, <1>7, <1>9, <2>1 DEF TakesSlot
<1>10. ASSUME NEW c \in Closers,
              \/ Closes(c)
              \/ R!Close(c) /\ UNCHANGED <<admission, ended>>
       PROVE  AskedWithSlot'
  <2>1. \A d \in Calls : d # c
    OBVIOUS
  <2>2. \A d \in Calls : rpc'[d] = rpc[d]
    BY <1>2, <1>10, <2>1
    DEF Closes, R!Closes, R!Close, R!CancelRoot, R!CloseWorker, R!CloseReturns
  <2> QED
    BY <1>7, <1>10, <2>2 DEF Closes
<1>11. CASE \E p \in R!Processes : R!ProcessDies(p) /\ UNCHANGED <<admission, ended>>
  BY <1>7, <1>11 DEF R!ProcessDies, R!callerVars
<1>12. CASE UNCHANGED allVars
  BY <1>7, <1>12 DEF allVars, runtime
<1>13. CASE RecognitionNext
  <2>1. CASE Environment
    BY <1>10, <1>11, <2>1 DEF Environment
  <2>2. CASE \E a \in R!Users : TimesOut(a) \/ Starts(a)
    BY <1>6, <1>8, <2>2
  <2>3. CASE \E c \in Closers : Closes(c)
    BY <1>10, <2>3
  <2>4. CASE \E c \in Calls :
               \/ Arrives(c) \/ Admission(c) \/ ContextEnds(c) \/ NotAsked(c)
               \/ Asks(c) \/ Transcribes(c) \/ Answered(c) \/ InferFails(c)
    BY <1>4, <1>5, <2>4
  <2> QED
    BY <1>9, <1>13, <2>1, <2>2, <2>3, <2>4 DEF RecognitionNext
<1> QED
  BY <1>12, <1>13

\* What the admission is told of a context.
LEMMA ContextsSeen ==
  ASSUME Admitted, NEW c \in Calls
  PROVE  /\ [d \in Calls |-> ended[d]][c] = ended[c]
         /\ ended' = [ended EXCEPT ![c] = FALSE] =>
              [d \in Calls |-> ended'[d]] = [[d \in Calls |-> ended[d]] EXCEPT ![c] = FALSE]
         /\ ended' = [ended EXCEPT ![c] = TRUE] =>
              [d \in Calls |-> ended'[d]] = [[d \in Calls |-> ended[d]] EXCEPT ![c] = TRUE]
BY DEF Admitted, R!Users

\* Each step of the admission here is one of SttAdmission.
LEMMA AdmissionMaps ==
  ASSUME Admitted, NEW c \in Calls,
         \/ Enter(c) \/ TakeSlot(c) \/ Wait(c) \/ Busy(c) \/ GiveUp(c) \/ Leave(c) \/ EndContext(c)
  PROVE  Pool!Next
<1> DEFINE seen == [d \in Calls |-> ended[d]]
<1>1. /\ seen[c] = ended[c]
      /\ ended' = [ended EXCEPT ![c] = FALSE] => seen' = [seen EXCEPT ![c] = FALSE]
      /\ ended' = [ended EXCEPT ![c] = TRUE] => seen' = [seen EXCEPT ![c] = TRUE]
      /\ ended' = ended => seen' = seen
  BY ContextsSeen
<1>2. Enter(c) => Pool!Enter(c)
  BY <1>1 DEF Enter, Pool!Enter
<1>3. TakeSlot(c) => Pool!TakeSlot(c)
  BY <1>1 DEF TakeSlot, Pool!TakeSlot
<1>4. Wait(c) => Pool!Wait(c)
  BY <1>1 DEF Wait, Pool!Wait
<1>5. Busy(c) => Pool!Busy(c)
  BY <1>1 DEF Busy, Pool!Busy, Returned, Pool!Returned
<1>6. GiveUp(c) => Pool!GiveUp(c)
  BY <1>1 DEF GiveUp, Pool!GiveUp, Returned, Pool!Returned, LeaveLine, Pool!LeaveLine, RemoveAt,
              Pool!RemoveAt
<1>7. Leave(c) => Pool!Leave(c)
  BY <1>1 DEF Leave, Pool!Leave, Returned, Pool!Returned, Pool!Calls, Calls
<1>8. EndContext(c) => Pool!EndContext(c)
  BY <1>1 DEF EndContext, Pool!EndContext
<1>9. c \in Pool!Calls
  BY DEF Pool!Calls, Calls
<1> QED
  BY <1>2, <1>3, <1>4, <1>5, <1>6, <1>7, <1>8, <1>9 DEF Pool!Next

LEMMA AdmissionStutters ==
  ASSUME UNCHANGED <<admission, ended>>
  PROVE  UNCHANGED Pool!vars
BY DEF admission, Pool!vars

LEMMA StepMaps ==
  ASSUME IInv, AskedWithSlot, [RecognitionNext]_allVars
  PROVE  [Pool!Next]_Pool!vars
<1>1. Admitted
  BY DEF IInv
<1>2. ASSUME NEW a \in R!Users,
             IF rpc'[a] = "idle" THEN Leave(a) ELSE UNCHANGED <<admission, ended>>
      PROVE  [Pool!Next]_Pool!vars
  <2>1. rpc'[Boot] # "idle"
    BY Inductive DEF IInv, Runtime, Callers
  <2> QED
    BY <1>1, <1>2, <2>1, AdmissionMaps, AdmissionStutters DEF R!Users
<1>3. ASSUME NEW c \in Calls,
             \/ Arrives(c) \/ Admission(c) \/ ContextEnds(c) \/ NotAsked(c)
             \/ Asks(c) \/ Transcribes(c) \/ Answered(c) \/ InferFails(c)
      PROVE  [Pool!Next]_Pool!vars
  <2>1. CASE Arrives(c) \/ Admission(c) \/ ContextEnds(c) \/ NotAsked(c)
    BY <1>1, <2>1, AdmissionMaps DEF Arrives, Admission, ContextEnds, NotAsked
  <2>2. CASE Asks(c) \/ Transcribes(c) \/ Answered(c) \/ InferFails(c)
    BY <1>2, <2>2 DEF Asks, Transcribes, Answered, InferFails, Served, R!Users
  <2> QED
    BY <1>3, <2>1, <2>2
<1>4. ASSUME NEW a \in R!Users, TimesOut(a)
      PROVE  [Pool!Next]_Pool!vars
  <2>1. CASE a \in Calls
    <3>1. EndContext(a)
      BY <1>4, <2>1 DEF TimesOut, AskedWithSlot, EndContext, admission
    <3> QED
      BY <1>1, <2>1, <3>1, AdmissionMaps
  <2>2. CASE a = Boot
    <3>1. [d \in Calls |-> ended'[d]] = [d \in Calls |-> ended[d]]
      BY <1>1, <1>4, <2>2 DEF TimesOut, Admitted, R!Users
    <3> QED
      BY <1>4, <3>1 DEF TimesOut, admission, Pool!vars
  <2> QED
    BY <2>1, <2>2 DEF R!Users
<1>5. ASSUME NEW a \in R!Users, Starts(a)
      PROVE  [Pool!Next]_Pool!vars
  BY <1>2, <1>5 DEF Starts, Served
<1>6. CASE TakesSlot \/ (\E c \in Closers : Closes(c)) \/ Environment
  BY <1>6, AdmissionStutters DEF TakesSlot, Closes, Environment
<1>7. CASE UNCHANGED allVars
  BY <1>7, AdmissionStutters DEF allVars
<1>8. CASE \E a \in R!Users : TimesOut(a) \/ Starts(a)
  BY <1>4, <1>5, <1>8
<1> QED
  BY <1>3, <1>6, <1>7, <1>8 DEF RecognitionNext

\* A call is served through the admission alone, whatever the runtime does
\* behind it (limited/provider.go): every recognition is a behaviour of
\* SttAdmission, whose holder of a slot may return at any time.
THEOREM RecognitionImplementsAdmission == RecognitionSpec => Pool!Spec
<1>1. RecognitionInit => Pool!Init /\ AskedWithSlot
  BY DEF RecognitionInit, Pool!Init, Pool!Calls, Calls, R!Users, R!Init, AskedWithSlot
<1>2. IInv /\ AskedWithSlot /\ [RecognitionNext]_allVars => AskedWithSlot' /\ [Pool!Next]_Pool!vars
  BY AskedInductive, StepMaps
<1> QED
  BY <1>1, <1>2, RecognitionInductive, PTL DEF RecognitionSpec, Pool!Spec
=============================================================================
