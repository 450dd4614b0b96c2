--------------------------- MODULE OutboundProofs ---------------------------
(***************************************************************************)
(* What many goroutines write to one socket is a conversation the client   *)
(* can follow (WireSound), and a cancelled generation is never heard of    *)
(* again (NothingAfterCancelled), for every bound of Outbound.             *)
(*                                                                         *)
(* Good relates what is still to be written to what the session has ended: *)
(* it holds for every configuration, and NothingAfterCancelled follows.    *)
(* Agree adds that the client follows the live generation or will hear of  *)
(* its end: it needs HasInput, since without a turn detector a playback    *)
(* overflow cancels silently.                                              *)
(***************************************************************************)
EXTENDS Outbound, TLAPS

USE BoundsAssumption, KindsAssumption DEF Gens, NoGen, Workers

WorkState == {"none", "run", "done", "error", "failing", "telling", "gone"}
Frames == {"created", "metadata", "done", "cancelled", "failed"}

-----------------------------------------------------------------------------
(* The invariant.                                                          *)

\* A generation.cancelled for g is still to be written.
UnderWay(g) ==
  \/ \E i \in 1 .. Len(updates) : updates[i] = g
  \/ reader.doing = "cancel" /\ reader.gen = g
  \/ \E w \in Workers : work[g][w] = "telling"

\* The latest generation lives or none does.
Lives ==
  /\ cur \in {NoGen, created}
  /\ ended = (1 .. created) \ {cur}
  /\ opening \subseteq 1 .. created

\* A generation not announced has done nothing.
Fresh ==
  \A g \in Gens : g > created \/ g \in opening =>
     state[g] = "unknown" /\ \A w \in Workers : work[g][w] = "none"

\* Only what has ended is or will be reported as cancelled; what the client does not
\* know is not at work; and the reader, which announces a generation of the client even
\* if it ended, cancels none before.
Heard ==
  \A g \in Gens :
    /\ UnderWay(g) \/ g \in told => g \in ended
    /\ Connected /\ state[g] = "unknown" =>
         suspected # g /\ \A w \in Workers : work[g][w] = "none"
    /\ g \in opening /\ kind[g] = "client" =>
         reader = [doing |-> "open", gen |-> g] /\ ~UnderWay(g) /\ g \notin told

\* The reader cancels a generation, and a pair is begun by a speech worker,
\* within the bound.
Begun ==
  /\ reader.doing = "cancel" => reader.gen # NoGen
  /\ lock # NoGen => pairs[lock] < MaxPairs /\ work[lock]["speech"] = "run"

Good == TypeOK /\ Begun /\ PairsWhole /\ Lives /\ Fresh /\ Heard

\* Who is to write generation.done has marked it.
Finished == \A w \in Workers : cur # NoGen /\ work[cur][w] = "done" => marked

\* A generation in progress is the one the client follows.
One == \A g \in Gens : state[g] = "generating" => g = sdk.gen

\* Once announced the live generation is followed, and settled only at its end.
Live ==
  cur # NoGen /\ cur \notin opening =>
    /\ sdk.gen = cur
    /\ state[cur] = "generating" \/ marked \/ \E w \in Workers : work[cur][w] = "failing"

\* Of any other in progress the client will hear that it ended, or that the next began.
Stale ==
  \A g \in Gens : state[g] = "generating" /\ g # cur =>
     (cur = created /\ cur \in opening) \/ UnderWay(g)

Agree == Finished /\ (Connected => One /\ (sdk.gen \notin lingering => Live /\ Stale))

-----------------------------------------------------------------------------
(* What a frame does, and a worker's step.                                 *)

\* The types, one by one.
LEMMA Types ==
  ASSUME TypeOK
  PROVE  /\ created \in Nat /\ created <= MaxGens /\ MaxGens \in Nat
         /\ ended \subseteq Gens /\ opening \subseteq Gens /\ told \subseteq Gens
         /\ cur \in Gens \cup {NoGen} /\ suspected \in {NoGen, cur}
         /\ work \in [Gens -> [Workers -> WorkState]]
         /\ sdk \in [gen : Gens \cup {NoGen}, pending : Gens \cup {NoGen}]
         /\ sdk.gen \in Gens \cup {NoGen} /\ sdk.pending \in Gens \cup {NoGen}
         /\ state \in [Gens -> {"unknown", "generating", "done", "cancelled", "failed"}]
         /\ updates \in Seq(Gens) /\ lock \in Gens \cup {NoGen}
         /\ reader \in [doing : {"idle", "open", "cancel"}, gen : Gens \cup {NoGen}]
  BY DEF TypeOK, WorkState

\* Delivering a frame: with metadata pending it ends the session, otherwise the
\* client follows a new generation, keeps the metadata, or settles the one it follows.
LEMMA Delivered ==
  ASSUME TypeOK, NEW what \in Frames, NEW g \in Gens, Deliver(what, g)
  PROVE  /\ told' = IF what = "cancelled" THEN told \cup {g} ELSE told
         /\ sdk' \in [gen : Gens \cup {NoGen}, pending : Gens \cup {NoGen}]
         /\ state' \in [Gens -> {"unknown", "generating", "done", "cancelled", "failed"}]
         /\ sdk.pending # NoGen => lost' = "protocol" /\ sdk' = sdk /\ state' = state
         /\ sdk.pending = NoGen =>
              /\ lost' = lost
              /\ sdk'.gen = IF what = "created" THEN g ELSE sdk.gen
              /\ sdk'.pending = IF what = "metadata" THEN g ELSE NoGen
              /\ what = "metadata" => state' = state
              /\ what = "created" =>
                   /\ state'[g] = "generating"
                   /\ \A h \in Gens : h # g =>
                        state'[h] = IF h = sdk.gen /\ state[h] = "generating" THEN "cancelled"
                                    ELSE state[h]
              /\ what \in {"done", "cancelled", "failed"} =>
                   \A h \in Gens :
                     state'[h] = IF h = g /\ h = sdk.gen /\ state[h] = "generating" THEN what
                                 ELSE state[h]
  <1>1. CASE sdk.pending # NoGen
    BY <1>1, Types DEF Deliver
  <1>2. CASE sdk.pending = NoGen /\ what = "created"
    <2> DEFINE before == IF sdk.gen = NoGen THEN state ELSE Settled(state, sdk.gen, "cancelled")
    <2>1. /\ sdk' = [sdk EXCEPT !.gen = g] /\ state' = [before EXCEPT ![g] = "generating"]
          /\ told' = told /\ lost' = lost
      BY <1>2 DEF Deliver
    <2>2. /\ before \in [Gens -> {"unknown", "generating", "done", "cancelled", "failed"}]
          /\ \A h \in Gens : before[h] = IF h = sdk.gen /\ state[h] = "generating" THEN "cancelled"
                                         ELSE state[h]
      BY Types DEF Settled
    <2> HIDE DEF before
    <2> QED BY <1>2, <2>1, <2>2, Types
  <1>3. CASE sdk.pending = NoGen /\ what = "metadata"
    <2>1. /\ sdk' = [sdk EXCEPT !.pending = g] /\ state' = state /\ lost' = lost /\ told' = told
      BY <1>3 DEF Deliver
    <2>2. /\ sdk' \in [gen : Gens \cup {NoGen}, pending : Gens \cup {NoGen}]
          /\ sdk'.gen = sdk.gen /\ sdk'.pending = g
      BY <2>1, Types
    <2> QED BY <1>3, <2>1, <2>2, Types
  <1>4. CASE sdk.pending = NoGen /\ what \in {"done", "cancelled", "failed"}
    <2>1. /\ sdk' = sdk /\ lost' = lost
          /\ told' = IF what = "cancelled" THEN told \cup {g} ELSE told
          /\ state' = IF g = sdk.gen THEN Settled(state, g, what) ELSE state
      BY <1>4 DEF Deliver
    <2>2. /\ state' \in [Gens -> {"unknown", "generating", "done", "cancelled", "failed"}]
          /\ \A h \in Gens :
               state'[h] = IF h = g /\ h = sdk.gen /\ state[h] = "generating" THEN what
                           ELSE state[h]
      BY <1>4, <2>1, Types DEF Settled
    <2> QED BY <1>4, <2>1, <2>2, Types
  <1> QED BY <1>1, <1>2, <1>3, <1>4 DEF Frames

\* A worker's step is its own.
LEMMA Became ==
  ASSUME TypeOK, NEW g \in Gens, NEW w \in Workers, NEW s \in WorkState, Becomes(g, w, s)
  PROVE  /\ work' \in [Gens -> [Workers -> WorkState]]
         /\ work'[g][w] = s
         /\ \A h \in Gens, x \in Workers : h # g \/ x # w => work'[h][x] = work[h][x]
  <1>1. work \in [Gens -> [Workers -> WorkState]]
    BY Types
  <1>2. work' = [work EXCEPT ![g] = [work[g] EXCEPT ![w] = s]]
    BY DEF Becomes
  <1>3. [work[g] EXCEPT ![w] = s] \in [Workers -> WorkState]
    BY <1>1
  <1> QED BY <1>1, <1>2, <1>3

\* A frame between pairs leaves them whole.
LEMMA PairsDelivered ==
  ASSUME TypeOK, PairsWhole, Writable, NEW what \in Frames, NEW g \in Gens, Deliver(what, g),
         ended' = ended,
         \/ what = "metadata" /\ lock' = g /\ g \notin ended
         \/ what # "metadata" /\ lock' = lock
  PROVE  PairsWhole'
  <1>1. CASE sdk.pending # NoGen
    BY <1>1, Delivered, Types DEF PairsWhole, Writable, Connected, Frames
  <1>2. CASE sdk.pending = NoGen
    BY <1>2, Delivered, Types DEF PairsWhole, Writable, Connected, Frames
  <1> QED BY <1>1, <1>2

\* Steps that write nothing leave them whole.
LEMMA PairsKept ==
  ASSUME TypeOK, PairsWhole, UNCHANGED <<clientVars, lock>>, ended \subseteq ended'
  PROVE  PairsWhole'
  BY DEF PairsWhole, clientVars

-----------------------------------------------------------------------------
(* The kinds of steps.                                                     *)

\* Writing anything but an announcement.
LEMMA Writing ==
  ASSUME Good, TypeOK', Begun', Writable, NEW what \in Frames \ {"created"}, NEW g \in Gens,
         Deliver(what, g), UNCHANGED <<sessionVars, opening>>,
         what = "cancelled" => UnderWay(g), reader' = reader \/ reader.doing = "cancel",
         \/ what = "metadata" /\ lock' = g /\ g \notin ended
         \/ what # "metadata" /\ lock' = lock,
         \A h \in Gens, x \in Workers : work[h][x] = "none" => work'[h][x] = "none",
         \A h \in Gens : UnderWay(h)' => UnderWay(h)
  PROVE  Good'
  <1>1. TypeOK /\ what \in Frames
    BY DEF Good
  <1>2. PairsWhole'
    BY <1>1, PairsDelivered DEF Good, sessionVars
  <1>3. Lives'
    BY DEF Good, Lives, sessionVars
  <1>4. \A h \in Gens : (state'[h] = "unknown") <=> (state[h] = "unknown")
    BY <1>1, Delivered, Types DEF Frames
  <1>5. Fresh'
    BY <1>4 DEF Good, Fresh, sessionVars
  <1>6. /\ told' = (IF what = "cancelled" THEN told \cup {g} ELSE told)
        /\ Connected
    BY <1>1, Delivered DEF Writable
  <1>7. Heard'
    <2> SUFFICES ASSUME NEW h \in Gens
                 PROVE  /\ (UnderWay(h) \/ h \in told)' => h \in ended'
                        /\ (Connected /\ state[h] = "unknown")' =>
                             suspected' # h /\ \A x \in Workers : work'[h][x] = "none"
                        /\ (h \in opening /\ kind[h] = "client")' =>
                             /\ reader' = [doing |-> "open", gen |-> h]
                             /\ ~UnderWay(h)' /\ h \notin told'
      BY DEF Heard
    <2>1. (UnderWay(h) \/ h \in told)' => UnderWay(h) \/ h \in told
      BY <1>6
    <2>2. (UnderWay(h) \/ h \in told)' => h \in ended'
      BY <2>1 DEF Good, Heard, sessionVars
    <2>3. ASSUME (Connected /\ state[h] = "unknown")'
          PROVE  suspected' # h /\ \A x \in Workers : work'[h][x] = "none"
      <3>1. suspected # h /\ \A x \in Workers : work[h][x] = "none"
        BY <1>4, <1>6, <2>3 DEF Good, Heard
      <3> QED BY <3>1 DEF sessionVars
    <2>4. ASSUME (h \in opening /\ kind[h] = "client")'
          PROVE  /\ reader' = [doing |-> "open", gen |-> h]
                 /\ ~UnderWay(h)' /\ h \notin told'
      <3>1. reader = [doing |-> "open", gen |-> h] /\ ~UnderWay(h) /\ h \notin told
        BY <2>4 DEF Good, Heard, sessionVars
      <3> QED BY <2>1, <3>1
    <2> QED BY <2>2, <2>3, <2>4
  <1> QED BY <1>2, <1>3, <1>5, <1>7 DEF Good

\* A step the client does not see, in which no generation starts or ends.
LEMMA Silent ==
  ASSUME Good, TypeOK', Begun',
         UNCHANGED <<created, kind, cur, ended, opening, reader, lock, clientVars>>,
         suspected' # suspected => state[suspected'] # "unknown",
         \A h \in Gens, x \in Workers : work[h][x] = "none" => work'[h][x] = "none",
         \A h \in Gens : UnderWay(h)' => UnderWay(h)
  PROVE  Good'
  <1>1. PairsWhole'
    BY PairsKept DEF Good
  <1>2. Lives' /\ Fresh'
    BY DEF Good, Lives, Fresh, clientVars
  <1>3. Heard'
    BY DEF Good, Heard, Connected, clientVars
  <1> QED BY <1>1, <1>2, <1>3 DEF Good

\* The live generation is cancelled, and the client is told or not.
LEMMA Cancelling ==
  ASSUME Good, TypeOK', Begun', UNCHANGED <<created, kind, opening, lock, clientVars>>,
         cur # NoGen, CancelCurrent, cur \in opening => kind[cur] # "client",
         reader' = reader \/ reader = Idle,
         \A h \in Gens, x \in Workers : work[h][x] = "none" => work'[h][x] = "none",
         \A h \in Gens : UnderWay(h)' => UnderWay(h) \/ h = cur
  PROVE  Good'
  <1>1. PairsWhole'
    BY PairsKept DEF Good, CancelCurrent
  <1>2. cur \in Gens /\ cur \in 1 .. created /\ cur' = NoGen
    BY Types DEF Good, Lives, CancelCurrent
  <1>3. Lives'
    BY <1>2, Types DEF Good, Lives, CancelCurrent
  <1>4. Fresh'
    BY DEF Good, Fresh, clientVars
  <1>5. Heard'
    BY <1>2 DEF Good, Heard, Idle, Connected, clientVars, CancelCurrent
  <1> QED BY <1>1, <1>3, <1>4, <1>5 DEF Good

\* A generation starts: the one before ends without a frame.
LEMMA Beginning ==
  ASSUME Good, TypeOK', Begun', NEW k \in KindSet, Begin(k),
         UNCHANGED <<work, updates, lock, clientVars>>,
         \/ k # "client" /\ reader' = reader
         \/ reader = Idle /\ reader' = [doing |-> "open", gen |-> created + 1],
         \A h \in Gens : UnderWay(h)' => UnderWay(h)
  PROVE  Good'
  <1>1. PairsWhole'
    BY PairsKept DEF Good, Begin
  <1>2. created \in Nat /\ created' = created + 1 /\ cur' = created + 1 /\ created' \in Gens
    BY Types DEF Good, Begin
  <1>3. ended' = 1 .. created
    <2>1. CASE cur = NoGen
      BY <1>2, <2>1 DEF Good, Lives, Begin
    <2>2. CASE cur # NoGen
      <3>1. cur = created /\ created \in 1 .. created
        BY <1>2, <2>2 DEF Good, Lives
      <3>2. ended' = ((1 .. created) \ {created}) \cup {created}
        BY <2>2, <3>1 DEF Good, Lives, Begin
      <3> QED BY <3>1, <3>2
    <2> QED BY <2>1, <2>2
  <1>4. Lives'
    BY <1>2, <1>3 DEF Good, Lives, Begin
  <1>5. Fresh'
    BY <1>2, Types DEF Good, Fresh, Begin, clientVars
  <1>6. ASSUME NEW h \in Gens
        PROVE  /\ (UnderWay(h) \/ h \in told)' => h \in ended'
               /\ (Connected /\ state[h] = "unknown")' =>
                    suspected' # h /\ \A w \in Workers : work'[h][w] = "none"
    BY <1>2, <1>3 DEF Good, Heard, Lives, Connected, clientVars, Begin
  <1>7. ASSUME NEW h \in Gens, (h \in opening /\ kind[h] = "client")'
        PROVE  reader' = [doing |-> "open", gen |-> h] /\ ~UnderWay(h)' /\ h \notin told'
    <2>1. CASE h = created + 1
      <3>1. kind \in [Gens -> KindSet]
        BY DEF Good, TypeOK
      <3>2. k = "client"
        BY <1>2, <1>7, <2>1, <3>1 DEF Begin
      <3>3. h \notin ended
        BY <1>2, <2>1 DEF Good, Lives
      <3>4. ~UnderWay(h) /\ h \notin told
        BY <3>3 DEF Good, Heard
      <3> QED BY <2>1, <3>2, <3>4 DEF clientVars
    <2>2. CASE h # created + 1
      <3>1. h \in opening /\ kind[h] = "client"
        BY <1>7, <2>2 DEF Begin
      <3>2. reader = [doing |-> "open", gen |-> h] /\ ~UnderWay(h) /\ h \notin told
        BY <3>1 DEF Good, Heard
      <3> QED BY <3>2 DEF Idle, clientVars
    <2> QED BY <2>1, <2>2
  <1>8. Heard'
    BY <1>6, <1>7 DEF Heard
  <1> QED BY <1>1, <1>4, <1>5, <1>8 DEF Good

-----------------------------------------------------------------------------
(* The session's steps keep it good.                                       *)

\* What starting a generation changes keeps its type.
LEMMA Began ==
  ASSUME TypeOK, NEW k \in KindSet, Begin(k)
  PROVE  /\ created' = created + 1 /\ created' \in Gens /\ created' \in 0 .. MaxGens
         /\ kind' \in [Gens -> KindSet] /\ opening' \subseteq Gens
         /\ cur' = created' /\ ended' \subseteq Gens /\ marked' \in BOOLEAN /\ suspected' = NoGen
  <1>1. created' = created + 1 /\ created' \in Gens /\ created' \in 0 .. MaxGens
    BY Types DEF Begin
  <1>2. kind' \in [Gens -> KindSet]
    BY DEF TypeOK, Begin
  <1>3. opening' \subseteq Gens /\ cur' = created' /\ marked' \in BOOLEAN /\ suspected' = NoGen
    BY <1>1, Types DEF Begin
  <1>4. ended' \subseteq Gens
    BY Types DEF Begin
  <1> QED BY <1>1, <1>2, <1>3, <1>4

\* The reader opens a generation (generation.create, input_text.commit).
LEMMA CreateByReaderGood == ASSUME Good, NEW k, CreateByReader(k) PROVE Good'
  <1>1. /\ Begin(k) /\ k \in KindSet /\ reader = Idle
        /\ UNCHANGED <<work, pairs, updates, lock, clientVars, lingering>>
        /\ reader' = [doing |-> "open", gen |-> created + 1]
    BY DEF CreateByReader, KindSet
  <1>2. TypeOK' /\ Begun'
    <2> HIDE DEF Gens
    <2> QED BY <1>1, Began DEF Good, TypeOK, Begun, clientVars
  <1>3. \A h \in Gens : UnderWay(h)' => UnderWay(h)
    BY <1>1 DEF UnderWay
  <1> QED BY <1>1, <1>2, <1>3, Beginning

\* An input worker opens a voice answer.
LEMMA CreateByVoiceGood == ASSUME Good, CreateByVoice PROVE Good'
  <1>1. /\ Begin("voice") /\ "voice" \in KindSet
        /\ UNCHANGED <<work, pairs, reader, updates, lock, clientVars, lingering>>
    BY DEF CreateByVoice, KindSet
  <1>2. TypeOK' /\ Begun'
    <2> HIDE DEF Gens
    <2> QED BY <1>1, Began DEF Good, TypeOK, Begun, clientVars
  <1>3. \A h \in Gens : UnderWay(h)' => UnderWay(h)
    BY <1>1 DEF UnderWay
  <1> QED BY <1>1, <1>2, <1>3, Beginning

\* The client names what it was told of: it is announced.
LEMMA KnownIsAnnounced ==
  ASSUME Good, NEW g \in Gens, state[g] # "unknown"
  PROVE  g \notin opening
  BY DEF Good, Fresh

\* generation.cancel: the reader will write the answer.
LEMMA ClientCancelsGood == ASSUME Good, NEW g \in Gens, ClientCancels(g) PROVE Good'
  <1>1. /\ CancelCurrent /\ cur = g /\ reader = Idle
        /\ reader' = [doing |-> "cancel", gen |-> g]
        /\ lingering' = lingering \/ lingering' = lingering \cup ({sdk.gen} \ {NoGen})
        /\ UNCHANGED <<created, kind, opening, marked, work, pairs, updates, lock, clientVars>>
    BY DEF ClientCancels
  <1>2. reader' \in [doing : {"idle", "open", "cancel"}, gen : Gens \cup {NoGen}]
    BY <1>1
  <1>3. /\ ended' \subseteq Gens /\ cur' \in Gens \cup {NoGen}
        /\ suspected' \in {NoGen, cur'}
    BY <1>1, Types DEF Good, CancelCurrent
  <1>4. lingering' \subseteq Gens
    <2>1. lingering \subseteq Gens /\ sdk.gen \in Gens \cup {NoGen}
      BY Types DEF Good, TypeOK
    <2> QED BY <1>1, <2>1
  <1>5. TypeOK'
    BY <1>1, <1>2, <1>3, <1>4 DEF Good, TypeOK, clientVars
  <1>6. Begun'
    BY <1>1 DEF Good, Begun
  <1>7. \A h \in Gens : UnderWay(h)' => UnderWay(h) \/ h = cur
    BY <1>1 DEF UnderWay
  <1>8. cur \in opening => kind[cur] # "client"
    BY <1>1 DEF Good, Heard, Idle
  <1> QED BY <1>1, <1>5, <1>6, <1>7, <1>8, Cancelling

\* What was appended.
LEMMA UpdateAppended ==
  ASSUME TypeOK, NEW g \in Gens, updates' = Append(updates, g), UNCHANGED <<reader, work>>
  PROVE  /\ updates' \in Seq(Gens) /\ UnderWay(g)'
         /\ \A h \in Gens : /\ UnderWay(h)' => UnderWay(h) \/ h = g
                            /\ UnderWay(h) => UnderWay(h)'
  <1> DEFINE n == Len(updates)
  <1>1. /\ updates' \in Seq(Gens) /\ n \in Nat /\ Len(updates') = n + 1 /\ updates'[n + 1] = g
        /\ \A i \in 1 .. n : updates'[i] = updates[i]
    BY Types
  <1>2. \A i \in 1 .. (n + 1) : i = n + 1 \/ i \in 1 .. n
    BY <1>1
  <1>3. n + 1 \in 1 .. (n + 1) /\ \A i \in 1 .. n : i \in 1 .. (n + 1)
    BY <1>1
  <1> HIDE DEF n
  <1>4. UnderWay(g)'
    BY <1>1, <1>3 DEF UnderWay
  <1>5. ASSUME NEW h \in Gens
        PROVE  (UnderWay(h)' => UnderWay(h) \/ h = g) /\ (UnderWay(h) => UnderWay(h)')
    BY <1>1, <1>2, <1>3 DEF UnderWay, n
  <1> QED BY <1>1, <1>4, <1>5

\* What was taken off.
LEMMA UpdateTaken ==
  ASSUME TypeOK, updates # <<>>, updates' = Tail(updates), UNCHANGED <<reader, work>>
  PROVE  /\ updates' \in Seq(Gens) /\ Head(updates) \in Gens /\ UnderWay(Head(updates))
         /\ \A h \in Gens : /\ UnderWay(h)' => UnderWay(h)
                            /\ UnderWay(h) => UnderWay(h)' \/ h = Head(updates)
  <1> DEFINE n == Len(updates)
  <1>1. /\ updates' \in Seq(Gens) /\ n \in Nat /\ n >= 1 /\ Len(updates') = n - 1
        /\ Head(updates) = updates[1] /\ Head(updates) \in Gens
        /\ \A i \in 1 .. (n - 1) : updates'[i] = updates[i + 1]
    BY Types
  <1>2. /\ 1 \in 1 .. n /\ \A i \in 1 .. (n - 1) : i + 1 \in 1 .. n
        /\ \A i \in 1 .. n : i = 1 \/ (i - 1 \in 1 .. (n - 1) /\ (i - 1) + 1 = i)
    BY <1>1
  <1> HIDE DEF n
  <1>3. UnderWay(Head(updates))
    BY <1>1, <1>2 DEF UnderWay, n
  <1>4. ASSUME NEW h \in Gens
        PROVE  /\ UnderWay(h)' => UnderWay(h)
               /\ UnderWay(h) => UnderWay(h)' \/ h = Head(updates)
    <2>1. ASSUME NEW i \in 1 .. Len(updates'), updates'[i] = h
          PROVE  UnderWay(h)
      BY <1>1, <1>2, <2>1 DEF UnderWay, n
    <2>2. ASSUME NEW i \in 1 .. n, updates[i] = h, h # Head(updates)
          PROVE  UnderWay(h)'
      <3>1. i - 1 \in 1 .. Len(updates') /\ updates'[i - 1] = h
        BY <1>1, <1>2, <2>2
      <3> QED BY <3>1 DEF UnderWay
    <2> QED BY <2>1, <2>2 DEF UnderWay, n
  <1> QED BY <1>1, <1>3, <1>4

\* A confirmed interruption joins the updates.
LEMMA ConfirmGood == ASSUME Good, Confirm PROVE Good'
  <1>1. /\ CancelCurrent /\ suspected # NoGen /\ Connected /\ updates' = Append(updates, cur)
        /\ UNCHANGED <<created, kind, opening, marked, work, pairs, reader, lock, clientVars, lingering>>
    BY DEF Confirm
  <1>2. cur \in Gens /\ suspected = cur /\ state[cur] # "unknown"
    BY <1>1, Types DEF Good, Heard
  <1>3. /\ updates' \in Seq(Gens)
        /\ \A h \in Gens : UnderWay(h)' => UnderWay(h) \/ h = cur
    BY <1>1, <1>2, UpdateAppended DEF Good
  <1>4. TypeOK' /\ Begun'
    BY <1>1, <1>2, <1>3 DEF Good, TypeOK, Begun, CancelCurrent, clientVars
  <1> QED BY <1>1, <1>2, <1>3, <1>4, KnownIsAnnounced, Cancelling

\* So does a playback overflow, if there are updates.
LEMMA OverflowGood == ASSUME Good, NEW g \in Gens, Overflow(g) PROVE Good'
  <1>1. /\ CancelCurrent /\ cur = g /\ state[g] # "unknown"
        /\ updates' = IF HasInput THEN Append(updates, g) ELSE updates
        /\ UNCHANGED <<created, kind, opening, marked, work, pairs, reader, lock, clientVars, lingering>>
    BY DEF Overflow
  <1>2. /\ updates' \in Seq(Gens)
        /\ \A h \in Gens : UnderWay(h)' => UnderWay(h) \/ h = cur
    <2>1. CASE HasInput
      BY <1>1, <2>1, UpdateAppended DEF Good
    <2>2. CASE ~HasInput
      BY <1>1, <2>2, Types DEF Good, UnderWay
    <2> QED BY <2>1, <2>2
  <1>3. TypeOK' /\ Begun'
    BY <1>1, <1>2 DEF Good, TypeOK, Begun, CancelCurrent, clientVars
  <1> QED BY <1>1, <1>2, <1>3, KnownIsAnnounced, Cancelling

\* A suspected generation is one the client knows.
LEMMA SuspectGood == ASSUME Good, Suspect PROVE Good'
  <1>1. TypeOK' /\ Begun'
    BY DEF Good, TypeOK, Begun, Suspect, clientVars
  <1> QED BY <1>1, Silent DEF Suspect, UnderWay, Good

-----------------------------------------------------------------------------
(* The workers' steps keep it good.                                        *)

\* A worker that ends or fails announces nothing, and was at work.
LEMMA WorkMoved ==
  ASSUME Good, NEW g \in Gens, NEW w \in Workers, NEW s \in WorkState, Becomes(g, w, s),
         work[g][w] # "none", UNCHANGED <<updates, reader>>
  PROVE  /\ work' \in [Gens -> [Workers -> WorkState]]
         /\ \A h \in Gens, x \in Workers : work[h][x] = "none" => work'[h][x] = "none"
         /\ \A h \in Gens : UnderWay(h)' => UnderWay(h) \/ (h = g /\ s = "telling")
         /\ \A h \in Gens : UnderWay(h) => UnderWay(h)' \/ (h = g /\ work[g][w] = "telling")
         /\ s = "telling" => UnderWay(g)'
  <1>1. /\ work' \in [Gens -> [Workers -> WorkState]] /\ work'[g][w] = s
        /\ \A h \in Gens, x \in Workers : h # g \/ x # w => work'[h][x] = work[h][x]
    BY Became DEF Good
  <1>2. \A h \in Gens, x \in Workers : work[h][x] = "none" => work'[h][x] = "none"
    BY <1>1
  <1> QED BY <1>1, <1>2 DEF UnderWay

\* A pair under way is not disturbed by another worker.
LEMMA PairHeld ==
  ASSUME TypeOK, Begun, NEW g \in Gens, NEW w \in Workers, NEW s \in WorkState,
         Becomes(g, w, s), ~(w = "speech" /\ lock = g), UNCHANGED <<lock, pairs, reader>>
  PROVE  Begun'
  <1>1. ASSUME lock # NoGen
        PROVE  work'[lock]["speech"] = work[lock]["speech"]
    <2>1. lock \in Gens /\ "speech" \in Workers /\ (lock # g \/ "speech" # w)
      BY <1>1, Types
    <2> QED BY <2>1, Became
  <1> QED BY <1>1 DEF Begun

\* Steps of a worker that the client does not see.
LEMMA WorkSilent ==
  ASSUME Good, NEW g \in Gens, NEW w \in Workers, NEW s \in WorkState \ {"telling"},
         Becomes(g, w, s), work[g][w] # "none", ~(w = "speech" /\ lock = g), marked' \in BOOLEAN,
         UNCHANGED <<created, kind, opening, cur, ended, pairs, reader, suspected, updates, lock,
                     clientVars, lingering>>
  PROVE  Good'
  <1>1. /\ work' \in [Gens -> [Workers -> WorkState]]
        /\ \A h \in Gens, x \in Workers : work[h][x] = "none" => work'[h][x] = "none"
        /\ \A h \in Gens : UnderWay(h)' => UnderWay(h)
    BY WorkMoved
  <1>2. TypeOK'
    BY <1>1 DEF Good, TypeOK, WorkState, clientVars
  <1>3. Begun'
    BY PairHeld DEF Good
  <1> QED BY <1>1, <1>2, <1>3, Silent

\* MarkGenerationDone only changes the worker and the mark.
LEMMA MarkDoneGood == ASSUME Good, NEW g \in Gens, NEW w \in Workers, MarkDone(g, w) PROVE Good'
  <1>1. /\ work[g][w] # "none" /\ ~(w = "speech" /\ lock = g)
        /\ UNCHANGED <<created, kind, opening, cur, ended, pairs, reader, suspected, updates, lock,
                       clientVars, lingering>>
    BY DEF MarkDone
  <1>2. \E s \in WorkState \ {"telling"} : Becomes(g, w, s) /\ marked' \in BOOLEAN
    BY DEF MarkDone, Good, TypeOK, WorkState
  <1> QED BY <1>1, <1>2, WorkSilent

\* The end of an LLM stream only changes the worker.
LEMMA LlmEndsGood == ASSUME Good, NEW g \in Gens, LlmEnds(g) PROVE Good'
  <1>1. /\ work[g]["llm"] # "none" /\ Becomes(g, "llm", "gone")
        /\ UNCHANGED <<sessionVars, opening, pairs, reader, updates, lock, clientVars, lingering>>
    BY DEF LlmEnds
  <1>2. "gone" \in WorkState \ {"telling"} /\ marked \in BOOLEAN /\ "llm" \in Workers
    BY DEF WorkState, Good, TypeOK
  <1> QED BY <1>1, <1>2, WorkSilent DEF sessionVars

\* A failure is the worker's own until it is written.
LEMMA FailsGood == ASSUME Good, NEW g \in Gens, NEW w \in Workers, Fails(g, w) PROVE Good'
  <1>1. /\ work[g][w] # "none" /\ Becomes(g, w, "error") /\ ~(w = "speech" /\ lock = g)
        /\ UNCHANGED <<sessionVars, opening, pairs, reader, updates, lock, clientVars, lingering>>
    BY DEF Fails
  <1>2. "error" \in WorkState \ {"telling"} /\ marked \in BOOLEAN
    BY DEF WorkState, Good, TypeOK
  <1> QED BY <1>1, <1>2, WorkSilent DEF sessionVars

\* A worker whose context has ended stops.
LEMMA StopsGood == ASSUME Good, NEW g \in Gens, NEW w \in Workers, Stops(g, w) PROVE Good'
  <1>1. /\ work[g][w] # "none" /\ Becomes(g, w, "gone") /\ ~(w = "speech" /\ lock = g)
        /\ UNCHANGED <<sessionVars, opening, pairs, reader, updates, lock, clientVars, lingering>>
    BY DEF Stops
  <1>2. "gone" \in WorkState \ {"telling"} /\ marked \in BOOLEAN
    BY DEF WorkState, Good, TypeOK
  <1> QED BY <1>1, <1>2, WorkSilent DEF sessionVars

\* A failed generation that still lives is cancelled by the worker that will say so.
LEMMA CancelFailedGood ==
  ASSUME Good, NEW g \in Gens, NEW w \in Workers, CancelFailed(g, w)
  PROVE  Good'
  <1>1. /\ work[g][w] = "failing"
        /\ UNCHANGED <<created, kind, opening, marked, pairs, reader, updates, lock, clientVars, lingering>>
    BY DEF CancelFailed
  <1>2. /\ g \notin opening /\ Connected => state[g] # "unknown"
        /\ ~(w = "speech" /\ lock = g)
        /\ work \in [Gens -> [Workers -> WorkState]]
    BY <1>1, Types DEF Good, Fresh, Heard, Begun
  <1>3. CASE cur = g
    <2>1. CancelCurrent /\ Becomes(g, w, "telling") /\ "telling" \in WorkState
      BY <1>3 DEF CancelFailed, WorkState
    <2>2. /\ work' \in [Gens -> [Workers -> WorkState]]
          /\ \A h \in Gens, x \in Workers : work[h][x] = "none" => work'[h][x] = "none"
          /\ \A h \in Gens : UnderWay(h)' => UnderWay(h) \/ h = g
      BY <1>1, <2>1, WorkMoved
    <2>3. TypeOK'
      <3>1. /\ ended' \subseteq Gens /\ cur' \in Gens \cup {NoGen}
            /\ suspected' \in {NoGen, cur'}
        BY <1>3, <2>1, Types DEF Good, CancelCurrent
      <3> QED BY <1>1, <2>2, <3>1 DEF Good, TypeOK, WorkState, clientVars
    <2>4. Begun'
      BY <1>1, <1>2, <2>1, PairHeld DEF Good
    <2> QED BY <1>1, <1>2, <1>3, <2>1, <2>2, <2>3, <2>4, Cancelling DEF Fresh, Good
  <1>4. CASE cur # g
    <2>1. /\ Becomes(g, w, "gone") /\ "gone" \in WorkState \ {"telling"}
          /\ UNCHANGED <<cur, ended, suspected>> /\ marked \in BOOLEAN
      BY <1>4 DEF CancelFailed, WorkState, Good, TypeOK
    <2> QED BY <1>1, <1>2, <2>1, WorkSilent
  <1> QED BY <1>3, <1>4

-----------------------------------------------------------------------------
(* The frames keep it good.                                                *)

\* The types after a frame.
LEMMA DeliveredType ==
  ASSUME TypeOK, Writable, NEW what \in Frames, NEW g \in Gens, Deliver(what, g)
  PROVE  /\ told' \subseteq Gens /\ lost' \in {"no", "dropped", "protocol"}
         /\ sdk' \in [gen : Gens \cup {NoGen}, pending : Gens \cup {NoGen}]
         /\ state' \in [Gens -> {"unknown", "generating", "done", "cancelled", "failed"}]
  <1>1. lost = "no"
    BY DEF Writable, Connected
  <1>2. told' \subseteq Gens
    BY Delivered, Types
  <1>3. lost' \in {"no", "dropped", "protocol"}
    BY <1>1, Delivered
  <1> QED BY <1>2, <1>3, Delivered

\* The reader's generation.cancelled was under way.
LEMMA WriteReaderCancelledGood == ASSUME Good, WriteReaderCancelled PROVE Good'
  <1>1. /\ reader.doing = "cancel" /\ Writable /\ Deliver("cancelled", reader.gen)
        /\ reader' = Idle /\ UNCHANGED <<sessionVars, opening, work, pairs, updates, lock, lingering>>
    BY DEF WriteReaderCancelled
  <1>2. PICK g \in Gens : g = reader.gen
    BY <1>1, Types DEF Good, Begun
  <1>3. "cancelled" \in Frames \ {"created"} /\ UnderWay(g)
    BY <1>1, <1>2 DEF Frames, UnderWay
  <1>4. TypeOK' /\ Begun'
    BY <1>1, <1>2, <1>3, DeliveredType DEF Good, TypeOK, Begun, Idle, sessionVars
  <1>5. \A h \in Gens : UnderWay(h)' => UnderWay(h)
    BY <1>1 DEF UnderWay, Idle
  <1> QED BY <1>1, <1>2, <1>3, <1>4, <1>5, Writing DEF Good

\* So was the first of the updates.
LEMMA WriteUpdateGood == ASSUME Good, WriteUpdate PROVE Good'
  <1>1. /\ updates # <<>> /\ Writable /\ Deliver("cancelled", Head(updates))
        /\ updates' = Tail(updates)
        /\ UNCHANGED <<sessionVars, opening, work, pairs, reader, lock, lingering>>
    BY DEF WriteUpdate
  <1>2. /\ updates' \in Seq(Gens) /\ Head(updates) \in Gens /\ UnderWay(Head(updates))
        /\ \A h \in Gens : UnderWay(h)' => UnderWay(h)
    BY <1>1, UpdateTaken DEF Good
  <1>3. "cancelled" \in Frames \ {"created"}
    BY DEF Frames
  <1>4. TypeOK' /\ Begun'
    BY <1>1, <1>2, <1>3, DeliveredType DEF Good, TypeOK, Begun, sessionVars
  <1> QED BY <1>1, <1>2, <1>3, <1>4, Writing

\* Metadata of a living generation begins a pair.
LEMMA WriteMetadataGood == ASSUME Good, NEW g \in Gens, WriteMetadata(g) PROVE Good'
  <1>1. /\ Writable /\ g \notin ended /\ Deliver("metadata", g) /\ lock' = g
        /\ pairs[g] < MaxPairs /\ work[g]["speech"] = "run"
        /\ UNCHANGED <<sessionVars, opening, work, pairs, reader, updates, lingering>>
    BY DEF WriteMetadata
  <1>2. "metadata" \in Frames \ {"created"}
    BY DEF Frames
  <1>3. TypeOK' /\ Begun'
    BY <1>1, <1>2, DeliveredType DEF Good, TypeOK, Begun, sessionVars
  <1>4. \A h \in Gens : UnderWay(h)' => UnderWay(h)
    BY <1>1 DEF UnderWay
  <1> QED BY <1>1, <1>2, <1>3, <1>4, Writing

\* A worker writes a frame and goes on, or finds its context ended and goes on.
LEMMA WorkWriting ==
  ASSUME Good, NEW g \in Gens, NEW w \in Workers, NEW s \in WorkState \ {"telling"},
         NEW what \in {"done", "failed", "cancelled"},
         Writable, Becomes(g, w, s), work[g][w] # "none",
         what = "cancelled" => work[g][w] = "telling",
         Deliver(what, g) \/ UNCHANGED clientVars,
         UNCHANGED <<sessionVars, opening, pairs, reader, updates, lock, lingering>>
  PROVE  Good'
  <1>1. /\ work' \in [Gens -> [Workers -> WorkState]]
        /\ \A h \in Gens, x \in Workers : work[h][x] = "none" => work'[h][x] = "none"
        /\ \A h \in Gens : UnderWay(h)' => UnderWay(h)
    BY WorkMoved
  <1>2. CASE Deliver(what, g)
    <2>1. /\ what \in Frames \ {"created"} /\ what # "metadata"
          /\ what = "cancelled" => UnderWay(g)
      BY DEF Frames, UnderWay
    <2>2. TypeOK'
      BY <1>1, <1>2, <2>1, DeliveredType DEF Good, TypeOK, sessionVars, WorkState
    <2>3. Begun'
      BY PairHeld DEF Good, Writable
    <2> QED BY <1>1, <1>2, <2>1, <2>2, <2>3, Writing
  <1>3. CASE UNCHANGED clientVars
    <2>1. marked' \in BOOLEAN
      BY DEF sessionVars, Good, TypeOK
    <2> QED BY <1>3, <2>1, WorkSilent DEF sessionVars, Writable
  <1> QED BY <1>2, <1>3

\* generation.done.
LEMMA WriteDoneGood == ASSUME Good, NEW g \in Gens, NEW w \in Workers, WriteDone(g, w) PROVE Good'
  <1>1. /\ work[g][w] # "none" /\ Writable /\ Becomes(g, w, "gone")
        /\ Deliver("done", g) \/ UNCHANGED clientVars
        /\ UNCHANGED <<sessionVars, opening, pairs, reader, updates, lock, lingering>>
    BY DEF WriteDone
  <1>2. "gone" \in WorkState \ {"telling"} /\ "done" \in {"done", "failed", "cancelled"}
    BY DEF WorkState
  <1> QED BY <1>1, <1>2, WorkWriting

\* The error of a failed worker.
LEMMA WriteErrorGood ==
  ASSUME Good, NEW g \in Gens, NEW w \in Workers, WriteError(g, w)
  PROVE  Good'
  <1>1. /\ work[g][w] # "none" /\ Writable /\ Becomes(g, w, "failing")
        /\ Deliver("failed", g) \/ UNCHANGED clientVars
        /\ UNCHANGED <<sessionVars, opening, pairs, reader, updates, lock, lingering>>
    BY DEF WriteError
  <1>2. "failing" \in WorkState \ {"telling"} /\ "failed" \in {"done", "failed", "cancelled"}
    BY DEF WorkState
  <1> QED BY <1>1, <1>2, WorkWriting

\* generation.cancelled, by the worker that cancelled.
LEMMA WriteCancelledGood ==
  ASSUME Good, NEW g \in Gens, NEW w \in Workers, WriteCancelled(g, w)
  PROVE  Good'
  <1>1. /\ work[g][w] = "telling" /\ Writable /\ Becomes(g, w, "gone") /\ Deliver("cancelled", g)
        /\ UNCHANGED <<sessionVars, opening, pairs, reader, updates, lock, lingering>>
    BY DEF WriteCancelled
  <1>2. "gone" \in WorkState \ {"telling"} /\ "cancelled" \in {"done", "failed", "cancelled"}
    BY DEF WorkState
  <1> QED BY <1>1, <1>2, WorkWriting

\* generation.created: what is announced has done nothing and was not cancelled before.
LEMMA WriteCreatedGood == ASSUME Good, NEW g \in Gens, WriteCreated(g) PROVE Good'
  <1>1. /\ g \in opening /\ Writable /\ opening' = opening \ {g}
        /\ reader' = IF reader = [doing |-> "open", gen |-> g] THEN Idle ELSE reader
        /\ UNCHANGED <<sessionVars, pairs, updates, lock>>
    BY DEF WriteCreated
  <1>2. reader' \in [doing : {"idle", "open", "cancel"}, gen : Gens \cup {NoGen}] /\ Begun'
    BY <1>1, Types DEF Good, Begun, Idle, Writable
  <1>3. \A h \in Gens : reader'.doing = "cancel" /\ reader'.gen = h =>
                          reader.doing = "cancel" /\ reader.gen = h
    BY <1>1 DEF Idle
  <1>4. Lives'
    BY <1>1 DEF Good, Lives, sessionVars
  <1>5. CASE Deliver("created", g)
    <2> DEFINE run == [speech |-> IF kind[g] = "text" THEN "gone" ELSE "run",
                       llm |-> IF kind[g] = "client" THEN "gone" ELSE "run"]
    <2>1. work' = [work EXCEPT ![g] = run] \/ work' = work
      BY <1>5 DEF WriteCreated, clientVars
    <2>2. run \in [Workers -> WorkState] /\ \A w \in Workers : run[w] # "telling"
      BY DEF WorkState
    <2> HIDE DEF run
    <2>3. /\ work' \in [Gens -> [Workers -> WorkState]]
          /\ \A h \in Gens : h # g => work'[h] = work[h]
          /\ \A h \in Gens, w \in Workers : work'[h][w] = "telling" => work[h][w] = "telling"
      <3>1. work \in [Gens -> [Workers -> WorkState]]
        BY Types DEF Good
      <3>2. CASE work' = work
        BY <3>1, <3>2
      <3>3. CASE work' = [work EXCEPT ![g] = run]
        <4>1. /\ work' \in [Gens -> [Workers -> WorkState]] /\ work'[g] = run
              /\ \A h \in Gens : h # g => work'[h] = work[h]
          BY <2>2, <3>1, <3>3
        <4> QED BY <2>2, <4>1
      <3> QED BY <2>1, <3>2, <3>3
    <2>4. \A h \in Gens : UnderWay(h)' => UnderWay(h)
      BY <1>1, <1>3, <2>3 DEF UnderWay
    <2>5. /\ "created" \in Frames /\ lingering' \subseteq Gens
      <3>1. lingering \subseteq Gens
        BY DEF Good, TypeOK
      <3>2. lingering' = lingering \/ lingering' = lingering \cup {g}
        BY <1>5 DEF WriteCreated
      <3>3. lingering' \subseteq Gens
        BY <3>1, <3>2
      <3> QED BY <3>3 DEF Frames
    <2>6. TypeOK'
      BY <1>1, <1>2, <1>5, <2>3, <2>5, DeliveredType DEF Good, TypeOK, WorkState, sessionVars
    <2>7. PairsWhole'
      BY <1>1, <1>5, <2>5, PairsDelivered DEF Good, sessionVars
    <2>8. /\ told' = told /\ Connected
          /\ \A h \in Gens : h # g => ((state'[h] = "unknown") <=> (state[h] = "unknown"))
          /\ Connected' => state'[g] # "unknown"
      BY <1>1, <1>5, <2>5, Delivered, Types DEF Good, Writable, Connected
    <2>9. Fresh'
      <3> SUFFICES ASSUME NEW h \in Gens, h > created \/ h \in opening \ {g}
                   PROVE  state'[h] = "unknown" /\ \A w \in Workers : work'[h][w] = "none"
        BY <1>1 DEF Fresh, sessionVars
      <3>1. h # g
        BY <1>1, Types DEF Good, Lives
      <3> QED BY <2>3, <2>8, <3>1 DEF Good, Fresh
    <2>10. Heard'
      BY <1>1, <2>3, <2>4, <2>8 DEF Good, Heard, sessionVars
    <2> QED BY <1>2, <1>4, <2>6, <2>7, <2>9, <2>10 DEF Good
  <1>6. CASE UNCHANGED <<work, clientVars, lingering>>
    <2>1. TypeOK'
      BY <1>1, <1>2, <1>6 DEF Good, TypeOK, sessionVars, clientVars
    <2>2. PairsWhole'
      BY <1>1, <1>6, PairsKept DEF Good, sessionVars
    <2>3. \A h \in Gens : UnderWay(h)' => UnderWay(h)
      BY <1>1, <1>3, <1>6 DEF UnderWay
    <2>4. Fresh' /\ Heard'
      BY <1>1, <1>6, <2>3 DEF Good, Fresh, Heard, Connected, sessionVars, clientVars
    <2> QED BY <1>2, <1>4, <2>1, <2>2, <2>4 DEF Good
  <1> QED BY <1>5, <1>6 DEF WriteCreated

\* The PCM completes its pair.
LEMMA WritePcmGood == ASSUME Good, NEW g \in Gens, WritePcm(g) PROVE Good'
  <1>1. /\ lock = g /\ Connected /\ lock' = NoGen /\ pairs' = [pairs EXCEPT ![g] = pairs[g] + 1]
        /\ sdk' = [sdk EXCEPT !.pending = NoGen]
        /\ UNCHANGED <<sessionVars, opening, work, reader, updates, lost, state, told, lingering>>
    BY DEF WritePcm
  <1>2. pairs' \in [Gens -> 0 .. MaxPairs]
    <2>1. pairs \in [Gens -> 0 .. MaxPairs] /\ pairs[g] < MaxPairs
      BY <1>1 DEF Good, TypeOK, Begun
    <2>2. pairs[g] + 1 \in 0 .. MaxPairs
      BY <2>1
    <2> QED BY <1>1, <2>1, <2>2
  <1>3. /\ sdk' \in [gen : Gens \cup {NoGen}, pending : Gens \cup {NoGen}]
        /\ sdk'.pending = NoGen
    BY <1>1, Types DEF Good
  <1>4. TypeOK' /\ Begun'
    BY <1>1, <1>2, <1>3 DEF Good, TypeOK, Begun, sessionVars
  <1>5. PairsWhole'
    BY <1>1, <1>3 DEF PairsWhole, Connected
  <1>6. Lives' /\ Fresh' /\ Heard'
    BY <1>1 DEF Good, Lives, Fresh, Heard, UnderWay, Connected, sessionVars
  <1> QED BY <1>4, <1>5, <1>6 DEF Good

\* A pair is torn only by the end of its generation.
LEMMA PcmFailsGood == ASSUME Good, NEW g \in Gens, PcmFails(g) PROVE Good'
  <1>1. /\ lock = g /\ g \in ended /\ Connected /\ lock' = NoGen /\ Becomes(g, "speech", "gone")
        /\ lost' \in {"no", "dropped"}
        /\ UNCHANGED <<sessionVars, opening, pairs, reader, updates, sdk, state, told, lingering>>
    BY DEF PcmFails
  <1>2. /\ work' \in [Gens -> [Workers -> WorkState]] /\ work'[g]["speech"] = "gone"
        /\ \A h \in Gens, x \in Workers : h # g \/ x # "speech" => work'[h][x] = work[h][x]
    <2>1. "speech" \in Workers /\ "gone" \in WorkState
      BY DEF WorkState
    <2> QED BY <1>1, <2>1, Became DEF Good
  <1>3. TypeOK' /\ Begun'
    <2>1. TypeOK'
      BY <1>1, <1>2 DEF Good, TypeOK, WorkState, sessionVars
    <2> QED BY <1>1, <2>1 DEF Good, Begun
  <1>4. PairsWhole'
    BY <1>1 DEF Good, PairsWhole, sessionVars
  <1>5. work[g]["speech"] # "none"
    BY <1>1 DEF Good, Begun
  <1>6. Lives' /\ Fresh'
    BY <1>1, <1>2, <1>5 DEF Good, Lives, Fresh, sessionVars
  <1>7. \A h \in Gens : UnderWay(h)' => UnderWay(h)
    BY <1>1, <1>2 DEF UnderWay
  <1>8. Heard'
    BY <1>1, <1>2, <1>5, <1>7 DEF Good, Heard, Connected, sessionVars
  <1> QED BY <1>3, <1>4, <1>6, <1>8 DEF Good

-----------------------------------------------------------------------------
(* What always holds.                                                      *)

\* At the start.
LEMMA InitGood == Init => Good
  <1> SUFFICES ASSUME Init PROVE Good
    OBVIOUS
  <1>1. TypeOK
    <2>1. work \in [Gens -> [Workers -> {"none", "run", "done", "error", "failing", "telling", "gone"}]]
      BY DEF Init
    <2>2. /\ kind \in [Gens -> KindSet] /\ pairs \in [Gens -> 0 .. MaxPairs]
          /\ state \in [Gens -> {"unknown", "generating", "done", "cancelled", "failed"}]
      BY DEF Init, KindSet
    <2>3. /\ reader \in [doing : {"idle", "open", "cancel"}, gen : Gens \cup {NoGen}]
          /\ sdk \in [gen : Gens \cup {NoGen}, pending : Gens \cup {NoGen}]
      BY DEF Init, Idle
    <2>4. /\ opening \subseteq Gens /\ ended \subseteq Gens
          /\ cur \in Gens \cup {NoGen} /\ suspected \in {NoGen, cur}
      BY DEF Init
    <2>5. created \in 0 .. MaxGens /\ marked \in BOOLEAN
      <3>1. created = 0 /\ marked = FALSE
        BY DEF Init
      <3>2. created \in 0 .. MaxGens
        BY <3>1
      <3>3. marked \in BOOLEAN
        BY <3>1, Zenon
      <3> QED BY <3>2, <3>3
    <2>6. /\ updates \in Seq(Gens) /\ lock \in Gens \cup {NoGen}
          /\ lost \in {"no", "dropped", "protocol"} /\ told \subseteq Gens /\ lingering \subseteq Gens
      BY DEF Init
    <2> HIDE DEF Gens, NoGen, Workers
    <2> QED BY <2>1, <2>2, <2>3, <2>4, <2>5, <2>6 DEF TypeOK
  <1>2. PairsWhole /\ Begun /\ Lives
    BY DEF Init, PairsWhole, Begun, Lives, Idle
  <1>3. Fresh /\ Heard
    BY DEF Init, Fresh, Heard, UnderWay, Idle
  <1> QED BY <1>1, <1>2, <1>3 DEF Good

\* Every step keeps it.
LEMMA NextGood == Good /\ [Next]_vars => Good'
  <1> SUFFICES ASSUME Good, [Next]_vars PROVE Good'
    OBVIOUS
  <1>1. CASE UNCHANGED vars
    BY <1>1 DEF vars, Good, TypeOK, PairsWhole, Begun, Lives, Fresh, Heard, UnderWay, Connected
  <1>2. CASE Requests
    BY <1>2, CreateByReaderGood, CreateByVoiceGood, SuspectGood, ConfirmGood, ClientCancelsGood,
       OverflowGood DEF Requests
  <1>3. CASE Writes
    BY <1>3, WriteReaderCancelledGood, WriteUpdateGood, WriteCreatedGood, WriteMetadataGood,
       WritePcmGood, PcmFailsGood, LlmEndsGood DEF Writes
  <1>4. CASE \E g \in Gens, w \in Workers : Ends(g, w) \/ Fails(g, w)
    BY <1>4, MarkDoneGood, WriteDoneGood, WriteErrorGood, CancelFailedGood, WriteCancelledGood,
       StopsGood, FailsGood DEF Ends, Finishes
  <1> QED BY <1>1, <1>2, <1>3, <1>4 DEF Next

\* Whatever the bounds and kinds of generations: types, whole pairs, and who is told what.
THEOREM WireInductive == Spec => []Good
  <1> QED BY InitGood, NextGood, PTL DEF Spec

-----------------------------------------------------------------------------
(* After generation.cancelled nothing more.                                *)

\* What the client turns to was not cancelled.
Turns ==
  /\ sdk'.gen # sdk.gen => sdk'.gen \notin told
  /\ sdk'.pending # sdk.pending => sdk'.pending \notin told

\* A frame turns the client only to what opens, or to audio of what lives.
LEMMA FrameTurns ==
  ASSUME Good, Writable, NEW what \in Frames, NEW g \in Gens, Deliver(what, g),
         what = "created" => g \in opening /\ (kind[g] = "client" \/ g \notin ended),
         what = "metadata" => g \notin ended
  PROVE  Turns
  <1>1. /\ what = "created" => g \notin told
        /\ what = "metadata" => g \notin told
    BY DEF Good, Heard
  <1>2. NoGen \notin told
    BY Types DEF Good
  <1>3. /\ sdk'.gen # sdk.gen => what = "created" /\ sdk'.gen = g
        /\ sdk'.pending # sdk.pending => sdk'.pending = NoGen \/ (what = "metadata" /\ sdk'.pending = g)
    BY Delivered DEF Good
  <1> QED BY <1>1, <1>2, <1>3 DEF Turns

\* No worker turns the client to a cancelled generation.
LEMMA WorkTurns ==
  ASSUME Good, NEW g \in Gens, NEW w \in Workers, Ends(g, w) \/ Fails(g, w)
  PROVE  Turns
  <1>1. UNCHANGED clientVars => Turns
    BY DEF clientVars, Turns
  <1>2. CASE WriteDone(g, w)
    BY <1>1, <1>2, FrameTurns DEF WriteDone, Frames
  <1>3. CASE WriteError(g, w)
    BY <1>1, <1>3, FrameTurns DEF WriteError, Frames
  <1>4. CASE WriteCancelled(g, w)
    BY <1>4, FrameTurns DEF WriteCancelled, Frames
  <1>5. CASE MarkDone(g, w) \/ CancelFailed(g, w) \/ Stops(g, w) \/ Fails(g, w)
    BY <1>1, <1>5 DEF MarkDone, CancelFailed, Stops, Fails
  <1> QED BY <1>2, <1>3, <1>4, <1>5 DEF Ends, Finishes

\* Nobody does.
LEMMA NextTurns == Good /\ [Next]_vars => Turns
  <1> SUFFICES ASSUME Good, [Next]_vars PROVE Turns
    OBVIOUS
  <1>0. UNCHANGED clientVars => Turns
    BY DEF clientVars, Turns
  <1>1. CASE UNCHANGED vars
    BY <1>0, <1>1 DEF vars, clientVars
  <1>2. CASE Requests
    BY <1>0, <1>2 DEF Requests, CreateByReader, CreateByVoice, Suspect, Confirm, ClientCancels, Overflow
  <1>3. CASE WriteReaderCancelled
    <2>1. reader.gen \in Gens
      BY <1>3, Types DEF WriteReaderCancelled, Good, Begun
    <2> QED BY <1>3, <2>1, FrameTurns DEF WriteReaderCancelled, Frames
  <1>4. CASE WriteUpdate
    <2>1. Head(updates) \in Gens
      BY <1>4, Types DEF WriteUpdate, Good
    <2> QED BY <1>4, <2>1, FrameTurns DEF WriteUpdate, Frames
  <1>5. ASSUME NEW g \in Gens, WriteCreated(g)
        PROVE  Turns
    BY <1>0, <1>5, FrameTurns DEF WriteCreated, Frames
  <1>6. ASSUME NEW g \in Gens, WriteMetadata(g)
        PROVE  Turns
    BY <1>6, FrameTurns DEF WriteMetadata, Frames
  <1>7. ASSUME NEW g \in Gens, WritePcm(g)
        PROVE  Turns
    <2>1. NoGen \notin told
      BY Types DEF Good
    <2>2. sdk'.gen = sdk.gen /\ sdk'.pending = NoGen
      BY <1>7, Types DEF WritePcm, Good
    <2> QED BY <2>1, <2>2 DEF Turns
  <1>8. ASSUME NEW g \in Gens, PcmFails(g) \/ LlmEnds(g)
        PROVE  Turns
    BY <1>8 DEF PcmFails, LlmEnds, clientVars, Turns
  <1>9. CASE Writes
    BY <1>3, <1>4, <1>5, <1>6, <1>7, <1>8, <1>9 DEF Writes
  <1>10. CASE \E g \in Gens, w \in Workers : Ends(g, w) \/ Fails(g, w)
    BY <1>10, WorkTurns
  <1> QED BY <1>1, <1>2, <1>9, <1>10 DEF Next

\* Whoever wrote generation.cancelled, and whatever the other goroutines still had to
\* write: that generation is not announced afterwards, and no audio of it comes.
THEOREM CancelledIsSilent == Spec => NothingAfterCancelled
  <1>1. Good /\ [Next]_vars =>
           [/\ sdk'.gen # sdk.gen => sdk'.gen \notin told
            /\ sdk'.pending # sdk.pending => sdk'.pending \notin told]_vars
    BY NextTurns DEF Turns
  <1> QED BY <1>1, WireInductive, PTL DEF Spec, NothingAfterCancelled

-----------------------------------------------------------------------------
(* The client and the session come to agree.                               *)

\* A step the client does not see, and in which no generation starts or ends.
LEMMA AgreeUnseen ==
  ASSUME Good, Agree, UNCHANGED <<created, cur, ended, opening, clientVars, lingering>>,
         Finished', marked => marked',
         cur # NoGen => \A w \in Workers : work[cur][w] = "failing" => work'[cur][w] = "failing",
         \A h \in Gens : UnderWay(h) => UnderWay(h)'
  PROVE  Agree'
  <1>1. One => One'
    BY DEF One, clientVars
  <1>2. Live => Live'
    BY DEF Live, clientVars
  <1>3. Stale => Stale'
    BY DEF Stale, clientVars
  <1> QED BY <1>1, <1>2, <1>3 DEF Agree, Connected, clientVars

\* The live generation ends, and the client is about to hear of it.
LEMMA AgreeCancelling ==
  ASSUME Good, Agree, NEW g \in Gens, cur = g, CancelCurrent,
         UNCHANGED <<created, opening, clientVars>>, lingering \subseteq lingering',
         g \in opening /\ sdk.gen # NoGen => sdk.gen \in lingering',
         UnderWay(g)', \A h \in Gens : UnderWay(h) => UnderWay(h)'
  PROVE  Agree'
  <1>1. cur' = NoGen
    BY DEF CancelCurrent
  <1>2. Finished' /\ Live'
    BY <1>1 DEF Finished, Live
  <1>3. One => One'
    BY DEF One, clientVars
  <1>4. CASE g \notin opening \/ ~Connected
    <2>1. Connected /\ Stale => Stale'
      BY <1>4 DEF Stale, clientVars
    <2> QED BY <1>2, <1>3, <2>1 DEF Agree, Connected, clientVars
  <1>5. CASE g \in opening /\ sdk.gen # NoGen
    BY <1>2, <1>3, <1>5 DEF Agree, Connected, clientVars
  <1>6. CASE g \in opening /\ sdk.gen = NoGen /\ Connected
    <2>1. Stale'
      BY <1>6 DEF Agree, One, Stale, clientVars
    <2> QED BY <1>2, <1>3, <2>1 DEF Agree, Connected, clientVars
  <1> QED BY <1>4, <1>5, <1>6

\* A generation starts: it is still to be announced.
LEMMA AgreeBeginning ==
  ASSUME Good, Agree, NEW k, Begin(k), UNCHANGED <<work, clientVars, lingering>>
  PROVE  Agree'
  <1>1. /\ created' = created + 1 /\ cur' = created + 1 /\ created + 1 \in Gens
        /\ created + 1 \in opening' /\ created + 1 > created
    BY Types DEF Good, Begin
  <1>2. Finished'
    BY <1>1 DEF Good, Fresh, Finished
  <1>3. Live' /\ Stale'
    BY <1>1 DEF Live, Stale
  <1>4. One => One'
    BY DEF One, clientVars
  <1> QED BY <1>2, <1>3, <1>4 DEF Agree, Connected, clientVars

\* A frame that announces nothing.
LEMMA AgreeWriting ==
  ASSUME Good, Agree, Writable, NEW what \in Frames \ {"created"}, NEW g \in Gens,
         Deliver(what, g), UNCHANGED <<sessionVars, opening, lingering>>, Finished',
         what = "done" /\ g = cur => marked,
         what = "failed" => \E w \in Workers : work'[g][w] = "failing",
         what = "cancelled" => g \in ended,
         cur # NoGen => \A w \in Workers : work[cur][w] = "failing" => work'[cur][w] = "failing",
         \A h \in Gens : UnderWay(h) => UnderWay(h)' \/ (what = "cancelled" /\ h = g)
  PROVE  Agree'
  <1>1. CASE sdk.pending # NoGen
    BY <1>1, Delivered DEF Good, Agree, Connected
  <1>2. CASE sdk.pending = NoGen
    <2>1. sdk'.gen = sdk.gen /\ Connected
      BY <1>2, Delivered DEF Good, Writable
    <2>2. \A h \in Gens : \/ /\ state'[h] = state[h]
                             /\ ~(what = "cancelled" /\ h = g /\ h = sdk.gen /\ state[h] = "generating")
                          \/ /\ h = g /\ h = sdk.gen /\ state[h] = "generating"
                             /\ state'[h] = what /\ what \in {"done", "cancelled", "failed"}
      <3>1. what = "metadata" \/ what \in {"done", "cancelled", "failed"}
        BY DEF Frames
      <3> QED BY <1>2, <3>1, Delivered DEF Good
    <2>3. One => One'
      BY <2>1, <2>2 DEF One
    <2>4. Live => Live'
      <3> SUFFICES ASSUME Live, cur # NoGen, cur \notin opening
                   PROVE  /\ sdk.gen = cur
                          /\ \/ state'[cur] = "generating" \/ marked
                             \/ \E w \in Workers : work'[cur][w] = "failing"
        BY <2>1 DEF Live, sessionVars
      <3>1. cur \in Gens /\ cur \notin ended
        BY Types DEF Good, Lives
      <3>2. /\ sdk.gen = cur
            /\ \/ state[cur] = "generating" \/ marked
               \/ \E w \in Workers : work'[cur][w] = "failing"
        BY DEF Live
      <3>3. CASE state[cur] = "generating"
        BY <2>2, <3>1, <3>2, <3>3
      <3> QED BY <3>2, <3>3
    <2>5. One /\ Stale => Stale'
      <3> SUFFICES ASSUME One, Stale, NEW h \in Gens, state'[h] = "generating", h # cur
                   PROVE  (cur = created /\ cur \in opening) \/ UnderWay(h)'
        BY DEF Stale, sessionVars
      <3>1. state[h] = "generating" /\ ~(what = "cancelled" /\ h = g)
        BY <2>2 DEF One
      <3> QED BY <3>1 DEF Stale
    <2> QED BY <2>1, <2>3, <2>4, <2>5 DEF Agree
  <1> QED BY <1>1, <1>2

\* A worker's step, as far as it matters for the client.
LEMMA WorkAgrees ==
  ASSUME Good, Agree, NEW g \in Gens, NEW w \in Workers, NEW s \in WorkState, Becomes(g, w, s),
         work[g][w] # "none", UNCHANGED <<cur, updates, reader>>, marked => marked',
         cur = g /\ s = "done" => marked'
  PROVE  /\ Finished'
         /\ cur # NoGen /\ (cur = g => work[g][w] # "failing") =>
              \A x \in Workers : work[cur][x] = "failing" => work'[cur][x] = "failing"
         /\ \A h \in Gens : UnderWay(h) => UnderWay(h)' \/ (h = g /\ work[g][w] = "telling")
         /\ s = "telling" => UnderWay(g)'
         /\ s = "failing" => \E x \in Workers : work'[g][x] = "failing"
  <1>1. /\ work'[g][w] = s
        /\ \A h \in Gens, x \in Workers : h # g \/ x # w => work'[h][x] = work[h][x]
    BY Became DEF Good
  <1>2. cur # NoGen => cur \in Gens
    BY Types DEF Good
  <1>3. Finished'
    BY <1>1, <1>2 DEF Agree, Finished
  <1>4. cur # NoGen /\ (cur = g => work[g][w] # "failing") =>
          \A x \in Workers : work[cur][x] = "failing" => work'[cur][x] = "failing"
    BY <1>1, <1>2
  <1> QED BY <1>1, <1>3, <1>4, WorkMoved

\* A worker at work or over it ends in silence.
LEMMA WorkUnseen ==
  ASSUME Good, Agree, NEW g \in Gens, NEW w \in Workers, NEW s \in WorkState, Becomes(g, w, s),
         work[g][w] \in {"run", "done", "error"} \/ (work[g][w] = "failing" /\ cur # g),
         marked => marked', cur = g /\ s = "done" => marked',
         UNCHANGED <<created, cur, ended, opening, updates, reader, clientVars, lingering>>
  PROVE  Agree'
  <1>1. work[g][w] # "none" /\ work[g][w] # "telling" /\ (cur = g => work[g][w] # "failing")
    OBVIOUS
  <1> QED BY <1>1, WorkAgrees, AgreeUnseen

\* Who is to write generation.done has marked it.
LEMMA MarkDoneAgrees ==
  ASSUME Good, Agree, NEW g \in Gens, NEW w \in Workers, MarkDone(g, w)
  PROVE  Agree'
  <1>1. /\ work[g][w] = "run"
        /\ UNCHANGED <<created, cur, ended, opening, updates, reader, clientVars, lingering>>
    BY DEF MarkDone
  <1>2. CASE cur = g /\ g \notin ended /\ ~marked
    BY <1>1, <1>2, WorkUnseen DEF MarkDone, WorkState
  <1>3. CASE ~(cur = g /\ g \notin ended /\ ~marked)
    BY <1>1, <1>3, WorkUnseen DEF MarkDone, WorkState
  <1> QED BY <1>2, <1>3

\* Workers that stop or fail in silence leave the agreement alone.
LEMMA QuietWorkAgrees ==
  ASSUME Good, Agree, NEW g \in Gens, NEW w \in Workers,
         Stops(g, w) \/ Fails(g, w) \/ (w = "llm" /\ LlmEnds(g))
  PROVE  Agree'
  <1>1. /\ work[g][w] = "run" /\ (Becomes(g, w, "gone") \/ Becomes(g, w, "error"))
        /\ UNCHANGED <<sessionVars, opening, updates, reader, clientVars, lingering>>
    BY DEF Stops, Fails, LlmEnds
  <1> QED BY <1>1, WorkUnseen DEF WorkState, sessionVars

\* The worker that cancels its generation is the one to tell.
LEMMA CancelFailedAgrees ==
  ASSUME Good, Agree, NEW g \in Gens, NEW w \in Workers, CancelFailed(g, w)
  PROVE  Agree'
  <1>1. /\ work[g][w] = "failing"
        /\ UNCHANGED <<created, opening, marked, reader, updates, clientVars, lingering>>
    BY DEF CancelFailed
  <1>2. CASE cur = g
    <2>1. CancelCurrent /\ Becomes(g, w, "telling") /\ "telling" \in WorkState
      BY <1>2 DEF CancelFailed, WorkState
    <2>2. /\ UnderWay(g)' /\ \A h \in Gens : UnderWay(h) => UnderWay(h)'
      BY <1>1, <2>1, WorkMoved
    <2>3. g \notin opening
      BY <1>1 DEF Good, Fresh
    <2> QED BY <1>1, <1>2, <2>1, <2>2, <2>3, AgreeCancelling
  <1>3. CASE cur # g
    BY <1>1, <1>3, WorkUnseen DEF CancelFailed, WorkState
  <1> QED BY <1>2, <1>3

\* Settled as done only when marked.
LEMMA WriteDoneAgrees ==
  ASSUME Good, Agree, NEW g \in Gens, NEW w \in Workers, WriteDone(g, w)
  PROVE  Agree'
  <1>1. /\ work[g][w] = "done" /\ Writable /\ Becomes(g, w, "gone") /\ "gone" \in WorkState
        /\ UNCHANGED <<sessionVars, opening, reader, updates, lingering>>
    BY DEF WriteDone, WorkState
  <1>2. g = cur => marked
    BY <1>1 DEF Agree, Finished
  <1>3. CASE UNCHANGED clientVars
    BY <1>1, <1>3, WorkUnseen DEF sessionVars
  <1>4. CASE Deliver("done", g)
    <2>1. /\ Finished' /\ \A h \in Gens : UnderWay(h) => UnderWay(h)'
          /\ cur # NoGen =>
               \A x \in Workers : work[cur][x] = "failing" => work'[cur][x] = "failing"
      BY <1>1, WorkAgrees DEF sessionVars
    <2>2. "done" \in Frames \ {"created"}
      BY DEF Frames
    <2> QED BY <1>1, <1>2, <1>4, <2>1, <2>2, AgreeWriting
  <1> QED BY <1>3, <1>4 DEF WriteDone

\* Settled as failed only by a worker that goes on to cancel.
LEMMA WriteErrorAgrees ==
  ASSUME Good, Agree, NEW g \in Gens, NEW w \in Workers, WriteError(g, w)
  PROVE  Agree'
  <1>1. /\ work[g][w] = "error" /\ Writable /\ Becomes(g, w, "failing") /\ "failing" \in WorkState
        /\ UNCHANGED <<sessionVars, opening, reader, updates, lingering>>
    BY DEF WriteError, WorkState
  <1>2. CASE UNCHANGED clientVars
    BY <1>1, <1>2, WorkUnseen DEF sessionVars
  <1>3. CASE Deliver("failed", g)
    <2>1. /\ Finished' /\ \A h \in Gens : UnderWay(h) => UnderWay(h)'
          /\ \E x \in Workers : work'[g][x] = "failing"
          /\ cur # NoGen =>
               \A x \in Workers : work[cur][x] = "failing" => work'[cur][x] = "failing"
      BY <1>1, WorkAgrees DEF sessionVars
    <2>2. "failed" \in Frames \ {"created"}
      BY DEF Frames
    <2> QED BY <1>1, <1>3, <2>1, <2>2, AgreeWriting
  <1> QED BY <1>2, <1>3 DEF WriteError

\* Settled as cancelled only when ended, by the worker...
LEMMA WriteCancelledAgrees ==
  ASSUME Good, Agree, NEW g \in Gens, NEW w \in Workers, WriteCancelled(g, w)
  PROVE  Agree'
  <1>1. /\ work[g][w] = "telling" /\ Writable /\ Becomes(g, w, "gone") /\ "gone" \in WorkState
        /\ Deliver("cancelled", g)
        /\ UNCHANGED <<sessionVars, opening, reader, updates, lingering>>
    BY DEF WriteCancelled, WorkState
  <1>2. g \in ended
    BY <1>1 DEF Good, Heard, UnderWay
  <1>3. /\ Finished' /\ \A h \in Gens : UnderWay(h) => UnderWay(h)' \/ h = g
        /\ cur # NoGen =>
             \A x \in Workers : work[cur][x] = "failing" => work'[cur][x] = "failing"
    BY <1>1, WorkAgrees DEF sessionVars
  <1>4. "cancelled" \in Frames \ {"created"}
    BY DEF Frames
  <1> QED BY <1>1, <1>2, <1>3, <1>4, AgreeWriting

\* ...by the reader...
LEMMA WriteReaderCancelledAgrees == ASSUME Good, Agree, WriteReaderCancelled PROVE Agree'
  <1>1. /\ reader.doing = "cancel" /\ Writable /\ Deliver("cancelled", reader.gen)
        /\ reader' = Idle /\ UNCHANGED <<sessionVars, opening, work, updates, lingering>>
    BY DEF WriteReaderCancelled
  <1>2. PICK g \in Gens : g = reader.gen
    BY <1>1, Types DEF Good, Begun
  <1>3. g \in ended /\ "cancelled" \in Frames \ {"created"}
    BY <1>1, <1>2 DEF Good, Heard, UnderWay, Frames
  <1>4. Finished' /\ \A h \in Gens : UnderWay(h) => UnderWay(h)' \/ h = g
    BY <1>1, <1>2 DEF Agree, Finished, UnderWay, sessionVars
  <1> QED BY <1>1, <1>2, <1>3, <1>4, AgreeWriting

\* ...or by the consumer of the updates.
LEMMA WriteUpdateAgrees == ASSUME Good, Agree, WriteUpdate PROVE Agree'
  <1>1. /\ updates # <<>> /\ Writable /\ Deliver("cancelled", Head(updates))
        /\ updates' = Tail(updates) /\ UNCHANGED <<sessionVars, opening, work, reader, lingering>>
    BY DEF WriteUpdate
  <1>2. PICK g \in Gens : g = Head(updates)
    BY <1>1, Types DEF Good
  <1>3. /\ UnderWay(g) /\ \A h \in Gens : UnderWay(h) => UnderWay(h)' \/ h = g
    BY <1>1, <1>2, UpdateTaken DEF Good
  <1>4. g \in ended /\ "cancelled" \in Frames \ {"created"}
    BY <1>3 DEF Good, Heard, Frames
  <1>5. Finished'
    BY <1>1 DEF Agree, Finished, sessionVars
  <1> QED BY <1>1, <1>2, <1>3, <1>4, <1>5, AgreeWriting

\* Audio settles nothing.
LEMMA PairAgrees ==
  ASSUME Good, Agree, NEW g \in Gens, WriteMetadata(g) \/ WritePcm(g) \/ PcmFails(g)
  PROVE  Agree'
  <1>1. CASE WriteMetadata(g)
    <2>1. /\ "metadata" \in Frames \ {"created"} /\ Finished'
          /\ \A h \in Gens : UnderWay(h) => UnderWay(h)'
      BY <1>1 DEF WriteMetadata, Frames, Agree, Finished, UnderWay, sessionVars
    <2> QED BY <1>1, <2>1, AgreeWriting DEF WriteMetadata
  <1>2. CASE WritePcm(g)
    <2>1. /\ sdk'.gen = sdk.gen
          /\ UNCHANGED <<sessionVars, opening, work, reader, updates, lost, state, lingering>>
      BY <1>2, Types DEF WritePcm, Good
    <2>2. Finished' /\ (One => One') /\ (Live => Live') /\ (Stale => Stale')
      BY <2>1 DEF Agree, Finished, One, Live, Stale, UnderWay, sessionVars
    <2> QED BY <2>1, <2>2 DEF Agree, Connected
  <1>3. CASE PcmFails(g)
    <2>1. /\ work[g]["speech"] = "run" /\ Becomes(g, "speech", "gone") /\ "gone" \in WorkState
          /\ Connected /\ UNCHANGED <<sessionVars, opening, reader, updates, sdk, state, lingering>>
      BY <1>3 DEF PcmFails, Good, Begun, WorkState
    <2>2. /\ Finished' /\ \A h \in Gens : UnderWay(h) => UnderWay(h)'
          /\ cur # NoGen =>
               \A x \in Workers : work[cur][x] = "failing" => work'[cur][x] = "failing"
      BY <2>1, WorkAgrees DEF sessionVars
    <2>3. One => One'
      BY <2>1 DEF One
    <2>4. Live => Live'
      BY <2>1, <2>2 DEF Live, sessionVars
    <2>5. Stale => Stale'
      BY <2>1, <2>2 DEF Stale, sessionVars
    <2> QED BY <2>1, <2>2, <2>3, <2>4, <2>5 DEF Agree
  <1> QED BY <1>1, <1>2, <1>3

\* Announced alive, a generation is the one the client follows; announced after its end
\* it lingers; and not announced, a later one will be.
LEMMA WriteCreatedAgrees == ASSUME Good, Agree, NEW g \in Gens, WriteCreated(g) PROVE Agree'
  <1>1. /\ g \in opening /\ Writable /\ opening' = opening \ {g}
        /\ reader' = IF reader = [doing |-> "open", gen |-> g] THEN Idle ELSE reader
        /\ UNCHANGED <<sessionVars, pairs, updates, lock>>
    BY DEF WriteCreated
  <1>2. reader.doing = "cancel" => reader' = reader
    BY <1>1
  <1>3. CASE kind[g] = "client" \/ g \notin ended
    <2>0. Deliver("created", g) /\ lingering' = IF g \in ended THEN lingering \cup {g} ELSE lingering
      BY <1>3 DEF WriteCreated
    <2>1. "created" \in Frames /\ (cur # NoGen => cur \in Gens)
      BY Types DEF Frames, Good
    <2>2. \A w \in Workers : cur # NoGen /\ work'[cur][w] = "done" => work[cur][w] = "done"
      <3> DEFINE run == [speech |-> IF kind[g] = "text" THEN "gone" ELSE "run",
                         llm |-> IF kind[g] = "client" THEN "gone" ELSE "run"]
      <3>1. work' = [work EXCEPT ![g] = run] \/ work' = work
        BY <1>3 DEF WriteCreated, clientVars
      <3>2. \A w \in Workers : run[w] # "done"
        OBVIOUS
      <3>3. work \in [Gens -> [Workers -> WorkState]]
        BY Types DEF Good
      <3> HIDE DEF run
      <3> QED BY <2>1, <3>1, <3>2, <3>3
    <2>3. Finished'
      BY <1>1, <2>2 DEF Agree, Finished, sessionVars
    <2>4. CASE Connected'
      <3>1. /\ sdk'.gen = g /\ state'[g] = "generating" /\ Connected
            /\ \A h \in Gens : h # g =>
                 state'[h] = IF h = sdk.gen /\ state[h] = "generating" THEN "cancelled"
                             ELSE state[h]
        BY <1>1, <2>0, <2>1, <2>4, Delivered DEF Good, Writable, Connected
      <3>2. \A h \in Gens : h # g => state'[h] # "generating"
        BY <3>1 DEF Agree, One
      <3>3. One'
        BY <3>1, <3>2 DEF One
      <3>4. CASE g \in ended
        BY <2>0, <2>3, <3>1, <3>3, <3>4 DEF Agree
      <3>5. CASE g \notin ended
        <4>1. cur = g
          BY <1>1, <3>5, Types DEF Good, Lives
        <4>2. Live' /\ Stale'
          BY <1>1, <3>1, <3>2, <4>1 DEF Live, Stale, sessionVars
        <4> QED BY <2>3, <3>3, <4>2 DEF Agree
      <3> QED BY <3>4, <3>5
    <2> QED BY <2>3, <2>4 DEF Agree
  <1>4. CASE ~(kind[g] = "client" \/ g \notin ended)
    <2>0. UNCHANGED <<work, clientVars, lingering>> /\ g \in ended
      BY <1>4 DEF WriteCreated
    <2>1. \A h \in Gens : UnderWay(h) => UnderWay(h)'
      BY <1>1, <1>2, <2>0 DEF UnderWay
    <2>2. cur # g
      BY <1>1, <2>0, Types DEF Good, Lives
    <2>3. Finished' /\ (One => One')
      BY <1>1, <2>0 DEF Agree, Finished, One, sessionVars, clientVars
    <2>4. Live => Live'
      BY <1>1, <2>0, <2>2 DEF Live, sessionVars, clientVars
    <2>5. Stale => Stale'
      BY <1>1, <2>0, <2>1, <2>2 DEF Stale, sessionVars, clientVars
    <2> QED BY <2>0, <2>3, <2>4, <2>5 DEF Agree, Connected, clientVars
  <1> QED BY <1>3, <1>4

\* Either way of opening a generation leaves it to be announced.
LEMMA BeginAgrees ==
  ASSUME Good, Agree, CreateByVoice \/ \E k \in Kinds : CreateByReader(k)
  PROVE  Agree'
  <1>1. PICK k : Begin(k) /\ UNCHANGED <<work, clientVars, lingering>>
    BY DEF CreateByVoice, CreateByReader
  <1> QED BY <1>1, AgreeBeginning

\* A suspicion is not yet an end.
LEMMA SuspectAgrees == ASSUME Good, Agree, Suspect PROVE Agree'
  <1>1. Finished' /\ \A h \in Gens : UnderWay(h) => UnderWay(h)'
    BY DEF Suspect, Agree, Finished, UnderWay
  <1> QED BY <1>1, AgreeUnseen DEF Suspect

\* Whoever cancels the live generation has the client told, if there is a turn detector.
LEMMA CancelAgrees ==
  ASSUME HasInput, Good, Agree, Confirm \/ \E g \in Gens : ClientCancels(g) \/ Overflow(g)
  PROVE  Agree'
  <1>1. CASE Confirm
    <2>1. /\ CancelCurrent /\ suspected # NoGen /\ Connected /\ updates' = Append(updates, cur)
          /\ UNCHANGED <<created, opening, work, reader, clientVars, lingering>>
      BY <1>1 DEF Confirm
    <2>2. PICK g \in Gens : cur = g /\ suspected = g
      BY <2>1, Types DEF Good
    <2>3. g \notin opening
      BY <2>1, <2>2 DEF Good, Heard, Fresh
    <2> QED BY <2>1, <2>2, <2>3, UpdateAppended, AgreeCancelling DEF Good
  <1>2. ASSUME NEW g \in Gens, ClientCancels(g)
        PROVE  Agree'
    <2>1. /\ CancelCurrent /\ cur = g /\ reader = Idle /\ reader' = [doing |-> "cancel", gen |-> g]
          /\ lingering' = IF g \in opening THEN lingering \cup ({sdk.gen} \ {NoGen}) ELSE lingering
          /\ UNCHANGED <<created, opening, work, updates, clientVars>>
      BY <1>2 DEF ClientCancels
    <2>2. UnderWay(g)' /\ \A h \in Gens : UnderWay(h) => UnderWay(h)'
      BY <2>1 DEF UnderWay, Idle
    <2>3. /\ lingering \subseteq lingering'
          /\ g \in opening /\ sdk.gen # NoGen => sdk.gen \in lingering'
      BY <2>1
    <2> QED BY <2>1, <2>2, <2>3, AgreeCancelling
  <1>3. ASSUME NEW g \in Gens, Overflow(g)
        PROVE  Agree'
    <2>1. /\ CancelCurrent /\ cur = g /\ updates' = Append(updates, g) /\ state[g] # "unknown"
          /\ UNCHANGED <<created, opening, work, reader, clientVars, lingering>>
      BY <1>3 DEF Overflow
    <2> QED BY <2>1, KnownIsAnnounced, UpdateAppended, AgreeCancelling DEF Good
  <1> QED BY <1>1, <1>2, <1>3

\* At the start there is nothing to agree about.
LEMMA InitAgrees == Init => Agree
  BY DEF Init, Agree, Finished, One, Live, Stale

\* Every step keeps the agreement, given a turn detector.
LEMMA NextAgrees == HasInput /\ Good /\ Agree /\ [Next]_vars => Agree'
  <1> SUFFICES ASSUME HasInput, Good, Agree, [Next]_vars PROVE Agree'
    OBVIOUS
  <1>1. CASE UNCHANGED vars
    BY <1>1 DEF vars, Agree, Finished, One, Live, Stale, UnderWay, Connected
  <1>2. CASE Requests
    BY <1>2, BeginAgrees, SuspectAgrees, CancelAgrees DEF Requests
  <1>3. CASE Writes
    <2>1. ASSUME NEW g \in Gens, LlmEnds(g)
          PROVE  Agree'
      <3>1. "llm" \in Workers
        OBVIOUS
      <3> QED BY <2>1, <3>1, QuietWorkAgrees
    <2> QED BY <1>3, <2>1, WriteReaderCancelledAgrees, WriteUpdateAgrees, WriteCreatedAgrees,
               PairAgrees DEF Writes
  <1>4. CASE \E g \in Gens, w \in Workers : Ends(g, w) \/ Fails(g, w)
    BY <1>4, MarkDoneAgrees, WriteDoneAgrees, WriteErrorAgrees, CancelFailedAgrees,
       WriteCancelledAgrees, QuietWorkAgrees DEF Ends, Finishes
  <1> QED BY <1>1, <1>2, <1>3, <1>4 DEF Next

\* Once nothing is under way, the client follows the live generation and no other.
LEMMA AgreeMeansClientAgrees == Good /\ Agree => ClientAgrees
  <1> SUFFICES ASSUME Good, Agree, Quiet, Connected, sdk.gen \notin lingering
               PROVE  /\ cur # NoGen => sdk.gen = cur /\ (state[cur] = "generating" \/ marked)
                      /\ \A g \in Gens : state[g] = "generating" => g = cur
    BY DEF ClientAgrees
  <1>1. \A g \in Gens : ~UnderWay(g)
    BY DEF Quiet, UnderWay, Idle
  <1>2. opening = {} /\ One /\ Live /\ Stale
    BY DEF Quiet, Agree
  <1>3. cur # NoGen => \A w \in Workers : work[cur][w] # "failing"
    BY Types DEF Quiet, Good
  <1> QED BY <1>1, <1>2, <1>3 DEF One, Live, Stale

\* With a turn detector configured, whatever the number of generations and the order in
\* which goroutines write: types, whole pairs, and a client that agrees with its session.
THEOREM WireAlwaysSound == HasInput => (Spec => []WireSound)
  <1> SUFFICES ASSUME HasInput PROVE Spec => []WireSound
    OBVIOUS
  <1>1. Init => Good /\ Agree
    BY InitGood, InitAgrees
  <1>2. Good /\ Agree /\ [Next]_vars => (Good /\ Agree)'
    BY NextGood, NextAgrees
  <1>3. Good /\ Agree => WireSound
    BY AgreeMeansClientAgrees DEF WireSound, Good
  <1> QED BY <1>1, <1>2, <1>3, PTL DEF Spec
=============================================================================
