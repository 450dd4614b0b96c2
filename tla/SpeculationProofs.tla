-------------------------- MODULE SpeculationProofs --------------------------
(***************************************************************************)
(* Proofs about Speculation for every bound: the worker, its successor,    *)
(* the answerer and the consumer share works safely (WorkersSound), what   *)
(* is heard of an adopted answer is that answer, whole and in order, and   *)
(* an answer to the conversation as it is (AnswerSound), and what is       *)
(* adopted for a turn was recognised from all of it (AdoptsWholeTurn).     *)
(*                                                                         *)
(* The invariant is written over the parts of a state rather than over the *)
(* variables: a handler that invalidates the work, silences the generation *)
(* and drops the answerer in one critical section is then the composition  *)
(* of three changes, each shown once to keep it.                           *)
(***************************************************************************)
EXTENDS Speculation, FiniteSetTheorems, SequenceTheorems, TLAPS

USE SpeculationAssumption

-----------------------------------------------------------------------------
(* The inductive invariant.  i is the input, ws the works, c the current   *)
(* work, a the answerer, g the generation, cl whether the session closed.  *)

InputRecord == [phase: {"listening", "speaking", "ended"}, turn: 0..MaxSpeech,
                starts: 0..MaxSpeech]

\* Valid, of the parts of a state.
ValidIn(ws, c, g, cl, w) ==
    /\ ~ws[w].cancelled /\ ~cl
    /\ IF ws[w].state = "promoted" THEN g.live /\ g.work = w
       ELSE c = w /\ (ws[w].committed \/ ws[w].fresh)

Running(k) == k.pc \notin {"none", "exited"}

\* The deltas of q come right after the first n.
Follows(n, q) == \A j \in 1..Len(q) : q[j] = n + j

\* What a consumer has read of work w, and what its worker has in hand.
Read(g, w) == IF g.stream = "spec" /\ g.work = w THEN Len(g.out) ELSE 0
Held(k) == IF k.pc = "full" THEN 1 ELSE 0

\* Work somebody may still listen to.
Feeds(k, g, w) ==
    /\ ~k.cancelled
    /\ \/ k.state = "open"
       \/ k.state = "promoted" /\ g.live /\ g.work = w /\ g.stream = "spec"

\* One work by itself: its worker's place tells what there is to adopt, and a
\* worker sleeps only over a full buffer.
WorkOK(k) ==
    /\ k \in WorkRecord
    /\ Len(k.deltas) <= Buffer
    /\ k.pc = "none" => k = NoWork
    /\ k.pc # "none" => k.state # "none"
    /\ k.state = "ended" => k.cancelled
    /\ k.state = "promoted" => k.ready /\ k.committed
    /\ k.pc \in {"stt", "open"} => ~k.ready
    /\ k.pc = "full" => k.state = "promoted" /\ 1 <= k.produced
    /\ k.terminal # "none" => k.pc \in {"exiting", "exited"}
    /\ k.pc = "full" /\ "worker" \in k.asleep /\ ~k.cancelled => Len(k.deltas) = Buffer

\* One work among the rest: fresh work has heard all the user said; a worker that
\* came past the recognition left something to adopt, or its work is void; what
\* was produced is buffered, read or in hand.
Placed(i, ws, c, g, cl, w) ==
    LET k == ws[w]
    IN  /\ k.fresh => k.starts = i.starts
        /\ k.pc \in {"recv", "full", "exiting", "exited"}
              => k.ready \/ ~ValidIn(ws, c, g, cl, w)
        /\ cl /\ k.pc # "none" => k.cancelled
        /\ Feeds(k, g, w)
              => Follows(Read(g, w), k.deltas)
                 /\ Read(g, w) + Len(k.deltas) + Held(k) = k.produced

\* Works are started in order, one worker at a time.
InOrder(ws) == \E n \in 0..MaxWorks : \A w \in Works : (ws[w].pc = "none") <=> (n < w)
AtMostOne(ws) == \A v, w \in Works : Running(ws[v]) /\ Running(ws[w]) => v = w

\* The answerer was started with work committed for the turn it answers, which
\* nobody else adopts, and sleeps only while that work may still become ready.
Answering(ws, c, a, g, cl) ==
    /\ a \in AnswererRecord
    /\ cl => ~a.live
    /\ a.pc \in {"promote", "wait", "waitDone"} => a.key # 0
    /\ a.key # 0 => ws[a.key].committed /\ ws[a.key].starts = a.starts
    /\ a.pc \in {"promote", "wait"} => ws[a.key].state # "promoted"
    /\ a.pc = "wait" /\ a.live /\ "answerer" \in ws[a.key].asleep
          => ~ws[a.key].ready /\ ValidIn(ws, c, g, cl, a.key)

\* What the generation says is one stream, from its start; the adopted one is
\* that of work promoted for it.
Consuming(ws, g, cl) ==
    /\ g \in GenRecord
    /\ cl => ~g.live
    /\ g.work # 0 => ws[g.work].state = "promoted"
    /\ g.stream = "none" => g.out = <<>>
    /\ g.stream = "fresh" => \A j \in 1..Len(g.out) : g.out[j] = 0
    /\ g.stream = "spec" =>
          /\ g.work # 0
          /\ ws[g.work].snap = g.request
          /\ Follows(0, g.out)
          /\ g.rx = "ended" => ws[g.work].cancelled /\ Len(g.out) = ws[g.work].produced
    /\ g.live /\ g.work # 0 /\ g.rx = "waiting" /\ "consumer" \in ws[g.work].asleep
             /\ ~ws[g.work].cancelled
          => ws[g.work].deltas = <<>> /\ ws[g.work].terminal = "none"

SharedSoundly(i, ws, c, a, g, cl) ==
    /\ i \in InputRecord
    /\ ws \in [Works -> WorkRecord]
    /\ c \in 0..MaxWorks
    /\ c # 0 => ws[c].pc # "none"
    /\ cl \in BOOLEAN
    /\ \A w \in Works : WorkOK(ws[w]) /\ Placed(i, ws, c, g, cl, w)
    /\ InOrder(ws) /\ AtMostOne(ws)
    /\ Answering(ws, c, a, g, cl)
    /\ Consuming(ws, g, cl)

SInv ==
    /\ SharedSoundly(input, work, current, ans, gen, closed)
    /\ hist \in Nat
    /\ AttemptsBounded

-----------------------------------------------------------------------------
(* One work changes.                                                       *)

\* What k must be for it to take the place of work w: it is as old, as fresh and
\* as void as that was; it may have been committed while fresh; whoever sleeps on
\* it was asleep before over the same facts, or has nothing to do.
Heir(ws, c, g, cl, w, k) ==
    LET o == ws[w]
    IN  /\ WorkOK(k)
        /\ k.pc # "none"
        /\ k.turn = o.turn /\ k.starts = o.starts /\ k.fresh = o.fresh
        /\ k.committed = o.committed \/ (k.committed /\ o.fresh)
        /\ Running(k) => Running(o)
        /\ k.state = o.state \/ (k.state = "ended" /\ o.state # "promoted")
        /\ o.cancelled => k.cancelled
        /\ k.pc \in {"recv", "full", "exiting", "exited"}
              => k.ready \/ k.cancelled \/ ~ValidIn(ws, c, g, cl, w)
        /\ k.state = "promoted" => k.snap = o.snap
        /\ k.state = "promoted" /\ o.cancelled => k.produced = o.produced
        /\ "consumer" \in k.asleep /\ ~k.cancelled
              => \/ k.deltas = <<>> /\ k.terminal = "none"
                 \/ "consumer" \in o.asleep /\ k.deltas = o.deltas /\ k.terminal = o.terminal
        /\ "answerer" \in k.asleep
              => \/ /\ "answerer" \in o.asleep
                    /\ k.state = "promoted" \/ (k.ready = o.ready /\ k.cancelled = o.cancelled)
                 \/ /\ k.state # "promoted" /\ ~k.ready /\ ~k.cancelled
                    /\ ValidIn(ws, c, g, cl, w)
        /\ Feeds(k, g, w)
              => Follows(Read(g, w), k.deltas)
                 /\ Read(g, w) + Len(k.deltas) + Held(k) = k.produced

\* A work that one of these changes replaced leaves the others as they were.
LEMMA HeirPlaced ==
  ASSUME NEW i, NEW ws, NEW c, NEW a, NEW g, NEW cl, SharedSoundly(i, ws, c, a, g, cl),
         NEW w \in Works, NEW k, ws[w].pc # "none", Heir(ws, c, g, cl, w, k),
         NEW v \in Works
  PROVE  LET wt == [ws EXCEPT ![w] = k]
         IN  WorkOK(wt[v]) /\ Placed(i, wt, c, g, cl, v)
<1> DEFINE wt == [ws EXCEPT ![w] = k]
<1> SUFFICES WorkOK(wt[v]) /\ Placed(i, wt, c, g, cl, v)
  OBVIOUS
<1>1. wt[w] = k /\ \A u \in Works \ {w} : wt[u] = ws[u]
  BY DEF SharedSoundly
<1>2. WorkOK(ws[v]) /\ Placed(i, ws, c, g, cl, v) /\ WorkOK(ws[w]) /\ Placed(i, ws, c, g, cl, w)
  BY DEF SharedSoundly
<1> HIDE DEF wt
<1>3. CASE v # w
  <2>1. wt[v] = ws[v] BY <1>1, <1>3
  <2>2. ValidIn(wt, c, g, cl, v) = ValidIn(ws, c, g, cl, v) BY <2>1 DEF ValidIn
  <2>3. Placed(i, wt, c, g, cl, v) BY <2>1, <2>2, <1>2 DEF Placed
  <2> QED BY <2>1, <2>3, <1>2
<1>4. CASE v = w
  <2>1. ValidIn(wt, c, g, cl, w) => ValidIn(ws, c, g, cl, w) /\ ~k.cancelled
    BY <1>1, <1>2 DEF ValidIn, Heir, WorkOK
  <2>2. cl => k.cancelled
    BY <1>2 DEF Placed, Heir
  <2>3. k.fresh => k.starts = i.starts
    BY <1>2 DEF Placed, Heir
  <2>4. k.pc \in {"recv", "full", "exiting", "exited"} => k.ready \/ ~ValidIn(wt, c, g, cl, w)
    BY <2>1 DEF Heir
  <2>5. Feeds(k, g, w)
           => Follows(Read(g, w), k.deltas)
              /\ Read(g, w) + Len(k.deltas) + Held(k) = k.produced
    BY DEF Heir
  <2>6. Placed(i, wt, c, g, cl, w)
    BY <2>2, <2>3, <2>4, <2>5, <1>1 DEF Placed
  <2> QED BY <2>6, <1>1, <1>4 DEF Heir
<1> QED BY <1>3, <1>4

LEMMA HeirAnswering ==
  ASSUME NEW i, NEW ws, NEW c, NEW a, NEW g, NEW cl, SharedSoundly(i, ws, c, a, g, cl),
         NEW w \in Works, NEW k, ws[w].pc # "none", Heir(ws, c, g, cl, w, k)
  PROVE  Answering([ws EXCEPT ![w] = k], c, a, g, cl)
<1> DEFINE wt == [ws EXCEPT ![w] = k]
<1>1. wt[w] = k /\ \A u \in Works \ {w} : wt[u] = ws[u]
  BY DEF SharedSoundly
<1>2. Answering(ws, c, a, g, cl) /\ WorkOK(ws[w]) /\ a.key \in 0..MaxWorks
  BY DEF SharedSoundly, Answering, AnswererRecord
<1> HIDE DEF wt
<1>3. a.key # 0 => wt[a.key].committed /\ wt[a.key].starts = a.starts
  BY <1>1, <1>2 DEF Answering, Heir, Works
<1>4. a.pc \in {"promote", "wait"} => wt[a.key].state # "promoted"
  BY <1>1, <1>2 DEF Answering, Heir, Works
<1>5. a.pc = "wait" /\ a.live /\ "answerer" \in wt[a.key].asleep
        => ~wt[a.key].ready /\ ValidIn(wt, c, g, cl, a.key)
  <2> SUFFICES ASSUME a.pc = "wait", a.live, "answerer" \in wt[a.key].asleep
               PROVE  ~wt[a.key].ready /\ ValidIn(wt, c, g, cl, a.key)
    OBVIOUS
  <2>1. a.key # 0 /\ a.key \in Works
    BY <1>2 DEF Answering, Works
  <2>2. CASE a.key # w
    BY <2>1, <2>2, <1>1, <1>2 DEF Answering, ValidIn
  <2>3. CASE a.key = w
    <3>1. "answerer" \in k.asleep BY <2>3, <1>1
    <3>2. ~k.ready /\ k.state # "promoted" /\ ValidIn(ws, c, g, cl, w) /\ ~k.cancelled
      <4>1. CASE "answerer" \in ws[w].asleep
        <5>1. ~ws[w].ready /\ ws[w].state # "promoted" /\ ValidIn(ws, c, g, cl, w)
          BY <4>1, <2>3, <1>2 DEF Answering
        <5>2. ~ws[w].cancelled BY <5>1 DEF ValidIn
        <5>3. k.state # "promoted" BY <5>1 DEF Heir
        <5> QED BY <3>1, <5>1, <5>2, <5>3 DEF Heir
      <4>2. CASE "answerer" \notin ws[w].asleep
        BY <3>1, <4>2 DEF Heir
      <4> QED BY <4>1, <4>2
    <3>3. k.committed BY <2>1, <2>3, <1>1, <1>3
    <3>4. ~cl /\ c = w
      BY <3>2, <2>3, <1>2 DEF ValidIn, Heir, WorkOK
    <3> QED BY <3>2, <3>3, <3>4, <2>3, <1>1 DEF ValidIn
  <2> QED BY <2>2, <2>3
<1> QED BY <1>2, <1>3, <1>4, <1>5 DEF Answering, wt

LEMMA HeirConsuming ==
  ASSUME NEW i, NEW ws, NEW c, NEW a, NEW g, NEW cl, SharedSoundly(i, ws, c, a, g, cl),
         NEW w \in Works, NEW k, ws[w].pc # "none", Heir(ws, c, g, cl, w, k)
  PROVE  Consuming([ws EXCEPT ![w] = k], g, cl)
<1> DEFINE wt == [ws EXCEPT ![w] = k]
<1>1. wt[w] = k /\ \A u \in Works \ {w} : wt[u] = ws[u]
  BY DEF SharedSoundly
<1>2. Consuming(ws, g, cl) /\ g.work \in 0..MaxWorks
  BY DEF SharedSoundly, Consuming, GenRecord
<1> HIDE DEF wt
<1>3. CASE g.work = 0
  BY <1>2, <1>3 DEF Consuming
<1>4. CASE g.work # 0 /\ g.work # w
  <2>1. wt[g.work] = ws[g.work] BY <1>1, <1>2, <1>4 DEF Works
  <2> QED BY <2>1, <1>2 DEF Consuming, wt
<1>5. CASE g.work = w
  <2>1. ws[w].state = "promoted" /\ k.state = "promoted"
    BY <1>2, <1>5 DEF Consuming, Heir, Works
  <2>2. k.snap = ws[w].snap /\ (ws[w].cancelled => k.cancelled /\ k.produced = ws[w].produced)
    BY <2>1 DEF Heir
  <2>3. g.live /\ g.rx = "waiting" /\ "consumer" \in k.asleep /\ ~k.cancelled
          => k.deltas = <<>> /\ k.terminal = "none"
    <3> SUFFICES ASSUME g.live, g.rx = "waiting", "consumer" \in k.asleep, ~k.cancelled,
                        ~(k.deltas = <<>> /\ k.terminal = "none")
                 PROVE  FALSE
      OBVIOUS
    <3>1. "consumer" \in ws[w].asleep /\ k.deltas = ws[w].deltas /\ k.terminal = ws[w].terminal
      BY DEF Heir
    <3>2. ~ws[w].cancelled BY DEF Heir
    <3> QED BY <3>1, <3>2, <1>2, <1>5 DEF Consuming, Works
  <2>4. wt[g.work] = k BY <1>1, <1>5
  <2> QED BY <2>1, <2>2, <2>3, <2>4, <1>2, <1>5 DEF Consuming, wt
<1> QED BY <1>3, <1>4, <1>5 DEF wt

\* The place of a work may be taken by an heir.
LEMMA Inherit ==
  ASSUME NEW i, NEW ws, NEW c, NEW a, NEW g, NEW cl, SharedSoundly(i, ws, c, a, g, cl),
         NEW w \in Works, NEW k, ws[w].pc # "none", Heir(ws, c, g, cl, w, k)
  PROVE  SharedSoundly(i, [ws EXCEPT ![w] = k], c, a, g, cl)
<1> DEFINE wt == [ws EXCEPT ![w] = k]
<1>1. wt[w] = k /\ \A u \in Works \ {w} : wt[u] = ws[u]
  BY DEF SharedSoundly
<1>2. wt \in [Works -> WorkRecord]
  BY DEF SharedSoundly, Heir, WorkOK
<1>3. \A v \in Works : WorkOK(wt[v]) /\ Placed(i, wt, c, g, cl, v)
  BY HeirPlaced
<1>4. Answering(wt, c, a, g, cl)
  BY HeirAnswering
<1>5. Consuming(wt, g, cl)
  BY HeirConsuming
<1> HIDE DEF wt
<1>6. \A v \in Works : /\ (wt[v].pc = "none") <=> (ws[v].pc = "none")
                       /\ Running(wt[v]) => Running(ws[v])
  BY <1>1 DEF Heir
<1>7. InOrder(wt) /\ AtMostOne(wt)
  BY <1>6 DEF SharedSoundly, InOrder, AtMostOne
<1>8. c # 0 => wt[c].pc # "none"
  BY <1>6 DEF SharedSoundly, Works
<1> QED BY <1>2, <1>3, <1>4, <1>5, <1>7, <1>8 DEF SharedSoundly, wt

-----------------------------------------------------------------------------
(* The heirs the workers, clocks and providers leave.                      *)

\* What invalid work keeps of itself: its fields, one by one.
LEMMA EndedFields ==
  ASSUME NEW k, WorkOK(k), k.pc # "none", k.state # "promoted"
  PROVE  /\ Ended(k) \in WorkRecord /\ WorkOK(Ended(k))
         /\ Ended(k).state = "ended" /\ Ended(k).cancelled
         /\ Ended(k).turn = k.turn /\ Ended(k).starts = k.starts
         /\ Ended(k).fresh = k.fresh /\ Ended(k).committed = k.committed
         /\ Ended(k).pc = k.pc
         /\ k.state # "ended" => Ended(k).asleep = {}
         /\ k.state = "ended" => Ended(k) = k
<1>1. CASE k.state = "ended"
  BY <1>1 DEF Ended, WorkOK
<1>2. CASE k.state # "ended"
  <2> DEFINE k1 == [k EXCEPT !.state = "ended", !.timer = FALSE, !.expired = FALSE, !.snap = 0]
             k2 == [k1 EXCEPT !.ready = FALSE, !.empty = FALSE, !.terminal = "none",
                              !.produced = 0]
             k3 == [k2 EXCEPT !.cancelled = TRUE, !.deltas = <<>>, !.asleep = {}]
  <2>0. k \in WorkRecord BY DEF WorkOK
  <2>1. Ended(k) = k3
    BY <1>2 DEF Ended, Discarded, Notified
  <2>2. /\ k1 \in WorkRecord /\ k1.state = "ended" /\ k1.turn = k.turn /\ k1.starts = k.starts
        /\ k1.fresh = k.fresh /\ k1.committed = k.committed /\ k1.pc = k.pc
    BY <2>0 DEF WorkRecord
  <2> HIDE DEF k1
  <2>3. /\ k2 \in WorkRecord /\ k2.state = k1.state /\ k2.turn = k1.turn /\ k2.starts = k1.starts
        /\ k2.fresh = k1.fresh /\ k2.committed = k1.committed /\ k2.pc = k1.pc
        /\ k2.ready = FALSE /\ k2.terminal = "none"
    <3>1. 0 \in 0..MaxDeltas OBVIOUS
    <3>2. k2 \in WorkRecord BY <2>2, <3>1 DEF WorkRecord
    <3> QED BY <2>2, <3>2 DEF WorkRecord
  <2> HIDE DEF k2
  <2>4. /\ k3 \in WorkRecord /\ k3.state = k2.state /\ k3.turn = k2.turn /\ k3.starts = k2.starts
        /\ k3.fresh = k2.fresh /\ k3.committed = k2.committed /\ k3.pc = k2.pc
        /\ k3.ready = k2.ready /\ k3.terminal = k2.terminal
        /\ k3.cancelled /\ k3.deltas = <<>> /\ k3.asleep = {}
    BY <2>3, EmptySeq DEF WorkRecord
  <2> HIDE DEF k3
  <2>5. k.pc # "full"
    BY DEF WorkOK
  <2>6. WorkOK(k3)
    BY <2>2, <2>3, <2>4, <2>5, <1>2, EmptySeq DEF WorkOK
  <2> QED BY <2>1, <2>2, <2>3, <2>4, <2>6, <1>2
<1> QED BY <1>1, <1>2

\* Invalidated work is heir to what it was...
LEMMA EndedHeir ==
  ASSUME NEW ws, NEW c, NEW g, NEW cl, NEW w,
         WorkOK(ws[w]), ws[w].pc # "none", ws[w].state # "promoted"
  PROVE  Heir(ws, c, g, cl, w, Ended(ws[w]))
<1> DEFINE o == ws[w]
           k == Ended(o)
<1>1. /\ WorkOK(k) /\ k.state = "ended" /\ k.cancelled /\ k.pc = o.pc
      /\ k.turn = o.turn /\ k.starts = o.starts
      /\ k.fresh = o.fresh /\ k.committed = o.committed
      /\ o.state # "ended" => k.asleep = {}
      /\ o.state = "ended" => k = o
  BY EndedFields
<1> HIDE DEF k
<1> QED BY <1>1 DEF Heir, Feeds, Running, k

\* ...also when its worker returns at once, with a delta in hand or without.
LEMMA GivenUpHeir ==
  ASSUME NEW ws, NEW c, NEW g, NEW cl, NEW w, NEW k,
         Running(ws[w]), WorkOK(k), k.pc # "none", k.state = ws[w].state,
         k.state \notin {"promoted", "ended"},
         k.turn = ws[w].turn, k.starts = ws[w].starts, k.fresh = ws[w].fresh,
         k.committed = ws[w].committed
  PROVE  Heir(ws, c, g, cl, w, [Ended(k) EXCEPT !.pc = "exiting"])
<1> DEFINE e == Ended(k)
           x == [e EXCEPT !.pc = "exiting"]
<1> SUFFICES Heir(ws, c, g, cl, w, x)
  OBVIOUS
<1>1. /\ WorkOK(e) /\ e.state = "ended" /\ e.cancelled /\ e.asleep = {}
      /\ e.turn = k.turn /\ e.starts = k.starts
      /\ e.fresh = k.fresh /\ e.committed = k.committed
  BY EndedFields
<1> HIDE DEF e
<1>2. /\ x \in WorkRecord /\ x.pc = "exiting" /\ x.state = "ended" /\ x.cancelled
      /\ x.turn = e.turn /\ x.starts = e.starts /\ x.fresh = e.fresh
      /\ x.committed = e.committed /\ x.deltas = e.deltas /\ x.asleep = e.asleep
      /\ x.ready = e.ready /\ x.terminal = e.terminal
  BY <1>1 DEF WorkOK, WorkRecord
<1> HIDE DEF x
<1>3. WorkOK(x)
  BY <1>1, <1>2 DEF WorkOK
<1> QED BY <1>1, <1>2, <1>3 DEF Heir, Feeds, Running

\* Adopted work is discarded when its stream is closed or fails.
LEMMA DiscardedHeir ==
  ASSUME NEW ws, NEW c, NEW g, NEW cl, NEW w, WorkOK(ws[w]), ws[w].state = "promoted"
  PROVE  /\ Heir(ws, c, g, cl, w, Discarded(ws[w]))
         /\ Discarded(ws[w]).cancelled /\ Discarded(ws[w]).terminal = ws[w].terminal
         /\ Discarded(ws[w]).state = "promoted"
         /\ Discarded(ws[w]).produced = ws[w].produced
<1> DEFINE o == ws[w]
           d == [o EXCEPT !.cancelled = TRUE, !.deltas = <<>>]
           k == [d EXCEPT !.asleep = {}]
<1>1. Discarded(o) = k
  BY DEF Discarded, Notified
<1>2. o \in WorkRecord BY DEF WorkOK
<1>3. /\ d \in WorkRecord /\ d.turn = o.turn /\ d.starts = o.starts /\ d.fresh = o.fresh
      /\ d.committed = o.committed /\ d.state = o.state /\ d.ready = o.ready
      /\ d.snap = o.snap /\ d.produced = o.produced /\ d.terminal = o.terminal
      /\ d.pc = o.pc /\ d.cancelled = TRUE /\ d.deltas = <<>>
  BY <1>2, EmptySeq DEF WorkRecord
<1> HIDE DEF d
<1>4. /\ k \in WorkRecord /\ k.turn = d.turn /\ k.starts = d.starts /\ k.fresh = d.fresh
      /\ k.committed = d.committed /\ k.state = d.state /\ k.ready = d.ready
      /\ k.snap = d.snap /\ k.produced = d.produced /\ k.terminal = d.terminal
      /\ k.pc = d.pc /\ k.cancelled = d.cancelled /\ k.deltas = d.deltas /\ k.asleep = {}
  BY <1>3 DEF WorkRecord
<1> HIDE DEF k
<1>5. WorkOK(k) /\ k.pc # "none"
  BY <1>3, <1>4, EmptySeq DEF WorkOK, NoWork
<1>6. Heir(ws, c, g, cl, w, k)
  BY <1>3, <1>4, <1>5 DEF Heir, WorkOK, Running, Feeds
<1> QED BY <1>1, <1>3, <1>4, <1>6

\* Deltas in their order, one more at the end, one fewer at the front.
LEMMA FollowsAppend ==
  ASSUME NEW n \in Nat, NEW q \in Seq(Nat), Follows(n, q)
  PROVE  Follows(n, Append(q, n + Len(q) + 1))
BY DEF Follows

LEMMA FollowsTail ==
  ASSUME NEW n \in Nat, NEW q \in Seq(Nat), Follows(n, q), q # <<>>
  PROVE  Head(q) = n + 1 /\ Follows(n + 1, Tail(q))
<1>1. Len(q) \in Nat \ {0} /\ Head(q) = q[1]
  BY EmptySeq
<1>2. Len(Tail(q)) = Len(q) - 1 /\ \A j \in 1..Len(Tail(q)) : Tail(q)[j] = q[j + 1]
  BY HeadTailProperties
<1>3. \A j \in 1..Len(Tail(q)) : Tail(q)[j] = (n + 1) + j
  <2> TAKE j \in 1..Len(Tail(q))
  <2>1. j + 1 \in 1..Len(q) BY <1>1, <1>2
  <2>2. q[j + 1] = n + (j + 1) BY <2>1 DEF Follows
  <2> QED BY <2>1, <2>2, <1>2
<1>4. q[1] = n + 1 BY <1>1 DEF Follows
<1> QED BY <1>1, <1>3, <1>4 DEF Follows

\* What the invariant says of one work.
LEMMA WorkFacts ==
  ASSUME SInv, NEW w \in Works
  PROVE  /\ WorkOK(work[w]) /\ work[w] \in WorkRecord
         /\ Placed(input, work, current, gen, closed, w)
         /\ Valid(w) = ValidIn(work, current, gen, closed, w)
         /\ Read(gen, w) \in Nat
<1>1. gen \in GenRecord
  BY DEF SInv, SharedSoundly, Consuming
<1>2. Len(gen.out) \in Nat
  BY <1>1, LenProperties DEF GenRecord
<1> QED BY <1>2 DEF SInv, SharedSoundly, WorkOK, Valid, ValidIn, Read

\* Nothing but the start of a speculation counts as an attempt.
LEMMA SameAttempts ==
  ASSUME AttemptsBounded, \A w \in Works : work'[w].turn = work[w].turn
  PROVE  AttemptsBounded'
<1>1. ASSUME NEW t \in 1..MaxSpeech PROVE Attempts(t)' = Attempts(t)
  <2>1. {w \in Works : work'[w].turn = t} = {w \in Works : work[w].turn = t}
    OBVIOUS
  <2> QED BY <2>1 DEF Attempts, Works
<1> QED BY <1>1 DEF AttemptsBounded

\* A step that leaves an heir keeps the invariant.
LEMMA BecomesHeir ==
  ASSUME SInv, NEW w \in Works, NEW k, work[w].pc # "none",
         Heir(work, current, gen, closed, w, k), Becomes(w, k)
  PROVE  SInv'
<1>1. SharedSoundly(input, [work EXCEPT ![w] = k], current, ans, gen, closed)
  BY Inherit DEF SInv
<1>2. \A v \in Works : work'[v].turn = work[v].turn
  BY DEF Becomes, Heir, SInv, SharedSoundly
<1>3. AttemptsBounded'
  BY <1>2, SameAttempts DEF SInv
<1> QED BY <1>1, <1>3 DEF Becomes, SInv

-----------------------------------------------------------------------------
(* Providers, clocks and the worker.                                       *)

\* The clock passes the timeout of a work: a fact the work alone keeps.
LEMMA ExpireKeeps ==
  ASSUME SInv, NEW w \in Works, Expire(w)
  PROVE  SInv'
<1> DEFINE o == work[w]
<1>0. /\ WorkOK(o) /\ o \in WorkRecord /\ Placed(input, work, current, gen, closed, w)
      /\ Valid(w) = ValidIn(work, current, gen, closed, w)
      /\ Read(gen, w) \in Nat
  BY WorkFacts
<1>1. Expire(w)
  OBVIOUS
<1>2. work[w].pc # "none" 
  BY <1>0 DEF Expire, WorkOK, NoWork
<1>3. PICK k \in {[o EXCEPT !.expired = TRUE]} : Becomes(w, k)
  BY DEF Expire, Becomes
<1>4. /\ k \in WorkRecord /\ k.turn = o.turn /\ k.starts = o.starts /\ k.fresh = o.fresh /\ k.committed = o.committed
      /\ k.state = o.state 
      /\ k.ready = o.ready /\ k.cancelled = o.cancelled /\ k.snap = o.snap /\ k.produced = o.produced /\ k.deltas = o.deltas /\ k.terminal = o.terminal /\ k.asleep = o.asleep /\ k.pc = o.pc
  BY <1>0, EmptySeq DEF Notified, Discarded, WorkRecord, Sleepers
<1>5. WorkOK(k)
  BY <1>2, <1>4, <1>0, EmptySeq DEF WorkOK
<1>6. Heir(work, current, gen, closed, w, k)
  BY <1>2, <1>4, <1>5, <1>0, EmptySeq DEF Heir, WorkOK, Running, Feeds, Held, Placed, ValidIn
<1> QED BY <1>2, <1>3, <1>6, BecomesHeir

\* A worker gives up void work, whatever it had in hand.
LEMMA GivesUpKeeps ==
  ASSUME SInv, NEW w \in Works, GivesUp(w)
  PROVE  SInv'
<1> DEFINE o == work[w]
<1>0. /\ WorkOK(o) /\ o \in WorkRecord /\ Placed(input, work, current, gen, closed, w)
      /\ Valid(w) = ValidIn(work, current, gen, closed, w)
      /\ Read(gen, w) \in Nat
  BY WorkFacts
<1>1. GivesUp(w)
  OBVIOUS
<1>2. work[w].pc # "none" /\ o.pc \in {"stt", "open", "recv", "full"} /\ ~Valid(w)
  BY <1>0 DEF GivesUp, WorkOK, NoWork
<1>3. PICK k \in {[o EXCEPT !.pc = "exiting"]} : Becomes(w, k)
  BY DEF GivesUp, Becomes
<1>4. /\ k \in WorkRecord /\ k.turn = o.turn /\ k.starts = o.starts /\ k.fresh = o.fresh /\ k.committed = o.committed
      /\ k.state = o.state 
      /\ k.ready = o.ready /\ k.cancelled = o.cancelled /\ k.snap = o.snap /\ k.produced = o.produced /\ k.deltas = o.deltas /\ k.terminal = o.terminal /\ k.asleep = o.asleep
      /\ k.pc = "exiting"
  BY <1>0, EmptySeq DEF Notified, Discarded, WorkRecord, Sleepers
<1>5. WorkOK(k)
  BY <1>2, <1>4, <1>0, EmptySeq DEF WorkOK
<1>6. Heir(work, current, gen, closed, w, k)
  BY <1>2, <1>4, <1>5, <1>0, EmptySeq DEF Heir, WorkOK, Running, Feeds, Held, Placed, ValidIn
<1> QED BY <1>2, <1>3, <1>6, BecomesHeir

\* A worker exits, and says so.
LEMMA ExitKeeps ==
  ASSUME SInv, NEW w \in Works, Exit(w)
  PROVE  SInv'
<1> DEFINE o == work[w]
<1>0. /\ WorkOK(o) /\ o \in WorkRecord /\ Placed(input, work, current, gen, closed, w)
      /\ Valid(w) = ValidIn(work, current, gen, closed, w)
      /\ Read(gen, w) \in Nat
  BY WorkFacts
<1>1. Exit(w)
  OBVIOUS
<1>2. work[w].pc # "none" /\ o.pc = "exiting"
  BY <1>0 DEF Exit, WorkOK, NoWork
<1>3. PICK k \in {[Notified(o) EXCEPT !.pc = "exited"]} : Becomes(w, k)
  BY DEF Exit, Becomes
<1>4. /\ k \in WorkRecord /\ k.turn = o.turn /\ k.starts = o.starts /\ k.fresh = o.fresh /\ k.committed = o.committed
      /\ k.state = o.state 
      /\ k.ready = o.ready /\ k.cancelled = o.cancelled /\ k.snap = o.snap /\ k.produced = o.produced /\ k.deltas = o.deltas /\ k.terminal = o.terminal
      /\ k.asleep = {} /\ k.pc = "exited"
  BY <1>0, EmptySeq DEF Notified, Discarded, WorkRecord, Sleepers
<1>5. WorkOK(k)
  BY <1>2, <1>4, <1>0, EmptySeq DEF WorkOK
<1>6. Heir(work, current, gen, closed, w, k)
  BY <1>2, <1>4, <1>5, <1>0, EmptySeq DEF Heir, WorkOK, Running, Feeds, Held, Placed, ValidIn
<1> QED BY <1>2, <1>3, <1>6, BecomesHeir

\* The context of adopted work ends with its generation.
LEMMA AdoptionEndsKeeps ==
  ASSUME SInv, NEW w \in Works, AdoptionEnds(w)
  PROVE  SInv'
<1> DEFINE o == work[w]
<1>0. /\ WorkOK(o) /\ o \in WorkRecord /\ Placed(input, work, current, gen, closed, w)
      /\ Valid(w) = ValidIn(work, current, gen, closed, w)
      /\ Read(gen, w) \in Nat
  BY WorkFacts
<1>1. AdoptionEnds(w)
  OBVIOUS
<1>2. work[w].pc # "none" /\ o.state = "promoted" /\ ~o.cancelled
  BY <1>0 DEF AdoptionEnds, WorkOK, NoWork
<1>3. PICK k \in {[o EXCEPT !.cancelled = TRUE]} : Becomes(w, k)
  BY DEF AdoptionEnds, Becomes
<1>4. /\ k \in WorkRecord /\ k.turn = o.turn /\ k.starts = o.starts /\ k.fresh = o.fresh /\ k.committed = o.committed
      /\ k.state = o.state 
      /\ k.ready = o.ready /\ k.snap = o.snap /\ k.produced = o.produced /\ k.deltas = o.deltas /\ k.terminal = o.terminal /\ k.asleep = o.asleep /\ k.pc = o.pc
      /\ k.cancelled = TRUE
  BY <1>0, EmptySeq DEF Notified, Discarded, WorkRecord, Sleepers
<1>5. WorkOK(k)
  BY <1>2, <1>4, <1>0, EmptySeq DEF WorkOK
<1>6. Heir(work, current, gen, closed, w, k)
  BY <1>2, <1>4, <1>5, <1>0, EmptySeq DEF Heir, WorkOK, Running, Feeds, Held, Placed, ValidIn
<1> QED BY <1>2, <1>3, <1>6, BecomesHeir

\* A stream is closed once its generation is over.
LEMMA CloseStreamKeeps ==
  ASSUME SInv, NEW w \in Works, CloseStream(w)
  PROVE  SInv'
<1> DEFINE o == work[w]
<1>0. /\ WorkOK(o) /\ o \in WorkRecord /\ Placed(input, work, current, gen, closed, w)
      /\ Valid(w) = ValidIn(work, current, gen, closed, w)
      /\ Read(gen, w) \in Nat
  BY WorkFacts
<1>1. CloseStream(w)
  OBVIOUS
<1>2. work[w].pc # "none" /\ o.state = "promoted"
  BY <1>0 DEF CloseStream, WorkOK, NoWork
<1>3. PICK k \in {Discarded(o)} : Becomes(w, k)
  BY DEF CloseStream, Becomes
<1>4. Heir(work, current, gen, closed, w, k)
  BY <1>0, <1>2, <1>3, DiscardedHeir DEF Heir
<1> QED BY <1>2, <1>3, <1>4, BecomesHeir

\* The clock of a work that nobody adopted makes it void.
LEMMA TimerFiresKeeps ==
  ASSUME SInv, NEW w \in Works, TimerFires(w)
  PROVE  SInv'
<1> DEFINE o == work[w]
           e == IF current = w /\ ~o.cancelled /\ o.state # "promoted" THEN Ended(o) ELSE o
           k == [e EXCEPT !.timer = FALSE]
<1>0. /\ WorkOK(o) /\ o \in WorkRecord /\ Placed(input, work, current, gen, closed, w)
  BY WorkFacts
<1>1. o.timer /\ o.pc # "none" /\ Becomes(w, k)
  BY <1>0 DEF TimerFires, Becomes, WorkOK, NoWork, SInv, SharedSoundly
<1>2. Heir(work, current, gen, closed, w, e)
  <2>1. CASE current = w /\ ~o.cancelled /\ o.state # "promoted"
    BY <2>1, <1>0, <1>1, EndedHeir
  <2>2. CASE ~(current = w /\ ~o.cancelled /\ o.state # "promoted")
    <3>1. e = o BY <2>2
    <3> QED BY <3>1, <1>0, <1>1 DEF Heir, Placed
  <2> QED BY <2>1, <2>2
<1>3. e \in WorkRecord /\ WorkOK(e)
  BY <1>2 DEF Heir, WorkOK
<1> HIDE DEF e
<1>4. /\ k \in WorkRecord /\ k.turn = e.turn /\ k.starts = e.starts /\ k.fresh = e.fresh
      /\ k.committed = e.committed /\ k.state = e.state
      /\ k.ready = e.ready /\ k.cancelled = e.cancelled /\ k.snap = e.snap
      /\ k.produced = e.produced /\ k.deltas = e.deltas /\ k.terminal = e.terminal
      /\ k.asleep = e.asleep /\ k.pc = e.pc
  BY <1>3 DEF WorkRecord
<1> HIDE DEF k
<1>5. WorkOK(k)
  BY <1>2, <1>3, <1>4 DEF WorkOK, Heir
<1>6. Heir(work, current, gen, closed, w, k)
  BY <1>2, <1>4, <1>5 DEF Heir, Running, Feeds, Held
<1> QED BY <1>1, <1>6, BecomesHeir

\* The transcript: unusable, empty, or one to ask the LLM with.
LEMMA SttReturnsKeeps ==
  ASSUME SInv, NEW w \in Works, SttReturns(w)
  PROVE  SInv'
<1> DEFINE o == work[w]
           k1 == [Ended(o) EXCEPT !.pc = "exiting"]
           k2 == [Notified(o) EXCEPT !.empty = TRUE, !.ready = TRUE, !.terminal = "eof",
                                     !.pc = "exiting"]
           k3 == [o EXCEPT !.snap = hist, !.pc = "open"]
<1>0. /\ WorkOK(o) /\ o \in WorkRecord /\ Placed(input, work, current, gen, closed, w)
      /\ Valid(w) = ValidIn(work, current, gen, closed, w) /\ hist \in Nat
  BY WorkFacts DEF SInv
<1>1. o.pc = "stt" /\ ~o.ready /\ ~o.cancelled /\ o.state = "open"
      /\ (Becomes(w, k1) \/ Becomes(w, k2) \/ Becomes(w, k3))
  BY <1>0 DEF SttReturns, WorkOK, WorkRecord, ValidIn
<1>2. CASE Becomes(w, k1)
  <2>1. Heir(work, current, gen, closed, w, k1)
    BY <1>0, <1>1, GivenUpHeir DEF Running
  <2> QED BY <2>1, <1>1, <1>2, BecomesHeir
<1>3. CASE Becomes(w, k2)
  <2>1. /\ k2 \in WorkRecord /\ k2.turn = o.turn /\ k2.starts = o.starts
        /\ k2.fresh = o.fresh /\ k2.committed = o.committed /\ k2.state = o.state
        /\ k2.cancelled = o.cancelled /\ k2.produced = o.produced /\ k2.deltas = o.deltas
        /\ k2.ready = TRUE /\ k2.terminal = "eof" /\ k2.asleep = {} /\ k2.pc = "exiting"
    BY <1>0 DEF Notified, WorkRecord
  <2> HIDE DEF k2
  <2>2. WorkOK(k2)
    BY <2>1, <1>0, <1>1 DEF WorkOK
  <2>3. Heir(work, current, gen, closed, w, k2)
    BY <2>1, <2>2, <1>0, <1>1 DEF Heir, Running, Feeds, Held, Placed
  <2> QED BY <2>3, <1>1, <1>3, BecomesHeir
<1>4. CASE Becomes(w, k3)
  <2>1. /\ k3 \in WorkRecord /\ k3.turn = o.turn /\ k3.starts = o.starts
        /\ k3.fresh = o.fresh /\ k3.committed = o.committed /\ k3.state = o.state
        /\ k3.cancelled = o.cancelled /\ k3.produced = o.produced /\ k3.deltas = o.deltas
        /\ k3.ready = o.ready /\ k3.terminal = o.terminal /\ k3.asleep = o.asleep
        /\ k3.pc = "open"
    BY <1>0 DEF WorkRecord
  <2> HIDE DEF k3
  <2>2. WorkOK(k3)
    BY <2>1, <1>0, <1>1 DEF WorkOK
  <2>3. Heir(work, current, gen, closed, w, k3)
    BY <2>1, <2>2, <1>0, <1>1 DEF Heir, Running, Feeds, Held, Placed
  <2> QED BY <2>3, <1>1, <1>4, BecomesHeir
<1> QED BY <1>1, <1>2, <1>3, <1>4

\* The LLM answers or does not.
LEMMA LlmOpensKeeps ==
  ASSUME SInv, NEW w \in Works, LlmOpens(w)
  PROVE  SInv'
<1> DEFINE o == work[w]
           k1 == [Ended(o) EXCEPT !.pc = "exiting"]
           k2 == [Notified(o) EXCEPT !.ready = TRUE, !.pc = "recv"]
<1>0. /\ WorkOK(o) /\ o \in WorkRecord /\ Placed(input, work, current, gen, closed, w)
      /\ Valid(w) = ValidIn(work, current, gen, closed, w)
  BY WorkFacts
<1>1. o.pc = "open" /\ ~o.ready /\ ~o.cancelled /\ o.state = "open"
      /\ (Becomes(w, k1) \/ Becomes(w, k2))
  BY <1>0 DEF LlmOpens, WorkOK, WorkRecord, ValidIn
<1>2. CASE Becomes(w, k1)
  <2>1. Heir(work, current, gen, closed, w, k1)
    BY <1>0, <1>1, GivenUpHeir DEF Running
  <2> QED BY <2>1, <1>1, <1>2, BecomesHeir
<1>3. CASE Becomes(w, k2)
  <2>1. /\ k2 \in WorkRecord /\ k2.turn = o.turn /\ k2.starts = o.starts
        /\ k2.fresh = o.fresh /\ k2.committed = o.committed /\ k2.state = o.state
        /\ k2.cancelled = o.cancelled /\ k2.produced = o.produced /\ k2.deltas = o.deltas
        /\ k2.ready = TRUE /\ k2.terminal = o.terminal /\ k2.asleep = {} /\ k2.pc = "recv"
    BY <1>0 DEF Notified, WorkRecord
  <2> HIDE DEF k2
  <2>2. WorkOK(k2)
    BY <2>1, <1>0, <1>1 DEF WorkOK
  <2>3. Heir(work, current, gen, closed, w, k2)
    BY <2>1, <2>2, <1>0, <1>1 DEF Heir, Running, Feeds, Held, Placed
  <2> QED BY <2>3, <1>1, <1>3, BecomesHeir
<1> QED BY <1>1, <1>2, <1>3

\* A delta no buffer can hold, and the end of a stream.
LEMMA StreamEndKeeps ==
  ASSUME SInv, NEW w \in Works,
         LlmOversized(w) \/ \E err \in {"eof", "error"} : LlmEnds(w, err)
  PROVE  SInv'
<1> DEFINE o == work[w]
           k1 == [Ended(o) EXCEPT !.pc = "exiting"]
           k2(end) == [Notified(o) EXCEPT !.terminal = end, !.pc = "exiting"]
<1>0. /\ WorkOK(o) /\ o \in WorkRecord /\ Placed(input, work, current, gen, closed, w)
      /\ Valid(w) = ValidIn(work, current, gen, closed, w)
  BY WorkFacts
<1>1. o.pc = "recv" /\ o.ready /\ ~o.cancelled /\ o.state \in {"open", "promoted"}
  BY <1>0 DEF LlmOversized, LlmEnds, WorkOK, WorkRecord, ValidIn, Placed
<1>2. \/ Becomes(w, k1) /\ o.state # "promoted"
      \/ \E end \in {"eof", "error"} : Becomes(w, k2(end))
  BY DEF LlmOversized, LlmEnds
<1>3. CASE Becomes(w, k1) /\ o.state # "promoted"
  <2>1. Heir(work, current, gen, closed, w, k1)
    BY <1>0, <1>1, <1>3, GivenUpHeir DEF Running
  <2> QED BY <2>1, <1>1, <1>3, BecomesHeir
<1>4. ASSUME NEW end \in {"eof", "error"}, Becomes(w, k2(end)) PROVE SInv'
  <2> DEFINE k == k2(end)
  <2>1. /\ k \in WorkRecord /\ k.turn = o.turn /\ k.starts = o.starts
        /\ k.fresh = o.fresh /\ k.committed = o.committed /\ k.state = o.state
        /\ k.cancelled = o.cancelled /\ k.produced = o.produced /\ k.deltas = o.deltas
        /\ k.snap = o.snap /\ k.ready = o.ready /\ k.asleep = {} /\ k.pc = "exiting"
    BY <1>0 DEF Notified, WorkRecord
  <2>2. Becomes(w, k) BY <1>4
  <2> HIDE DEF k
  <2>3. WorkOK(k)
    BY <2>1, <1>0, <1>1 DEF WorkOK
  <2>4. Heir(work, current, gen, closed, w, k)
    BY <2>1, <2>3, <1>0, <1>1 DEF Heir, Running, Feeds, Held, Placed
  <2> QED BY <2>2, <2>4, <1>1, BecomesHeir
<1> QED BY <1>2, <1>3, <1>4

\* A delta in hand, numbered p, is buffered, kept in hand, or the work given up.
LEMMA BufferedHeir ==
  ASSUME SInv, NEW w \in Works, work[w].pc \in {"recv", "full"}, Valid(w),
         NEW p \in 1..MaxDeltas,
         Feeds(work[w], gen, w) => Read(gen, w) + Len(work[w].deltas) + 1 = p
  PROVE  Heir(work, current, gen, closed, w, Buffered([work[w] EXCEPT !.produced = p]))
<1> DEFINE o == work[w]
           d == [o EXCEPT !.produced = p]
<1> SUFFICES Heir(work, current, gen, closed, w, Buffered(d))
  OBVIOUS
<1>0. /\ WorkOK(o) /\ o \in WorkRecord /\ Placed(input, work, current, gen, closed, w)
      /\ Valid(w) = ValidIn(work, current, gen, closed, w)
      /\ Read(gen, w) \in Nat
  BY WorkFacts
<1>1. o.ready /\ ~o.cancelled /\ o.state \in {"open", "promoted"}
  BY <1>0 DEF WorkOK, WorkRecord, ValidIn, Placed
<1>2. /\ d \in WorkRecord /\ d.turn = o.turn /\ d.starts = o.starts
      /\ d.fresh = o.fresh /\ d.committed = o.committed /\ d.state = o.state
      /\ d.cancelled = o.cancelled /\ d.produced = p /\ d.deltas = o.deltas /\ d.pc = o.pc
      /\ d.snap = o.snap /\ d.ready = o.ready /\ d.terminal = o.terminal /\ d.asleep = o.asleep
  <2>1. p \in 0..MaxDeltas OBVIOUS
  <2>2. d \in WorkRecord BY <1>0, <2>1 DEF WorkRecord
  <2> QED BY <1>0, <2>2 DEF WorkRecord
<1>3. o.deltas \in Seq(1..MaxDeltas) /\ Len(o.deltas) \in Nat /\ Len(o.deltas) <= Buffer
  BY <1>0, LenProperties DEF WorkRecord, WorkOK
<1> HIDE DEF d
<1>4. CASE Len(d.deltas) < Buffer
  <2> DEFINE k == [Notified(d) EXCEPT !.deltas = Append(@, d.produced), !.pc = "recv"]
  <2>1. Append(o.deltas, p) \in Seq(1..MaxDeltas) /\ Len(Append(o.deltas, p)) = Len(o.deltas) + 1
    BY <1>3, AppendProperties
  <2>2. /\ k \in WorkRecord /\ k.turn = d.turn /\ k.starts = d.starts
        /\ k.fresh = d.fresh /\ k.committed = d.committed /\ k.state = d.state
        /\ k.cancelled = d.cancelled /\ k.produced = d.produced
        /\ k.deltas = Append(d.deltas, d.produced) /\ k.pc = "recv"
        /\ k.snap = d.snap /\ k.ready = d.ready /\ k.terminal = d.terminal /\ k.asleep = {}
    BY <1>2, <2>1 DEF Notified, WorkRecord
  <2>3. Buffered(d) = k BY <1>4 DEF Buffered
  <2> HIDE DEF k
  <2>4. WorkOK(k)
    BY <2>1, <2>2, <1>0, <1>1, <1>2, <1>3, <1>4 DEF WorkOK
  <2>5. Feeds(k, gen, w) => Follows(Read(gen, w), k.deltas)
                            /\ Read(gen, w) + Len(k.deltas) + Held(k) = k.produced
    <3> SUFFICES ASSUME Feeds(k, gen, w)
                 PROVE  Follows(Read(gen, w), k.deltas)
                        /\ Read(gen, w) + Len(k.deltas) + Held(k) = k.produced
      OBVIOUS
    <3>1. Feeds(o, gen, w) BY <1>2, <2>2 DEF Feeds
    <3>2. Follows(Read(gen, w), o.deltas) /\ p = Read(gen, w) + Len(o.deltas) + 1
      BY <3>1, <1>0 DEF Placed
    <3>3. o.deltas \in Seq(Nat) BY <1>3, SeqDef
    <3>4. Follows(Read(gen, w), k.deltas)
      BY <3>2, <3>3, <1>0, <1>2, <2>2, FollowsAppend
    <3>5. Held(k) = 0 BY <2>2 DEF Held
    <3>6. Len(k.deltas) = Len(o.deltas) + 1 /\ k.produced = p BY <2>1, <2>2, <1>2
    <3>7. Read(gen, w) \in Nat BY <1>0
    <3>8. Read(gen, w) + Len(k.deltas) + Held(k) = k.produced
      <4>1. \A r, m \in Nat : r + (m + 1) + 0 = r + m + 1
        OBVIOUS
      <4>2. Read(gen, w) + (Len(o.deltas) + 1) + 0 = p
        BY <4>1, <3>2, <3>7, <1>3
      <4> QED BY <4>2, <3>5, <3>6
    <3> QED BY <3>4, <3>8
  <2> QED BY <2>2, <2>3, <2>4, <2>5, <1>0, <1>1, <1>2 DEF Heir, Running
<1>5. CASE ~(Len(d.deltas) < Buffer) /\ d.state = "promoted"
  <2> DEFINE k == [d EXCEPT !.asleep = @ \cup {"worker"}, !.pc = "full"]
  <2>1. /\ k \in WorkRecord /\ k.turn = d.turn /\ k.starts = d.starts
        /\ k.fresh = d.fresh /\ k.committed = d.committed /\ k.state = d.state
        /\ k.cancelled = d.cancelled /\ k.produced = d.produced
        /\ k.deltas = d.deltas /\ k.pc = "full"
        /\ k.snap = d.snap /\ k.ready = d.ready /\ k.terminal = d.terminal
        /\ k.asleep = d.asleep \cup {"worker"}
    BY <1>2 DEF WorkRecord, Sleepers
  <2>2. Buffered(d) = k BY <1>5 DEF Buffered
  <2> HIDE DEF k
  <2>3. Len(o.deltas) = Buffer BY <1>3, <1>2, <1>5
  <2>4. WorkOK(k)
    BY <2>1, <2>3, <1>0, <1>1, <1>2, <1>5 DEF WorkOK
  <2>5. Feeds(k, gen, w) => Follows(Read(gen, w), k.deltas)
                            /\ Read(gen, w) + Len(k.deltas) + Held(k) = k.produced
    BY <2>1, <1>0, <1>2 DEF Feeds, Held, Placed
  <2>6. /\ "consumer" \in k.asleep => "consumer" \in o.asleep
        /\ "answerer" \in k.asleep => "answerer" \in o.asleep
    BY <2>1, <1>2
  <2>7. Running(o) /\ k.pc # "none" /\ k.state = "promoted" /\ ~k.cancelled /\ k.ready
    BY <2>1, <1>0, <1>1, <1>2, <1>5 DEF Running
  <2>8. Heir(work, current, gen, closed, w, k)
    BY <2>1, <2>4, <2>5, <2>6, <2>7, <1>1, <1>2 DEF Heir
  <2> QED BY <2>2, <2>8
<1>6. CASE ~(Len(d.deltas) < Buffer) /\ d.state # "promoted"
  <2>1. Buffered(d) = [Ended(d) EXCEPT !.pc = "exiting"] BY <1>6 DEF Buffered
  <2>2. WorkOK(d)
    BY <1>0, <1>2, <1>1 DEF WorkOK
  <2> QED BY <2>1, <2>2, <1>0, <1>1, <1>2, <1>6, GivenUpHeir DEF Running
<1> QED BY <1>4, <1>5, <1>6

LEMMA LlmDeltaKeeps ==
  ASSUME SInv, NEW w \in Works, LlmDelta(w)
  PROVE  SInv'
<1> DEFINE o == work[w]
           p == o.produced + 1
<1>0. /\ WorkOK(o) /\ o \in WorkRecord /\ Placed(input, work, current, gen, closed, w)
  BY WorkFacts
<1>1. p \in 1..MaxDeltas /\ o.pc = "recv" /\ Valid(w)
  BY <1>0 DEF LlmDelta, WorkRecord
<1>2. Becomes(w, Buffered([o EXCEPT !.produced = p]))
  BY DEF LlmDelta
<1>3. Feeds(o, gen, w) => Read(gen, w) + Len(o.deltas) + 1 = p
  BY <1>0, <1>1, WorkFacts DEF Placed, Held
<1> QED BY <1>1, <1>2, <1>3, BufferedHeir, BecomesHeir

LEMMA RoomWakesKeeps ==
  ASSUME SInv, NEW w \in Works, RoomWakes(w)
  PROVE  SInv'
<1> DEFINE o == work[w]
           p == o.produced
<1>0. /\ WorkOK(o) /\ o \in WorkRecord /\ Placed(input, work, current, gen, closed, w)
  BY WorkFacts
<1>1. p \in 1..MaxDeltas /\ o.pc = "full" /\ Valid(w)
  BY <1>0 DEF RoomWakes, WorkRecord, WorkOK
<1>2. [o EXCEPT !.produced = p] = o
  BY <1>0 DEF WorkRecord
<1>3. Becomes(w, Buffered([o EXCEPT !.produced = p]))
  BY <1>2 DEF RoomWakes
<1>4. Feeds(o, gen, w) => Read(gen, w) + Len(o.deltas) + 1 = p
  BY <1>0, <1>1 DEF Placed, Held
<1> QED BY <1>1, <1>3, <1>4, BufferedHeir, BecomesHeir

-----------------------------------------------------------------------------
(* What the session does, one part at a time.                              *)

\* invalidateSpeculationLocked.
LEMMA InvalidatedKeeps ==
  ASSUME NEW i, NEW ws, NEW a, NEW g, NEW cl, SharedSoundly(i, ws, current, a, g, cl)
  PROVE  /\ SharedSoundly(i, Invalidated(ws), current, a, g, cl)
         /\ \A w \in Works : Invalidated(ws)[w].turn = ws[w].turn
<1>1. CASE current = 0 \/ ws[current].state = "promoted"
  BY <1>1 DEF Invalidated
<1>2. CASE ~(current = 0 \/ ws[current].state = "promoted")
  <2>1. current \in Works /\ WorkOK(ws[current]) /\ ws[current].pc # "none"
    BY <1>2 DEF SharedSoundly, Works
  <2>2. Invalidated(ws) = [ws EXCEPT ![current] = Ended(ws[current])]
    BY <1>2 DEF Invalidated
  <2>3. Heir(ws, current, g, cl, current, Ended(ws[current]))
    BY <2>1, <1>2, EndedHeir
  <2>4. \A w \in Works : Invalidated(ws)[w].turn = ws[w].turn
    BY <2>2, <2>3 DEF Heir, SharedSoundly
  <2>5. SharedSoundly(i, [ws EXCEPT ![current] = Ended(ws[current])], current, a, g, cl)
    BY <2>1, <2>3, Inherit
  <2> QED BY <2>2, <2>4, <2>5
<1> QED BY <1>1, <1>2

\* The input moves on without a new revision.
LEMMA InputKeeps ==
  ASSUME NEW i, NEW ws, NEW c, NEW a, NEW g, NEW cl, SharedSoundly(i, ws, c, a, g, cl),
         NEW j \in InputRecord, j.starts = i.starts
  PROVE  SharedSoundly(j, ws, c, a, g, cl)
<1>1. \A w \in Works : Placed(j, ws, c, g, cl, w)
  BY DEF SharedSoundly, Placed
<1> QED BY <1>1 DEF SharedSoundly

\* resetEndpointLocked: no work is fresh any more, whatever the input becomes.
LEMMA RevisedKeeps ==
  ASSUME NEW i, NEW ws, NEW c, NEW a, NEW g, NEW cl, SharedSoundly(i, ws, c, a, g, cl),
         NEW j \in InputRecord
  PROVE  /\ SharedSoundly(j, Revised(ws), c, a, g, cl)
         /\ \A w \in Works : Revised(ws)[w].turn = ws[w].turn
<1> DEFINE r == Revised(ws)
<1>1. \A w \in Works : ws[w] \in WorkRecord
  BY DEF SharedSoundly
<1>2. \A w \in Works : r[w] = [ws[w] EXCEPT !.fresh = FALSE]
  BY DEF Revised
<1>3. \A w \in Works :
        /\ r[w] \in WorkRecord /\ r[w].turn = ws[w].turn /\ r[w].starts = ws[w].starts
        /\ r[w].state = ws[w].state /\ r[w].fresh = FALSE /\ r[w].committed = ws[w].committed
        /\ r[w].ready = ws[w].ready /\ r[w].cancelled = ws[w].cancelled
        /\ r[w].snap = ws[w].snap /\ r[w].produced = ws[w].produced
        /\ r[w].deltas = ws[w].deltas /\ r[w].terminal = ws[w].terminal
        /\ r[w].asleep = ws[w].asleep /\ r[w].pc = ws[w].pc
        /\ ws[w].fresh = FALSE => r[w] = ws[w]
  <2> TAKE w \in Works
  <2>1. ws[w] \in WorkRecord /\ r[w] = [ws[w] EXCEPT !.fresh = FALSE]
    BY <1>1, <1>2
  <2> HIDE DEF r
  <2>2. ASSUME ws[w].fresh = FALSE PROVE r[w] = ws[w]
    <3>1. [ws[w] EXCEPT !.fresh = ws[w].fresh] = ws[w] BY <2>1 DEF WorkRecord
    <3> QED BY <3>1, <2>1, <2>2
  <2>3. r[w] \in WorkRecord
    BY <2>1 DEF WorkRecord
  <2> QED BY <2>1, <2>2, <2>3 DEF WorkRecord
<1>4. r \in [Works -> WorkRecord]
  BY <1>3 DEF Revised
<1> HIDE DEF r
<1>5. ASSUME NEW w \in Works
      PROVE  WorkOK(r[w]) /\ Placed(j, r, c, g, cl, w)
  <2>1. WorkOK(ws[w]) /\ Placed(i, ws, c, g, cl, w)
    BY DEF SharedSoundly
  <2>2. WorkOK(r[w])
    BY <2>1, <1>3 DEF WorkOK, NoWork
  <2>3. ValidIn(r, c, g, cl, w) => ValidIn(ws, c, g, cl, w)
    BY <1>3 DEF ValidIn
  <2>4. Feeds(r[w], g, w) = Feeds(ws[w], g, w) /\ Held(r[w]) = Held(ws[w])
    BY <1>3 DEF Feeds, Held
  <2>5. Placed(j, r, c, g, cl, w)
    BY <2>1, <2>3, <2>4, <1>3 DEF Placed
  <2> QED BY <2>2, <2>5
<1>6. InOrder(r) /\ AtMostOne(r) /\ (c # 0 => r[c].pc # "none")
  <2>1. \A w \in Works : r[w].pc = ws[w].pc BY <1>3
  <2>2. InOrder(r) BY <2>1 DEF SharedSoundly, InOrder
  <2>3. AtMostOne(r) BY <2>1 DEF SharedSoundly, AtMostOne, Running
  <2> QED BY <2>1, <2>2, <2>3 DEF SharedSoundly, Works
<1>7. Answering(r, c, a, g, cl)
  <2>1. Answering(ws, c, a, g, cl) /\ a.key \in 0..MaxWorks
    BY DEF SharedSoundly, Answering, AnswererRecord
  <2>2. a.key # 0 => a.key \in Works BY <2>1 DEF Works
  <2> QED BY <2>1, <2>2, <1>3 DEF Answering, ValidIn
<1>8. Consuming(r, g, cl)
  <2>1. Consuming(ws, g, cl) /\ g.work \in 0..MaxWorks
    BY DEF SharedSoundly, Consuming, GenRecord
  <2>2. g.work # 0 => g.work \in Works BY <2>1 DEF Works
  <2> QED BY <2>1, <2>2, <1>3 DEF Consuming
<1>9. SharedSoundly(j, r, c, a, g, cl)
  BY <1>4, <1>5, <1>6, <1>7, <1>8 DEF SharedSoundly
<1> QED BY <1>3, <1>9 DEF r

\* The answerer's own steps: only what the invariant says of it is at stake.
LEMMA AnswererKeeps ==
  ASSUME NEW i, NEW ws, NEW c, NEW a, NEW g, NEW cl, SharedSoundly(i, ws, c, a, g, cl),
         NEW b, Answering(ws, c, b, g, cl)
  PROVE  SharedSoundly(i, ws, c, b, g, cl)
BY DEF SharedSoundly

\* The response context ends.
LEMMA DroppedKeeps ==
  ASSUME NEW i, NEW ws, NEW c, NEW a, NEW g, NEW cl, SharedSoundly(i, ws, c, a, g, cl)
  PROVE  SharedSoundly(i, ws, c, Dropped(a), g, cl) /\ ~Dropped(a).live
<1> DEFINE b == Dropped(a)
<1>1. Answering(ws, c, a, g, cl) BY DEF SharedSoundly
<1>2. /\ b \in AnswererRecord /\ b.starts = a.starts /\ b.live = FALSE /\ b.used = a.used
      /\ b.key = a.key /\ b.pc = a.pc
  BY <1>1 DEF Answering, Dropped, AnswererRecord
<1> HIDE DEF b
<1>3. Answering(ws, c, b, g, cl)
  BY <1>1, <1>2 DEF Answering
<1> QED BY <1>2, <1>3, AnswererKeeps DEF b

\* Another generation record: what the invariant says of it, and that works which
\* feed it feed it in order.
LEMMA GenerationKeeps ==
  ASSUME NEW i, NEW ws, NEW c, NEW a, NEW g, NEW cl, SharedSoundly(i, ws, c, a, g, cl),
         NEW h, Consuming(ws, h, cl),
         \A w \in Works : Feeds(ws[w], h, w) =>
            Follows(Read(h, w), ws[w].deltas)
            /\ Read(h, w) + Len(ws[w].deltas) + Held(ws[w]) = ws[w].produced
  PROVE  SharedSoundly(i, ws, c, a, h, cl)
<1>1. ASSUME NEW w \in Works PROVE Placed(i, ws, c, h, cl, w)
  <2>1. Placed(i, ws, c, g, cl, w) /\ WorkOK(ws[w]) BY DEF SharedSoundly
  <2>2. ws[w].state # "promoted" => ValidIn(ws, c, h, cl, w) = ValidIn(ws, c, g, cl, w)
    BY DEF ValidIn
  <2> QED BY <2>1, <2>2 DEF Placed, WorkOK
<1>2. Answering(ws, c, a, h, cl)
  BY DEF SharedSoundly, Answering, ValidIn
<1> QED BY <1>1, <1>2 DEF SharedSoundly

\* One that no adopted work feeds, or that has come as far in it.
LEMMA UnfedKeeps ==
  ASSUME NEW i, NEW ws, NEW c, NEW a, NEW g, NEW cl, SharedSoundly(i, ws, c, a, g, cl),
         NEW h, Consuming(ws, h, cl),
         \A w \in Works : Feeds(ws[w], h, w) =>
            Feeds(ws[w], g, w) /\ Read(h, w) = Read(g, w)
  PROVE  SharedSoundly(i, ws, c, a, h, cl)
<1>1. \A w \in Works : Feeds(ws[w], h, w) =>
         Follows(Read(h, w), ws[w].deltas)
         /\ Read(h, w) + Len(ws[w].deltas) + Held(ws[w]) = ws[w].produced
  BY DEF SharedSoundly, Placed
<1> QED BY <1>1, GenerationKeeps

\* The generation is silenced.
LEMMA SilencedKeeps ==
  ASSUME NEW i, NEW ws, NEW c, NEW a, NEW cl, SharedSoundly(i, ws, c, a, gen, cl)
  PROVE  SharedSoundly(i, ws, c, a, Silenced, cl) /\ ~Silenced.live
<1> DEFINE h == Silenced
<1>1. Consuming(ws, gen, cl) BY DEF SharedSoundly
<1>2. /\ h \in GenRecord /\ h.id = gen.id /\ h.live = FALSE /\ h.work = gen.work
      /\ h.request = gen.request /\ h.stream = gen.stream /\ h.out = gen.out /\ h.rx = gen.rx
  BY <1>1 DEF Consuming, Silenced, GenRecord
<1> HIDE DEF h
<1>3. Consuming(ws, h, cl)
  BY <1>1, <1>2 DEF Consuming
<1>4. \A w \in Works : /\ Feeds(ws[w], h, w) => Feeds(ws[w], gen, w)
                       /\ Read(h, w) = Read(gen, w)
  BY <1>2 DEF Feeds, Read
<1> QED BY <1>2, <1>3, <1>4, UnfedKeeps DEF h

\* A generation begins that adopts nothing.
LEMMA BeganKeeps ==
  ASSUME NEW i, NEW ws, NEW c, NEW a, NEW cl, SharedSoundly(i, ws, c, a, gen, cl), ~cl,
         gen.id < MaxGens, NEW stream \in {"none", "fresh"}, NEW request \in Nat
  PROVE  SharedSoundly(i, ws, c, a, Began(0, stream, request), cl)
<1> DEFINE h == Began(0, stream, request)
<1>1. Consuming(ws, gen, cl) BY DEF SharedSoundly
<1>2. /\ h \in GenRecord /\ h.live = TRUE /\ h.work = 0 /\ h.stream = stream /\ h.out = <<>>
      /\ h.rx = "recv"
  BY <1>1, EmptySeq DEF Consuming, Began, GenRecord
<1> HIDE DEF h
<1>3. Consuming(ws, h, cl)
  BY <1>2, EmptySeq DEF Consuming
<1>4. \A w \in Works : /\ Feeds(ws[w], h, w) => ws[w].state = "open" /\ Feeds(ws[w], gen, w)
                       /\ w # 0
  BY <1>2 DEF Feeds, Works
<1>5. ASSUME NEW w \in Works, Feeds(ws[w], h, w) PROVE Read(h, w) = Read(gen, w)
  <2>1. gen.work # w BY <1>1, <1>4, <1>5 DEF Consuming
  <2> QED BY <2>1, <1>2, <1>4 DEF Read
<1> QED BY <1>2, <1>3, <1>4, <1>5, UnfedKeeps DEF h

\* The session closes, everything silenced: every work is cancelled.
CancelledWorks(ws) == [w \in Works |-> [ws[w] EXCEPT !.cancelled = @ \/ ws[w].pc # "none"]]

LEMMA ClosedKeeps ==
  ASSUME NEW i, NEW ws, NEW c, NEW a, NEW g, NEW cl, SharedSoundly(i, ws, c, a, g, cl),
         ~a.live, ~g.live
  PROVE  /\ SharedSoundly(i, CancelledWorks(ws), c, a, g, TRUE)
         /\ \A w \in Works : CancelledWorks(ws)[w].turn = ws[w].turn
<1> DEFINE r == [w \in Works |-> [ws[w] EXCEPT !.cancelled = @ \/ ws[w].pc # "none"]]
<1> SUFFICES SharedSoundly(i, r, c, a, g, TRUE) /\ \A w \in Works : r[w].turn = ws[w].turn
  BY DEF CancelledWorks
<1>1. \A w \in Works : ws[w] \in WorkRecord
  BY DEF SharedSoundly
<1>2. \A w \in Works :
        /\ r[w] \in WorkRecord /\ r[w].turn = ws[w].turn /\ r[w].starts = ws[w].starts
        /\ r[w].state = ws[w].state /\ r[w].fresh = ws[w].fresh
        /\ r[w].committed = ws[w].committed /\ r[w].ready = ws[w].ready
        /\ ws[w].pc # "none" => r[w].cancelled = TRUE
        /\ r[w].snap = ws[w].snap /\ r[w].produced = ws[w].produced
        /\ r[w].deltas = ws[w].deltas /\ r[w].terminal = ws[w].terminal
        /\ r[w].asleep = ws[w].asleep /\ r[w].pc = ws[w].pc
        /\ ws[w].pc = "none" => r[w] = ws[w]
  <2> TAKE w \in Works
  <2> DEFINE b == ws[w].cancelled \/ ws[w].pc # "none"
  <2>1. /\ ws[w] \in WorkRecord /\ r[w] = [ws[w] EXCEPT !.cancelled = b] /\ b \in BOOLEAN
        /\ ws[w].pc # "none" => b = TRUE
        /\ ws[w].pc = "none" => b = ws[w].cancelled
    BY <1>1 DEF WorkRecord
  <2> HIDE DEF r, b
  <2>2. ws[w].pc = "none" => r[w] = ws[w]
    BY <2>1 DEF WorkRecord
  <2>3. r[w] \in WorkRecord
    BY <2>1 DEF WorkRecord
  <2>4. ws[w].pc # "none" => r[w].cancelled = TRUE
    BY <2>1 DEF WorkRecord
  <2> QED BY <2>1, <2>2, <2>3, <2>4 DEF WorkRecord
<1>3. r \in [Works -> WorkRecord]
  BY <1>2
<1> HIDE DEF r
<1>4. ASSUME NEW w \in Works
      PROVE  WorkOK(r[w]) /\ Placed(i, r, c, g, TRUE, w)
  <2>1. WorkOK(ws[w]) /\ Placed(i, ws, c, g, cl, w)
    BY DEF SharedSoundly
  <2>2. WorkOK(r[w])
    BY <2>1, <1>2 DEF WorkOK
  <2>3. ~Feeds(r[w], g, w)
    BY <2>1, <1>2 DEF Feeds, WorkOK, NoWork
  <2>4. Placed(i, r, c, g, TRUE, w)
    BY <2>1, <2>3, <1>2 DEF Placed, ValidIn
  <2> QED BY <2>2, <2>4
<1>5. InOrder(r) /\ AtMostOne(r) /\ (c # 0 => r[c].pc # "none")
  <2>1. \A w \in Works : r[w].pc = ws[w].pc BY <1>2
  <2>2. InOrder(r) BY <2>1 DEF SharedSoundly, InOrder
  <2>3. AtMostOne(r) BY <2>1 DEF SharedSoundly, AtMostOne, Running
  <2> QED BY <2>1, <2>2, <2>3 DEF SharedSoundly, Works
<1>6. Answering(r, c, a, g, TRUE)
  <2>1. Answering(ws, c, a, g, cl) /\ a.key \in 0..MaxWorks
    BY DEF SharedSoundly, Answering, AnswererRecord
  <2>2. a.key # 0 => a.key \in Works BY <2>1 DEF Works
  <2> QED BY <2>1, <2>2, <1>2 DEF Answering
<1>7. Consuming(r, g, TRUE)
  <2>1. Consuming(ws, g, cl) /\ g.work \in 0..MaxWorks
    BY DEF SharedSoundly, Consuming, GenRecord
  <2>2. g.work # 0 => g.work \in Works BY <2>1 DEF Works
  <2> QED BY <2>1, <2>2, <1>2 DEF Consuming
<1> QED BY <1>2, <1>3, <1>4, <1>5, <1>6, <1>7 DEF SharedSoundly

\* A step of which all parts were kept, and that starts no speculation.
LEMMA Kept ==
  ASSUME SInv, SharedSoundly(input', work', current', ans', gen', closed'), hist' \in Nat,
         \A w \in Works : work'[w].turn = work[w].turn
  PROVE  SInv'
BY SameAttempts DEF SInv

LEMMA HistoryAfterType ==
  ASSUME SInv PROVE HistoryAfter \subseteq Nat
BY DEF SInv, HistoryAfter

-----------------------------------------------------------------------------
(* The session's actions.                                                  *)

LEMMA SpeechStartsKeeps ==
  ASSUME SInv, SpeechStarts
  PROVE  SInv'
<1>1. Spoken \in InputRecord
  <2>1. input \in InputRecord /\ input.starts < MaxSpeech
    BY DEF SInv, SharedSoundly, SpeechStarts
  <2> QED BY <2>1 DEF Spoken, InputRecord
<1>2. /\ SharedSoundly(input, Invalidated(work), current, ans, gen, closed)
      /\ \A w \in Works : Invalidated(work)[w].turn = work[w].turn
  BY InvalidatedKeeps DEF SInv
<1>3. /\ SharedSoundly(Spoken, Revised(Invalidated(work)), current, ans, gen, closed)
      /\ \A w \in Works : Revised(Invalidated(work))[w].turn = Invalidated(work)[w].turn
  BY <1>1, <1>2, RevisedKeeps
<1>4. SharedSoundly(Spoken, Revised(Invalidated(work)), current, Dropped(ans), gen, closed)
  BY <1>3, DroppedKeeps
<1> QED BY <1>2, <1>3, <1>4, Kept DEF SpeechStarts, SInv

LEMMA SpeechEndsKeeps ==
  ASSUME SInv, SpeechEnds
  PROVE  SInv'
<1>1. input' \in InputRecord /\ input'.starts = input.starts
  BY DEF SInv, SharedSoundly, SpeechEnds, InputRecord
<1>2. SharedSoundly(input', work, current, ans, gen, closed)
  BY <1>1, InputKeeps DEF SInv
<1> QED BY <1>2, Kept DEF SpeechEnds, SInv

LEMMA ContinuationLikelyKeeps ==
  ASSUME SInv, ContinuationLikely
  PROVE  SInv'
BY InvalidatedKeeps, Kept DEF SInv, ContinuationLikely

\* An input with no turn.
LEMMA ListeningType ==
  ASSUME SInv PROVE [input EXCEPT !.phase = "listening", !.turn = 0] \in InputRecord
<1>1. input \in InputRecord BY DEF SInv, SharedSoundly
<1>2. 0 \in 0..MaxSpeech OBVIOUS
<1> QED BY <1>1, <1>2 DEF InputRecord

LEMMA DropInputKeeps ==
  ASSUME SInv, NEW cancel \in BOOLEAN, DropInput(cancel)
  PROVE  SInv'
<1>1. /\ SharedSoundly(input, Invalidated(work), current, ans, gen, closed)
      /\ \A w \in Works : Invalidated(work)[w].turn = work[w].turn
  BY InvalidatedKeeps DEF SInv
<1>2. /\ SharedSoundly(input', Revised(Invalidated(work)), current, ans, gen, closed)
      /\ \A w \in Works : Revised(Invalidated(work))[w].turn = Invalidated(work)[w].turn
  BY <1>1, ListeningType, RevisedKeeps DEF DropInput
<1>3. SharedSoundly(input', Revised(Invalidated(work)), current, Dropped(ans), gen, closed)
  BY <1>2, DroppedKeeps
<1> QED BY <1>1, <1>2, <1>3, Kept DEF DropInput, SInv

LEMMA CancelGenerationKeeps ==
  ASSUME SInv, CancelGeneration
  PROVE  SInv'
<1>1. /\ SharedSoundly(input, Invalidated(work), current, ans, gen, closed)
      /\ \A w \in Works : Invalidated(work)[w].turn = work[w].turn
  BY InvalidatedKeeps DEF SInv
<1>2. SharedSoundly(input, Invalidated(work), current, ans, Silenced, closed)
  BY <1>1, SilencedKeeps
<1>3. SharedSoundly(input, Invalidated(work), current, Dropped(ans), Silenced, closed)
  BY <1>2, DroppedKeeps
<1>4. hist' \in Nat BY HistoryAfterType DEF CancelGeneration
<1> QED BY <1>1, <1>3, <1>4, Kept DEF CancelGeneration

LEMMA ConfirmInterruptionKeeps ==
  ASSUME SInv, ConfirmInterruption
  PROVE  SInv'
<1>1. SharedSoundly(input, work, current, ans, Silenced, closed)
  BY SilencedKeeps DEF SInv
<1>2. SharedSoundly(input, work, current, Dropped(ans), Silenced, closed)
  BY <1>1, DroppedKeeps
<1>3. hist' \in Nat BY HistoryAfterType DEF ConfirmInterruption
<1> QED BY <1>2, <1>3, Kept DEF ConfirmInterruption

LEMMA CreateGenerationKeeps ==
  ASSUME SInv, CreateGeneration
  PROVE  SInv'
<1>1. /\ SharedSoundly(input, Invalidated(work), current, ans, gen, closed)
      /\ \A w \in Works : Invalidated(work)[w].turn = work[w].turn
  BY InvalidatedKeeps DEF SInv
<1>2. SharedSoundly(input, Invalidated(work), current, ans, Began(0, "none", 0), closed)
  BY <1>1, BeganKeeps DEF CreateGeneration
<1>3. SharedSoundly(input, Invalidated(work), current, Dropped(ans), Began(0, "none", 0), closed)
  BY <1>2, DroppedKeeps
<1>4. hist' \in Nat BY HistoryAfterType DEF CreateGeneration
<1> QED BY <1>1, <1>3, <1>4, Kept DEF CreateGeneration

LEMMA HistoryChangesKeeps ==
  ASSUME SInv, HistoryChanges
  PROVE  SInv'
<1>1. Consuming(work, gen, closed) BY DEF SInv, SharedSoundly
<1>2. /\ gen' \in GenRecord /\ gen'.live = gen.live /\ gen'.work = gen.work
      /\ gen'.request = gen.request /\ gen'.stream = gen.stream /\ gen'.out = gen.out
      /\ gen'.rx = gen.rx
  BY <1>1 DEF Consuming, HistoryChanges, GenRecord
<1>3. Consuming(work, gen', closed)
  BY <1>1, <1>2 DEF Consuming
<1>4. \A w \in Works : /\ Feeds(work[w], gen', w) => Feeds(work[w], gen, w)
                       /\ Read(gen', w) = Read(gen, w)
  BY <1>2 DEF Feeds, Read
<1>5. SharedSoundly(input, work, current, ans, gen', closed)
  BY <1>3, <1>4, UnfedKeeps DEF SInv
<1> QED BY <1>5, Kept DEF HistoryChanges, SInv

LEMMA CloseKeeps ==
  ASSUME SInv, Close
  PROVE  SInv'
<1>1. SharedSoundly(input, work, current, ans, Silenced, closed) /\ ~Silenced.live
  BY SilencedKeeps DEF SInv
<1>2. SharedSoundly(input, work, current, Dropped(ans), Silenced, closed) /\ ~Dropped(ans).live
  BY <1>1, DroppedKeeps
<1>3. work' = CancelledWorks(work) BY DEF Close, CancelledWorks
<1>4. /\ SharedSoundly(input, work', current, Dropped(ans), Silenced, TRUE)
      /\ \A w \in Works : work'[w].turn = work[w].turn
  BY <1>1, <1>2, <1>3, ClosedKeeps
<1> QED BY <1>4, Kept DEF Close, SInv

\* The turn is committed, and valid work with it.
LEMMA CommitTurnKeeps ==
  ASSUME SInv, CommitTurn
  PROVE  SInv'
<1> DEFINE key == IF current # 0 /\ Valid(current) /\ ~work[current].committed
                  THEN current ELSE 0
           ws == IF key = 0 THEN work ELSE [work EXCEPT ![key].committed = TRUE]
           b == [starts |-> input.starts, live |-> TRUE, used |-> FALSE, key |-> key,
                 pc |-> IF key = 0 THEN "stt" ELSE "promote"]
<1>0. SharedSoundly(input, work, current, ans, gen, closed) /\ current \in 0..MaxWorks
  BY DEF SInv, SharedSoundly
<1>1. /\ ~closed
      /\ work' = Revised(ws) /\ ans' = b
      /\ input' = [input EXCEPT !.phase = "listening", !.turn = 0]
      /\ UNCHANGED <<current, gen, hist, closed>>
  BY DEF CommitTurn
<1>2. CASE key = 0
  <2>1. SharedSoundly(input', Revised(work), current, ans, gen, closed)
        /\ \A w \in Works : Revised(work)[w].turn = work[w].turn
    BY <1>0, <1>1, ListeningType, RevisedKeeps
  <2>2. ws = work /\ b.key = 0 /\ b.pc = "stt" BY <1>2
  <2>3. b \in AnswererRecord BY <1>0, <1>2 DEF SharedSoundly, InputRecord, AnswererRecord
  <2> HIDE DEF b, ws
  <2>4. Answering(Revised(work), current, b, gen, closed)
    BY <2>2, <2>3, <1>1 DEF Answering
  <2>5. SharedSoundly(input', Revised(work), current, b, gen, closed)
    BY <2>1, <2>4, AnswererKeeps
  <2> QED BY <2>1, <2>2, <2>5, <1>1, Kept DEF SInv
<1>3. CASE key # 0
  <2> DEFINE o == work[current]
             k == [o EXCEPT !.committed = TRUE]
  <2>0. current \in Works /\ key = current /\ Valid(current) /\ ~o.committed
    BY <1>0, <1>3 DEF Works
  <2>1. /\ WorkOK(o) /\ o \in WorkRecord /\ Placed(input, work, current, gen, closed, current)
        /\ Valid(current) = ValidIn(work, current, gen, closed, current)
    BY <2>0, WorkFacts
  <2>2. o.fresh /\ o.state # "promoted" /\ o.pc # "none" /\ o.starts = input.starts
        /\ ~o.cancelled
    <3>1. o.state # "promoted" BY <2>0, <2>1 DEF WorkOK
    <3>2. o.fresh /\ ~o.cancelled BY <3>1, <2>0, <2>1 DEF ValidIn
    <3>3. o.starts = input.starts BY <3>2, <2>1 DEF Placed
    <3>4. o.pc # "none" BY <1>0, <2>0 DEF SharedSoundly, Works
    <3> QED BY <3>1, <3>2, <3>3, <3>4
  <2>3. /\ k \in WorkRecord /\ k.turn = o.turn /\ k.starts = o.starts /\ k.fresh = o.fresh
        /\ k.committed = TRUE /\ k.state = o.state /\ k.ready = o.ready
        /\ k.cancelled = o.cancelled /\ k.snap = o.snap /\ k.produced = o.produced
        /\ k.deltas = o.deltas /\ k.terminal = o.terminal /\ k.asleep = o.asleep /\ k.pc = o.pc
    BY <2>1 DEF WorkRecord
  <2>4. ws = [work EXCEPT ![current] = k]
    BY <2>0, <1>3
  <2>5. b.key = current /\ b.pc = "promote" /\ b.starts = input.starts BY <2>0, <1>3
  <2>6. b \in AnswererRecord
    BY <1>0, <1>3 DEF SharedSoundly, InputRecord, AnswererRecord
  <2> HIDE DEF k, b, ws, key
  <2>7. WorkOK(k)
    BY <2>1, <2>2, <2>3 DEF WorkOK
  <2>8. Heir(work, current, gen, closed, current, k)
    BY <2>1, <2>2, <2>3, <2>7 DEF Heir, Running, Feeds, Held, Placed
  <2>9. SharedSoundly(input, ws, current, ans, gen, closed)
    BY <2>0, <2>2, <2>4, <2>8, <1>0, Inherit
  <2>10. /\ SharedSoundly(input', Revised(ws), current, ans, gen, closed)
         /\ \A w \in Works : Revised(ws)[w].turn = ws[w].turn
    BY <2>9, <1>1, ListeningType, RevisedKeeps
  <2>11. /\ Revised(ws)[current].committed /\ Revised(ws)[current].starts = input.starts
         /\ Revised(ws)[current].state # "promoted"
    <3>1. ws[current] = k /\ Revised(ws)[current] = [k EXCEPT !.fresh = FALSE]
      BY <2>0, <2>4, <1>0 DEF Revised, SharedSoundly
    <3> QED BY <3>1, <2>2, <2>3 DEF WorkRecord
  <2>12. Answering(Revised(ws), current, b, gen, closed)
    BY <2>0, <2>5, <2>6, <2>11, <1>1 DEF Answering, Works
  <2>13. SharedSoundly(input', Revised(ws), current, b, gen, closed)
    BY <2>10, <2>12, AnswererKeeps
  <2>14. \A w \in Works : ws[w].turn = work[w].turn
    BY <2>3, <2>4, <1>0 DEF SharedSoundly
  <2> QED BY <2>10, <2>13, <2>14, <1>1, Kept DEF SInv
<1> QED BY <1>2, <1>3

\* Works are used in their order: the next one is the first unused.
LEMMA NextUnused ==
  ASSUME NEW n \in 0..MaxWorks, \A w \in Works : (work[w].pc = "none") <=> (n < w),
         Unused # {}
  PROVE  n + 1 \in Works /\ NextWork = n + 1
<1>1. PICK u \in Works : n < u BY DEF Unused
<1>2. n + 1 \in Works /\ n + 1 \in Unused BY <1>1 DEF Works, Unused
<1>3. \A v \in Unused : n + 1 <= v BY DEF Unused, Works
<1>4. \A x \in Unused : (\A v \in Unused : x <= v) => x = n + 1
  BY <1>2, <1>3 DEF Unused, Works
<1>5. NextWork \in Unused /\ \A v \in Unused : NextWork <= v
  BY <1>2, <1>3 DEF NextWork
<1> QED BY <1>2, <1>4, <1>5

\* The work a speculation starts with.
Started == [NoWork EXCEPT !.turn = input.turn, !.starts = input.starts,
                          !.state = "open", !.fresh = TRUE, !.timer = TRUE, !.pc = "stt"]

LEMMA StartedFields ==
  ASSUME SInv
  PROVE  /\ Started \in WorkRecord /\ WorkOK(Started)
         /\ Started.turn = input.turn /\ Started.starts = input.starts
         /\ Started.state = "open" /\ Started.fresh = TRUE /\ Started.committed = FALSE
         /\ Started.cancelled = FALSE /\ Started.produced = 0 /\ Started.deltas = <<>>
         /\ Started.pc = "stt"
<1>1. input \in InputRecord BY DEF SInv, SharedSoundly
<1>2. input.turn \in 0..MaxSpeech /\ input.starts \in 0..MaxSpeech BY <1>1 DEF InputRecord
<1> DEFINE s1 == [NoWork EXCEPT !.turn = input.turn, !.starts = input.starts, !.state = "open"]
           s2 == [s1 EXCEPT !.fresh = TRUE, !.timer = TRUE, !.pc = "stt"]
<1>3. NoWork \in WorkRecord
  <2>1. 0 \in 0..MaxSpeech /\ 0 \in 0..MaxDeltas OBVIOUS
  <2> QED BY <2>1, EmptySeq DEF NoWork, WorkRecord, Sleepers
<1>4. /\ s1 \in WorkRecord /\ s1.turn = input.turn /\ s1.starts = input.starts
      /\ s1.state = "open"
  BY <1>2, <1>3 DEF WorkRecord
<1>5. /\ s1.committed = FALSE /\ s1.cancelled = FALSE /\ s1.produced = 0 /\ s1.deltas = <<>>
      /\ s1.ready = FALSE /\ s1.terminal = "none"
  BY DEF NoWork
<1> HIDE DEF s1
<1>6. /\ s2 \in WorkRecord /\ s2.turn = s1.turn /\ s2.starts = s1.starts /\ s2.state = s1.state
      /\ s2.fresh = TRUE /\ s2.pc = "stt"
      /\ s2.committed = s1.committed /\ s2.cancelled = s1.cancelled
      /\ s2.produced = s1.produced /\ s2.deltas = s1.deltas
      /\ s2.ready = s1.ready /\ s2.terminal = s1.terminal
  BY <1>4 DEF WorkRecord
<1>7. Started = s2 BY DEF Started, s1
<1> HIDE DEF s2
<1>8. WorkOK(s2)
  BY <1>4, <1>5, <1>6, EmptySeq DEF WorkOK
<1> QED BY <1>4, <1>5, <1>6, <1>7, <1>8

\* A speculation starts: nobody is at work, and the work before it is stale.
LEMMA StartSpeculationKeeps ==
  ASSUME SInv, StartSpeculation
  PROVE  SInv'
<1> DEFINE x == NextWork
           t == input.turn
<1>0. /\ SharedSoundly(input, work, current, ans, gen, closed)
      /\ \A w \in Works : WorkOK(work[w]) /\ Placed(input, work, current, gen, closed, w)
      /\ Answering(work, current, ans, gen, closed) /\ Consuming(work, gen, closed)
      /\ work \in [Works -> WorkRecord]
  BY DEF SInv, SharedSoundly
<1>1. PICK n \in 0..MaxWorks : \A w \in Works : (work[w].pc = "none") <=> (n < w)
  BY <1>0 DEF SharedSoundly, InOrder
<1>2. x = n + 1 /\ x \in Works
  BY <1>1, NextUnused DEF StartSpeculation
<1>3. work[x].pc = "none" /\ work[x] = NoWork
  BY <1>0, <1>1, <1>2 DEF WorkOK
<1>4. /\ ~closed /\ ~Busy /\ Attempts(t) < MaxAttempts
      /\ current' = x /\ work' = [work EXCEPT ![x] = Started]
      /\ UNCHANGED <<input, ans, gen, hist, closed>>
  BY DEF StartSpeculation, Started
<1> HIDE DEF x
<1>5. work'[x] = Started /\ \A w \in Works \ {x} : work'[w] = work[w]
  BY <1>0, <1>2, <1>4
<1>6. work' \in [Works -> WorkRecord]
  BY <1>0, <1>4, StartedFields
<1>7. ~Running(work[x]) /\ \A w \in Works : ~Running(work[w])
  BY <1>2, <1>4 DEF Busy, Running
<1>8. \A w \in Works : WorkOK(work'[w])
  BY <1>0, <1>5, StartedFields
<1>9. ASSUME NEW w \in Works PROVE Placed(input', work', current', gen', closed', w)
  <2>1. CASE w = x
    <3>1. gen.work # x
      BY <1>0, <1>2, <1>3 DEF Consuming, NoWork
    <3>2. Read(gen, x) = 0 BY <3>1 DEF Read
    <3>3. Len(Started.deltas) = 0 /\ Held(Started) = 0 /\ Follows(0, Started.deltas)
      BY StartedFields, EmptySeq DEF Held, Follows
    <3> QED BY <2>1, <3>2, <3>3, <1>4, <1>5, StartedFields DEF Placed
  <2>2. CASE w # x
    <3>1. ValidIn(work', current', gen', closed', w) => ValidIn(work, current, gen, closed, w)
      BY <2>2, <1>4, <1>5 DEF ValidIn
    <3> QED BY <2>2, <3>1, <1>0, <1>4, <1>5 DEF Placed
  <2> QED BY <2>1, <2>2
<1>10. InOrder(work')
  <2>1. n + 1 \in 0..MaxWorks BY <1>2 DEF Works
  <2>2. \A w \in Works : (work'[w].pc = "none") <=> (n + 1 < w)
    <3> TAKE w \in Works
    <3>1. CASE w = x BY <3>1, <1>2, <1>5, StartedFields DEF Works
    <3>2. CASE w # x BY <3>2, <1>1, <1>2, <1>5 DEF Works
    <3> QED BY <3>1, <3>2
  <2> QED BY <2>1, <2>2 DEF InOrder
<1>11. AtMostOne(work')
  BY <1>5, <1>7 DEF AtMostOne
<1>12. Answering(work', current', ans', gen', closed')
  <2>1. ans.key \in 0..MaxWorks BY <1>0 DEF Answering, AnswererRecord
  <2>2. ans.key # 0 => ans.key \in Works /\ ans.key # x
    BY <2>1, <1>0, <1>3 DEF Works, Answering, NoWork
  <2>3. ~(ans.pc = "wait" /\ ans.live /\ "answerer" \in work[ans.key].asleep)
    <3> SUFFICES ASSUME ans.pc = "wait", ans.live, "answerer" \in work[ans.key].asleep
                 PROVE  FALSE
      OBVIOUS
    <3> DEFINE k == work[ans.key]
    <3>1. ans.key \in Works BY <2>2, <1>0 DEF Answering
    <3>2. ~k.ready /\ k.committed /\ ValidIn(work, current, gen, closed, ans.key)
      BY <3>1, <1>0 DEF Answering, Works
    <3>3. k.pc \notin {"none", "recv", "full", "exiting", "exited"}
      BY <3>1, <3>2, <1>0 DEF Placed, WorkOK, NoWork
    <3> QED BY <3>1, <3>3, <1>7 DEF Running
  <2> QED BY <2>2, <2>3, <1>0, <1>4, <1>5 DEF Answering
<1>13. Consuming(work', gen', closed')
  <2>1. gen.work \in 0..MaxWorks BY <1>0 DEF Consuming, GenRecord
  <2>2. gen.work # 0 => gen.work \in Works /\ gen.work # x
    BY <2>1, <1>0, <1>3 DEF Works, Consuming, NoWork
  <2> QED BY <2>2, <1>0, <1>4, <1>5 DEF Consuming
<1>14. current' # 0 => work'[current'].pc # "none"
  BY <1>4, <1>5, StartedFields
<1>15. SharedSoundly(input', work', current', ans', gen', closed')
  <2>1. /\ input' \in InputRecord /\ current' \in 0..MaxWorks /\ closed' \in BOOLEAN
    BY <1>0, <1>2, <1>4 DEF SharedSoundly, Works
  <2>2. \A w \in Works : WorkOK(work'[w]) /\ Placed(input', work', current', gen', closed', w)
    BY <1>8, <1>9
  <2> QED BY <2>1, <2>2, <1>6, <1>10, <1>11, <1>12, <1>13, <1>14 DEF SharedSoundly
<1>16. AttemptsBounded'
  <2> SUFFICES ASSUME NEW y \in 1..MaxSpeech PROVE Attempts(y)' <= MaxAttempts
    BY DEF AttemptsBounded
  <2> DEFINE W == {w \in Works : work[w].turn = y}
             V == {w \in Works : work'[w].turn = y}
  <2>1. IsFiniteSet(W) /\ W \subseteq Works /\ x \notin W
    <3>1. IsFiniteSet(Works) BY FS_Interval DEF Works
    <3>2. x \notin W BY <1>3 DEF NoWork
    <3> QED BY <3>1, <3>2, FS_Subset
  <2>2. Attempts(y) = Cardinality(W) /\ Attempts(y)' = Cardinality(V)
    BY DEF Attempts, Works
  <2>3. Attempts(y) <= MaxAttempts
    BY DEF SInv, AttemptsBounded
  <2>4. CASE y = t
    <3>1. V = W \cup {x}
      <4>1. work'[x].turn = y BY <2>4, <1>5, StartedFields
      <4> QED BY <4>1, <1>2, <1>5
    <3>2. Cardinality(W \cup {x}) = Cardinality(W) + 1
      BY <2>1, FS_AddElement
    <3>3. Cardinality(W) \in Nat BY <2>1, FS_CardinalityType
    <3>4. Cardinality(W) < MaxAttempts BY <2>2, <2>4, <1>4
    <3> HIDE DEF V, W
    <3>5. Cardinality(V) <= MaxAttempts BY <3>1, <3>2, <3>3, <3>4
    <3> QED BY <3>5, <2>2
  <2>5. CASE y # t
    <3>1. V = W BY <2>1, <2>5, <1>5, StartedFields
    <3> QED BY <3>1, <2>2, <2>3
  <2> QED BY <2>4, <2>5
<1> QED BY <1>4, <1>15, <1>16 DEF SInv

-----------------------------------------------------------------------------
(* The answerer.                                                           *)

\* Where it is changes nothing as long as it does not sleep there.
LEMMA AnswererMoves ==
  ASSUME NEW i, NEW ws, NEW c, NEW a, NEW g, NEW cl, SharedSoundly(i, ws, c, a, g, cl),
         NEW p \in {"promote", "waitDone", "stt", "gone"},
         p = "promote" => a.pc = "wait",
         p = "waitDone" => a.pc = "promote"
  PROVE  SharedSoundly(i, ws, c, [a EXCEPT !.pc = p], g, cl)
<1> DEFINE b == [a EXCEPT !.pc = p]
<1>1. Answering(ws, c, a, g, cl) BY DEF SharedSoundly
<1>2. /\ b \in AnswererRecord /\ b.starts = a.starts /\ b.live = a.live /\ b.used = a.used
      /\ b.key = a.key /\ b.pc = p
  BY <1>1 DEF Answering, AnswererRecord
<1> HIDE DEF b
<1>3. Answering(ws, c, b, g, cl)
  BY <1>1, <1>2 DEF Answering
<1>4. SharedSoundly(i, ws, c, b, g, cl)
  BY <1>3, AnswererKeeps
<1> QED BY <1>4 DEF b

\* The work an answerer is to adopt.
LEMMA KeyFacts ==
  ASSUME SInv, ans.pc \in {"promote", "wait", "waitDone"}
  PROVE  /\ ans.key \in Works /\ work[ans.key].committed /\ work[ans.key].starts = ans.starts
         /\ work[ans.key].pc # "none" /\ work[ans.key].state # "none"
<1>1. Answering(work, current, ans, gen, closed) /\ ans.key \in 0..MaxWorks
  BY DEF SInv, SharedSoundly, Answering, AnswererRecord
<1>2. ans.key \in Works BY <1>1 DEF Answering, Works
<1>3. WorkOK(work[ans.key]) BY <1>2 DEF SInv, SharedSoundly
<1> QED BY <1>1, <1>2, <1>3 DEF Answering, WorkOK, NoWork

LEMMA PromotionFailsKeeps ==
  ASSUME SInv, PromotionFails
  PROVE  SInv'
<1> DEFINE w == ans.key
<1>1. ans.pc = "promote" /\ w \in Works /\ WorkOK(work[w]) /\ work[w].pc # "none"
  BY KeyFacts DEF PromotionFails, SInv, SharedSoundly
<1>2. work[w].state # "promoted"
  BY <1>1 DEF SInv, SharedSoundly, Answering
<1>3. SharedSoundly(input, work, current, ans, gen, closed) BY DEF SInv
<1>4. CASE /\ \E p \in {"gone", "stt", "waitDone"} : AnswererAt(p)
           /\ UNCHANGED <<input, work, current, gen, hist, closed>>
  <2>1. PICK p \in {"gone", "stt", "waitDone"} : AnswererAt(p) BY <1>4
  <2>2. SharedSoundly(input, work, current, ans', gen, closed)
    BY <2>1, <1>1, <1>3, AnswererMoves DEF AnswererAt
  <2> QED BY <2>2, <1>4, Kept DEF SInv
<1>5. CASE /\ work' = [work EXCEPT ![w] = Ended(@)]
           /\ UNCHANGED <<input, current, ans, gen, hist, closed>>
  <2>1. Heir(work, current, gen, closed, w, Ended(work[w]))
    BY <1>1, <1>2, EndedHeir
  <2>2. Becomes(w, Ended(work[w])) BY <1>5 DEF Becomes
  <2> QED BY <2>1, <2>2, <1>1, BecomesHeir
<1>6. \/ /\ \E p \in {"gone", "stt", "waitDone"} : AnswererAt(p)
         /\ UNCHANGED <<input, work, current, gen, hist, closed>>
      \/ /\ work' = [work EXCEPT ![w] = Ended(@)]
         /\ UNCHANGED <<input, current, ans, gen, hist, closed>>
  BY DEF PromotionFails
<1> QED BY <1>4, <1>5, <1>6

LEMMA PromotionWaitsKeeps ==
  ASSUME SInv, PromotionWaits
  PROVE  SInv'
<1> DEFINE w == ans.key
           o == work[w]
           k == [o EXCEPT !.asleep = @ \cup {"answerer"}]
           b == [ans EXCEPT !.pc = "wait"]
           wt == [work EXCEPT ![w] = k]
<1>0. /\ w \in Works /\ o.committed /\ o.pc # "none" /\ o.starts = ans.starts
      /\ o.state # "promoted" /\ Valid(w) /\ ~o.ready
  BY KeyFacts DEF PromotionWaits
<1>1. /\ WorkOK(o) /\ o \in WorkRecord /\ Placed(input, work, current, gen, closed, w)
      /\ Valid(w) = ValidIn(work, current, gen, closed, w)
  BY <1>0, WorkFacts
<1>2. work' = wt /\ ans' = b /\ UNCHANGED <<input, current, gen, hist, closed>>
  BY DEF PromotionWaits, AnswererAt
<1>3. /\ k \in WorkRecord /\ k.turn = o.turn /\ k.starts = o.starts /\ k.fresh = o.fresh
      /\ k.committed = o.committed /\ k.state = o.state /\ k.ready = o.ready
      /\ k.cancelled = o.cancelled /\ k.snap = o.snap /\ k.produced = o.produced
      /\ k.deltas = o.deltas /\ k.terminal = o.terminal /\ k.pc = o.pc
      /\ k.asleep = o.asleep \cup {"answerer"}
  BY <1>1 DEF WorkRecord, Sleepers
<1>4. Answering(work, current, ans, gen, closed) /\ work \in [Works -> WorkRecord]
  BY DEF SInv, SharedSoundly
<1>5. /\ b \in AnswererRecord /\ b.starts = ans.starts /\ b.live = ans.live
      /\ b.key = w
  BY <1>4 DEF Answering, AnswererRecord
<1> HIDE DEF k, b
<1>6. WorkOK(k)
  BY <1>1, <1>3, <1>0 DEF WorkOK
<1>7. Heir(work, current, gen, closed, w, k)
  BY <1>0, <1>1, <1>3, <1>6 DEF Heir, Running, Feeds, Held, Placed, ValidIn
<1>8. SharedSoundly(input, wt, current, ans, gen, closed)
  BY <1>0, <1>7, Inherit DEF SInv
<1>9. wt[w] = k BY <1>0, <1>4
<1>10. ValidIn(wt, current, gen, closed, w)
  BY <1>0, <1>1, <1>3, <1>9 DEF ValidIn
<1>11. w # 0 BY <1>0 DEF Works
<1> HIDE DEF wt, w
<1>12. Answering(wt, current, b, gen, closed)
  BY <1>0, <1>3, <1>4, <1>5, <1>9, <1>10, <1>11 DEF Answering
<1>13. SharedSoundly(input, wt, current, b, gen, closed)
  BY <1>8, <1>12, AnswererKeeps
<1>14. \A v \in Works : wt[v].turn = work[v].turn
  BY <1>3, <1>4 DEF wt
<1> QED BY <1>2, <1>13, <1>14, Kept DEF SInv

LEMMA AnswererWakesKeeps ==
  ASSUME SInv, AnswererWakes
  PROVE  SInv'
<1>1. \E p \in {"promote", "stt", "gone"} :
        ans' = [ans EXCEPT !.pc = p] /\ (p = "promote" => ans.pc = "wait")
  BY DEF AnswererWakes, AnswererAt
<1>2. PICK p \in {"promote", "stt", "gone"} :
        ans' = [ans EXCEPT !.pc = p] /\ (p = "promote" => ans.pc = "wait")
  BY <1>1
<1>3. SharedSoundly(input, work, current, ans', gen, closed)
  BY <1>2, AnswererMoves DEF SInv
<1> QED BY <1>3, Kept DEF AnswererWakes, SInv

\* The answerer is done with its context.
UsedUp(a) == [a EXCEPT !.used = TRUE, !.pc = "gone"]

LEMMA UsedMoves ==
  ASSUME NEW i, NEW ws, NEW c, NEW a, NEW g, NEW cl, SharedSoundly(i, ws, c, a, g, cl)
  PROVE  SharedSoundly(i, ws, c, UsedUp(a), g, cl) /\ UsedUp(a).pc = "gone"
<1> DEFINE b == UsedUp(a)
<1>1. Answering(ws, c, a, g, cl) BY DEF SharedSoundly
<1>2. /\ b \in AnswererRecord /\ b.starts = a.starts /\ b.live = a.live
      /\ b.key = a.key /\ b.pc = "gone"
  BY <1>1 DEF Answering, AnswererRecord, UsedUp
<1> HIDE DEF b
<1>3. Answering(ws, c, b, g, cl)
  BY <1>1, <1>2 DEF Answering
<1>4. SharedSoundly(i, ws, c, b, g, cl)
  BY <1>3, AnswererKeeps
<1> QED BY <1>2, <1>4 DEF b

LEMMA TranscribedKeeps ==
  ASSUME SInv, Transcribed
  PROVE  SInv'
<1>1. CASE AnswererAt("gone") /\ UNCHANGED <<gen, hist>>
  <2>1. SharedSoundly(input, work, current, ans', gen, closed)
    BY <1>1, AnswererMoves DEF SInv, AnswererAt
  <2> QED BY <2>1, <1>1, Kept DEF Transcribed, SInv
<1>2. CASE /\ ans.live /\ ~ans.used /\ gen.id < MaxGens
           /\ ans' = [ans EXCEPT !.used = TRUE, !.pc = "gone"]
           /\ hist' \in HistoryAfter
           /\ gen' = Began(0, "fresh", hist')
  <2>1. ~closed
    BY <1>2 DEF SInv, SharedSoundly, Answering
  <2>2. hist' \in Nat BY <1>2, HistoryAfterType
  <2>3. SharedSoundly(input, work, current, ans', gen, closed)
    <3>1. SharedSoundly(input, work, current, ans, gen, closed) BY DEF SInv
    <3>2. SharedSoundly(input, work, current, UsedUp(ans), gen, closed)
      BY <3>1, UsedMoves
    <3> QED BY <3>2, <1>2 DEF UsedUp
  <2>4. SharedSoundly(input, work, current, ans', gen', closed)
    BY <2>1, <2>2, <2>3, <1>2, BeganKeeps
  <2> QED BY <2>2, <2>4, Kept DEF Transcribed
<1> QED BY <1>1, <1>2 DEF Transcribed

\* Work adopted, whatever becomes of the generation it is adopted for.
Adopted(k) == [k EXCEPT !.state = "promoted", !.timer = FALSE]

LEMMA AdoptedFields ==
  ASSUME NEW k, WorkOK(k), k.ready, k.committed, k.pc # "none"
  PROVE  /\ Adopted(k) \in WorkRecord /\ WorkOK(Adopted(k))
         /\ Adopted(k).turn = k.turn /\ Adopted(k).starts = k.starts
         /\ Adopted(k).fresh = k.fresh /\ Adopted(k).committed = k.committed
         /\ Adopted(k).state = "promoted" /\ Adopted(k).ready = k.ready
         /\ Adopted(k).cancelled = k.cancelled /\ Adopted(k).snap = k.snap
         /\ Adopted(k).produced = k.produced /\ Adopted(k).deltas = k.deltas
         /\ Adopted(k).terminal = k.terminal /\ Adopted(k).asleep = k.asleep
         /\ Adopted(k).pc = k.pc
<1> DEFINE p == Adopted(k)
<1>1. k \in WorkRecord BY DEF WorkOK
<1>2. /\ p \in WorkRecord
      /\ p.turn = k.turn /\ p.starts = k.starts
      /\ p.fresh = k.fresh /\ p.committed = k.committed
      /\ p.state = "promoted" /\ p.ready = k.ready
      /\ p.cancelled = k.cancelled /\ p.snap = k.snap
      /\ p.produced = k.produced /\ p.deltas = k.deltas
      /\ p.terminal = k.terminal /\ p.asleep = k.asleep /\ p.pc = k.pc
  BY <1>1 DEF WorkRecord, Adopted
<1> HIDE DEF p
<1>3. WorkOK(p)
  BY <1>2 DEF WorkOK
<1> QED BY <1>2, <1>3 DEF p

LEMMA AdoptedKeeps ==
  ASSUME NEW i, NEW ws, NEW c, NEW a, NEW g, NEW cl, SharedSoundly(i, ws, c, a, g, cl),
         NEW w \in Works, ws[w].pc # "none", ws[w].state # "promoted", ws[w].ready,
         ws[w].committed, a.pc \notin {"promote", "wait"}
  PROVE  SharedSoundly(i, [ws EXCEPT ![w] = Adopted(ws[w])], c, a, g, cl)
<1> DEFINE p == Adopted(ws[w])
           wt == [ws EXCEPT ![w] = p]
<1>0. /\ WorkOK(ws[w]) /\ Answering(ws, c, a, g, cl) /\ Consuming(ws, g, cl)
      /\ ws \in [Works -> WorkRecord]
  BY DEF SharedSoundly
<1>1. /\ p \in WorkRecord /\ WorkOK(p) /\ p.turn = ws[w].turn /\ p.starts = ws[w].starts
      /\ p.fresh = ws[w].fresh /\ p.committed /\ p.state = "promoted" /\ p.ready
      /\ p.cancelled = ws[w].cancelled /\ p.pc = ws[w].pc
  BY <1>0, AdoptedFields
<1> HIDE DEF p
<1>2. wt[w] = p /\ \A v \in Works \ {w} : wt[v] = ws[v]
  BY <1>0
<1>3. wt \in [Works -> WorkRecord] BY <1>0, <1>1
<1>4. g.work # w BY <1>0 DEF Consuming, Works
<1> HIDE DEF wt
<1>5. ASSUME NEW v \in Works PROVE WorkOK(wt[v]) /\ Placed(i, wt, c, g, cl, v)
  <2>1. CASE v = w
    <3>1. ~Feeds(p, g, w) /\ ~ValidIn(wt, c, g, cl, w)
      BY <1>1, <1>2, <1>4 DEF Feeds, ValidIn
    <3>2. Placed(i, ws, c, g, cl, w) BY DEF SharedSoundly
    <3> QED BY <2>1, <3>1, <3>2, <1>1, <1>2 DEF Placed
  <2>2. CASE v # w
    <3>1. ValidIn(wt, c, g, cl, v) = ValidIn(ws, c, g, cl, v) BY <2>2, <1>2 DEF ValidIn
    <3>2. WorkOK(ws[v]) /\ Placed(i, ws, c, g, cl, v) BY DEF SharedSoundly
    <3> QED BY <2>2, <3>1, <3>2, <1>2 DEF Placed
  <2> QED BY <2>1, <2>2
<1>6. InOrder(wt) /\ AtMostOne(wt) /\ (c # 0 => wt[c].pc # "none")
  <2>1. \A v \in Works : wt[v].pc = ws[v].pc BY <1>1, <1>2
  <2>2. InOrder(wt) BY <2>1 DEF SharedSoundly, InOrder
  <2>3. AtMostOne(wt) BY <2>1 DEF SharedSoundly, AtMostOne, Running
  <2> QED BY <2>1, <2>2, <2>3 DEF SharedSoundly, Works
<1>7. Answering(wt, c, a, g, cl)
  <2>1. a.key # 0 => a.key \in Works BY <1>0 DEF Answering, AnswererRecord, Works
  <2> QED BY <2>1, <1>0, <1>1, <1>2 DEF Answering
<1>8. Consuming(wt, g, cl)
  <2>1. g.work # 0 => g.work \in Works \ {w}
    BY <1>0, <1>4 DEF Consuming, GenRecord, Works
  <2> QED BY <2>1, <1>0, <1>2 DEF Consuming
<1>9. SharedSoundly(i, wt, c, a, g, cl)
  BY <1>3, <1>5, <1>6, <1>7, <1>8 DEF SharedSoundly
<1> QED BY <1>9 DEF wt, p

\* PromoteSpeculation gets through: the transcript is adopted, with or without
\* the answer, or it was empty, or the conversation rejects it.
LEMMA PromoteKeeps ==
  ASSUME SInv, Promote
  PROVE  SInv'
<1> DEFINE w == ans.key
           o == work[w]
           p == Adopted(o)
           wt == [work EXCEPT ![w] = p]
           b == UsedUp(ans)
<1>1. /\ ans.pc = "promote" /\ w \in Works /\ o.committed /\ o.pc # "none"
      /\ o.state # "promoted" /\ Valid(w) /\ o.ready
  BY KeyFacts DEF Promote
<1>2. /\ WorkOK(o) /\ o \in WorkRecord /\ Placed(input, work, current, gen, closed, w)
      /\ Valid(w) = ValidIn(work, current, gen, closed, w) /\ Read(gen, w) \in Nat
  BY <1>1, WorkFacts
<1>3. ~o.cancelled /\ ~closed /\ o.state = "open"
  BY <1>1, <1>2 DEF ValidIn, WorkOK, WorkRecord
<1>4. /\ SharedSoundly(input, work, current, ans, gen, closed)
      /\ work \in [Works -> WorkRecord] /\ Consuming(work, gen, closed)
  BY DEF SInv, SharedSoundly
<1>5. SharedSoundly(input, work, current, b, gen, closed) /\ b.pc = "gone"
  BY <1>4, UsedMoves
<1>6. /\ p \in WorkRecord /\ WorkOK(p) /\ p.turn = o.turn /\ p.state = "promoted"
      /\ p.snap = o.snap /\ p.deltas = o.deltas /\ p.produced = o.produced
      /\ p.cancelled = o.cancelled /\ p.pc = o.pc /\ p.asleep = o.asleep
  BY <1>1, <1>2, AdoptedFields
<1>7. SharedSoundly(input, wt, current, b, gen, closed)
  BY <1>1, <1>5, AdoptedKeeps
<1> HIDE DEF p, b
<1>8. wt[w] = p /\ \A v \in Works \ {w} : wt[v] = work[v]
  BY <1>1, <1>4
<1>9. \A v \in Works : wt[v].turn = work[v].turn
  BY <1>6, <1>8
<1>10. gen.work # w /\ gen \in GenRecord
  BY <1>1, <1>4 DEF Consuming, Works
<1> HIDE DEF wt
<1>11. ASSUME NEW v \in Works, wt[v].state = "open"
       PROVE  /\ v # w /\ Feeds(wt[v], gen, v) = Feeds(work[v], gen, v)
              /\ gen.work # v
  BY <1>11, <1>4, <1>6, <1>8 DEF Consuming, Feeds, Works
<1>12. CASE /\ work' = wt /\ ans' = b /\ UNCHANGED <<gen, hist, input, current, closed>>
  BY <1>7, <1>9, <1>12, Kept DEF SInv
<1>13. CASE /\ \E h \in HistoryAfter : AdoptText(w, h)
            /\ ans' = b /\ UNCHANGED <<input, current, closed>>
  <2>1. PICK h \in HistoryAfter : AdoptText(w, h)
    BY <1>13
  <2>2. h \in Nat /\ hist' = h /\ gen.id < MaxGens
    BY <2>1, HistoryAfterType DEF AdoptText
  <2>3. CASE o.snap = h
    <3> DEFINE g == Began(w, "spec", h)
    <3>1. gen' = g /\ work' = wt
      <4>1. p = [work[w] EXCEPT !.state = "promoted", !.timer = FALSE]
        BY DEF p, Adopted
      <4>2. gen' = Began(w, IF p.snap = h THEN "spec" ELSE "fresh", h)
        BY <2>1, <4>1 DEF AdoptText
      <4>3. work' = [work EXCEPT ![w] = IF p.snap = h THEN p ELSE Discarded(p)]
        BY <2>1, <4>1 DEF AdoptText
      <4> QED BY <4>2, <4>3, <1>6, <2>3 DEF wt
    <3>2. /\ g \in GenRecord /\ g.live = TRUE /\ g.work = w /\ g.stream = "spec"
          /\ g.out = <<>> /\ g.rx = "recv" /\ g.request = h
      BY <1>1, <1>10, <2>2, EmptySeq DEF Began, GenRecord, Works
    <3> HIDE DEF g
    <3>3. Consuming(wt, g, closed)
      BY <3>2, <1>1, <1>3, <1>6, <1>8, <2>3, EmptySeq DEF Consuming, Follows, Works
    <3>4. ASSUME NEW v \in Works, Feeds(wt[v], g, v)
          PROVE  Follows(Read(g, v), wt[v].deltas)
                 /\ Read(g, v) + Len(wt[v].deltas) + Held(wt[v]) = wt[v].produced
      <4>1. CASE v = w
        <5>1. Read(g, w) = 0 BY <3>2, EmptySeq DEF Read
        <5>2. Read(gen, w) = 0 BY <1>10 DEF Read
        <5>3. Feeds(o, gen, w) BY <1>3 DEF Feeds
        <5> QED BY <4>1, <5>1, <5>2, <5>3, <1>2, <1>6, <1>8 DEF Placed, Held
      <4>2. CASE v # w
        <5>1. wt[v].state = "open" BY <4>2, <3>2, <3>4 DEF Feeds
        <5>2. Read(g, v) = Read(gen, v) BY <4>2, <5>1, <1>11, <3>2 DEF Read
        <5>3. Feeds(wt[v], gen, v) BY <3>4, <5>1 DEF Feeds
        <5> QED BY <5>2, <5>3, <1>7 DEF SharedSoundly, Placed
      <4> QED BY <4>1, <4>2
    <3>5. SharedSoundly(input, wt, current, b, g, closed)
      BY <1>7, <3>3, <3>4, GenerationKeeps
    <3> QED BY <1>9, <1>13, <2>2, <3>1, <3>5, Kept
  <2>4. CASE o.snap # h
    <3> DEFINE g == Began(w, "fresh", h)
               d == Discarded(p)
               wd == [wt EXCEPT ![w] = d]
    <3>1. gen' = g /\ work' = [work EXCEPT ![w] = d]
      BY <2>1, <2>4 DEF AdoptText, p, Adopted
    <3>2. /\ g \in GenRecord /\ g.live = TRUE /\ g.work = w /\ g.stream = "fresh"
          /\ g.out = <<>> /\ g.rx = "recv"
      BY <1>1, <1>10, <2>2, EmptySeq DEF Began, GenRecord, Works
    <3> HIDE DEF g
    <3>3. Heir(wt, current, gen, closed, w, d) /\ d.cancelled /\ d.state = "promoted"
      BY <1>6, <1>8, DiscardedHeir
    <3> HIDE DEF d
    <3>4. SharedSoundly(input, wd, current, b, gen, closed)
      BY <1>1, <1>6, <1>7, <1>8, <3>3, Inherit
    <3>5. work' = wd BY <3>1, <1>1, <1>4 DEF wt
    <3>6. wd[w] = d /\ (\A v \in Works \ {w} : wd[v] = wt[v])
      BY <1>7, <1>1 DEF SharedSoundly
    <3> HIDE DEF wd
    <3>7. Consuming(wd, g, closed)
      BY <3>2, <3>3, <3>6, <1>3, EmptySeq DEF Consuming
    <3>8. ASSUME NEW v \in Works, Feeds(wd[v], g, v)
          PROVE  Feeds(wd[v], gen, v) /\ Read(g, v) = Read(gen, v)
      <4>1. wd[v].state = "open" BY <3>2, <3>8 DEF Feeds
      <4>2. v # w /\ gen.work # v BY <4>1, <3>3, <3>6, <1>11
      <4> QED BY <4>1, <4>2, <3>2, <3>8 DEF Feeds, Read
    <3>9. SharedSoundly(input, wd, current, b, g, closed)
      BY <3>4, <3>7, <3>8, UnfedKeeps
    <3>10. \A v \in Works : wd[v].turn = work[v].turn
      BY <1>9, <1>8, <3>3, <3>6 DEF Heir
    <3> QED BY <1>13, <2>2, <3>1, <3>5, <3>9, <3>10, Kept
  <2> QED BY <2>3, <2>4
<1>14. CASE /\ work' = [work EXCEPT ![w] = Ended(@)] /\ AnswererAt("stt")
            /\ UNCHANGED <<gen, hist, input, current, closed>>
  <2> DEFINE wd == [work EXCEPT ![w] = Ended(o)]
  <2>1. Heir(work, current, gen, closed, w, Ended(o))
    BY <1>1, <1>2, EndedHeir
  <2>2. SharedSoundly(input, wd, current, ans, gen, closed)
    BY <1>1, <1>4, <2>1, Inherit
  <2>3. \A v \in Works : wd[v].turn = work[v].turn
    BY <1>4, <2>1 DEF Heir
  <2>4. work' = wd BY <1>14
  <2> HIDE DEF wd
  <2>5. SharedSoundly(input, wd, current, ans', gen, closed)
    BY <1>14, <2>2, AnswererMoves DEF AnswererAt
  <2> QED BY <1>14, <2>3, <2>4, <2>5, Kept DEF SInv
<1> QED BY <1>12, <1>13, <1>14 DEF Promote, wt, p, b, Adopted, UsedUp

-----------------------------------------------------------------------------
(* The consumer.                                                           *)

\* What it is reading.
LEMMA ReadingFacts ==
  ASSUME SInv, NEW w \in Works, Reading(w)
  PROVE  /\ WorkOK(work[w]) /\ work[w] \in WorkRecord /\ Consuming(work, gen, closed)
         /\ work[w].state = "promoted" /\ work[w].pc # "none" /\ w # 0
         /\ Valid(w) => ~work[w].cancelled
         /\ Valid(w) => /\ Follows(Len(gen.out), work[w].deltas)
                        /\ Len(gen.out) + Len(work[w].deltas) + Held(work[w]) = work[w].produced
         /\ Follows(0, gen.out) /\ gen \in GenRecord /\ gen.out \in Seq(0..MaxDeltas)
         /\ Len(gen.out) \in Nat /\ gen.work = w
<1>1. Consuming(work, gen, closed) BY DEF SInv, SharedSoundly
<1>2. /\ WorkOK(work[w]) /\ work[w] \in WorkRecord
      /\ Placed(input, work, current, gen, closed, w)
      /\ Valid(w) = ValidIn(work, current, gen, closed, w)
  BY WorkFacts
<1>3. gen.live /\ gen.stream = "spec" /\ gen.work = w /\ gen \in GenRecord
  BY <1>1 DEF Reading, Consuming
<1>4. w # 0 /\ work[w].state = "promoted" /\ Follows(0, gen.out)
  BY <1>1, <1>3 DEF Consuming, Works
<1>5. work[w].pc # "none" BY <1>2, <1>4 DEF WorkOK, NoWork
<1>6. Valid(w) => ~work[w].cancelled BY <1>2 DEF ValidIn
<1>7. Valid(w) => Feeds(work[w], gen, w) BY <1>3, <1>4, <1>6 DEF Feeds
<1>8. Read(gen, w) = Len(gen.out) BY <1>3 DEF Read
<1>9. gen.out \in Seq(0..MaxDeltas) /\ Len(gen.out) \in Nat
  BY <1>3, LenProperties DEF GenRecord
<1> QED BY <1>1, <1>2, <1>3, <1>4, <1>5, <1>6, <1>7, <1>8, <1>9 DEF Placed

\* A delta goes from the buffer to what was said, in its place.
LEMMA ReceiveDeltaKeeps ==
  ASSUME SInv, NEW w \in Works, ReceiveDelta(w)
  PROVE  SInv'
<1> DEFINE o == work[w]
           k == [Notified(o) EXCEPT !.deltas = Tail(o.deltas)]
           h == [gen EXCEPT !.out = Append(@, Head(o.deltas))]
           wt == [work EXCEPT ![w] = k]
<1>1. /\ Reading(w) /\ Valid(w) /\ o.deltas # <<>>
      /\ gen' = h /\ work' = wt /\ UNCHANGED <<input, current, ans, hist, closed>>
  BY DEF ReceiveDelta
<1>2. /\ WorkOK(o) /\ o \in WorkRecord /\ Consuming(work, gen, closed)
      /\ o.state = "promoted" /\ o.pc # "none" /\ w # 0 /\ ~o.cancelled
      /\ Follows(Len(gen.out), o.deltas)
      /\ Len(gen.out) + Len(o.deltas) + Held(o) = o.produced
      /\ Follows(0, gen.out) /\ gen \in GenRecord /\ gen.out \in Seq(0..MaxDeltas)
      /\ Len(gen.out) \in Nat /\ gen.work = w
  BY <1>1, ReadingFacts
<1>3. /\ o.deltas \in Seq(1..MaxDeltas) /\ Len(o.deltas) \in Nat
      /\ Len(o.deltas) <= Buffer /\ o.produced \in Nat
  BY <1>2, LenProperties DEF WorkRecord, WorkOK
<1>4. o.deltas \in Seq(Nat) /\ gen.out \in Seq(Nat)
  BY <1>2, <1>3, SeqDef
<1>5. Head(o.deltas) = Len(gen.out) + 1 /\ Follows(Len(gen.out) + 1, Tail(o.deltas))
  BY <1>1, <1>2, <1>4, FollowsTail
<1>6. /\ Head(o.deltas) \in 1..MaxDeltas /\ Tail(o.deltas) \in Seq(1..MaxDeltas)
      /\ Len(Tail(o.deltas)) = Len(o.deltas) - 1
  BY <1>1, <1>3, HeadTailProperties
<1>7. /\ Append(gen.out, Head(o.deltas)) \in Seq(0..MaxDeltas)
      /\ Len(Append(gen.out, Head(o.deltas))) = Len(gen.out) + 1
  <2>1. Head(o.deltas) \in 0..MaxDeltas BY <1>6
  <2> QED BY <2>1, <1>2, AppendProperties
<1>8. Follows(0, Append(gen.out, Head(o.deltas)))
  <2>1. Follows(0, Append(gen.out, 0 + Len(gen.out) + 1))
    BY <1>2, <1>4, FollowsAppend
  <2>2. 0 + Len(gen.out) + 1 = Len(gen.out) + 1 BY <1>2
  <2> QED BY <2>1, <2>2, <1>5
<1>9. /\ k \in WorkRecord /\ k.turn = o.turn /\ k.starts = o.starts /\ k.fresh = o.fresh
      /\ k.committed = o.committed /\ k.state = o.state /\ k.ready = o.ready
      /\ k.cancelled = o.cancelled /\ k.snap = o.snap /\ k.produced = o.produced
      /\ k.deltas = Tail(o.deltas) /\ k.terminal = o.terminal /\ k.asleep = {} /\ k.pc = o.pc
  BY <1>2, <1>6 DEF Notified, WorkRecord
<1>10. /\ h \in GenRecord /\ h.live = gen.live /\ h.work = gen.work /\ h.stream = gen.stream
       /\ h.request = gen.request /\ h.rx = gen.rx /\ h.out = Append(gen.out, Head(o.deltas))
  BY <1>2, <1>7 DEF GenRecord
<1> HIDE DEF k, h
<1>11. WorkOK(k)
  BY <1>2, <1>3, <1>6, <1>9 DEF WorkOK
<1>12. /\ SharedSoundly(input, work, current, ans, Silenced, closed)
       /\ ~Silenced.live
  BY SilencedKeeps DEF SInv
<1>13. Heir(work, current, Silenced, closed, w, k)
  BY <1>2, <1>9, <1>11, <1>12 DEF Heir, Running, Feeds, WorkOK
<1>14. SharedSoundly(input, wt, current, ans, Silenced, closed)
  BY <1>2, <1>12, <1>13, Inherit
<1>15. wt[w] = k /\ \A v \in Works \ {w} : wt[v] = work[v]
  BY DEF SInv, SharedSoundly
<1> HIDE DEF wt
<1>16. Consuming(wt, h, closed)
  BY <1>1, <1>2, <1>8, <1>9, <1>10, <1>15 DEF Consuming, Reading
<1>17. ASSUME NEW v \in Works, Feeds(wt[v], h, v)
       PROVE  Follows(Read(h, v), wt[v].deltas)
              /\ Read(h, v) + Len(wt[v].deltas) + Held(wt[v]) = wt[v].produced
  <2>1. CASE v = w
    <3>1. Read(h, w) = Len(gen.out) + 1
      BY <1>1, <1>2, <1>7, <1>10 DEF Read, Reading
    <3>2. Held(k) = Held(o) /\ Held(o) \in Nat BY <1>9 DEF Held
    <3>3. Len(gen.out) + 1 + (Len(o.deltas) - 1) + Held(o) = o.produced
      <4> DEFINE l == Len(gen.out)
                 n == Len(o.deltas)
                 m == Held(o)
      <4>1. l \in Nat /\ n \in Nat /\ m \in Nat /\ l + n + m = o.produced
        BY <1>2, <1>3, <3>2
      <4> HIDE DEF l, n, m
      <4>2. l + 1 + (n - 1) + m = l + n + m
        BY <4>1
      <4>3. l + 1 + (n - 1) + m = o.produced
        BY <4>1, <4>2
      <4> QED BY <4>3 DEF l, n, m
    <3>4. Follows(Read(h, w), k.deltas)
      BY <3>1, <1>5, <1>9
    <3>5. Read(h, w) + Len(k.deltas) + Held(k) = k.produced
      BY <3>1, <3>2, <3>3, <1>6, <1>9
    <3> QED BY <2>1, <3>4, <3>5, <1>15
  <2>2. CASE v # w
    <3>1. Read(h, v) = Read(gen, v) BY <2>2, <1>2, <1>10 DEF Read
    <3>2. Feeds(work[v], gen, v) BY <2>2, <1>15, <1>17, <1>10 DEF Feeds
    <3> QED BY <2>2, <3>1, <3>2, <1>15 DEF SInv, SharedSoundly, Placed
  <2> QED BY <2>1, <2>2
<1>18. SharedSoundly(input, wt, current, ans, h, closed)
  BY <1>14, <1>16, <1>17, GenerationKeeps
<1>19. \A v \in Works : wt[v].turn = work[v].turn
  BY <1>9, <1>15
<1> QED BY <1>1, <1>18, <1>19, Kept DEF SInv

\* The consumer finds nothing, and sleeps.
LEMMA ReceiveWaitsKeeps ==
  ASSUME SInv, NEW w \in Works, ReceiveWaits(w)
  PROVE  SInv'
<1> DEFINE o == work[w]
           k == [o EXCEPT !.asleep = @ \cup {"consumer"}]
           h == [gen EXCEPT !.rx = "waiting"]
           wt == [work EXCEPT ![w] = k]
<1>1. /\ Reading(w) /\ Valid(w) /\ o.deltas = <<>> /\ o.terminal = "none"
      /\ gen' = h /\ work' = wt /\ UNCHANGED <<input, current, ans, hist, closed>>
  BY DEF ReceiveWaits
<1>2. /\ WorkOK(o) /\ o \in WorkRecord /\ Consuming(work, gen, closed)
      /\ o.state = "promoted" /\ o.pc # "none" /\ gen \in GenRecord /\ gen.work = w
      /\ Placed(input, work, current, gen, closed, w)
  BY <1>1, ReadingFacts, WorkFacts
<1>3. /\ k \in WorkRecord /\ k.turn = o.turn /\ k.starts = o.starts /\ k.fresh = o.fresh
      /\ k.committed = o.committed /\ k.state = o.state /\ k.ready = o.ready
      /\ k.cancelled = o.cancelled /\ k.snap = o.snap /\ k.produced = o.produced
      /\ k.deltas = o.deltas /\ k.terminal = o.terminal /\ k.pc = o.pc
      /\ k.asleep = o.asleep \cup {"consumer"}
  BY <1>2 DEF WorkRecord, Sleepers
<1>4. /\ h \in GenRecord /\ h.live = gen.live /\ h.work = gen.work /\ h.stream = gen.stream
      /\ h.request = gen.request /\ h.rx = "waiting" /\ h.out = gen.out
  BY <1>2 DEF GenRecord
<1> HIDE DEF k, h
<1>5. WorkOK(k)
  BY <1>2, <1>3 DEF WorkOK
<1>6. Heir(work, current, gen, closed, w, k)
  BY <1>1, <1>2, <1>3, <1>5 DEF Heir, Running, Feeds, Held, Placed
<1>7. SharedSoundly(input, wt, current, ans, gen, closed)
  BY <1>2, <1>6, Inherit DEF SInv
<1>8. wt[w] = k /\ \A v \in Works \ {w} : wt[v] = work[v]
  BY DEF SInv, SharedSoundly
<1> HIDE DEF wt
<1>9. Consuming(wt, h, closed)
  BY <1>1, <1>3, <1>4, <1>2, <1>8 DEF Consuming
<1>10. \A v \in Works : /\ Feeds(wt[v], h, v) => Feeds(wt[v], gen, v)
                        /\ Read(h, v) = Read(gen, v)
  BY <1>4 DEF Feeds, Read
<1>11. SharedSoundly(input, wt, current, ans, h, closed)
  BY <1>7, <1>9, <1>10, UnfedKeeps
<1>12. \A v \in Works : wt[v].turn = work[v].turn
  BY <1>3, <1>8
<1> QED BY <1>1, <1>11, <1>12, Kept DEF SInv

LEMMA ReceiveWakesKeeps ==
  ASSUME SInv, NEW w \in Works, ReceiveWakes(w)
  PROVE  SInv'
<1>1. Consuming(work, gen, closed) BY DEF SInv, SharedSoundly
<1>2. /\ gen' \in GenRecord /\ gen'.live = gen.live /\ gen'.work = gen.work
      /\ gen'.request = gen.request /\ gen'.stream = gen.stream /\ gen'.out = gen.out
      /\ gen'.rx = "recv"
  BY <1>1 DEF Consuming, ReceiveWakes, GenRecord
<1>3. Consuming(work, gen', closed)
  BY <1>1, <1>2 DEF Consuming
<1>4. \A v \in Works : /\ Feeds(work[v], gen', v) => Feeds(work[v], gen, v)
                       /\ Read(gen', v) = Read(gen, v)
  BY <1>2 DEF Feeds, Read
<1>5. SharedSoundly(input, work, current, ans, gen', closed)
  BY <1>3, <1>4, UnfedKeeps DEF SInv
<1> QED BY <1>5, Kept DEF ReceiveWakes, SInv

\* The stream is over, for the consumer or for good: what it was fed is discarded.
LEMMA StreamOverKeeps ==
  ASSUME SInv, NEW w \in Works, ReceiveEof(w) \/ ReceiveFails(w)
  PROVE  SInv'
<1> DEFINE o == work[w]
           d == Discarded(o)
           wt == [work EXCEPT ![w] = d]
<1>1. /\ Reading(w) /\ work' = wt /\ UNCHANGED <<input, current, ans, hist, closed>>
  BY DEF ReceiveEof, ReceiveFails
<1>2. /\ WorkOK(o) /\ o \in WorkRecord /\ Consuming(work, gen, closed)
      /\ o.state = "promoted" /\ o.pc # "none" /\ gen \in GenRecord /\ gen.work = w /\ w # 0
      /\ Follows(0, gen.out) /\ Len(gen.out) \in Nat
  BY <1>1, ReadingFacts
<1>3. /\ Heir(work, current, gen, closed, w, d) /\ d.cancelled /\ d.state = "promoted"
      /\ d.produced = o.produced
  <2>1. WorkOK(o) /\ o.state = "promoted" BY <1>2
  <2>2. Heir(work, current, gen, closed, w, Discarded(o)) BY <2>1, DiscardedHeir
  <2>3. Discarded(o).cancelled /\ Discarded(o).state = "promoted" BY <2>1, DiscardedHeir
  <2>4. Discarded(o).produced = o.produced BY <2>1, DiscardedHeir
  <2> QED BY <2>2, <2>3, <2>4
<1> HIDE DEF d
<1>4. d.snap = o.snap /\ d.turn = o.turn
  BY <1>3 DEF Heir
<1>5. SharedSoundly(input, wt, current, ans, gen, closed)
  BY <1>2, <1>3, Inherit DEF SInv
<1>6. wt[w] = d /\ \A v \in Works \ {w} : wt[v] = work[v]
  BY DEF SInv, SharedSoundly
<1> HIDE DEF wt
<1>7. \/ gen' = [gen EXCEPT !.rx = "ended"] /\ Len(gen.out) = o.produced
      \/ gen' = [gen EXCEPT !.stream = "fresh"] /\ gen.out = <<>>
      \/ gen' = [gen EXCEPT !.rx = "failed"]
  <2>1. CASE ReceiveEof(w)
    <3>1. /\ Valid(w) /\ o.deltas = <<>> /\ o.terminal = "eof"
          /\ gen' = [gen EXCEPT !.rx = "ended"]
      BY <2>1 DEF ReceiveEof
    <3>2. Held(o) = 0 BY <3>1, <1>2 DEF Held, WorkOK
    <3>3. Len(gen.out) + Len(o.deltas) + Held(o) = o.produced
      BY <3>1, <1>1, ReadingFacts
    <3>4. Len(o.deltas) = 0 BY <3>1, EmptySeq
    <3> QED BY <3>1, <3>2, <3>3, <3>4, <1>2
  <2>2. CASE ReceiveFails(w)
    BY <2>2 DEF ReceiveFails
  <2> QED BY <2>1, <2>2, <1>1
<1>8. /\ gen' \in GenRecord /\ gen'.live = gen.live /\ gen'.work = gen.work
      /\ gen'.request = gen.request /\ gen'.out = gen.out
  BY <1>2, <1>7 DEF GenRecord
<1>9. \/ gen'.stream = "spec" /\ gen'.rx = "ended" /\ Len(gen.out) = o.produced
      \/ gen'.stream = "fresh" /\ gen'.rx = "recv" /\ gen.out = <<>>
      \/ gen'.stream = "spec" /\ gen'.rx = "failed"
  BY <1>1, <1>2, <1>7 DEF GenRecord, Reading
<1>10. gen.stream = "spec" /\ gen.live BY <1>1 DEF Reading
<1>11. Consuming(wt, gen', closed)
  BY <1>2, <1>3, <1>4, <1>6, <1>8, <1>9, <1>10, EmptySeq DEF Consuming
<1>12. ASSUME NEW v \in Works, Feeds(wt[v], gen', v)
       PROVE  Feeds(wt[v], gen, v) /\ Read(gen', v) = Read(gen, v)
  <2>1. v # w BY <1>3, <1>6, <1>12 DEF Feeds
  <2> QED BY <2>1, <1>2, <1>8, <1>12 DEF Feeds, Read
<1>13. SharedSoundly(input, wt, current, ans, gen', closed)
  BY <1>5, <1>11, <1>12, UnfedKeeps
<1>14. \A v \in Works : wt[v].turn = work[v].turn
  BY <1>4, <1>6
<1> QED BY <1>1, <1>13, <1>14, Kept DEF SInv

\* A stream of the generation's own.
LEMMA FreshStreamKeeps ==
  ASSUME SInv, FreshStream
  PROVE  SInv'
<1>1. Consuming(work, gen, closed) /\ gen \in GenRecord
  BY DEF SInv, SharedSoundly, Consuming
<1>2. gen.out \in Seq(0..MaxDeltas) /\ Len(gen.out) \in Nat /\ gen.stream = "fresh"
  BY <1>1, LenProperties DEF GenRecord, FreshStream
<1>3. /\ gen' \in GenRecord /\ gen'.live = gen.live /\ gen'.work = gen.work
      /\ gen'.stream = "fresh" /\ gen'.rx # "waiting"
      /\ \A j \in 1..Len(gen'.out) : gen'.out[j] = 0
  <2>1. CASE Len(gen.out) < MaxDeltas /\ gen' = [gen EXCEPT !.out = Append(@, 0)]
    <3>1. /\ Append(gen.out, 0) \in Seq(0..MaxDeltas)
          /\ Len(Append(gen.out, 0)) = Len(gen.out) + 1
          /\ \A j \in 1..Len(gen.out) : Append(gen.out, 0)[j] = gen.out[j]
          /\ Append(gen.out, 0)[Len(gen.out) + 1] = 0
      <4>1. 0 \in 0..MaxDeltas OBVIOUS
      <4> QED BY <4>1, <1>2, AppendProperties
    <3>2. \A j \in 1..Len(Append(gen.out, 0)) : Append(gen.out, 0)[j] = 0
      <4>1. \A j \in 1..Len(gen.out) : gen.out[j] = 0 BY <1>1, <1>2 DEF Consuming
      <4>2. \A j \in 1..Len(gen.out) + 1 : j \in 1..Len(gen.out) \/ j = Len(gen.out) + 1
        BY <1>2
      <4> QED BY <4>1, <4>2, <3>1
    <3>3. /\ gen' \in GenRecord /\ gen'.live = gen.live /\ gen'.work = gen.work
          /\ gen'.stream = gen.stream /\ gen'.rx = gen.rx /\ gen'.out = Append(gen.out, 0)
      BY <2>1, <3>1, <1>1 DEF GenRecord
    <3> QED BY <3>2, <3>3, <1>2 DEF FreshStream
  <2>2. CASE \E end \in {"ended", "failed"} : gen' = [gen EXCEPT !.rx = end]
    <3>1. /\ gen' \in GenRecord /\ gen'.live = gen.live /\ gen'.work = gen.work
          /\ gen'.stream = gen.stream /\ gen'.rx \in {"ended", "failed"}
          /\ gen'.out = gen.out
      BY <2>2, <1>1 DEF GenRecord
    <3> QED BY <3>1, <1>1, <1>2 DEF Consuming
  <2> QED BY <2>1, <2>2 DEF FreshStream
<1>4. Consuming(work, gen', closed)
  BY <1>1, <1>3 DEF Consuming
<1>5. ASSUME NEW v \in Works, Feeds(work[v], gen', v)
      PROVE  Feeds(work[v], gen, v) /\ Read(gen', v) = Read(gen, v)
  BY <1>2, <1>3, <1>5 DEF Feeds, Read
<1>6. SharedSoundly(input, work, current, ans, gen', closed)
  BY <1>4, <1>5, UnfedKeeps DEF SInv
<1> QED BY <1>6, Kept DEF FreshStream, SInv

-----------------------------------------------------------------------------
(* The invariant holds.                                                    *)

LEMMA InitSound == Init => SInv
<1> SUFFICES ASSUME Init PROVE SInv
  OBVIOUS
<1>1. NoWork \in WorkRecord
  <2>1. 0 \in 0..MaxSpeech /\ 0 \in 0..MaxDeltas OBVIOUS
  <2> QED BY <2>1, EmptySeq DEF NoWork, WorkRecord, Sleepers
<1>2. WorkOK(NoWork)
  BY <1>1, EmptySeq DEF WorkOK, NoWork
<1>3. \A w \in Works : work[w] = NoWork
  BY DEF Init
<1>4. ASSUME NEW w \in Works PROVE Placed(input, work, current, gen, closed, w)
  <2>1. ~NoWork.fresh /\ NoWork.pc = "none" /\ NoWork.state = "none"
    BY DEF NoWork
  <2> QED BY <2>1, <1>3, <1>4 DEF Placed, Feeds
<1>5. input \in InputRecord
  <2>1. 0 \in 0..MaxSpeech OBVIOUS
  <2> QED BY <2>1 DEF Init, InputRecord
<1>6. InOrder(work) /\ AtMostOne(work)
  <2>1. \A w \in Works : (work[w].pc = "none") <=> (0 < w)
    BY <1>3 DEF NoWork, Works
  <2> QED BY <2>1, <1>3 DEF InOrder, AtMostOne, Running, NoWork
<1>7. Answering(work, current, ans, gen, closed)
  <2>1. 0 \in 0..MaxSpeech /\ 0 \in 0..MaxWorks OBVIOUS
  <2> QED BY <2>1 DEF Init, Answering, AnswererRecord
<1>8. Consuming(work, gen, closed)
  <2>1. 0 \in 0..MaxGens /\ 0 \in 0..MaxWorks /\ 0 \in Nat OBVIOUS
  <2> QED BY <2>1, EmptySeq DEF Init, Consuming, GenRecord
<1>9. work \in [Works -> WorkRecord] /\ current \in 0..MaxWorks /\ current = 0 /\ closed \in BOOLEAN
  <2>1. 0 \in 0..MaxWorks OBVIOUS
  <2> QED BY <2>1, <1>1 DEF Init
<1>10. SharedSoundly(input, work, current, ans, gen, closed)
  BY <1>2, <1>3, <1>4, <1>5, <1>6, <1>7, <1>8, <1>9 DEF SharedSoundly
<1>11. AttemptsBounded
  <2> SUFFICES ASSUME NEW t \in 1..MaxSpeech PROVE Attempts(t) <= MaxAttempts
    BY DEF AttemptsBounded
  <2>1. {w \in Works : work[w].turn = t} = {}
    BY <1>3 DEF NoWork
  <2>2. Attempts(t) = 0
    BY <2>1, FS_EmptySet DEF Attempts
  <2> QED BY <2>2
<1> QED BY <1>10, <1>11 DEF Init, SInv

LEMMA StutterSound == SInv /\ UNCHANGED vars => SInv'
<1> SUFFICES ASSUME SInv, UNCHANGED vars PROVE SInv'
  OBVIOUS
<1> QED BY Kept DEF SInv, vars

LEMMA NextSound == SInv /\ Next => SInv'
<1> SUFFICES ASSUME SInv, Next PROVE SInv'
  OBVIOUS
<1>1. CASE Session
  <2>1. CASE \E cancel \in BOOLEAN : DropInput(cancel)
    BY <2>1, DropInputKeeps
  <2>2. CASE SpeechStarts \/ SpeechEnds \/ ContinuationLikely \/ StartSpeculation \/ CommitTurn
    BY <2>2, SpeechStartsKeeps, SpeechEndsKeeps, ContinuationLikelyKeeps,
       StartSpeculationKeeps, CommitTurnKeeps
  <2>3. CASE CancelGeneration \/ ConfirmInterruption \/ CreateGeneration
             \/ HistoryChanges \/ Close
    BY <2>3, CancelGenerationKeeps, ConfirmInterruptionKeeps, CreateGenerationKeeps,
       HistoryChangesKeeps, CloseKeeps
  <2> QED BY <1>1, <2>1, <2>2, <2>3 DEF Session
<1>2. CASE Answerer
  BY <1>2, PromotionFailsKeeps, PromotionWaitsKeeps, AnswererWakesKeeps, PromoteKeeps
     DEF Answerer
<1>3. CASE Transcribed \/ FreshStream
  BY <1>3, TranscribedKeeps, FreshStreamKeeps
<1>4. ASSUME NEW w \in Works, Provider(w) PROVE SInv'
  BY <1>4, SttReturnsKeeps, LlmOpensKeeps, LlmDeltaKeeps, StreamEndKeeps DEF Provider
<1>5. ASSUME NEW w \in Works, CloseStream(w) \/ Clock(w) PROVE SInv'
  BY <1>5, CloseStreamKeeps, ExpireKeeps, TimerFiresKeeps DEF Clock
<1>6. ASSUME NEW w \in Works, Worker(w) PROVE SInv'
  BY <1>6, RoomWakesKeeps, GivesUpKeeps, ExitKeeps, AdoptionEndsKeeps DEF Worker
<1>7. ASSUME NEW w \in Works, Consumer(w) PROVE SInv'
  BY <1>7, ReceiveDeltaKeeps, ReceiveWaitsKeeps, ReceiveWakesKeeps, StreamOverKeeps
     DEF Consumer
<1> QED BY <1>1, <1>2, <1>3, <1>4, <1>5, <1>6, <1>7 DEF Next

\* What the worker, its successor, the answerer and the consumer rely on of each
\* other holds at every step.
THEOREM SpeculationInductive == Spec => []SInv
<1>1. SInv /\ [Next]_vars => SInv'
  BY NextSound, StutterSound
<1> QED BY <1>1, InitSound, PTL DEF Spec

-----------------------------------------------------------------------------
(* What it means.                                                          *)

LEMMA TypesFollow == SInv => TypeOK
<1> SUFFICES ASSUME SInv PROVE TypeOK
  OBVIOUS
<1>1. /\ input \in InputRecord /\ current \in 0..MaxWorks /\ closed \in BOOLEAN
      /\ ans \in AnswererRecord /\ gen \in GenRecord /\ hist \in Nat
  BY DEF SInv, SharedSoundly, Answering, Consuming
<1>2. \A w \in Works : work[w] \in WorkRecord /\ Len(work[w].deltas) <= Buffer
  BY WorkFacts DEF WorkOK
<1> QED BY <1>1, <1>2 DEF TypeOK, InputRecord

LEMMA OneWorkerFollows == SInv => OneWorker
<1> SUFFICES ASSUME SInv PROVE OneWorker
  OBVIOUS
<1> DEFINE B == {w \in Works : work[w].pc \notin {"none", "exited"}}
<1>1. \A v, w \in B : v = w
  BY DEF SInv, SharedSoundly, AtMostOne, Running
<1>2. CASE B = {}
  BY <1>2, FS_EmptySet DEF OneWorker
<1>3. CASE B # {}
  <2>1. PICK w \in B : TRUE BY <1>3
  <2>2. B = {w} BY <1>1, <2>1
  <2>3. Cardinality(B) = 1 BY <2>2, FS_Singleton
  <2> QED BY <2>3 DEF OneWorker
<1> QED BY <1>2, <1>3

LEMMA NoNotificationLost == SInv => NoLostNotification
<1> SUFFICES ASSUME SInv, NEW w \in Works
             PROVE  LET k == work[w]
                    IN  /\ gen.live /\ gen.work = w /\ gen.rx = "waiting"
                            /\ "consumer" \in k.asleep /\ ~k.cancelled
                           => k.deltas = <<>> /\ k.terminal = "none"
                        /\ k.pc = "full" /\ "worker" \in k.asleep /\ ~k.cancelled
                           => Len(k.deltas) = Buffer
                        /\ ans.key = w /\ ans.pc = "wait" /\ ans.live /\ "answerer" \in k.asleep
                           => ~k.ready /\ Valid(w)
  BY DEF NoLostNotification
<1>1. /\ Answering(work, current, ans, gen, closed) /\ Consuming(work, gen, closed)
      /\ WorkOK(work[w]) /\ Valid(w) = ValidIn(work, current, gen, closed, w) /\ w # 0
  BY WorkFacts DEF SInv, SharedSoundly, Works
<1>2. gen.live /\ gen.work = w /\ gen.rx = "waiting"
          /\ "consumer" \in work[w].asleep /\ ~work[w].cancelled
        => work[w].deltas = <<>> /\ work[w].terminal = "none"
  BY <1>1 DEF Consuming
<1>3. work[w].pc = "full" /\ "worker" \in work[w].asleep /\ ~work[w].cancelled
        => Len(work[w].deltas) = Buffer
  BY <1>1 DEF WorkOK
<1>4. ans.key = w /\ ans.pc = "wait" /\ ans.live /\ "answerer" \in work[w].asleep
        => ~work[w].ready /\ Valid(w)
  BY <1>1 DEF Answering
<1> QED BY <1>2, <1>3, <1>4

\* The worker, its successor, the answerer and the consumer share works safely:
\* one recognition at a time, a bounded number for a turn, no wake-up missed
\* (speculation.go: busy, attempts, notifyLocked).
THEOREM WorkersAlwaysSound == Spec => []WorkersSound
<1>1. SInv => WorkersSound
  BY TypesFollow, OneWorkerFollows, NoNotificationLost DEF WorkersSound, SInv
<1> QED BY <1>1, SpeculationInductive, PTL

LEMMA AnswerFollows == SInv => AnswerSound
<1> SUFFICES ASSUME SInv PROVE AnswerSound
  OBVIOUS
<1>1. Consuming(work, gen, closed) /\ gen \in GenRecord
  BY DEF SInv, SharedSoundly, Consuming
<1>2. /\ gen.out \in Seq(0..MaxDeltas) /\ Len(gen.out) \in Nat
      /\ gen.out \in [1..Len(gen.out) -> 0..MaxDeltas] /\ DOMAIN gen.out = 1..Len(gen.out)
  BY <1>1, LenProperties DEF GenRecord
<1>3. gen.stream = "spec" => gen.out = [j \in 1..Len(gen.out) |-> j]
  <2> SUFFICES ASSUME gen.stream = "spec" PROVE gen.out = [j \in 1..Len(gen.out) |-> j]
    OBVIOUS
  <2>1. \A j \in 1..Len(gen.out) : gen.out[j] = 0 + j
    BY <1>1 DEF Consuming, Follows
  <2>2. \A j \in 1..Len(gen.out) : gen.out[j] = j
    BY <2>1, <1>2
  <2> QED BY <2>2, <1>2
<1>4. AnswerFromOneStream
  <2>1. CASE gen.stream = "none"
    <3>1. DOMAIN gen.out = {} BY <2>1, <1>1, <1>2, EmptySeq DEF Consuming
    <3> QED BY <3>1 DEF AnswerFromOneStream
  <2>2. CASE gen.stream = "fresh"
    BY <2>2, <1>1, <1>2 DEF Consuming, AnswerFromOneStream
  <2>3. CASE gen.stream = "spec"
    BY <2>3, <1>2, <1>3 DEF AnswerFromOneStream
  <2> QED BY <2>1, <2>2, <2>3, <1>1 DEF GenRecord
<1>5. AnswerComplete
  BY <1>1, <1>3 DEF AnswerComplete, Consuming
<1>6. AdoptedRequestCurrent
  BY <1>1 DEF AdoptedRequestCurrent, Consuming
<1> QED BY <1>4, <1>5, <1>6 DEF AnswerSound

\* What the user hears of an adopted answer is that answer, whole and in order,
\* and an answer to the conversation as it is (promotedStream.Recv,
\* http/speculation.go; PromoteSpeculation, speculation.go:415).
THEOREM AnswerAlwaysSound == Spec => []AnswerSound
BY AnswerFollows, SpeculationInductive, PTL

-----------------------------------------------------------------------------
(* What is adopted.                                                        *)

AdoptsWhole ==
    \A w \in Works :
        work[w].state # "promoted" /\ work'[w].state = "promoted" =>
            work[w].committed /\ work[w].starts = ans.starts

\* k is adopted only if o was.
NoSooner(k, o) == k.state = "promoted" => o.state = "promoted"

\* A step after which no work is adopted that was not before it.
LEMMA AdoptsNothing ==
  ASSUME \A w \in Works : NoSooner(work'[w], work[w])
  PROVE  AdoptsWhole
BY DEF AdoptsWhole, NoSooner

LEMMA BecomesNoSooner ==
  ASSUME SInv, NEW w \in Works, NEW k, Becomes(w, k), NoSooner(k, work[w])
  PROVE  AdoptsWhole
<1>1. \A v \in Works : NoSooner(work'[v], work[v])
  BY DEF Becomes, NoSooner, SInv, SharedSoundly
<1> QED BY <1>1, AdoptsNothing

\* What becomes of the state of a work: what ends is ended, the rest is as it was.
LEMMA StateOf ==
  ASSUME NEW k \in WorkRecord
  PROVE  /\ Notified(k).state = k.state /\ Notified(k) \in WorkRecord
         /\ Discarded(k).state = k.state
         /\ Ended(k).state = "ended" /\ "state" \in DOMAIN Ended(k)
         /\ [Ended(k) EXCEPT !.pc = "exiting"].state = "ended"
<1>1. Notified(k).state = k.state /\ Notified(k) \in WorkRecord
  BY DEF Notified, WorkRecord
<1>2. Discarded(k).state = k.state
  BY DEF Notified, Discarded, WorkRecord
<1>3. Ended(k).state = "ended" /\ "state" \in DOMAIN Ended(k)
  <2>1. CASE k.state = "ended" BY <2>1 DEF Ended, WorkRecord
  <2>2. CASE k.state # "ended"
    <3> DEFINE e1 == [k EXCEPT !.state = "ended", !.timer = FALSE, !.expired = FALSE, !.snap = 0]
               e2 == [e1 EXCEPT !.ready = FALSE, !.empty = FALSE, !.terminal = "none",
                                !.produced = 0]
               e3 == [e2 EXCEPT !.cancelled = TRUE, !.deltas = <<>>, !.asleep = {}]
    <3>1. Ended(k) = e3 BY <2>2 DEF Ended, Discarded, Notified
    <3>2. e1.state = "ended" /\ "state" \in DOMAIN e1 BY DEF WorkRecord
    <3> HIDE DEF e1
    <3>3. e2.state = e1.state /\ "state" \in DOMAIN e2 BY <3>2
    <3> HIDE DEF e2
    <3>4. e3.state = e2.state /\ "state" \in DOMAIN e3 BY <3>3
    <3> QED BY <3>1, <3>2, <3>3, <3>4
  <2> QED BY <2>1, <2>2
<1>4. [Ended(k) EXCEPT !.pc = "exiting"].state = Ended(k).state
  BY <1>3
<1> QED BY <1>1, <1>2, <1>3, <1>4

LEMMA BufferedNoSooner ==
  ASSUME NEW k \in WorkRecord
  PROVE  NoSooner(Buffered(k), k)
<1>1. CASE Len(k.deltas) < Buffer
  <2> DEFINE n == Notified(k)
  <2>1. n \in WorkRecord /\ n.state = k.state BY StateOf
  <2>2. Buffered(k) = [n EXCEPT !.deltas = Append(@, k.produced), !.pc = "recv"]
    BY <1>1 DEF Buffered
  <2> HIDE DEF n
  <2>3. [n EXCEPT !.deltas = Append(@, k.produced), !.pc = "recv"].state = n.state
    BY <2>1 DEF WorkRecord
  <2> QED BY <2>1, <2>2, <2>3 DEF NoSooner
<1>2. CASE ~(Len(k.deltas) < Buffer)
  BY <1>2, StateOf DEF Buffered, NoSooner
<1> QED BY <1>1, <1>2

\* The providers adopt nothing...
LEMMA ProviderAdoptsNothing ==
  ASSUME SInv, NEW w \in Works, Provider(w)
  PROVE  AdoptsWhole
<1> DEFINE o == work[w]
           x == [Ended(o) EXCEPT !.pc = "exiting"]
<1>1. o \in WorkRecord BY WorkFacts
<1>2. /\ NoSooner(x, o)
      /\ \A t \in {"eof", "error"} :
           NoSooner([Notified(o) EXCEPT !.terminal = t, !.pc = "exiting"], o)
      /\ NoSooner([Notified(o) EXCEPT !.empty = TRUE, !.ready = TRUE, !.terminal = "eof",
                                      !.pc = "exiting"], o)
      /\ NoSooner([Notified(o) EXCEPT !.ready = TRUE, !.pc = "recv"], o)
      /\ NoSooner([o EXCEPT !.snap = hist, !.pc = "open"], o)
  <2>1. NoSooner(x, o) BY <1>1, StateOf DEF NoSooner
  <2>2. /\ \A t \in {"eof", "error"} :
             [Notified(o) EXCEPT !.terminal = t, !.pc = "exiting"].state = o.state
        /\ [Notified(o) EXCEPT !.empty = TRUE, !.ready = TRUE, !.terminal = "eof",
                               !.pc = "exiting"].state = o.state
        /\ [Notified(o) EXCEPT !.ready = TRUE, !.pc = "recv"].state = o.state
    BY <1>1, StateOf DEF WorkRecord
  <2>3. [o EXCEPT !.snap = hist, !.pc = "open"].state = o.state
    BY <1>1 DEF WorkRecord
  <2> QED BY <2>1, <2>2, <2>3 DEF NoSooner
<1>3. CASE SttReturns(w)
  BY <1>2, <1>3, BecomesNoSooner DEF SttReturns
<1>4. CASE LlmOpens(w)
  BY <1>2, <1>4, BecomesNoSooner DEF LlmOpens
<1>5. CASE LlmOversized(w) \/ \E err \in {"eof", "error"} : LlmEnds(w, err)
  <2>1. \/ Becomes(w, x)
        \/ \E t \in {"eof", "error"} :
             Becomes(w, [Notified(o) EXCEPT !.terminal = t, !.pc = "exiting"])
    BY <1>5 DEF LlmOversized, LlmEnds
  <2> QED BY <2>1, <1>2, BecomesNoSooner
<1>6. CASE LlmDelta(w)
  <2> DEFINE d == [o EXCEPT !.produced = @ + 1]
  <2>1. d.state = o.state /\ d \in WorkRecord
    <3>1. o.produced + 1 \in 0..MaxDeltas
      <4>1. o.produced \in 0..MaxDeltas BY <1>1 DEF WorkRecord
      <4>2. o.produced < MaxDeltas BY <1>6 DEF LlmDelta
      <4> QED BY <4>1, <4>2
    <3>2. d \in WorkRecord BY <1>1, <3>1 DEF WorkRecord
    <3> QED BY <1>1, <3>2 DEF WorkRecord
  <2>2. Becomes(w, Buffered(d)) BY <1>6 DEF LlmDelta
  <2> HIDE DEF d
  <2>3. NoSooner(Buffered(d), o) BY <2>1, BufferedNoSooner DEF NoSooner
  <2> QED BY <2>2, <2>3, BecomesNoSooner
<1> QED BY <1>3, <1>4, <1>5, <1>6 DEF Provider

\* ...nor do clocks, workers and consumers...
LEMMA WorkerAdoptsNothing ==
  ASSUME SInv, NEW w \in Works, CloseStream(w) \/ Clock(w) \/ Worker(w) \/ Consumer(w)
  PROVE  AdoptsWhole
<1> DEFINE o == work[w]
<1>1. o \in WorkRecord /\ work \in [Works -> WorkRecord]
  BY WorkFacts DEF SInv, SharedSoundly
<1>2. CASE CloseStream(w)
  BY <1>1, <1>2, StateOf, BecomesNoSooner DEF CloseStream, NoSooner
<1>3. CASE Expire(w) \/ AdoptionEnds(w) \/ GivesUp(w)
  <2>1. PICK k \in {[o EXCEPT !.expired = TRUE], [o EXCEPT !.cancelled = TRUE],
                    [o EXCEPT !.pc = "exiting"]} : Becomes(w, k)
    BY <1>3 DEF Expire, AdoptionEnds, GivesUp, Becomes
  <2>2. k.state = o.state BY <1>1 DEF WorkRecord
  <2> QED BY <2>1, <2>2, BecomesNoSooner DEF NoSooner
<1>4. CASE TimerFires(w)
  <2> DEFINE e == IF current = w /\ ~o.cancelled /\ o.state # "promoted" THEN Ended(o) ELSE o
             k == [e EXCEPT !.timer = FALSE]
  <2>1. work' = [work EXCEPT ![w] = k] /\ UNCHANGED <<input, current, ans, gen, hist, closed>>
    BY <1>4 DEF TimerFires
  <2>2. NoSooner(e, o) /\ "state" \in DOMAIN e
    <3>1. NoSooner(Ended(o), o) /\ "state" \in DOMAIN Ended(o)
      BY <1>1, StateOf DEF NoSooner
    <3>2. NoSooner(o, o) /\ "state" \in DOMAIN o
      BY <1>1 DEF NoSooner, WorkRecord
    <3> QED BY <3>1, <3>2
  <2> HIDE DEF e
  <2>3. NoSooner(k, o) BY <2>2 DEF NoSooner
  <2> QED BY <2>1, <2>3, BecomesNoSooner DEF Becomes
<1>5. CASE Exit(w)
  <2>1. [Notified(o) EXCEPT !.pc = "exited"].state = o.state
    BY <1>1, StateOf DEF WorkRecord
  <2> QED BY <2>1, <1>5, BecomesNoSooner DEF Exit, NoSooner
<1>6. CASE RoomWakes(w)
  BY <1>1, <1>6, BufferedNoSooner, BecomesNoSooner DEF RoomWakes
<1>7. CASE Consumer(w)
  <2>1. \/ work' = work
        \/ \E k \in {[Notified(o) EXCEPT !.deltas = Tail(o.deltas)],
                     [o EXCEPT !.asleep = @ \cup {"consumer"}], Discarded(o)} :
             work' = [work EXCEPT ![w] = k]
    BY <1>7 DEF Consumer, ReceiveDelta, ReceiveWaits, ReceiveWakes, ReceiveEof, ReceiveFails
  <2>2. /\ [Notified(o) EXCEPT !.deltas = Tail(o.deltas)].state = o.state
        /\ [o EXCEPT !.asleep = @ \cup {"consumer"}].state = o.state
        /\ Discarded(o).state = o.state
    <3>1. Notified(o) \in WorkRecord /\ Notified(o).state = o.state /\ Discarded(o).state = o.state
      BY <1>1, StateOf
    <3>2. [Notified(o) EXCEPT !.deltas = Tail(o.deltas)].state = Notified(o).state
      BY <3>1 DEF WorkRecord
    <3>3. [o EXCEPT !.asleep = @ \cup {"consumer"}].state = o.state
      BY <1>1 DEF WorkRecord
    <3> QED BY <3>1, <3>2, <3>3
  <2>3. \A v \in Works : NoSooner(work'[v], work[v])
    BY <2>1, <2>2, <1>1 DEF NoSooner
  <2> QED BY <2>3, AdoptsNothing
<1> QED BY <1>2, <1>3, <1>4, <1>5, <1>6, <1>7 DEF Clock, Worker

\* ...nor what the session does to its speculation...
LEMMA SessionAdoptsNothing ==
  ASSUME SInv, Session
  PROVE  AdoptsWhole
<1>1. work \in [Works -> WorkRecord] /\ current \in 0..MaxWorks
  BY DEF SInv, SharedSoundly
<1>2. /\ Invalidated(work) \in [Works -> WorkRecord]
      /\ \A w \in Works : NoSooner(Invalidated(work)[w], work[w])
  <2>1. SharedSoundly(input, Invalidated(work), current, ans, gen, closed)
    BY InvalidatedKeeps DEF SInv
  <2>2. \A w \in Works : NoSooner(Invalidated(work)[w], work[w])
    BY <1>1, StateOf DEF Invalidated, NoSooner, Works
  <2> QED BY <2>1, <2>2 DEF SharedSoundly
<1>3. ASSUME NEW ws \in [Works -> WorkRecord], NEW w \in Works
      PROVE  NoSooner(Revised(ws)[w], ws[w])
  <2>1. Revised(ws)[w] = [ws[w] EXCEPT !.fresh = FALSE] /\ ws[w] \in WorkRecord
    BY DEF Revised
  <2> QED BY <2>1 DEF NoSooner, WorkRecord
<1>4. CASE SpeechStarts \/ \E cancel \in BOOLEAN : DropInput(cancel)
  <2>1. work' = Revised(Invalidated(work)) BY <1>4 DEF SpeechStarts, DropInput
  <2>2. \A w \in Works : NoSooner(work'[w], work[w])
    BY <2>1, <1>2, <1>3 DEF NoSooner
  <2> QED BY <2>2, AdoptsNothing
<1>5. CASE ContinuationLikely \/ CancelGeneration \/ CreateGeneration
  BY <1>2, <1>5, AdoptsNothing DEF ContinuationLikely, CancelGeneration, CreateGeneration
<1>6. CASE SpeechEnds \/ ConfirmInterruption \/ HistoryChanges
  BY <1>6, AdoptsNothing DEF SpeechEnds, ConfirmInterruption, HistoryChanges, NoSooner
<1>7. CASE StartSpeculation
  <2>1. \E x : work' = [work EXCEPT ![x] = Started]
    BY <1>7 DEF StartSpeculation, Started
  <2>2. Started.state = "open" BY StartedFields
  <2>3. \A w \in Works : NoSooner(work'[w], work[w])
    BY <2>1, <2>2, <1>1 DEF NoSooner
  <2> QED BY <2>3, AdoptsNothing
<1>8. CASE Close
  <2>1. \A w \in Works : work'[w] = [work[w] EXCEPT !.cancelled = @ \/ work[w].pc # "none"]
    BY <1>8 DEF Close
  <2>2. ASSUME NEW w \in Works PROVE NoSooner(work'[w], work[w])
    <3> DEFINE b == work[w].cancelled \/ work[w].pc # "none"
    <3>1. work'[w] = [work[w] EXCEPT !.cancelled = b] /\ work[w] \in WorkRecord
      BY <2>1, <1>1
    <3> HIDE DEF b
    <3>2. work'[w].state = work[w].state BY <3>1 DEF WorkRecord
    <3> QED BY <3>2 DEF NoSooner
  <2> QED BY <2>2, AdoptsNothing
<1>9. CASE CommitTurn
  <2> DEFINE key == IF current # 0 /\ Valid(current) /\ ~work[current].committed
                    THEN current ELSE 0
             ws == IF key = 0 THEN work ELSE [work EXCEPT ![key].committed = TRUE]
  <2>1. work' = Revised(ws) BY <1>9 DEF CommitTurn
  <2>2. /\ ws \in [Works -> WorkRecord]
        /\ \A w \in Works : ws[w].state = work[w].state
    <3>1. CASE key = 0 BY <3>1, <1>1
    <3>2. CASE key # 0
      <4> DEFINE k == [work[current] EXCEPT !.committed = TRUE]
      <4>1. current \in Works /\ key = current BY <3>2, <1>1 DEF Works
      <4>2. ws = [work EXCEPT ![current] = k] BY <3>2, <4>1
      <4>3. k \in WorkRecord /\ k.state = work[current].state
        <5>1. work[current] \in WorkRecord BY <4>1, <1>1
        <5> QED BY <5>1 DEF WorkRecord
      <4> HIDE DEF k, ws
      <4> QED BY <4>1, <4>2, <4>3, <1>1
    <3> QED BY <3>1, <3>2
  <2> HIDE DEF ws
  <2>3. \A w \in Works : NoSooner(work'[w], work[w])
    BY <2>1, <2>2, <1>3 DEF NoSooner
  <2> QED BY <2>3, AdoptsNothing
<1> QED BY <1>4, <1>5, <1>6, <1>7, <1>8, <1>9 DEF Session

\* ...and the answerer adopts what was committed with its turn.
LEMMA AnswererAdoptsWhole ==
  ASSUME SInv, Answerer
  PROVE  AdoptsWhole
<1> DEFINE w == ans.key
           o == work[w]
<1>1. work \in [Works -> WorkRecord] BY DEF SInv, SharedSoundly
<1>2. CASE AnswererWakes
  BY <1>2, AdoptsNothing DEF AnswererWakes, NoSooner
<1>3. CASE PromotionFails \/ PromotionWaits
  <2>1. w \in Works /\ o \in WorkRecord
    BY <1>1, <1>3, KeyFacts DEF PromotionFails, PromotionWaits
  <2>2. \/ work' = work
        \/ \E k \in {Ended(o), [o EXCEPT !.asleep = @ \cup {"answerer"}]} :
             work' = [work EXCEPT ![w] = k]
    BY <1>3 DEF PromotionFails, PromotionWaits
  <2>3. NoSooner(Ended(o), o) /\ NoSooner([o EXCEPT !.asleep = @ \cup {"answerer"}], o)
    BY <2>1, StateOf DEF NoSooner, WorkRecord
  <2>4. \A v \in Works : NoSooner(work'[v], work[v])
    BY <2>1, <2>2, <2>3, <1>1 DEF NoSooner
  <2> QED BY <2>4, AdoptsNothing
<1>4. CASE Promote
  <2>1. w \in Works /\ o.committed /\ o.starts = ans.starts
    BY <1>4, KeyFacts DEF Promote
  <2>2. \E k : work' = [work EXCEPT ![w] = k]
    BY <1>4 DEF Promote, AdoptText
  <2>3. \A v \in Works \ {w} : work'[v] = work[v] BY <2>2, <1>1
  <2> QED BY <2>1, <2>3 DEF AdoptsWhole
<1> QED BY <1>2, <1>3, <1>4 DEF Answerer

\* What is adopted for a turn was recognised from all of that turn: the user has
\* not begun to speak between the snapshot of the audio and the commitment
\* (validSpeculationLocked and commitTurnLocked, speculation.go).
THEOREM WholeTurnAdopted == Spec => AdoptsWholeTurn
<1>1. SInv /\ Next => AdoptsWhole
  <2> SUFFICES ASSUME SInv, Next PROVE AdoptsWhole
    OBVIOUS
  <2>1. CASE Session BY <2>1, SessionAdoptsNothing
  <2>2. CASE Answerer BY <2>2, AnswererAdoptsWhole
  <2>3. CASE Transcribed \/ FreshStream
    BY <2>3, AdoptsNothing DEF Transcribed, FreshStream, NoSooner
  <2>4. ASSUME NEW w \in Works, Provider(w) PROVE AdoptsWhole
    BY <2>4, ProviderAdoptsNothing
  <2>5. ASSUME NEW w \in Works, CloseStream(w) \/ Clock(w) \/ Worker(w) \/ Consumer(w)
        PROVE  AdoptsWhole
    BY <2>5, WorkerAdoptsNothing
  <2> QED BY <2>1, <2>2, <2>3, <2>4, <2>5 DEF Next
<1>2. SInv /\ [Next]_vars => [AdoptsWhole]_vars
  BY <1>1
<1>3. (AdoptsWhole) <=>
        (\A w \in Works :
           work[w].state # "promoted" /\ work'[w].state = "promoted" =>
             work[w].committed /\ work[w].starts = ans.starts)
  BY DEF AdoptsWhole
<1> QED BY <1>2, <1>3, SpeculationInductive, PTL DEF Spec, AdoptsWholeTurn, AdoptsWhole
=============================================================================
