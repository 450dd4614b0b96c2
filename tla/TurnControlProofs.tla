------------------------- MODULE TurnControlProofs -------------------------
(***************************************************************************)
(* TurnControl's invariants hold for every set of tokens, every bound and  *)
(* every interleaving.  Good is what each Locked helper preserves whenever *)
(* it is called; LoopCovers is added because only the whole handler wakes  *)
(* the loop.  Together with the types they are inductive: OwnsOutput needs *)
(* EndConsistent (the speech turn it asks for survives until the endpoint  *)
(* is reset), and PausedIsPending needs OwnsOutput (a recovery that finds  *)
(* another generation would leave the pause behind).                       *)
(* First the helpers, in the order of TurnControl, then one lemma per      *)
(* action, then the theorems.                                              *)
(***************************************************************************)
EXTENDS TurnControl, TLAPS

\* What every session looks like between two helpers.
Good(r) == r \in Session /\ OwnsOutput(r) /\ PausedIsPending(r) /\ EndConsistent(r)

\* q came from r by a helper: same session end, same place in the loop.
Follows(q, r) == q.live = r.live /\ q.loop.top = r.loop.top

\* What the helpers leave alone or do, on the fields the other voice depends on.
SameGeneration(q, r) == q.out.gen = r.out.gen /\ q.out.made = r.out.made
SameFloor(q, r) == /\ q.inp.active = r.inp.active
                   /\ q.inp.state = r.inp.state /\ q.inp.end = r.inp.end
SameQuestion(q, r) == /\ q.int.state = r.int.state /\ q.int.gen = r.int.gen
                      /\ q.int.id = r.int.id /\ q.int.classify = r.int.classify
Revised(q, r) == q.int.classify = Outdated(r.int.classify)

\* The answer is given up; a context is added.
Dropped(q, r) ==
    q.resp.ctx = r.resp.ctx /\ q.resp.jobs = r.resp.jobs /\ ~q.resp.live
Asked(q, r) == /\ q.resp.ctx = r.resp.ctx + 1 /\ q.resp.live = r.live
               /\ q.resp.jobs = r.resp.jobs \cup {r.resp.ctx + 1}

\* commitTurnLocked made q of r: the turn waits, is empty, or is given away.
Committed(q, r) ==
    /\ q.out = r.out /\ q.int = r.int /\ q.inp.active = r.inp.active
    /\ IF Pending(r) THEN SameFloor(q, r) /\ q.resp = r.resp
       ELSE /\ q.inp.state = "listening" /\ q.inp.end = FALSE
            /\ q.resp = r.resp \/ Asked(q, r)

\* confirmInterruptionLocked made q of r: the output is gone, and the turn it
\* held back is decided.
Confirmed(q, r) ==
    /\ Pending(r) /\ q.int.state = "confirmed" /\ Revised(q, r)
    /\ q.out.gen = 0 /\ q.out.made = r.out.made /\ q.inp.active = r.inp.active
    /\ \/ ~r.inp.ready /\ SameFloor(q, r) /\ Dropped(q, r)
       \/ /\ r.inp.ready /\ q.inp.state = "listening" /\ q.inp.end = FALSE
          /\ Dropped(q, r) \/ Asked(q, r)

\* recoverInterruptionLocked made q of r: the output goes on, the turn is gone.
Recovered(q, r) ==
    /\ Pending(r) /\ Revised(q, r) /\ SameGeneration(q, r) /\ q.resp = r.resp
    /\ r.live => q.inp.state = "listening" /\ q.inp.end = FALSE

\* beginInterruptionLocked made q of r: the output is held, if it still can be.
Suspected(q, r) ==
    /\ r.live /\ ~Pending(r) /\ InSpeechTurn(r) /\ r.out.gen # 0
    /\ q.int.state \in {"paused", "recovered"} /\ Revised(q, r)
    /\ SameGeneration(q, r) /\ q.inp = r.inp /\ q.resp = r.resp

\* startGeneration made q of r.
Started(q, r) ==
    /\ r.live /\ q.int.state = "idle" /\ Revised(q, r) /\ q.inp = r.inp
    /\ q.out.gen = r.out.made + 1 /\ q.out.made = r.out.made + 1 /\ q.resp = r.resp

\* wakeInputLocked leaves a token in the wake channel and nothing else changed.
LEMMA WakeEffect ==
  ASSUME NEW r \in Session
  PROVE  /\ Wake(r) \in Session /\ Follows(Wake(r), r) /\ Wake(r).loop.wake
         /\ Wake(r).out = r.out /\ Wake(r).resp = r.resp
         /\ Wake(r).inp = r.inp /\ Wake(r).int = r.int
  BY DEF Wake, Follows, Session, LoopRecord, Milestones

\* resetEndpointLocked: no end, no deadline, no counted detector result; the
\* turn, the output and the interruption are as they were.
LEMMA ResetEffect ==
  ASSUME NEW r \in Session
  PROVE  LET q == ResetEndpoint(r)
         IN  /\ q \in Session /\ Follows(q, r) /\ q.loop.wake
             /\ q.out = r.out /\ q.resp = r.resp /\ q.int = r.int
             /\ q.inp.active = r.inp.active /\ q.inp.realtime = r.inp.realtime
             /\ q.inp.state = r.inp.state /\ q.inp.turn = r.inp.turn /\ q.inp.buf = r.inp.buf
             /\ q.inp.hasSpeech = r.inp.hasSpeech
             /\ q.inp.end = FALSE /\ q.inp.minDue = FALSE /\ q.inp.maxDue = FALSE
             /\ q.inp.ready = FALSE /\ q.inp.detect # "fresh"
<1> DEFINE p == [r EXCEPT !.inp = [@ EXCEPT !.end = FALSE, !.minDue = FALSE, !.maxDue = FALSE,
                                     !.attempted = FALSE, !.ready = FALSE,
                                     !.detect = Outdated(r.inp.detect)]]
<1>1. /\ p \in Session /\ p.out = r.out /\ p.resp = r.resp /\ p.int = r.int /\ Follows(p, r)
      /\ p.inp.active = r.inp.active /\ p.inp.realtime = r.inp.realtime
      /\ p.inp.state = r.inp.state /\ p.inp.turn = r.inp.turn /\ p.inp.buf = r.inp.buf
      /\ p.inp.hasSpeech = r.inp.hasSpeech
      /\ p.inp.end = FALSE /\ p.inp.minDue = FALSE /\ p.inp.maxDue = FALSE
      /\ p.inp.ready = FALSE /\ p.inp.detect # "fresh"
  BY DEF Session, InputRecord, Outdated, Jobs, Follows
<1> QED BY <1>1, WakeEffect DEF ResetEndpoint, Follows

\* The end of an interruption changes the interruption only.
LEMMA SettleEffect ==
  ASSUME NEW r \in Session, NEW state \in {"idle", "paused", "confirmed", "recovered"}
  PROVE  LET q == Settle(r, state)
         IN  /\ q \in Session /\ Follows(q, r) /\ q.loop = r.loop
             /\ q.out = r.out /\ q.resp = r.resp /\ q.inp = r.inp
             /\ q.int.state = state /\ q.int.gen = r.int.gen /\ q.int.id = r.int.id
             /\ Revised(q, r)
<1> DEFINE p == Revise(r)
<1>1. /\ p \in Session /\ Follows(p, r) /\ p.loop = r.loop
      /\ p.out = r.out /\ p.resp = r.resp /\ p.inp = r.inp
      /\ p.int.state = r.int.state /\ p.int.gen = r.int.gen /\ p.int.id = r.int.id
      /\ Revised(p, r)
  BY DEF Revise, Session, InterruptionRecord, Outdated, Jobs, Follows, Revised
<1> HIDE DEF p
<1>2. LET q == [p EXCEPT !.int = [@ EXCEPT !.state = state, !.resumed = FALSE,
                                        !.decisionDue = FALSE, !.notBeforeDue = FALSE]]
      IN /\ q \in Session /\ Follows(q, p) /\ q.loop = p.loop
             /\ q.out = p.out /\ q.resp = p.resp /\ q.inp = p.inp
             /\ q.int.state = state /\ q.int.gen = p.int.gen /\ q.int.id = p.int.id
             /\ q.int.classify = p.int.classify
  BY <1>1 DEF Session, InterruptionRecord, Follows
<1> QED BY <1>1, <1>2 DEF Settle, p, Follows, Revised

\* invalidateInterruptionLocked: nothing pending, the loop woken, the rest kept.
LEMMA InvalidateEffect ==
  ASSUME NEW r \in Session
  PROVE  LET q == InvalidateInterruption(r)
         IN  /\ q \in Session /\ Follows(q, r) /\ q.loop.wake
             /\ q.out = r.out /\ q.resp = r.resp /\ q.inp = r.inp
             /\ q.int.state = "idle" /\ q.int.gen = r.int.gen /\ q.int.id = r.int.id
             /\ Revised(q, r)
  BY SettleEffect, WakeEffect DEF InvalidateInterruption, Follows, Revised

\* Dropping the response context touches neither output, input nor interruption.
LEMMA DropEffect ==
  ASSUME NEW r \in Session
  PROVE  LET q == DropResponse(r)
         IN  /\ q \in Session /\ Follows(q, r) /\ q.loop = r.loop
             /\ q.out = r.out /\ q.inp = r.inp /\ q.int = r.int /\ Dropped(q, r)
  BY DEF DropResponse, Session, ResponseRecord, Follows, Dropped

\* newResponseContextLocked touches the response context only.
LEMMA NewContextEffect ==
  ASSUME NEW r \in Session
  PROVE  LET q == NewResponseContext(r)
         IN  /\ q \in Session /\ Follows(q, r) /\ q.loop = r.loop
             /\ q.out = r.out /\ q.inp = r.inp /\ q.int = r.int /\ Asked(q, r)
  BY DEF NewResponseContext, Session, ResponseRecord, Follows, Asked

\* cancelGenerationLocked leaves no output, no pause and no pending decision.
LEMMA CancelEffect ==
  ASSUME NEW r \in Session
  PROVE  LET q == CancelGeneration(r)
         IN  /\ q \in Session /\ Follows(q, r) /\ q.loop.wake
             /\ q.inp = r.inp /\ q.int.state = "idle"
             /\ q.out.gen = 0 /\ q.out.made = r.out.made /\ q.out.paused = FALSE
             /\ Dropped(q, r) /\ Revised(q, r)
<1> DEFINE d == DropResponse(InvalidateInterruption(r))
<1>1. /\ d \in Session /\ Follows(d, r) /\ d.loop.wake /\ d.inp = r.inp /\ d.out = r.out
      /\ d.int.state = "idle" /\ Dropped(d, r) /\ Revised(d, r)
  BY InvalidateEffect, DropEffect DEF Follows, Dropped, Revised
<1> HIDE DEF d
<1>2. LET q == [d EXCEPT !.out = [@ EXCEPT !.gen = 0, !.done = FALSE, !.audio = "none",
                                           !.paused = FALSE]]
      IN  /\ q \in Session /\ Follows(q, d) /\ q.loop = d.loop
          /\ q.inp = d.inp /\ q.int = d.int /\ q.resp = d.resp
          /\ q.out.gen = 0 /\ q.out.made = d.out.made /\ q.out.paused = FALSE
  BY <1>1 DEF Session, OutputRecord, Follows
<1> QED BY <1>1, <1>2 DEF CancelGeneration, d, Follows, Dropped, Revised

\* commitTurnLocked of an ended turn keeps the invariant, and wakes the loop
\* unless the turn is held back by a pending interruption.
LEMMA CommitGood ==
  ASSUME NEW r, Good(r), r.inp.end
  PROVE  LET q == CommitTurn(r)
         IN  /\ Good(q) /\ Follows(q, r)
             /\ Pending(q) <=> Pending(r)
             /\ ~Pending(r) => q.loop.wake
             /\ Committed(q, r)
<1> r \in Session BY DEF Good
<1>1. CASE Pending(r)
  <2> DEFINE q == [r EXCEPT !.inp.ready = TRUE]
  <2>1. /\ q \in Session /\ Follows(q, r) /\ q.out = r.out /\ q.int = r.int
        /\ q.inp = [r.inp EXCEPT !.ready = TRUE] /\ SameFloor(q, r) /\ q.resp = r.resp
    BY DEF Session, InputRecord, Follows, SameFloor
  <2>2. Good(q)
    BY <2>1 DEF Good, OwnsOutput, PausedIsPending, EndConsistent, Pending, RealtimeActive,
       InSpeechTurn, Session, InputRecord, Follows
  <2>3. Committed(q, r) BY <1>1, <2>1 DEF Committed, SameFloor
  <2> HIDE DEF q
  <2> QED BY <1>1, <2>1, <2>2, <2>3 DEF CommitTurn, Pending, q
<1>2. CASE ~Pending(r)
  <2> DEFINE l == [r EXCEPT !.inp.state = "listening"]
             e == ResetEndpoint(l)
             n == NewResponseContext(e)
             q == [n EXCEPT !.inp = [@ EXCEPT !.buf = 0, !.turn = FALSE]]
  <2>1. /\ l \in Session /\ Follows(l, r) /\ l.out = r.out /\ l.int = r.int
        /\ l.inp.state = "listening" /\ l.resp = r.resp
        /\ l.inp.active = r.inp.active /\ l.inp.realtime = r.inp.realtime
    BY DEF Session, InputRecord, TurnStates, Follows
  <2> HIDE DEF l
  <2>2a. /\ e \in Session /\ Follows(e, r) /\ e.loop.wake /\ e.out = r.out /\ e.int = r.int
         /\ e.inp.state = "listening" /\ e.resp = r.resp
         /\ e.inp.active = r.inp.active /\ e.inp.realtime = r.inp.realtime
         /\ e.inp.end = FALSE /\ e.inp.minDue = FALSE /\ e.inp.maxDue = FALSE
         /\ e.inp.ready = FALSE /\ e.inp.detect # "fresh"
    BY <2>1, ResetEffect DEF Follows
  <2>2. Good(e) /\ ~Pending(e)
    BY <1>2, <2>2a DEF Good, OwnsOutput, PausedIsPending, EndConsistent, Pending,
       RealtimeActive, InSpeechTurn, Follows
  <2> HIDE DEF e
  <2>3. n \in Session /\ Follows(n, e) /\ n.out = e.out /\ n.inp = e.inp /\ n.int = e.int
        /\ n.loop = e.loop /\ Asked(n, e)
    BY <2>2, NewContextEffect DEF Good
  <2> HIDE DEF n
  <2>4. /\ q \in Session /\ Follows(q, n) /\ q.out = n.out /\ q.int = n.int /\ q.loop = n.loop
        /\ q.resp = n.resp
        /\ q.inp.state = n.inp.state /\ q.inp.end = n.inp.end
        /\ q.inp.active = n.inp.active /\ q.inp.realtime = n.inp.realtime
        /\ q.inp.minDue = n.inp.minDue /\ q.inp.maxDue = n.inp.maxDue
        /\ q.inp.ready = n.inp.ready /\ q.inp.detect = n.inp.detect
    BY <2>3 DEF Session, InputRecord, Follows
  <2> HIDE DEF q
  <2>5. Good(q) /\ Follows(q, r) /\ q.loop.wake /\ ~Pending(q)
    BY <1>2, <2>2a, <2>3, <2>4 DEF Good, OwnsOutput, PausedIsPending, EndConsistent, Pending,
       RealtimeActive, InSpeechTurn, Follows
  <2>6. CommitTurn(r) \in {e, q}
    BY <1>2 DEF CommitTurn, l, e, n, q
  <2>7. Committed(e, r) /\ Committed(q, r)
    BY <1>2, <2>2a, <2>3, <2>4 DEF Committed, Asked, Follows
  <2> QED BY <1>2, <2>2a, <2>2, <2>5, <2>6, <2>7
<1> QED BY <1>1, <1>2

\* confirmInterruptionLocked keeps the invariant and leaves nothing pending,
\* whether or not it commits the turn that was held back.
LEMMA ConfirmGood ==
  ASSUME NEW r, Good(r)
  PROVE  LET q == Confirm(r)
         IN  /\ Good(q) /\ Follows(q, r) /\ ~Pending(q)
             /\ q = r \/ q.loop.wake
             /\ IF Pending(r) THEN Confirmed(q, r) ELSE q = r
<1> DEFINE d == CancelGeneration(r)
           c == [d EXCEPT !.int.state = "confirmed"]
<1>0. r \in Session BY DEF Good
<1>1. /\ d \in Session /\ Follows(d, r) /\ d.loop.wake
      /\ d.inp = r.inp /\ d.int.state = "idle" /\ d.out.gen = 0 /\ d.out.paused = FALSE
      /\ d.out.made = r.out.made /\ Dropped(d, r) /\ Revised(d, r)
  BY <1>0, CancelEffect
<1> HIDE DEF d
<1>2. /\ c \in Session /\ Follows(c, d) /\ c.loop = d.loop /\ c.inp = d.inp
      /\ c.out = d.out /\ c.int.state = "confirmed" /\ c.resp = d.resp
      /\ c.int.classify = d.int.classify
  BY <1>1 DEF Session, InterruptionRecord, Follows
<1> HIDE DEF c
<1>3. Good(c) /\ Follows(c, r) /\ c.loop.wake /\ ~Pending(c)
  BY <1>1, <1>2 DEF Good, OwnsOutput, PausedIsPending, EndConsistent, Pending,
     RealtimeActive, InSpeechTurn, Follows
<1>4. CASE ~Pending(r)
  BY <1>4 DEF Confirm, Follows
<1>5. CASE Pending(r)
  <2>1. r.int.gen = r.out.gen BY <1>5 DEF Good, OwnsOutput
  <2>2. Confirm(r) = IF c.inp.ready THEN CommitTurn(c) ELSE c
    BY <1>5, <2>1 DEF Confirm, c, d
  <2>3. c.inp.ready => c.inp.end BY <1>3 DEF Good, EndConsistent
  <2>4. c.inp.ready => /\ Good(CommitTurn(c)) /\ Follows(CommitTurn(c), c)
                       /\ ~Pending(CommitTurn(c)) /\ CommitTurn(c).loop.wake
                       /\ Committed(CommitTurn(c), c)
    BY <1>3, <2>3, CommitGood
  <2>5. CASE ~c.inp.ready
    <3>1. Confirmed(c, r)
      BY <1>1, <1>2, <1>5, <2>5 DEF Confirmed, Dropped, Revised, SameFloor
    <3> QED BY <1>3, <1>5, <2>2, <2>5, <3>1 DEF Follows
  <2>6. CASE c.inp.ready
    <3> DEFINE q == CommitTurn(c)
    <3>1. Committed(q, c) /\ ~Pending(c) BY <1>3, <2>4, <2>6
    <3> HIDE DEF q
    <3>2. Confirmed(q, r)
      BY <1>1, <1>2, <1>5, <2>6, <3>1 DEF Committed, Confirmed, Asked, Dropped, Revised, Follows
    <3> QED BY <1>3, <1>5, <2>2, <2>4, <2>6, <3>2 DEF Follows, q
  <2> QED BY <2>5, <2>6
<1> QED BY <1>4, <1>5

\* recoverInterruptionLocked keeps the invariant and leaves nothing pending.
LEMMA RecoverGood ==
  ASSUME NEW r, Good(r)
  PROVE  LET q == Recover(r)
         IN  /\ Good(q) /\ Follows(q, r) /\ ~Pending(q)
             /\ q = r \/ q.loop.wake
             /\ q.inp.active = r.inp.active /\ q.inp.realtime = r.inp.realtime
             /\ IF Pending(r) THEN Recovered(q, r) ELSE q = r
<1>0. r \in Session BY DEF Good
<1>1. CASE ~Pending(r)
  BY <1>1 DEF Recover, Follows
<1>2. CASE Pending(r) /\ ~GenerationLive(r)
  <2>1. Recover(r) = InvalidateInterruption(r) BY <1>2 DEF Recover
  <2>2. ~r.live BY <1>2 DEF Good, OwnsOutput, GenerationLive
  <2> DEFINE q == InvalidateInterruption(r)
  <2>3. /\ q \in Session /\ Follows(q, r) /\ q.loop.wake /\ q.out = r.out /\ q.resp = r.resp
        /\ q.inp = r.inp /\ q.int.state = "idle" /\ Revised(q, r)
    BY <1>0, InvalidateEffect
  <2> HIDE DEF q
  <2>4. Good(q)
    BY <1>2, <2>2, <2>3 DEF Good, OwnsOutput, PausedIsPending,
       EndConsistent, Pending, RealtimeActive, InSpeechTurn, Follows
  <2>5. Recovered(q, r) /\ ~Pending(q)
    BY <1>2, <2>2, <2>3 DEF Recovered, SameGeneration, Pending
  <2> QED BY <1>2, <2>1, <2>3, <2>4, <2>5 DEF q
<1>3. CASE Pending(r) /\ GenerationLive(r)
  <2> DEFINE d == Settle(r, "recovered")
             l == [d EXCEPT !.out.paused = FALSE,
                     !.inp = [@ EXCEPT !.buf = 0, !.turn = FALSE, !.hasSpeech = FALSE,
                                       !.state = "listening"]]
             q == ResetEndpoint(l)
  <2>1. r.int.gen = r.out.gen BY <1>3 DEF Good, OwnsOutput
  <2>2. Recover(r) = q BY <1>3, <2>1 DEF Recover
  <2>3. /\ d \in Session /\ Follows(d, r) /\ d.out = r.out /\ d.inp = r.inp
        /\ d.int.state = "recovered" /\ d.resp = r.resp /\ Revised(d, r)
    BY <1>0, SettleEffect
  <2> HIDE DEF d
  <2>4. /\ l \in Session /\ Follows(l, d) /\ l.int = d.int /\ l.resp = d.resp
        /\ l.out.paused = FALSE /\ l.inp.state = "listening"
        /\ l.out.gen = d.out.gen /\ l.out.made = d.out.made
        /\ l.inp.active = d.inp.active /\ l.inp.realtime = d.inp.realtime
    BY <2>3 DEF Session, OutputRecord, InputRecord, TurnStates, Follows
  <2> HIDE DEF l
  <2>5. /\ q \in Session /\ Follows(q, l) /\ q.loop.wake /\ q.out = l.out /\ q.int = l.int
        /\ q.resp = l.resp
        /\ q.inp.state = "listening"
        /\ q.inp.active = l.inp.active /\ q.inp.realtime = l.inp.realtime
        /\ q.inp.end = FALSE /\ q.inp.minDue = FALSE /\ q.inp.maxDue = FALSE
        /\ q.inp.ready = FALSE /\ q.inp.detect # "fresh"
    BY <2>4, ResetEffect
  <2> HIDE DEF q
  <2>6. RealtimeActive(r) BY <1>3 DEF Good, OwnsOutput
  <2>7. Good(q) /\ Follows(q, r) /\ ~Pending(q)
    BY <2>3, <2>4, <2>5, <2>6 DEF Good, OwnsOutput, PausedIsPending, EndConsistent, Pending,
       RealtimeActive, InSpeechTurn, Follows
  <2>8. Recovered(q, r)
    BY <1>3, <2>3, <2>4, <2>5 DEF Recovered, SameGeneration, Revised
  <2> QED BY <1>3, <2>2, <2>3, <2>4, <2>5, <2>7, <2>8
<1> QED BY <1>1, <1>2, <1>3

\* interruptionChangedLocked keeps the invariant and the input.
LEMMA ChangedGood ==
  ASSUME NEW r, Good(r)
  PROVE  LET q == InterruptionChanged(r)
         IN  /\ Good(q) /\ Follows(q, r) /\ q.inp = r.inp
             /\ q = r \/ q.loop.wake
             /\ q.out = r.out /\ q.resp = r.resp
             /\ q.int.state = r.int.state
             /\ IF Pending(r) THEN Revised(q, r) ELSE q = r
<1>0. r \in Session BY DEF Good
<1>1. CASE ~Pending(r)
  BY <1>1 DEF InterruptionChanged, Follows
<1>2. CASE Pending(r)
  <2> DEFINE d == Revise(r)
             e == [d EXCEPT !.int.notBeforeDue = ~r.inp.end]
             q == Wake(e)
  <2>1. /\ d \in Session /\ Follows(d, r) /\ d.out = r.out /\ d.inp = r.inp
        /\ d.int.state = r.int.state /\ d.int.gen = r.int.gen
        /\ d.resp = r.resp /\ Revised(d, r)
    BY <1>0 DEF Revise, Session, InterruptionRecord, Outdated, Jobs, Follows, Revised
  <2> HIDE DEF d
  <2>2. /\ e \in Session /\ Follows(e, d) /\ e.out = d.out /\ e.inp = d.inp
        /\ e.int.state = d.int.state /\ e.int.gen = d.int.gen
        /\ e.resp = d.resp /\ e.int.classify = d.int.classify
    BY <1>0, <2>1 DEF Session, InterruptionRecord, InputRecord, Follows
  <2> HIDE DEF e
  <2>3. /\ q \in Session /\ Follows(q, e) /\ q.out = e.out /\ q.inp = e.inp
        /\ q.int = e.int /\ q.loop.wake /\ q.resp = e.resp
    BY <2>2, WakeEffect
  <2> HIDE DEF q
  <2>4. Good(q) /\ Follows(q, r)
    BY <2>1, <2>2, <2>3 DEF Good, OwnsOutput, PausedIsPending, EndConsistent, Pending,
       RealtimeActive, InSpeechTurn, Follows
  <2>5. InterruptionChanged(r) = q BY <1>2 DEF InterruptionChanged, q, e, d
  <2>6. Revised(q, r) BY <2>1, <2>2, <2>3 DEF Revised
  <2> QED BY <1>2, <2>1, <2>2, <2>3, <2>4, <2>5, <2>6
<1> QED BY <1>1, <1>2

\* A new suspicion keeps the invariant: it pauses the generation it is about.
LEMMA SuspectGood ==
  ASSUME NEW r, Good(r), r.live, ~Pending(r), RealtimeActive(r), InSpeechTurn(r),
         NEW g \in Nat \ {0}, g = r.out.gen, NEW id \in Tokens, NEW freshTurn \in BOOLEAN
  PROVE  LET q == Suspect(r, g, id, freshTurn)
         IN  Good(q) /\ Follows(q, r) /\ q.loop.wake /\ Suspected(q, r)
<1> DEFINE i == InvalidateInterruption(r)
           p == [i EXCEPT !.int = [@ EXCEPT !.gen = g, !.id = id, !.resumed = ~freshTurn,
                                            !.notBeforeDue = ~freshTurn]]
           h == [p EXCEPT !.int.state = "paused", !.out.paused = r.out.audio # "none"]
<1>0. r \in Session BY DEF Good
<1>1. /\ i \in Session /\ Follows(i, r) /\ i.loop.wake /\ i.out = r.out /\ i.inp = r.inp
      /\ i.int.state = "idle" /\ i.resp = r.resp /\ Revised(i, r)
  BY <1>0, InvalidateEffect
<1> HIDE DEF i
<1>2. /\ p \in Session /\ Follows(p, i) /\ p.loop = i.loop /\ p.out = i.out /\ p.inp = i.inp
      /\ p.int.gen = g /\ p.resp = i.resp /\ p.int.classify = i.int.classify
  BY <1>1 DEF Session, InterruptionRecord, Follows
<1> HIDE DEF p
<1>3. CASE OutputRecoverable(r)
  <2>1. /\ h \in Session /\ Follows(h, p) /\ h.inp = p.inp /\ h.out.gen = p.out.gen
        /\ h.int.state = "paused" /\ h.int.gen = p.int.gen
        /\ h.out.made = p.out.made /\ h.resp = p.resp /\ h.int.classify = p.int.classify
    BY <1>2 DEF Session, InterruptionRecord, OutputRecord, Follows
  <2> HIDE DEF h
  <2>2. /\ Wake(h) \in Session /\ Follows(Wake(h), h) /\ Wake(h).loop.wake
        /\ Wake(h).inp = h.inp /\ Wake(h).out = h.out /\ Wake(h).int = h.int
        /\ Wake(h).resp = h.resp
    BY <2>1, WakeEffect
  <2>3. Suspect(r, g, id, freshTurn) = Wake(h) BY <1>3 DEF Suspect, h, p, i
  <2>4. Good(Wake(h)) /\ Follows(Wake(h), r)
    BY <1>1, <1>2, <2>1, <2>2 DEF Good, OwnsOutput, PausedIsPending, EndConsistent, Pending,
       RealtimeActive, InSpeechTurn, Follows
  <2>5. Suspected(Wake(h), r)
    BY <1>1, <1>2, <2>1, <2>2 DEF Suspected, SameGeneration, Revised
  <2> QED BY <2>2, <2>3, <2>4, <2>5
<1>4. CASE ~OutputRecoverable(r)
  <2> DEFINE q == Settle(p, "recovered")
  <2>1. /\ q \in Session /\ Follows(q, p) /\ q.loop = p.loop /\ q.inp = p.inp /\ q.out = p.out
        /\ q.int.state = "recovered" /\ q.resp = p.resp /\ Revised(q, p)
    BY <1>2, SettleEffect
  <2> HIDE DEF q
  <2>2. Suspect(r, g, id, freshTurn) = q BY <1>4 DEF Suspect, p, i, q
  <2>3. Good(q) /\ Follows(q, r) /\ q.loop.wake
    BY <1>1, <1>2, <2>1 DEF Good, OwnsOutput, PausedIsPending, EndConsistent, Pending,
       RealtimeActive, InSpeechTurn, Follows
  <2>4. Suspected(q, r)
    BY <1>1, <1>2, <2>1 DEF Suspected, SameGeneration, Revised, Outdated
  <2> QED BY <2>2, <2>3, <2>4
<1> QED BY <1>3, <1>4

\* beginInterruptionLocked keeps the invariant on every one of its paths.
LEMMA BeginGood ==
  ASSUME NEW r, Good(r), NEW g \in Nat, NEW id \in Tokens \cup {NoToken},
         NEW freshTurn \in BOOLEAN
  PROVE  LET q == BeginInterruption(r, g, id, freshTurn)
         IN  /\ Good(q) /\ Follows(q, r) /\ (q = r \/ q.loop.wake)
             /\ q = r \/ Confirmed(q, r) \/ Suspected(q, r)
<1>0. r \in Session BY DEF Good
<1>1. CASE \/ ~r.live \/ ~RealtimeActive(r) \/ g = 0 \/ id = NoToken
           \/ g # r.out.gen \/ ~InSpeechTurn(r)
  BY <1>1 DEF BeginInterruption, Follows
<1>2. CASE /\ r.live /\ RealtimeActive(r) /\ g # 0 /\ id # NoToken
           /\ g = r.out.gen /\ InSpeechTurn(r)
  <2>1. CASE Pending(r)
    <3> DEFINE p == [r EXCEPT !.int = [@ EXCEPT !.id = id, !.resumed = TRUE]]
    <3>1. /\ p \in Session /\ Follows(p, r) /\ p.out = r.out /\ p.inp = r.inp
          /\ p.int.state = r.int.state /\ p.int.gen = r.int.gen
          /\ p.resp = r.resp /\ p.int.classify = r.int.classify
      BY <1>0 DEF Session, InterruptionRecord, Follows
    <3> HIDE DEF p
    <3>2. Good(p)
      BY <3>1 DEF Good, OwnsOutput, PausedIsPending, EndConsistent, Pending,
         RealtimeActive, InSpeechTurn, Follows
    <3>3. Pending(p) BY <2>1, <3>1 DEF Pending
    <3>4. Good(Confirm(p)) /\ Follows(Confirm(p), p) /\ ~Pending(Confirm(p))
          /\ (Confirm(p) = p \/ Confirm(p).loop.wake) /\ Confirmed(Confirm(p), p)
      BY <3>2, <3>3, ConfirmGood
    <3>5. r.int.gen = g BY <1>2, <2>1 DEF Good, OwnsOutput
    <3>6. BeginInterruption(r, g, id, freshTurn) \in {r, Confirm(p)}
      BY <1>2, <2>1, <3>5 DEF BeginInterruption, p
    <3>7. Confirmed(Confirm(p), r)
      BY <2>1, <3>1, <3>4 DEF Confirmed, SameFloor, Dropped, Asked, Revised, Follows
    <3> QED BY <3>1, <3>3, <3>4, <3>6, <3>7 DEF Follows
  <2>2. CASE ~Pending(r)
    <3>1. BeginInterruption(r, g, id, freshTurn) = Suspect(r, g, id, freshTurn)
      BY <1>2, <2>2 DEF BeginInterruption
    <3> QED BY <1>2, <2>2, <3>1, SuspectGood
  <2> QED BY <2>1, <2>2
<1> QED BY <1>1, <1>2

\* startGeneration replaces the output and ends the decision about the old one.
LEMMA StartGenerationGood ==
  ASSUME NEW r, Good(r), NEW textOnly \in BOOLEAN
  PROVE  LET q == StartGeneration(r, textOnly)
         IN  /\ Good(q) /\ Follows(q, r) /\ (q = r \/ q.loop.wake)
             /\ IF r.live THEN Started(q, r) ELSE q = r
<1>0. r \in Session BY DEF Good
<1>1. CASE ~r.live BY <1>1 DEF StartGeneration, Follows
<1>2. CASE r.live
  <2> DEFINE i == InvalidateInterruption(r)
             o == [gen |-> r.out.made + 1, made |-> r.out.made + 1, done |-> FALSE,
                   audio |-> IF textOnly THEN "none" ELSE "drained", paused |-> FALSE]
             q == [i EXCEPT !.out = o]
  <2>1. /\ i \in Session /\ Follows(i, r) /\ i.loop.wake /\ i.inp = r.inp
        /\ i.int.state = "idle" /\ i.resp = r.resp /\ Revised(i, r)
    BY <1>0, InvalidateEffect
  <2> HIDE DEF i
  <2>2. /\ o \in OutputRecord /\ o.paused = FALSE
        /\ o.gen = r.out.made + 1 /\ o.made = r.out.made + 1
    BY <1>0 DEF Session, OutputRecord
  <2> HIDE DEF o
  <2>3. /\ q \in Session /\ Follows(q, i) /\ q.loop = i.loop /\ q.inp = i.inp
        /\ q.int = i.int /\ q.out = o /\ q.resp = i.resp
    BY <2>1, <2>2 DEF Session, Follows
  <2> HIDE DEF q
  <2>4. Good(q) /\ Follows(q, r) /\ q.loop.wake
    BY <2>1, <2>2, <2>3 DEF Good, OwnsOutput, PausedIsPending, EndConsistent, Pending,
       RealtimeActive, InSpeechTurn, Follows
  <2>5. StartGeneration(r, textOnly) = q BY <1>2 DEF StartGeneration, q, o, i
  <2>6. Started(q, r) BY <1>2, <2>1, <2>2, <2>3 DEF Started, Revised
  <2> QED BY <1>2, <2>4, <2>5, <2>6
<1> QED BY <1>1, <1>2

\* cancelGenerationLocked keeps the invariant.
LEMMA CancelGood ==
  ASSUME NEW r, Good(r)
  PROVE  LET q == CancelGeneration(r)
         IN  Good(q) /\ Follows(q, r) /\ q.loop.wake
  BY CancelEffect DEF Good, OwnsOutput, PausedIsPending, EndConsistent, Pending,
     RealtimeActive, InSpeechTurn, Follows

\* Dropping the response context keeps the invariant.
LEMMA DropGood ==
  ASSUME NEW r, Good(r)
  PROVE  LET q == DropResponse(r)
         IN  Good(q) /\ Follows(q, r) /\ q.loop = r.loop /\ q.inp = r.inp /\ q.int = r.int
  BY DropEffect DEF Good, OwnsOutput, PausedIsPending, EndConsistent, Pending,
     RealtimeActive, InSpeechTurn, Follows

\* The start of speech keeps the invariant, in a new turn or in one that has an ID.
LEMMA TakeFloorGood ==
  ASSUME NEW r, Good(r), RealtimeActive(r), NEW freshTurn \in BOOLEAN,
         ~freshTurn => r.inp.turn
  PROVE  LET q == TakeFloor(r, freshTurn)
         IN  /\ Good(q) /\ Follows(q, r) /\ q.loop.wake
             /\ q.out = r.out /\ q.int = r.int /\ Dropped(q, r)
             /\ q.inp.state = "speaking" /\ ~q.inp.ready
<1> DEFINE d == DropResponse(r)
           e == ResetEndpoint(d)
           q == [e EXCEPT !.inp = [@ EXCEPT !.state = "speaking",
                                            !.turn = r.inp.turn \/ freshTurn,
                                            !.hasSpeech = r.inp.hasSpeech /\ ~freshTurn]]
<1>1. /\ d \in Session /\ Follows(d, r) /\ d.out = r.out /\ d.inp = r.inp /\ d.int = r.int
  BY DropEffect DEF Good
<1>1a. Dropped(d, r) BY DropEffect DEF Good
<1> HIDE DEF d
<1>2. /\ e \in Session /\ Follows(e, d) /\ e.loop.wake /\ e.out = d.out /\ e.int = d.int
      /\ e.resp = d.resp
      /\ e.inp.active = d.inp.active /\ e.inp.realtime = d.inp.realtime
      /\ e.inp.turn = d.inp.turn
      /\ e.inp.end = FALSE /\ e.inp.minDue = FALSE /\ e.inp.maxDue = FALSE
      /\ e.inp.ready = FALSE /\ e.inp.detect # "fresh"
  BY <1>1, ResetEffect
<1> HIDE DEF e
<1>3. /\ q \in Session /\ Follows(q, e) /\ q.loop = e.loop /\ q.out = e.out /\ q.int = e.int
      /\ q.resp = e.resp
      /\ q.inp.state = "speaking" /\ q.inp.turn = (r.inp.turn \/ freshTurn)
      /\ q.inp.active = e.inp.active /\ q.inp.realtime = e.inp.realtime
      /\ q.inp.end = e.inp.end /\ q.inp.minDue = e.inp.minDue /\ q.inp.maxDue = e.inp.maxDue
      /\ q.inp.ready = e.inp.ready /\ q.inp.detect = e.inp.detect
  BY <1>2 DEF Good, Session, InputRecord, TurnStates, Follows
<1> HIDE DEF q
<1>4. EndConsistent(q) /\ Follows(q, r) /\ q.loop.wake
  BY <1>1, <1>2, <1>3 DEF EndConsistent, RealtimeActive, InSpeechTurn, Follows
<1>4a. Good(q)
  BY <1>1, <1>2, <1>3, <1>4 DEF Good, OwnsOutput, PausedIsPending, Pending,
     RealtimeActive, InSpeechTurn, Follows
<1>5. q.out = r.out /\ q.int = r.int /\ Dropped(q, r) /\ ~q.inp.ready
  BY <1>1, <1>1a, <1>2, <1>3 DEF Dropped
<1> QED BY <1>3, <1>4, <1>4a, <1>5 DEF TakeFloor, q, e, d

\* prepareInterruptionLocked keeps the invariant.
LEMMA PrepareGood ==
  ASSUME NEW r, Good(r)
  PROVE  LET q == PrepareInterruption(r)
         IN  /\ Good(q) /\ Follows(q, r)
             /\ \/ q = r \/ Confirmed(q, r)
                \/ /\ Pending(r) /\ r.int.classify = "none" /\ Pending(q)
                   /\ q.out = r.out /\ q.inp = r.inp /\ q.resp = r.resp
<1> DEFINE q == [r EXCEPT !.int = [@ EXCEPT !.tried = TRUE, !.classify = "fresh"]]
<1>1. r \in Session BY DEF Good
<1>2. /\ q \in Session /\ Follows(q, r) /\ q.out = r.out /\ q.inp = r.inp
      /\ q.int.state = r.int.state /\ q.int.gen = r.int.gen
      /\ q.resp = r.resp
  BY <1>1 DEF Session, InterruptionRecord, Jobs, Follows
<1> HIDE DEF q
<1>3. Good(q)
  BY <1>2 DEF Good, OwnsOutput, PausedIsPending, EndConsistent, Pending,
     RealtimeActive, InSpeechTurn, Follows
<1>4. \/ PrepareInterruption(r) \in {r, Confirm(r)}
      \/ PrepareInterruption(r) = q /\ Pending(r) /\ r.int.classify = "none"
  BY DEF PrepareInterruption, q
<1>5. Follows(r, r) BY DEF Follows
<1>6. CASE PrepareInterruption(r) = Confirm(r)
  BY <1>6, ConfirmGood
<1>7. CASE PrepareInterruption(r) = q /\ Pending(r) /\ r.int.classify = "none"
  BY <1>2, <1>3, <1>7 DEF Pending
<1> QED BY <1>4, <1>5, <1>6, <1>7

\* The endpoint half of an iteration of runInput keeps the invariant.
LEMMA CheckGood ==
  ASSUME NEW r, Good(r)
  PROVE  LET q == CheckEndpoint(r)
         IN  /\ Good(q) /\ Follows(q, r)
             /\ \/ q = r
                \/ r.inp.end /\ Committed(q, r)
                \/ /\ r.inp.end /\ q.inp.end /\ q.inp.active = r.inp.active
                   /\ q.out = r.out /\ q.int = r.int /\ q.resp = r.resp
<1> DEFINE q == [r EXCEPT !.inp = [@ EXCEPT !.attempted = TRUE, !.state = "waiting",
                                            !.detect = "fresh"]]
<1>1. r \in Session /\ Follows(r, r) BY DEF Good, Follows
<1>2. CASE ~AwaitingEndpoint(r) BY <1>1, <1>2 DEF CheckEndpoint
<1>3. CASE AwaitingEndpoint(r)
  <2>0. r.inp.end BY <1>3 DEF AwaitingEndpoint
  <2>1. /\ q \in Session /\ Follows(q, r) /\ q.out = r.out /\ q.int = r.int
        /\ q.inp.state = "waiting" /\ q.inp.turn = r.inp.turn /\ q.inp.end = r.inp.end
        /\ q.inp.active = r.inp.active /\ q.inp.realtime = r.inp.realtime
        /\ q.inp.ready = r.inp.ready /\ q.resp = r.resp
    BY <1>1 DEF Session, InputRecord, TurnStates, Jobs, Follows
  <2> HIDE DEF q
  <2>2. Good(q)
    BY <2>0, <2>1 DEF Good, OwnsOutput, PausedIsPending, EndConsistent, Pending,
       RealtimeActive, InSpeechTurn, Follows
  <2>3. CheckEndpoint(r) \in {r, q, CommitTurn(r)} BY <1>3 DEF CheckEndpoint, q
  <2> QED BY <1>1, <2>0, <2>1, <2>2, <2>3, CommitGood
<1> QED BY <1>2, <1>3

\* What the timer has to cover depends on these fields only.
LEMMA ArmedSame ==
  ASSUME NEW q, NEW r, q.int = r.int, q.inp.end = r.inp.end, q.inp.ready = r.inp.ready,
         q.inp.attempted = r.inp.attempted, q.inp.detect = r.inp.detect
  PROVE  ArmedFor(q) = ArmedFor(r)
  BY DEF ArmedFor, Pending, AwaitingEndpoint, CanDetect

\* After an iteration the timer covers what the state asks for.
LEMMA IteratedGood ==
  ASSUME NEW r, Good(r)
  PROVE  LET q == Iterated(r)
             d == CheckEndpoint(PrepareInterruption(r))
         IN  /\ Good(q) /\ LoopCovers(q) /\ q.live = d.live /\ q.out = d.out
             /\ q.inp = d.inp /\ q.int = d.int /\ q.resp = d.resp
<1> DEFINE d == CheckEndpoint(PrepareInterruption(r))
           q == [d EXCEPT !.loop = [@ EXCEPT !.top = FALSE, !.armed = ArmedFor(d)]]
<1>1. Good(d) /\ d \in Session BY PrepareGood, CheckGood DEF Good
<1> HIDE DEF d
<1>2. ArmedFor(d) \in SUBSET Milestones BY DEF ArmedFor
<1>3. /\ q \in Session /\ q.out = d.out /\ q.inp = d.inp /\ q.int = d.int /\ q.live = d.live
      /\ q.loop.armed = ArmedFor(d) /\ q.resp = d.resp
  BY <1>1, <1>2 DEF Session, LoopRecord
<1> HIDE DEF q
<1>4. Good(q)
  BY <1>1, <1>3 DEF Good, OwnsOutput, PausedIsPending, EndConsistent, Pending,
     RealtimeActive, InSpeechTurn
<1>5. LoopCovers(q) BY <1>3, ArmedSame DEF LoopCovers
<1> QED BY <1>3, <1>4, <1>5 DEF Iterated, d, q

-----------------------------------------------------------------------------

\* The inductive invariant.
IInv == /\ Good(s) /\ LoopCovers(s)
        /\ reader \in {"idle", "committed", "text", "gone"}
        /\ superseded \in SUBSET Nat
        /\ evidence \in {"none", "current", "outdated"}

\* A step into a good session keeps IInv: the history variables follow.
LEMMA BecomeKeeps ==
  ASSUME IInv, NEW r, NEW b \in BOOLEAN, Good(r), LoopCovers(r), Become(r, b),
         reader' \in {"idle", "committed", "text", "gone"}
  PROVE  IInv'
<1>1. s' = r BY DEF Become
<1>2. Good(s') /\ LoopCovers(s') BY <1>1
<1>3. Good(s)' /\ LoopCovers(s)' BY <1>2 DEF Good, LoopCovers, OwnsOutput, PausedIsPending,
      EndConsistent, Pending, RealtimeActive, InSpeechTurn, ArmedFor, AwaitingEndpoint, CanDetect
<1>4. s'.resp.jobs \in SUBSET Nat BY <1>2 DEF Good, Session, ResponseRecord
<1>5. superseded' \in SUBSET Nat BY <1>4 DEF Become
<1>6. evidence' \in {"none", "current", "outdated"} BY DEF Become, EvidenceAfter, IInv
<1> QED BY <1>3, <1>5, <1>6 DEF IInv

\* The same for a message handled by the socket reader.
LEMMA HandleKeeps ==
  ASSUME IInv, NEW r, NEW b \in BOOLEAN, Good(r), LoopCovers(r), Handle(r, b)
  PROVE  IInv'
  BY BecomeKeeps DEF Handle, ReadMessage, NextMessage

\* The same for a step of a worker, of the loop or of time.
LEMMA WorkKeeps ==
  ASSUME IInv, NEW r, Good(r), LoopCovers(r), Work(r)
  PROVE  IInv'
  BY BecomeKeeps DEF Work, IInv

\* A woken loop, or one about to iterate, has no timer to rely on.
LEMMA Covered ==
  ASSUME NEW r, r.loop.wake \/ r.loop.top
  PROVE  LoopCovers(r)
  BY DEF LoopCovers

\* A helper that changes something wakes the loop.
LEMMA CoveredStill ==
  ASSUME NEW r, LoopCovers(r), NEW q, Follows(q, r), q = r \/ q.loop.wake
  PROVE  LoopCovers(q)
  BY DEF LoopCovers

\* A new session satisfies IInv.
LEMMA InitIInv == Init => IInv
  BY DEF Init, IInv, Good, LoopCovers, OwnsOutput, PausedIsPending, EndConsistent, Pending,
     RealtimeActive, InSpeechTurn, Session, OutputRecord, ResponseRecord, InputRecord,
     InterruptionRecord, LoopRecord, Milestones, TurnStates, Jobs

-----------------------------------------------------------------------------
(* A change of the output, of the buffer or of a clock.                    *)

\* What IInv says of the session, for citing.
LEMMA Current ==
  ASSUME IInv
  PROVE  Good(s) /\ LoopCovers(s) /\ s \in Session
  BY DEF IInv, Good

\* Without active realtime input nothing is pending and no turn has ended.
LEMMA QuietInput ==
  ASSUME NEW r, Good(r), ~RealtimeActive(r)
  PROVE  /\ ~Pending(r) /\ r.inp.state = "idle"
         /\ ~r.inp.end /\ ~r.inp.ready /\ ~r.inp.minDue /\ ~r.inp.maxDue
         /\ r.inp.detect # "fresh"
  BY DEF Good, OwnsOutput, EndConsistent

\* A change of the input that leaves the endpoint alone.
LEMMA InputKeeps ==
  ASSUME NEW r, Good(r), NEW q \in Session,
         q.live = r.live, q.loop = r.loop, q.out = r.out, q.int = r.int,
         q.inp.end = r.inp.end, q.inp.ready = r.inp.ready,
         q.inp.attempted = r.inp.attempted, q.inp.detect = r.inp.detect,
         OwnsOutput(q), EndConsistent(q)
  PROVE  Good(q) /\ Follows(q, r) /\ (LoopCovers(r) => LoopCovers(q))
<1>1. ArmedFor(q) = ArmedFor(r) BY ArmedSame
<1> QED BY <1>1 DEF Good, PausedIsPending, Pending, Follows, LoopCovers

\* A change of the output that keeps its generation and adds no pause.
LEMMA OutputKeeps ==
  ASSUME NEW r, Good(r), LoopCovers(r), NEW q \in Session,
         q.live = r.live, q.loop = r.loop, q.inp = r.inp, q.int = r.int,
         q.out.gen = r.out.gen, q.out.paused => r.out.paused \/ Pending(r)
  PROVE  Good(q) /\ LoopCovers(q)
<1>1. ArmedFor(q) = ArmedFor(r) BY ArmedSame
<1>2. LoopCovers(q) BY <1>1 DEF LoopCovers
<1> QED BY <1>2 DEF Good, OwnsOutput, PausedIsPending, EndConsistent, Pending,
     RealtimeActive, InSpeechTurn

\* A change of the response context.
LEMMA ResponseKeeps ==
  ASSUME NEW r, Good(r), LoopCovers(r), NEW q \in Session,
         q.live = r.live, q.loop = r.loop, q.inp = r.inp, q.int = r.int, q.out = r.out
  PROVE  Good(q) /\ LoopCovers(q)
  BY OutputKeeps

\* A playback report keeps the generation and the pause.
LEMMA PlayedEffect ==
  ASSUME NEW r \in Session
  PROVE  LET q == Played(r)
         IN  /\ q \in Session /\ q.live = r.live /\ q.loop = r.loop /\ q.inp = r.inp
             /\ q.int = r.int /\ q.out.gen = r.out.gen /\ q.out.paused = r.out.paused
  BY DEF Played, Session, OutputRecord

\* input_audio.start in realtime mode (input.go 139).
LEMMA StartRealtimeInputKeeps ==
  ASSUME IInv, StartRealtimeInput
  PROVE  IInv'
<1> DEFINE e == ResetEndpoint(s)
           q == [e EXCEPT !.inp = [@ EXCEPT !.active = TRUE, !.realtime = TRUE, !.buf = 0,
                                            !.state = "listening"]]
<1>1. Good(s) /\ LoopCovers(s) /\ s \in Session BY Current
<1>2. ~RealtimeActive(s) BY DEF StartRealtimeInput, RealtimeActive
<1>3. ~Pending(s) BY <1>1, <1>2, QuietInput
<1>4. /\ e \in Session /\ e.loop.wake /\ e.live = s.live /\ e.out = s.out /\ e.int = s.int
      /\ e.inp.end = FALSE /\ e.inp.minDue = FALSE /\ e.inp.maxDue = FALSE
      /\ e.inp.ready = FALSE /\ e.inp.detect # "fresh"
  BY <1>1, ResetEffect DEF Follows
<1> HIDE DEF e
<1>5. /\ q \in Session /\ q.loop = e.loop /\ q.live = e.live /\ q.out = e.out /\ q.int = e.int
      /\ q.inp.state = "listening" /\ q.inp.active /\ q.inp.realtime
      /\ q.inp.end = e.inp.end /\ q.inp.minDue = e.inp.minDue /\ q.inp.maxDue = e.inp.maxDue
      /\ q.inp.ready = e.inp.ready /\ q.inp.detect = e.inp.detect
  BY <1>4 DEF Session, InputRecord, TurnStates
<1> HIDE DEF q
<1>6. Good(q) /\ LoopCovers(q)
  BY <1>1, <1>3, <1>4, <1>5 DEF Good, OwnsOutput, PausedIsPending, EndConsistent, Pending,
     RealtimeActive, InSpeechTurn, LoopCovers
<1>7. Handle(q, FALSE) BY DEF StartRealtimeInput, q, e
<1> QED BY <1>6, <1>7, HandleKeeps

\* input_audio.start in manual mode (session.go 263).
LEMMA StartInputAudioKeeps ==
  ASSUME IInv, StartInputAudio
  PROVE  IInv'
<1> DEFINE q == [s EXCEPT !.inp = [@ EXCEPT !.active = TRUE, !.realtime = FALSE, !.buf = 0]]
<1>1. Good(s) /\ LoopCovers(s) /\ s \in Session BY Current
<1>2. ~RealtimeActive(s) BY DEF StartInputAudio
<1>3. /\ q \in Session /\ q.loop = s.loop /\ q.live = s.live /\ q.out = s.out /\ q.int = s.int
      /\ q.inp.state = s.inp.state /\ ~q.inp.realtime
      /\ q.inp.end = s.inp.end /\ q.inp.minDue = s.inp.minDue /\ q.inp.maxDue = s.inp.maxDue
      /\ q.inp.ready = s.inp.ready /\ q.inp.detect = s.inp.detect
      /\ q.inp.attempted = s.inp.attempted
  BY <1>1 DEF Session, InputRecord
<1> HIDE DEF q
<1>4. OwnsOutput(q) /\ EndConsistent(q)
  BY <1>1, <1>2, <1>3, QuietInput DEF OwnsOutput, EndConsistent, Pending, RealtimeActive,
     InSpeechTurn
<1>5. Good(q) /\ LoopCovers(q) BY <1>1, <1>3, <1>4, InputKeeps
<1>6. Handle(q, FALSE) BY DEF StartInputAudio, q
<1> QED BY <1>5, <1>6, HandleKeeps

\* Stopping and cancelling input, in either mode (input.go 238).
LEMMA CancelledInputGood ==
  ASSUME IInv, NEW stop \in BOOLEAN
  PROVE  Good(CancelledInput(stop)) /\ LoopCovers(CancelledInput(stop))
<1>0. Good(s) /\ LoopCovers(s) /\ s \in Session BY Current
<1>1. CASE ~s.inp.realtime
  <2> DEFINE d == DropResponse(s)
             q == [d EXCEPT !.inp = [@ EXCEPT !.buf = 0, !.active = FALSE]]
  <2>1. /\ Good(d) /\ d \in Session /\ d.loop = s.loop /\ d.inp = s.inp /\ d.int = s.int
        /\ d.live = s.live
    BY <1>0, DropGood DEF Good, Follows
  <2>2. LoopCovers(d) BY <1>0, <2>1, ArmedSame DEF LoopCovers
  <2> HIDE DEF d
  <2>3. ~RealtimeActive(d) BY <1>1, <2>1 DEF RealtimeActive
  <2>4. /\ q \in Session /\ q.loop = d.loop /\ q.live = d.live /\ q.out = d.out
        /\ q.int = d.int /\ q.inp.state = d.inp.state /\ ~q.inp.active
        /\ q.inp.end = d.inp.end /\ q.inp.minDue = d.inp.minDue
        /\ q.inp.maxDue = d.inp.maxDue /\ q.inp.ready = d.inp.ready
        /\ q.inp.detect = d.inp.detect /\ q.inp.attempted = d.inp.attempted
    BY <2>1 DEF Session, InputRecord
  <2> HIDE DEF q
  <2>5. OwnsOutput(q) /\ EndConsistent(q)
    BY <2>1, <2>3, <2>4, QuietInput DEF OwnsOutput, EndConsistent, Pending, RealtimeActive,
       InSpeechTurn
  <2>6. Good(q) /\ LoopCovers(q) BY <2>1, <2>2, <2>4, <2>5, InputKeeps
  <2> QED BY <1>1, <2>6 DEF CancelledInput, q, d
<1>2. CASE s.inp.realtime
  <2> DEFINE v == Recover(s)
             e == ResetEndpoint(v)
             d == DropResponse(e)
             q == [d EXCEPT !.inp = [@ EXCEPT
                     !.buf = 0, !.turn = FALSE, !.active = d.inp.active /\ ~stop,
                     !.state = IF stop THEN "idle"
                               ELSE IF d.inp.active THEN "listening" ELSE d.inp.state]]
  <2>1. Good(v) /\ v \in Session /\ ~Pending(v) /\ v.inp.realtime
    BY <1>0, <1>2, RecoverGood DEF Good
  <2> HIDE DEF v
  <2>2. /\ e \in Session /\ Follows(e, v) /\ e.loop.wake /\ e.out = v.out /\ e.int = v.int
        /\ e.inp.active = v.inp.active /\ e.inp.realtime = v.inp.realtime
        /\ e.inp.state = v.inp.state
        /\ e.inp.end = FALSE /\ e.inp.minDue = FALSE /\ e.inp.maxDue = FALSE
        /\ e.inp.ready = FALSE /\ e.inp.detect # "fresh"
    BY <2>1, ResetEffect
  <2> HIDE DEF e
  <2>3. /\ d \in Session /\ Follows(d, e) /\ d.loop = e.loop /\ d.out = e.out
        /\ d.inp = e.inp /\ d.int = e.int
    BY <2>2, DropEffect
  <2> HIDE DEF d
  <2>4. d.inp.active \in BOOLEAN /\ d.inp.realtime \in BOOLEAN /\ d.inp.state \in TurnStates
    BY <2>3 DEF Session, InputRecord
  <2>5. /\ q \in Session /\ Follows(q, d) /\ q.loop = d.loop /\ q.out = d.out
        /\ q.int = d.int /\ q.inp.realtime = d.inp.realtime
        /\ q.inp.active = (d.inp.active /\ ~stop)
        /\ q.inp.state = IF stop THEN "idle"
                         ELSE IF d.inp.active THEN "listening" ELSE d.inp.state
        /\ q.inp.end = d.inp.end /\ q.inp.minDue = d.inp.minDue
        /\ q.inp.maxDue = d.inp.maxDue /\ q.inp.ready = d.inp.ready
        /\ q.inp.detect = d.inp.detect
    BY <2>3, <2>4 DEF Session, InputRecord, TurnStates, Follows
  <2> HIDE DEF q
  <2>6. ~d.inp.active => d.inp.state = "idle"
    BY <2>1, <2>2, <2>3 DEF Good, EndConsistent, RealtimeActive
  <2>7. q.inp.state \in {"idle", "listening"} /\ (q.inp.state # "idle" <=> q.inp.active)
    BY <2>4, <2>5, <2>6
  <2>8. q.inp.realtime BY <2>1, <2>2, <2>3, <2>5
  <2>9. ~Pending(q) /\ (q.out.paused => ~q.live)
    BY <2>1, <2>2, <2>3, <2>5 DEF Good, PausedIsPending, Pending, Follows
  <2>10. EndConsistent(q)
    BY <2>2, <2>3, <2>5, <2>7, <2>8 DEF EndConsistent, RealtimeActive, InSpeechTurn
  <2>11. Good(q) BY <2>5, <2>9, <2>10 DEF Good, OwnsOutput, PausedIsPending
  <2>12. LoopCovers(q) BY <2>2, <2>3, <2>5 DEF LoopCovers
  <2>13. CancelledInput(stop) = q BY <1>2 DEF CancelledInput, q, d, e, v
  <2> QED BY <2>11, <2>12, <2>13
<1> QED BY <1>1, <1>2

\* input_audio.stop and input_audio.cancel.
LEMMA CancelInputKeeps ==
  ASSUME IInv, NEW stop \in BOOLEAN, CancelInput(stop)
  PROVE  IInv'
  BY CancelledInputGood, HandleKeeps DEF CancelInput

\* The buffer grows or is trimmed: nothing else depends on it.
LEMMA BufferKeeps ==
  ASSUME NEW r, Good(r), LoopCovers(r), NEW n \in Nat
  PROVE  Good([r EXCEPT !.inp.buf = n]) /\ LoopCovers([r EXCEPT !.inp.buf = n])
<1> DEFINE q == [r EXCEPT !.inp.buf = n]
<1>1. r \in Session BY DEF Good
<1>2. /\ q \in Session /\ q.loop = r.loop /\ q.live = r.live /\ q.out = r.out
      /\ q.int = r.int /\ q.inp.state = r.inp.state /\ q.inp.turn = r.inp.turn
      /\ q.inp.active = r.inp.active /\ q.inp.realtime = r.inp.realtime
      /\ q.inp.end = r.inp.end /\ q.inp.minDue = r.inp.minDue
      /\ q.inp.maxDue = r.inp.maxDue /\ q.inp.ready = r.inp.ready
      /\ q.inp.detect = r.inp.detect /\ q.inp.attempted = r.inp.attempted
  BY <1>1 DEF Session, InputRecord
<1> HIDE DEF q
<1>3. OwnsOutput(q) /\ EndConsistent(q)
  BY <1>2 DEF Good, OwnsOutput, EndConsistent, Pending, RealtimeActive, InSpeechTurn
<1>4. Good(q) /\ LoopCovers(q) BY <1>2, <1>3, InputKeeps
<1> QED BY <1>4 DEF q

\* Audio in manual mode, within its limit or past it.
LEMMA AppendInputAudioKeeps ==
  ASSUME IInv, AppendInputAudio
  PROVE  IInv'
<1>1. Good(s) /\ LoopCovers(s) /\ s \in Session BY Current
<1>2. CASE Handle([s EXCEPT !.inp.buf = @ + 1], FALSE)
  <2>1. s.inp.buf + 1 \in Nat BY <1>1 DEF Session, InputRecord
  <2>2. [s EXCEPT !.inp.buf = @ + 1] = [s EXCEPT !.inp.buf = s.inp.buf + 1]
    BY <1>1 DEF Session, InputRecord
  <2> QED BY <1>1, <1>2, <2>1, <2>2, BufferKeeps, HandleKeeps
<1>3. CASE Handle(CancelledInput(TRUE), TRUE)
  BY <1>3, CancelledInputGood, HandleKeeps
<1> QED BY <1>2, <1>3 DEF AppendInputAudio

\* Audio in realtime mode: preroll, turn, or past the turn limit.
LEMMA AppendRealtimeAudioKeeps ==
  ASSUME IInv, AppendRealtimeAudio
  PROVE  IInv'
<1> DEFINE c == Confirm(s)
           e == ResetEndpoint(c)
           q == [e EXCEPT !.inp = [@ EXCEPT !.buf = 0, !.active = FALSE, !.state = "idle"]]
           kept == IF s.inp.buf < PreRoll THEN s.inp.buf + 1 ELSE PreRoll
<1>1. Good(s) /\ LoopCovers(s) /\ s \in Session BY Current
<1>2. s.inp.buf \in Nat BY <1>1 DEF Session, InputRecord
<1>3. kept \in Nat /\ s.inp.buf + 1 \in Nat BY <1>2, BoundsAssumption
<1>4. Good(c) /\ c \in Session /\ ~Pending(c) BY <1>1, ConfirmGood DEF Good
<1> HIDE DEF c
<1>5. /\ e \in Session /\ e.live = c.live /\ e.loop.wake /\ e.out = c.out /\ e.int = c.int
      /\ e.inp.end = FALSE /\ e.inp.minDue = FALSE /\ e.inp.maxDue = FALSE
      /\ e.inp.ready = FALSE /\ e.inp.detect # "fresh"
  BY <1>4, ResetEffect DEF Follows
<1> HIDE DEF e
<1>6. /\ q \in Session /\ q.loop = e.loop /\ q.live = e.live /\ q.out = e.out /\ q.int = e.int
      /\ q.inp.state = "idle" /\ ~q.inp.active
      /\ q.inp.end = e.inp.end /\ q.inp.minDue = e.inp.minDue /\ q.inp.maxDue = e.inp.maxDue
      /\ q.inp.ready = e.inp.ready /\ q.inp.detect = e.inp.detect
  BY <1>5 DEF Session, InputRecord, TurnStates
<1> HIDE DEF q
<1>7. Good(q) /\ LoopCovers(q)
  BY <1>4, <1>5, <1>6 DEF Good, OwnsOutput, PausedIsPending, EndConsistent, Pending,
     RealtimeActive, InSpeechTurn, LoopCovers
<1>8. \/ Handle([s EXCEPT !.inp.buf = kept], FALSE)
      \/ Handle([s EXCEPT !.inp.buf = s.inp.buf + 1], FALSE)
      \/ Handle(q, FALSE)
  BY DEF AppendRealtimeAudio, q, e, c
<1> HIDE DEF kept
<1> QED BY <1>1, <1>3, <1>7, <1>8, BufferKeeps, HandleKeeps

\* input_audio.speech_start: the floor is taken, and a pending interruption is
\* confirmed or a new one suspected (input.go 167).
LEMMA SpeechStartKeeps ==
  ASSUME IInv, NEW g \in Nat, NEW id \in Tokens \cup {NoToken}, SpeechStart(g, id)
  PROVE  IInv'
<1> DEFINE freshTurn == s.inp.state = "listening"
           t == TakeFloor(s, freshTurn)
           n == IF g = t.out.gen /\ id # NoToken THEN id ELSE t.int.id
           m == [t EXCEPT !.int = [@ EXCEPT !.resumed = TRUE, !.id = n]]
           b == BeginInterruption(t, g, id, freshTurn)
<1>1. Good(s) /\ LoopCovers(s) /\ s \in Session BY Current
<1>2. RealtimeActive(s) /\ s.inp.state # "speaking" BY DEF SpeechStart
<1>3. ~freshTurn => s.inp.turn
  BY <1>1, <1>2 DEF Good, EndConsistent, InSpeechTurn, Session, InputRecord, TurnStates
<1>4. freshTurn \in BOOLEAN OBVIOUS
<1>5. \/ Handle(Confirm(m), TRUE) \/ Handle(b, TRUE)
  BY DEF SpeechStart, m, n, t, b
<1> HIDE DEF freshTurn
<1>6. Good(t) /\ t \in Session /\ t.loop.wake
  BY <1>1, <1>2, <1>3, <1>4, TakeFloorGood DEF Good
<1> HIDE DEF t
<1>7. n \in Tokens \cup {NoToken} BY <1>6 DEF Session, InterruptionRecord
<1> HIDE DEF n
<1>8. /\ m \in Session /\ m.out = t.out /\ m.inp = t.inp /\ m.live = t.live /\ m.loop = t.loop
      /\ m.int.state = t.int.state /\ m.int.gen = t.int.gen
  BY <1>6, <1>7 DEF Session, InterruptionRecord
<1> HIDE DEF m
<1>9. Good(m)
  BY <1>6, <1>8 DEF Good, OwnsOutput, PausedIsPending, EndConsistent, Pending,
     RealtimeActive, InSpeechTurn
<1>10. Good(Confirm(m)) /\ Confirm(m).loop.wake
  BY <1>6, <1>8, <1>9, ConfirmGood
<1>11. Good(b) /\ b.loop.wake BY <1>4, <1>6, BeginGood
<1> HIDE DEF b
<1> QED BY <1>5, <1>10, <1>11, Covered, HandleKeeps

\* input_audio.speech_end and vad_misfire (input.go 202).
LEMMA EndSpeechKeeps ==
  ASSUME IInv, NEW valid \in BOOLEAN, EndSpeech(valid)
  PROVE  IInv'
<1> DEFINE x == ResetEndpoint(s)
           d == [x EXCEPT !.inp = [@ EXCEPT !.buf = 0, !.turn = FALSE, !.state = "listening"]]
           e == [s EXCEPT !.inp = [@ EXCEPT
                    !.hasSpeech = s.inp.hasSpeech \/ valid, !.end = TRUE, !.attempted = FALSE,
                    !.minDue = FALSE, !.maxDue = FALSE, !.state = "possible_end"]]
           w == Wake(InterruptionChanged(e))
<1>1. Good(s) /\ LoopCovers(s) /\ s \in Session BY Current
<1>2. RealtimeActive(s) /\ s.inp.state = "speaking" BY DEF EndSpeech
<1>3. \/ Handle(Recover(s), FALSE)
      \/ ~Pending(s) /\ Handle(d, FALSE)
      \/ Handle(w, FALSE)
  BY DEF EndSpeech, d, x, w, e
<1>4. Good(Recover(s)) /\ LoopCovers(Recover(s)) BY <1>1, RecoverGood, CoveredStill
<1>5. /\ x \in Session /\ x.live = s.live /\ x.loop.wake /\ x.out = s.out /\ x.int = s.int
      /\ x.inp.active = s.inp.active /\ x.inp.realtime = s.inp.realtime
      /\ x.inp.end = FALSE /\ x.inp.minDue = FALSE /\ x.inp.maxDue = FALSE
      /\ x.inp.ready = FALSE /\ x.inp.detect # "fresh"
  BY <1>1, ResetEffect DEF Follows
<1> HIDE DEF x
<1>6. /\ d \in Session /\ d.loop = x.loop /\ d.live = x.live /\ d.out = x.out /\ d.int = x.int
      /\ d.inp.state = "listening"
      /\ d.inp.active = x.inp.active /\ d.inp.realtime = x.inp.realtime
      /\ d.inp.end = x.inp.end /\ d.inp.minDue = x.inp.minDue /\ d.inp.maxDue = x.inp.maxDue
      /\ d.inp.ready = x.inp.ready /\ d.inp.detect = x.inp.detect
  BY <1>5 DEF Session, InputRecord, TurnStates
<1> HIDE DEF d
<1>7. ~Pending(s) => Good(d) /\ LoopCovers(d)
  BY <1>1, <1>2, <1>5, <1>6 DEF Good, OwnsOutput, PausedIsPending, EndConsistent, Pending,
     RealtimeActive, InSpeechTurn, LoopCovers
<1>8. s.inp.hasSpeech \in BOOLEAN BY <1>1 DEF Session, InputRecord
<1>9. /\ e \in Session /\ e.loop = s.loop /\ e.live = s.live /\ e.out = s.out /\ e.int = s.int
      /\ e.inp.state = "possible_end" /\ e.inp.turn = s.inp.turn
      /\ e.inp.active = s.inp.active /\ e.inp.realtime = s.inp.realtime
      /\ e.inp.end = TRUE /\ e.inp.ready = s.inp.ready
  BY <1>1, <1>8 DEF Session, InputRecord, TurnStates
<1> HIDE DEF e
<1>10. Good(e)
  BY <1>1, <1>2, <1>9 DEF Good, OwnsOutput, PausedIsPending, EndConsistent, Pending,
     RealtimeActive, InSpeechTurn
<1> DEFINE c == InterruptionChanged(e)
<1>11. Good(c) /\ c \in Session BY <1>10, ChangedGood DEF Good
<1> HIDE DEF c
<1>12. /\ Wake(c) \in Session /\ Wake(c).loop.wake /\ Wake(c).out = c.out
       /\ Wake(c).inp = c.inp /\ Wake(c).int = c.int /\ Wake(c).live = c.live
  BY <1>11, WakeEffect DEF Follows
<1>13. Good(Wake(c)) /\ LoopCovers(Wake(c))
  BY <1>11, <1>12 DEF Good, OwnsOutput, PausedIsPending, EndConsistent, Pending,
     RealtimeActive, InSpeechTurn, LoopCovers
<1>14. Good(w) /\ LoopCovers(w) BY <1>13 DEF c
<1> HIDE DEF w
<1> QED BY <1>3, <1>4, <1>7, <1>14, HandleKeeps

\* interruption.request.
LEMMA RequestInterruptionKeeps ==
  ASSUME IInv, NEW g \in Nat, NEW id \in Tokens, RequestInterruption(g, id)
  PROVE  IInv'
<1>1. Good(s) /\ LoopCovers(s) BY Current
<1> QED BY <1>1, BeginGood, CoveredStill, HandleKeeps DEF RequestInterruption

\* playback.paused with the position reported (interruption.go 339).
LEMMA PlaybackPausedKeeps ==
  ASSUME IInv, NEW g, NEW id, PlaybackPaused(g, id)
  PROVE  IInv'
<1>1. Good(s) /\ LoopCovers(s) /\ s \in Session BY Current
<1>2. PICK r \in {s, Played(s)} :
         Handle([r EXCEPT !.out.paused = @ \/ r.out.audio # "none"], FALSE)
  BY DEF PlaybackPaused
<1> DEFINE q == [r EXCEPT !.out.paused = @ \/ r.out.audio # "none"]
<1>3. /\ r \in Session /\ r.live = s.live /\ r.loop = s.loop /\ r.inp = s.inp /\ r.int = s.int
      /\ r.out.gen = s.out.gen
  BY <1>1, <1>2, PlayedEffect
<1>4. /\ q \in Session /\ q.live = r.live /\ q.loop = r.loop /\ q.inp = r.inp /\ q.int = r.int
      /\ q.out.gen = r.out.gen
  BY <1>3 DEF Session, OutputRecord
<1>5. Handle(q, FALSE) BY <1>2
<1> HIDE DEF q
<1>6. Pending(s) BY DEF PlaybackPaused
<1>7. Good(q) /\ LoopCovers(q) BY <1>1, <1>3, <1>4, <1>6, OutputKeeps
<1> QED BY <1>5, <1>7, HandleKeeps

\* playback.progress.
LEMMA PlaybackProgressKeeps ==
  ASSUME IInv, NEW g, PlaybackProgress(g)
  PROVE  IInv'
<1>1. Good(s) /\ LoopCovers(s) /\ s \in Session BY Current
<1>2. Good(Played(s)) /\ LoopCovers(Played(s)) BY <1>1, PlayedEffect, OutputKeeps
<1> QED BY <1>2, HandleKeeps DEF PlaybackProgress

\* playback.overflow and interruption.failed (interruption.go 360).
LEMMA PlaybackFailedKeeps ==
  ASSUME IInv, NEW g, NEW id, PlaybackFailed(g, id)
  PROVE  IInv'
<1>1. Good(s) /\ LoopCovers(s) BY Current
<1>2. Good(Confirm(s)) /\ LoopCovers(Confirm(s)) BY <1>1, ConfirmGood, CoveredStill
<1>3. Good(CancelGeneration(s)) /\ LoopCovers(CancelGeneration(s))
  BY <1>1, CancelGood, Covered
<1> QED BY <1>2, <1>3, HandleKeeps DEF PlaybackFailed

\* generation.cancel.
LEMMA ClientCancelsKeeps ==
  ASSUME IInv, NEW g, ClientCancels(g)
  PROVE  IInv'
<1>1. Good(CancelGeneration(s)) /\ LoopCovers(CancelGeneration(s))
  BY Current, CancelGood, Covered
<1> QED BY <1>1, HandleKeeps DEF ClientCancels

\* generation.create: the old response is dropped, a generation started.
LEMMA CreateGenerationKeeps ==
  ASSUME IInv, NEW textOnly \in BOOLEAN, CreateGeneration(textOnly)
  PROVE  IInv'
<1> DEFINE d == DropResponse(s)
           q == StartGeneration(d, textOnly)
<1>1. Good(s) /\ LoopCovers(s) BY Current
<1>2. Good(d) /\ LoopCovers(d) BY <1>1, DropGood, ArmedSame DEF LoopCovers, Follows
<1>3. Handle(q, FALSE) BY DEF CreateGeneration
<1> HIDE DEF d
<1>4. Good(q) /\ LoopCovers(q) BY <1>2, StartGenerationGood, CoveredStill
<1> HIDE DEF q
<1> QED BY <1>3, <1>4, HandleKeeps

\* A new response context in the current session.
LEMMA NewContextKeeps ==
  ASSUME IInv
  PROVE  Good(NewResponseContext(s)) /\ LoopCovers(NewResponseContext(s))
<1>1. Good(s) /\ LoopCovers(s) /\ s \in Session BY Current
<1> QED BY <1>1, NewContextEffect, ResponseKeeps DEF Follows

\* input_audio.commit, first critical section.
LEMMA CommitInputAudioKeeps ==
  ASSUME IInv, CommitInputAudio
  PROVE  IInv'
<1> DEFINE q == [s EXCEPT !.inp = [@ EXCEPT !.buf = 0, !.active = FALSE]]
<1>1. Good(s) /\ LoopCovers(s) /\ s \in Session BY Current
<1>2. ~RealtimeActive(s) BY DEF CommitInputAudio, RealtimeActive
<1>3. /\ q \in Session /\ q.loop = s.loop /\ q.live = s.live /\ q.out = s.out /\ q.int = s.int
      /\ q.inp.state = s.inp.state /\ ~q.inp.active
      /\ q.inp.end = s.inp.end /\ q.inp.minDue = s.inp.minDue /\ q.inp.maxDue = s.inp.maxDue
      /\ q.inp.ready = s.inp.ready /\ q.inp.detect = s.inp.detect
      /\ q.inp.attempted = s.inp.attempted
  BY <1>1 DEF Session, InputRecord
<1>4. Become(q, FALSE) BY DEF CommitInputAudio
<1> HIDE DEF q
<1>5. OwnsOutput(q) /\ EndConsistent(q)
  BY <1>1, <1>2, <1>3, QuietInput DEF OwnsOutput, EndConsistent, Pending, RealtimeActive,
     InSpeechTurn
<1>6. Good(q) /\ LoopCovers(q) BY <1>1, <1>3, <1>5, InputKeeps
<1>7. reader' \in {"idle", "committed", "gone"} BY DEF CommitInputAudio, NextMessage
<1> QED BY <1>4, <1>6, <1>7, BecomeKeeps

\* input_audio.commit, second critical section.
LEMMA ManualResponseContextKeeps ==
  ASSUME IInv, ManualResponseContext
  PROVE  IInv'
<1>1. reader' \in {"idle", "gone"} BY DEF ManualResponseContext, NextMessage
<1> QED BY <1>1, NewContextKeeps, BecomeKeeps DEF ManualResponseContext

\* text.commit.
LEMMA CommitTextKeeps ==
  ASSUME IInv, CommitText
  PROVE  IInv'
  BY NewContextKeeps, BecomeKeeps DEF CommitText

\* A holder answers its context and may start the generation.
LEMMA RespondedGood ==
  ASSUME IInv, NEW c, NEW hasText \in BOOLEAN, NEW textOnly \in BOOLEAN
  PROVE  Good(Responded(c, hasText, textOnly)) /\ LoopCovers(Responded(c, hasText, textOnly))
<1> DEFINE r == [s EXCEPT !.resp.jobs = @ \ {c}]
           q == StartGeneration(r, textOnly)
<1>1. Good(s) /\ LoopCovers(s) /\ s \in Session BY Current
<1>2. /\ r \in Session /\ r.live = s.live /\ r.loop = s.loop /\ r.inp = s.inp
      /\ r.int = s.int /\ r.out = s.out
  BY <1>1 DEF Session, ResponseRecord
<1>3. Responded(c, hasText, textOnly) \in {r, q} BY DEF Responded, q, r
<1> HIDE DEF r
<1>4. Good(r) /\ LoopCovers(r) BY <1>1, <1>2, ResponseKeeps
<1>5. Good(q) /\ LoopCovers(q) BY <1>4, StartGenerationGood, CoveredStill
<1> HIDE DEF q
<1> QED BY <1>3, <1>4, <1>5

\* A transcription ends.
LEMMA TranscriptReadyKeeps ==
  ASSUME IInv, NEW c, NEW hasText \in BOOLEAN, TranscriptReady(c, hasText)
  PROVE  IInv'
  BY RespondedGood, WorkKeeps DEF TranscriptReady

\* The reader starts the response to text.
LEMMA TextResponseKeeps ==
  ASSUME IInv, NEW hasText \in BOOLEAN, NEW textOnly \in BOOLEAN,
         TextResponse(hasText, textOnly)
  PROVE  IInv'
<1>1. reader' \in {"idle", "gone"} BY DEF TextResponse, NextMessage
<1> QED BY <1>1, RespondedGood, BecomeKeeps DEF TextResponse

\* Audio is sent.
LEMMA SendAudioKeeps ==
  ASSUME IInv, SendAudio
  PROVE  IInv'
<1> DEFINE q == [s EXCEPT !.out.audio = "queued"]
<1>1. Good(s) /\ LoopCovers(s) /\ s \in Session BY Current
<1>2. /\ q \in Session /\ q.live = s.live /\ q.loop = s.loop /\ q.inp = s.inp /\ q.int = s.int
      /\ q.out.gen = s.out.gen /\ q.out.paused = s.out.paused
  BY <1>1 DEF Session, OutputRecord
<1>3. Work(q) BY DEF SendAudio
<1> HIDE DEF q
<1> QED BY <1>1, <1>2, <1>3, OutputKeeps, WorkKeeps

\* A generation completes.
LEMMA MarkGenerationDoneKeeps ==
  ASSUME IInv, MarkGenerationDone
  PROVE  IInv'
<1> DEFINE q == [s EXCEPT !.out.done = TRUE]
<1>1. Good(s) /\ LoopCovers(s) /\ s \in Session BY Current
<1>2. /\ q \in Session /\ q.live = s.live /\ q.loop = s.loop /\ q.inp = s.inp /\ q.int = s.int
      /\ q.out.gen = s.out.gen /\ q.out.paused = s.out.paused
  BY <1>1 DEF Session, OutputRecord
<1>3. Work(q) BY DEF MarkGenerationDone
<1> HIDE DEF q
<1> QED BY <1>1, <1>2, <1>3, OutputKeeps, WorkKeeps

\* A generation fails (cancelFailedGeneration).
LEMMA OutputFailsKeeps ==
  ASSUME IInv, OutputFails
  PROVE  IInv'
<1>1. Good(CancelGeneration(s)) /\ LoopCovers(CancelGeneration(s))
  BY Current, CancelGood, Covered
<1> QED BY <1>1, WorkKeeps DEF OutputFails

\* A partial transcription becomes evidence (interruption.go 381).
LEMMA SupplySemanticKeeps ==
  ASSUME IInv, SupplySemantic
  PROVE  IInv'
<1>1. Good(InterruptionChanged(s)) /\ LoopCovers(InterruptionChanged(s))
  BY Current, ChangedGood, CoveredStill
<1> QED BY <1>1, WorkKeeps DEF SupplySemantic

-----------------------------------------------------------------------------
(* The input loop, time and the end of the session.                        *)

\* A change of the loop record alone keeps Good.
LEMMA LoopEdit ==
  ASSUME NEW r, Good(r), NEW l \in LoopRecord
  PROVE  /\ Good([r EXCEPT !.loop = l]) /\ [r EXCEPT !.loop = l].loop = l
         /\ [r EXCEPT !.loop = l].live = r.live
<1> DEFINE q == [r EXCEPT !.loop = l]
<1>1. /\ q \in Session /\ q.out = r.out /\ q.inp = r.inp /\ q.int = r.int /\ q.live = r.live
      /\ q.loop = l
  BY DEF Good, Session
<1> HIDE DEF q
<1>2. Good(q)
  BY <1>1 DEF Good, OwnsOutput, PausedIsPending, EndConsistent, Pending,
     RealtimeActive, InSpeechTurn
<1> QED BY <1>1, <1>2 DEF q

\* One iteration of runInput.
LEMMA LoopIterationKeeps ==
  ASSUME IInv, LoopIteration
  PROVE  IInv'
<1> DEFINE l == [s.loop EXCEPT !.wake = FALSE]
           w == [s EXCEPT !.loop = l]
<1>1. Good(s) /\ s \in Session BY Current
<1>2. l \in LoopRecord BY <1>1 DEF Session, LoopRecord
<1>3. [s EXCEPT !.loop.wake = FALSE] = w BY <1>1 DEF Session, LoopRecord
<1>4. Work(Iterated(s)) \/ Work(Iterated(w)) BY <1>3 DEF LoopIteration
<1> HIDE DEF l
<1>5. Good(w) BY <1>1, <1>2, LoopEdit
<1> HIDE DEF w
<1> QED BY <1>1, <1>4, <1>5, IteratedGood, WorkKeeps

\* After a result the loop is at its top again.
LEMMA BackType ==
  ASSUME IInv
  PROVE  Back \in LoopRecord /\ Back.top
  BY Current DEF Back, Session, LoopRecord

\* runInput receives a detector result, counted or stale.
LEMMA DetectorResultKeeps ==
  ASSUME IInv, NEW outcome \in {"error", "complete", "incomplete"}, DetectorResult(outcome)
  PROVE  IInv'
<1> DEFINE r == [s EXCEPT !.inp.detect = "none", !.loop = Back]
           c == IF outcome # "error" THEN InterruptionChanged(r) ELSE r
           k == CommitTurn(c)
           w == [c EXCEPT !.inp.state = "waiting"]
<1>1. Good(s) /\ s \in Session BY Current
<1>2. /\ r \in Session /\ r.out = s.out /\ r.int = s.int /\ r.live = s.live /\ r.loop = Back
      /\ r.inp.state = s.inp.state /\ r.inp.turn = s.inp.turn
      /\ r.inp.active = s.inp.active /\ r.inp.realtime = s.inp.realtime
      /\ r.inp.end = s.inp.end /\ r.inp.minDue = s.inp.minDue /\ r.inp.maxDue = s.inp.maxDue
      /\ r.inp.ready = s.inp.ready /\ r.inp.detect = "none"
  BY <1>1, BackType DEF Session, InputRecord, Jobs
<1>3. \/ Work(r)
      \/ s.inp.end /\ (Work(c) \/ Work(k) \/ Work(w))
  BY DEF DetectorResult, r, c, k, w
<1> HIDE DEF r
<1>4. Good(r)
  BY <1>1, <1>2 DEF Good, OwnsOutput, PausedIsPending, EndConsistent, Pending,
     RealtimeActive, InSpeechTurn
<1>5. r.loop.top BY <1>2, BackType
<1>6. Good(c) /\ c.loop.top /\ c.inp = r.inp /\ c \in Session
  BY <1>4, <1>5, ChangedGood DEF Good, Follows
<1> HIDE DEF c
<1>7. s.inp.end => Good(k) /\ k.loop.top
  BY <1>2, <1>6, CommitGood DEF Follows
<1> HIDE DEF k
<1>8. /\ w \in Session /\ w.out = c.out /\ w.int = c.int /\ w.live = c.live /\ w.loop = c.loop
      /\ w.inp.state = "waiting" /\ w.inp.turn = c.inp.turn
      /\ w.inp.active = c.inp.active /\ w.inp.realtime = c.inp.realtime
      /\ w.inp.end = c.inp.end /\ w.inp.minDue = c.inp.minDue /\ w.inp.maxDue = c.inp.maxDue
      /\ w.inp.ready = c.inp.ready /\ w.inp.detect = c.inp.detect
  BY <1>6 DEF Session, InputRecord, TurnStates
<1> HIDE DEF w
<1>9. s.inp.end => Good(w)
  BY <1>2, <1>6, <1>8 DEF Good, OwnsOutput, PausedIsPending, EndConsistent, Pending,
     RealtimeActive, InSpeechTurn
<1> QED BY <1>3, <1>4, <1>5, <1>6, <1>7, <1>8, <1>9, Covered, WorkKeeps

\* runInput receives a classifier result, counted or stale.
LEMMA ClassifierResultKeeps ==
  ASSUME IInv, NEW kind, ClassifierResult(kind)
  PROVE  IInv'
<1> DEFINE r == [s EXCEPT !.int.classify = "none", !.loop = Back]
<1>1. Good(s) /\ s \in Session BY Current
<1>2. /\ r \in Session /\ r.out = s.out /\ r.inp = s.inp /\ r.live = s.live /\ r.loop = Back
      /\ r.int.state = s.int.state /\ r.int.gen = s.int.gen
  BY <1>1, BackType DEF Session, InterruptionRecord, Jobs
<1>3. Work(r) \/ Work(Confirm(r)) \/ Work(Recover(r))
  BY DEF ClassifierResult, r
<1> HIDE DEF r
<1>4. Good(r) /\ r.loop.top
  BY <1>1, <1>2, BackType DEF Good, OwnsOutput, PausedIsPending, EndConsistent, Pending,
     RealtimeActive, InSpeechTurn
<1>5. Good(Confirm(r)) /\ LoopCovers(Confirm(r))
  BY <1>4, ConfirmGood, Covered DEF Follows
<1>6. Good(Recover(r)) /\ LoopCovers(Recover(r))
  BY <1>4, RecoverGood, Covered DEF Follows
<1> QED BY <1>3, <1>4, <1>5, <1>6, Covered, WorkKeeps

\* runInput returns.
LEMMA LoopExitKeeps ==
  ASSUME IInv, LoopExit
  PROVE  IInv'
<1> DEFINE i == InvalidateInterruption(s)
           l == [i.loop EXCEPT !.exited = TRUE, !.top = FALSE]
           q == [i EXCEPT !.loop = l]
<1>1. Good(s) /\ s \in Session /\ ~s.live BY Current DEF LoopExit
<1>2. /\ i \in Session /\ i.live = s.live /\ i.out = s.out /\ i.inp = s.inp
      /\ i.int.state = "idle"
  BY <1>1, InvalidateEffect DEF Follows
<1>3. Work(q) BY DEF LoopExit
<1> HIDE DEF i
<1>4. Good(i)
  BY <1>1, <1>2 DEF Good, OwnsOutput, PausedIsPending, EndConsistent, Pending,
     RealtimeActive, InSpeechTurn
<1>5. l \in LoopRecord BY <1>2 DEF Session, LoopRecord
<1> HIDE DEF l
<1>6. Good(q) /\ q.live = i.live BY <1>4, <1>5, LoopEdit
<1>7. LoopCovers(q) BY <1>1, <1>2, <1>6 DEF LoopCovers
<1> QED BY <1>3, <1>6, <1>7, WorkKeeps

\* The delays of an endpoint pass.
LEMMA EndpointTimeKeeps ==
  ASSUME IInv, MinDelayElapses \/ MaxDelayElapses
  PROVE  IInv'
<1> DEFINE m == [s EXCEPT !.inp.minDue = TRUE]
           x == [s EXCEPT !.inp.maxDue = TRUE]
<1>1. Good(s) /\ LoopCovers(s) /\ s \in Session BY Current
<1>2. s.inp.end BY <1>1 DEF MinDelayElapses, MaxDelayElapses, Good, EndConsistent
<1>3. ASSUME NEW q \in {m, x}
      PROVE  /\ q \in Session /\ q.loop = s.loop /\ q.live = s.live /\ q.out = s.out
             /\ q.int = s.int /\ q.inp.state = s.inp.state /\ q.inp.turn = s.inp.turn
             /\ q.inp.active = s.inp.active /\ q.inp.realtime = s.inp.realtime
             /\ q.inp.end = s.inp.end /\ q.inp.ready = s.inp.ready
             /\ q.inp.detect = s.inp.detect /\ q.inp.attempted = s.inp.attempted
  <2>1. CASE q = m BY <1>1, <2>1 DEF Session, InputRecord
  <2>2. CASE q = x BY <1>1, <2>2 DEF Session, InputRecord
  <2> QED BY <2>1, <2>2
<1>4. Work(m) \/ Work(x) BY DEF MinDelayElapses, MaxDelayElapses, Elapse
<1> HIDE DEF m, x
<1>5. ASSUME NEW q \in {m, x} PROVE Good(q) /\ LoopCovers(q)
  <2>1. OwnsOutput(q) /\ EndConsistent(q)
    BY <1>1, <1>2, <1>3 DEF Good, OwnsOutput, EndConsistent, Pending, RealtimeActive,
       InSpeechTurn
  <2> QED BY <1>1, <1>3, <2>1, InputKeeps
<1> QED BY <1>4, <1>5, WorkKeeps

\* The delays of an interruption pass.
LEMMA InterruptionTimeKeeps ==
  ASSUME IInv, DecisionWindowElapses \/ NotBeforeElapses
  PROVE  IInv'
<1> DEFINE m == [s EXCEPT !.int.decisionDue = TRUE]
           x == [s EXCEPT !.int.notBeforeDue = TRUE]
<1>1. Good(s) /\ LoopCovers(s) /\ s \in Session BY Current
<1>2. ASSUME NEW q \in {m, x}
      PROVE  /\ q \in Session /\ q.loop = s.loop /\ q.live = s.live /\ q.out = s.out
             /\ q.inp = s.inp /\ q.int.state = s.int.state /\ q.int.gen = s.int.gen
             /\ q.int.classify = s.int.classify /\ q.int.tried = s.int.tried
  <2>1. CASE q = m BY <1>1, <2>1 DEF Session, InterruptionRecord
  <2>2. CASE q = x BY <1>1, <2>2 DEF Session, InterruptionRecord
  <2> QED BY <2>1, <2>2
<1>3. Work(m) \/ Work(x) BY DEF DecisionWindowElapses, NotBeforeElapses, Elapse
<1> HIDE DEF m, x
<1>4. ASSUME NEW q \in {m, x} PROVE Good(q) /\ LoopCovers(q)
  <2>1. Good(q)
    BY <1>1, <1>2 DEF Good, OwnsOutput, PausedIsPending, EndConsistent, Pending,
       RealtimeActive, InSpeechTurn
  <2>2. ArmedFor(q) = ArmedFor(s)
    BY <1>2 DEF ArmedFor, Pending, AwaitingEndpoint, CanDetect
  <2>3. LoopCovers(q) BY <1>1, <1>2, <2>2 DEF LoopCovers
  <2> QED BY <2>1, <2>3
<1> QED BY <1>3, <1>4, WorkKeeps

\* The session context is cancelled.
LEMMA DisconnectKeeps ==
  ASSUME IInv, Disconnect
  PROVE  IInv'
<1> DEFINE q == [s EXCEPT !.live = FALSE]
<1>1. Good(s) /\ s \in Session BY Current
<1>2. /\ q \in Session /\ q.out = s.out /\ q.inp = s.inp /\ q.int = s.int /\ ~q.live
  BY <1>1 DEF Session
<1>3. Work(q) BY DEF Disconnect
<1> HIDE DEF q
<1>4. Good(q) /\ LoopCovers(q)
  BY <1>1, <1>2 DEF Good, OwnsOutput, PausedIsPending, EndConsistent, Pending,
     RealtimeActive, InSpeechTurn, LoopCovers
<1> QED BY <1>3, <1>4, WorkKeeps

\* closeRuntime cancels what still plays.
LEMMA CloseRuntimeKeeps ==
  ASSUME IInv, CloseRuntime
  PROVE  IInv'
<1>1. Good(CancelGeneration(s)) /\ LoopCovers(CancelGeneration(s))
  BY Current, CancelGood, Covered
<1> QED BY <1>1, WorkKeeps DEF CloseRuntime

-----------------------------------------------------------------------------

\* Every message of the client.
LEMMA ClientKeeps ==
  ASSUME IInv, Client
  PROVE  IInv'
<1>1. s.out.made \in Nat BY Current DEF Session, OutputRecord
<1>2. ASSUME NEW b \in BOOLEAN, CancelInput(b) \/ EndSpeech(b) \/ CreateGeneration(b)
      PROVE  IInv'
  BY <1>2, CancelInputKeeps, EndSpeechKeeps, CreateGenerationKeeps
<1>3. ASSUME NEW g \in 0..s.out.made, NEW id \in Tokens \cup {NoToken},
             \/ ClientCancels(g) \/ PlaybackFailed(g, id) \/ PlaybackProgress(g)
             \/ SpeechStart(g, id)
             \/ id \in Tokens /\ InterruptionMessage(g, id)
      PROVE  IInv'
  <2>1. g \in Nat BY <1>1, <1>3
  <2>2. CASE ClientCancels(g) BY <2>2, ClientCancelsKeeps
  <2>3. CASE PlaybackFailed(g, id) BY <2>3, PlaybackFailedKeeps
  <2>4. CASE PlaybackProgress(g) BY <2>4, PlaybackProgressKeeps
  <2>5. CASE SpeechStart(g, id) BY <2>1, <2>5, SpeechStartKeeps
  <2>6. CASE id \in Tokens /\ RequestInterruption(g, id)
    BY <2>1, <2>6, RequestInterruptionKeeps
  <2>7. CASE PlaybackPaused(g, id) BY <2>7, PlaybackPausedKeeps
  <2> QED BY <1>3, <2>2, <2>3, <2>4, <2>5, <2>6, <2>7 DEF InterruptionMessage
<1>4. \/ StartRealtimeInput \/ StartInputAudio \/ AppendInputAudio \/ AppendRealtimeAudio
      \/ CommitInputAudio \/ ManualResponseContext \/ CommitText
      \/ \E b \in BOOLEAN : CancelInput(b) \/ EndSpeech(b) \/ CreateGeneration(b)
      \/ \E g \in 0..s.out.made, id \in Tokens \cup {NoToken} :
            \/ ClientCancels(g) \/ PlaybackFailed(g, id) \/ PlaybackProgress(g)
            \/ SpeechStart(g, id)
            \/ id \in Tokens /\ InterruptionMessage(g, id)
  BY <1>1 DEF Client
<1> QED BY <1>2, <1>3, <1>4, StartRealtimeInputKeeps, StartInputAudioKeeps,
     AppendInputAudioKeeps, AppendRealtimeAudioKeeps, CommitInputAudioKeeps,
     ManualResponseContextKeeps, CommitTextKeeps

\* Every step of a provider or worker.
LEMMA WorkersKeep ==
  ASSUME IInv, Workers
  PROVE  IInv'
<1>1. CASE \E c \in 1..MaxCtx, b \in BOOLEAN : TranscriptReady(c, b)
  BY <1>1, TranscriptReadyKeeps
<1>2. CASE \E b, textOnly \in BOOLEAN : TextResponse(b, textOnly)
  BY <1>2, TextResponseKeeps
<1> QED BY <1>1, <1>2, SendAudioKeeps, MarkGenerationDoneKeeps, OutputFailsKeeps,
     SupplySemanticKeeps DEF Workers

\* Every step of runInput.
LEMMA LoopKeeps ==
  ASSUME IInv, Loop
  PROVE  IInv'
  BY LoopIterationKeeps, LoopExitKeeps, DetectorResultKeeps, ClassifierResultKeeps DEF Loop

\* A step that changes nothing.
LEMMA StutterKeeps ==
  ASSUME IInv, UNCHANGED vars
  PROVE  IInv'
  BY DEF IInv, vars, Good, LoopCovers, OwnsOutput, PausedIsPending, EndConsistent, Pending,
     RealtimeActive, InSpeechTurn, ArmedFor, AwaitingEndpoint, CanDetect

\* IInv holds in every reachable state: after every handler, worker and timer
\* step, whatever order they take Session.mu in.
THEOREM Inductive == Spec => []IInv
<1>1. Init => IInv BY InitIInv
<1>2. IInv /\ [Next]_vars => IInv'
  <2> SUFFICES ASSUME IInv, [Next]_vars PROVE IInv' OBVIOUS
  <2>1. CASE Client BY <2>1, ClientKeeps
  <2>2. CASE Workers BY <2>2, WorkersKeep
  <2>3. CASE Loop BY <2>3, LoopKeeps
  <2>4. CASE Time BY <2>4, EndpointTimeKeeps, InterruptionTimeKeeps DEF Time
  <2>5. CASE Disconnect BY <2>5, DisconnectKeeps
  <2>6. CASE CloseRuntime BY <2>6, CloseRuntimeKeeps
  <2>7. CASE UNCHANGED vars BY <2>7, StutterKeeps
  <2> QED BY <2>1, <2>2, <2>3, <2>4, <2>5, <2>6, <2>7 DEF Next
<1> QED BY <1>1, <1>2, PTL DEF Spec

\* Every part of the session always has its type.
THEOREM TypeCorrect == Spec => []TypeOK
<1>1. IInv => TypeOK BY DEF IInv, TypeOK, Good
<1> QED BY <1>1, Inductive, PTL

\* Whatever replaces or cancels the output or ends the input, no decision about
\* the old output stays pending (interruption.go).
THEOREM PendingOwnsOutputAlways == Spec => []PendingOwnsOutput
<1>1. IInv => PendingOwnsOutput BY DEF IInv, Good, PendingOwnsOutput
<1> QED BY <1>1, Inductive, PTL

\* Playback the server paused always has a pending decision that will resume or
\* cancel it, until the session ends (interruption.go, SetPaused in session.go).
THEOREM NeverStuckPaused == Spec => []PausedOnlyWhilePending
<1>1. IInv => PausedOnlyWhilePending BY DEF IInv, Good, PausedOnlyWhilePending
<1> QED BY <1>1, Inductive, PTL

\* The endpoint fields always agree with the turn state the client was told, and
\* a detector result that counts belongs to the turn that ended (input.go).
THEOREM EndpointAlwaysConsistent == Spec => []EndpointConsistent
<1>1. IInv => EndpointConsistent BY DEF IInv, Good, EndpointConsistent
<1> QED BY <1>1, Inductive, PTL

\* The input loop never sleeps past a deadline the state asks it to act on: every
\* handler that adds one leaves a token in the wake channel (input.go 337).
THEOREM NeverLosesWakeup == Spec => []NoLostWakeup
<1>1. IInv => NoLostWakeup BY DEF IInv, NoLostWakeup
<1> QED BY <1>1, Inductive, PTL

-----------------------------------------------------------------------------
(***************************************************************************)
(* TurnControl implements TurnTaking, and keeps its action properties.     *)
(* Each handler is shown to take a Step: what becomes of the session is    *)
(* one abstract step or a stutter (Spoken), its answers only grow by the   *)
(* turn it commits (Answered), and a counted classifier keeps judging the  *)
(* speech it was given (Judged).  HInv carries what the history variables  *)
(* remember; the theorems follow from Step.                                *)
(***************************************************************************)

\* The floor as an open session r has it.
FloorOf(r) == IF r.inp.state = "speaking" THEN "speaking"
              ELSE IF r.inp.end THEN "ended" ELSE "none"

\* The new output is nobody else's; both voices are as they were.
SamePlay(q, r) == q.out.gen = r.out.gen /\ (Pending(q) <=> Pending(r))
Silenced(q) == q.out.gen = 0 /\ ~Pending(q)
SameTurn(q, r) == FloorOf(q) = FloorOf(r) /\ q.resp.ctx = r.resp.ctx

\* One of TurnTaking's steps, on an open session.
Spoken(q, r) ==
    \/ SamePlay(q, r) /\ SameTurn(q, r)
    \/ q.out.gen \in Nat \ {0, r.out.gen} /\ ~Pending(q) /\ SameTurn(q, r)
    \/ r.out.gen # 0 /\ Silenced(q) /\ SameTurn(q, r)
    \/ /\ FloorOf(r) # "speaking" /\ FloorOf(q) = "speaking" /\ q.resp.ctx = r.resp.ctx
       /\ \/ Pending(r) /\ Silenced(q)
          \/ ~Pending(r) /\ q.out.gen = r.out.gen /\ (Pending(q) => r.out.gen # 0)
    \/ /\ FloorOf(r) = "speaking" /\ FloorOf(q) = "ended" /\ SamePlay(q, r)
       /\ q.resp.ctx = r.resp.ctx
    \/ /\ ~Pending(r) /\ Pending(q) /\ q.out.gen = r.out.gen /\ r.out.gen # 0
       /\ FloorOf(r) # "none" /\ SameTurn(q, r)
    \/ /\ Pending(r) /\ ~Pending(q) /\ q.out.gen = r.out.gen
       /\ FloorOf(q) = "none" /\ q.resp.ctx = r.resp.ctx
    \/ /\ FloorOf(r) = "ended" /\ FloorOf(q) = "none" /\ q.resp.ctx = r.resp.ctx + 1
       /\ \/ ~Pending(r) /\ SamePlay(q, r)
          \/ Pending(r) /\ Silenced(q)
    \/ /\ FloorOf(r) = "none" /\ SamePlay(q, r)
       /\ FloorOf(q) = "none" /\ q.resp.ctx = r.resp.ctx + 1
    \/ /\ FloorOf(r) # "none" /\ FloorOf(q) = "none" /\ q.resp.ctx = r.resp.ctx
       /\ \/ ~Pending(r) /\ SamePlay(q, r)
          \/ Pending(r) /\ Silenced(q)

\* Contexts and generations: a context is answered at most once and given up
\* with the output; a generation starts for the current answer or for no one.
Answered(q, r) ==
    /\ \/ /\ q.resp.ctx = r.resp.ctx /\ q.resp.jobs \subseteq r.resp.jobs
          /\ q.resp.live => r.resp.live
          /\ r.out.gen # 0 /\ q.out.gen = 0 => ~q.resp.live
       \/ Asked(q, r)
    /\ q.out.gen <= q.out.made
    /\ q.out.made # r.out.made =>
          \/ q.resp.jobs = r.resp.jobs
          \/ r.resp.live /\ q.resp.jobs = r.resp.jobs \ {r.resp.ctx}

\* A classifier that counts was asked in this step or judges the same speech.
SameSpeech(q, r) == /\ q.inp.state = "speaking" <=> r.inp.state = "speaking"
                    /\ q.int.gen = r.int.gen /\ q.int.id = r.int.id
Judged(q, r) ==
    /\ q.int.classify = "fresh" =>
          /\ Pending(q)
          /\ \/ r.int.classify = "none"
             \/ r.int.classify = "fresh" /\ SameSpeech(q, r)
    /\ (/\ r.int.classify # "none" /\ q.int.classify = "none"
        /\ Pending(r) /\ q.int.state = "recovered")
       => r.int.classify = "fresh" /\ r.inp.state # "speaking" /\ ~r.int.resumed

Fine(q, r) == /\ q.live => r.live
              /\ q.live => Spoken(q, r)
              /\ Answered(q, r) /\ Judged(q, r)

\* The step that is taken: what it overtakes gets no answer, and a manual
\* commit leaves the floor to nobody until it has its context.
Step ==
    /\ Fine(s', s)
    /\ \E overtakes \in BOOLEAN : Become(s', overtakes) /\ (overtakes => ~s'.resp.live)
    /\ reader' = "committed" => ~s'.inp.active

\* What every reachable session satisfies beyond IInv.
Told(r) == /\ r.out.gen <= r.out.made
           /\ r.resp.jobs \subseteq 1..r.resp.ctx
           /\ r.int.classify = "fresh" => Pending(r)

HInv == /\ IInv /\ Told(s)
        /\ superseded \subseteq s.resp.jobs
        /\ s.resp.live => s.resp.ctx \notin superseded
        /\ s.int.classify = "fresh" => evidence = "current"
        /\ reader = "committed" => ~s.inp.active

-----------------------------------------------------------------------------
(* From the helpers to the promise.                                        *)

\* What a good session's fields say of its floor.
LEMMA Floors ==
  ASSUME NEW r, Good(r)
  PROVE  /\ ~RealtimeActive(r) => FloorOf(r) = "none"
         /\ ~InSpeechTurn(r) => FloorOf(r) = "none"
         /\ InSpeechTurn(r) => FloorOf(r) # "none"
         /\ r.inp.ready => r.inp.end
         /\ r.inp.end => FloorOf(r) = "ended" /\ r.inp.state # "speaking"
         /\ Pending(r) => InSpeechTurn(r) /\ r.out.gen # 0
  BY DEF Good, OwnsOutput, EndConsistent, FloorOf, RealtimeActive, InSpeechTurn

\* The numbers in a session.
LEMMA Numbers ==
  ASSUME NEW r \in Session
  PROVE  /\ r.out.gen \in Nat /\ r.out.made \in Nat /\ r.resp.ctx \in Nat
         /\ r.resp.jobs \in SUBSET Nat /\ r.live \in BOOLEAN /\ r.resp.live \in BOOLEAN
         /\ r.int.classify \in Jobs
  BY DEF Session, OutputRecord, ResponseRecord, InterruptionRecord

\* A result that no longer counts is not fresh, and none comes from none.
LEMMA Outdating ==
  ASSUME NEW job \in Jobs
  PROVE  Outdated(job) # "fresh" /\ (Outdated(job) = "none" <=> job = "none")
  BY DEF Outdated, Jobs

\* A step that leaves the voices, the answers and the question alone.
LEMMA UnseenFine ==
  ASSUME NEW r, Good(r), Told(r), NEW q, q.live = r.live, SameGeneration(q, r),
         SameTurn(q, r), Pending(q) <=> Pending(r),
         q.resp = r.resp \/ Dropped(q, r),
         \/ Revised(q, r)
         \/ q.int.classify = r.int.classify /\ SameSpeech(q, r)
         \/ r.int.classify = "none" /\ Pending(q)
         \/ q.int.classify = "none" /\ q.int.state = r.int.state
  PROVE  Fine(q, r)
<1>1. r \in Session BY DEF Good
<1>2. Spoken(q, r) BY DEF Spoken, SamePlay, SameGeneration
<1>3. Answered(q, r)
  BY <1>1, Numbers DEF Answered, SameGeneration, Told, Dropped
<1>4. Judged(q, r)
  BY <1>1, Numbers, Outdating DEF Judged, Told, Revised, Jobs, Pending
<1> QED BY <1>2, <1>3, <1>4 DEF Fine

\* A confirmation silences the output, and may decide the turn it held back.
LEMMA ConfirmedFine ==
  ASSUME NEW r, Good(r), Told(r), NEW q, q.live = r.live, Confirmed(q, r)
  PROVE  Fine(q, r)
<1>1. r \in Session BY DEF Good
<1>2. ~Pending(q) /\ q.out.gen = 0 /\ r.out.gen # 0 /\ Pending(r)
  BY Floors DEF Confirmed, Pending
<1>3. Spoken(q, r)
  BY <1>2, Floors DEF Spoken, Confirmed, Silenced, SameTurn, SameFloor, FloorOf, Dropped, Asked
<1>4. Answered(q, r)
  BY <1>1, <1>2, Numbers DEF Answered, Confirmed, Dropped, Asked
<1>5. Judged(q, r)
  BY <1>1, Numbers, Outdating DEF Judged, Confirmed, Revised
<1> QED BY <1>3, <1>4, <1>5 DEF Fine

\* A recovery drops the turn and lets the output go on.
LEMMA RecoveredFine ==
  ASSUME NEW r, Good(r), Told(r), NEW q, q.live = r.live, ~Pending(q), Recovered(q, r)
  PROVE  Fine(q, r)
<1>1. r \in Session BY DEF Good
<1>2. q.live => Spoken(q, r)
  BY DEF Spoken, Recovered, SameGeneration, FloorOf
<1>3. Answered(q, r)
  BY <1>1, Numbers DEF Answered, Recovered, SameGeneration, Told
<1>4. Judged(q, r)
  BY <1>1, Numbers, Outdating DEF Judged, Recovered, Revised
<1> QED BY <1>2, <1>3, <1>4 DEF Fine

\* A suspicion holds the output for a user who has the floor, or changes nothing.
LEMMA SuspectedFine ==
  ASSUME NEW r, Good(r), Told(r), NEW q, q.live = r.live, Suspected(q, r)
  PROVE  Fine(q, r)
<1>1. r \in Session BY DEF Good
<1>2. Spoken(q, r)
  BY Floors DEF Spoken, Suspected, SameGeneration, SamePlay, SameTurn, FloorOf, Pending
<1>3. Answered(q, r)
  BY <1>1, Numbers DEF Answered, Suspected, SameGeneration, Told
<1>4. Judged(q, r)
  BY <1>1, Numbers, Outdating DEF Judged, Suspected, Revised
<1> QED BY <1>2, <1>3, <1>4 DEF Fine

\* Committing an ended turn gives it away, drops it, or waits for the decision.
LEMMA CommittedFine ==
  ASSUME NEW r, Good(r), Told(r), r.inp.end, NEW q, q.live = r.live, Committed(q, r)
  PROVE  Fine(q, r)
<1>1. r \in Session BY DEF Good
<1>2. Pending(q) <=> Pending(r) BY DEF Committed, Pending
<1>3. Spoken(q, r)
  BY <1>2, Floors DEF Spoken, Committed, SamePlay, SameTurn, SameFloor, FloorOf, Asked
<1>4. Answered(q, r)
  BY <1>1, Numbers DEF Answered, Committed, Asked, Told
<1>5. Judged(q, r)
  BY <1>1, <1>2, Floors, Numbers
     DEF Judged, Committed, Told, SameSpeech, SameFloor, Jobs
<1> QED BY <1>3, <1>4, <1>5 DEF Fine

\* Cancelling the generation silences it.
LEMMA CancelledFine ==
  ASSUME NEW r, Good(r), Told(r)
  PROVE  LET q == CancelGeneration(r)
         IN  /\ Fine(q, r) /\ ~q.resp.live /\ q.inp = r.inp
<1> DEFINE q == CancelGeneration(r)
<1>1. r \in Session BY DEF Good
<1>2. /\ q.live = r.live /\ q.inp = r.inp /\ q.int.state = "idle" /\ q.out.gen = 0
      /\ q.out.made = r.out.made /\ Dropped(q, r) /\ Revised(q, r)
  BY <1>1, CancelEffect DEF Follows
<1> HIDE DEF q
<1>3. Spoken(q, r)
  BY <1>2, Floors DEF Spoken, SamePlay, Silenced, SameTurn, FloorOf, Dropped, Pending
<1>4. Answered(q, r)
  BY <1>1, <1>2, Numbers DEF Answered, Dropped
<1>5. Judged(q, r)
  BY <1>1, <1>2, Numbers, Outdating DEF Judged, Revised
<1> QED BY <1>2, <1>3, <1>4, <1>5 DEF Fine, Dropped, q

-----------------------------------------------------------------------------
(* From a step to the promise and the history.                             *)

\* What a step does with the answers keeps the history of superseded contexts
\* true: a live context is never among them.
LEMMA StepKeepsAnswers ==
  ASSUME HInv, Step, IInv'
  PROVE  /\ s'.resp.jobs \subseteq 1..s'.resp.ctx
         /\ superseded' \subseteq s'.resp.jobs
         /\ s'.resp.live => s'.resp.ctx \notin superseded'
<1>1. s \in Session /\ s' \in Session BY DEF HInv, IInv, Good
<1>2. /\ s.resp.ctx \in Nat /\ s'.resp.ctx \in Nat
      /\ s.resp.jobs \subseteq 1..s.resp.ctx
  BY <1>1, Numbers DEF HInv, Told
<1>3. PICK overtakes \in BOOLEAN : Become(s', overtakes) /\ (overtakes => ~s'.resp.live)
  BY DEF Step
<1>4. superseded' = s'.resp.jobs \cap
         IF overtakes \/ (s.out.gen # 0 /\ s'.out.gen = 0)
         THEN superseded \cup s.resp.jobs ELSE superseded
  BY <1>3 DEF Become
<1>5. CASE Asked(s', s)
  <2>1. s.resp.ctx + 1 \notin s.resp.jobs BY <1>2
  <2>2. s'.resp.jobs \subseteq 1..s'.resp.ctx BY <1>2, <1>5 DEF Asked
  <2>3. s'.resp.ctx \notin superseded \cup s.resp.jobs BY <1>5, <2>1 DEF HInv, Asked
  <2> QED BY <1>4, <2>2, <2>3
<1>6. CASE /\ s'.resp.ctx = s.resp.ctx /\ s'.resp.jobs \subseteq s.resp.jobs
           /\ s'.resp.live => s.resp.live
           /\ s.out.gen # 0 /\ s'.out.gen = 0 => ~s'.resp.live
  BY <1>2, <1>3, <1>4, <1>6 DEF HInv
<1> QED BY <1>5, <1>6 DEF Step, Fine, Answered

\* A classifier that still counts was given the current speech.
LEMMA StepKeepsEvidence ==
  ASSUME HInv, Step, IInv'
  PROVE  s'.int.classify = "fresh" => Pending(s') /\ evidence' = "current"
<1>1. evidence' = EvidenceAfter BY DEF Step, Become
<1>2. Judged(s', s) BY DEF Step, Fine
<1> QED BY <1>1, <1>2 DEF EvidenceAfter, Judged, SameSpeech, HInv

\* A step keeps HInv.
LEMMA StepKeeps ==
  ASSUME HInv, Step, IInv'
  PROVE  HInv'
<1>1. s'.out.gen <= s'.out.made BY DEF Step, Fine, Answered
<1>2. reader' = "committed" => ~s'.inp.active BY DEF Step
<1> QED BY <1>1, <1>2, StepKeepsAnswers, StepKeepsEvidence DEF HInv, Told, Pending

\* A step is a step of TurnTaking, or is not seen there.
LEMMA StepPromised ==
  ASSUME HInv, Step, IInv'
  PROVE  Promise!Next
<1>1. s \in Session /\ s' \in Session BY DEF HInv, IInv, Good
<1>2. s.live \in BOOLEAN /\ s'.live \in BOOLEAN /\ (s'.live => s.live)
  BY <1>1, Numbers DEF Step, Fine
<1>3. CASE ~s.live
  <2>1. UNCHANGED Promise!vars BY <1>2, <1>3 DEF Promise!vars, Floor, Pending
  <2> QED BY <2>1 DEF Promise!Next
<1>4. CASE s.live /\ ~s'.live
  <2>1. Promise!Close BY <1>4 DEF Promise!Close, Floor
  <2> QED BY <2>1 DEF Promise!Next
<1>5. CASE s.live /\ s'.live
  <2>1. Spoken(s', s) BY <1>5 DEF Step, Fine
  <2>2. Floor = FloorOf(s) /\ Floor' = FloorOf(s') BY <1>5 DEF Floor, FloorOf
  <2>3. s.out.gen \in Nat /\ s.resp.ctx \in Nat BY <1>1, Numbers
  <2> QED
    BY <1>5, <2>1, <2>2, <2>3
       DEF Spoken, SamePlay, SameTurn, Silenced, Pending, Promise!Next, Promise!vars,
           Promise!StartOutput, Promise!StopOutput, Promise!Speak, Promise!Pause, Promise!Hold,
           Promise!Resume, Promise!Commit, Promise!CommitOther, Promise!Drop,
           Promise!Keeping, Promise!Silence
<1> QED BY <1>2, <1>3, <1>4, <1>5

-----------------------------------------------------------------------------
(* Every action takes a Step: the messages of the client.                  *)

\* The session in a state of HInv.
LEMMA Now ==
  ASSUME HInv
  PROVE  Good(s) /\ Told(s) /\ s \in Session
  BY DEF HInv, IInv, Good

\* A message of the reader, however it overtakes.
LEMMA HandleSteps ==
  ASSUME NEW r, NEW overtakes \in BOOLEAN, Handle(r, overtakes), Fine(r, s),
         overtakes => ~r.resp.live
  PROVE  Step
<1>1. s' = r /\ Become(r, overtakes) BY DEF Handle, Become
<1>2. reader' # "committed" BY DEF Handle, ReadMessage, NextMessage
<1> QED BY <1>1, <1>2 DEF Step

\* A step of a worker, of the loop or of time: the reader is where it was.
LEMMA WorkSteps ==
  ASSUME HInv, NEW r, Work(r), Fine(r, s), r.inp.active = s.inp.active
  PROVE  Step
<1>1. s' = r /\ Become(r, FALSE) BY DEF Work, Become
<1>2. reader' = "committed" => ~s'.inp.active BY <1>1 DEF Work, HInv
<1> QED BY <1>1, <1>2 DEF Step

\* A change of the session that touches none of what the promise is about.
LEMMA EditFine ==
  ASSUME HInv, NEW q, q.live = s.live, SameGeneration(q, s), FloorOf(q) = FloorOf(s),
         q.resp = s.resp \/ Dropped(q, s), q.int.state = s.int.state,
         q.int.classify = s.int.classify, s.int.classify = "fresh" => SameSpeech(q, s)
  PROVE  Fine(q, s)
<1>1. Good(s) /\ Told(s) BY Now
<1>2. SameTurn(q, s) /\ (Pending(q) <=> Pending(s)) BY DEF SameTurn, Dropped, Pending
<1>3. CASE s.int.classify = "fresh" BY <1>1, <1>2, <1>3, UnseenFine
<1>4. CASE s.int.classify # "fresh"
  <2>1. s.int.classify \in Jobs BY Now, Numbers
  <2>2. Revised(q, s) \/ q.int.classify = "none"
    BY <1>4, <2>1 DEF Revised, Outdated, Jobs
  <2> QED BY <1>1, <1>2, <2>2, UnseenFine
<1> QED BY <1>3, <1>4

\* Without active realtime input nobody has the floor and nothing counts.
LEMMA QuietFine ==
  ASSUME HInv, ~RealtimeActive(s), NEW q, q.live = s.live, SameGeneration(q, s),
         FloorOf(q) = "none", q.resp = s.resp \/ Dropped(q, s), q.int = s.int
  PROVE  Fine(q, s)
<1>1. Good(s) /\ Told(s) BY Now
<1>2. ~Pending(s) /\ FloorOf(s) = "none" BY <1>1, QuietInput, Floors
<1>3. s.int.classify # "fresh" BY <1>1, <1>2 DEF Told
<1> QED BY <1>2, <1>3, EditFine

\* input_audio.start in realtime mode.
LEMMA StartRealtimeInputSteps ==
  ASSUME HInv, StartRealtimeInput
  PROVE  Step
<1> DEFINE e == ResetEndpoint(s)
           q == [e EXCEPT !.inp = [@ EXCEPT !.active = TRUE, !.realtime = TRUE, !.buf = 0,
                                            !.state = "listening"]]
<1>1. s \in Session /\ ~RealtimeActive(s) BY Now DEF StartRealtimeInput, RealtimeActive
<1>2. /\ e \in Session /\ e.live = s.live /\ e.out = s.out /\ e.int = s.int /\ e.resp = s.resp
      /\ e.inp.end = FALSE
  BY <1>1, ResetEffect DEF Follows
<1> HIDE DEF e
<1>3. /\ q.live = e.live /\ q.out = e.out /\ q.int = e.int /\ q.resp = e.resp
      /\ q.inp.state = "listening" /\ q.inp.end = FALSE
  BY <1>2 DEF Session, InputRecord
<1>4. Handle(q, FALSE) BY DEF StartRealtimeInput, q, e
<1> HIDE DEF q
<1>5. Fine(q, s) BY <1>1, <1>2, <1>3, QuietFine DEF SameGeneration, FloorOf
<1> QED BY <1>4, <1>5, HandleSteps

\* input_audio.start in manual mode.
LEMMA StartInputAudioSteps ==
  ASSUME HInv, StartInputAudio
  PROVE  Step
<1> DEFINE q == [s EXCEPT !.inp = [@ EXCEPT !.active = TRUE, !.realtime = FALSE, !.buf = 0]]
<1>1. s \in Session /\ ~RealtimeActive(s) /\ FloorOf(s) = "none"
  BY Now, Floors DEF StartInputAudio
<1>2. /\ q.live = s.live /\ q.out = s.out /\ q.int = s.int /\ q.resp = s.resp
      /\ q.inp.state = s.inp.state /\ q.inp.end = s.inp.end
  BY <1>1 DEF Session, InputRecord
<1>3. Handle(q, FALSE) BY DEF StartInputAudio, q
<1> HIDE DEF q
<1>4. Fine(q, s) BY <1>1, <1>2, QuietFine DEF SameGeneration, FloorOf
<1> QED BY <1>3, <1>4, HandleSteps

\* Dropping a realtime turn for good: after a recovery, or with nothing pending.
LEMMA TurnDropped ==
  ASSUME NEW r, Good(r), Told(r), NEW q, q.live = r.live, ~Pending(q), FloorOf(q) = "none",
         SameGeneration(q, r), q.resp = r.resp \/ Dropped(q, r),
         q.int.classify # "fresh",
         q.int.classify = "none" => r.int.classify = "none"
  PROVE  Fine(q, r)
<1>1. r \in Session BY DEF Good
<1>2. Spoken(q, r)
  BY DEF Spoken, SamePlay, SameGeneration, SameTurn, Dropped
<1>3. Answered(q, r)
  BY <1>1, Numbers DEF Answered, Dropped, SameGeneration, Told
<1>4. Judged(q, r)
  BY <1>1, Numbers DEF Judged
<1> QED BY <1>2, <1>3, <1>4 DEF Fine

\* Stopping and cancelling input: the answer is given up with the turn.
LEMMA CancelledInputFine ==
  ASSUME HInv, NEW stop \in BOOLEAN
  PROVE  Fine(CancelledInput(stop), s) /\ ~CancelledInput(stop).resp.live
<1>1. Good(s) /\ Told(s) /\ s \in Session BY Now
<1>2. CASE ~s.inp.realtime
  <2> DEFINE d == DropResponse(s)
             q == [d EXCEPT !.inp = [@ EXCEPT !.buf = 0, !.active = FALSE]]
  <2>1. /\ d \in Session /\ d.live = s.live /\ d.out = s.out /\ d.inp = s.inp /\ d.int = s.int
        /\ Dropped(d, s)
    BY <1>1, DropEffect DEF Follows
  <2> HIDE DEF d
  <2>2. /\ q.live = d.live /\ q.out = d.out /\ q.int = d.int /\ q.resp = d.resp
        /\ q.inp.state = d.inp.state /\ q.inp.end = d.inp.end
    BY <2>1 DEF Session, InputRecord
  <2>3. CancelledInput(stop) = q BY <1>2 DEF CancelledInput, q, d
  <2> HIDE DEF q
  <2>4. ~RealtimeActive(s) BY <1>2 DEF RealtimeActive
  <2>5. FloorOf(q) = "none" BY <1>1, <2>1, <2>2, <2>4, Floors DEF FloorOf
  <2>6. Fine(q, s)
    BY <2>1, <2>2, <2>4, <2>5, QuietFine DEF SameGeneration, Dropped
  <2> QED BY <2>1, <2>2, <2>3, <2>6 DEF Dropped
<1>3. CASE s.inp.realtime
  <2> DEFINE v == Recover(s)
             e == ResetEndpoint(v)
             d == DropResponse(e)
             q == [d EXCEPT !.inp = [@ EXCEPT
                     !.buf = 0, !.turn = FALSE, !.active = d.inp.active /\ ~stop,
                     !.state = IF stop THEN "idle"
                               ELSE IF d.inp.active THEN "listening" ELSE d.inp.state]]
  <2>1. /\ Good(v) /\ v \in Session /\ ~Pending(v) /\ v.live = s.live
        /\ IF Pending(s) THEN Recovered(v, s) ELSE v = s
    BY <1>1, RecoverGood DEF Good, Follows
  <2> HIDE DEF v
  <2>2. /\ SameGeneration(v, s) /\ v.resp = s.resp /\ v.int.classify # "fresh"
        /\ v.int.classify = "none" => s.int.classify = "none"
    BY <1>1, <2>1, Numbers, Outdating DEF Recovered, Revised, SameGeneration, Told
  <2>3. /\ e \in Session /\ e.live = v.live /\ e.out = v.out /\ e.int = v.int
        /\ e.resp = v.resp /\ e.inp.active = v.inp.active /\ e.inp.realtime = v.inp.realtime
        /\ e.inp.state = v.inp.state /\ e.inp.end = FALSE
    BY <2>1, ResetEffect DEF Follows
  <2> HIDE DEF e
  <2>4. /\ d \in Session /\ d.live = e.live /\ d.out = e.out /\ d.inp = e.inp
        /\ d.int = e.int /\ Dropped(d, e)
    BY <2>3, DropEffect DEF Follows
  <2> HIDE DEF d
  <2>5. /\ q.live = d.live /\ q.out = d.out /\ q.int = d.int /\ q.resp = d.resp
        /\ q.inp.state = IF stop THEN "idle"
                         ELSE IF d.inp.active THEN "listening" ELSE d.inp.state
        /\ q.inp.end = d.inp.end
    BY <2>4 DEF Session, InputRecord
  <2>6. CancelledInput(stop) = q BY <1>3 DEF CancelledInput, q, d, e, v
  <2> HIDE DEF q
  <2>7. ~d.inp.active => d.inp.state = "idle"
    BY <2>1, <2>3, <2>4 DEF Good, EndConsistent, RealtimeActive
  <2>8. FloorOf(q) = "none" BY <2>3, <2>4, <2>5, <2>7 DEF FloorOf
  <2>9. Dropped(q, s) BY <2>2, <2>3, <2>4, <2>5 DEF Dropped
  <2>10. Fine(q, s)
    BY <1>1, <2>1, <2>2, <2>3, <2>4, <2>5, <2>8, <2>9, TurnDropped DEF SameGeneration, Pending
  <2> QED BY <2>6, <2>9, <2>10 DEF Dropped
<1> QED BY <1>2, <1>3

\* Audio that changes the buffer only.
LEMMA BufferFine ==
  ASSUME HInv, NEW n
  PROVE  Fine([s EXCEPT !.inp.buf = n], s)
<1> DEFINE q == [s EXCEPT !.inp.buf = n]
<1>1. /\ q.live = s.live /\ q.out = s.out /\ q.int = s.int /\ q.resp = s.resp
      /\ q.inp.state = s.inp.state /\ q.inp.end = s.inp.end
  BY Now DEF Session, InputRecord
<1> HIDE DEF q
<1>2. Fine(q, s)
  BY <1>1, EditFine DEF SameGeneration, FloorOf, SameSpeech
<1> QED BY <1>2 DEF q

\* input_audio.stop and input_audio.cancel.
LEMMA CancelInputSteps ==
  ASSUME HInv, NEW stop \in BOOLEAN, CancelInput(stop)
  PROVE  Step
  BY CancelledInputFine, HandleSteps DEF CancelInput

\* Audio in manual mode, within its limit or past it.
LEMMA AppendInputAudioSteps ==
  ASSUME HInv, AppendInputAudio
  PROVE  Step
<1>1. CASE Handle([s EXCEPT !.inp.buf = @ + 1], FALSE)
  <2>1. [s EXCEPT !.inp.buf = @ + 1] = [s EXCEPT !.inp.buf = s.inp.buf + 1]
    BY Now DEF Session, InputRecord
  <2> QED BY <1>1, <2>1, BufferFine, HandleSteps
<1>2. CASE Handle(CancelledInput(TRUE), TRUE)
  BY <1>2, CancelledInputFine, HandleSteps
<1> QED BY <1>1, <1>2 DEF AppendInputAudio

\* A turn past its limit: the confirmed interruption and the turn both end.
LEMMA OverlongTurnFine ==
  ASSUME HInv, InSpeechTurn(s),
         NEW q, q.live = s.live, q.out = Confirm(s).out, q.int = Confirm(s).int,
         q.resp = Confirm(s).resp, FloorOf(q) = "none"
  PROVE  Fine(q, s)
<1> DEFINE c == Confirm(s)
<1>1. Good(s) /\ Told(s) /\ s \in Session BY Now
<1>2. /\ Good(c) /\ c.live = s.live /\ ~Pending(c)
      /\ IF Pending(s) THEN Confirmed(c, s) ELSE c = s
  BY <1>1, ConfirmGood DEF Follows
<1> HIDE DEF c
<1>3. q.out = c.out /\ q.int = c.int /\ q.resp = c.resp BY DEF c
<1>4. FloorOf(s) # "none" BY <1>1, Floors
<1>5. CASE Pending(s)
  <2>1. Fine(c, s) BY <1>1, <1>2, <1>5, ConfirmedFine
  <2>2. Silenced(q) BY <1>2, <1>3, <1>5 DEF Confirmed, Silenced, Pending
  <2>3. Spoken(q, s)
    BY <1>1, <1>2, <1>3, <1>4, <1>5, <2>2, Floors DEF Spoken, Confirmed, Dropped, Asked
  <2>4. Answered(q, s) BY <1>3, <2>1 DEF Fine, Answered, Asked
  <2>5. Judged(q, s) BY <1>1, <1>2, <1>3, <1>5, Numbers, Outdating DEF Judged, Confirmed, Revised
  <2> QED BY <2>3, <2>4, <2>5 DEF Fine
<1>6. CASE ~Pending(s)
  <2>1. s.int.classify # "fresh" BY <1>1, <1>6 DEF Told
  <2> QED BY <1>1, <1>2, <1>3, <1>6, <2>1, TurnDropped DEF SameGeneration, Pending
<1> QED BY <1>5, <1>6

\* Audio in realtime mode: preroll, turn, or past the turn limit.
LEMMA AppendRealtimeAudioSteps ==
  ASSUME HInv, AppendRealtimeAudio
  PROVE  Step
<1> DEFINE c == Confirm(s)
           e == ResetEndpoint(c)
           q == [e EXCEPT !.inp = [@ EXCEPT !.buf = 0, !.active = FALSE, !.state = "idle"]]
           kept == IF s.inp.buf < PreRoll THEN s.inp.buf + 1 ELSE PreRoll
<1>1. Good(s) /\ s \in Session BY Now
<1>2. c \in Session /\ c.live = s.live BY <1>1, ConfirmGood DEF Good, Follows
<1>3. /\ e \in Session /\ e.live = c.live /\ e.out = c.out /\ e.int = c.int /\ e.resp = c.resp
      /\ e.inp.end = FALSE
  BY <1>2, ResetEffect DEF Follows
<1>4. \/ Handle([s EXCEPT !.inp.buf = kept], FALSE)
      \/ Handle([s EXCEPT !.inp.buf = s.inp.buf + 1], FALSE)
      \/ Handle(q, FALSE) /\ s.inp.state # "listening"
  BY DEF AppendRealtimeAudio, q, e, c
<1> HIDE DEF e
<1>5. /\ q.live = e.live /\ q.out = e.out /\ q.int = e.int /\ q.resp = e.resp
      /\ q.inp.state = "idle" /\ q.inp.end = e.inp.end
  BY <1>3 DEF Session, InputRecord
<1> HIDE DEF q, kept
<1>6. CASE Handle(q, FALSE) /\ s.inp.state # "listening"
  <2>1. InSpeechTurn(s)
    BY <1>1, <1>6 DEF AppendRealtimeAudio, Good, EndConsistent, InSpeechTurn, Session,
       InputRecord, TurnStates
  <2>2. FloorOf(q) = "none" BY <1>3, <1>5 DEF FloorOf
  <2>3. Fine(q, s) BY <1>2, <1>3, <1>5, <2>1, <2>2, OverlongTurnFine
  <2> QED BY <1>6, <2>3, HandleSteps
<1> QED BY <1>4, <1>6, BufferFine, HandleSteps

\* input_audio.speech_start: the user takes the floor; what was on hold is
\* silenced, what plays may be put on hold.
LEMMA SpeechStartSteps ==
  ASSUME HInv, NEW g \in Nat, NEW id \in Tokens \cup {NoToken}, SpeechStart(g, id)
  PROVE  Step
<1> DEFINE freshTurn == s.inp.state = "listening"
           t == TakeFloor(s, freshTurn)
           n == IF g = t.out.gen /\ id # NoToken THEN id ELSE t.int.id
           m == [t EXCEPT !.int = [@ EXCEPT !.resumed = TRUE, !.id = n]]
           k == Confirm(m)
           b == BeginInterruption(t, g, id, freshTurn)
<1>1. Good(s) /\ Told(s) /\ s \in Session BY Now
<1>2. RealtimeActive(s) /\ s.inp.state # "speaking" BY DEF SpeechStart
<1>3. ~freshTurn => s.inp.turn
  BY <1>1, <1>2 DEF Good, EndConsistent, InSpeechTurn, Session, InputRecord, TurnStates
<1>4. freshTurn \in BOOLEAN OBVIOUS
<1>5. \/ Pending(t) /\ Handle(k, TRUE)
      \/ ~Pending(t) /\ Handle(b, TRUE)
  BY DEF SpeechStart, k, m, n, t, b
<1> HIDE DEF freshTurn
<1>6. /\ Good(t) /\ t \in Session /\ t.live = s.live /\ t.out = s.out /\ t.int = s.int
      /\ Dropped(t, s) /\ t.inp.state = "speaking" /\ ~t.inp.ready
  BY <1>1, <1>2, <1>3, <1>4, TakeFloorGood DEF Good, Follows
<1> HIDE DEF t
<1>7. FloorOf(s) # "speaking" /\ FloorOf(t) = "speaking" BY <1>2, <1>6 DEF FloorOf
<1>8. CASE Pending(t) /\ Handle(k, TRUE)
  <2>1. n \in Tokens \cup {NoToken} BY <1>6 DEF Session, InterruptionRecord
  <2> HIDE DEF n
  <2>2. /\ m \in Session /\ m.out = t.out /\ m.inp = t.inp /\ m.live = t.live
        /\ m.resp = t.resp /\ m.int.state = t.int.state /\ m.int.gen = t.int.gen
        /\ m.int.classify = t.int.classify
    BY <1>6, <2>1 DEF Session, InterruptionRecord
  <2> HIDE DEF m
  <2>3. Good(m) /\ Pending(m)
    BY <1>6, <1>8, <2>2 DEF Good, OwnsOutput, PausedIsPending, EndConsistent, Pending,
       RealtimeActive, InSpeechTurn
  <2>4. Confirmed(k, m) /\ k.live = m.live /\ ~Pending(k)
    BY <2>3, ConfirmGood DEF Follows
  <2> HIDE DEF k
  <2>5. Silenced(k) /\ FloorOf(k) = "speaking" /\ Dropped(k, s) /\ k.out.made = s.out.made
    BY <1>6, <2>2, <2>4 DEF Silenced, Confirmed, SameFloor, FloorOf, Dropped
  <2>6. Spoken(k, s) BY <1>6, <1>7, <1>8, <2>5 DEF Spoken, Dropped, Pending
  <2>7. Answered(k, s) BY <1>1, <2>5, Numbers DEF Answered, Dropped, Silenced
  <2>8. Judged(k, s)
    BY <1>1, <1>6, <2>2, <2>4, Numbers, Outdating DEF Judged, Confirmed, Revised
  <2>9. k.live = s.live BY <1>6, <2>2, <2>4
  <2> QED BY <1>8, <2>5, <2>6, <2>7, <2>8, <2>9, HandleSteps DEF Fine, Dropped
<1>9. CASE ~Pending(t) /\ Handle(b, TRUE)
  <2>0. b.live = t.live /\ (b = t \/ Confirmed(b, t) \/ Suspected(b, t))
    BY <1>4, <1>6, BeginGood DEF Follows
  <2> HIDE DEF b
  <2>1. b.live = t.live /\ (b = t \/ Suspected(b, t)) BY <1>9, <2>0 DEF Confirmed
  <2>2. ~Pending(s) /\ s.int.classify # "fresh" BY <1>1, <1>6, <1>9 DEF Pending, Told
  <2>3. /\ SameGeneration(b, s) /\ FloorOf(b) = "speaking" /\ Dropped(b, s)
        /\ Pending(b) => s.out.gen # 0
        /\ b.int.classify \in {s.int.classify, Outdated(s.int.classify)}
    BY <1>6, <1>7, <1>9, <2>1
       DEF Suspected, SameGeneration, FloorOf, Dropped, Revised, Pending
  <2>4. Spoken(b, s) BY <1>7, <2>2, <2>3 DEF Spoken, SameGeneration, Dropped
  <2>5. Answered(b, s)
    BY <1>1, <2>3, Numbers DEF Answered, Dropped, SameGeneration, Told
  <2>6. Judged(b, s) BY <1>1, <2>2, <2>3, Numbers, Outdating DEF Judged
  <2> QED BY <1>6, <1>9, <2>1, <2>3, <2>4, <2>5, <2>6, HandleSteps DEF Fine, Dropped
<1> QED BY <1>5, <1>8, <1>9

\* input_audio.speech_end and vad_misfire: the turn has ended, or was none.
LEMMA EndSpeechSteps ==
  ASSUME HInv, NEW valid \in BOOLEAN, EndSpeech(valid)
  PROVE  Step
<1> DEFINE x == ResetEndpoint(s)
           d == [x EXCEPT !.inp = [@ EXCEPT !.buf = 0, !.turn = FALSE, !.state = "listening"]]
           e == [s EXCEPT !.inp = [@ EXCEPT
                    !.hasSpeech = s.inp.hasSpeech \/ valid, !.end = TRUE, !.attempted = FALSE,
                    !.minDue = FALSE, !.maxDue = FALSE, !.state = "possible_end"]]
           c == InterruptionChanged(e)
           w == Wake(c)
<1>1. Good(s) /\ Told(s) /\ s \in Session BY Now
<1>2. RealtimeActive(s) /\ s.inp.state = "speaking" BY DEF EndSpeech
<1>3. \/ Pending(s) /\ Handle(Recover(s), FALSE)
      \/ ~Pending(s) /\ Handle(d, FALSE)
      \/ Handle(w, FALSE)
  BY DEF EndSpeech, d, x, w, c, e
<1>4. CASE Pending(s) /\ Handle(Recover(s), FALSE)
  <2>1. Fine(Recover(s), s) BY <1>1, <1>4, RecoverGood, RecoveredFine DEF Follows
  <2> QED BY <1>4, <2>1, HandleSteps
<1>5. CASE ~Pending(s) /\ Handle(d, FALSE)
  <2>1. /\ x \in Session /\ x.live = s.live /\ x.out = s.out /\ x.int = s.int
        /\ x.resp = s.resp /\ x.inp.end = FALSE
    BY <1>1, ResetEffect DEF Follows
  <2> HIDE DEF x
  <2>2. /\ d.live = x.live /\ d.out = x.out /\ d.int = x.int /\ d.resp = x.resp
        /\ d.inp.state = "listening" /\ d.inp.end = FALSE
    BY <2>1 DEF Session, InputRecord
  <2> HIDE DEF d
  <2>3. s.int.classify # "fresh" /\ ~Pending(d) BY <1>1, <1>5, <2>1, <2>2 DEF Told, Pending
  <2>4. Fine(d, s)
    BY <1>1, <2>1, <2>2, <2>3, TurnDropped DEF SameGeneration, FloorOf
  <2> QED BY <1>5, <2>4, HandleSteps
<1>6. CASE Handle(w, FALSE)
  <2>1. s.inp.hasSpeech \in BOOLEAN BY <1>1 DEF Session, InputRecord
  <2>2. /\ e \in Session /\ e.live = s.live /\ e.out = s.out /\ e.int = s.int
        /\ e.resp = s.resp /\ e.inp.state = "possible_end" /\ e.inp.end = TRUE
        /\ e.inp.turn = s.inp.turn /\ e.inp.ready = s.inp.ready
        /\ e.inp.active = s.inp.active /\ e.inp.realtime = s.inp.realtime
    BY <1>1, <2>1 DEF Session, InputRecord, TurnStates
  <2> HIDE DEF e
  <2>3. Good(e)
    BY <1>1, <1>2, <2>2 DEF Good, OwnsOutput, PausedIsPending, EndConsistent, Pending,
       RealtimeActive, InSpeechTurn
  <2>4. /\ c \in Session /\ c.live = e.live /\ c.inp = e.inp /\ c.out = e.out
        /\ c.resp = e.resp /\ c.int.state = e.int.state
        /\ IF Pending(e) THEN Revised(c, e) ELSE c = e
    BY <2>3, ChangedGood DEF Good, Follows
  <2> HIDE DEF c
  <2>5. /\ w.live = c.live /\ w.inp = c.inp /\ w.out = c.out /\ w.resp = c.resp
        /\ w.int = c.int
    BY <2>4, WakeEffect DEF Follows
  <2> HIDE DEF w
  <2>6. FloorOf(s) = "speaking" /\ FloorOf(w) = "ended" BY <1>2, <2>2, <2>4, <2>5 DEF FloorOf
  <2>7. Spoken(w, s) BY <2>2, <2>4, <2>5, <2>6 DEF Spoken, SamePlay, Pending
  <2>8. Answered(w, s) BY <1>1, <2>2, <2>4, <2>5, Numbers DEF Answered, Told
  <2>9. Judged(w, s)
    BY <1>1, <2>2, <2>4, <2>5, Numbers, Outdating DEF Judged, Revised, Told, Pending
  <2>10. w.live = s.live BY <2>2, <2>4, <2>5
  <2> QED BY <1>6, <2>7, <2>8, <2>9, <2>10, HandleSteps DEF Fine
<1> QED BY <1>3, <1>4, <1>5, <1>6

\* A step that changes nothing the promise is about changes nothing at all.
LEMMA SameFine ==
  ASSUME HInv
  PROVE  Fine(s, s)
  BY EditFine DEF SameGeneration, SameSpeech

\* interruption.request.
LEMMA RequestInterruptionSteps ==
  ASSUME HInv, NEW g \in Nat, NEW id \in Tokens, RequestInterruption(g, id)
  PROVE  Step
<1> DEFINE b == BeginInterruption(s, g, id, FALSE)
<1>1. Good(s) /\ Told(s) BY Now
<1>2. b.live = s.live /\ (b = s \/ Confirmed(b, s) \/ Suspected(b, s))
  BY <1>1, BeginGood DEF Follows
<1>3. Handle(b, FALSE) BY DEF RequestInterruption
<1> HIDE DEF b
<1>4. Fine(b, s) BY <1>1, <1>2, SameFine, ConfirmedFine, SuspectedFine
<1> QED BY <1>3, <1>4, HandleSteps

\* A report of what was played changes neither voice.
LEMMA PlayedFine ==
  ASSUME HInv
  PROVE  LET q == Played(s)
         IN  /\ q \in Session /\ q.live = s.live /\ SameGeneration(q, s) /\ q.inp = s.inp
             /\ q.int = s.int /\ q.resp = s.resp
  BY Now DEF Played, Session, OutputRecord, SameGeneration

\* playback.paused.
LEMMA PlaybackPausedSteps ==
  ASSUME HInv, NEW g, NEW id, PlaybackPaused(g, id)
  PROVE  Step
<1>1. PICK r \in {s, Played(s)} :
         Handle([r EXCEPT !.out.paused = @ \/ r.out.audio # "none"], FALSE)
  BY DEF PlaybackPaused
<1> DEFINE q == [r EXCEPT !.out.paused = @ \/ r.out.audio # "none"]
<1>2. /\ r \in Session /\ r.live = s.live /\ SameGeneration(r, s) /\ r.inp = s.inp
      /\ r.int = s.int /\ r.resp = s.resp
  BY <1>1, Now, PlayedFine DEF SameGeneration
<1>3. /\ q.live = r.live /\ SameGeneration(q, r) /\ q.inp = r.inp /\ q.int = r.int
      /\ q.resp = r.resp
  BY <1>2 DEF Session, OutputRecord, SameGeneration
<1>4. Handle(q, FALSE) BY <1>1
<1> HIDE DEF q
<1>5. Fine(q, s) BY <1>2, <1>3, EditFine DEF SameGeneration, FloorOf, SameSpeech
<1> QED BY <1>4, <1>5, HandleSteps

\* playback.progress.
LEMMA PlaybackProgressSteps ==
  ASSUME HInv, NEW g, PlaybackProgress(g)
  PROVE  Step
<1>1. Fine(Played(s), s) BY PlayedFine, EditFine DEF FloorOf, SameSpeech
<1> QED BY <1>1, HandleSteps DEF PlaybackProgress

\* playback.overflow and interruption.failed.
LEMMA PlaybackFailedSteps ==
  ASSUME HInv, NEW g, NEW id, PlaybackFailed(g, id)
  PROVE  Step
<1>1. Good(s) /\ Told(s) BY Now
<1>2. Pending(s) => Fine(Confirm(s), s) BY <1>1, ConfirmGood, ConfirmedFine DEF Follows
<1>3. Fine(CancelGeneration(s), s) BY <1>1, CancelledFine
<1> QED BY <1>2, <1>3, HandleSteps DEF PlaybackFailed

\* generation.cancel gives up the answer too.
LEMMA ClientCancelsSteps ==
  ASSUME HInv, NEW g, ClientCancels(g)
  PROVE  Step
  BY Now, CancelledFine, HandleSteps DEF ClientCancels

\* A generation starts for the session d, that is r without the answer it gives
\* up or hands in.
LEMMA StartedFine ==
  ASSUME NEW r, Good(r), Told(r),
         NEW d, d.live = r.live, d.out = r.out, d.inp = r.inp, d.int = r.int,
         \/ Dropped(d, r)
         \/ /\ r.resp.live /\ d.resp.ctx = r.resp.ctx
            /\ d.resp.jobs = r.resp.jobs \ {r.resp.ctx},
         NEW q, q.live = d.live, Started(q, d)
  PROVE  Fine(q, r)
<1>1. r \in Session BY DEF Good
<1>2. /\ q.out.gen = r.out.made + 1 /\ q.out.made = r.out.made + 1 /\ q.resp = d.resp
      /\ FloorOf(q) = FloorOf(r) /\ ~Pending(q) /\ q.int.classify = Outdated(r.int.classify)
      /\ q.int.state = "idle"
  BY DEF Started, FloorOf, Pending, Revised
<1>3. r.out.made + 1 \in Nat \ {0, r.out.gen} BY <1>1, Numbers DEF Told
<1>4. Spoken(q, r) BY <1>2, <1>3 DEF Spoken, SameTurn, Dropped
<1>5. Answered(q, r) BY <1>1, <1>2, <1>3, Numbers DEF Answered, Dropped
<1>6. Judged(q, r) BY <1>1, <1>2, Numbers, Outdating DEF Judged
<1> QED BY <1>4, <1>5, <1>6 DEF Fine

\* generation.create: the old answer is dropped, a generation replaces the output.
LEMMA CreateGenerationSteps ==
  ASSUME HInv, NEW textOnly \in BOOLEAN, CreateGeneration(textOnly)
  PROVE  Step
<1> DEFINE d == DropResponse(s)
           q == StartGeneration(d, textOnly)
<1>1. Good(s) /\ Told(s) /\ s \in Session BY Now
<1>2. /\ Good(d) /\ d.live = s.live /\ d.out = s.out /\ d.inp = s.inp /\ d.int = s.int
      /\ Dropped(d, s)
  BY <1>1, DropGood, DropEffect DEF Follows
<1>3. Handle(q, FALSE) BY DEF CreateGeneration
<1> HIDE DEF d
<1>4. q.live = d.live /\ IF d.live THEN Started(q, d) ELSE q = d
  BY <1>2, StartGenerationGood DEF Follows
<1> HIDE DEF q
<1>5. Fine(q, s)
  BY <1>1, <1>2, <1>4, StartedFine, EditFine DEF SameGeneration, SameSpeech, FloorOf
<1> QED BY <1>3, <1>5, HandleSteps

\* input_audio.commit, first critical section: manual input ends.
LEMMA CommitInputAudioSteps ==
  ASSUME HInv, CommitInputAudio
  PROVE  Step
<1> DEFINE q == [s EXCEPT !.inp = [@ EXCEPT !.buf = 0, !.active = FALSE]]
<1>1. Good(s) /\ s \in Session BY Now
<1>2. ~RealtimeActive(s) BY DEF CommitInputAudio, RealtimeActive
<1>3. /\ q.live = s.live /\ q.out = s.out /\ q.int = s.int /\ q.resp = s.resp
      /\ q.inp.state = s.inp.state /\ q.inp.end = s.inp.end /\ ~q.inp.active
  BY <1>1 DEF Session, InputRecord
<1>4. Become(q, FALSE) BY DEF CommitInputAudio
<1> HIDE DEF q
<1>5. FloorOf(q) = "none" BY <1>1, <1>2, <1>3, Floors DEF FloorOf
<1>6. Fine(q, s) BY <1>2, <1>3, <1>5, QuietFine DEF SameGeneration
<1> QED BY <1>3, <1>4, <1>6 DEF Step, Become

\* A response context for a turn that had no floor: a manual commit or text.
LEMMA NewContextFine ==
  ASSUME HInv, ~s.inp.active
  PROVE  Fine(NewResponseContext(s), s)
<1> DEFINE q == NewResponseContext(s)
<1>1. Good(s) /\ Told(s) /\ s \in Session BY Now
<1>2. /\ q.live = s.live /\ q.out = s.out /\ q.inp = s.inp /\ q.int = s.int /\ Asked(q, s)
  BY <1>1, NewContextEffect DEF Follows
<1> HIDE DEF q
<1>3. FloorOf(s) = "none" /\ ~Pending(s)
  BY <1>1, Floors, QuietInput DEF RealtimeActive
<1>4. Spoken(q, s) BY <1>2, <1>3 DEF Spoken, SamePlay, FloorOf, Asked, Pending
<1>5. Answered(q, s) BY <1>1, <1>2, Numbers DEF Answered, Told
<1>6. Judged(q, s) BY <1>1, <1>2, <1>3 DEF Judged, Told
<1> QED BY <1>2, <1>4, <1>5, <1>6 DEF Fine, q

\* input_audio.commit, second critical section.
LEMMA ManualResponseContextSteps ==
  ASSUME HInv, ManualResponseContext
  PROVE  Step
<1>1. Fine(NewResponseContext(s), s) BY NewContextFine DEF ManualResponseContext, HInv
<1>2. reader' # "committed" BY DEF ManualResponseContext, NextMessage
<1> QED BY <1>1, <1>2 DEF ManualResponseContext, Step, Become

\* text.commit.
LEMMA CommitTextSteps ==
  ASSUME HInv, CommitText
  PROVE  Step
<1>1. Fine(NewResponseContext(s), s) BY NewContextFine DEF CommitText
<1> QED BY <1>1 DEF CommitText, Step, Become

-----------------------------------------------------------------------------
(* Providers, workers and the loop.                                        *)

\* A holder answers its context: for the live one the generation starts, any
\* other only stops being awaited.
LEMMA RespondedFine ==
  ASSUME HInv, NEW c, NEW hasText \in BOOLEAN, NEW textOnly \in BOOLEAN
  PROVE  LET q == Responded(c, hasText, textOnly)
         IN  Fine(q, s) /\ q.inp.active = s.inp.active
<1> DEFINE r == [s EXCEPT !.resp.jobs = @ \ {c}]
           q == StartGeneration(r, textOnly)
<1>1. Good(s) /\ Told(s) /\ LoopCovers(s) /\ s \in Session BY Now DEF HInv, IInv
<1>2. /\ r \in Session /\ r.live = s.live /\ r.loop = s.loop /\ r.inp = s.inp
      /\ r.int = s.int /\ r.out = s.out
      /\ r.resp.ctx = s.resp.ctx /\ r.resp.live = s.resp.live
      /\ r.resp.jobs = s.resp.jobs \ {c}
  BY <1>1 DEF Session, ResponseRecord
<1>3. \/ Responded(c, hasText, textOnly) = r
      \/ /\ Responded(c, hasText, textOnly) = q
         /\ c = s.resp.ctx /\ s.resp.live /\ s.live
  BY DEF Responded, q, r
<1> HIDE DEF r
<1>4. Fine(r, s)
  <2>1. Spoken(r, s) BY <1>2 DEF Spoken, SamePlay, SameTurn, FloorOf, Pending
  <2>2. Answered(r, s) BY <1>1, <1>2, Numbers DEF Answered, Told
  <2>3. Judged(r, s) BY <1>1, <1>2 DEF Judged, Told, SameSpeech, Pending
  <2> QED BY <1>2, <2>1, <2>2, <2>3 DEF Fine
<1>5. CASE /\ Responded(c, hasText, textOnly) = q
           /\ c = s.resp.ctx /\ s.resp.live /\ s.live
  <2>1. Good(r) BY <1>1, <1>2, ResponseKeeps
  <2>2. q.live = r.live /\ Started(q, r) BY <1>2, <1>5, <2>1, StartGenerationGood DEF Follows
  <2> HIDE DEF q
  <2>3. Fine(q, s) BY <1>1, <1>2, <1>5, <2>2, StartedFine
  <2> QED BY <1>2, <1>5, <2>2, <2>3 DEF Started
<1> QED BY <1>2, <1>3, <1>4, <1>5

\* A transcription ends.
LEMMA TranscriptReadySteps ==
  ASSUME HInv, NEW c, NEW hasText \in BOOLEAN, TranscriptReady(c, hasText)
  PROVE  Step
  BY RespondedFine, WorkSteps DEF TranscriptReady

\* The reader starts the response to text.
LEMMA TextResponseSteps ==
  ASSUME HInv, NEW hasText \in BOOLEAN, NEW textOnly \in BOOLEAN,
         TextResponse(hasText, textOnly)
  PROVE  Step
<1>1. reader' # "committed" BY DEF TextResponse, NextMessage
<1> QED BY <1>1, RespondedFine DEF TextResponse, Step, Become

\* Audio is sent or the generation completes: the same generation plays on.
LEMMA OutputGoesOnSteps ==
  ASSUME HInv, SendAudio \/ MarkGenerationDone
  PROVE  Step
<1> DEFINE a == [s EXCEPT !.out.audio = "queued"]
           d == [s EXCEPT !.out.done = TRUE]
<1>1. ASSUME NEW q \in {a, d}
      PROVE  /\ q.live = s.live /\ SameGeneration(q, s) /\ q.inp = s.inp /\ q.int = s.int
             /\ q.resp = s.resp
  BY <1>1, Now DEF Session, OutputRecord, SameGeneration
<1>2. Work(a) \/ Work(d) BY DEF SendAudio, MarkGenerationDone
<1> HIDE DEF a, d
<1>3. ASSUME NEW q \in {a, d} PROVE Fine(q, s) /\ q.inp.active = s.inp.active
  BY <1>1, EditFine DEF FloorOf, SameSpeech
<1> QED BY <1>2, <1>3, WorkSteps

\* A generation fails, or the session's runtime is closed.
LEMMA OutputEndsSteps ==
  ASSUME HInv, OutputFails \/ CloseRuntime
  PROVE  Step
  BY Now, CancelledFine, WorkSteps DEF OutputFails, CloseRuntime

\* A partial transcription becomes evidence: what is in flight no longer counts.
LEMMA SupplySemanticSteps ==
  ASSUME HInv, SupplySemantic
  PROVE  Step
<1> DEFINE q == InterruptionChanged(s)
<1>1. Good(s) /\ Told(s) BY Now
<1>2. /\ q.live = s.live /\ q.inp = s.inp /\ q.out = s.out /\ q.resp = s.resp
      /\ q.int.state = s.int.state /\ Revised(q, s)
  BY <1>1, ChangedGood DEF SupplySemantic, Follows
<1>3. Work(q) BY DEF SupplySemantic
<1> HIDE DEF q
<1>4. Fine(q, s)
  BY <1>1, <1>2, UnseenFine DEF SameGeneration, SameTurn, FloorOf, Pending
<1> QED BY <1>2, <1>3, <1>4, WorkSteps

\* Where a step starts only matters by these fields.
LEMMA SameStart ==
  ASSUME NEW w, NEW r, w.live = r.live, w.out = r.out, w.resp = r.resp, w.inp.state = r.inp.state,
         w.inp.end = r.inp.end, w.int.state = r.int.state, NEW q
  PROVE  (Spoken(q, w) => Spoken(q, r)) /\ (Answered(q, w) => Answered(q, r))
<1>1. FloorOf(w) = FloorOf(r) /\ (Pending(w) <=> Pending(r)) BY DEF FloorOf, Pending
<1>2. Spoken(q, w) => Spoken(q, r) BY <1>1 DEF Spoken, SamePlay, SameTurn
<1>3. Answered(q, w) => Answered(q, r) BY DEF Answered, Asked
<1> QED BY <1>2, <1>3

\* The same for what is left of the session after a step.
LEMMA SameEnd ==
  ASSUME NEW r, NEW q, NEW w, w.live = q.live, w.out = q.out, w.resp = q.resp,
         w.inp = q.inp, w.int = q.int
  PROVE  Fine(q, r) => Fine(w, r)
<1>1. FloorOf(w) = FloorOf(q) /\ (Pending(w) <=> Pending(q)) BY DEF FloorOf, Pending
<1>2. Spoken(q, r) => Spoken(w, r) BY <1>1 DEF Spoken, SamePlay, SameTurn, Silenced
<1>3. Answered(q, r) => Answered(w, r) BY DEF Answered, Asked
<1>4. Judged(q, r) => Judged(w, r) BY <1>1 DEF Judged, SameSpeech
<1> QED BY <1>2, <1>3, <1>4 DEF Fine

\* A deadline confirmed the interruption and the endpoint of the turn is checked
\* in the same iteration: the two together are one step of the promise.
LEMMA ConfirmThenCheckFine ==
  ASSUME NEW r, Good(r), Told(r),
         NEW p, Good(p), p.live = r.live, Confirmed(p, r),
         NEW d, Good(d), d.live = p.live, Committed(d, p), p.inp.end
  PROVE  Fine(d, r)
<1>1. r \in Session BY DEF Good
<1>2. ~Pending(p) /\ p.out.gen = 0 /\ r.out.gen # 0 /\ Pending(r)
  BY Floors DEF Confirmed, Pending
<1>3. SameFloor(p, r) /\ Dropped(p, r) /\ p.out.made = r.out.made /\ p.live = r.live
  BY DEF Confirmed
<1>4. /\ d.out = p.out /\ d.int = p.int /\ d.inp.state = "listening" /\ d.inp.end = FALSE
      /\ d.resp = p.resp \/ Asked(d, p)
  BY <1>2 DEF Committed
<1>5. FloorOf(r) = "ended" /\ FloorOf(d) = "none" /\ Silenced(d)
  BY <1>2, <1>3, <1>4, Floors DEF SameFloor, FloorOf, Silenced, Pending
<1>6. Dropped(d, r) \/ Asked(d, r) BY <1>3, <1>4 DEF Dropped, Asked
<1>7. Spoken(d, r) BY <1>2, <1>5, <1>6 DEF Spoken, Dropped, Asked
<1>8. Answered(d, r)
  BY <1>1, <1>2, <1>3, <1>4, <1>6, Numbers DEF Answered, Dropped, Asked
<1>9. Judged(d, r) BY <1>1, <1>4, Numbers, Outdating DEF Judged, Confirmed, Revised
<1> QED BY <1>7, <1>8, <1>9 DEF Fine

\* One iteration of runInput: the interruption first, then the endpoint.
LEMMA IterationFine ==
  ASSUME NEW r, Good(r), Told(r)
  PROVE  LET d == CheckEndpoint(PrepareInterruption(r))
         IN  Fine(d, r) /\ d.inp.active = r.inp.active
<1> DEFINE p == PrepareInterruption(r)
           d == CheckEndpoint(p)
<1> SUFFICES Fine(d, r) /\ d.inp.active = r.inp.active OBVIOUS
<1>1. /\ Good(p) /\ p.live = r.live
      /\ \/ p = r \/ Confirmed(p, r)
         \/ /\ Pending(r) /\ r.int.classify = "none" /\ Pending(p)
            /\ p.out = r.out /\ p.inp = r.inp /\ p.resp = r.resp
  BY PrepareGood DEF Follows
<1> HIDE DEF p
<1>2. /\ Good(d) /\ d.live = p.live
      /\ \/ d = p
         \/ p.inp.end /\ Committed(d, p)
         \/ /\ p.inp.end /\ d.inp.end /\ d.inp.active = p.inp.active
            /\ d.out = p.out /\ d.int = p.int /\ d.resp = p.resp
  BY <1>1, CheckGood DEF Follows
<1> HIDE DEF d
<1>3. d.inp.active = r.inp.active BY <1>1, <1>2 DEF Committed, Confirmed
<1>4. ASSUME \/ d = p
             \/ /\ p.inp.end /\ d.inp.end
                /\ d.out = p.out /\ d.int = p.int /\ d.resp = p.resp
      PROVE  /\ FloorOf(d) = FloorOf(p) /\ d.out = p.out /\ d.int = p.int /\ d.resp = p.resp
             /\ d.inp.state = "speaking" <=> p.inp.state = "speaking"
             /\ Pending(d) <=> Pending(p)
  BY <1>1, <1>2, <1>4, Floors DEF Pending
<1>5. CASE Confirmed(p, r)
  <2>1. Fine(p, r) BY <1>1, <1>5, ConfirmedFine
  <2>2. CASE p.inp.end /\ Committed(d, p)
    BY <1>1, <1>2, <1>3, <1>5, <2>2, ConfirmThenCheckFine
  <2>3. CASE ~(p.inp.end /\ Committed(d, p))
    <3>1. /\ FloorOf(d) = FloorOf(p) /\ d.out = p.out /\ d.int = p.int /\ d.resp = p.resp
          /\ d.inp.state = "speaking" <=> p.inp.state = "speaking"
          /\ Pending(d) <=> Pending(p)
      BY <1>2, <1>4, <2>3
    <3>2. Spoken(p, r) => Spoken(d, r) BY <3>1 DEF Spoken, SamePlay, SameTurn, Silenced
    <3>3. Answered(p, r) => Answered(d, r) BY <3>1 DEF Answered, Asked
    <3>4. Judged(p, r) => Judged(d, r) BY <3>1 DEF Judged, SameSpeech
    <3> QED BY <1>2, <1>3, <2>1, <3>2, <3>3, <3>4 DEF Fine
  <2> QED BY <2>2, <2>3
<1>6. CASE p = r
  <2>1. CASE p.inp.end /\ Committed(d, p) BY <1>2, <1>3, <1>6, <2>1, CommittedFine
  <2>2. CASE ~(p.inp.end /\ Committed(d, p))
    <3>1. /\ FloorOf(d) = FloorOf(r) /\ d.out = r.out /\ d.int = r.int /\ d.resp = r.resp
          /\ SameSpeech(d, r) /\ (Pending(d) <=> Pending(r))
      BY <1>2, <1>4, <1>6, <2>2 DEF SameSpeech
    <3> QED BY <1>1, <1>2, <1>3, <3>1, UnseenFine DEF SameGeneration, SameTurn
  <2> QED BY <2>1, <2>2
<1>7. CASE /\ Pending(r) /\ r.int.classify = "none" /\ Pending(p)
           /\ p.out = r.out /\ p.inp = r.inp /\ p.resp = r.resp
  <2>1. /\ d.out = r.out /\ d.resp = r.resp /\ Pending(d) /\ FloorOf(d) = FloorOf(r)
    BY <1>2, <1>4, <1>7 DEF Committed, SameFloor, FloorOf, Pending
  <2> QED BY <1>1, <1>2, <1>3, <1>7, <2>1, UnseenFine DEF SameGeneration, SameTurn
<1> QED BY <1>1, <1>3, <1>5, <1>6, <1>7

\* The loop takes its iteration.
LEMMA LoopIterationSteps ==
  ASSUME HInv, LoopIteration
  PROVE  Step
<1> DEFINE l == [s.loop EXCEPT !.wake = FALSE]
           w == [s EXCEPT !.loop = l]
<1>1. Good(s) /\ Told(s) /\ s \in Session BY Now
<1>2. l \in LoopRecord BY <1>1 DEF Session, LoopRecord
<1>3. [s EXCEPT !.loop.wake = FALSE] = w BY <1>1 DEF Session, LoopRecord
<1>4. Work(Iterated(s)) \/ Work(Iterated(w)) BY <1>3 DEF LoopIteration
<1>5. /\ w.live = s.live /\ w.out = s.out /\ w.resp = s.resp /\ w.inp = s.inp /\ w.int = s.int
  BY <1>1 DEF Session
<1>6. Good(w) BY <1>1, <1>2, LoopEdit
<1> HIDE DEF w
<1>7. Told(w) BY <1>1, <1>5 DEF Told, Pending
<1>8. ASSUME NEW r \in {s, w}
      PROVE  Fine(Iterated(r), s) /\ Iterated(r).inp.active = s.inp.active
  <2> DEFINE d == CheckEndpoint(PrepareInterruption(r))
             q == Iterated(r)
  <2>1. Good(r) /\ Told(r) BY <1>1, <1>6, <1>7
  <2>2. Fine(d, r) /\ d.inp.active = r.inp.active BY <2>1, IterationFine
  <2>3. /\ q.live = d.live /\ q.out = d.out /\ q.inp = d.inp /\ q.int = d.int
        /\ q.resp = d.resp
    BY <2>1, IteratedGood
  <2> HIDE DEF d, q
  <2>4. Fine(q, r) BY <2>2, <2>3, SameEnd
  <2>5. Spoken(q, r) => Spoken(q, s) BY <1>5, SameStart
  <2>6. Answered(q, r) => Answered(q, s) BY <1>5, SameStart
  <2>7. Judged(q, r) => Judged(q, s) BY <1>5 DEF Judged, SameSpeech, Pending
  <2>8. Fine(q, s) BY <1>5, <2>4, <2>5, <2>6, <2>7 DEF Fine
  <2> QED BY <1>5, <2>2, <2>3, <2>8 DEF q
<1> QED BY <1>4, <1>8, WorkSteps

\* runInput receives a detector result: a counted one may end the turn.
LEMMA DetectorResultSteps ==
  ASSUME HInv, NEW outcome \in {"error", "complete", "incomplete"}, DetectorResult(outcome)
  PROVE  Step
<1> DEFINE r == [s EXCEPT !.inp.detect = "none", !.loop = Back]
           c == IF outcome # "error" THEN InterruptionChanged(r) ELSE r
           k == CommitTurn(c)
           w == [c EXCEPT !.inp.state = "waiting"]
<1>1. Good(s) /\ Told(s) /\ s \in Session BY Now
<1>2. /\ r \in Session /\ r.out = s.out /\ r.int = s.int /\ r.live = s.live /\ r.resp = s.resp
      /\ r.inp.state = s.inp.state /\ r.inp.turn = s.inp.turn
      /\ r.inp.active = s.inp.active /\ r.inp.realtime = s.inp.realtime
      /\ r.inp.end = s.inp.end /\ r.inp.minDue = s.inp.minDue /\ r.inp.maxDue = s.inp.maxDue
      /\ r.inp.ready = s.inp.ready /\ r.inp.detect = "none"
  BY <1>1, BackType DEF Session, InputRecord, Jobs, HInv
<1>3. \/ Work(r)
      \/ s.inp.end /\ (Work(c) \/ Work(k) \/ Work(w))
  BY DEF DetectorResult, r, c, k, w
<1> HIDE DEF r
<1>4. Good(r)
  BY <1>1, <1>2 DEF Good, OwnsOutput, PausedIsPending, EndConsistent, Pending,
     RealtimeActive, InSpeechTurn
<1>5. /\ Good(c) /\ c \in Session /\ c.live = r.live /\ c.inp = r.inp /\ c.out = r.out
      /\ c.resp = r.resp /\ c.int.state = r.int.state
      /\ \/ Revised(c, r) /\ Pending(r)
         \/ c.int = r.int
  BY <1>4, ChangedGood DEF Good, Follows
<1> HIDE DEF c
<1>6. /\ c.inp.active = s.inp.active /\ c.live = s.live /\ c.out = s.out /\ c.resp = s.resp
      /\ FloorOf(c) = FloorOf(s) /\ (Pending(c) <=> Pending(s))
      /\ c.inp.end = s.inp.end /\ (c.inp.state = "speaking" <=> s.inp.state = "speaking")
      /\ \/ Revised(c, s) /\ Pending(s)
         \/ c.int = s.int
  BY <1>2, <1>5 DEF FloorOf, Pending, Revised
<1>7. Fine(r, s)
  BY <1>2, EditFine DEF SameGeneration, FloorOf, SameSpeech
<1>8. ASSUME NEW q, q.live = c.live, q.out = c.out, q.resp = c.resp, q.int = c.int,
             FloorOf(q) = FloorOf(c), q.inp.state = "speaking" <=> c.inp.state = "speaking"
      PROVE  Fine(q, s)
  BY <1>1, <1>6, <1>8, UnseenFine
     DEF SameGeneration, SameTurn, SameSpeech, Revised, Pending
<1>9. CASE Work(c)
  <2>1. Fine(c, s) BY <1>8
  <2> QED BY <1>6, <1>9, <2>1, WorkSteps
<1>10. CASE s.inp.end /\ Work(w)
  <2>1. /\ w.live = c.live /\ w.out = c.out /\ w.resp = c.resp /\ w.int = c.int
        /\ w.inp.active = c.inp.active /\ w.inp.state = "waiting" /\ w.inp.end = c.inp.end
    BY <1>5 DEF Session, InputRecord
  <2> HIDE DEF w
  <2>2. FloorOf(w) = "ended" /\ FloorOf(s) = "ended" /\ s.inp.state # "speaking"
    BY <1>1, <1>6, <1>10, <2>1, Floors DEF FloorOf
  <2>3. Fine(w, s) BY <1>6, <1>8, <2>1, <2>2
  <2> QED BY <1>6, <1>10, <2>1, <2>3, WorkSteps
<1>11. CASE s.inp.end /\ Work(k)
  <2>1. k.live = c.live /\ Committed(k, c) BY <1>5, <1>6, <1>11, CommitGood DEF Follows
  <2> HIDE DEF k
  <2>2. k.inp.active = s.inp.active BY <1>6, <2>1 DEF Committed
  <2>3. CASE Pending(s)
    <3>1. /\ k.out = c.out /\ k.resp = c.resp /\ k.int = c.int /\ FloorOf(k) = FloorOf(c)
          /\ k.inp.state = "speaking" <=> c.inp.state = "speaking"
      BY <1>6, <2>1, <2>3 DEF Committed, SameFloor, FloorOf
    <3>2. Fine(k, s) BY <1>8, <2>1, <3>1
    <3> QED BY <1>11, <2>2, <3>2, WorkSteps
  <2>4. CASE ~Pending(s)
    <3>1. c.int = s.int BY <1>6, <2>4
    <3>2. Committed(k, s)
      BY <1>6, <2>1, <2>4, <3>1 DEF Committed, Asked
    <3>3. Fine(k, s) BY <1>1, <1>6, <1>11, <2>1, <3>2, CommittedFine
    <3> QED BY <1>11, <2>2, <3>3, WorkSteps
  <2> QED BY <2>3, <2>4
<1>12. CASE Work(r) BY <1>2, <1>7, <1>12, WorkSteps
<1> QED BY <1>3, <1>9, <1>10, <1>11, <1>12

\* runInput receives a classifier result: a counted one may resume or cancel
\* the output, on the evidence it was given.
LEMMA ClassifierResultSteps ==
  ASSUME HInv, NEW kind, ClassifierResult(kind)
  PROVE  Step
<1> DEFINE r == [s EXCEPT !.int.classify = "none", !.loop = Back]
           k == Confirm(r)
           v == Recover(r)
<1>1. Good(s) /\ Told(s) /\ s \in Session /\ s.int.classify \in Jobs BY Now, Numbers
<1>2. /\ r \in Session /\ r.out = s.out /\ r.inp = s.inp /\ r.live = s.live /\ r.resp = s.resp
      /\ r.int.state = s.int.state /\ r.int.gen = s.int.gen /\ r.int.id = s.int.id
      /\ r.int.classify = "none"
  BY <1>1, BackType DEF Session, InterruptionRecord, Jobs, HInv
<1>3. \/ Work(r)
      \/ Work(k) /\ Pending(s)
      \/ /\ Work(v) /\ Pending(s) /\ s.inp.state # "speaking" /\ ~s.int.resumed
         /\ s.int.classify \notin {"none", "stale"}
  BY DEF ClassifierResult, r, k, v
<1> HIDE DEF r
<1>4. Good(r) /\ Told(r) /\ (Pending(r) <=> Pending(s))
  BY <1>1, <1>2 DEF Good, Told, OwnsOutput, PausedIsPending, EndConsistent, Pending,
     RealtimeActive, InSpeechTurn
<1>5. CASE Work(r)
  <2>1. Fine(r, s)
    BY <1>1, <1>2, <1>4, UnseenFine DEF SameGeneration, SameTurn, FloorOf
  <2> QED BY <1>2, <1>5, <2>1, WorkSteps
<1>6. CASE Work(k) /\ Pending(s)
  <2>1. Confirmed(k, r) /\ k.live = r.live BY <1>4, <1>6, ConfirmGood DEF Follows
  <2> HIDE DEF k
  <2>2. Fine(k, r) BY <1>4, <2>1, ConfirmedFine
  <2>3. Spoken(k, r) => Spoken(k, s) BY <1>2, SameStart
  <2>4. Answered(k, r) => Answered(k, s) BY <1>2, SameStart
  <2>5. Judged(k, s) BY <1>2, <2>1 DEF Judged, Confirmed, Revised, Outdated
  <2>6. Fine(k, s) BY <1>2, <2>2, <2>3, <2>4, <2>5 DEF Fine
  <2> QED BY <1>2, <1>6, <2>1, <2>6, WorkSteps DEF Confirmed
<1>7. CASE /\ Work(v) /\ Pending(s) /\ s.inp.state # "speaking" /\ ~s.int.resumed
           /\ s.int.classify \notin {"none", "stale"}
  <2>1. /\ Recovered(v, r) /\ v.live = r.live /\ ~Pending(v)
        /\ v.inp.active = r.inp.active
    BY <1>4, <1>7, RecoverGood DEF Follows
  <2> HIDE DEF v
  <2>2. Fine(v, r) BY <1>4, <2>1, RecoveredFine
  <2>3. Spoken(v, r) => Spoken(v, s) BY <1>2, SameStart
  <2>4. Answered(v, r) => Answered(v, s) BY <1>2, SameStart
  <2>5. s.int.classify = "fresh" BY <1>1, <1>7 DEF Jobs
  <2>6. Judged(v, s)
    BY <1>2, <1>7, <2>1, <2>5 DEF Judged, Recovered, Revised, Outdated
  <2>7. Fine(v, s) BY <1>2, <2>2, <2>3, <2>4, <2>6 DEF Fine
  <2> QED BY <1>2, <1>7, <2>1, <2>7, WorkSteps
<1> QED BY <1>3, <1>5, <1>6, <1>7

\* runInput returns, after the session ended.
LEMMA LoopExitSteps ==
  ASSUME HInv, LoopExit
  PROVE  Step
<1> DEFINE i == InvalidateInterruption(s)
           q == [i EXCEPT !.loop = [@ EXCEPT !.exited = TRUE, !.top = FALSE]]
<1>1. Good(s) /\ Told(s) /\ s \in Session /\ ~s.live BY Now DEF LoopExit
<1>2. /\ i \in Session /\ i.live = s.live /\ i.out = s.out /\ i.inp = s.inp
      /\ i.resp = s.resp /\ Revised(i, s) /\ i.int.state = "idle"
  BY <1>1, InvalidateEffect DEF Follows
<1>3. Work(q) BY DEF LoopExit
<1> HIDE DEF i
<1>4. /\ q.live = i.live /\ q.out = i.out /\ q.inp = i.inp /\ q.int = i.int /\ q.resp = i.resp
  BY <1>2 DEF Session
<1> HIDE DEF q
<1>5. Answered(q, s) BY <1>1, <1>2, <1>4, Numbers DEF Answered, Told
<1>6. Judged(q, s) BY <1>1, <1>2, <1>4, Numbers, Outdating DEF Judged, Revised
<1>7. Fine(q, s) BY <1>1, <1>2, <1>4, <1>5, <1>6 DEF Fine
<1> QED BY <1>2, <1>3, <1>4, <1>7, WorkSteps

\* A delay passes.
LEMMA TimeSteps ==
  ASSUME HInv, Time
  PROVE  Step
<1> DEFINE a == [s EXCEPT !.inp.minDue = TRUE]
           b == [s EXCEPT !.inp.maxDue = TRUE]
           d == [s EXCEPT !.int.decisionDue = TRUE]
           n == [s EXCEPT !.int.notBeforeDue = TRUE]
<1>1. Work(a) \/ Work(b) \/ Work(d) \/ Work(n)
  BY DEF Time, MinDelayElapses, MaxDelayElapses, DecisionWindowElapses, NotBeforeElapses,
     Elapse
<1>2. ASSUME NEW q \in {a, b}
      PROVE  /\ q.live = s.live /\ q.out = s.out /\ q.int = s.int /\ q.resp = s.resp
             /\ SameFloor(q, s)
  BY <1>2, Now DEF Session, InputRecord, SameFloor
<1>3. ASSUME NEW q \in {d, n}
      PROVE  /\ q.live = s.live /\ q.out = s.out /\ q.inp = s.inp /\ q.resp = s.resp
             /\ SameQuestion(q, s)
  BY <1>3, Now DEF Session, InterruptionRecord, SameQuestion
<1> HIDE DEF a, b, d, n
<1>4. ASSUME NEW q \in {a, b, d, n} PROVE Fine(q, s) /\ q.inp.active = s.inp.active
  <2>1. q.live = s.live /\ q.out = s.out /\ q.resp = s.resp /\ SameFloor(q, s)
        /\ SameQuestion(q, s)
    BY <1>2, <1>3, <1>4 DEF SameFloor, SameQuestion
  <2> QED BY <2>1, EditFine DEF SameFloor, SameQuestion, SameGeneration, SameSpeech, FloorOf
<1> QED BY <1>1, <1>4, WorkSteps

\* The session context is cancelled.
LEMMA DisconnectSteps ==
  ASSUME HInv, Disconnect
  PROVE  Step
<1> DEFINE q == [s EXCEPT !.live = FALSE]
<1>1. Good(s) /\ Told(s) /\ s \in Session /\ s.live BY Now DEF Disconnect
<1>2. /\ q.out = s.out /\ q.inp = s.inp /\ q.int = s.int /\ q.resp = s.resp /\ ~q.live
  BY <1>1 DEF Session
<1>3. Work(q) BY DEF Disconnect
<1> HIDE DEF q
<1>4. Answered(q, s) BY <1>1, <1>2, Numbers DEF Answered, Told
<1>5. Judged(q, s) BY <1>1, <1>2 DEF Judged, SameSpeech, Told, Pending
<1>6. Fine(q, s) BY <1>1, <1>2, <1>4, <1>5 DEF Fine
<1> QED BY <1>2, <1>3, <1>6, WorkSteps

-----------------------------------------------------------------------------

\* Every message of the client is a step of the promise.
LEMMA ClientSteps ==
  ASSUME HInv, Client
  PROVE  Step
<1>1. s.out.made \in Nat BY Now DEF Session, OutputRecord
<1>2. ASSUME NEW b \in BOOLEAN, CancelInput(b) \/ EndSpeech(b) \/ CreateGeneration(b)
      PROVE  Step
  BY <1>2, CancelInputSteps, EndSpeechSteps, CreateGenerationSteps
<1>3. ASSUME NEW g \in 0..s.out.made, NEW id \in Tokens \cup {NoToken},
             \/ ClientCancels(g) \/ PlaybackFailed(g, id) \/ PlaybackProgress(g)
             \/ SpeechStart(g, id)
             \/ id \in Tokens /\ InterruptionMessage(g, id)
      PROVE  Step
  <2>1. g \in Nat BY <1>1, <1>3
  <2>2. CASE ClientCancels(g) BY <2>2, ClientCancelsSteps
  <2>3. CASE PlaybackFailed(g, id) BY <2>3, PlaybackFailedSteps
  <2>4. CASE PlaybackProgress(g) BY <2>4, PlaybackProgressSteps
  <2>5. CASE SpeechStart(g, id) BY <2>1, <2>5, SpeechStartSteps
  <2>6. CASE id \in Tokens /\ RequestInterruption(g, id)
    BY <2>1, <2>6, RequestInterruptionSteps
  <2>7. CASE PlaybackPaused(g, id) BY <2>7, PlaybackPausedSteps
  <2> QED BY <1>3, <2>2, <2>3, <2>4, <2>5, <2>6, <2>7 DEF InterruptionMessage
<1>4. \/ StartRealtimeInput \/ StartInputAudio \/ AppendInputAudio \/ AppendRealtimeAudio
      \/ CommitInputAudio \/ ManualResponseContext \/ CommitText
      \/ \E b \in BOOLEAN : CancelInput(b) \/ EndSpeech(b) \/ CreateGeneration(b)
      \/ \E g \in 0..s.out.made, id \in Tokens \cup {NoToken} :
            \/ ClientCancels(g) \/ PlaybackFailed(g, id) \/ PlaybackProgress(g)
            \/ SpeechStart(g, id)
            \/ id \in Tokens /\ InterruptionMessage(g, id)
  BY <1>1 DEF Client
<1> QED BY <1>2, <1>3, <1>4, StartRealtimeInputSteps, StartInputAudioSteps,
     AppendInputAudioSteps, AppendRealtimeAudioSteps, CommitInputAudioSteps,
     ManualResponseContextSteps, CommitTextSteps

\* Every action is a step of the promise.
LEMMA NextSteps ==
  ASSUME HInv, Next
  PROVE  Step
<1>1. CASE Client BY <1>1, ClientSteps
<1>2. CASE Workers
  <2>1. CASE \E c \in 1..MaxCtx, b \in BOOLEAN : TranscriptReady(c, b)
    BY <2>1, TranscriptReadySteps
  <2>2. CASE \E b, textOnly \in BOOLEAN : TextResponse(b, textOnly)
    BY <2>2, TextResponseSteps
  <2> QED
    BY <1>2, <2>1, <2>2, OutputGoesOnSteps, OutputEndsSteps, SupplySemanticSteps DEF Workers
<1>3. CASE Loop
  BY <1>3, LoopIterationSteps, LoopExitSteps, DetectorResultSteps, ClassifierResultSteps
     DEF Loop
<1> QED BY <1>1, <1>2, <1>3, TimeSteps, DisconnectSteps, OutputEndsSteps DEF Next

\* A new session has told nobody anything.
LEMMA InitHInv == Init => HInv
<1> SUFFICES ASSUME Init PROVE HInv OBVIOUS
<1>1. IInv BY InitIInv
<1> QED BY <1>1 DEF Init, HInv, Told

\* A step of the session and a stutter both keep HInv.
LEMMA NextKeeps ==
  ASSUME HInv, IInv', [Next]_vars
  PROVE  HInv'
<1>1. CASE Next BY <1>1, NextSteps, StepKeeps
<1>2. CASE UNCHANGED vars BY <1>2 DEF vars, HInv, Told, Pending
<1> QED BY <1>1, <1>2

\* What the history variables remember is true in every reachable state.
THEOREM HistoryInductive == Spec => []HInv
<1>1. Init => HInv BY InitHInv
<1>2. HInv /\ IInv' /\ [Next]_vars => HInv' BY NextKeeps
<1> QED BY <1>1, <1>2, Inductive, PTL DEF Spec

\* The session implements TurnTaking: whatever order handlers, timers, inferences
\* and workers take Session.mu in, output is held only for a user who has the
\* floor, a hold ends by resuming that very output and dropping the turn or by
\* silencing it, and only an ended turn is committed, never in a hold.
THEOREM SessionImplementsTurnTaking == Spec => ImplementsTurnTaking
<1>1. Init => Promise!Init BY DEF Init, Promise!Init, Floor, Pending
<1>2. HInv /\ IInv' /\ [Next]_vars => [Promise!Next]_(Promise!vars)
  <2> SUFFICES ASSUME HInv, IInv', [Next]_vars PROVE [Promise!Next]_(Promise!vars) OBVIOUS
  <2>1. CASE Next BY <2>1, NextSteps, StepPromised
  <2>2. CASE UNCHANGED vars
    <3>1. s' = s BY <2>2 DEF vars
    <3>2. UNCHANGED Promise!vars BY <3>1 DEF Promise!vars, Floor, Pending
    <3> QED BY <3>2
  <2> QED BY <2>1, <2>2
<1> QED BY <1>1, <1>2, Inductive, HistoryInductive, PTL
        DEF Spec, ImplementsTurnTaking, Promise!Spec

\* The handler that commits a turn leaves it answerable: a confirmation cancels
\* the old output before it commits, not after (confirmInterruptionLocked).
THEOREM CommittedTurnAnswerable == Spec => CommittedTurnIsAnswerable
<1>1. HInv /\ [Next]_vars => [s'.resp.ctx # s.resp.ctx /\ s'.live => s'.resp.live]_vars
  <2> SUFFICES ASSUME HInv, Next, s'.resp.ctx # s.resp.ctx, s'.live PROVE s'.resp.live
    OBVIOUS
  <2>1. Fine(s', s) BY NextSteps DEF Step
  <2>2. Asked(s', s) BY <2>1 DEF Fine, Answered
  <2> QED BY <2>1, <2>2, Now, Numbers DEF Fine, Asked
<1> QED BY <1>1, HistoryInductive, PTL DEF Spec, CommittedTurnIsAnswerable

\* Text recognised for a context that later speech, an input cancellation or a
\* generation cancellation overtook never starts a generation (session.go 99).
THEOREM SupersededTurnUnanswered == Spec => NoAnswerToSupersededTurn
<1>1. HInv /\ [Next]_vars =>
         [s'.out.made # s.out.made => (s.resp.jobs \ s'.resp.jobs) \cap superseded = {}]_vars
  <2> SUFFICES ASSUME HInv, Next, s'.out.made # s.out.made
               PROVE  (s.resp.jobs \ s'.resp.jobs) \cap superseded = {}
    OBVIOUS
  <2>1. \/ s'.resp.jobs = s.resp.jobs
        \/ s.resp.live /\ s'.resp.jobs = s.resp.jobs \ {s.resp.ctx}
    BY NextSteps DEF Step, Fine, Answered
  <2>2. s.resp.live => s.resp.ctx \notin superseded BY DEF HInv
  <2> QED BY <2>1, <2>2
<1> QED BY <1>1, HistoryInductive, PTL DEF Spec, NoAnswerToSupersededTurn

\* A classifier's answer resumes playback, and discards the user's audio, only
\* on evidence that still is the current speech (applyClassificationLocked).
THEOREM RecoveryOnCurrentEvidence == Spec => RecoveryNeedsCurrentEvidence
<1>1. HInv /\ [Next]_vars =>
         [/\ s.int.classify # "none" /\ s'.int.classify = "none"
          /\ Pending(s) /\ s'.int.state = "recovered"
          => evidence = "current" /\ s.inp.state # "speaking" /\ ~s.int.resumed]_vars
  <2> SUFFICES ASSUME HInv, Next, s.int.classify # "none", s'.int.classify = "none",
                      Pending(s), s'.int.state = "recovered"
               PROVE  evidence = "current" /\ s.inp.state # "speaking" /\ ~s.int.resumed
    OBVIOUS
  <2>1. Judged(s', s) BY NextSteps DEF Step, Fine
  <2> QED BY <2>1 DEF Judged, HInv
<1> QED BY <1>1, HistoryInductive, PTL DEF Spec, RecoveryNeedsCurrentEvidence
=============================================================================
