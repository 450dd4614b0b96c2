---------------------------- MODULE TurnControl ----------------------------
(***************************************************************************)
(* One session's turn taking: everything internal/realtime/session.go,    *)
(* input.go and interruption.go do under Session.mu, and the runInput      *)
(* goroutine that decides when a turn ended and what a suspected           *)
(* interruption was.                                                       *)
(*                                                                         *)
(* The session is one record s.  A "...Locked" helper of the code is an    *)
(* operator from sessions to sessions, and a handler composes them in the  *)
(* order of the source inside one action: Session.mu is held throughout.   *)
(* What is abstracted:                                                     *)
(*   - epoch and revision counters: an inference in flight is "fresh" when *)
(*     it carries the current counter and "stale" when not;                *)
(*   - clocks: a delay is a flag raised by a step of time;                 *)
(*   - the PCM buffer is a number of frames, a turn ID whether it is set;  *)
(*   - speculation, conversation items and text have their own modules.    *)
(* Operators marked "Fault" are variants a plausible bug would produce; no *)
(* action uses them.  They show that the properties can fail.              *)
(***************************************************************************)
EXTENDS Naturals, FiniteSets

CONSTANTS Tokens,      \* interruption IDs the client invents
          MaxGen,      \* bound: generations a session creates
          MaxCtx,      \* bound: response contexts (committed turns)
          PreRoll,     \* frames kept while nobody speaks
          TurnLimit    \* frames a turn may hold (MaxTurnDuration)

ASSUME BoundsAssumption == /\ MaxGen \in Nat /\ MaxCtx \in Nat
                           /\ PreRoll \in Nat \ {0} /\ TurnLimit \in Nat

NoToken == "no token"
ASSUME TokenAssumption == NoToken \notin Tokens

VARIABLES s,           \* the Session
          reader,      \* what the socket reader is in the middle of
          superseded,  \* history: contexts overtaken by speech or a cancel
          evidence     \* history: does the classifier judge current speech?

vars == <<s, reader, superseded, evidence>>

Jobs == {"none", "fresh", "stale"}
Milestones == {"min", "max", "decision", "notBefore"}
TurnStates == {"idle", "listening", "speaking", "possible_end", "waiting"}

\* generationID, generationDone and what the timeline says: no timeline
\* (text only), nothing left to play, or sent audio still to play.
OutputRecord == [gen: Nat, made: Nat, done: BOOLEAN,
                 audio: {"none", "drained", "queued"}, paused: BOOLEAN]
\* responseContext (contexts are numbered), whether it is still live, and the
\* contexts whose holder has yet to answer; each has one holder here.
ResponseRecord == [ctx: Nat, live: BOOLEAN, jobs: SUBSET Nat]
\* inputRuntime and the inputAudio fields.
InputRecord == [active: BOOLEAN, realtime: BOOLEAN, state: TurnStates, turn: BOOLEAN,
                buf: Nat, hasSpeech: BOOLEAN, end: BOOLEAN, minDue: BOOLEAN,
                maxDue: BOOLEAN, attempted: BOOLEAN, ready: BOOLEAN, detect: Jobs]
InterruptionRecord == [state: {"idle", "paused", "confirmed", "recovered"},
                       gen: Nat, id: Tokens \cup {NoToken}, resumed: BOOLEAN,
                       tried: BOOLEAN, decisionDue: BOOLEAN, notBeforeDue: BOOLEAN,
                       classify: Jobs]
\* runInput: the wake channel, whether it is about to run an iteration, what
\* its timer is armed for, and whether it returned.
LoopRecord == [wake: BOOLEAN, top: BOOLEAN, armed: SUBSET Milestones, exited: BOOLEAN]

Session == [live: BOOLEAN, out: OutputRecord, resp: ResponseRecord,
            inp: InputRecord, int: InterruptionRecord, loop: LoopRecord]

-----------------------------------------------------------------------------
(* Conditions                                                              *)

Pending(r) == r.int.state = "paused"
RealtimeActive(r) == r.inp.active /\ r.inp.realtime
\* A generation's context ends only with the session or when it is replaced.
GenerationLive(r) == r.out.gen # 0 /\ r.live
OutputRecoverable(r) == GenerationLive(r) /\ (~r.out.done \/ r.out.audio = "queued")
InSpeechTurn(r) == r.inp.state \in {"speaking", "possible_end", "waiting"}

-----------------------------------------------------------------------------
(* The Locked helpers                                                      *)

Outdated(job) == IF job = "none" THEN "none" ELSE "stale"

\* A token in the wake channel: what the timer is set for no longer matters.
Wake(r) == [r EXCEPT !.loop = [@ EXCEPT !.wake = TRUE, !.armed = {}]]

\* Fault: the epoch does not advance, so an old detector result still counts.
ResetEndpoint_SameEpoch(r) ==
    Wake([r EXCEPT !.inp = [@ EXCEPT !.end = FALSE, !.minDue = FALSE, !.maxDue = FALSE,
                                     !.attempted = FALSE, !.ready = FALSE]])

\* A new epoch: no end, no decision, and a detector result that no longer counts.
ResetEndpoint(r) ==
    Wake([r EXCEPT !.inp = [@ EXCEPT !.end = FALSE, !.minDue = FALSE, !.maxDue = FALSE,
                                     !.attempted = FALSE, !.ready = FALSE,
                                     !.detect = Outdated(r.inp.detect)]])

\* A new revision: the classifier's result no longer counts.
Revise(r) ==
    [r EXCEPT !.int = [@ EXCEPT !.tried = FALSE, !.classify = Outdated(r.int.classify)]]

\* The interruption is over; what it was waiting for is forgotten.
Settle(r, state) ==
    [Revise(r) EXCEPT !.int = [@ EXCEPT !.state = state, !.resumed = FALSE,
                                        !.decisionDue = FALSE, !.notBeforeDue = FALSE]]

InvalidateInterruption(r) == Wake(Settle(r, "idle"))

DropResponse(r) == [r EXCEPT !.resp.live = FALSE]

NewResponseContext(r) ==
    [r EXCEPT !.resp = [ctx |-> @.ctx + 1, live |-> r.live,
                        jobs |-> @.jobs \cup {@.ctx + 1}]]

\* Fault: the cancelled timeline stays paused.
CancelGeneration_StaysPaused(r) ==
    [DropResponse(InvalidateInterruption(r)) EXCEPT
        !.out = [@ EXCEPT !.gen = 0, !.done = FALSE, !.audio = "none"]]

\* The timeline that remains is unpaused, and read only for logging.
CancelGeneration(r) ==
    [DropResponse(InvalidateInterruption(r)) EXCEPT
        !.out = [@ EXCEPT !.gen = 0, !.done = FALSE, !.audio = "none", !.paused = FALSE]]

\* Fault: a new generation leaves the decision about the old one pending.
StartGeneration_KeepsInterruption(r, textOnly) ==
    IF ~r.live THEN r
    ELSE [r EXCEPT !.out = [gen |-> r.out.made + 1, made |-> r.out.made + 1,
                            done |-> FALSE,
                            audio |-> IF textOnly THEN "none" ELSE "drained",
                            paused |-> FALSE]]

StartGeneration(r, textOnly) ==
    IF ~r.live THEN r
    ELSE [InvalidateInterruption(r) EXCEPT
             !.out = [gen |-> r.out.made + 1, made |-> r.out.made + 1, done |-> FALSE,
                      audio |-> IF textOnly THEN "none" ELSE "drained",
                      paused |-> FALSE]]

\* Fault: the turn is committed although its interruption is undecided.
CommitTurn_WhilePending(r) ==
    LET e == ResetEndpoint([r EXCEPT !.inp.state = "listening"])
    IN  IF r.inp.buf = 0 THEN e
        ELSE [NewResponseContext(e) EXCEPT !.inp = [@ EXCEPT !.buf = 0, !.turn = FALSE]]

\* Fault: input does not return to listening for the next turn.
CommitTurn_StaysComplete(r) ==
    IF Pending(r) THEN [r EXCEPT !.inp.ready = TRUE]
    ELSE LET e == ResetEndpoint([r EXCEPT !.inp.state = "complete"])
         IN  IF r.inp.buf = 0 THEN e
             ELSE [NewResponseContext(e) EXCEPT !.inp = [@ EXCEPT !.buf = 0, !.turn = FALSE]]

\* A turn that ends while playback is only paused waits for that decision.
CommitTurn(r) ==
    IF Pending(r) THEN [r EXCEPT !.inp.ready = TRUE]
    ELSE LET e == ResetEndpoint([r EXCEPT !.inp.state = "listening"])
         IN  IF r.inp.buf = 0 THEN e
             ELSE [NewResponseContext(e) EXCEPT !.inp = [@ EXCEPT !.buf = 0, !.turn = FALSE]]

\* Fault: the held turn is committed before the old output is cancelled.
Confirm_CommitsFirst(r) ==
    CASE ~Pending(r) -> r
      [] Pending(r) /\ r.int.gen # r.out.gen -> InvalidateInterruption(r)
      [] OTHER ->
           LET c == [r EXCEPT !.int.state = "confirmed"]
               d == IF c.inp.ready THEN CommitTurn(c) ELSE c
           IN  [CancelGeneration(d) EXCEPT !.int.state = "confirmed"]

Confirm(r) ==
    CASE ~Pending(r) -> r
      [] Pending(r) /\ r.int.gen # r.out.gen -> InvalidateInterruption(r)
      [] OTHER ->
           LET c == [CancelGeneration(r) EXCEPT !.int.state = "confirmed"]
           IN  IF c.inp.ready THEN CommitTurn(c) ELSE c

\* Fault: playback resumes but the turn that caused the pause is kept.
Recover_KeepsTurn(r) ==
    CASE ~Pending(r) -> r
      [] Pending(r) /\ (r.int.gen # r.out.gen \/ ~GenerationLive(r)) ->
           InvalidateInterruption(r)
      [] OTHER -> Wake([Settle(r, "recovered") EXCEPT !.out.paused = FALSE])

Recover(r) ==
    CASE ~Pending(r) -> r
      [] Pending(r) /\ (r.int.gen # r.out.gen \/ ~GenerationLive(r)) ->
           InvalidateInterruption(r)
      [] OTHER ->
           ResetEndpoint([Settle(r, "recovered") EXCEPT
               !.out.paused = FALSE,
               !.inp = [@ EXCEPT !.buf = 0, !.turn = FALSE, !.hasSpeech = FALSE,
                                 !.state = "listening"]])

\* Fault: the evidence changes but not the revision.
InterruptionChanged_SameRevision(r) ==
    IF Pending(r) THEN Wake([r EXCEPT !.int.notBeforeDue = ~r.inp.end]) ELSE r

\* Fault: the loop is not told.
InterruptionChanged_NoWake(r) ==
    IF Pending(r) THEN [Revise(r) EXCEPT !.int.notBeforeDue = ~r.inp.end] ELSE r

\* New evidence: judge again, 250ms after the end of the speech.
InterruptionChanged(r) ==
    IF Pending(r) THEN Wake([Revise(r) EXCEPT !.int.notBeforeDue = ~r.inp.end]) ELSE r

\* The client paused generation g under the token id, on suspicion.
Suspect(r, g, id, freshTurn) ==
    LET i == InvalidateInterruption(r)
        p == [i EXCEPT !.int = [@ EXCEPT !.gen = g, !.id = id, !.resumed = ~freshTurn,
                                         !.notBeforeDue = ~freshTurn]]
    IN  IF OutputRecoverable(r)
        THEN Wake([p EXCEPT !.int.state = "paused", !.out.paused = r.out.audio # "none"])
        ELSE Settle(p, "recovered")

BeginInterruption(r, g, id, freshTurn) ==
    IF ~r.live \/ ~RealtimeActive(r) \/ g = 0 \/ id = NoToken
       \/ g # r.out.gen \/ ~InSpeechTurn(r)
    THEN r
    ELSE IF Pending(r) /\ r.int.gen = g
         THEN IF r.int.id = id THEN r
              ELSE Confirm([r EXCEPT !.int = [@ EXCEPT !.id = id, !.resumed = TRUE]])
         ELSE Suspect(r, g, id, freshTurn)

-----------------------------------------------------------------------------
(* Init and the shape of every action                                      *)

Init ==
    /\ s = [live |-> TRUE,
            out |-> [gen |-> 0, made |-> 0, done |-> FALSE, audio |-> "none",
                     paused |-> FALSE],
            resp |-> [ctx |-> 0, live |-> FALSE, jobs |-> {}],
            inp |-> [active |-> FALSE, realtime |-> FALSE, state |-> "idle",
                     turn |-> FALSE, buf |-> 0, hasSpeech |-> FALSE, end |-> FALSE,
                     minDue |-> FALSE, maxDue |-> FALSE, attempted |-> FALSE,
                     ready |-> FALSE, detect |-> "none"],
            int |-> [state |-> "idle", gen |-> 0, id |-> NoToken, resumed |-> FALSE,
                     tried |-> FALSE, decisionDue |-> FALSE, notBeforeDue |-> FALSE,
                     classify |-> "none"],
            loop |-> [wake |-> FALSE, top |-> TRUE, armed |-> {}, exited |-> FALSE]]
    /\ reader = "idle"
    /\ superseded = {}
    /\ evidence = "none"

\* History of the evidence a classifier in flight was given: outdated as soon
\* as speech starts or ends, or another interruption is being judged.
EvidenceAfter ==
    IF s'.int.classify = "none" THEN "none"
    ELSE IF s.int.classify = "none" THEN "current"
    ELSE IF \/ (s'.inp.state = "speaking") # (s.inp.state = "speaking")
            \/ <<s'.int.gen, s'.int.id>> # <<s.int.gen, s.int.id>>
         THEN "outdated"
    ELSE evidence

\* The session becomes r.  Every context still unanswered is superseded when
\* the step overtakes it, and whenever it cancels the generation.
Become(r, overtakes) ==
    /\ s' = r
    /\ superseded' = s'.resp.jobs \cap
           IF overtakes \/ (s.out.gen # 0 /\ s'.out.gen = 0)
           THEN superseded \cup s.resp.jobs ELSE superseded
    /\ evidence' = EvidenceAfter

\* The socket reader handles one message at a time, and the message it is
\* handling when the session ends is its last.
NextMessage == IF s.live THEN "idle" ELSE "gone"
ReadMessage == reader = "idle" /\ reader' = NextMessage

Handle(r, overtakes) == ReadMessage /\ Become(r, overtakes)
Work(r) == Become(r, FALSE) /\ UNCHANGED reader

-----------------------------------------------------------------------------
(* Messages of the client                                                  *)

StartRealtimeInput ==
    /\ s.live /\ ~s.inp.active
    /\ Handle([ResetEndpoint(s) EXCEPT
                   !.inp = [@ EXCEPT !.active = TRUE, !.realtime = TRUE, !.buf = 0,
                                     !.state = "listening"]], FALSE)

StartInputAudio ==
    /\ ~RealtimeActive(s)
    /\ Handle([s EXCEPT !.inp = [@ EXCEPT !.active = TRUE, !.realtime = FALSE, !.buf = 0]],
              FALSE)

\* input_audio.stop (stop) and input_audio.cancel.
CancelledInput(stop) ==
    IF ~s.inp.realtime
    THEN [DropResponse(s) EXCEPT !.inp = [@ EXCEPT !.buf = 0, !.active = FALSE]]
    ELSE LET d == DropResponse(ResetEndpoint(Recover(s)))
         IN  [d EXCEPT !.inp = [@ EXCEPT
                 !.buf = 0, !.turn = FALSE, !.active = d.inp.active /\ ~stop,
                 !.state = IF stop THEN "idle"
                           ELSE IF d.inp.active THEN "listening" ELSE d.inp.state]]

CancelInput(stop) == Handle(CancelledInput(stop), TRUE)

\* Manual input past its limit is dropped like a stopped one.
AppendInputAudio ==
    /\ s.inp.active /\ ~s.inp.realtime
    /\ \/ s.inp.buf < TurnLimit /\ Handle([s EXCEPT !.inp.buf = @ + 1], FALSE)
       \/ s.inp.buf >= TurnLimit /\ Handle(CancelledInput(TRUE), TRUE)

AppendRealtimeAudio ==
    /\ RealtimeActive(s)
    /\ IF s.inp.state = "listening"
       THEN Handle([s EXCEPT !.inp.buf = IF @ < PreRoll THEN @ + 1 ELSE PreRoll], FALSE)
       ELSE IF s.inp.buf < TurnLimit
       THEN Handle([s EXCEPT !.inp.buf = @ + 1], FALSE)
       ELSE Handle([ResetEndpoint(Confirm(s)) EXCEPT
                       !.inp = [@ EXCEPT !.buf = 0, !.active = FALSE, !.state = "idle"]],
                   FALSE)

\* Fault: the answer to an earlier turn is left to start over the new speech.
TakeFloor_KeepsResponse(r, freshTurn) ==
    [ResetEndpoint(r) EXCEPT !.inp = [@ EXCEPT !.state = "speaking",
        !.turn = r.inp.turn \/ freshTurn, !.hasSpeech = r.inp.hasSpeech /\ ~freshTurn]]

\* Speech obsoletes the answer to an earlier turn and whatever end was awaited.
TakeFloor(r, freshTurn) ==
    [ResetEndpoint(DropResponse(r)) EXCEPT
        !.inp = [@ EXCEPT !.state = "speaking", !.turn = r.inp.turn \/ freshTurn,
                          !.hasSpeech = r.inp.hasSpeech /\ ~freshTurn]]

SpeechStart(g, id) ==
    /\ RealtimeActive(s) /\ s.inp.state # "speaking"
    /\ LET freshTurn == s.inp.state = "listening"
           t == TakeFloor(s, freshTurn)
           resumed == [t EXCEPT !.int = [@ EXCEPT
                          !.resumed = TRUE,
                          !.id = IF g = t.out.gen /\ id # NoToken THEN id ELSE t.int.id]]
       IN  /\ freshTurn => s.resp.ctx < MaxCtx
           /\ Handle(IF Pending(t) THEN Confirm(resumed)
                     ELSE BeginInterruption(t, g, id, freshTurn), TRUE)

\* input_audio.speech_end (valid) and input_audio.vad_misfire.
EndSpeech(valid) ==
    /\ RealtimeActive(s) /\ s.inp.state = "speaking"
    /\ IF ~valid /\ ~s.inp.hasSpeech
       THEN Handle(IF Pending(s) THEN Recover(s)
                   ELSE [ResetEndpoint(s) EXCEPT
                            !.inp = [@ EXCEPT !.buf = 0, !.turn = FALSE,
                                              !.state = "listening"]], FALSE)
       ELSE LET e == [s EXCEPT !.inp = [@ EXCEPT
                         !.hasSpeech = s.inp.hasSpeech \/ valid, !.end = TRUE, !.attempted = FALSE,
                         !.minDue = FALSE, !.maxDue = FALSE, !.state = "possible_end"]]
            IN  Handle(Wake(InterruptionChanged(e)), FALSE)

RequestInterruption(g, id) == Handle(BeginInterruption(s, g, id, FALSE), FALSE)

\* What the client reports played may be all that was sent.
Played(r) == [r EXCEPT !.out.audio = IF @ = "queued" THEN "drained" ELSE @]

PlaybackPaused(g, id) ==
    /\ Pending(s) /\ g = s.out.gen /\ id = s.int.id
    /\ \E r \in {s, Played(s)} :
          Handle([r EXCEPT !.out.paused = @ \/ r.out.audio # "none"], FALSE)

PlaybackProgress(g) == g = s.out.gen /\ GenerationLive(s) /\ Handle(Played(s), FALSE)

\* playback.overflow (no token) and interruption.failed.
PlaybackFailed(g, id) ==
    /\ g # 0 /\ g = s.out.gen
    /\ id # NoToken => id = s.int.id /\ g = s.int.gen
    /\ Handle(IF Pending(s) THEN Confirm(s) ELSE CancelGeneration(s), FALSE)

\* generation.cancel, with or without the generation it means.
ClientCancels(g) == g \in {0, s.out.gen} /\ Handle(CancelGeneration(s), TRUE)

CreateGeneration(textOnly) ==
    s.out.made < MaxGen /\ Handle(StartGeneration(DropResponse(s), textOnly), FALSE)

\* A manual commit takes the buffer, then asks for a context: two critical
\* sections of the reader.
CommitInputAudio ==
    /\ reader = "idle" /\ s.inp.active /\ ~s.inp.realtime /\ s.resp.ctx < MaxCtx
    /\ Become([s EXCEPT !.inp = [@ EXCEPT !.buf = 0, !.active = FALSE]], FALSE)
    /\ reader' = IF s.inp.buf = 0 THEN NextMessage ELSE "committed"

ManualResponseContext ==
    /\ reader = "committed"
    /\ Become(NewResponseContext(s), FALSE)
    /\ reader' = NextMessage

\* Text is refused while audio input is active; otherwise the reader itself
\* goes on to start the response.
CommitText ==
    /\ reader = "idle" /\ ~s.inp.active /\ s.resp.ctx < MaxCtx
    /\ Become(NewResponseContext(s), FALSE)
    /\ reader' = "text"

-----------------------------------------------------------------------------
(* Providers and workers                                                   *)

\* The holder of the context c hands in its text, if any: blank text, a failed
\* transcription and a conversation that takes no more start nothing.
Responded(c, hasText, textOnly) ==
    LET r == [s EXCEPT !.resp.jobs = @ \ {c}]
    IN  IF c # s.resp.ctx \/ ~s.resp.live \/ ~s.live \/ ~hasText THEN r
        ELSE StartGeneration(r, textOnly)

TranscriptReady(c, hasText) ==
    /\ c \in s.resp.jobs /\ (reader = "text" => c # s.resp.ctx)
    /\ s.live /\ s.out.made < MaxGen
    /\ Work(Responded(c, hasText, FALSE))

TextResponse(hasText, textOnly) ==
    /\ reader = "text" /\ s.out.made < MaxGen
    /\ Become(Responded(s.resp.ctx, hasText, textOnly), FALSE)
    /\ reader' = NextMessage

\* The generation's own worker: it sends audio, finishes once, or fails.
SendAudio ==
    /\ GenerationLive(s) /\ ~s.out.done /\ s.out.audio # "none"
    /\ Work([s EXCEPT !.out.audio = "queued"])

MarkGenerationDone ==
    GenerationLive(s) /\ ~s.out.done /\ Work([s EXCEPT !.out.done = TRUE])

OutputFails == s.out.gen # 0 /\ Work(CancelGeneration(s))

SupplySemantic == Pending(s) /\ s.int.gen = s.out.gen /\ Work(InterruptionChanged(s))

-----------------------------------------------------------------------------
(* runInput                                                                *)

\* Fault: only the classifier ends an interruption.
PrepareInterruption_NoDeadline(r) ==
    IF Pending(r) /\ r.int.classify = "none" /\ ~r.int.tried /\ r.int.notBeforeDue
    THEN [r EXCEPT !.int = [@ EXCEPT !.tried = TRUE, !.classify = "fresh"]]
    ELSE r

\* A suspected interruption is confirmed when its window closes and otherwise
\* judged once per revision.
PrepareInterruption(r) ==
    IF ~Pending(r) THEN r
    ELSE IF r.int.decisionDue THEN Confirm(r)
    ELSE IF r.int.classify = "none" /\ ~r.int.tried /\ r.int.notBeforeDue
    THEN [r EXCEPT !.int = [@ EXCEPT !.tried = TRUE, !.classify = "fresh"]]
    ELSE r

AwaitingEndpoint(r) == r.inp.end /\ ~r.inp.ready
CanDetect(r) == ~r.inp.attempted /\ r.inp.detect = "none"

\* Fault: once asked, only the detector ends the turn.
CheckEndpoint_TrustsDetector(r) ==
    IF ~AwaitingEndpoint(r) \/ r.inp.attempted THEN r
    ELSE IF r.inp.maxDue THEN CommitTurn(r)
    ELSE IF CanDetect(r) /\ r.inp.minDue
    THEN [r EXCEPT !.inp = [@ EXCEPT !.attempted = TRUE, !.state = "waiting",
                                     !.detect = "fresh"]]
    ELSE r

\* The turn is committed at the maximum delay; the detector is asked once
\* after the minimum delay.
CheckEndpoint(r) ==
    IF ~AwaitingEndpoint(r) THEN r
    ELSE IF r.inp.maxDue THEN CommitTurn(r)
    ELSE IF CanDetect(r) /\ r.inp.minDue
    THEN [r EXCEPT !.inp = [@ EXCEPT !.attempted = TRUE, !.state = "waiting",
                                     !.detect = "fresh"]]
    ELSE r

\* What the timer is set for once the iteration has made r of the session.
ArmedFor(r) ==
    {m \in Milestones :
        CASE m = "decision" -> Pending(r)
          [] m = "notBefore" -> Pending(r) /\ r.int.classify = "none" /\ ~r.int.tried
          [] m = "min" -> AwaitingEndpoint(r) /\ CanDetect(r)
          [] m = "max" -> AwaitingEndpoint(r) /\ ~CanDetect(r)}

Due(r, m) == CASE m = "min" -> r.inp.minDue
               [] m = "max" -> r.inp.maxDue
               [] m = "decision" -> r.int.decisionDue
               [] m = "notBefore" -> r.int.notBeforeDue

Iterated(r) ==
    LET d == CheckEndpoint(PrepareInterruption(r))
    IN  [d EXCEPT !.loop = [@ EXCEPT !.top = FALSE, !.armed = ArmedFor(d)]]

\* The loop returns to the top after a result, a wake-up or its timer.
LoopIteration ==
    /\ s.live
    /\ s.loop.top \/ s.loop.wake \/ \E m \in s.loop.armed : Due(s, m)
    /\ Work(Iterated(IF s.loop.top THEN s ELSE [s EXCEPT !.loop.wake = FALSE]))

\* Once the session ended the loop has only to exit, whatever it selects.
Selecting == s.live /\ ~s.loop.top
Back == [s.loop EXCEPT !.top = TRUE, !.armed = {}]

DetectorResult(outcome) ==
    /\ Selecting /\ s.inp.detect # "none"
    /\ LET r == [s EXCEPT !.inp.detect = "none", !.loop = Back]
           c == IF outcome # "error" THEN InterruptionChanged(r) ELSE r
       IN  Work(IF s.inp.detect = "stale" \/ ~s.inp.end THEN r
                ELSE CASE outcome = "error" -> c
                       [] outcome = "complete" -> CommitTurn(c)
                       [] outcome = "incomplete" -> [c EXCEPT !.inp.state = "waiting"])

\* "keep" stands for backchannel and false interruption, "failed" for an error
\* or an unknown decision.
ClassifierResult(kind) ==
    /\ Selecting /\ s.int.classify # "none"
    /\ LET r == [s EXCEPT !.int.classify = "none", !.loop = Back]
       IN  Work(IF s.int.classify = "stale" \/ ~Pending(s) \/ s.int.gen # s.out.gen
                THEN r
                ELSE IF s.int.decisionDue THEN Confirm(r)
                ELSE CASE kind = "ambiguous" -> r
                       [] kind = "keep" -> IF s.inp.state = "speaking" \/ s.int.resumed
                                           THEN Confirm(r) ELSE Recover(r)
                       [] OTHER -> Confirm(r))

LoopExit ==
    /\ ~s.live /\ ~s.loop.exited
    /\ Work([InvalidateInterruption(s) EXCEPT
                 !.loop = [@ EXCEPT !.exited = TRUE, !.top = FALSE]])

-----------------------------------------------------------------------------
(* Time and the end of the session                                         *)

Elapse(r) == s.live /\ Work(r)
MinDelayElapses == s.inp.end /\ ~s.inp.minDue /\ Elapse([s EXCEPT !.inp.minDue = TRUE])
MaxDelayElapses ==
    s.inp.minDue /\ ~s.inp.maxDue /\ Elapse([s EXCEPT !.inp.maxDue = TRUE])
DecisionWindowElapses ==
    Pending(s) /\ ~s.int.decisionDue /\ Elapse([s EXCEPT !.int.decisionDue = TRUE])
NotBeforeElapses ==
    Pending(s) /\ ~s.int.notBeforeDue /\ Elapse([s EXCEPT !.int.notBeforeDue = TRUE])

\* The socket fails, the client closes, or an event queue overflows.
Disconnect == s.live /\ Work([s EXCEPT !.live = FALSE])

CloseRuntime == ~s.live /\ Work(CancelGeneration(s))

-----------------------------------------------------------------------------

Time == MinDelayElapses \/ MaxDelayElapses \/ DecisionWindowElapses \/ NotBeforeElapses

InterruptionMessage(g, id) ==
    \/ RequestInterruption(g, id)
    \/ PlaybackPaused(g, id)

Client ==
    \/ StartRealtimeInput \/ StartInputAudio \/ AppendInputAudio \/ AppendRealtimeAudio
    \/ \E b \in BOOLEAN : CancelInput(b) \/ EndSpeech(b) \/ CreateGeneration(b)
    \/ CommitInputAudio \/ ManualResponseContext \/ CommitText
    \/ SpeechStart(0, NoToken)
    \/ \E g \in 0..s.out.made : ClientCancels(g) \/ PlaybackFailed(g, NoToken)
    \/ \E g \in 1..s.out.made : PlaybackProgress(g)
    \/ \E g \in 1..s.out.made, id \in Tokens :
          SpeechStart(g, id) \/ InterruptionMessage(g, id) \/ PlaybackFailed(g, id)

Workers ==
    \/ \E c \in 1..MaxCtx, b \in BOOLEAN : TranscriptReady(c, b)
    \/ \E b, textOnly \in BOOLEAN : TextResponse(b, textOnly)
    \/ SendAudio \/ MarkGenerationDone \/ OutputFails \/ SupplySemantic

Loop ==
    \/ LoopIteration \/ LoopExit
    \/ \E o \in {"error", "complete", "incomplete"} : DetectorResult(o)
    \/ \E k \in {"ambiguous", "keep", "interruption", "failed"} : ClassifierResult(k)

Next == Client \/ Workers \/ Loop \/ Time \/ Disconnect \/ CloseRuntime

Spec == Init /\ [][Next]_vars

\* The loop runs when it can and clocks advance.  Nothing is assumed of the
\* client, of a provider or of a worker.
LoopRuns == LoopIteration \/ LoopExit
EndpointClock == MinDelayElapses \/ MaxDelayElapses
Fairness == WF_vars(LoopRuns) /\ WF_vars(EndpointClock) /\ WF_vars(DecisionWindowElapses)

FairSpec == Spec /\ Fairness

-----------------------------------------------------------------------------
(* What the user is promised                                               *)

\* The session as TurnTaking sees it; when it has ended nothing is left.
Floor == IF ~s.live THEN "none"
         ELSE IF s.inp.state = "speaking" THEN "speaking"
         ELSE IF s.inp.end THEN "ended" ELSE "none"

Promise == INSTANCE TurnTaking WITH
               playing <- IF s.live THEN s.out.gen ELSE 0,
               held <- s.live /\ Pending(s),
               floor <- Floor,
               commits <- IF s.live THEN s.resp.ctx ELSE 0,
               closed <- ~s.live

-----------------------------------------------------------------------------
(* Properties                                                              *)

\* Every part of the session has its type.
TypeOK == /\ s \in Session
          /\ reader \in {"idle", "committed", "text", "gone"}
          /\ superseded \in SUBSET Nat
          /\ evidence \in {"none", "current", "outdated"}

OwnsOutput(r) == Pending(r) => /\ r.int.gen = r.out.gen /\ r.out.gen # 0
                               /\ RealtimeActive(r) /\ InSpeechTurn(r)

\* A pending interruption is always about the generation that is playing, in a
\* speech turn of active realtime input: no handler that replaces or cancels
\* the output, or ends the input, leaves a decision pending (interruption.go).
PendingOwnsOutput == OwnsOutput(s)

PausedIsPending(r) == r.out.paused => Pending(r) \/ ~r.live

\* The server never leaves playback paused without a pending decision that
\* will resume or cancel it (interruption.go, SetPaused in session.go).
PausedOnlyWhilePending == PausedIsPending(s)

EndConsistent(r) == /\ r.inp.ready \/ r.inp.minDue \/ r.inp.maxDue => r.inp.end
                    /\ r.inp.end <=> r.inp.state \in {"possible_end", "waiting"}
                    /\ InSpeechTurn(r) => r.inp.turn
                    /\ r.inp.state # "idle" <=> RealtimeActive(r)
                    /\ r.inp.detect = "fresh" => r.inp.end

\* The endpoint fields agree with the turn state the client was told: a
\* deadline runs exactly while an ended turn is undecided, that turn has an
\* ID, and a detector result still counted belongs to it (input.go).
EndpointConsistent == EndConsistent(s)

LoopCovers(r) ==
    (r.live /\ ~r.loop.top /\ ~r.loop.wake) =>
        ArmedFor(r) \subseteq r.loop.armed

\* No lost wake-up: while the input loop sleeps without a token in its wake
\* channel, its timer covers every deadline the state asks it to act on.
NoLostWakeup == LoopCovers(s)

\* The handler that commits a turn leaves it answerable: a confirmation cancels
\* the old output before it commits, not after (confirmInterruptionLocked).
CommittedTurnIsAnswerable ==
    [][s'.resp.ctx # s.resp.ctx /\ s'.live => s'.resp.live]_vars

\* Text recognised for a context that later speech, an input cancellation or a
\* generation cancellation overtook never starts a generation (session.go 99).
NoAnswerToSupersededTurn ==
    [][s'.out.made # s.out.made => (s.resp.jobs \ s'.resp.jobs) \cap superseded = {}]_vars

\* A classifier's answer resumes playback, and discards the user's audio, only
\* if no speech started or ended and no other interruption began since it was
\* asked (applyClassificationLocked).
RecoveryNeedsCurrentEvidence ==
    [][/\ s.int.classify # "none" /\ s'.int.classify = "none"
       /\ Pending(s) /\ s'.int.state = "recovered"
       => evidence = "current" /\ s.inp.state # "speaking" /\ ~s.int.resumed]_vars

\* Playback the server paused is resumed or cancelled, whatever the classifier
\* and the client do.
PausedPlaybackResolves == Pending(s) ~> ~Pending(s)

\* The endpoint of an ended turn is decided, whatever the detector does.
EndpointDecided == s.inp.end ~> ~s.inp.end \/ s.inp.ready \/ ~s.live

\* An ended turn does not stay undecided: it is committed or dropped at the
\* latest when the maximum delay is over (docs/realtime-input.md).
EndedTurnResolved == s.inp.end ~> ~s.inp.end \/ ~s.live

\* The session implements TurnTaking: output is held only for a user who has
\* the floor; a hold ends by resuming that output and dropping the turn, or by
\* stopping the output; only an ended turn is committed, and never in a hold.
ImplementsTurnTaking == Promise!Spec
=============================================================================
