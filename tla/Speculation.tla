----------------------------- MODULE Speculation -----------------------------
(***************************************************************************)
(* Speculative recognition and generation, internal/realtime/speculation.go *)
(* and internal/transport/http/speculation.go.  While an ended turn waits  *)
(* for its commitment a worker recognises it and asks the LLM; once the    *)
(* turn is committed the answerer (the goroutine consumeInputUpdates       *)
(* starts) adopts that work or, failing that, recognises the turn itself;  *)
(* the consumer (consumeLLMStream) reads what the worker buffered and goes *)
(* on producing.                                                           *)
(*                                                                         *)
(* Each step is one critical section of Session.mu, or the return of a     *)
(* provider together with the section that follows it.  Providers may      *)
(* answer, fail or, until their context ends, stay silent.  Deltas are     *)
(* numbered by the worker; what a fresh stream says is 0.  The endpoint,   *)
(* interruptions and playback are the business of TurnControl: here they   *)
(* are what they do to this module's state, at any time they may occur.    *)
(* Operators marked "Fault" are variants a plausible bug would produce; no *)
(* action uses them.                                                       *)
(***************************************************************************)
EXTENDS Naturals, Sequences, FiniteSets

CONSTANTS MaxAttempts,  \* MaxAttemptsPerTurn
          Buffer,       \* deltas a work may hold (MaxDeltaBytes, and 1024)
          MaxSpeech,    \* bound: speech_starts of a session
          MaxWorks,     \* bound: speculations started
          MaxGens,      \* bound: generations started
          MaxDeltas     \* bound: deltas of one stream

ASSUME SpeculationAssumption ==
    /\ MaxAttempts \in Nat \ {0} /\ Buffer \in Nat \ {0}
    /\ MaxSpeech \in Nat /\ MaxWorks \in Nat /\ MaxGens \in Nat /\ MaxDeltas \in Nat

VARIABLES input,    \* the turn being spoken, and how far it is
          work,     \* every speculativeWork started, with its worker
          current,  \* speculationRuntime.current, 0 when none
          ans,      \* the last response context and its answerer
          gen,      \* the current generation and its consumer
          hist,     \* version of the history a request would quote
          closed    \* the session's context has ended

vars == <<input, work, current, ans, gen, hist, closed>>

Works == 1..MaxWorks
Sleepers == {"answerer", "worker", "consumer"}

\* fresh: the key's turn and revision are still the input's.  asleep: who waits
\* on the channel the next notification closes.  snap: the history the LLM was
\* asked with.  starts: how often the user had begun to speak.
WorkRecord == [turn: 0..MaxSpeech, starts: 0..MaxSpeech, state: {"none", "open", "ended", "promoted"},
               fresh: BOOLEAN, committed: BOOLEAN, ready: BOOLEAN, empty: BOOLEAN,
               cancelled: BOOLEAN, timer: BOOLEAN, expired: BOOLEAN, snap: Nat,
               produced: 0..MaxDeltas, deltas: Seq(1..MaxDeltas),
               terminal: {"none", "eof", "error"}, asleep: SUBSET Sleepers,
               pc: {"none", "stt", "open", "recv", "full", "exiting", "exited"}]
AnswererRecord == [starts: 0..MaxSpeech, live: BOOLEAN, used: BOOLEAN, key: 0..MaxWorks,
                   pc: {"none", "promote", "wait", "waitDone", "stt", "gone"}]
GenRecord == [id: 0..MaxGens, live: BOOLEAN, work: 0..MaxWorks, final: BOOLEAN,
              request: Nat, stream: {"none", "spec", "fresh"}, out: Seq(0..MaxDeltas),
              rx: {"recv", "waiting", "ended", "failed"}]

NoWork == [turn |-> 0, starts |-> 0, state |-> "none", fresh |-> FALSE, committed |-> FALSE,
           ready |-> FALSE, empty |-> FALSE, cancelled |-> FALSE, timer |-> FALSE,
           expired |-> FALSE, snap |-> 0, produced |-> 0, deltas |-> <<>>,
           terminal |-> "none", asleep |-> {}, pc |-> "none"]

Init ==
    /\ input = [phase |-> "listening", turn |-> 0, starts |-> 0]
    /\ work = [w \in Works |-> NoWork]
    /\ current = 0
    /\ ans = [starts |-> 0, live |-> FALSE, used |-> FALSE, key |-> 0, pc |-> "none"]
    /\ gen = [id |-> 0, live |-> FALSE, work |-> 0, final |-> TRUE, request |-> 0,
              stream |-> "none", out |-> <<>>, rx |-> "ended"]
    /\ hist = 0
    /\ closed = FALSE

-----------------------------------------------------------------------------
(* Works                                                                   *)

\* notifyLocked.
Notified(k) == [k EXCEPT !.asleep = {}]

\* What is left of work whose context is cancelled.
Discarded(k) == Notified([k EXCEPT !.cancelled = TRUE, !.deltas = <<>>])

\* endSpeculationLocked.  Whatever else was known of the work nobody reads again:
\* it is forgotten here, so that equal states are one state.
Ended(k) ==
    IF k.state = "ended" THEN k
    ELSE Discarded([k EXCEPT !.state = "ended", !.timer = FALSE, !.expired = FALSE, !.snap = 0,
                             !.ready = FALSE, !.empty = FALSE, !.terminal = "none", !.produced = 0])

\* validSpeculationLocked.
Valid(w) ==
    /\ ~work[w].cancelled /\ ~closed
    /\ IF work[w].state = "promoted" THEN gen.live /\ gen.work = w
       ELSE current = w /\ (work[w].committed \/ work[w].fresh)

\* invalidateSpeculationLocked: adopted work belongs to its generation.
Invalidated(ws) ==
    IF current = 0 \/ ws[current].state = "promoted" THEN ws
    ELSE [ws EXCEPT ![current] = Ended(@)]

\* resetEndpointLocked: a new revision.
Revised(ws) == [w \in Works |-> [ws[w] EXCEPT !.fresh = FALSE]]

\* Fault: cancelled work makes room before its worker has exited.
Busy_UntilCancelled ==
    \E w \in Works : work[w].pc \notin {"none", "exited"} /\ ~work[w].cancelled

Busy == \E w \in Works : work[w].pc \notin {"none", "exited"}

Attempts(turn) == Cardinality({w \in Works : work[w].turn = turn})
Unused == {w \in Works : work[w].pc = "none"}
NextWork == CHOOSE w \in Unused : \A v \in Unused : w <= v

\* Fault: attempts are not counted.
StartSpeculation_Unlimited ==
    /\ input.phase = "ended" /\ ~closed
    /\ current # 0 => ~work[current].fresh
    /\ ~Busy
    /\ Unused # {}
    /\ current' = NextWork
    /\ work' = [work EXCEPT ![NextWork] =
                   [NoWork EXCEPT !.turn = input.turn, !.starts = input.starts,
                                  !.state = "open", !.fresh = TRUE, !.timer = TRUE,
                                  !.pc = "stt"]]
    /\ UNCHANGED <<input, ans, gen, hist, closed>>

\* startSpeculationLocked: the turn ended and the minimum delay passed.  It may
\* also decline (cooldown, a short interruption), which changes nothing.
StartSpeculation ==
    /\ input.phase = "ended" /\ ~closed
    /\ current # 0 => ~work[current].fresh
    /\ ~Busy /\ Attempts(input.turn) < MaxAttempts
    /\ Unused # {}
    /\ current' = NextWork
    /\ work' = [work EXCEPT ![NextWork] =
                   [NoWork EXCEPT !.turn = input.turn, !.starts = input.starts,
                                  !.state = "open", !.fresh = TRUE, !.timer = TRUE,
                                  !.pc = "stt"]]
    /\ UNCHANGED <<input, ans, gen, hist, closed>>

\* The clock passes started + Timeout...
Expire(w) ==
    /\ work[w].state = "open" /\ ~work[w].expired
    /\ work' = [work EXCEPT ![w].expired = TRUE]
    /\ UNCHANGED <<input, current, ans, gen, hist, closed>>

\* Fault: the timeout spares work whose turn was committed.
TimerFires_Uncommitted(w) ==
    /\ work[w].timer /\ work[w].expired
    /\ work' = [work EXCEPT ![w] =
                   [(IF current = w /\ ~@.cancelled /\ ~@.committed THEN Ended(@) ELSE @)
                       EXCEPT !.timer = FALSE]]
    /\ UNCHANGED <<input, current, ans, gen, hist, closed>>

\* ...and the timer's function gets the lock.
TimerFires(w) ==
    /\ work[w].timer /\ work[w].expired
    /\ work' = [work EXCEPT ![w] =
                   [(IF current = w /\ ~@.cancelled /\ @.state # "promoted" THEN Ended(@) ELSE @)
                       EXCEPT !.timer = FALSE]]
    /\ UNCHANGED <<input, current, ans, gen, hist, closed>>

-----------------------------------------------------------------------------
(* runSpeculation                                                          *)

Becomes(w, k) ==
    /\ work' = [work EXCEPT ![w] = k]
    /\ UNCHANGED <<input, current, ans, gen, hist, closed>>

\* The transcript: unusable, empty, or with an LLM to ask.
SttReturns(w) ==
    LET k == work[w]
    IN  /\ k.pc = "stt" /\ Valid(w)
        /\ \/ Becomes(w, [Ended(k) EXCEPT !.pc = "exiting"])
           \/ Becomes(w, [Notified(k) EXCEPT !.empty = TRUE, !.ready = TRUE,
                                             !.terminal = "eof", !.pc = "exiting"])
           \/ Becomes(w, [k EXCEPT !.snap = hist, !.pc = "open"])

LlmOpens(w) ==
    LET k == work[w]
    IN  /\ k.pc = "open" /\ Valid(w)
        /\ \/ Becomes(w, [Ended(k) EXCEPT !.pc = "exiting"])
           \/ Becomes(w, [Notified(k) EXCEPT !.ready = TRUE, !.pc = "recv"])

\* Fault: the limit is forgotten.
Buffered_Unlimited(k) == [Notified(k) EXCEPT !.deltas = Append(@, k.produced), !.pc = "recv"]

\* A delta in hand: buffered if there is room; otherwise adopted work waits and
\* other work is given up.
Buffered(k) ==
    IF Len(k.deltas) < Buffer
    THEN [Notified(k) EXCEPT !.deltas = Append(@, k.produced), !.pc = "recv"]
    ELSE IF k.state = "promoted"
         THEN [k EXCEPT !.asleep = @ \cup {"worker"}, !.pc = "full"]
    ELSE [Ended(k) EXCEPT !.pc = "exiting"]

LlmDelta(w) ==
    /\ work[w].pc = "recv" /\ Valid(w) /\ work[w].produced < MaxDeltas
    /\ Becomes(w, Buffered([work[w] EXCEPT !.produced = @ + 1]))

\* A delta no buffer can hold.
LlmOversized(w) ==
    LET k == work[w]
    IN  /\ k.pc = "recv" /\ Valid(w)
        /\ Becomes(w, IF k.state = "promoted"
                      THEN [Notified(k) EXCEPT !.terminal = "error", !.pc = "exiting"]
                      ELSE [Ended(k) EXCEPT !.pc = "exiting"])

LlmEnds(w, err) ==
    LET k == work[w]
    IN  /\ k.pc = "recv" /\ Valid(w)
        /\ Becomes(w, IF err = "error" /\ k.state # "promoted"
                      THEN [Ended(k) EXCEPT !.pc = "exiting"]
                      ELSE [Notified(k) EXCEPT !.terminal = err, !.pc = "exiting"])

\* The worker that waited for room is notified.
RoomWakes(w) ==
    /\ work[w].pc = "full" /\ "worker" \notin work[w].asleep /\ Valid(w)
    /\ Becomes(w, Buffered(work[w]))

\* Fault: a worker that waits for room does not look at its context.
GivesUp_AwaitsChange(w) ==
    /\ ~Valid(w)
    /\ \/ work[w].pc \in {"stt", "open", "recv"}
       \/ work[w].pc = "full" /\ "worker" \notin work[w].asleep
    /\ Becomes(w, [work[w] EXCEPT !.pc = "exiting"])

\* A provider returns, or a wait ends, to find the work discarded.
GivesUp(w) ==
    /\ ~Valid(w)
    /\ \/ work[w].pc \in {"stt", "open", "recv"}
       \/ work[w].pc = "full" /\ (work[w].cancelled \/ "worker" \notin work[w].asleep)
    /\ Becomes(w, [work[w] EXCEPT !.pc = "exiting"])

Exit(w) ==
    /\ work[w].pc = "exiting"
    /\ Becomes(w, [Notified(work[w]) EXCEPT !.pc = "exited"])

-----------------------------------------------------------------------------
(* What the rest of the session does to a speculation                      *)

Dropped(a) == [a EXCEPT !.live = FALSE]
Silenced == [gen EXCEPT !.live = FALSE, !.final = TRUE]

\* What history may be once the generation in progress is finalized: longer, if
\* part of it was heard.
HistoryAfter == IF gen.live /\ ~gen.final THEN {hist, hist + 1} ELSE {hist}

\* SpeechStart while listening begins a turn; before the turn is committed it
\* continues the same one.
Spoken == [phase |-> "speaking", starts |-> input.starts + 1,
           turn |-> IF input.phase = "listening" THEN input.starts + 1 ELSE input.turn]

\* Fault: speech that continues does not start a new revision.
SpeechStarts_SameRevision ==
    /\ ~closed /\ input.phase \in {"listening", "ended"} /\ input.starts < MaxSpeech
    /\ input' = Spoken
    /\ ans' = Dropped(ans)
    /\ UNCHANGED <<work, current, gen, hist, closed>>

SpeechStarts ==
    /\ ~closed /\ input.phase \in {"listening", "ended"} /\ input.starts < MaxSpeech
    /\ input' = Spoken
    /\ ans' = Dropped(ans)
    /\ work' = Revised(Invalidated(work))
    /\ UNCHANGED <<current, gen, hist, closed>>

SpeechEnds ==
    /\ ~closed /\ input.phase = "speaking"
    /\ input' = [input EXCEPT !.phase = "ended"]
    /\ UNCHANGED <<work, current, ans, gen, hist, closed>>

\* The detector failed or expects more.
ContinuationLikely ==
    /\ ~closed /\ input.phase = "ended"
    /\ work' = Invalidated(work)
    /\ UNCHANGED <<input, current, ans, gen, hist, closed>>

\* A misfire or a recovery drops the turn; input_audio.cancel and stop also the
\* answer to the turn before.
DropInput(cancel) ==
    /\ ~closed /\ (cancel \/ input.phase # "listening")
    /\ input' = [input EXCEPT !.phase = "listening", !.turn = 0]
    /\ ans' = IF cancel THEN Dropped(ans) ELSE ans
    /\ work' = Revised(Invalidated(work))
    /\ UNCHANGED <<current, gen, hist, closed>>

\* commitTurnLocked: valid work is committed with the turn.
CommitTurn ==
    LET key == IF current # 0 /\ Valid(current) /\ ~work[current].committed
               THEN current ELSE 0
    IN  /\ ~closed /\ input.phase = "ended"
        /\ work' = Revised(IF key = 0 THEN work
                           ELSE [work EXCEPT ![key].committed = TRUE])
        /\ ans' = [starts |-> input.starts, live |-> TRUE, used |-> FALSE, key |-> key,
                   pc |-> IF key = 0 THEN "stt" ELSE "promote"]
        /\ input' = [input EXCEPT !.phase = "listening", !.turn = 0]
        /\ UNCHANGED <<current, gen, hist, closed>>

\* CancelGeneration and CancelGenerationID: the client, or output that failed.
CancelGeneration ==
    /\ ~closed
    /\ hist' \in HistoryAfter
    /\ gen' = Silenced
    /\ ans' = Dropped(ans)
    /\ work' = Invalidated(work)
    /\ UNCHANGED <<input, current, closed>>

\* confirmInterruptionLocked: cancelGenerationLocked alone, so that what the
\* user is saying keeps its speculation.
ConfirmInterruption ==
    /\ ~closed /\ gen.live
    /\ hist' \in HistoryAfter
    /\ gen' = Silenced
    /\ ans' = Dropped(ans)
    /\ UNCHANGED <<input, work, current, closed>>

Began(w, stream, request) ==
    [id |-> gen.id + 1, live |-> TRUE, work |-> w, final |-> FALSE, request |-> request,
     stream |-> stream, out |-> <<>>, rx |-> "recv"]

\* StartGenerationMode: the client will supply the text.
CreateGeneration ==
    /\ ~closed /\ gen.id < MaxGens
    /\ hist' \in HistoryAfter
    /\ gen' = Began(0, "none", 0)
    /\ ans' = Dropped(ans)
    /\ work' = Invalidated(work)
    /\ UNCHANGED <<input, current, closed>>

\* The answer in progress becomes part of history: it was played to its end.
HistoryChanges ==
    /\ gen.live /\ ~gen.final
    /\ gen' = [gen EXCEPT !.final = TRUE]
    /\ hist' = hist + 1
    /\ UNCHANGED <<input, work, current, ans, closed>>

\* closeRuntime, or the connection is lost; workers are waited for.
Close ==
    /\ ~closed
    /\ closed' = TRUE
    /\ gen' = Silenced
    /\ ans' = Dropped(ans)
    /\ work' = [w \in Works |-> [work[w] EXCEPT !.cancelled = @ \/ work[w].pc # "none"]]
    /\ UNCHANGED <<input, current, hist>>

\* context.AfterFunc of an adoption: the generation is over.
AdoptionEnds(w) ==
    /\ work[w].state = "promoted" /\ ~work[w].cancelled
    /\ ~(gen.live /\ gen.work = w)
    /\ Becomes(w, [work[w] EXCEPT !.cancelled = TRUE])

\* speculativeStream.Close: the consumer of that generation returns.
CloseStream(w) ==
    /\ work[w].state = "promoted" /\ ~(gen.live /\ gen.work = w)
    /\ Becomes(w, Discarded(work[w]))

-----------------------------------------------------------------------------
(* The answerer: PromoteSpeculation, or ordinary recognition                *)

AnswererAt(pc) == ans' = [ans EXCEPT !.pc = pc]

\* Nothing to adopt: the context or the work is gone, or time is up.
PromotionFails ==
    LET w == ans.key
    IN  /\ ans.pc = "promote"
        /\ \/ /\ ~ans.live \/ ans.used
              /\ AnswererAt("gone") /\ UNCHANGED work
           \/ /\ ans.live /\ ~ans.used
              /\ \/ /\ current # w \/ work[w].state = "promoted"
                    /\ AnswererAt("stt") /\ UNCHANGED work
                 \/ /\ current = w /\ work[w].state # "promoted" /\ ~Valid(w)
                    /\ AnswererAt("waitDone") /\ UNCHANGED work
                 \/ /\ current = w /\ Valid(w) /\ work[w].expired
                    /\ work' = [work EXCEPT ![w] = Ended(@)] /\ UNCHANGED ans
        /\ UNCHANGED <<input, current, gen, hist, closed>>

PromotionWaits ==
    LET w == ans.key
    IN  /\ ans.pc = "promote" /\ ans.live /\ ~ans.used
        /\ current = w /\ work[w].state # "promoted" /\ Valid(w)
        /\ ~work[w].expired /\ ~work[w].ready
        /\ work' = [work EXCEPT ![w].asleep = @ \cup {"answerer"}]
        /\ AnswererAt("wait")
        /\ UNCHANGED <<input, current, gen, hist, closed>>

AnswererWakes ==
    /\ \/ ans.pc = "wait" /\ (~ans.live \/ "answerer" \notin work[ans.key].asleep)
          /\ AnswererAt(IF ans.live THEN "promote" ELSE "gone")
       \/ ans.pc = "waitDone" /\ (~ans.live \/ work[ans.key].pc = "exited")
          /\ AnswererAt(IF ans.live THEN "stt" ELSE "gone")
    /\ UNCHANGED <<input, work, current, gen, hist, closed>>

\* Fault: the history the work was based on is not compared.
AdoptText_AnyHistory(w, h) ==
    /\ gen.id < MaxGens
    /\ hist' = h
    /\ gen' = Began(w, "spec", h)
    /\ work' = [work EXCEPT ![w] = [@ EXCEPT !.state = "promoted", !.timer = FALSE]]

\* The generation begins with the adopted transcript, and with the adopted
\* answer if its request is the one a fresh answer would be based on.
AdoptText(w, h) ==
    LET k == [work[w] EXCEPT !.state = "promoted", !.timer = FALSE]
    IN  /\ gen.id < MaxGens
        /\ hist' = h
        /\ gen' = Began(w, IF k.snap = h THEN "spec" ELSE "fresh", h)
        /\ work' = [work EXCEPT ![w] = IF k.snap = h THEN k ELSE Discarded(k)]

Promote ==
    LET w == ans.key
    IN  /\ ans.pc = "promote" /\ ans.live /\ ~ans.used
        /\ current = w /\ work[w].state # "promoted" /\ Valid(w)
        /\ ~work[w].expired /\ work[w].ready
        /\ \/ /\ work[w].empty
              /\ work' = [work EXCEPT ![w].state = "promoted", ![w].timer = FALSE]
              /\ ans' = [ans EXCEPT !.used = TRUE, !.pc = "gone"]
              /\ UNCHANGED <<gen, hist>>
           \/ /\ ~work[w].empty
              /\ \E h \in HistoryAfter : AdoptText(w, h)
              /\ ans' = [ans EXCEPT !.used = TRUE, !.pc = "gone"]
           \/ /\ ~work[w].empty  \* the conversation rejects the transcript
              /\ work' = [work EXCEPT ![w] = Ended(@)]
              /\ AnswererAt("stt")
              /\ UNCHANGED <<gen, hist>>
        /\ UNCHANGED <<input, current, closed>>

\* transcribeInputAudio and startLLMGeneration: no transcript, or an answer.
Transcribed ==
    /\ ans.pc = "stt"
    /\ \/ AnswererAt("gone") /\ UNCHANGED <<gen, hist>>
       \/ /\ ans.live /\ ~ans.used /\ gen.id < MaxGens
          /\ ans' = [ans EXCEPT !.used = TRUE, !.pc = "gone"]
          /\ hist' \in HistoryAfter
          /\ gen' = Began(0, "fresh", hist')
    /\ UNCHANGED <<input, work, current, closed>>

-----------------------------------------------------------------------------
(* The consumer: promotedStream.Recv and speculativeStream.Recv             *)

Reading(w) == gen.live /\ gen.stream = "spec" /\ gen.work = w /\ gen.rx = "recv"

\* Fault: making room is not announced.
ReceiveDelta_Silent(w) ==
    /\ Reading(w) /\ Valid(w) /\ work[w].deltas # <<>>
    /\ gen' = [gen EXCEPT !.out = Append(@, Head(work[w].deltas))]
    /\ work' = [work EXCEPT ![w].deltas = Tail(@)]
    /\ UNCHANGED <<input, current, ans, hist, closed>>

ReceiveDelta(w) ==
    /\ Reading(w) /\ Valid(w) /\ work[w].deltas # <<>>
    /\ gen' = [gen EXCEPT !.out = Append(@, Head(work[w].deltas))]
    /\ work' = [work EXCEPT ![w] = [Notified(@) EXCEPT !.deltas = Tail(work[w].deltas)]]
    /\ UNCHANGED <<input, current, ans, hist, closed>>

ReceiveWaits(w) ==
    /\ Reading(w) /\ Valid(w) /\ work[w].deltas = <<>> /\ work[w].terminal = "none"
    /\ gen' = [gen EXCEPT !.rx = "waiting"]
    /\ work' = [work EXCEPT ![w].asleep = @ \cup {"consumer"}]
    /\ UNCHANGED <<input, current, ans, hist, closed>>

ReceiveWakes(w) ==
    /\ gen.live /\ gen.work = w /\ gen.rx = "waiting"
    /\ "consumer" \notin work[w].asleep \/ work[w].cancelled
    /\ gen' = [gen EXCEPT !.rx = "recv"]
    /\ UNCHANGED <<input, work, current, ans, hist, closed>>

\* Fault: the end of the stream is looked at before what is buffered.
ReceiveEof_First(w) ==
    /\ Reading(w) /\ Valid(w) /\ work[w].terminal = "eof"
    /\ gen' = [gen EXCEPT !.rx = "ended"]
    /\ work' = [work EXCEPT ![w] = Discarded(@)]
    /\ UNCHANGED <<input, current, ans, hist, closed>>

ReceiveEof(w) ==
    /\ Reading(w) /\ Valid(w) /\ work[w].deltas = <<>> /\ work[w].terminal = "eof"
    /\ gen' = [gen EXCEPT !.rx = "ended"]
    /\ work' = [work EXCEPT ![w] = Discarded(@)]
    /\ UNCHANGED <<input, current, ans, hist, closed>>

\* Fault: a stream that failed is always replaced.
ReceiveFails_AlwaysRetries(w) ==
    /\ Reading(w)
    /\ ~Valid(w) \/ (work[w].deltas = <<>> /\ work[w].terminal = "error")
    /\ gen' = [gen EXCEPT !.stream = "fresh"]
    /\ work' = [work EXCEPT ![w] = Discarded(@)]
    /\ UNCHANGED <<input, current, ans, hist, closed>>

\* The adopted stream fails: a fresh one takes over unless some of it was said.
ReceiveFails(w) ==
    /\ Reading(w)
    /\ ~Valid(w) \/ (work[w].deltas = <<>> /\ work[w].terminal = "error")
    /\ gen' = IF gen.out = <<>> THEN [gen EXCEPT !.stream = "fresh"]
              ELSE [gen EXCEPT !.rx = "failed"]
    /\ work' = [work EXCEPT ![w] = Discarded(@)]
    /\ UNCHANGED <<input, current, ans, hist, closed>>

\* A stream of the generation's own.
FreshStream ==
    /\ gen.live /\ gen.stream = "fresh" /\ gen.rx = "recv"
    /\ \/ /\ Len(gen.out) < MaxDeltas
          /\ gen' = [gen EXCEPT !.out = Append(@, 0)]
       \/ \E end \in {"ended", "failed"} : gen' = [gen EXCEPT !.rx = end]
    /\ UNCHANGED <<input, work, current, ans, hist, closed>>

-----------------------------------------------------------------------------

Session ==
    \/ SpeechStarts \/ SpeechEnds \/ ContinuationLikely
    \/ \E cancel \in BOOLEAN : DropInput(cancel)
    \/ StartSpeculation \/ CommitTurn
    \/ CancelGeneration \/ ConfirmInterruption \/ CreateGeneration
    \/ HistoryChanges \/ Close
Provider(w) ==
    \/ SttReturns(w) \/ LlmOpens(w) \/ LlmDelta(w) \/ LlmOversized(w)
    \/ \E err \in {"eof", "error"} : LlmEnds(w, err)
Clock(w) == Expire(w) \/ TimerFires(w)
Worker(w) == RoomWakes(w) \/ GivesUp(w) \/ Exit(w) \/ AdoptionEnds(w)
Answerer == PromotionFails \/ PromotionWaits \/ AnswererWakes \/ Promote
Consumer(w) ==
    \/ ReceiveDelta(w) \/ ReceiveWaits(w) \/ ReceiveWakes(w) \/ ReceiveEof(w)
    \/ ReceiveFails(w)

Next ==
    \/ Session \/ Answerer \/ Transcribed \/ FreshStream
    \/ \E w \in Works : Provider(w) \/ CloseStream(w) \/ Clock(w) \/ Worker(w) \/ Consumer(w)

Spec == Init /\ [][Next]_vars

\* Goroutines run and clocks advance; providers owe an answer only once their
\* context has ended (GivesUp).
FairSpec ==
    /\ Spec
    /\ WF_vars(Answerer)
    /\ \A w \in Works : /\ WF_vars(Clock(w)) /\ WF_vars(Worker(w))
                        /\ WF_vars(Consumer(w))

-----------------------------------------------------------------------------
(* Properties                                                              *)

\* Every variable keeps its type; a work never buffers more than its limit.
TypeOK ==
    /\ input \in [phase: {"listening", "speaking", "ended"}, turn: 0..MaxSpeech,
                  starts: 0..MaxSpeech]
    /\ \A w \in Works : work[w] \in WorkRecord /\ Len(work[w].deltas) <= Buffer
    /\ current \in 0..MaxWorks /\ ans \in AnswererRecord /\ gen \in GenRecord
    /\ hist \in Nat /\ closed \in BOOLEAN

\* The machine recognises one turn ahead at most: a cancelled worker that has
\* not returned still counts (busy, speculation.go:71).
OneWorker ==
    Cardinality({w \in Works : work[w].pc \notin {"none", "exited"}}) <= 1

\* However often the user resumes a turn, it is speculated on MaxAttempts times
\* at most (attemptTurn and attempts, speculation.go:187).
AttemptsBounded == \A t \in 1..MaxSpeech : Attempts(t) <= MaxAttempts

\* No wake-up is missed: whoever sleeps on a work's channel has nothing to do.
\* The channel is replaced at every notification, so a change made without one,
\* or between a check and the wait, would leave its sleeper there for good.
NoLostNotification ==
    \A w \in Works :
        LET k == work[w]
        IN  /\ gen.live /\ gen.work = w /\ gen.rx = "waiting"
                /\ "consumer" \in k.asleep /\ ~k.cancelled
               => k.deltas = <<>> /\ k.terminal = "none"
            /\ k.pc = "full" /\ "worker" \in k.asleep /\ ~k.cancelled
               => Len(k.deltas) = Buffer
            /\ ans.key = w /\ ans.pc = "wait" /\ ans.live /\ "answerer" \in k.asleep
               => ~k.ready /\ Valid(w)

\* The worker, its successor, the answerer and the consumer share works safely:
\* one recognition at a time, a bounded number for a turn, no wake-up missed.
WorkersSound == TypeOK /\ OneWorker /\ AttemptsBounded /\ NoLostNotification

\* Nothing of an answer is lost, repeated or reordered on its way through the
\* buffer, and an answer never mixes the adopted stream with the stream that
\* replaces it (promotedStream.emitted, http/speculation.go:51).
AnswerFromOneStream ==
    \/ \A i \in DOMAIN gen.out : gen.out[i] = 0
    \/ gen.out = [i \in DOMAIN gen.out |-> i]

\* An adopted answer that ended normally was read to its last delta.
AnswerComplete ==
    gen.stream = "spec" /\ gen.rx = "ended" =>
        gen.out = [i \in 1..work[gen.work].produced |-> i]

\* An adopted answer was asked for with the history the conversation has when
\* it is adopted, although that history may have changed since
\* (speculation.go:415).
AdoptedRequestCurrent == gen.stream = "spec" => work[gen.work].snap = gen.request

\* What the user hears of an adopted answer is that answer, whole and in order,
\* and an answer to the conversation as it is.
AnswerSound == AnswerFromOneStream /\ AnswerComplete /\ AdoptedRequestCurrent

\* What is adopted for a turn was recognised from all of that turn: the user has
\* not begun to speak between the snapshot of the audio and the commitment.
AdoptsWholeTurn ==
    [][\A w \in Works :
          work[w].state # "promoted" /\ work'[w].state = "promoted" =>
              work[w].committed /\ work[w].starts = ans.starts]_vars

\* Nobody waits for ever, whatever the providers do: the commitment of a turn
\* never hangs on its speculation (the answerer adopts it or turns to ordinary
\* recognition); a worker whose work was given up in any way returns, which
\* recognition ahead of later turns depends on (busy); and a worker that waits
\* for room in the buffer of adopted work is let go on.
NobodyWaitsForever ==
    /\ []<>(ans.pc \notin {"promote", "wait", "waitDone"})
    /\ \A w \in Works : /\ []<>(work[w].cancelled => work[w].pc \in {"none", "exited"})
                        /\ []<>(work[w].pc # "full")
=============================================================================
