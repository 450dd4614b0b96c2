----------------------------- MODULE SpeechText -----------------------------
(***************************************************************************)
(* How text reaches a generation's speech: internal/speech/pipeline.go with *)
(* its producers (consumeLLMStream, and the reader's handleTextDelta and   *)
(* handleTextDone) and its consumer (runSpeechPipeline) of                 *)
(* internal/transport/http/realtime.go, while generations start and end.   *)
(*                                                                         *)
(* Session.mu and each pipeline's mutex are locks: what takes no other lock *)
(* while it holds Session.mu is one step; starting and cancelling, which   *)
(* take the pipeline's too, are two.  Text is a sequence of units; where   *)
(* the chunker cuts is a choice here (module Chunker has the rule).        *)
(* Operators marked "Fault" are variants a plausible bug would produce; no *)
(* action uses them.                                                       *)
(***************************************************************************)
EXTENDS Naturals, FiniteSets, SequencesExt

CONSTANTS MaxGens,      \* bound: generations started
          MaxUnits,     \* bound: units of text accepted for a generation
          Kinds,        \* kinds of generation started: who writes it, speech or text
          Cap,          \* capacity of Pipeline.output (16)
          Unspeakable   \* may a text hold what the normaliser refuses?

ASSUME SpeechTextAssumption ==
    /\ MaxGens \in Nat /\ MaxUnits \in Nat /\ Cap \in Nat \ {0} /\ Unspeakable \in BOOLEAN
    /\ Kinds \subseteq {"llm", "llmText", "client", "clientText"}

VARIABLES
    last,      \* how many generations were started
    current,   \* Session.generationID and Session.pipeline, 0 when none
    alive,     \* the generations whose context was not cancelled
    textOnly,  \* the generations without speech
    textDone,  \* the generations whose LLMDone is set
    done,      \* the generations MarkGenerationDone accepted
    sent,      \* how many units were accepted for each generation
    mu,        \* what holds Session.mu while it waits for a pipeline's mutex
    pipe,      \* each generation's Pipeline
    llm,       \* where each generation's consumeLLMStream is
    voice,     \* where each generation's runSpeechPipeline is
    spoken,    \* the chunks runSpeechPipeline took
    rd,        \* what the reader is doing
    closed     \* the session's context has ended

session == <<last, current, alive, textOnly, textDone, done, sent, mu, closed>>
vars == <<session, pipe, llm, voice, spoken, rd>>

Gens == 1..MaxGens
\* A unit is its place in the text given to the pipeline.
Chunk == Seq(1..MaxUnits)

\* held: a blocking producer has the mutex, and still has to put "emitting" into
\* output.  pushed: the text the chunker was given; buffer: what it keeps.  from:
\* who gave it, or ended it.
PipelineRecord ==
    [held: BOOLEAN, closed: BOOLEAN, cancelled: BOOLEAN, pushed: Chunk, buffer: Chunk,
     emitting: Seq(Chunk), output: Seq(Chunk), from: SUBSET {"llm", "client"}]
NewPipeline == [held |-> FALSE, closed |-> FALSE, cancelled |-> FALSE, pushed |-> <<>>,
                buffer |-> <<>>, emitting |-> <<>>, output |-> <<>>, from |-> {}]
Idle == [pc |-> "idle", id |-> 0, pipe |-> 0]

Init ==
    /\ last = 0 /\ current = 0 /\ alive = {} /\ textOnly = {} /\ textDone = {}
    /\ done = {} /\ sent = [g \in Gens |-> 0]
    /\ mu = "free"
    /\ pipe = [g \in Gens |-> NewPipeline]
    /\ llm = [g \in Gens |-> "none"] /\ voice = [g \in Gens |-> "none"]
    /\ spoken = [g \in Gens |-> <<>>]
    /\ rd = Idle
    /\ closed = FALSE

-----------------------------------------------------------------------------
(* Under Session.mu                                                        *)

\* activeConversationGenerationLocked.
Active(g) == g # 0 /\ g = current /\ g \in alive /\ ~closed

\* AppendAssistantText: the generated text, then the text that was sent.
ContentTaken(g) == mu = "free" /\ Active(g) /\ g \notin textDone
SentTaken(g) ==
    /\ mu = "free" /\ Active(g) /\ sent[g] < MaxUnits
    /\ sent' = [sent EXCEPT ![g] = @ + 1]
    /\ UNCHANGED <<last, current, alive, textOnly, textDone, done, mu, closed>>

MarkAssistantTextDone(g) ==
    /\ mu = "free"
    /\ textDone' = IF Active(g) THEN textDone \cup {g} ELSE textDone
    /\ UNCHANGED <<last, current, alive, textOnly, done, sent, mu, closed>>

\* Fault: only the identity of the generation is compared.
MarkGenerationDone_AnyContext(g) ==
    /\ mu = "free"
    /\ done' = IF g = current THEN done \cup {g} ELSE done
    /\ UNCHANGED <<last, current, alive, textOnly, textDone, sent, mu, closed>>

MarkGenerationDone(g) ==
    /\ mu = "free"
    /\ done' = IF Active(g) THEN done \cup {g} ELSE done
    /\ UNCHANGED <<last, current, alive, textOnly, textDone, sent, mu, closed>>

\* Fault: the pipeline is cancelled before the context is.
Silence_PipelineFirst(op) ==
    /\ mu = "free"
    /\ mu' = op
    /\ UNCHANGED <<last, current, alive, textOnly, textDone, done, sent, closed>>

\* Starting or cancelling takes Session.mu and ends the context in progress...
Silence(op) ==
    /\ mu = "free"
    /\ mu' = op /\ alive' = alive \ {current}
    /\ UNCHANGED <<last, current, textOnly, textDone, done, sent, closed>>

\* CancelGenerationID, by cancelFailedGeneration.
CancelFailed(g) ==
    IF g = current /\ g # 0 THEN Silence("cancel") ELSE mu = "free" /\ UNCHANGED session

\* Fault: Cancel closes the output whoever is sending to it.
Cancelled_Unlocked(p) ==
    /\ p' = IF current = 0 \/ p[current].closed THEN p
            ELSE [p EXCEPT ![current].closed = TRUE, ![current].cancelled = TRUE]

\* ...and then the pipeline, once its mutex is free (Pipeline.Cancel).
Cancelled(p) ==
    /\ current # 0 => ~p[current].held
    /\ p' = IF current = 0 \/ p[current].closed THEN p
            ELSE [p EXCEPT ![current].closed = TRUE, ![current].cancelled = TRUE]

\* generation.cancel, a confirmed interruption, playback.overflow.
Cancel ==
    /\ current # 0 /\ ~closed
    /\ Silence("cancel")
    /\ UNCHANGED <<pipe, llm, voice, spoken, rd>>

CancelEnds ==
    /\ mu = "cancel"
    /\ Cancelled(pipe)
    /\ mu' = "free" /\ current' = 0 /\ alive' = alive \ {current}
    /\ UNCHANGED <<last, textOnly, textDone, done, sent, closed, llm, voice, spoken, rd>>

\* generation.create, by the reader; an answer, by its own goroutine.
Start(kind) ==
    /\ ~closed /\ last < MaxGens
    /\ Silence(kind)
    /\ IF kind \in {"client", "clientText"} THEN rd.pc = "idle" /\ rd' = [rd EXCEPT !.pc = "creating"]
       ELSE UNCHANGED rd
    /\ UNCHANGED <<pipe, llm, voice, spoken>>

StartEnds ==
    LET g == last + 1
    IN  /\ mu \in Kinds
        /\ Cancelled(pipe)
        /\ mu' = "free" /\ last' = g /\ current' = g /\ alive' = (alive \ {current}) \cup {g}
        /\ textOnly' = IF mu \in {"llmText", "clientText"} THEN textOnly \cup {g} ELSE textOnly
        /\ llm' = IF mu \in {"llm", "llmText"} THEN [llm EXCEPT ![g] = "created"] ELSE llm
        /\ rd' = IF mu = "client" THEN [rd EXCEPT !.pc = "created", !.id = g]
                 ELSE IF mu = "clientText" THEN Idle ELSE rd
        /\ UNCHANGED <<textDone, done, sent, closed, voice, spoken>>

Close ==
    /\ ~closed /\ closed' = TRUE
    /\ UNCHANGED <<last, current, alive, textOnly, textDone, done, sent, mu, pipe, llm,
                   voice, spoken, rd>>

-----------------------------------------------------------------------------
(* The pipeline                                                            *)

ContextOver(g) == g \notin alive \/ closed
Over(g) == ContextOver(g) \/ pipe[g].cancelled

Cut(chunks, rest) == [chunks |-> chunks, rest |-> rest]

\* The chunks of a cut of b end at e[1], e[2] and so on; what follows is kept.
CutEnd(e, i) == IF i = 0 THEN 0 ELSE e[i]
CutAt(b, e) ==
    Cut([i \in DOMAIN e |-> SubSeq(b, CutEnd(e, i - 1) + 1, e[i])],
        SubSeq(b, CutEnd(e, Len(e)) + 1, Len(b)))
CutPoints(b) == {e \in BoundedSeq(DOMAIN b, Len(b)) : \A i \in 2..Len(e) : e[i - 1] < e[i]}

\* Chunker.Push: any number of chunks off the front of a text, and a rest.
Cuts(b) == {CutAt(b, e) : e \in CutPoints(b)}

\* Chunker.Flush: nothing is kept.
Flushes(b) == {c \in Cuts(b) : c.rest = <<>>}

Pushed(p, by) ==
    LET unit == Len(p.pushed) + 1
    IN  {[p EXCEPT !.pushed = Append(@, unit), !.buffer = c.rest, !.emitting = c.chunks,
                   !.from = @ \cup {by}] : c \in Cuts(Append(p.buffer, unit))}
Flushed(p, by) ==
    {[p EXCEPT !.buffer = c.rest, !.emitting = c.chunks, !.from = @ \cup {by}]
        : c \in Flushes(p.buffer)}

\* Fault: a producer that blocks does not look at the context.
EmitFails_Never(g) == Unspeakable /\ pipe[g].emitting # <<>>

\* emitChunks gives up: the context ended, or the normaliser refused the text.
EmitFails(g) == pipe[g].emitting # <<>> /\ (Over(g) \/ Unspeakable)

\* One chunk put into output.
Emitted(p) ==
    [p EXCEPT !.output = IF Len(@) < Cap THEN Append(@, Head(p.emitting)) ELSE @,
              !.emitting = IF Len(p.output) < Cap THEN Tail(@) ELSE @]

\* TryPush and TryClose never wait: each chunk finds room or the call fails, as it
\* does when the context is seen to have ended or a text is refused.
Tried(g, p) ==
    LET n == Len(p.emitting)
        room == Cap - Len(p.output)
        stops == {k \in 0..n : k <= room /\ (k = n \/ k = room \/ Over(g) \/ Unspeakable)}
    IN  {[ok |-> k = n, p |-> [p EXCEPT !.emitting = <<>>, !.output = @ \o SubSeq(p.emitting, 1, k)]]
            : k \in stops}

-----------------------------------------------------------------------------
(* consumeLLMStream, a blocking producer                                   *)

LlmAt(g, pc) == llm' = [llm EXCEPT ![g] = pc]
LlmMoves(g, from, to) == llm[g] = from /\ LlmAt(g, to)

\* startLLMGeneration: generation.created is written before anything is spoken.
LlmCreated(g) ==
    /\ \/ ~ContextOver(g) /\ LlmMoves(g, "created", "recv")
          /\ voice' = IF g \in textOnly THEN voice ELSE [voice EXCEPT ![g] = "wait"]
       \/ LlmMoves(g, "created", "failing") /\ UNCHANGED voice
    /\ UNCHANGED <<session, pipe, spoken, rd>>

LlmDelta(g) ==
    /\ sent[g] < MaxUnits
    /\ mu = "free" /\ LlmMoves(g, "recv", IF ContentTaken(g) THEN "write" ELSE "failing")
    /\ UNCHANGED <<session, pipe, voice, spoken, rd>>

\* The delta is written, and recorded as sent.
LlmSend(g) ==
    /\ \/ SentTaken(g) /\ LlmMoves(g, "write", IF g \in textOnly THEN "recv" ELSE "push")
       \/ LlmMoves(g, "write", "failing") /\ UNCHANGED session
    /\ UNCHANGED <<pipe, voice, spoken, rd>>

\* Push and Close take the mutex...
LlmPush(g) ==
    /\ ~pipe[g].held
    /\ IF pipe[g].closed THEN LlmMoves(g, "push", "failing") /\ UNCHANGED pipe
       ELSE /\ LlmMoves(g, "push", "emit")
            /\ \E p \in Pushed(pipe[g], "llm") : pipe' = [pipe EXCEPT ![g] = [p EXCEPT !.held = TRUE]]
    /\ UNCHANGED <<session, voice, spoken, rd>>

LlmClose(g) ==
    /\ ~pipe[g].held
    /\ IF pipe[g].closed THEN LlmMoves(g, "close", "gone") /\ UNCHANGED pipe
       ELSE /\ LlmMoves(g, "close", "flush")
            /\ \E p \in Flushed(pipe[g], "llm") : pipe' = [pipe EXCEPT ![g] = [p EXCEPT !.held = TRUE]]
    /\ UNCHANGED <<session, voice, spoken, rd>>

\* ...and keep it until every chunk is in output
LlmEmit(g) ==
    /\ llm[g] \in {"emit", "flush"}
    /\ pipe[g].emitting # <<>> /\ Emitted(pipe[g]) # pipe[g]
    /\ pipe' = [pipe EXCEPT ![g] = Emitted(@)]
    /\ UNCHANGED <<session, llm, voice, spoken, rd>>

\* Fault: Close returns without closing what the consumer waits on.
LlmEmitted_Open(g) ==
    /\ llm[g] \in {"emit", "flush"} /\ pipe[g].emitting = <<>>
    /\ pipe' = [pipe EXCEPT ![g].held = FALSE]
    /\ LlmAt(g, IF llm[g] = "emit" THEN "recv" ELSE "gone")
    /\ UNCHANGED <<session, voice, spoken, rd>>

LlmEmitted(g) ==
    /\ llm[g] \in {"emit", "flush"} /\ pipe[g].emitting = <<>>
    /\ pipe' = [pipe EXCEPT ![g].held = FALSE, ![g].closed = llm[g] = "flush"]
    /\ LlmAt(g, IF llm[g] = "emit" THEN "recv" ELSE "gone")
    /\ UNCHANGED <<session, voice, spoken, rd>>

\* or one fails; Close closes the output all the same.
LlmEmitFails(g) ==
    /\ llm[g] \in {"emit", "flush"} /\ EmitFails(g)
    /\ pipe' = [pipe EXCEPT ![g].held = FALSE, ![g].emitting = <<>>,
                            ![g].closed = llm[g] = "flush", ![g].cancelled = llm[g] = "flush"]
    /\ LlmAt(g, "failing")
    /\ UNCHANGED <<session, voice, spoken, rd>>

LlmEof(g) ==
    /\ MarkAssistantTextDone(g)
    /\ LlmMoves(g, "recv", IF Active(g) THEN "done" ELSE "failing")
    /\ UNCHANGED <<pipe, voice, spoken, rd>>

LlmDone(g) ==
    /\ \/ LlmMoves(g, "done", "failing") /\ UNCHANGED session
       \/ ~ContextOver(g) /\ g \notin textOnly /\ LlmMoves(g, "done", "close") /\ UNCHANGED session
       \/ ~ContextOver(g) /\ g \in textOnly /\ MarkGenerationDone(g) /\ LlmMoves(g, "done", "gone")
    /\ UNCHANGED <<pipe, voice, spoken, rd>>

LlmFails(g) ==
    /\ LlmMoves(g, "recv", "failing")
    /\ UNCHANGED <<session, pipe, voice, spoken, rd>>

\* The deferred cancelFailedGeneration.
LlmReturns(g) ==
    /\ LlmMoves(g, "failing", "gone")
    /\ IF ContextOver(g) THEN UNCHANGED session ELSE CancelFailed(g)
    /\ UNCHANGED <<pipe, voice, spoken, rd>>

-----------------------------------------------------------------------------
(* runSpeechPipeline, the consumer                                         *)

VoiceMoves(g, from, to) == voice[g] = from /\ voice' = [voice EXCEPT ![g] = to]

VoiceTakes(g) ==
    /\ pipe[g].output # <<>> /\ VoiceMoves(g, "wait", "synth")
    /\ spoken' = [spoken EXCEPT ![g] = Append(@, Head(pipe[g].output))]
    /\ pipe' = [pipe EXCEPT ![g].output = Tail(@)]
    /\ UNCHANGED <<session, llm, rd>>

\* Synthesised and written, or not.
VoiceSpeaks(g) ==
    /\ \E to \in {"wait", "failing"} : VoiceMoves(g, "synth", to)
    /\ UNCHANGED <<session, pipe, llm, spoken, rd>>

VoiceDone(g) ==
    /\ \/ pipe[g].output = <<>> /\ pipe[g].closed /\ VoiceMoves(g, "wait", "done")
          /\ UNCHANGED session
       \/ MarkGenerationDone(g) /\ VoiceMoves(g, "done", "gone")
    /\ UNCHANGED <<pipe, llm, spoken, rd>>

VoiceReturns(g) ==
    /\ \/ ContextOver(g) /\ UNCHANGED session
          /\ \E from \in {"wait", "failing"} : VoiceMoves(g, from, "gone")
       \/ ~ContextOver(g) /\ CancelFailed(g) /\ VoiceMoves(g, "failing", "gone")
    /\ UNCHANGED <<pipe, llm, spoken, rd>>

-----------------------------------------------------------------------------
(* The reader                                                              *)

RdMoves(from, to) == rd.pc = from /\ rd' = to
RdAt(pc) == [rd EXCEPT !.pc = pc]
Selects(g) == g = 0 \/ g = current

\* generation.created is written under the session's context; the voice starts
\* unless the generation is over.
RdCreated ==
    /\ RdMoves("created", Idle)
    /\ voice' = IF ContextOver(rd.id) THEN voice ELSE [voice EXCEPT ![rd.id] = "wait"]
    /\ UNCHANGED <<session, pipe, llm, spoken>>

\* response.text.delta, addressed to a generation or (0) to none in particular.
RdDelta(named) ==
    /\ mu = "free" /\ ~closed /\ Selects(named)
    /\ RdMoves("idle", [Idle EXCEPT !.pc = "delta", !.id = current])
    /\ UNCHANGED <<session, pipe, llm, voice, spoken>>

RdPipeline ==
    /\ mu = "free"
    /\ RdMoves("delta", IF current = 0 THEN Idle ELSE [rd EXCEPT !.pc = "content", !.pipe = current])
    /\ UNCHANGED <<session, pipe, llm, voice, spoken>>

RdContent ==
    /\ mu = "free" /\ RdMoves("content", IF ContentTaken(rd.id) THEN RdAt("sent") ELSE Idle)
    /\ UNCHANGED <<session, pipe, llm, voice, spoken>>

RdSent ==
    /\ \/ SentTaken(rd.id) /\ RdMoves("sent", RdAt("mode"))
       \/ mu = "free" /\ RdMoves("sent", Idle) /\ UNCHANGED session
    /\ UNCHANGED <<pipe, llm, voice, spoken>>

RdMode ==
    /\ mu = "free"
    /\ RdMoves("mode", IF rd.id = current /\ rd.id \in textOnly THEN Idle ELSE RdAt("tryPush"))
    /\ UNCHANGED <<session, pipe, llm, voice, spoken>>

\* Fault: the mutex is not tried.
RdTryPush_Unlocked ==
    LET w == rd.pipe
    IN  /\ rd.pc = "tryPush"
        /\ IF pipe[w].closed THEN RdMoves("tryPush", RdAt("cancel")) /\ UNCHANGED pipe
           ELSE \E p \in Pushed(pipe[w], "client") : \E t \in Tried(w, p) :
                    /\ RdMoves("tryPush", IF t.ok THEN Idle ELSE RdAt("cancel"))
                    /\ pipe' = [pipe EXCEPT ![w] = [t.p EXCEPT !.emitting = pipe[w].emitting]]
        /\ UNCHANGED <<session, llm, voice, spoken>>

RdTryPush ==
    LET w == rd.pipe
    IN  /\ rd.pc = "tryPush"
        /\ IF pipe[w].held \/ pipe[w].closed THEN RdMoves("tryPush", RdAt("cancel")) /\ UNCHANGED pipe
           ELSE \E p \in Pushed(pipe[w], "client") : \E t \in Tried(w, p) :
                    /\ RdMoves("tryPush", IF t.ok THEN Idle ELSE RdAt("cancel"))
                    /\ pipe' = [pipe EXCEPT ![w] = t.p]
        /\ UNCHANGED <<session, llm, voice, spoken>>

\* response.text.done: the dispatcher compares the generation it names, if any...
RdDone(named) ==
    /\ mu = "free" /\ ~closed /\ Selects(named)
    /\ RdMoves("idle", [Idle EXCEPT !.pc = "done"])
    /\ UNCHANGED <<session, pipe, llm, voice, spoken>>

\* ...and handleTextDone looks up the pipeline and then the generation again.
RdDonePipeline ==
    /\ mu = "free"
    /\ RdMoves("done", IF current = 0 THEN Idle ELSE [rd EXCEPT !.pc = "doneId", !.pipe = current])
    /\ UNCHANGED <<session, pipe, llm, voice, spoken>>

RdDoneId ==
    /\ mu = "free" /\ RdMoves("doneId", [rd EXCEPT !.pc = "mark", !.id = current])
    /\ UNCHANGED <<session, pipe, llm, voice, spoken>>

RdMark ==
    /\ MarkAssistantTextDone(rd.id) /\ RdMoves("mark", RdAt("doneMode"))
    /\ UNCHANGED <<pipe, llm, voice, spoken>>

RdDoneMode ==
    /\ mu = "free"
    /\ RdMoves("doneMode",
               RdAt(IF rd.id = current /\ rd.id \in textOnly THEN "finish" ELSE "tryClose"))
    /\ UNCHANGED <<session, pipe, llm, voice, spoken>>

RdFinish ==
    /\ MarkGenerationDone(rd.id) /\ RdMoves("finish", Idle)
    /\ UNCHANGED <<pipe, llm, voice, spoken>>

RdTryClose ==
    LET w == rd.pipe
    IN  /\ rd.pc = "tryClose"
        /\ IF pipe[w].held THEN RdMoves("tryClose", RdAt("cancel")) /\ UNCHANGED pipe
           ELSE IF pipe[w].closed THEN RdMoves("tryClose", Idle) /\ UNCHANGED pipe
           ELSE \E p \in Flushed(pipe[w], "client") : \E t \in Tried(w, p) :
                    /\ RdMoves("tryClose", IF t.ok THEN Idle ELSE RdAt("cancel"))
                    /\ pipe' = [pipe EXCEPT ![w] = [t.p EXCEPT !.closed = t.ok]]
        /\ UNCHANGED <<session, llm, voice, spoken>>

RdCancel ==
    /\ CancelFailed(rd.id) /\ RdMoves("cancel", Idle)
    /\ UNCHANGED <<pipe, llm, voice, spoken>>

-----------------------------------------------------------------------------

\* What a step that has begun goes on to do.  A provider owes an answer only once
\* its context has ended.
Locked == CancelEnds \/ StartEnds
LlmRuns(g) ==
    \/ LlmCreated(g) \/ LlmSend(g) \/ LlmPush(g) \/ LlmClose(g) \/ LlmEmit(g)
    \/ LlmEmitted(g) \/ LlmEmitFails(g) \/ LlmDone(g) \/ LlmReturns(g)
    \/ (ContextOver(g) /\ LlmFails(g))
VoiceRuns(g) ==
    \/ VoiceTakes(g) \/ VoiceDone(g) \/ VoiceReturns(g)
    \/ (ContextOver(g) /\ VoiceSpeaks(g))
Reading ==
    \/ RdCreated \/ RdPipeline \/ RdContent \/ RdSent \/ RdMode \/ RdTryPush
    \/ RdDonePipeline \/ RdDoneId \/ RdMark \/ RdDoneMode \/ RdFinish \/ RdTryClose
    \/ RdCancel

Next ==
    \/ Cancel \/ Close \/ Locked \/ Reading
    \/ \E kind \in Kinds : Start(kind)
    \/ \E g \in Gens : LlmRuns(g) \/ VoiceRuns(g) \/ VoiceSpeaks(g) \/ LlmDelta(g) \/ LlmEof(g) \/ LlmFails(g)
    \/ \E named \in 0..MaxGens : RdDelta(named) \/ RdDone(named)

Spec == Init /\ [][Next]_vars

FairSpec ==
    /\ Spec
    /\ WF_vars(Locked) /\ WF_vars(Reading)
    /\ \A g \in Gens : WF_vars(LlmRuns(g)) /\ WF_vars(VoiceRuns(g))

-----------------------------------------------------------------------------
(* Properties                                                              *)

\* Every variable keeps its type; a pipeline holds at most Cap chunks.
TypeOK ==
    /\ last \in 0..MaxGens /\ current \in 0..last /\ mu \in Kinds \cup {"free", "cancel"}
    /\ alive \cup textOnly \cup textDone \cup done \subseteq 1..last
    /\ sent \in [Gens -> 0..MaxUnits]
    /\ \A g \in Gens : pipe[g] \in PipelineRecord /\ Len(pipe[g].output) <= Cap
    /\ rd.id \in 0..last /\ rd.pipe \in 0..last /\ closed \in BOOLEAN

\* What is spoken is the text in the order it was given to the pipeline, each
\* unit once; and, while the generation lasts, without a gap, unless two producers
\* gave it and one of them failed (Pipeline.mu covers the chunker and the emission together).
SpokenInOrder ==
    \A g \in Gens :
        LET said == FlattenSeq(spoken[g] \o pipe[g].output)
        IN  /\ \A i, j \in DOMAIN said : i < j => said[i] < said[j]
            /\ Cardinality(pipe[g].from) <= 1 /\ ~ContextOver(g) => IsPrefix(said, pipe[g].pushed)

\* No producer is left sending to a channel that Cancel or Close has closed,
\* which would panic (pipeline.go:100).
NoSendOnClosed == \A g \in Gens : pipe[g].held => ~pipe[g].closed

\* A pipeline shared by the reader, the LLM worker and the speech worker, and
\* cancelled by any of them, stays whole.
PipelineSound == TypeOK /\ SpokenInOrder /\ NoSendOnClosed

\* A generation announced as done has spoken all the text its one producer gave
\* (docs/interruption-recovery.md:126).  A producer that fails closes the output
\* as well (pipeline.go:90), and only the context tells the consumer.
DoneMeansAllSpoken ==
    \A g \in done \ textOnly :
        Cardinality(pipe[g].from) <= 1 => FlattenSeq(spoken[g]) = pipe[g].pushed

\* Every call of the TTS provider returns (protocol.ProviderTimeout).
SynthesisReturns == \A g \in Gens : WF_vars(VoiceSpeaks(g))

\* No response.text.done is handled while the generation changes: the pipeline the
\* reader looks up (realtime.go:643) is that of the generation it marks (:656).
\* The code does not see to that, although docs/realtime-protocol.md:15 says that
\* "`generation_id` selects a generation for scoped operations".
NoStrayDone == [](rd.pc = "mark" => rd.id \in {0, rd.pipe})

\* Speech ends, one way or the other.  Session.mu never stays with a goroutine
\* that waits for a pipeline, even if synthesis stalls and the output stays full:
\* the context is ended first, and lets the producer that holds the pipeline go.
\* The goroutines of a generation that ended return.  And if calls of the TTS
\* provider return, a generation whose text is complete is spoken to its end.  This
\* last part has an exception (NoStrayDone): a generation whose text was marked
\* complete by a response.text.done meant for the one before, whose pipeline was
\* closed instead, may stay open for as long as its language model is silent.
SpeechEnds ==
    /\ []<>(mu = "free")
    /\ \A g \in Gens :
           []<>(g <= last /\ ContextOver(g) =>
                    llm[g] \in {"none", "gone"} /\ voice[g] \in {"none", "gone"})
    /\ SynthesisReturns /\ NoStrayDone =>
           \A g \in Gens : []<>(g \in textDone /\ Active(g) => g \in done)
=============================================================================
