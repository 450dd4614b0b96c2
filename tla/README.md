# Formal models of the Yukkuri realtime engine

TLA+ modules that model the engine's core logic, TLC runs that check them on
small instances and TLAPS proofs that hold for every value of the constants.
Paths below are relative to the repository.

## 1. The system

A client (TypeScript, Python or its own) opens one WebSocket per session. It
streams microphone audio and voice-activity events; the server decides when the
user's turn ended, recognises it, asks a language model for an answer, speaks
the answer and streams PCM back under a credit window. The user may speak over
the answer: playback is paused on suspicion and a classifier decides whether it
was an interruption.

| Component | State | Operations | Talks to |
|---|---|---|---|
| Session (`internal/realtime/session.go`, `conversation.go`) | generation, its context, pipeline and timeline; response context; manual input buffer | start, cancel, finish a generation; commit input; consume a response context | everything below, all under `Session.mu` |
| Realtime input (`input.go`) | turn state, turn ID, PCM buffer, endpoint deadline and epoch | start, speech start/end, misfire, cancel, append, commit; the `runInput` goroutine | turn detector (a worker goroutine), the session |
| Interruption recovery (`interruption.go`) | state, generation, token, revision, deadlines | begin, confirm, recover, invalidate, playback paused/failed | classifier (a worker goroutine), `runInput`, timeline |
| Speculation (`speculation.go`) | current speculative work and its revision | start, invalidate, promote, buffered stream | STT admission, LLM |
| Conversation store (`internal/conversation`) | items, chunks, played prefix | commit, append, progress, finalize, trim | called by the session under its lock |
| Flow controller (`internal/audio/flow.go`) | capacity, reserved, received, played | `Update`, `Acknowledge`, `Reserve` | speech worker, socket reader |
| Playback timeline (`timeline.go`) | generated, sent, played frames, pause | add, set, snapshot | speech worker, socket reader |
| Speech pipeline (`internal/speech`) | chunker, closed flag, output channel | push, close, cancel, and non-blocking forms | LLM worker, speech worker |
| Transport (`internal/transport/http`) | one reader loop, worker group, writer lock | dispatch, stream, synthesise, write | all of the above |
| STT admission and runtime (`internal/providers/stt`) | slots, queue, worker process | transcribe, try, reload, close | external recogniser |
| SDK clients (`sdk/`) | generation, received and acknowledged positions, worklet ring | handle events, credit, acknowledge | the WebSocket |

What is hard here: four kinds of goroutine (reader, `runInput`, inference
workers, one speech worker per generation) meet under three locks
(`Session.mu`, `FlowController.mu`, the writer lock) that are deliberately not
held together; an inference answers about a past that may be over; messages
cross on the wire; every generation can be replaced or cancelled between any two
steps of the worker that speaks it. `PROJECT.json` lists these hazards one by
one at the line where they bite, with the property that would catch each.

What makes each part correct:

- *Input*: a turn that ended is decided; results about an earlier silence do
  nothing; a committed turn is answerable and a superseded one never answered.
- *Interruption*: only the generation that plays can be paused, never without a
  decision pending; playback resumes only on evidence about the present; no turn
  is committed while that decision is open.
- *Audio*: unplayed audio in flight never exceeds the window; positions of the
  two sides agree; no acknowledgement and no wake-up is lost; a client that keeps
  the protocol is never faulted; what was not heard is never counted as played.
- *Conversation*: history holds only what the user heard; the item of the active
  generation is never trimmed away.
- *Speculation*: a turn gets at most one answer, promoted or fresh; a promoted
  one is about all the turn's audio and the current history, and is whole.
- *Text to speech*: no text is lost, repeated or spoken by another generation;
  `generation.done` comes last; the pipeline's lock, held over a full channel,
  never stops a cancellation.
- *Outbound*: an audio pair is not torn; the client follows the generation the
  server follows; a generation the client knows settles.
- *Recognition*: slots and tokens come back on every path; committed requests are
  not overtaken; one process, never one that was cancelled or closed; every
  request returns and `Close` ends.
- *Transcription*: one job per connection, nothing after its cancellation was
  acknowledged, and a shutdown that says so has left nobody behind.

## 2. Modules

| Module | Role |
|---|---|
| `TurnControl` | a session's turn taking: input, endpointing, interruption, response contexts |
| `TurnTaking` | the abstract contract `TurnControl` implements |
| `MCTurnControl` | symmetry of the interruption tokens |
| `TurnControlProofs` | theorems about `TurnControl`: its invariants, that it implements `TurnTaking`, its action properties |
| `PlaybackFlow` | audio from the speech worker to the client's worklet and the reports back |
| `PlaybackFlowProofs` | theorems about `PlaybackFlow`: its counters, then what its two channels carry |
| `Conversation` | the store of items, its calls by a session, the history a request quotes |
| `ConversationProofs` | theorems about `Conversation` |
| `Speculation` | recognising and answering a turn before it is committed, and handing that over |
| `SpeculationProofs` | theorems about `Speculation` |
| `SpeechText` | text from its producers through a generation's pipeline to its speech |
| `SpeechTextProofs` | theorems about `SpeechText` and `Chunker` |
| `Chunker` | where that text is cut, compared with a rule about the whole text |
| `Outbound` | what the client is told of its generations, and in which order |
| `OutboundProofs` | theorems about `Outbound` |
| `SttAdmission` | slots and queue of recognitions |
| `SttRuntime` | the recogniser process behind one slot |
| `Recognition` | the two composed: an admitted call drives the runtime |
| `RecognitionProofs` | theorems about `Recognition` |
| `Transcription` | connection slots, shutdown, and the jobs of a transcription connection |
| `TranscriptionProofs` | theorems about `Transcription` |

The modules meet where the components do, and each takes the other's part as a
choice: `TurnControl` decides when a turn is committed and a generation ends, which
`Speculation`, `Conversation`, `SpeechText` and `Outbound` let happen at any time;
where `SpeechText` cuts is a choice that `Chunker` makes (theorem `ChunkerCuts`: it
makes no other); a chunk that `SpeechText` takes is one that `PlaybackFlow` sends; a
recognition that ends is one that ends a job of `Transcription` or a worker of
`Speculation`. What is proved or checked of a module therefore holds for every
behaviour of its neighbours. Admission and runtime are composed step by step in
`Recognition`, because what each assumes of the other (a call that returns, a caller
that holds a slot) is what the liveness of both depends on.

Each module keeps its properties as named parts with a comment each, and states
what is checked as their conjunction where they are one question
(`Conversation!StoreSound`, `Speculation!WorkersSound`).

`PROJECT.json` maps every definition to the lines it models. Operators marked
*Fault* in a module are plausible bugs of the operator they stand before; no
action uses them, and substituting one must make a property fail.

### 2.1 TurnControl

One record `s` is the `Session`: `out` (generation and timeline), `resp` (the
response context), `inp` (`inputRuntime` and the input buffer), `int`
(`interruptionRuntime`), `loop` (what `runInput` keeps in local variables). A
helper of the code that ends in `Locked` is an operator from sessions to
sessions. A handler composes them in the source's order within one action,
because `Session.mu` is held throughout. `input_audio.commit` and
`input_text.commit` take the lock twice, so the variable `reader` records what
the socket reader is in the middle of. `superseded` and `evidence` are history:
they remember which contexts were overtaken and whether a classifier in flight
still judges the present. No action reads them.

Abstractions:

- *Epochs and revisions.* `epoch`, `revision` and `attempted` only ever get
  compared with the value an inference was started with. A job is therefore
  "none", "fresh" (it carries the current counter) or "stale", and every
  increment turns a fresh job stale. One job of each kind is in flight at most
  (`inFlight`, `classifierInFlight`).
- *Time.* A deadline is a flag (`minDue`, `maxDue`, `decisionDue`,
  `notBeforeDue`) that a step of time raises; minimum before maximum, as the
  configuration validates. The two clocks of a turn and of an interruption are
  otherwise unrelated.
- *The loop.* An iteration runs at the top, or when the wake channel holds a
  token, or when the armed timer is due. `armed` is the set of deadlines the
  timer covers. An iteration that merely re-arms is allowed; timer firings that
  find nothing due are not separate steps.
- *Data.* The PCM buffer is a count bounded by `TurnLimit` (`PreRoll` while
  nobody speaks); the timeline is "none" (text only), "drained" or "queued"; turn
  and generation IDs are booleans and numbers. The energy, clipping and semantic
  evidence a classifier is given are abstracted to its four kinds of answer.
- `TurnComplete` lasts only inside `commitTurnLocked` and no other handler can
  see it. Fields that are dead in a state (a deadline of a decided interruption)
  are normalised.
- A full notification queue closes the session (`inputNotifyLocked`); it is one
  of the causes of `Disconnect`, which may happen at any time.
- Left out: speculation, conversation items, and `responseUsed`, since each
  context has one holder here. A context with two holders (recognition and
  promotion) belongs to Speculation.

### 2.2 PlaybackFlow

`flow`, `timeline` and `worker` are the controller, timeline and
`runSpeechPipeline` goroutine of each generation; `down` and `up` are the two
directions of the WebSocket; `client` is what `session.ts` and the worklet keep.
Each critical section of `FlowController.mu`, `Session.mu` or the writer lock is
one action, so a chunk is spoken in the steps of `synthesizeSpeechChunk`:
register, open the controller, announce, then for each packet reserve (or wait),
write, account. Between these, the reader may count a report, the generation may
end, the client may answer. `generation.cancelled` is written after the lock is
released, hence `owed`.

Abstractions:

- A frame is a unit; capacity is the SDK's two seconds (`Window`), also the
  legacy window. `negotiated` is chosen once: `RequireAudioCredit` refuses later
  changes while a generation exists.
- A worker whose generation ended may still finish the step it is in where the
  code only checks the context before it (`RecordAudioSent` counts nothing then)
  and otherwise gives up (`Abandon`), which frees the controller nobody can reach.
- A credit timeout, a failed synthesis and a confirmed interruption are
  `CancelGeneration`, which may happen whenever a generation plays.
- `Render` plays one frame under the worklet's start-up rule (the same threshold
  is used when it runs dry); `AckPlayed` reports any position not beyond what was
  rendered. Repeated snapshots, which change nothing, are not sent.
- Generations start through `startLLMGeneration`. The announcement of
  `generation.create`, written under the session's context, belongs to Outbound.
- Left out: the client's pause, legacy positions in seconds, write failures,
  `response.audio.chunk.done` (it changes no state), sequence numbers (the
  position check subsumes their order in this model).

### 2.3 Conversation

`items` is `MemoryStore.items`; the rest are the fields of `Session` its methods
read under the lock. Operators from stores to stores are the methods of
`Runtime`, and one handler of `internal/realtime/conversation.go` is one action.
The LLM worker, the speech worker and the reader call them with the ID of the
generation they belong to, which may be over: that is where `Active` matters.

- Text is a number of bytes and audio a number of frames; the words are the same
  whoever wrote them. `size`, `trim` and `Context` compute with these numbers as
  the code does.
- The client (`Render`) plays frames that were written, in order, and reports any
  position up to what it played; positions in seconds are converted by floating
  point outside the model.
- Turn taking is two actions: `NewResponseContext`, which replaces the context,
  and `BeginResponse`, which uses it, perhaps late.

### 2.4 Speculation

`input` is the turn and the number of times the user began to speak (the
revision), `work` the `speculativeWork` records with their worker, `ans` the
answerer of the last committed turn, `gen` the generation and its consumer.
Each critical section of `Session.mu` is a step; a provider's return is one with
the section that follows.

- A work's key is compared with the input's turn and revision only:
  `fresh` says whether they still agree.
- A channel that is closed and replaced (`notifyLocked`) is the set of
  goroutines `asleep` on it.
- Deltas are numbered by the worker, and `hist` is the version of the history, so
  that an answer can be compared with the request it is for.
- The cooldown is not modelled (it can only refuse), nor are metrics and events.
  The byte limit of the buffer and its 1,024 deltas are one bound.

### 2.5 SpeechText

`mu` and `pipe[g].held` are locks that somebody holds over another step; whatever
takes one lock and gives it back is one step. `llm`, `voice` and `rd` are the
positions of `consumeLLMStream`, `runSpeechPipeline` and the reader in
`handleTextDelta` and `handleTextDone`. A unit of text is its place in what the
pipeline was given, so that properties can speak of order and gaps.
Where the chunker cuts is a choice of `Cuts`: any number of non-empty chunks off the
front of what it keeps, and a rest. A delta is one unit, so a cut inside a delta is
not told apart from one at its end; that no text is lost there is `Chunker`'s
property. `Unspeakable` adds texts the normaliser refuses. Text of which the
normaliser leaves nothing is no unit: `emitChunks` skips it. `Pipeline.Flush`, which
only tests call, is left out.

### 2.6 Chunker

`FindChunkBoundary`, `Extracted`, `Push` and `Flush` are the code's; characters
are the five classes it tells apart. `Reference` says of a whole text where it is
cut, and the properties compare the two. The loop of `extract`, `Reference` and
`Solid` are recursive functions over the texts, so that the module can be proved
about. Its state and specification carry the module's name (`ChunkerSpec`,
`ChunkerInit`), because `SpeechTextProofs` extends it together with `SpeechText`.

### 2.7 SttAdmission, SttRuntime and Recognition

Buffered channels used as semaphores are counters, and a blocked sender is a
member of `waiting`: Go hands a freed place to the first of them in the same
step, and `Leave` does so. `SttRuntime` has the steps of `Transcribe` (closed
check, queue, slot, second closed check, reload, request), of `NewRuntime` and
of `Close`, and operating-system processes that may die at any time, may never
answer, and do not notice that their client has gone (`job` is what a process
works on). Audio, texts, measurements and health polling are left out.

`Recognition` extends `SttAdmission` and takes `SttRuntime` as an instance over
variables of its own (`rpc`, `rwaiting`, `rqueue` for the instance's `pc`,
`waiting`, `queue`), as `SetSTTProvider` puts the runtime behind the admission. A
call that holds a slot calls the runtime under its own context; when the runtime
returns, the deferred releases of the admission follow in the same step, since
nothing of the program can come between them that another call would notice. The
context is one variable of both: the caller may end it anywhere, the runtime's
deadlines only past its queue. The server's concurrency (1) never lets two calls
meet in the runtime; `limited.New` takes any number, and the run uses two slots so
that they do.

### 2.8 Transcription

The handler of a connection, its job per turn, the slots of `acceptPublic` and
`Server.Shutdown`. A frame is written in one step under the writer's lock if the
context it is written under is still live, as `realtimeWriter.write` checks.
Reading the message and acting on it is one step, except where a handler writes
between two changes of state (`acking`, `spawning`, `closing`).

### 2.9 Outbound

One step per frame, except for an audio pair, which holds the writer's lock
between two. On the other side `sdk` and `state` are the TypeScript session's
generation and its `Generation` objects; a frame is handled when it arrives. A
client cancels the current generation, by its name or, as the protocol allows,
without one (`ClientCancels`); only without one can it be a generation that is not
announced yet.

- `PairMayTear` is a fact about the external WebSocket library: whether it refuses
  a write under an ended context and leaves the connection open. The engine looks at
  the context once, when it has the lock (`realtime_writer.go:53`); between the two
  writes of a pair only the library does. With FALSE such a refusal ends the
  connection. The runs use TRUE, the case with more behaviours, and `PairsWhole`
  says what then still holds.
- `lingering` is history: the generations a client goes on following although they
  are over, because `generation.created` was written for them after they had ended
  or because a cancel without a name hit the next one before it was announced
  (section 6). `ClientAgrees`, `EndedSettles` and `GenerationSettles` except them,
  and nothing else while the connection lasts.
- `HasInput` says whether a turn detector runs; the run has one (section 6 on the
  other case).
- Text deltas and the frames that start and end a chunk are left out: the SDK
  takes them without changing what it follows. So is the end of a session, for
  which `docs/realtime-protocol.md` promises no event per generation, and
  generations without speech that a client writes itself.

## 3. Runs

| Run | Shows | Bounds | Distinct states |
|---|---|---|---|
| `turn_safety` | type, a pending interruption owns the playing output, no orphan pause, endpoint fields agree, no lost wake-up, recovery needs current evidence, a committed turn is answerable, no answer to a superseded turn, refinement of `TurnTaking` | 2 tokens (symmetric), 2 generations, 2 contexts, buffer of 1 | 1.2 million |
| `turn_live` | `PausedPlaybackResolves`, `EndpointDecided` | 1 token, 1 generation, 1 context | 150 thousand |
| `turn_held_endpoint` | `EndedTurnResolved` fails (section 6) | as above | |
| `flow_safety` | type, no client fault, counters ordered, window bounded, acknowledgement retained, `CreditsTruthful` (nothing unheard counted, honest credit accepted), no lost credit | window, packet and start-up 2, 2 generations of 3 frames, 2 messages per direction, both negotiations | 3.4 million |
| `flow_live` | `NoAudioStall`, `AllHeard` | window and start-up 2, 4 frames, 3 messages | 20 thousand |
| `conv` | `StoreSound` (limits of the store, item of the active generation kept, one answer per turn, only the active answer pending, the request ends with its turn), `HistoryHeard` (remembered is heard, complete when all was heard, the request quotes what was heard), `HistoryOnlyEvicted` | 3 turns, 5 items, 6 bytes, window of 4 items and 4 bytes, answers of 1 byte, so one chunk of up to 2 frames | 380 thousand |
| `spec` | `WorkersSound` (one worker, attempts bounded, no lost notification), `AnswerSound` (one stream, complete, for the current history), `AdoptsWholeTurn`, `NobodyWaitsForever` | 2 speculations, 2 speech starts, 2 generations, 1 attempt per turn, 2 deltas, buffer of 1 | 740 thousand |
| `speech` | `PipelineSound` (spoken in order, no send on a closed channel), `DoneMeansAllSpoken`, `SpeechEnds` (the session's lock is freed, goroutines end, a finished text is spoken) | 1 generation of each of the 4 kinds, 3 units, output of 1 | 300 thousand |
| `chunker` | `SpokenAsRuled` (no text lost, nothing held back, deltas do not matter, chunks fit) | soft limit 3, hard limit 5, texts of up to 7 characters in deltas of up to 2 | 240 thousand |
| `recognition` | `PoolsSound` (nothing leaks, no overtaking), `ProcessSound` (one process, none behind an obsolete request, closed for good, fallback has a cause and is final), `RecognitionEnds`, no deadlock | 2 committed and 1 speculative request, 2 slots, 2 closers, 1 place in the runtime's queue, device auto | 330 thousand |
| `transcription` | `HandlersSound` (slots match handlers, one job, `cleanup_complete` is true, a completed shutdown left nobody), `LastWordIsLast`, `EverythingEnds` | 2 connections, 1 slot, 2 commits in all | 390 thousand |
| `outbound` | `WireSound` (nothing inside a pair, client and server agree), `NothingAfterCancelled`, `GenerationSettles` (what ended settles; what is left to itself settles if its text ends) | 2 generations of every kind, 2 pairs, pairs may tear, a turn detector | 270 thousand |

Why these are enough. Turn taking compares a generation, a context or a token
only with the current one: two make a stale and a current one, and the
theorems of section 5 cover the invariants beyond. Decisions need two tokens and
answers two contexts; the safety run has both. One buffered frame tells an
empty turn from one with audio, and a second one reaches the limit. In
PlaybackFlow three frames over a window of two force a wait, a packet cut by the
window and one cut by the chunk; two generations give reports and events about a
replaced one; two messages in flight cross each other and overtake the
accounting. `StartUp = Window` is the tightest start-up rule a client can have.

In Conversation the limits are such that the third turn evicts, that the request
window holds one item less than the store, and that an item fills up. An answer is
one byte, so that it is spoken in one chunk of two frames: not begun, heard in part,
or heard. Answers in several chunks are left to the theorem `HistoryAlwaysHeard`,
and were checked with TLC on two turns (`MaxItemBytes = 2`, `MaxBytes = 9`,
`MaxContextBytes = 7`, `MaxTurns = 2`: 540 thousand states). A speculation's buffer
of one is full with one delta and has to drain for the second; two works are a
running one and one that must wait for it, two starts of speech a turn resumed or a
turn superseded. A second attempt in one turn, which the bound of one attempt
excludes there, is left to the theorems. Three units with an output of one are a
chunk taken, one in the channel and one a producer holds while `Push` waits; the run
follows one generation, its cancellation and its end. The next one that replaces it
is left to the theorems, which cover safety, and was checked for `SpeechEnds` with
two answers of the language model without text (`MaxGens = 2`, `MaxUnits = 0`,
`Kinds = {"llm"}`: 290 thousand states). In Chunker text longer than the hard limit
by two gives every boundary before, at and after both limits, and a rest. In
Recognition two slots in front of a runtime that serves one call let one call hold
the recogniser and another meet it in its queue, and with three calls one waits for
a slot or, speculative, is turned away; a queue of one also refuses. Admission's own
queue of 64 is never full there, and a refusal changes nothing. Two commits are an
old job that still runs and the new one, on one connection or each on one of two;
two connections at one slot are one accepted and one refused, or one after the
other. Two generations are a replaced and a current one, and two pairs a first and a
later one.

Deadlock is checked in `recognition`, where a request may always come. It is not
elsewhere: a session that was closed, or has used up the bound on
generations, really stops, and so does a connection whose client is content.

### Fairness

`TurnControl!FairSpec` assumes that `runInput` gets to run (`LoopRuns`, a
goroutine that is runnable is scheduled), that clocks advance and that nothing
else is obliged to happen: neither detector, classifier, client nor workers have
to answer. Weak fairness suffices because an iteration stays enabled until it is
taken. `PlaybackFlow!FairSpec` assumes that workers run, both ends of the socket
read, and that the client renders what it has and eventually reports its
position (the worklet reports every 50 ms and when it runs dry). Providers owe
nothing: a generation may never get another chunk.

- `Speculation`: goroutines run and the worker's clocks advance. A provider owes an
  answer only once its context has ended, which is what its interface demands.
- `SpeechText`: whoever waits for a lock or a channel goes on when it can
  (`Locked`, `Reading`, `LlmRuns`, `VoiceRuns`). The language model owes nothing.
  The last part of `SpeechEnds` has two premises of its own: that a synthesis
  returns (`SynthesisReturns`, calls of the TTS provider have a deadline), and that
  no `text.done` is handled while the generation changes (`NoStrayDone`). Without the
  second it is false: the generation such an event marks stays open for as long as
  its language model is silent (section 6).
- `Recognition`: goroutines run, a start ends (`InitTimeout`), and the context of a
  request past the runtime's queue ends (`InferenceTimeout`), after which its HTTP
  call returns. The process never has to answer, no client has to give up, and
  nobody has to call `Close`. What SttAdmission alone would have to assume, that a
  call with a slot returns, is thereby checked.
- `Transcription`: handlers and jobs run and the recogniser returns. Strong fairness
  of `rootEnded /\ Disconnect` says that a handler that comes back to reading under
  the server's ended context fails there; it is strong because the handler is not
  reading all the time.
- `Outbound`: what is owed is written (`WriteTimeout`), and a worker whose context
  has ended, that has failed or that has marked the generation done goes on
  (`Finishes`). Weak fairness is enough: the writer's lock is held for one pair, and
  a generation has finitely many. Nothing makes a language model's stream end, since
  the generation's context has no deadline (`session.go:131`) and neither has the
  provider's HTTP client, nor does a timer wait for a client's `response.text.done`.
  `EndedSettles` therefore speaks of generations that ended, whoever ended them, and
  the rest of `GenerationSettles` has the premise `TextEnds`, for one generation at a
  time.

## 4. Refinement

`TurnControl!Promise` instantiates `TurnTaking` with a mapping that sees only
the generation spoken, whether it is held, whether the user is silent, speaking
or has ended, and the number of turns committed. A session that closed maps to
the contract's closed state, whatever is left of it. The contract says, for
instance, that a hold ends either by resuming the same output and dropping the
turn or by stopping the output, and that a turn is committed only after it
ended, and out of a hold only together with silencing the output. The run
`turn_safety` checks that every step of a session is one of its steps.

## 5. Proofs

`tlapm` proves the following for all constants that satisfy `BoundsAssumption` and
`TokenAssumption` (`TurnControl`), `FlowAssumption` (`PlaybackFlow`: window and
packet positive, a start-up buffer no larger than the window, room for two
messages), `SessionsAssumption` (`Transcription`: finitely many connections, at
least one slot and one turn), `BoundsAssumption` and `KindsAssumption` (`Outbound`:
at least one generation), `SpeculationAssumption` (`Speculation`: every bound at
least one), `SpeechTextAssumption` (`SpeechText`: room for one chunk),
`ChunkerAssumption` (`Chunker`: what `NewChunker` makes of its arguments, a positive
soft limit no greater than the hard one), `ConfigAssumption` (`Conversation`: what
`Validate` accepts: three items, beside the prompt room for four items of full
length, a request window of two items and one full length), or `Capacities`,
`Disjoint`, `RuntimeAssumption` and `ActorsAssumption` (`Recognition`: capacities
positive, finitely many calls, each caller another goroutine).

| Theorem | States |
|---|---|
| `TurnControlProofs!TypeCorrect` | `[]TypeOK` |
| `TurnControlProofs!PendingOwnsOutputAlways` | `[]PendingOwnsOutput` |
| `TurnControlProofs!NeverStuckPaused` | `[]PausedOnlyWhilePending` |
| `TurnControlProofs!EndpointAlwaysConsistent` | `[]EndpointConsistent` |
| `TurnControlProofs!NeverLosesWakeup` | `[]NoLostWakeup` |
| `TurnControlProofs!SessionImplementsTurnTaking` | `ImplementsTurnTaking` (the refinement) |
| `TurnControlProofs!CommittedTurnAnswerable` | `CommittedTurnIsAnswerable` |
| `TurnControlProofs!SupersededTurnUnanswered` | `NoAnswerToSupersededTurn` |
| `TurnControlProofs!RecoveryOnCurrentEvidence` | `RecoveryNeedsCurrentEvidence` |
| `RecognitionProofs!PoolsAlwaysSound` | `[]PoolsSound` |
| `RecognitionProofs!ProcessAlwaysSound` | `[]ProcessSound` |
| `RecognitionProofs!RecognitionImplementsAdmission` | `Recognition` implements `SttAdmission` |
| `SpeculationProofs!WorkersAlwaysSound` | `[]WorkersSound` |
| `SpeculationProofs!AnswerAlwaysSound` | `[]AnswerSound` |
| `SpeculationProofs!WholeTurnAdopted` | `AdoptsWholeTurn` |
| `PlaybackFlowProofs!TypeCorrect` | `[]TypeOK` |
| `PlaybackFlowProofs!WindowAlwaysBounded` | `[]WindowBounded` |
| `PlaybackFlowProofs!TimelineAlwaysOrdered` | `[]TimelineOrdered` |
| `PlaybackFlowProofs!AckAlwaysRetained` | `[]AckRetained` |
| `PlaybackFlowProofs!NeverLosesCredit` | `[]NoLostCredit` |
| `PlaybackFlowProofs!ClientNeverFaults` | `[]NoClientFault` |
| `PlaybackFlowProofs!CreditsAlwaysTruthful` | `[]CreditsTruthful` |
| `ConversationProofs!StoreKept` | `[]Good`, the invariant of the store |
| `ConversationProofs!StoreAlwaysSound` | `[]StoreSound` |
| `ConversationProofs!HistoryIsOnlyEvicted` | `HistoryOnlyEvicted` |
| `ConversationProofs!HistoryAlwaysHeard` | `[]HistoryHeard` |
| `SpeechTextProofs!AlwaysSpokenAsRuled` | `ChunkerSpec => []SpokenAsRuled` |
| `SpeechTextProofs!ChunkerCuts` | `\A s \in Seq(Char) : ChunkerCut(s, FALSE) \in Cuts(Solid(s)) /\ ChunkerCut(s, TRUE) \in Flushes(Solid(s))` |
| `SpeechTextProofs!PipelineAlwaysSound` | `[]PipelineSound` |
| `SpeechTextProofs!DoneAlwaysSpoken` | `~Unspeakable => []DoneMeansAllSpoken` |
| `OutboundProofs!WireAlwaysSound` | `HasInput => []WireSound` |
| `OutboundProofs!CancelledIsSilent` | `NothingAfterCancelled` |
| `TranscriptionProofs!HandlersAreSound` | `[]HandlersSound` |
| `TranscriptionProofs!LastWordHolds` | `LastWordIsLast` |

*TurnControl.* `IInv` says the session is `Good` (typed, `OwnsOutput`,
`PausedIsPending`, `EndConsistent`) and that the loop's timer covers what it
must (`LoopCovers`). These hold only together: that recovery may go back to
listening needs the pending interruption to be in a speech turn, that a
commitment leaves no deadline needs the endpoint's fields to agree, and a lost
wake-up would follow from any helper that changes a deadline without a wake.
Because handlers are compositions, the proof is one too: each `Locked` helper
has a lemma saying that it keeps a session good, what it leaves alone and that
it wakes the loop or changes nothing the loop waits for. Each action then cites
the lemmas of the helpers it composes.

*TurnTaking.* The refinement and the action properties follow the same
composition. The same helper lemmas say what each `Locked` helper does to the parts
of the session a step is judged by (same generation, same floor, same question,
revised, dropped, committed, confirmed, recovered, suspected, started). A step of
the session is then a `Step` if what the user can see of it is one abstract step or
a stutter (`Spoken`), if at most the answer to the
turn it commits is added (`Answered`), and if a classifier that counts goes on
judging the speech it was given (`Judged`); each action has one lemma that it is
such a step. `HInv` (`HistoryInductive`) is the invariant about the history
variables: what `superseded` holds is never the live context, and a classifier
that counts (`fresh`) belongs to the pending interruption and was given the
present speech (`evidence` is "current").

*Recognition.* `IInv` has two halves. `Admitted` says of the admission that its
counters count the calls inside and those holding, and that its line holds the
waiting calls, each once; the lemmas `Joins`, `FirstLeaves` and `OneLeaves` say
what `Append`, `Tail` and `RemoveAt` do to such a line. Of the runtime, `Line` says
who holds the slot, so that at most one caller is past the line (`OneAtWork`);
from this `Process` shows that a process not yet reaped is the worker, or the one
being brought up by a caller who then has no worker; `Job` that it works for the
request inferring; `ClosedState` that after `closeDone` nobody is past the check
of `closed`; `Device` that a process that died is a recorded failure, which is
what makes the fallback justified. Two lemmas carry most actions: `Quiet` (a
caller moves and nothing else) and `Reaped` (whoever kills what it is responsible
for leaves no process at all). For the refinement of `SttAdmission`,
`AskedWithSlot` adds that the runtime works only for holders of a slot.

*Speculation.* `SInv` is written over the parts of a state (input, works,
current work, answerer, generation) rather than over the variables, because one
critical section often does several things: invalidate the work, silence the
generation, drop the answerer. Each such change (`Invalidated`, `Revised`,
`Dropped`, `Silenced`, `Began`, `CancelledWorks`) is shown once to keep it, and
an action is their composition. What one work is to the others is in `Placed`:
fresh work has heard all the user said, and the deltas of a stream are
contiguous: read, buffered and in hand are together what was produced. `Heir`
says what a work must keep of another to take its place, and `Inherit` that it
then may; every step of a worker, clock or provider is the step of an heir.
`InOrder` and `AtMostOne` give `OneWorker`, since a worker starts only when none
is busy; `Consuming` gives `AnswerFromOneStream` and `AnswerComplete`;
`Answering` says that what an answerer may adopt is the work committed with its
turn, from which `AdoptsWholeTurn` follows.

*PlaybackFlow.* None of the five properties is inductive. `Core` adds where
every frame is: a frame reserved is either accounted or in the packet the worker
holds (`sent + granted = reserved`), and one generated is reserved or left of
the chunk (`reserved + left = generated + granted`); a worker holds a packet
only between `Reserve` and the accounting (`Sound`); generations not yet started
are untouched (`Fresh`). `TimelineOrdered` and `AckRetained` follow from these
equations, and `NoLostCredit` from the signal that accompanies every change of a
controller. Steps of the client leave `core` unchanged, so they are proved at
once.

*The channels of PlaybackFlow.* Whether the client faults depends on everything
in flight. `CInv` therefore says what the client *will* have read. `Foreseen`
gives one view of the client (generation, state, format known, frames received)
for each message in the queue: the first is the client as it is, each next one
is what reading a message leaves, every message is acceptable to the view before
it, and a packet meant for that view fits the client's buffer by what it
has already played. The last view is what the playing generation's worker may
rely on when it writes (`Ends`): it follows that generation and has received
exactly what was reserved for it and written. Three lemmas carry all actions:
writing adds a view (`ForeseesWritten`), reading drops the first (`ForeseesRead`),
and moves of the client keep them all (`ForeseesMoved`). Views only go to later
generations and never leave "cancelled" (`Since`), so a credit the client gave
stands until the message it is for arrives. In the other direction
`Honest` orders the client's own positions, `Reported` says that a report in
flight says no more than the client knows, and `Believed` that the session trusts
no more than was reported; `Owing` says that only ended generations still await
their cancellation. `CInv` rests on `IInv`: the window it needs is `WindowBounded`.

*Conversation.* Sizes are sums over items and chunks, and trimming, the window of a
request and the sums in both are what the code computes in loops. TLAPS cannot do
induction with an operator as its parameter, but it can use that a set of numbers
has a least member (`MinIsLeast`, from the library's `WFMin`): `UpTo` states
induction over a range for a *set*, and from it follow the laws of sums (`Adds`: a
sum over two ranges is the sum of both; a changed item changes it by the difference)
and of the messages gathered item by item. What a store is to satisfy is `Well`: the
prompt first, items in the order of their turns, one of each role per turn, the
answer after its question. From it follows that the turns of the store are the
stretches `trim` cuts at. `ExchangeFits` is why `Validate` asks for four item
lengths: a question, and an answer's text, sent text and chunks, are all that the
current exchange can weigh; so a cut before it always leaves a store that fits
(`TrimmedIs`), however full it was. `Good` needs all of it together: what may be
appended depends on the answer being found (`Answers`: the generation's answer is
the last item), that it is found on its turn not being evicted, that on the order of
the turns, and the order on a response context being newer than all that is
remembered (`Free`); `Kept` says that only the last item can be open, and
`Requested` that the request fits the window and ends with its turn's words. For
`HistoryOnlyEvicted` every operator is shown to leave the store as an eviction of
what it was (`Leaves`, with `Kin` for the items that stay), and evictions compose
(`LeavesTwice`), since a new answer finalises the last one, commits the user's words
and begins its own item in one critical section, each with a trim of its own.

`HistoryHeard` needs a second invariant, `Faithful`, which holds on top of `Good`. It
speaks of three parties. The client and the timeline: positions are ordered
(`Timed`: played, sent, written, generated) and none known is beyond what the client
rendered (`Rendered`). The timeline and the store: while an answer is open it knows
all that the timeline does (`Tracks`), namely its frames end within those generated
(`Within`), every chunk up to the position played is marked, and its text, audio and
chunks are not all over (`Upto`). That last part is what makes `CompletesWhenHeard`
inductive: `complete` is called wherever one of the three may end, and a chunk that
joins late ends beyond what anybody can have heard (`ChunkTracks`). The store and the
client: no remembered answer, old or open, has a chunk marked that was not rendered
to its end (`Recalls`). `RequestQuotesHeard` follows from `Quotes`, which is
established when the request is built and kept because nothing that is final
changes: gathered messages are `Paired` (a user's words are followed by what was
said to them, unless that is still to come) by induction over the items, and the
answer to a turn stands directly behind its words, by the order of the turns.

*SpeechText.* What a pipeline has said (`Said`: the chunks taken and those in
output, joined) and all it keeps (`Kept`: with those being emitted and the
chunker's buffer) are texts; the code moves text from one end to the other, so the
proof is about joining. `FlattenSeq` is a recursion inside the community modules:
`FlattenJoins` shows by `UpTo` (induction over a range for a set, as in
`Conversation`) that its value is the last of a chain of concatenations, and from it
come `FlattenAppend` and `HeadMoves`. Each operation of the pipeline has a lemma
saying what becomes of `Kept`: a push adds one unit at its end (`PushedKeeps`), a
flush, a chunk emitted and a chunk taken leave it (`FlushedKeeps`, `EmittedKeeps`,
`TakenKeeps`), a failed emission cuts something out (`DroppedKeeps`), and a
non-blocking call keeps it all if it succeeds (`TriedKeeps`). `SpokenInOrder` is not
inductive on `Said`: it takes `Texts` (all that is kept ascends and goes no further
than what was pushed) and `Prefixed` (while a generation with one producer lasts, all
its text is kept, unless the pipeline is closed or its producer is about to cancel:
`Stopped`). `Holds` says whose the mutex is, from which `NoSendOnClosed` follows;
`Counted` that no unit is pushed that was not accepted; `Drained` that a closed
pipeline of a lasting generation has said all of its text, and that a worker gets to
`done` only with nothing left in output, which is `DoneMeansAllSpoken`. `Sessions`
(only the current context lasts; other pipelines are closed) and `Reader` (the
pipeline the reader works on is that of its generation or closed already) tie these
to the session. Most steps leave the pipelines alone and only have to show `Quiet`;
a step at one pipeline is `AtOne`; starting and cancelling are `Silenced`.
`DoneAlwaysSpoken` assumes what the run sets, that no text is refused: section 6 has
the counterexample without it.

*Chunker.* What `Extract`, `Reference` and `Solid` compute for every text is a
statement about recursion. TLAPS has no induction with an operator as parameter,
but `ByLength` gives it for a *set* of sequences (a set of texts that contains each
text whose shorter texts it contains is all of them), from the least member of a
set of numbers; `RecursionByLength` gives from the same source that a function
defined by recursion on shorter texts satisfies its equation. From these come
`ExtractIs`, `ReferenceIs` and `SolidIs`, and every fact about the functions follows
from these equations by `ByLength`. The last part of `SpokenAsRuled`, that the deltas do not
matter, speaks of a flushed text only and is not inductive. `SoFarRuled` says what
holds before: whatever text `t` may follow, the rule cuts the whole of text and `t`
into the chunks that are out and then what it makes of the buffer and `t`. It is
kept because a cut, once made, stays: `CutStays` says that whatever follows, the rule
cuts a text at the place `findChunkBoundary` found, which is the place of the rule
(`CutIsRuled`). The boundary before the soft limit is the delicate case: it is
chosen only once the hard limit is reached, so nothing that follows can bring a
later one. `ExtractKeeps` says of one call that only blank space is lost and every
chunk fits (`TrimIs`, `TrimsAreSolid`), and that what is kept has no cut.
`ChunkerInv` is the conjunction.

`ChunkerCuts` joins the two modules. `SpeechText` is proved for every cut in `Cuts`;
the theorem says that what `Extract` makes of a text, in chunks and a rest, is one of
them when each character that is not blank is a unit (`ChunkerCut`: a blank has no
part in what is spoken). `CutsAll` does the work: non-empty sequences, joined and
followed by a rest, are a cut of what they join to, by adding one sequence at a time
(`CutOnce`); `ExtractKeeps` and `FitIsSolid` say that the chunker's chunks are of
that kind. In the other direction `CutsKeep` says of every member of `Cuts` that
joining it gives the text back, which is what the pipeline's proof uses.

*Outbound.* `Good` holds in every configuration. `Lives` says that the latest
generation lives or none does, and that one still to be announced alive is the
latest; `Fresh` that a generation not announced has done nothing; `Heard` that a
generation whose cancellation was written or is under way (`UnderWay`: in the
updates, with the reader or with a worker) has ended, that one the client does not
know is neither suspected nor at work, and that none is under way for a client's own
generation before its announcement, which is written even if it ended. From these
follow `NothingAfterCancelled` (what is announced was not told, audio is begun only
by what lives) and, with `Begun`, `PairsWhole`. `Agree` is about the client: it
follows the live generation once that is announced (`Live`); of any other in
progress it will hear the end or the start of the next (`Stale`). In a quiet state
nothing is to be heard, so that both agree, which is `ClientAgrees`. `Agree` is
inductive only under `HasInput`: without a turn detector a playback overflow tells
nobody (section 6). The theorem has that hypothesis and the run that setting;
`lingering` generations are excepted by the property itself, and by `Agree`.

*Transcription.* `Conn` ties what the reader is doing to the turn it does it for:
nothing is collected while a job is active, the active job is that of the last
turn, an acknowledgement follows the cancellation of that turn's job, and
`session.closed` leaves an ended connection. `Turn` says that a turn not yet
committed has left no trace, that a job with something to do is the active one
and that a turn reported as cancelled has an ended job. `OneJob` follows from the
second; the action property `LastWordIsLast` from the third, since only
`Acknowledge`, `Commit` and `Report` write. `Server` counts: a handler that
enters or leaves moves the slots by one, and a completed shutdown found no
handler.

Every invariant and action property of the passing runs is proved. Only
model-checked is liveness (`PausedPlaybackResolves`, `EndpointDecided`,
`NoAudioStall`, `AllHeard`, `NobodyWaitsForever`, `SpeechEnds`, `RecognitionEnds`,
`EverythingEnds`, `GenerationSettles`): TLAPS does not reason about fairness and
`ENABLED`.

## 6. What the model found

*A held turn can be lost.* When a turn ends while playback is paused on
suspicion, `commitTurnLocked` (`internal/realtime/input.go:307`) notes it in
`endpointReady` and waits for the decision. Only `confirmInterruptionLocked`
consumes that note. If the generation is cancelled by the client, fails, or is
replaced by `generation.create` first, `invalidateInterruptionLocked` ends the
interruption without looking at it, and `runInput` skips the endpoint while
`endpointReady` is set (line 370). The turn stays in `possible_end` or `waiting`
and is not committed at the maximum delay, although
`docs/realtime-input.md:114` says `waiting --> complete: model complete or max
delay` and line 138 calls `generation.cancel` "the independent output path". Run
`turn_held_endpoint` shows it; `EndpointDecided` is the weaker statement that
does hold.

The following were seen while modelling. Each was reproduced with the module at
hand, in a configuration or property that the runs of section 3 leave out for
that reason; the modules say so where it matters.

*A text's end can go to the next answer.* `text.done` names a generation, which the
dispatcher compares with the current one (`realtime.go:253`). `handleTextDone` then
reads the pipeline (643) and the generation's ID (656) separately. If the generation
is replaced in between, by a speech turn answered on another goroutine, the new
one's text is marked as done, though `docs/realtime-protocol.md:15` says that
`generation_id` "selects a generation for scoped operations". With `MaxGens = 2` and
`MaxUnits = 1` TLC finds `NoStrayDone` violated: a done addressed to generation 1
finds the pipeline of 1 (`RdDonePipeline`), 2 starts, and 2 is marked (`RdDoneId`,
`RdMark`) with its pipeline open. `handleTextDelta` has the same gap and is safe: it
only uses the pipeline, which is closed by then.

*A silent cancellation.* Without turn detection `PlaybackFailed` cancels the
generation and notifies nobody (`interruption.go:373`): the client that reported the
overflow waits for ever for what `docs/typescript-sdk.md:50` promises,
"`generation.done` resolves to `done` or `cancelled`". With `HasInput = FALSE` TLC
finds `EndedSettles` and `ClientAgrees` violated.

*done although the last chunk was not spoken.* `Pipeline.Close` closes the output
also when emitting the last chunk fails (`pipeline.go:90`), which happens when the
normaliser refuses a control character. The speech worker sees the end of the
channel and may announce `generation.done` before the failure cancels the
generation; `docs/interruption-recovery.md:126` says it means that all was sent.
With `Unspeakable = TRUE` TLC finds `DoneMeansAllSpoken` violated; without such text
it holds (`speech`).

*A final may precede the release of its slot.* The transcription job writes the
final (`transcription.go:226`) and releases the slot when it returns (209-215), so
that a start sent on receipt of the final may be refused with `resource_limit`;
`docs/transcription-api.md:35` says "Final: release the active slot; start a fresh
input turn." In `Transcription` these are `Report` and `Finish`.

*A late announcement.* `handleGenerationCreate` writes `generation.created` under
the session's context after it released the lock (`realtime.go:557`). When a voice
answer replaces the generation meanwhile, the client hears of the older one last,
follows it, and it never settles, against the same promise. A `generation.cancel`
without a name can leave a client in the same place: it may hit a voice answer that
is not announced yet, and then never is, while the client goes on following the
generation before. `Outbound` records the generations followed so in `lingering`;
for all others `GenerationSettles` holds.

*A torn pair.* `realtimeWriter.write` checks the context once, when it has the lock
(`realtime_writer.go:53`); the second write of a pair goes to the library unchecked.
A generation cancelled in between leaves metadata without its PCM if the library
refuses that write and keeps the connection, against `docs/realtime-protocol.md:24`
("Metadata/binary are indivisible at the writer"); the SDK ends the session at the
next frame. `PairsWhole` excepts exactly this case.

Noted while reading: a late output failure of an old generation also ends the
current response context (`session.go:189`), so that a turn committed meanwhile is
not answered; neither documents nor tests say whether it should be. An audio
snapshot equal to the last but with a smaller capacity does shrink the window, which
the comment at `internal/audio/flow.go:63` leaves open.

## 7. Plan

Done: `TurnTaking`, `TurnControl`, `PlaybackFlow`, `Transcription`,
`SttAdmission`, `SttRuntime`, `Recognition`, `Speculation`, `Conversation`,
`SpeechText`, `Chunker` and `Outbound` with their runs and proofs.

Left: an abstract "one answer per turn" that `TurnControl` and `Speculation` both
implement.

Not modelled:

- the cap of sixteen workers of a connection (`realtime_writer.go:87`): it takes a
  dozen cancelled workers whose providers have not returned, and the modules
  follow one or two;
- the recogniser's one-process-per-request mode and the legacy provider
  (`processWorker`, `whispercpp/provider.go`), which keep nothing between
  requests;
- legacy playback positions in seconds (floating point);
- the length of the notification queue of realtime input: a full queue closes the
  session, which may happen at any time in `TurnControl`;
- the text normaliser, WAV encoding, protocol encoding and validation,
  configuration and process wiring (no state);
- the providers' network clients and the Windows synthesis DLL (environment:
  they may answer, fail or never answer);
- the Python SDK (the same credit rules as the TypeScript one).
