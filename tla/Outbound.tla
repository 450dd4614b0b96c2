------------------------------ MODULE Outbound ------------------------------
(***************************************************************************)
(* What a client of /v1/realtime is told of its generations, and in which  *)
(* order.  Many goroutines write to one WebSocket: the reader              *)
(* (generation.create, input_text.commit, generation.cancel), the input    *)
(* workers that open a voice answer, the consumer of the input updates     *)
(* (interruptions), and the speech and LLM worker of each generation.      *)
(* realtimeWriter.write takes the writer's lock, then looks at the caller's*)
(* context, then writes; so a frame is one step, guarded by the lock and   *)
(* by the session's context or that of its generation, and an audio pair   *)
(* is two with the lock held between them.  On the other side is the       *)
(* TypeScript SDK (sdk/typescript/src/session.ts): it handles a frame when *)
(* it arrives and follows one generation.                                  *)
(* Abstracted: frame contents, text deltas, transcripts, the start and end *)
(* frames of a speech chunk; credit and provider waits are a worker's      *)
(* freedom to take its next step late.  Shutdown of a whole session is out *)
(* of the module: docs/realtime-protocol.md promises nothing for it.       *)
(***************************************************************************)
EXTENDS Integers, Sequences, FiniteSets

CONSTANTS MaxGens,       \* bound: generations
          MaxPairs,      \* bound: audio pairs of a generation
          Kinds,         \* how generations are opened: subset of KindSet
          HasInput,      \* a turn detector is configured (Session.input # nil)
          PairMayTear    \* the WebSocket library may refuse a write under an
                         \* ended context and leave the connection open

KindSet == {"client", "text", "voice"}

ASSUME BoundsAssumption == MaxGens \in Nat \ {0} /\ MaxPairs \in Nat
ASSUME KindsAssumption == Kinds \subseteq KindSet

Gens == 1 .. MaxGens
NoGen == 0
Workers == {"speech", "llm"}

VARIABLES created,    \* generations started so far
          kind,       \* how each was opened
          opening,    \* its generation.created is still to be written
          cur,        \* Session.generationID
          ended,      \* generations whose context has ended
          marked,     \* Session.generationDone
          work,       \* the speech and LLM worker of each generation
          pairs,      \* audio pairs written
          reader,     \* what the reader goroutine has still to write
          suspected,  \* the generation under a pending interruption
          updates,    \* generation.cancelled in Session.input.updates
          lock,       \* the generation whose audio pair holds the writer
          lost,       \* the connection: there, dropped, ended for a protocol error
          sdk,        \* the SDK session: generation and pending metadata
          state,      \* the SDK's Generation objects
          told,       \* history: generations reported as cancelled
          lingering   \* history: generations the client goes on following although they
                      \* are over: announced after their end, or the next one cancelled
                      \* before its announcement

vars == <<created, kind, opening, cur, ended, marked, work, pairs, reader, suspected, updates,
          lock, lost, sdk, state, told, lingering>>

sessionVars == <<created, kind, cur, ended, marked, suspected>>
clientVars == <<lost, sdk, state, told>>

Idle == [doing |-> "idle", gen |-> NoGen]

Init ==
  /\ created = 0
  /\ kind = [g \in Gens |-> "text"]
  /\ opening = {}
  /\ cur = NoGen
  /\ ended = {}
  /\ marked = FALSE
  /\ work = [g \in Gens |-> [w \in Workers |-> "none"]]
  /\ pairs = [g \in Gens |-> 0]
  /\ reader = Idle
  /\ suspected = NoGen
  /\ updates = <<>>
  /\ lock = NoGen
  /\ lost = "no"
  /\ sdk = [gen |-> NoGen, pending |-> NoGen]
  /\ state = [g \in Gens |-> "unknown"]
  /\ told = {}
  /\ lingering = {}
-----------------------------------------------------------------------------
(* The client: Session.receive, handle and binary of the SDK *)

Settled(s, g, how) == IF s[g] = "generating" THEN [s EXCEPT ![g] = how] ELSE s

Connected == lost = "no"

\* A text frame about g.  With audio metadata pending it is a protocol error
\* and ends the session.
Deliver(what, g) ==
  /\ told' = IF what = "cancelled" THEN told \cup {g} ELSE told
  /\ IF sdk.pending # NoGen
       THEN lost' = "protocol" /\ UNCHANGED <<sdk, state>>
       ELSE /\ UNCHANGED lost
            /\ CASE what = "created" ->
                      /\ sdk' = [sdk EXCEPT !.gen = g]
                      /\ state' = [(IF sdk.gen = NoGen THEN state ELSE Settled(state, sdk.gen, "cancelled"))
                                     EXCEPT ![g] = "generating"]
                 [] what = "metadata" -> sdk' = [sdk EXCEPT !.pending = g] /\ UNCHANGED state
                 [] OTHER -> /\ UNCHANGED sdk
                             /\ state' = IF g = sdk.gen THEN Settled(state, g, what) ELSE state

\* Fault: the writer's lock is not held over a pair.
Writable_InsidePairs == Connected

\* The writer's lock is free and the connection is there.
Writable == lock = NoGen /\ Connected
-----------------------------------------------------------------------------
(* Session: starting and cancelling a generation *)

\* startGenerationWithTurnLocked: the generation before it ends without a frame.
Begin(k) ==
  /\ created < MaxGens
  /\ created' = created + 1
  /\ kind' = [kind EXCEPT ![created + 1] = k]
  /\ opening' = opening \cup {created + 1}
  /\ cur' = created + 1
  /\ ended' = IF cur = NoGen THEN ended ELSE ended \cup {cur}
  /\ marked' = FALSE
  /\ suspected' = NoGen

\* Fault: the pending interruption is not invalidated.
CancelCurrent_StaysPaused ==
  /\ ended' = ended \cup {cur}
  /\ cur' = NoGen
  /\ UNCHANGED suspected

\* cancelGenerationLocked.
CancelCurrent ==
  /\ ended' = ended \cup {cur}
  /\ cur' = NoGen
  /\ suspected' = NoGen

\* The reader's two ways and the input workers' one.  The reader goes on only
\* when generation.created is written.
CreateByReader(k) ==
  /\ k \in {"client", "text"} \cap Kinds
  /\ reader = Idle /\ Connected
  /\ Begin(k)
  /\ reader' = [doing |-> "open", gen |-> created + 1]
  /\ UNCHANGED <<work, pairs, updates, lock, clientVars, lingering>>

CreateByVoice ==
  /\ "voice" \in Kinds
  /\ Connected
  /\ Begin("voice")
  /\ UNCHANGED <<work, pairs, reader, updates, lock, clientVars, lingering>>

\* generation.created: under the session's context for generation.create,
\* under the generation's own otherwise.  Then the workers start.
WriteCreated(g) ==
  /\ g \in opening
  /\ Writable
  /\ opening' = opening \ {g}
  /\ reader' = IF reader = [doing |-> "open", gen |-> g] THEN Idle ELSE reader
  /\ IF kind[g] = "client" \/ g \notin ended
       THEN /\ Deliver("created", g)
            /\ lingering' = IF g \in ended THEN lingering \cup {g} ELSE lingering
            /\ work' = [work EXCEPT ![g] = [speech |-> IF kind[g] = "text" THEN "gone" ELSE "run",
                                            llm |-> IF kind[g] = "client" THEN "gone" ELSE "run"]]
       ELSE UNCHANGED <<work, clientVars, lingering>>
  /\ UNCHANGED <<sessionVars, pairs, updates, lock>>

\* generation.cancel, of the generation it names or, without a name, of the current
\* one: that may be a voice answer not announced yet, which then never is, so that
\* the client goes on following the one before.  (With nothing to cancel the frame
\* names nothing, and no client heeds it.)
ClientCancels(g) ==
  /\ reader = Idle /\ Connected
  /\ cur = g
  /\ CancelCurrent
  /\ reader' = [doing |-> "cancel", gen |-> g]
  /\ lingering' = IF g \in opening THEN lingering \cup ({sdk.gen} \ {NoGen}) ELSE lingering
  /\ UNCHANGED <<created, kind, opening, marked, work, pairs, updates, lock, clientVars>>

WriteReaderCancelled ==
  /\ reader.doing = "cancel"
  /\ Writable
  /\ Deliver("cancelled", reader.gen)
  /\ reader' = Idle
  /\ UNCHANGED <<sessionVars, opening, work, pairs, updates, lock, lingering>>

\* A user starts to speak over the answer, which the client names; the
\* decision comes later, from a timer, the classifier or more speech.
Suspect ==
  /\ HasInput
  /\ reader = Idle /\ Connected
  /\ cur # NoGen /\ state[cur] # "unknown"
  /\ suspected' = cur
  /\ UNCHANGED <<created, kind, opening, cur, ended, marked, work, pairs, reader, updates, lock, clientVars, lingering>>

\* Fault: no generation.cancelled follows interruption.confirmed.
Confirm_Silent ==
  /\ suspected # NoGen /\ Connected
  /\ CancelCurrent
  /\ UNCHANGED <<created, kind, opening, marked, work, pairs, reader, updates, lock, clientVars, lingering>>

\* confirmInterruptionLocked.
Confirm ==
  /\ suspected # NoGen /\ Connected
  /\ CancelCurrent
  /\ updates' = Append(updates, cur)
  /\ UNCHANGED <<created, kind, opening, marked, work, pairs, reader, lock, clientVars, lingering>>

\* PlaybackFailed, for playback.overflow: without a turn detector there is no
\* queue to announce the cancellation on.
Overflow(g) ==
  /\ reader = Idle /\ Connected
  /\ state[g] # "unknown" /\ cur = g
  /\ CancelCurrent
  /\ updates' = IF HasInput THEN Append(updates, g) ELSE updates
  /\ UNCHANGED <<created, kind, opening, marked, work, pairs, reader, lock, clientVars, lingering>>

\* consumeInputUpdates.
WriteUpdate ==
  /\ updates # <<>>
  /\ Writable
  /\ Deliver("cancelled", Head(updates))
  /\ updates' = Tail(updates)
  /\ UNCHANGED <<sessionVars, opening, work, pairs, reader, lock, lingering>>
-----------------------------------------------------------------------------
(* The workers of a generation *)

Becomes(g, w, s) == work' = [work EXCEPT ![g][w] = s]

\* Fault: the writer does not look at the context once it has the lock.
WriteMetadata_Unchecked(g) ==
  /\ work[g]["speech"] = "run"
  /\ pairs[g] < MaxPairs
  /\ Writable
  /\ Deliver("metadata", g)
  /\ lock' = g
  /\ UNCHANGED <<sessionVars, opening, work, pairs, reader, updates, lingering>>

\* AudioDelta: the metadata ...
WriteMetadata(g) ==
  /\ work[g]["speech"] = "run"
  /\ pairs[g] < MaxPairs
  /\ Writable
  /\ g \notin ended
  /\ Deliver("metadata", g)
  /\ lock' = g
  /\ UNCHANGED <<sessionVars, opening, work, pairs, reader, updates, lingering>>

\* ... and the PCM, with the lock still held.
WritePcm(g) ==
  /\ lock = g /\ Connected
  /\ lock' = NoGen
  /\ pairs' = [pairs EXCEPT ![g] = @ + 1]
  /\ sdk' = [sdk EXCEPT !.pending = NoGen]
  /\ UNCHANGED <<sessionVars, opening, work, reader, updates, lost, state, told, lingering>>

\* The generation ended in between: the library drops the connection in the
\* middle of the write, or refuses it.
PcmFails(g) ==
  /\ lock = g /\ Connected
  /\ g \in ended
  /\ lock' = NoGen
  /\ Becomes(g, "speech", "gone")
  /\ \/ lost' = "dropped"
     \/ PairMayTear /\ lost' = "no"
  /\ UNCHANGED <<sessionVars, opening, pairs, reader, updates, sdk, state, told, lingering>>

\* Fault: a text answer is left for a speech worker to end, and has none.
MarkDone_SpeechOnly(g, w) ==
  /\ work[g][w] = "run"
  /\ lock # g
  /\ w = "speech" /\ work[g]["llm"] = "gone"
  /\ IF cur = g /\ g \notin ended /\ ~marked
       THEN Becomes(g, w, "done") /\ marked' = TRUE
       ELSE Becomes(g, w, "gone") /\ UNCHANGED marked
  /\ UNCHANGED <<created, kind, opening, cur, ended, pairs, reader, suspected, updates, lock, clientVars, lingering>>

\* MarkGenerationDone, by the worker that ends the output: the speech worker
\* when its pipeline is closed, the LLM worker of a text answer.
MarkDone(g, w) ==
  /\ work[g][w] = "run"
  /\ lock # g
  /\ IF w = "speech" THEN work[g]["llm"] = "gone" ELSE kind[g] = "text"
  /\ IF cur = g /\ g \notin ended /\ ~marked
       THEN Becomes(g, w, "done") /\ marked' = TRUE
       ELSE Becomes(g, w, "gone") /\ UNCHANGED marked
  /\ UNCHANGED <<created, kind, opening, cur, ended, pairs, reader, suspected, updates, lock, clientVars, lingering>>

\* generation.done: under the generation's context from the speech worker,
\* under the session's for a text answer (finishTextGeneration).
WriteDone(g, w) ==
  /\ work[g][w] = "done"
  /\ Writable
  /\ IF w = "speech" /\ g \in ended THEN UNCHANGED clientVars ELSE Deliver("done", g)
  /\ Becomes(g, w, "gone")
  /\ UNCHANGED <<sessionVars, opening, pairs, reader, updates, lock, lingering>>

\* The LLM stream of a spoken answer is over.
LlmEnds(g) ==
  /\ work[g]["llm"] = "run"
  /\ kind[g] = "voice"
  /\ Becomes(g, "llm", "gone")
  /\ UNCHANGED <<sessionVars, opening, pairs, reader, updates, lock, clientVars, lingering>>

\* Recognition of a failure: synthesis, credit timeout, or the LLM.
Fails(g, w) ==
  /\ work[g][w] = "run"
  /\ ~(w = "speech" /\ lock = g)
  /\ g \notin ended
  /\ Becomes(g, w, "error")
  /\ UNCHANGED <<sessionVars, opening, pairs, reader, updates, lock, clientVars, lingering>>

WriteError(g, w) ==
  /\ work[g][w] = "error"
  /\ Writable
  /\ IF w = "llm" /\ g \in ended THEN UNCHANGED clientVars ELSE Deliver("failed", g)
  /\ Becomes(g, w, "failing")
  /\ UNCHANGED <<sessionVars, opening, pairs, reader, updates, lock, lingering>>

\* Fault: only the generation of a failed synthesis is cancelled.
CancelFailed_SpeechOnly(g, w) ==
  /\ work[g][w] = "failing"
  /\ IF cur = g /\ w = "speech"
       THEN CancelCurrent /\ Becomes(g, w, "telling")
       ELSE Becomes(g, w, "gone") /\ UNCHANGED <<cur, ended, suspected>>
  /\ UNCHANGED <<created, kind, opening, marked, pairs, reader, updates, lock, clientVars, lingering>>

\* cancelFailedGeneration: CancelGenerationID, then generation.cancelled.
CancelFailed(g, w) ==
  /\ work[g][w] = "failing"
  /\ IF cur = g
       THEN CancelCurrent /\ Becomes(g, w, "telling")
       ELSE Becomes(g, w, "gone") /\ UNCHANGED <<cur, ended, suspected>>
  /\ UNCHANGED <<created, kind, opening, marked, pairs, reader, updates, lock, clientVars, lingering>>

WriteCancelled(g, w) ==
  /\ work[g][w] = "telling"
  /\ Writable
  /\ Deliver("cancelled", g)
  /\ Becomes(g, w, "gone")
  /\ UNCHANGED <<sessionVars, opening, pairs, reader, updates, lock, lingering>>

\* A worker between two writes sees the ended context.
Stops(g, w) ==
  /\ work[g][w] = "run"
  /\ ~(w = "speech" /\ lock = g)
  /\ g \in ended
  /\ Becomes(g, w, "gone")
  /\ UNCHANGED <<sessionVars, opening, pairs, reader, updates, lock, clientVars, lingering>>
-----------------------------------------------------------------------------
Requests ==
  \/ \E k \in Kinds : CreateByReader(k)
  \/ CreateByVoice \/ Suspect \/ Confirm
  \/ \E g \in Gens : ClientCancels(g) \/ Overflow(g)

\* A worker that has said its last, has failed or whose context has ended.
Finishes(g, w) ==
  WriteDone(g, w) \/ WriteError(g, w) \/ CancelFailed(g, w) \/ WriteCancelled(g, w) \/ Stops(g, w)

Ends(g, w) == MarkDone(g, w) \/ Finishes(g, w)

Writes ==
  \/ WriteReaderCancelled \/ WriteUpdate
  \/ \E g \in Gens : WriteCreated(g) \/ WriteMetadata(g) \/ WritePcm(g) \/ PcmFails(g) \/ LlmEnds(g)

Next ==
  \/ Requests \/ Writes
  \/ \E g \in Gens, w \in Workers : Ends(g, w) \/ Fails(g, w)

Spec == Init /\ [][Next]_vars

(***************************************************************************)
(* A write returns (WriteTimeout), and a worker whose context has ended,   *)
(* that has failed or that has marked the generation done goes on.  Weak   *)
(* fairness is enough, since the lock is held for one pair and pairs are   *)
(* finitely many.  Nothing is assumed of users and clients, nor of the     *)
(* language model: the context of a generation has no deadline, and no     *)
(* timer waits for the client's response.text.done.                        *)
(***************************************************************************)
FairSpec ==
  /\ Spec
  /\ WF_vars(WriteReaderCancelled) /\ WF_vars(WriteUpdate)
  /\ \A g \in Gens : /\ WF_vars(WriteCreated(g))
                     /\ WF_vars(WritePcm(g) \/ PcmFails(g))
                     /\ \A w \in Workers : WF_vars(Finishes(g, w))
-----------------------------------------------------------------------------
(* Properties *)

TypeOK ==
  /\ created \in 0 .. MaxGens
  /\ kind \in [Gens -> KindSet]
  /\ opening \subseteq Gens
  /\ cur \in Gens \cup {NoGen}
  /\ ended \subseteq Gens
  /\ marked \in BOOLEAN
  /\ work \in [Gens -> [Workers -> {"none", "run", "done", "error", "failing", "telling", "gone"}]]
  /\ pairs \in [Gens -> 0 .. MaxPairs]
  /\ reader \in [doing : {"idle", "open", "cancel"}, gen : Gens \cup {NoGen}]
  /\ suspected \in {NoGen, cur}
  /\ updates \in Seq(Gens)
  /\ lock \in Gens \cup {NoGen}
  /\ lost \in {"no", "dropped", "protocol"}
  /\ sdk \in [gen : Gens \cup {NoGen}, pending : Gens \cup {NoGen}]
  /\ state \in [Gens -> {"unknown", "generating", "done", "cancelled", "failed"}]
  /\ told \subseteq Gens /\ lingering \subseteq Gens

\* realtime_writer.go: "Credit waits occur before this atomic pair; the lock
\* is shared by scoped writers", and the protocol: audio metadata is
\* "immediately followed by exactly one binary PCM message".  No other frame, of
\* whatever goroutine, gets in between: nothing but the end of its own generation
\* keeps a pair from being whole.
PairsWhole ==
  /\ sdk.pending # NoGen => lock = sdk.pending \/ sdk.pending \in ended
  /\ lost = "protocol" => lock # sdk.pending /\ sdk.pending \in ended

\* Nothing about a generation is under way to the client.
Quiet ==
  /\ opening = {} /\ reader = Idle /\ updates = <<>> /\ lock = NoGen
  /\ \A g \in Gens, w \in Workers : work[g][w] \in {"none", "run", "gone"}

\* Once nothing is under way, client and server agree: the generation the
\* server can still stop, or has just finished, is the one the client follows,
\* and every other the client knows of is settled.  (A client that follows a
\* lingering generation is excepted: generation.created is written under the
\* session's context, even for a generation that was replaced in between.)
ClientAgrees ==
  Quiet /\ Connected /\ sdk.gen \notin lingering =>
    /\ cur # NoGen => sdk.gen = cur /\ (state[cur] = "generating" \/ marked)
    /\ \A g \in Gens : state[g] = "generating" => g = cur

\* What many goroutines write to one socket is one conversation the client can
\* follow.
WireSound == TypeOK /\ PairsWhole /\ ClientAgrees

\* After generation.cancelled the client hears nothing more of that answer: it
\* is not announced and no audio of it comes.
NothingAfterCancelled ==
  [][/\ sdk'.gen # sdk.gen => sdk'.gen \notin told
     /\ sdk'.pending # sdk.pending => sdk'.pending \notin told]_vars

\* The text of a generation ends: the language model's stream does, or the client
\* sends response.text.done; and it is spoken (calls of the TTS provider and waits
\* for credit have timeouts).
TextEnds(g) == WF_vars(LlmEnds(g) \/ \E w \in Workers : MarkDone(g, w))

Settles(g) == state[g] = "generating" /\ g \notin lingering => ~Connected

\* docs/typescript-sdk.md: "`generation.done` resolves to `done` or `cancelled`".  A
\* generation that ended on the server, whoever ended it, ends for the client, even
\* if the language model never answers and the client falls silent.
EndedSettles == \A g \in Gens : []<>(g \in ended => Settles(g))

\* And so does one that is left to itself, if its text ends.  (Only lingering
\* generations are excepted, and what happens once the connection is lost.)
GenerationSettles ==
  /\ EndedSettles
  /\ \A g \in Gens : TextEnds(g) => []<>Settles(g)
=============================================================================
