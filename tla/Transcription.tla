---------------------------- MODULE Transcription ----------------------------
(***************************************************************************)
(* /v1/transcription and the connection slots of the server: accepting and *)
(* releasing a connection (transport/http/public.go acceptPublic), Server. *)
(* Shutdown (server.go), and the handler of a transcription connection     *)
(* with its recognition job (transcription.go).  The handler's reader and  *)
(* the job share the connection's writer: a frame goes out only under a    *)
(* context that is still live, checked with the writer's lock held, so one *)
(* step writes one frame.                                                  *)
(* Abstracted: audio is "empty" or not, texts and error codes are left     *)
(* out; the recogniser returns when it likes and soon after its context    *)
(* ended (SttAdmission, SttRuntime).                                       *)
(***************************************************************************)
EXTENDS Integers, FiniteSets

CONSTANTS Conns,         \* connections
          MaxSessions,   \* protocol.MaxSessions
          MaxTurns       \* bound: commits of all connections

ASSUME SessionsAssumption == IsFiniteSet(Conns) /\ MaxSessions \in Nat \ {0} /\ MaxTurns \in Nat \ {0}

Turns == 1 .. MaxTurns
None == 0

VARIABLES stage,        \* the handler of each connection
          connections,  \* Server.connections: slots taken
          ended,        \* the connection's context has been cancelled
          rootEnded,    \* Server.rootContext has been cancelled
          shutdown,     \* the caller of Server.Shutdown
          collecting,   \* PCM is being collected
          filled,       \* some has arrived
          turn,         \* the last turn committed
          active,       \* the turn of the active job
          job,          \* what the job of each turn does
          jobEnded,     \* transcriptionJob.cancel has been called
          out,          \* frames sent for each turn
          closedFrame   \* session.closed and its cleanup_complete

vars == <<stage, connections, ended, rootEnded, shutdown, collecting, filled, turn, active, job,
          jobEnded, out, closedFrame>>

serverVars == <<connections, rootEnded, shutdown>>
inputVars == <<collecting, filled, turn>>
jobVars == <<active, job, jobEnded, out>>

Init ==
  /\ stage = [c \in Conns |-> "none"]
  /\ connections = 0
  /\ ended = [c \in Conns |-> FALSE]
  /\ rootEnded = FALSE
  /\ shutdown = "none"
  /\ collecting = [c \in Conns |-> FALSE]
  /\ filled = [c \in Conns |-> FALSE]
  /\ turn = [c \in Conns |-> None]
  /\ active = [c \in Conns |-> None]
  /\ job = [c \in Conns |-> [t \in Turns |-> "none"]]
  /\ jobEnded = [c \in Conns |-> [t \in Turns |-> FALSE]]
  /\ out = [c \in Conns |-> [t \in Turns |-> {}]]
  /\ closedFrame = [c \in Conns |-> "none"]

\* A context and those derived from it.
Dead(c) == rootEnded \/ ended[c]
JobDead(c, t) == Dead(c) \/ jobEnded[c][t]

\* workerGroup.active
Working(c) == {t \in Turns : job[c][t] \notin {"none", "gone"}}

Sent(c, t, kind) == out' = [out EXCEPT ![c][t] = @ \cup {kind}]
-----------------------------------------------------------------------------
(* acceptPublic, Shutdown *)

\* Fault: the slots are not bounded.
Accept_Unlimited(c) ==
  /\ stage[c] = "none"
  /\ connections' = connections + 1
  /\ stage' = [stage EXCEPT ![c] = "accepting"]
  /\ UNCHANGED <<ended, rootEnded, shutdown, inputVars, jobVars, closedFrame>>

\* A slot or 429; the slot first, then the look at the server's context.
Accept(c) ==
  /\ stage[c] = "none"
  /\ connections < MaxSessions
  /\ connections' = connections + 1
  /\ stage' = [stage EXCEPT ![c] = "accepting"]
  /\ UNCHANGED <<ended, rootEnded, shutdown, inputVars, jobVars, closedFrame>>

\* Fault: a connection turned away keeps its slot.
Accepted_Leaks(c) ==
  /\ stage[c] = "accepting"
  /\ IF rootEnded
       THEN stage' = [stage EXCEPT ![c] = "gone"] /\ UNCHANGED connections
       ELSE stage' = [stage EXCEPT ![c] = "open"] /\ UNCHANGED connections
  /\ UNCHANGED <<ended, rootEnded, shutdown, inputVars, jobVars, closedFrame>>

\* Fault: the server context is only looked at before the slot is taken.
Accepted_Unchecked(c) ==
  /\ stage[c] = "accepting"
  /\ IF FALSE
       THEN stage' = [stage EXCEPT ![c] = "gone"] /\ connections' = connections - 1
       ELSE stage' = [stage EXCEPT ![c] = "open"] /\ UNCHANGED connections
  /\ UNCHANGED <<ended, rootEnded, shutdown, inputVars, jobVars, closedFrame>>

\* 503 with the slot given back, or the handler with its session.created.
Accepted(c) ==
  /\ stage[c] = "accepting"
  /\ IF rootEnded
       THEN stage' = [stage EXCEPT ![c] = "gone"] /\ connections' = connections - 1
       ELSE stage' = [stage EXCEPT ![c] = "open"] /\ UNCHANGED connections
  /\ UNCHANGED <<ended, rootEnded, shutdown, inputVars, jobVars, closedFrame>>

\* The deferred release: cancel, CloseNow, give the slot back.
Release(c) ==
  /\ stage[c] = "leaving"
  /\ ended[c]
  /\ stage' = [stage EXCEPT ![c] = "gone"]
  /\ connections' = connections - 1
  /\ UNCHANGED <<ended, rootEnded, shutdown, inputVars, jobVars, closedFrame>>

Shutdown ==
  /\ shutdown = "none"
  /\ rootEnded' = TRUE
  /\ shutdown' = "waiting"
  /\ UNCHANGED <<stage, connections, ended, inputVars, jobVars, closedFrame>>

ShutdownDone ==
  /\ shutdown = "waiting"
  /\ connections = 0
  /\ shutdown' = "done"
  /\ UNCHANGED <<stage, connections, ended, rootEnded, inputVars, jobVars, closedFrame>>
-----------------------------------------------------------------------------
(* handleTranscription: the reader *)

\* input_audio.start; while a job is active it is refused.
Start(c) ==
  /\ stage[c] = "open"
  /\ active[c] = None
  /\ ~collecting[c]
  /\ collecting' = [collecting EXCEPT ![c] = TRUE]
  /\ filled' = [filled EXCEPT ![c] = FALSE]
  /\ UNCHANGED <<stage, ended, serverVars, turn, jobVars, closedFrame>>

\* PCM; past the limit of a turn everything collected is dropped.
Binary(c) ==
  /\ stage[c] = "open"
  /\ collecting[c]
  /\ \/ filled' = [filled EXCEPT ![c] = TRUE] /\ UNCHANGED collecting
     \/ filled' = [filled EXCEPT ![c] = FALSE] /\ collecting' = [collecting EXCEPT ![c] = FALSE]
  /\ UNCHANGED <<stage, ended, serverVars, turn, jobVars, closedFrame>>

\* Fault: a cancelled job no longer counts as active.
Cancel_ClearsActive(c) ==
  /\ stage[c] = "open"
  /\ collecting' = [collecting EXCEPT ![c] = FALSE]
  /\ filled' = [filled EXCEPT ![c] = FALSE]
  /\ IF active[c] = None
       THEN UNCHANGED <<stage, jobEnded>>
       ELSE /\ jobEnded' = [jobEnded EXCEPT ![c][active[c]] = TRUE]
            /\ stage' = [stage EXCEPT ![c] = "acking"]
  /\ active' = [active EXCEPT ![c] = None]
  /\ UNCHANGED <<ended, serverVars, turn, job, out, closedFrame>>

\* cancel and stop: drop the input, cancel the active job, then acknowledge.
Cancel(c) ==
  /\ stage[c] = "open"
  /\ collecting' = [collecting EXCEPT ![c] = FALSE]
  /\ filled' = [filled EXCEPT ![c] = FALSE]
  /\ IF active[c] = None
       THEN UNCHANGED <<stage, jobEnded>>
       ELSE /\ jobEnded' = [jobEnded EXCEPT ![c][active[c]] = TRUE]
            /\ stage' = [stage EXCEPT ![c] = "acking"]
  /\ UNCHANGED <<ended, serverVars, turn, active, job, out, closedFrame>>

\* input_audio.cancelled names the turn that was active when it was cancelled:
\* the reader is its only committer, so that is the last one.
Acknowledge(c) ==
  /\ stage[c] = "acking"
  /\ IF Dead(c) THEN UNCHANGED out ELSE Sent(c, turn[c], "cancelled")
  /\ stage' = [stage EXCEPT ![c] = "open"]
  /\ UNCHANGED <<ended, serverVars, inputVars, active, job, jobEnded, closedFrame>>

\* input_audio.commit: an empty one is refused and collecting goes on.
Commit(c) ==
  /\ stage[c] = "open"
  /\ collecting[c] /\ filled[c]
  /\ Cardinality({p \in Conns \X Turns : p[2] <= turn[p[1]]}) < MaxTurns
  /\ turn' = [turn EXCEPT ![c] = @ + 1]
  /\ active' = [active EXCEPT ![c] = turn[c] + 1]
  /\ collecting' = [collecting EXCEPT ![c] = FALSE]
  /\ filled' = [filled EXCEPT ![c] = FALSE]
  /\ IF Dead(c) THEN UNCHANGED out ELSE Sent(c, turn[c] + 1, "committed")
  /\ stage' = [stage EXCEPT ![c] = "spawning"]
  /\ UNCHANGED <<ended, serverVars, job, jobEnded, closedFrame>>

\* writer.Go starts no worker under an ended context.
Spawn(c) ==
  /\ stage[c] = "spawning"
  /\ job' = IF JobDead(c, turn[c]) THEN job ELSE [job EXCEPT ![c][turn[c]] = "recognizing"]
  /\ stage' = [stage EXCEPT ![c] = "open"]
  /\ UNCHANGED <<ended, serverVars, inputVars, active, jobEnded, out, closedFrame>>

\* Fault: the read does not end with the server.
Disconnect_IgnoresServer(c) ==
  /\ stage[c] = "open"
  /\ ~rootEnded
  /\ stage' = [stage EXCEPT ![c] = "leaving"]
  /\ UNCHANGED <<ended, serverVars, inputVars, jobVars, closedFrame>>

\* The client has gone, or the context ended: the read fails.
Disconnect(c) ==
  /\ stage[c] = "open"
  /\ stage' = [stage EXCEPT ![c] = "leaving"]
  /\ UNCHANGED <<ended, serverVars, inputVars, jobVars, closedFrame>>

\* cleanup, from session.close or deferred: cancel, then wait for the worker ...
Cleanup(c) ==
  /\ stage[c] \in {"open", "leaving"}
  /\ ~ended[c]
  /\ ended' = [ended EXCEPT ![c] = TRUE]
  /\ stage' = [stage EXCEPT ![c] = IF stage[c] = "open" THEN "closing" ELSE "leaving"]
  /\ UNCHANGED <<serverVars, inputVars, jobVars, closedFrame>>

\* Fault: nobody waits for the worker.
Closed_Early(c) ==
  /\ stage[c] = "closing"
  /\ closedFrame' = [closedFrame EXCEPT ![c] = "complete"]
  /\ stage' = [stage EXCEPT ![c] = "leaving"]
  /\ UNCHANGED <<ended, serverVars, inputVars, jobVars>>

\* ... for at most CleanupTimeout; session.closed goes out under a context of
\* its own and tells which it was.
Closed(c) ==
  /\ stage[c] = "closing"
  /\ closedFrame' = [closedFrame EXCEPT ![c] = IF Working(c) = {} THEN "complete" ELSE "incomplete"]
  /\ stage' = [stage EXCEPT ![c] = "leaving"]
  /\ UNCHANGED <<ended, serverVars, inputVars, jobVars>>
-----------------------------------------------------------------------------
(* handleTranscription: the job *)

\* Fault: a failed recognition is only logged.
Recognized_Silent(c, t) ==
  /\ job[c][t] = "recognizing"
  /\ \E next \in {"final", "finishing"} :
       job' = [job EXCEPT ![c][t] = IF JobDead(c, t) THEN "finishing" ELSE next]
  /\ UNCHANGED <<stage, ended, serverVars, inputVars, active, jobEnded, out, closedFrame>>

\* transcribe returned: nothing more is said once the job's context has ended.
Recognized(c, t) ==
  /\ job[c][t] = "recognizing"
  /\ \E next \in {"final", "error"} :
       job' = [job EXCEPT ![c][t] = IF JobDead(c, t) THEN "finishing" ELSE next]
  /\ UNCHANGED <<stage, ended, serverVars, inputVars, active, jobEnded, out, closedFrame>>

\* Fault: the frame goes out whatever became of the job.
Report_Unchecked(c, t) ==
  /\ job[c][t] \in {"final", "error"}
  /\ IF Dead(c) THEN UNCHANGED out ELSE Sent(c, t, job[c][t])
  /\ job' = [job EXCEPT ![c][t] = "finishing"]
  /\ UNCHANGED <<stage, ended, serverVars, inputVars, active, jobEnded, closedFrame>>

\* Fault: the context of the job does not come from the connection.
Report_OwnContext(c, t) ==
  /\ job[c][t] \in {"final", "error"}
  /\ IF jobEnded[c][t] THEN UNCHANGED out ELSE Sent(c, t, job[c][t])
  /\ job' = [job EXCEPT ![c][t] = "finishing"]
  /\ UNCHANGED <<stage, ended, serverVars, inputVars, active, jobEnded, closedFrame>>

\* The frame, under the job's context.
Report(c, t) ==
  /\ job[c][t] \in {"final", "error"}
  /\ IF JobDead(c, t) THEN UNCHANGED out ELSE Sent(c, t, job[c][t])
  /\ job' = [job EXCEPT ![c][t] = "finishing"]
  /\ UNCHANGED <<stage, ended, serverVars, inputVars, active, jobEnded, closedFrame>>

\* The deferred functions: the connection may take a new turn, then the
\* worker group is told.
Finish(c, t) ==
  /\ job[c][t] = "finishing"
  /\ active' = [active EXCEPT ![c] = IF @ = t THEN None ELSE @]
  /\ jobEnded' = [jobEnded EXCEPT ![c][t] = TRUE]
  /\ job' = [job EXCEPT ![c][t] = "exiting"]
  /\ UNCHANGED <<stage, ended, serverVars, inputVars, out, closedFrame>>

WorkerExits(c, t) ==
  /\ job[c][t] = "exiting"
  /\ job' = [job EXCEPT ![c][t] = "gone"]
  /\ UNCHANGED <<stage, ended, serverVars, inputVars, active, jobEnded, out, closedFrame>>
-----------------------------------------------------------------------------
Client(c) == Accept(c) \/ Start(c) \/ Binary(c) \/ Cancel(c) \/ Commit(c)
Handler(c) == Accepted(c) \/ Acknowledge(c) \/ Spawn(c) \/ Closed(c) \/ Release(c)
Leaves(c) == Disconnect(c) \/ Cleanup(c)
Job(c, t) == Recognized(c, t) \/ Report(c, t) \/ Finish(c, t) \/ WorkerExits(c, t)

Next ==
  \/ \E c \in Conns : Client(c) \/ Handler(c) \/ Leaves(c) \/ \E t \in Turns : Job(c, t)
  \/ Shutdown \/ ShutdownDone

Spec == Init /\ [][Next]_vars

(***************************************************************************)
(* Goroutines run.  A read under an ended context fails, so the handler    *)
(* leaves; the recogniser returns, at the latest after ProviderTimeout.    *)
(* No client has to send anything and nobody has to shut the server down.  *)
(***************************************************************************)
FairSpec ==
  /\ Spec
  /\ WF_vars(ShutdownDone)
  /\ \A c \in Conns : /\ WF_vars(Handler(c))
                      /\ SF_vars(rootEnded /\ Disconnect(c))
                      /\ WF_vars(stage[c] = "leaving" /\ Cleanup(c))
                      /\ \A t \in Turns : WF_vars(Job(c, t))
-----------------------------------------------------------------------------
(* Properties *)

TypeOK ==
  /\ stage \in [Conns -> {"none", "accepting", "open", "acking", "spawning", "closing", "leaving", "gone"}]
  /\ connections \in 0 .. MaxSessions
  /\ ended \in [Conns -> BOOLEAN]
  /\ rootEnded \in BOOLEAN
  /\ shutdown \in {"none", "waiting", "done"}
  /\ collecting \in [Conns -> BOOLEAN] /\ filled \in [Conns -> BOOLEAN]
  /\ turn \in [Conns -> 0 .. MaxTurns] /\ active \in [Conns -> 0 .. MaxTurns]
  /\ job \in [Conns -> [Turns -> {"none", "recognizing", "final", "error", "finishing", "exiting", "gone"}]]
  /\ jobEnded \in [Conns -> [Turns -> BOOLEAN]]
  /\ out \in [Conns -> [Turns -> SUBSET {"committed", "final", "error", "cancelled"}]]
  /\ closedFrame \in [Conns -> {"none", "complete", "incomplete"}]

\* Every way out of a handler gives its slot back, once.
SlotsMatchHandlers == connections = Cardinality({c \in Conns : stage[c] \notin {"none", "gone"}})

\* One recognition per connection: also a cancelled one counts until the
\* recogniser has let go of it.
OneJob == \A c \in Conns : Cardinality({t \in Turns : job[c][t] = "recognizing"}) <= 1

\* cleanup_complete: true is the truth; no worker outlives it.
CompleteMeansIdle == \A c \in Conns : closedFrame[c] = "complete" => Working(c) = {}

\* When Shutdown has returned no handler runs, and none starts afterwards: a
\* connection that was being accepted either held its slot or is turned away.
ShutdownMeansEmpty ==
  shutdown = "done" => \A c \in Conns : stage[c] \in {"none", "accepting", "gone"}

\* What the server and a handler say of themselves is true at any moment.
HandlersSound ==
  TypeOK /\ SlotsMatchHandlers /\ OneJob /\ CompleteMeansIdle /\ ShutdownMeansEmpty

\* The last word is the last: "No late final from the cancelled job is emitted
\* after cancellation acknowledgement", and session.closed is the last frame of
\* its connection, also when a job was about to report.
LastWordIsLast ==
  [][\A c \in Conns :
       /\ \A t \in Turns : "cancelled" \in out[c][t] => out'[c][t] = out[c][t]
       /\ closedFrame[c] # "none" => out'[c] = out[c]]_vars

\* A committed turn is answered by a final, an error or a cancellation, unless
\* the connection goes first; and Shutdown returns, because every handler
\* notices the ended context and leaves.
EverythingEnds ==
  /\ []<>(shutdown # "waiting")
  /\ \A c \in Conns, t \in Turns :
       []<>("committed" \in out[c][t] => \/ out[c][t] \cap {"final", "error", "cancelled"} # {}
                                         \/ stage[c] \in {"leaving", "closing", "gone"})
=============================================================================
