----------------------------- MODULE Recognition -----------------------------
(***************************************************************************)
(* A recognition as the server makes it: through the shared admission      *)
(* (SttAdmission, this module's own state) to the whisper.cpp runtime that  *)
(* SetSTTProvider puts behind it (SttRuntime, instance R).  A call that    *)
(* holds a slot calls the runtime with its own context and gives the slot  *)
(* back when the runtime returns: that return and Leave are one step.      *)
(* The engine never admits more calls than the runtime serves (Slots is    *)
(* its Concurrency, 1); limited.New takes any number, and with more of     *)
(* them calls also meet in the runtime's own queue.                        *)
(***************************************************************************)
EXTENDS SttAdmission

CONSTANTS Closers,          \* callers of Runtime.Close
          RuntimeCapacity,  \* Config.QueueCapacity of the runtime
          Devices,          \* settings of STT_DEVICE explored
          Boot, Nobody

ASSUME RuntimeAssumption ==
  RuntimeCapacity \in Nat \ {0} /\ Devices \subseteq {"auto", "cpu", "cuda"}

\* limited.New: the runtime's capacity, or 64 if that is less than the slots.
ASSUME AdmissionAssumption == RuntimeCapacity >= Slots => QueueCapacity = RuntimeCapacity

\* Each caller is its own goroutine, and there are finitely many calls.
ASSUME ActorsAssumption ==
  /\ IsFiniteSet(Calls)
  /\ Calls \cap Closers = {}
  /\ Boot \notin Calls \cup Closers
  /\ Nobody \notin Calls \cup Closers \cup {Boot}

VARIABLES device, rpc, slot, rwaiting, rqueue, worker, starting, procs, info,
          closed, rootEnded, closeDone, failed

R == INSTANCE SttRuntime WITH Requests <- Calls, QueueCapacity <- RuntimeCapacity,
                              pc <- rpc, waiting <- rwaiting, queue <- rqueue

admission == <<pc, queue, slots, waiting>>
runtime == <<device, rpc, slot, rwaiting, rqueue, worker, starting, procs, info,
             closed, rootEnded, closeDone, failed>>
allVars == <<admission, runtime, ended>>

RecognitionInit ==
  /\ pc = [c \in Calls |-> "idle"] /\ queue = 0 /\ slots = 0 /\ waiting = <<>>
  /\ ended = [a \in R!Users |-> FALSE]
  /\ R!Init
-----------------------------------------------------------------------------
\* Admission, and contexts that end there.  The server starts after NewRuntime.
Admission(c) ==
  /\ R!Booted
  /\ TakeSlot(c) \/ Wait(c) \/ Busy(c) \/ GiveUp(c)
  /\ UNCHANGED runtime

Arrives(c) == R!Booted /\ Enter(c) /\ UNCHANGED runtime
ContextEnds(c) == EndContext(c) /\ UNCHANGED runtime

\* The call has its slot and finds its context ended: the runtime is not asked.
NotAsked(c) ==
  /\ pc[c] = "holding" /\ rpc[c] = "idle" /\ ended[c]
  /\ Leave(c)
  /\ UNCHANGED runtime

\* A step of the runtime for a call; when it returns, the slot goes back.
Served(c, step) ==
  /\ step
  /\ IF rpc'[c] = "idle" THEN Leave(c) ELSE UNCHANGED <<admission, ended>>

Asks(c) == pc[c] = "holding" /\ rpc[c] = "idle" /\ Served(c, R!Call(c))
Transcribes(c) == Served(c, R!Transcribes(c))
Starts(a) == Served(a, R!Starts(a))
Answered(c) == Served(c, R!Answered(c))
InferFails(c) == Served(c, R!InferFails(c))

\* Fault: the deadline covers the wait for the slot only.
TimesOut_OnlyQueued(a) ==
  /\ rpc[a] \in {"entering", "waiting"}
  /\ ~ended[a]
  /\ ended' = [ended EXCEPT ![a] = TRUE]
  /\ UNCHANGED <<admission, runtime>>

\* InferenceTimeout, InitTimeout, or the AfterFunc of the runtime's context.
TimesOut(a) ==
  /\ rpc[a] \notin {"idle", "ready", "failed"}
  /\ ~ended[a]
  /\ ended' = [ended EXCEPT ![a] = TRUE]
  /\ UNCHANGED <<admission, runtime>>

Environment ==
  /\ \/ \E c \in Closers : R!Close(c)
     \/ \E p \in R!Processes : R!ProcessDies(p)
  /\ UNCHANGED <<admission, ended>>

TakesSlot == R!TakeSlot /\ UNCHANGED <<admission, ended>>
Closes(c) == R!Closes(c) /\ UNCHANGED <<admission, ended>>

RecognitionNext ==
  \/ \E c \in Calls :
       \/ Arrives(c) \/ Admission(c) \/ ContextEnds(c) \/ NotAsked(c)
       \/ Asks(c) \/ Transcribes(c) \/ Answered(c) \/ InferFails(c)
  \/ \E a \in R!Users : TimesOut(a) \/ Starts(a)
  \/ TakesSlot
  \/ \E c \in Closers : Closes(c)
  \/ Environment

RecognitionSpec == RecognitionInit /\ [][RecognitionNext]_allVars

\* What the goroutine of a call does on its own.
Runs(c) == Admission(c) \/ NotAsked(c) \/ Asks(c) \/ Transcribes(c) \/ Starts(c)
           \/ (ended[c] /\ InferFails(c))

(***************************************************************************)
(* Goroutines run; a start ends, at the latest by InitTimeout; a request   *)
(* past the runtime's queue has a deadline (InferenceTimeout), and one     *)
(* whose context has ended returns from the HTTP call.  Nobody has to call *)
(* Close or to cancel, and the process need never answer.                  *)
(***************************************************************************)
RecognitionFairSpec ==
  /\ RecognitionSpec
  /\ WF_allVars(TakesSlot) /\ WF_allVars(Starts(Boot))
  /\ \A c \in Calls : WF_allVars(Runs(c)) /\ WF_allVars(TimesOut(c))
  /\ \A c \in Closers : WF_allVars(Closes(c))
-----------------------------------------------------------------------------
(* Properties *)

\* Both pools of tokens are whole, the admission's and the runtime's: a call
\* that is refused, cancelled, timed out or served, or that meets a closed
\* runtime, returns what it took of each; and a speculative call never gets
\* ahead of one that waits.
PoolsSound == TypeOK /\ NothingLeaks /\ NoOvertaking /\ R!TypeOK /\ R!NothingLeaks

\* The recogniser process behind it all.
ProcessSound == R!ProcessSound

\* Every recognition ends, though the process may hang or die at any time and
\* the runtime be closed meanwhile: a waiting call is served or given up,
\* however many speculative calls come.  Every Close returns.
RecognitionEnds ==
  /\ \A c \in Calls : []<>(pc[c] = "idle")
  /\ \A c \in Closers : []<>(rpc[c] \in {"idle", "returned"})
=============================================================================
