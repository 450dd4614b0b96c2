----------------------------- MODULE SttRuntime -----------------------------
(***************************************************************************)
(* The resident recogniser: one whisper.cpp server process behind a        *)
(* bounded queue and a slot of one (providers/stt/whispercpp/runtime.go,   *)
(* worker.go).  Modelled: start up and the CUDA-to-CPU fallback, the steps *)
(* of Transcribe (closed check, queue, slot, re-check, reload, inference), *)
(* contexts ending at any moment, the process dying at any moment, a bad   *)
(* answer, and Close racing all of it.  A process serves one request at a  *)
(* time and does not notice that its client has gone.                      *)
(* Abstracted: audio, texts, measurements, the health polling (Ready or    *)
(* InitFails says how it ended); mode "process" is not modelled.           *)
(***************************************************************************)
EXTENDS Integers, Sequences, FiniteSets, SequencesExt

CONSTANTS Requests,        \* callers of Transcribe
          Closers,         \* callers of Close
          QueueCapacity,   \* Config.QueueCapacity (Recognition states the assumptions)
          Devices          \* settings of STT_DEVICE explored

CONSTANTS Boot, Nobody     \* NewRuntime's own initialisation; no actor

\* Operating-system processes; a reaped one may be launched again under its
\* number.  Two are enough to see two at once.
Processes == 1 .. 2
NoProcess == 0

VARIABLES device,     \* Config.Device
          pc,         \* where each caller is
          ended,      \* its context has ended; Recognition changes it, here it is read
          slot,       \* who holds the slot
          waiting,    \* who waits for the slot, in order
          queue,      \* queue tokens taken
          worker,     \* Runtime.worker: its process
          starting,   \* the process the worker factory is bringing up
          procs,      \* the processes
          info,       \* RuntimeInfo
          closed,     \* Runtime.closed
          rootEnded,  \* Runtime.ctx has been cancelled
          closeDone,  \* Runtime.closeDone has been closed
          failed      \* history: something other than a caller's context failed

vars == <<device, pc, slot, waiting, queue, worker, starting, procs, info,
          closed, rootEnded, closeDone, failed>>

callerVars == <<pc, slot, waiting, queue>>
closeVars == <<closed, rootEnded, closeDone>>

Users == Requests \cup {Boot}
Gone == [state |-> "gone", device |-> "cpu", job |-> Nobody]

Init ==
  /\ device \in Devices
  /\ pc = [a \in Users \cup Closers |-> IF a = Boot THEN "init" ELSE "idle"]
  /\ slot = Nobody
  /\ waiting = <<>>
  /\ queue = 0
  /\ worker = NoProcess
  /\ starting = NoProcess
  /\ procs = [p \in Processes |-> Gone]
  /\ info = [state |-> "initializing", available |-> FALSE, fallback |-> FALSE, selected |-> "none"]
  /\ closed = FALSE
  /\ rootEnded = FALSE
  /\ closeDone = FALSE
  /\ failed = FALSE

Booted == pc[Boot] \in {"ready", "failed"}
Initialized == pc[Boot] = "ready"

\* Fault: the choice of the device forgets the fallback.
Preferred_Forgets == IF device = "auto" THEN "cuda" ELSE device

\* The device the next worker is started on.
Preferred == IF device = "auto" THEN IF info.fallback THEN "cpu" ELSE "cuda" ELSE device

Running(p) == p # NoProcess /\ procs[p].state = "running"

\* child.close: kill it if it runs, wait for it, release it.
Kill(p) == IF p = NoProcess THEN procs ELSE [procs EXCEPT ![p] = Gone]

\* noteCrash: an automatic CUDA choice is given up for good.
NoteCrash(i) ==
  [i EXCEPT !.state = "reload_required",
            !.fallback = @ \/ (device = "auto" /\ i.selected = "cuda")]

\* A request leaves holding the slot: slot and token go back.
Leave(r) ==
  /\ pc' = [pc EXCEPT ![r] = "idle"]
  /\ slot' = Nobody
  /\ queue' = queue - 1
  /\ UNCHANGED waiting
-----------------------------------------------------------------------------
(* The callers *)

\* The first look at closed, then a token or a refusal, as two steps.
Call(r) ==
  /\ Booted
  /\ pc[r] = "idle"
  /\ IF closed \/ ~Initialized
       THEN UNCHANGED pc
       ELSE pc' = [pc EXCEPT ![r] = "entering"]
  /\ UNCHANGED <<device, slot, waiting, queue, worker, starting, procs, info, closeVars, failed>>

\* Fault: one token too many.
Enter_OneMore(r) ==
  /\ pc[r] = "entering"
  /\ queue <= QueueCapacity
  /\ queue' = queue + 1
  /\ waiting' = Append(waiting, r)
  /\ pc' = [pc EXCEPT ![r] = "waiting"]
  /\ UNCHANGED <<device, slot, worker, starting, procs, info, closeVars, failed>>

Enter(r) ==
  /\ pc[r] = "entering"
  /\ queue < QueueCapacity
  /\ queue' = queue + 1
  /\ waiting' = Append(waiting, r)
  /\ pc' = [pc EXCEPT ![r] = "waiting"]
  /\ UNCHANGED <<device, slot, worker, starting, procs, info, closeVars, failed>>

Refused(r) ==
  /\ pc[r] = "entering"
  /\ queue = QueueCapacity
  /\ pc' = [pc EXCEPT ![r] = "idle"]
  /\ UNCHANGED <<device, slot, waiting, queue, worker, starting, procs, info, closeVars, failed>>

\* The free slot goes to the one who has waited longest, a Close included.
TakeSlot ==
  /\ slot = Nobody
  /\ waiting # <<>>
  /\ slot' = Head(waiting)
  /\ waiting' = Tail(waiting)
  /\ pc' = [pc EXCEPT ![Head(waiting)] = "holding"]
  /\ UNCHANGED <<device, queue, worker, starting, procs, info, closeVars, failed>>

\* Fault: the token stays behind.
GiveUp_Leaks(r) ==
  /\ pc[r] = "waiting"
  /\ ended[r]
  /\ \E i \in DOMAIN waiting : waiting[i] = r /\ waiting' = RemoveAt(waiting, i)
  /\ pc' = [pc EXCEPT ![r] = "idle"]
  /\ UNCHANGED <<device, slot, queue, worker, starting, procs, info, closeVars, failed>>

GiveUp(r) ==
  /\ pc[r] = "waiting"
  /\ ended[r]
  /\ \E i \in DOMAIN waiting : waiting[i] = r /\ waiting' = RemoveAt(waiting, i)
  /\ queue' = queue - 1
  /\ pc' = [pc EXCEPT ![r] = "idle"]
  /\ UNCHANGED <<device, slot, worker, starting, procs, info, closeVars, failed>>

\* Fault: a request trusts that Close has cancelled its context.
Check_TrustsContext(r) ==
  /\ r \in Requests
  /\ pc[r] = "holding"
  /\ IF ended[r]
       THEN /\ Leave(r)
            /\ UNCHANGED <<worker, procs, info>>
       ELSE /\ UNCHANGED <<slot, waiting, queue>>
            /\ IF Running(worker)
                 THEN /\ pc' = [pc EXCEPT ![r] = "posting"]
                      /\ UNCHANGED <<worker, procs, info>>
                 ELSE /\ pc' = [pc EXCEPT ![r] = "init"]
                      /\ procs' = Kill(worker)
                      /\ worker' = NoProcess
                      /\ info' = IF worker = NoProcess THEN info ELSE NoteCrash(info)
  /\ UNCHANGED <<device, starting, closeVars, failed>>

\* With the slot: give up if closed or cancelled meanwhile; use the worker if
\* it is alive, otherwise reap it and start another.
Check(r) ==
  /\ r \in Requests
  /\ pc[r] = "holding"
  /\ IF closed \/ rootEnded \/ ended[r]
       THEN /\ Leave(r)
            /\ UNCHANGED <<worker, procs, info>>
       ELSE /\ UNCHANGED <<slot, waiting, queue>>
            /\ IF Running(worker)
                 THEN /\ pc' = [pc EXCEPT ![r] = "posting"]
                      /\ UNCHANGED <<worker, procs, info>>
                 ELSE /\ pc' = [pc EXCEPT ![r] = "init"]
                      /\ procs' = Kill(worker)
                      /\ worker' = NoProcess
                      /\ info' = IF worker = NoProcess THEN info ELSE NoteCrash(info)
  /\ UNCHANGED <<device, starting, closeVars, failed>>
-----------------------------------------------------------------------------
(* initialize: the worker factory, for NewRuntime or for a request *)

Launch(a) ==
  /\ pc[a] = "init"
  /\ \E p \in Processes :
       /\ procs[p].state = "gone" /\ \A q \in Processes : procs[q].state = "gone" => p <= q
       /\ procs' = [procs EXCEPT ![p] = [Gone EXCEPT !.state = "running", !.device = Preferred]]
       /\ starting' = p
  /\ pc' = [pc EXCEPT ![a] = "probing"]
  /\ UNCHANGED <<device, slot, waiting, queue, worker, info, closeVars, failed>>

\* Healthy, on the device asked for, and the probe was answered in time.
Ready(a) ==
  /\ pc[a] = "probing"
  /\ Running(starting)
  /\ ~ended[a]
  /\ worker' = starting
  /\ starting' = NoProcess
  /\ info' = [info EXCEPT !.state = "ready", !.available = TRUE, !.selected = procs[starting].device]
  /\ pc' = [pc EXCEPT ![a] = IF a = Boot THEN "ready" ELSE "posting"]
  /\ UNCHANGED <<device, slot, waiting, queue, procs, closeVars, failed>>

\* Fault: the process that did not come up is left to itself.
InitFails_Abandons(a) ==
  /\ pc[a] \in {"init", "probing"}
  /\ procs' = procs
  /\ starting' = NoProcess
  /\ failed' = (failed \/ ~ended[a])
  /\ IF device = "auto" /\ Preferred = "cuda" /\ ~ended[a]
       THEN /\ info' = [info EXCEPT !.fallback = TRUE]
            /\ pc' = [pc EXCEPT ![a] = "init"]
            /\ UNCHANGED <<slot, waiting, queue>>
       ELSE /\ info' = [info EXCEPT !.state = "unavailable", !.available = FALSE]
            /\ IF a = Boot
                 THEN /\ pc' = [pc EXCEPT ![a] = "failed"]
                      /\ UNCHANGED <<slot, waiting, queue>>
                 ELSE Leave(a)
  /\ UNCHANGED <<device, worker, closeVars>>

\* It could not be launched, died, did not answer or was not on CUDA, or the
\* context ended.  An automatic choice of CUDA is tried again on the CPU.
InitFails(a) ==
  /\ pc[a] \in {"init", "probing"}
  /\ procs' = Kill(starting)
  /\ starting' = NoProcess
  /\ failed' = (failed \/ ~ended[a])
  /\ IF device = "auto" /\ Preferred = "cuda" /\ ~ended[a]
       THEN /\ info' = [info EXCEPT !.fallback = TRUE]
            /\ pc' = [pc EXCEPT ![a] = "init"]
            /\ UNCHANGED <<slot, waiting, queue>>
       ELSE /\ info' = [info EXCEPT !.state = "unavailable", !.available = FALSE]
            /\ IF a = Boot
                 THEN /\ pc' = [pc EXCEPT ![a] = "failed"]
                      /\ UNCHANGED <<slot, waiting, queue>>
                 ELSE Leave(a)
  /\ UNCHANGED <<device, worker, closeVars>>
-----------------------------------------------------------------------------
(* Inference *)

\* The request reaches the process; a process that still computes for another
\* keeps it waiting.
Post(r) ==
  /\ pc[r] = "posting"
  /\ procs' = IF Running(worker) /\ procs[worker].job = Nobody
                THEN [procs EXCEPT ![worker].job = r] ELSE procs
  /\ pc' = [pc EXCEPT ![r] = "inferring"]
  /\ UNCHANGED <<device, slot, waiting, queue, worker, starting, info, closeVars, failed>>

Answered(r) ==
  /\ pc[r] = "inferring"
  /\ Running(worker)
  /\ procs[worker].job = r
  /\ ~ended[r]
  /\ procs' = [procs EXCEPT ![worker].job = Nobody]
  /\ Leave(r)
  /\ UNCHANGED <<device, worker, starting, info, closeVars, failed>>

\* Fault: a cancelled request keeps the worker for the next one.
InferFails_Keeps(r) ==
  /\ pc[r] = "inferring"
  /\ procs' = IF ended[r] THEN procs ELSE Kill(worker)
  /\ worker' = IF ended[r] THEN worker ELSE NoProcess
  /\ failed' = (failed \/ ~ended[r])
  /\ info' = IF ended[r] THEN [info EXCEPT !.state = "reload_required"] ELSE NoteCrash(info)
  /\ Leave(r)
  /\ UNCHANGED <<device, starting, closeVars>>

\* Fault: every failed request counts as a crash.
InferFails_AlwaysCrash(r) ==
  /\ pc[r] = "inferring"
  /\ procs' = Kill(worker)
  /\ worker' = NoProcess
  /\ failed' = (failed \/ ~ended[r])
  /\ info' = NoteCrash(info)
  /\ Leave(r)
  /\ UNCHANGED <<device, starting, closeVars>>

\* The process died, answered badly, or the context ended, before or after an
\* answer: the process is killed and reaped before the slot is given back.
InferFails(r) ==
  /\ pc[r] = "inferring"
  /\ procs' = Kill(worker)
  /\ worker' = NoProcess
  /\ failed' = (failed \/ ~ended[r])
  /\ info' = IF ended[r] THEN [info EXCEPT !.state = "reload_required"] ELSE NoteCrash(info)
  /\ Leave(r)
  /\ UNCHANGED <<device, starting, closeVars>>

ProcessDies(p) ==
  /\ Running(p)
  /\ procs' = [procs EXCEPT ![p].state = "exited", ![p].job = Nobody]
  /\ failed' = TRUE
  /\ UNCHANGED <<device, callerVars, worker, starting, info, closeVars>>
-----------------------------------------------------------------------------
(* Close *)

Close(c) ==
  /\ Booted
  /\ pc[c] = "idle"
  /\ IF closed
       THEN /\ pc' = [pc EXCEPT ![c] = "awaiting"]
            /\ UNCHANGED <<closed, info>>
       ELSE /\ closed' = TRUE
            /\ info' = [info EXCEPT !.available = FALSE, !.state = "closed"]
            /\ pc' = [pc EXCEPT ![c] = "cancelling"]
  /\ UNCHANGED <<device, slot, waiting, queue, worker, starting, procs,
                 rootEnded, closeDone, failed>>

CancelRoot(c) ==
  /\ pc[c] = "cancelling"
  /\ rootEnded' = TRUE
  /\ waiting' = Append(waiting, c)
  /\ pc' = [pc EXCEPT ![c] = "waiting"]
  /\ UNCHANGED <<device, slot, queue, worker, starting, procs, info, closed, closeDone, failed>>

\* Fault: a concurrent Close is never told.
CloseWorker_Silent(c) ==
  /\ c \in Closers
  /\ pc[c] = "holding"
  /\ procs' = Kill(worker)
  /\ worker' = NoProcess
  /\ info' = [info EXCEPT !.available = FALSE, !.state = "closed"]
  /\ slot' = Nobody
  /\ pc' = [pc EXCEPT ![c] = "returned"]
  /\ UNCHANGED <<device, waiting, queue, starting, closeVars, failed>>

CloseWorker(c) ==
  /\ c \in Closers
  /\ pc[c] = "holding"
  /\ procs' = Kill(worker)
  /\ worker' = NoProcess
  /\ info' = [info EXCEPT !.available = FALSE, !.state = "closed"]
  /\ slot' = Nobody
  /\ closeDone' = TRUE
  /\ pc' = [pc EXCEPT ![c] = "returned"]
  /\ UNCHANGED <<device, waiting, queue, starting, closed, rootEnded, failed>>

CloseReturns(c) ==
  /\ pc[c] = "awaiting"
  /\ closeDone
  /\ pc' = [pc EXCEPT ![c] = "returned"]
  /\ UNCHANGED <<device, slot, waiting, queue, worker, starting, procs, info, closeVars, failed>>
-----------------------------------------------------------------------------
Starts(a) == Launch(a) \/ Ready(a) \/ InitFails(a)
Transcribes(r) == Enter(r) \/ Refused(r) \/ GiveUp(r) \/ Check(r) \/ Post(r)
Closes(c) == CancelRoot(c) \/ CloseWorker(c) \/ CloseReturns(c)
-----------------------------------------------------------------------------
(* Properties *)

TypeOK ==
  /\ device \in Devices
  /\ pc \in [Users \cup Closers -> {"idle", "entering", "waiting", "holding", "init", "probing", "posting",
                                    "inferring", "cancelling", "awaiting", "returned", "ready", "failed"}]
  /\ slot \in Requests \cup Closers \cup {Nobody}
  /\ waiting \in Seq(Requests \cup Closers)
  /\ queue \in 0 .. QueueCapacity
  /\ worker \in Processes \cup {NoProcess}
  /\ starting \in Processes \cup {NoProcess}
  /\ procs \in [Processes -> [state : {"gone", "running", "exited"}, device : {"cpu", "cuda"},
                              job : Requests \cup {Nobody}]]
  /\ info \in [state : {"initializing", "ready", "unavailable", "reload_required", "closed"},
               available : BOOLEAN, fallback : BOOLEAN, selected : {"none", "cpu", "cuda"}]
  /\ {closed, rootEnded, closeDone, failed} \subseteq BOOLEAN

\* "Runtime owns one process/model/context": whatever failed, was cancelled or
\* was closed in between, there is never a second recogniser process.
OneProcess == Cardinality({p \in Processes : procs[p].state # "gone"}) <= 1

\* "Never queue behind obsolete work": a request is computed at once; it never
\* waits in a process that still works for a caller that has gone.
NeverBehindObsolete ==
  \A r \in Requests : pc[r] = "inferring" /\ Running(worker) => procs[worker].job = r

\* Once a Close has returned, the first or a concurrent one, the process is
\* gone for good and the runtime says so; no request that was waiting for the
\* slot brings it back.
ClosedForGood ==
  (\E c \in Closers : pc[c] = "returned") =>
    /\ \A p \in Processes : procs[p].state = "gone"
    /\ info.state = "closed" /\ ~info.available

\* CUDA is given up only under STT_DEVICE=auto and only after a failure of the
\* process or of its start: cancelling requests, as every speculative
\* recognition may be, never moves the server to the CPU.  Then it is given up
\* for good, whichever request starts the next process.
FallbackSound ==
  info.fallback =>
    /\ failed /\ device = "auto"
    /\ \A p \in Processes : Running(p) => procs[p].device = "cpu"

\* One process, working for the request being served or for nobody, and none
\* once the runtime is closed: whatever failed, was cancelled, or came at once.
ProcessSound == OneProcess /\ NeverBehindObsolete /\ ClosedForGood /\ FallbackSound

\* Every token and the slot come back, whichever way a request left.
NothingLeaks ==
  /\ queue = Cardinality({r \in Requests : pc[r] \notin {"idle", "entering"}})
  /\ slot = Nobody => \A r \in Requests : pc[r] \in {"idle", "entering", "waiting"}
=============================================================================
