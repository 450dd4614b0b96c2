---------------------------- MODULE SttAdmission ----------------------------
(***************************************************************************)
(* Admission to the recogniser, shared by committed, manual and            *)
(* speculative recognition (providers/stt/limited/provider.go).  A call    *)
(* takes one of QueueCapacity tokens or is refused, then one of Slots      *)
(* slots: an ordinary call waits for it until its context ends, a          *)
(* speculative one (TryTranscribe) leaves at once.  Here the recogniser    *)
(* may return at any time; Recognition puts SttRuntime in its place.       *)
(* Both token pools are buffered Go channels: a call that leaves hands its *)
(* slot to the first waiting call in the same step, so a slot is never     *)
(* free while a call waits.                                                *)
(***************************************************************************)
EXTENDS Integers, Sequences, FiniteSets, SequencesExt

CONSTANTS Ordinary,       \* calls of Transcribe
          Speculative,    \* calls of TryTranscribe
          Slots,          \* recognitions at a time (limited.New, concurrency)
          QueueCapacity   \* calls admitted at a time

ASSUME Capacities == Slots \in Nat \ {0} /\ QueueCapacity \in Nat \ {0} /\ QueueCapacity >= Slots
ASSUME Disjoint == Ordinary \cap Speculative = {}

Calls == Ordinary \cup Speculative

VARIABLES pc,        \* where each call is
          ended,     \* its context has ended
          queue,     \* admission tokens taken
          slots,     \* slots taken
          waiting    \* ordinary calls blocked on a slot, in order

vars == <<pc, ended, queue, slots, waiting>>

Init ==
  /\ pc = [c \in Calls |-> "idle"]
  /\ ended = [c \in Calls |-> FALSE]
  /\ queue = 0
  /\ slots = 0
  /\ waiting = <<>>
-----------------------------------------------------------------------------
\* A call returns, and its context goes with it.
Returned(c) == ended' = [ended EXCEPT ![c] = FALSE]

\* The admission token, or an immediate refusal.
Enter(c) ==
  /\ pc[c] = "idle"
  /\ queue < QueueCapacity
  /\ queue' = queue + 1
  /\ pc' = [pc EXCEPT ![c] = "entered"]
  /\ UNCHANGED <<ended, slots, waiting>>

\* A slot that is free now.
TakeSlot(c) ==
  /\ pc[c] = "entered"
  /\ slots < Slots
  /\ slots' = slots + 1
  /\ pc' = [pc EXCEPT ![c] = "holding"]
  /\ UNCHANGED <<ended, queue, waiting>>

\* An ordinary call blocks until a slot is handed to it.
Wait(c) ==
  /\ c \in Ordinary
  /\ pc[c] = "entered"
  /\ slots = Slots
  /\ waiting' = Append(waiting, c)
  /\ pc' = [pc EXCEPT ![c] = "waiting"]
  /\ UNCHANGED <<ended, queue, slots>>

\* TryTranscribe finds every slot taken: the deferred token comes back.
Busy(c) ==
  /\ c \in Speculative
  /\ pc[c] = "entered"
  /\ slots = Slots
  /\ queue' = queue - 1
  /\ pc' = [pc EXCEPT ![c] = "idle"]
  /\ Returned(c)
  /\ UNCHANGED <<slots, waiting>>

\* A call that gives up leaves the line, if it stands in it.
LeaveLine(c) ==
  \/ pc[c] = "entered" /\ UNCHANGED waiting
  \/ \E i \in DOMAIN waiting : waiting[i] = c /\ waiting' = RemoveAt(waiting, i)

\* Fault: the token is given back only by a call that had a slot.
GiveUp_Leaks(c) ==
  /\ c \in Ordinary
  /\ pc[c] \in {"entered", "waiting"}
  /\ ended[c]
  /\ LeaveLine(c)
  /\ pc' = [pc EXCEPT ![c] = "idle"]
  /\ Returned(c)
  /\ UNCHANGED <<queue, slots>>

\* The select of a waiting call, or of one about to wait, takes the ended context.
GiveUp(c) ==
  /\ c \in Ordinary
  /\ pc[c] \in {"entered", "waiting"}
  /\ ended[c]
  /\ LeaveLine(c)
  /\ queue' = queue - 1
  /\ pc' = [pc EXCEPT ![c] = "idle"]
  /\ Returned(c)
  /\ UNCHANGED slots

\* Fault: a counter instead of a channel: the slot is free until a waiting call
\* is scheduled to take it.
Leave_NoHandoff(c) ==
  /\ pc[c] = "holding"
  /\ queue' = queue - 1
  /\ slots' = slots - 1
  /\ waiting' = IF waiting = <<>> THEN waiting ELSE Tail(waiting)
  /\ pc' = [d \in Calls |-> IF d = c THEN "idle"
                            ELSE IF waiting # <<>> /\ d = Head(waiting) THEN "entered" ELSE pc[d]]
  /\ Returned(c)

\* The recogniser returned, or the context had ended before it was asked:
\* the deferred receives give back the slot, then the token.
Leave(c) ==
  /\ pc[c] = "holding"
  /\ queue' = queue - 1
  /\ IF waiting = <<>>
       THEN /\ slots' = slots - 1
            /\ pc' = [pc EXCEPT ![c] = "idle"]
            /\ UNCHANGED waiting
       ELSE /\ pc' = [pc EXCEPT ![c] = "idle", ![Head(waiting)] = "holding"]
            /\ waiting' = Tail(waiting)
            /\ UNCHANGED slots
  /\ Returned(c)

\* The caller, or its provider timeout, ends the context.
EndContext(c) ==
  /\ pc[c] # "idle"
  /\ ~ended[c]
  /\ ended' = [ended EXCEPT ![c] = TRUE]
  /\ UNCHANGED <<pc, queue, slots, waiting>>

Next == \E c \in Calls :
  \/ Enter(c) \/ TakeSlot(c) \/ Wait(c) \/ Busy(c)
  \/ GiveUp(c) \/ Leave(c) \/ EndContext(c)

Spec == Init /\ [][Next]_vars

-----------------------------------------------------------------------------
(* Properties *)

\* The pools stay within their capacities.
TypeOK ==
  /\ pc \in [Calls -> {"idle", "entered", "waiting", "holding"}]
  /\ \A c \in Calls : ended[c] \in BOOLEAN
  /\ queue \in 0 .. QueueCapacity
  /\ slots \in 0 .. Slots
  /\ waiting \in Seq(Ordinary)

Inside == {c \in Calls : pc[c] # "idle"}
Holding == {c \in Calls : pc[c] = "holding"}

\* Whatever way a call left (served, cancelled while it waited, refused as
\* busy), its token and its slot came back exactly once: a leak would shrink
\* the recogniser for the life of the server.
NothingLeaks == queue = Cardinality(Inside) /\ slots = Cardinality(Holding)

\* "TryTranscribe never queues speculative work behind useful work", nor may
\* it slip in front of it: while an ordinary call waits every slot is taken,
\* so no speculative call can get one before it.
NoOvertaking ==
  /\ waiting # <<>> => slots = Slots
  /\ Range(waiting) = {c \in Calls : pc[c] = "waiting"}
=============================================================================
