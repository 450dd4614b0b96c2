------------------------- MODULE TranscriptionProofs -------------------------
(***************************************************************************)
(* Transcription connections, for every number of connections, slots and   *)
(* turns: what the server and its handlers say is true, and nothing follows *)
(* an acknowledged cancellation or session.closed.                         *)
(***************************************************************************)
EXTENDS Transcription, FiniteSetTheorems, TLAPS

Handlers == {c \in Conns : stage[c] \notin {"none", "gone"}}

\* A turn that was not committed has left no trace; what a job has still to do
\* it does for the active turn; a turn reported as cancelled has been.
Turn(c, t) ==
  /\ t > turn[c] => job[c][t] = "none" /\ out[c][t] = {}
  /\ job[c][t] \in {"recognizing", "final", "error", "finishing"} => active[c] = t
  /\ "cancelled" \in out[c][t] => jobEnded[c][t]

\* Nothing is collected while a job is active, which is that of the last turn
\* or none; what the reader does between two steps is about the last turn; and
\* session.closed leaves a connection that has ended.
Conn(c) ==
  /\ collecting[c] => active[c] = None
  /\ active[c] \in {None, turn[c]}
  /\ stage[c] = "spawning" => /\ turn[c] \in Turns /\ active[c] = turn[c]
                              /\ job[c][turn[c]] = "none"
  /\ stage[c] = "acking" => turn[c] \in Turns /\ jobEnded[c][turn[c]]
  /\ stage[c] = "closing" => ended[c]
  /\ closedFrame[c] # "none" => stage[c] \in {"leaving", "gone"} /\ ended[c]
  /\ closedFrame[c] = "complete" => \A t \in Turns : job[c][t] \in {"none", "gone"}

Server ==
  /\ SlotsMatchHandlers
  /\ shutdown # "none" => rootEnded
  /\ ShutdownMeansEmpty

Reader == \A c \in Conns : Conn(c)
Jobs == \A c \in Conns, t \in Turns : Turn(c, t)

IInv == TypeOK /\ Server /\ Reader /\ Jobs

USE SessionsAssumption DEF Turns, None

-----------------------------------------------------------------------------

\* The bound on commits bounds the turns of each connection.
LEMMA TurnBelowCommits ==
  ASSUME TypeOK, NEW c \in Conns
  PROVE  LET all == {p \in Conns \X Turns : p[2] <= turn[p[1]]}
         IN  turn[c] <= Cardinality(all) /\ Cardinality(all) \in Nat
<1> DEFINE all == {p \in Conns \X Turns : p[2] <= turn[p[1]]}
           f == [t \in 1 .. turn[c] |-> <<c, t>>]
<1>1. IsFiniteSet(Conns \X Turns)
  <2>1. IsFiniteSet(1 .. MaxTurns)
    BY FS_Interval
  <2> QED
    BY <2>1, FS_Product
<1>2. IsFiniteSet(all)
  BY <1>1, FS_Subset
<1>3. turn[c] \in 0 .. MaxTurns
  BY DEF TypeOK
<1>4. f \in Injection(1 .. turn[c], all)
  BY <1>3 DEF Injection, IsInjective
<1>5. Cardinality(1 .. turn[c]) <= Cardinality(all)
  <2> HIDE DEF f, all
  <2> QED BY <1>2, <1>4, FS_Injection
<1>6. Cardinality(1 .. turn[c]) = turn[c]
  BY <1>3, FS_Interval
<1> QED
  BY <1>2, <1>5, <1>6, FS_CardinalityType

\* The slots change with the handlers.
LEMMA HandlersFinite == IsFiniteSet(Handlers) /\ Cardinality(Handlers) \in Nat
  BY FS_Subset, FS_CardinalityType DEF Handlers

\* A handler that enters takes a slot ...
LEMMA HandlerEnters ==
  ASSUME TypeOK, NEW c \in Conns, NEW s \in {"accepting"},
         stage[c] = "none", stage' = [stage EXCEPT ![c] = s],
         connections' = connections + 1, SlotsMatchHandlers
  PROVE  SlotsMatchHandlers'
<1>1. Handlers' = Handlers \cup {c} /\ c \notin Handlers
  BY DEF Handlers, TypeOK
<1> QED
  BY <1>1, HandlersFinite, FS_AddElement DEF SlotsMatchHandlers, Handlers

\* ... and one that leaves gives one back.
LEMMA HandlerLeaves ==
  ASSUME TypeOK, NEW c \in Conns, stage[c] \notin {"none", "gone"},
         stage' = [stage EXCEPT ![c] = "gone"],
         connections' = connections - 1, SlotsMatchHandlers
  PROVE  SlotsMatchHandlers' /\ connections' \in 0 .. MaxSessions
<1>1. Handlers' = Handlers \ {c} /\ c \in Handlers
  BY DEF Handlers, TypeOK
<1>2. /\ IsFiniteSet(Handlers \ {c})
      /\ Cardinality(Handlers \ {c}) = Cardinality(Handlers) - 1
  BY <1>1, HandlersFinite, FS_RemoveElement
<1>3. Cardinality(Handlers') \in Nat
  BY <1>1, <1>2, FS_CardinalityType
<1>4. connections = Cardinality(Handlers) /\ connections \in 0 .. MaxSessions
  BY DEF SlotsMatchHandlers, Handlers, TypeOK
<1> QED
  BY <1>1, <1>2, <1>4, <1>3, HandlersFinite DEF SlotsMatchHandlers, Handlers

\* A handler that stays one does not touch the slots.
LEMMA HandlersStay ==
  ASSUME TypeOK, SlotsMatchHandlers, connections' = connections,
         \A c \in Conns : stage[c] \in {"none", "gone"} <=> stage'[c] \in {"none", "gone"}
  PROVE  SlotsMatchHandlers'
<1>1. Handlers' = Handlers
  BY DEF Handlers
<1> QED
  BY <1>1 DEF SlotsMatchHandlers, Handlers

-----------------------------------------------------------------------------

Kinds == {"committed", "final", "error", "cancelled"}

\* At most this frame is added, to those of its turn.
Adds(c, t, kind) ==
  \A d \in Conns, u \in Turns :
    \/ out'[d][u] = out[d][u]
    \/ d = c /\ u = t /\ out'[d][u] = out[d][u] \cup {kind}

LEMMA SentAdds ==
  ASSUME TypeOK, NEW c \in Conns, NEW t \in Turns, NEW kind \in Kinds, Sent(c, t, kind)
  PROVE  out' \in [Conns -> [Turns -> SUBSET Kinds]] /\ Adds(c, t, kind)
<1>1. out \in [Conns -> [Turns -> SUBSET Kinds]]
  BY DEF TypeOK, Kinds
<1>2. out[c][t] \cup {kind} \in SUBSET Kinds
  BY <1>1
<1> QED
  BY <1>1, <1>2 DEF Sent, Adds

\* The turn a job is active for.
LEMMA ActiveTurn ==
  ASSUME TypeOK, NEW c \in Conns, active[c] # None
  PROVE  active[c] \in Turns
BY DEF TypeOK

\* There is room for the turn a commit begins.
LEMMA NextTurn ==
  ASSUME TypeOK, NEW c \in Conns, Commit(c)
  PROVE  turn[c] + 1 \in Turns
<1>1. turn[c] \in 0 .. MaxTurns
  BY DEF TypeOK
<1> QED
  BY <1>1, TurnBelowCommits DEF Commit

\* Every step keeps the types.
LEMMA TypeStep ==
  ASSUME TypeOK, SlotsMatchHandlers, Reader, [Next]_vars
  PROVE  TypeOK'
<1>1. CASE UNCHANGED vars
  BY <1>1 DEF vars, TypeOK
<1>2. ASSUME NEW c \in Conns, Accept(c) PROVE TypeOK'
  BY <1>2 DEF Accept, inputVars, jobVars, TypeOK
<1>3. ASSUME NEW c \in Conns, Accepted(c) PROVE TypeOK'
  BY <1>3, HandlerLeaves DEF Accepted, inputVars, jobVars, TypeOK
<1>4. ASSUME NEW c \in Conns, Acknowledge(c) PROVE TypeOK'
  <2>1. turn[c] \in Turns
    BY <1>4 DEF Acknowledge, Reader, Conn
  <2>2. out' \in [Conns -> [Turns -> SUBSET Kinds]]
    <3>1. CASE Dead(c)
      BY <1>4, <3>1 DEF Acknowledge, TypeOK, Kinds
    <3>2. CASE ~Dead(c)
      BY <1>4, <2>1, <3>2, SentAdds DEF Acknowledge, Kinds
    <3> QED
      BY <3>1, <3>2
  <2> QED
    BY <1>4, <2>2 DEF Acknowledge, serverVars, inputVars, TypeOK, Kinds
<1>5. ASSUME NEW c \in Conns, Spawn(c) PROVE TypeOK'
  BY <1>5 DEF Spawn, serverVars, inputVars, JobDead, Dead, TypeOK
<1>6. ASSUME NEW c \in Conns, Closed(c) PROVE TypeOK'
  BY <1>6 DEF Closed, serverVars, inputVars, jobVars, Working, TypeOK
<1>7. ASSUME NEW c \in Conns, Release(c) PROVE TypeOK'
  BY <1>7, HandlerLeaves DEF Release, inputVars, jobVars, TypeOK
<1>8. ASSUME NEW c \in Conns, Disconnect(c) PROVE TypeOK'
  BY <1>8 DEF Disconnect, serverVars, inputVars, jobVars, TypeOK
<1>9. ASSUME NEW c \in Conns, Cleanup(c) PROVE TypeOK'
  BY <1>9 DEF Cleanup, serverVars, inputVars, jobVars, TypeOK
<1>10. ASSUME NEW c \in Conns, Start(c) PROVE TypeOK'
  BY <1>10 DEF Start, serverVars, jobVars, TypeOK
<1>11. ASSUME NEW c \in Conns, Binary(c) PROVE TypeOK'
  BY <1>11 DEF Binary, serverVars, jobVars, TypeOK
<1>12. ASSUME NEW c \in Conns, Cancel(c) PROVE TypeOK'
  <2>1. CASE active[c] = None
    BY <1>12, <2>1 DEF Cancel, serverVars, TypeOK
  <2>2. CASE active[c] # None
    <3>1. active[c] \in Turns
      BY <2>2, ActiveTurn
    <3>2. jobEnded' = [jobEnded EXCEPT ![c][active[c]] = TRUE]
      BY <1>12, <2>2 DEF Cancel
    <3>3. jobEnded' \in [Conns -> [Turns -> BOOLEAN]]
      BY <3>1, <3>2 DEF TypeOK
    <3>4. stage' = [stage EXCEPT ![c] = "acking"]
      BY <1>12, <2>2 DEF Cancel
    <3> QED
      BY <1>12, <3>3, <3>4 DEF Cancel, serverVars, TypeOK
  <2> QED
    BY <2>1, <2>2
<1>13. ASSUME NEW c \in Conns, Commit(c) PROVE TypeOK'
  <2>1. turn[c] + 1 \in Turns
    BY <1>13, NextTurn
  <2>2. out' \in [Conns -> [Turns -> SUBSET Kinds]]
    <3>1. CASE Dead(c)
      BY <1>13, <3>1 DEF Commit, TypeOK, Kinds
    <3>2. CASE ~Dead(c)
      BY <1>13, <2>1, <3>2, SentAdds DEF Commit, Kinds
    <3> QED
      BY <3>1, <3>2
  <2>3. turn' \in [Conns -> 0 .. MaxTurns] /\ active' \in [Conns -> 0 .. MaxTurns]
    BY <1>13, <2>1 DEF Commit, TypeOK
  <2> QED
    BY <1>13, <2>2, <2>3 DEF Commit, serverVars, TypeOK, Kinds
<1>14. ASSUME NEW c \in Conns, NEW t \in Turns, Recognized(c, t) PROVE TypeOK'
  BY <1>14 DEF Recognized, serverVars, inputVars, JobDead, Dead, TypeOK
<1>15. ASSUME NEW c \in Conns, NEW t \in Turns, Report(c, t) PROVE TypeOK'
  <2>1. out' \in [Conns -> [Turns -> SUBSET Kinds]]
    <3>1. CASE JobDead(c, t)
      BY <1>15, <3>1 DEF Report, TypeOK, Kinds
    <3>2. CASE ~JobDead(c, t)
      <4>1. job[c][t] \in Kinds /\ Sent(c, t, job[c][t])
        BY <1>15, <3>2 DEF Report, Kinds
      <4> QED
        BY <4>1, SentAdds
    <3> QED
      BY <3>1, <3>2
  <2> QED
    BY <1>15, <2>1 DEF Report, serverVars, inputVars, TypeOK, Kinds
<1>16. ASSUME NEW c \in Conns, NEW t \in Turns, Finish(c, t) PROVE TypeOK'
  BY <1>16 DEF Finish, serverVars, inputVars, TypeOK
<1>17. ASSUME NEW c \in Conns, NEW t \in Turns, WorkerExits(c, t) PROVE TypeOK'
  BY <1>17 DEF WorkerExits, serverVars, inputVars, TypeOK
<1>18. CASE Shutdown
  BY <1>18 DEF Shutdown, inputVars, jobVars, TypeOK
<1>19. CASE ShutdownDone
  BY <1>19 DEF ShutdownDone, inputVars, jobVars, TypeOK
<1> QED
  BY <1>1, <1>2, <1>3, <1>4, <1>5, <1>6, <1>7, <1>8, <1>9, <1>10, <1>11, <1>12, <1>13,
     <1>14, <1>15, <1>16, <1>17, <1>18, <1>19 DEF Next, Client, Handler, Leaves, Job

\* Every step keeps the order of the reader's and the jobs' work.
LEMMA ReaderStep ==
  ASSUME TypeOK, Reader, Jobs, [Next]_vars
  PROVE  Reader' /\ Jobs'
<1>1. CASE UNCHANGED vars
  BY <1>1 DEF vars, TypeOK, Reader, Jobs, Conn, Turn
<1>2. ASSUME NEW c \in Conns, Accept(c) PROVE Reader' /\ Jobs'
  BY <1>2 DEF Accept, inputVars, jobVars, TypeOK, Reader, Jobs, Conn, Turn
<1>3. ASSUME NEW c \in Conns, Accepted(c) PROVE Reader' /\ Jobs'
  BY <1>3 DEF Accepted, inputVars, jobVars, TypeOK, Reader, Jobs, Conn, Turn
<1>4. ASSUME NEW c \in Conns, Acknowledge(c) PROVE Reader' /\ Jobs'
  <2>1. Adds(c, turn[c], "cancelled")
    <3>1. CASE Dead(c)
      BY <1>4, <3>1 DEF Acknowledge, Adds
    <3>2. CASE ~Dead(c)
      <4>1. turn[c] \in Turns /\ Sent(c, turn[c], "cancelled")
        BY <1>4, <3>2 DEF Acknowledge, Reader, Conn
      <4> QED
        BY <4>1, SentAdds DEF Kinds
    <3> QED
      BY <3>1, <3>2
  <2>2. ASSUME NEW d \in Conns PROVE Conn(d)'
    <3>1. CASE d = c
      <4>1. /\ stage[c] = "acking" /\ stage'[c] = "open"
            /\ UNCHANGED <<collecting, turn, active, closedFrame>>
        BY <1>4 DEF Acknowledge, inputVars, TypeOK
      <4> QED
        BY <3>1, <4>1 DEF Reader, Conn
    <3>2. CASE d # c
      BY <1>4, <3>2 DEF Acknowledge, serverVars, inputVars, TypeOK, Reader, Conn
    <3> QED
      BY <3>1, <3>2
  <2>3. ASSUME NEW d \in Conns, NEW u \in Turns PROVE Turn(d, u)'
    <3>1. CASE d = c
      BY <1>4, <3>1, <2>1 DEF Adds, Acknowledge, serverVars, inputVars, TypeOK, Reader, Jobs, Conn, Turn
    <3>2. CASE d # c
      BY <1>4, <3>2, <2>1 DEF Adds, Acknowledge, serverVars, inputVars, TypeOK, Jobs, Turn
    <3> QED
      BY <3>1, <3>2
  <2> QED
    BY <2>2, <2>3 DEF Reader, Jobs
<1>5. ASSUME NEW c \in Conns, Spawn(c) PROVE Reader' /\ Jobs'
  BY <1>5 DEF Spawn, serverVars, inputVars, JobDead, Dead, TypeOK, Reader, Jobs, Conn, Turn
<1>6. ASSUME NEW c \in Conns, Closed(c) PROVE Reader' /\ Jobs'
  <2>1. ASSUME NEW d \in Conns PROVE Conn(d)'
    <3>1. CASE d = c
      <4>1. /\ stage[c] = "closing" /\ stage'[c] = "leaving"
            /\ closedFrame'[c] = "complete" => Working(c) = {}
            /\ UNCHANGED <<collecting, turn, active, job, ended>>
        BY <1>6 DEF Closed, inputVars, jobVars, TypeOK
      <4>2. Working(c) = {} => \A t \in Turns : job[c][t] \in {"none", "gone"}
        BY DEF Working
      <4> QED
        BY <3>1, <4>1, <4>2 DEF Reader, Conn
    <3>2. CASE d # c
      BY <1>6, <3>2 DEF Closed, serverVars, inputVars, jobVars, Working, TypeOK, Reader, Conn
    <3> QED
      BY <3>1, <3>2
  <2>2. ASSUME NEW d \in Conns, NEW u \in Turns PROVE Turn(d, u)'
    <3>1. CASE d = c
      BY <1>6, <3>1 DEF Closed, serverVars, inputVars, jobVars, Working, TypeOK, Reader, Jobs, Conn, Turn
    <3>2. CASE d # c
      BY <1>6, <3>2 DEF Closed, serverVars, inputVars, jobVars, Working, TypeOK, Jobs, Turn
    <3> QED
      BY <3>1, <3>2
  <2> QED
    BY <2>1, <2>2 DEF Reader, Jobs
<1>7. ASSUME NEW c \in Conns, Release(c) PROVE Reader' /\ Jobs'
  BY <1>7 DEF Release, inputVars, jobVars, TypeOK, Reader, Jobs, Conn, Turn
<1>8. ASSUME NEW c \in Conns, Disconnect(c) PROVE Reader' /\ Jobs'
  BY <1>8 DEF Disconnect, serverVars, inputVars, jobVars, TypeOK, Reader, Jobs, Conn, Turn
<1>9. ASSUME NEW c \in Conns, Cleanup(c) PROVE Reader' /\ Jobs'
  BY <1>9 DEF Cleanup, serverVars, inputVars, jobVars, TypeOK, Reader, Jobs, Conn, Turn
<1>10. ASSUME NEW c \in Conns, Start(c) PROVE Reader' /\ Jobs'
  BY <1>10 DEF Start, serverVars, jobVars, TypeOK, Reader, Jobs, Conn, Turn
<1>11. ASSUME NEW c \in Conns, Binary(c) PROVE Reader' /\ Jobs'
  <2>1. ASSUME NEW d \in Conns PROVE Conn(d)'
    <3>1. CASE d = c
      BY <1>11, <3>1 DEF Binary, serverVars, jobVars, TypeOK, Reader, Conn
    <3>2. CASE d # c
      BY <1>11, <3>2 DEF Binary, serverVars, jobVars, TypeOK, Reader, Conn
    <3> QED
      BY <3>1, <3>2
  <2>2. ASSUME NEW d \in Conns, NEW u \in Turns PROVE Turn(d, u)'
    <3>1. CASE d = c
      BY <1>11, <3>1 DEF Binary, serverVars, jobVars, TypeOK, Reader, Jobs, Conn, Turn
    <3>2. CASE d # c
      BY <1>11, <3>2 DEF Binary, serverVars, jobVars, TypeOK, Jobs, Turn
    <3> QED
      BY <3>1, <3>2
  <2> QED
    BY <2>1, <2>2 DEF Reader, Jobs
<1>12. ASSUME NEW c \in Conns, Cancel(c) PROVE Reader' /\ Jobs'
  <2>1. ASSUME NEW d \in Conns PROVE Conn(d)'
    <3>1. CASE d = c
      BY <1>12, <3>1, ActiveTurn DEF Cancel, serverVars, TypeOK, Reader, Conn
    <3>2. CASE d # c
      BY <1>12, <3>2, ActiveTurn DEF Cancel, serverVars, TypeOK, Reader, Conn
    <3> QED
      BY <3>1, <3>2
  <2>2. ASSUME NEW d \in Conns, NEW u \in Turns PROVE Turn(d, u)'
    <3>1. CASE d = c
      <4>1. jobEnded[c][u] => jobEnded'[c][u]
        <5>1. CASE active[c] = None
          BY <1>12, <5>1 DEF Cancel
        <5>2. CASE active[c] # None
          BY <1>12, <5>2, ActiveTurn DEF Cancel, TypeOK
        <5> QED
          BY <5>1, <5>2
      <4>2. UNCHANGED <<turn, active, job, out>>
        BY <1>12 DEF Cancel
      <4> QED
        BY <3>1, <4>1, <4>2 DEF Jobs, Turn
    <3>2. CASE d # c
      BY <1>12, <3>2, ActiveTurn DEF Cancel, serverVars, TypeOK, Jobs, Turn
    <3> QED
      BY <3>1, <3>2
  <2> QED
    BY <2>1, <2>2 DEF Reader, Jobs
<1>13. ASSUME NEW c \in Conns, Commit(c) PROVE Reader' /\ Jobs'
  <2>1. turn[c] + 1 \in Turns /\ turn[c] \in Nat
    BY <1>13, NextTurn DEF TypeOK
  <2>2. Adds(c, turn[c] + 1, "committed")
    <3>1. CASE Dead(c)
      BY <1>13, <3>1 DEF Commit, Adds
    <3>2. CASE ~Dead(c)
      <4>1. Sent(c, turn[c] + 1, "committed")
        BY <1>13, <3>2 DEF Commit
      <4> QED
        BY <2>1, <4>1, SentAdds DEF Kinds
    <3> QED
      BY <3>1, <3>2
  <2>3. ASSUME NEW d \in Conns PROVE Conn(d)'
    <3>1. CASE d = c
      <4>1. job[c][turn[c] + 1] = "none"
        BY <2>1 DEF Jobs, Turn
      <4>2. /\ stage[c] = "open" /\ stage'[c] = "spawning"
            /\ turn'[c] = turn[c] + 1 /\ active'[c] = turn[c] + 1 /\ collecting'[c] = FALSE
            /\ UNCHANGED <<job, closedFrame>>
        BY <1>13 DEF Commit, TypeOK
      <4> QED
        BY <2>1, <3>1, <4>1, <4>2 DEF Reader, Conn
    <3>2. CASE d # c
      BY <1>13, <3>2, <2>2, <2>1 DEF Commit, serverVars, TypeOK, Reader, Conn
    <3> QED
      BY <3>1, <3>2
  <2>4. ASSUME NEW d \in Conns, NEW u \in Turns PROVE Turn(d, u)'
    <3>1. CASE d = c
      <4>1. /\ collecting[c] /\ turn'[c] = turn[c] + 1
            /\ UNCHANGED <<job, jobEnded>>
        BY <1>13 DEF Commit, TypeOK
      <4>2. active[c] # u
        BY <4>1 DEF Reader, Conn
      <4>3. u > turn'[c] => out'[c][u] = out[c][u]
        BY <2>2, <4>1 DEF Adds
      <4>4. "cancelled" \in out'[c][u] => "cancelled" \in out[c][u]
        BY <2>2 DEF Adds
      <4> QED
        BY <2>1, <3>1, <4>1, <4>2, <4>3, <4>4 DEF Jobs, Turn
    <3>2. CASE d # c
      BY <1>13, <3>2, <2>2, <2>1 DEF Adds, Commit, serverVars, TypeOK, Jobs, Turn
    <3> QED
      BY <3>1, <3>2
  <2> QED
    BY <2>3, <2>4 DEF Reader, Jobs
<1>14. ASSUME NEW c \in Conns, NEW t \in Turns, Recognized(c, t) PROVE Reader' /\ Jobs'
  BY <1>14 DEF Recognized, serverVars, inputVars, JobDead, Dead, TypeOK, Reader, Jobs, Conn, Turn
<1>15. ASSUME NEW c \in Conns, NEW t \in Turns, Report(c, t) PROVE Reader' /\ Jobs'
  <2>1. Adds(c, t, job[c][t])
    <3>1. CASE JobDead(c, t)
      BY <1>15, <3>1 DEF Report, Adds
    <3>2. CASE ~JobDead(c, t)
      <4>1. job[c][t] \in Kinds /\ Sent(c, t, job[c][t])
        BY <1>15, <3>2 DEF Report, Kinds
      <4> QED
        BY <4>1, SentAdds
    <3> QED
      BY <3>1, <3>2
  <2>2. ASSUME NEW d \in Conns PROVE Conn(d)'
    <3>1. CASE d = c
      BY <1>15, <3>1 DEF Report, serverVars, inputVars, TypeOK, Reader, Conn
    <3>2. CASE d # c
      BY <1>15, <3>2 DEF Report, serverVars, inputVars, TypeOK, Reader, Conn
    <3> QED
      BY <3>1, <3>2
  <2>3. ASSUME NEW d \in Conns, NEW u \in Turns PROVE Turn(d, u)'
    <3>1. CASE d = c
      BY <1>15, <3>1, <2>1 DEF Adds, Report, serverVars, inputVars, TypeOK, Reader, Jobs, Conn, Turn
    <3>2. CASE d # c
      BY <1>15, <3>2, <2>1 DEF Adds, Report, serverVars, inputVars, TypeOK, Jobs, Turn
    <3> QED
      BY <3>1, <3>2
  <2> QED
    BY <2>2, <2>3 DEF Reader, Jobs
<1>16. ASSUME NEW c \in Conns, NEW t \in Turns, Finish(c, t) PROVE Reader' /\ Jobs'
  BY <1>16 DEF Finish, serverVars, inputVars, TypeOK, Reader, Jobs, Conn, Turn
<1>17. ASSUME NEW c \in Conns, NEW t \in Turns, WorkerExits(c, t) PROVE Reader' /\ Jobs'
  BY <1>17 DEF WorkerExits, serverVars, inputVars, TypeOK, Reader, Jobs, Conn, Turn
<1>18. CASE Shutdown
  BY <1>18 DEF Shutdown, inputVars, jobVars, TypeOK, Reader, Jobs, Conn, Turn
<1>19. CASE ShutdownDone
  BY <1>19 DEF ShutdownDone, inputVars, jobVars, TypeOK, Reader, Jobs, Conn, Turn
<1> QED
  BY <1>1, <1>2, <1>3, <1>4, <1>5, <1>6, <1>7, <1>8, <1>9, <1>10, <1>11, <1>12, <1>13,
     <1>14, <1>15, <1>16, <1>17, <1>18, <1>19 DEF Next, Client, Handler, Leaves, Job

\* A handler at work that goes on working leaves the server as it is.
LEMMA HandlerWorks ==
  ASSUME TypeOK, Server, NEW c \in Conns, stage[c] \notin {"none", "accepting", "gone"},
         UNCHANGED serverVars, stage'[c] \notin {"none", "gone"},
         \A d \in Conns \ {c} : stage'[d] = stage[d]
  PROVE  Server'
<1>1. SlotsMatchHandlers'
  <2>1. \A d \in Conns : stage[d] \in {"none", "gone"} <=> stage'[d] \in {"none", "gone"}
    OBVIOUS
  <2> QED
    BY <2>1, HandlersStay DEF serverVars, Server
<1>2. ShutdownMeansEmpty'
  BY DEF Server, ShutdownMeansEmpty, serverVars
<1> QED
  BY <1>1, <1>2 DEF Server, serverVars

\* Nor does what only concerns inputs and jobs.
LEMMA ServerSame ==
  ASSUME Server, UNCHANGED serverVars, UNCHANGED stage
  PROVE  Server'
BY DEF Server, SlotsMatchHandlers, ShutdownMeansEmpty, serverVars

\* Every step keeps what the server says of its connections.
LEMMA ServerStep ==
  ASSUME TypeOK, Server, Reader, [Next]_vars
  PROVE  Server'
<1>1. CASE UNCHANGED vars
  BY <1>1, ServerSame DEF vars, serverVars
<1>2. ASSUME NEW c \in Conns, Accept(c) PROVE Server'
  <2>1. SlotsMatchHandlers'
    BY <1>2, HandlerEnters DEF Accept, Server
  <2>2. ShutdownMeansEmpty'
    BY <1>2 DEF Accept, Server, ShutdownMeansEmpty, TypeOK
  <2> QED
    BY <1>2, <2>1, <2>2 DEF Accept, Server
<1>3. ASSUME NEW c \in Conns, Accepted(c) PROVE Server'
  <2>1. CASE rootEnded
    <3>1. SlotsMatchHandlers'
      BY <1>3, <2>1, HandlerLeaves DEF Accepted, Server
    <3>2. ShutdownMeansEmpty'
      BY <1>3, <2>1 DEF Accepted, Server, ShutdownMeansEmpty, TypeOK
    <3> QED
      BY <1>3, <3>1, <3>2 DEF Accepted, Server
  <2>2. CASE ~rootEnded
    <3>1. \A d \in Conns : stage[d] \in {"none", "gone"} <=> stage'[d] \in {"none", "gone"}
      BY <1>3, <2>2 DEF Accepted, TypeOK
    <3>2. SlotsMatchHandlers'
      BY <1>3, <2>2, <3>1, HandlersStay DEF Accepted, Server
    <3> QED
      BY <1>3, <2>2, <3>2 DEF Accepted, Server, ShutdownMeansEmpty
  <2> QED
    BY <2>1, <2>2
<1>4. ASSUME NEW c \in Conns, Acknowledge(c) PROVE Server'
  BY <1>4, HandlerWorks DEF Acknowledge, TypeOK
<1>5. ASSUME NEW c \in Conns, Spawn(c) PROVE Server'
  BY <1>5, HandlerWorks DEF Spawn, TypeOK
<1>6. ASSUME NEW c \in Conns, Closed(c) PROVE Server'
  BY <1>6, HandlerWorks DEF Closed, TypeOK
<1>7. ASSUME NEW c \in Conns, Release(c) PROVE Server'
  <2>1. SlotsMatchHandlers'
    BY <1>7, HandlerLeaves DEF Release, Server
  <2>2. ShutdownMeansEmpty'
    BY <1>7 DEF Release, Server, ShutdownMeansEmpty, TypeOK
  <2> QED
    BY <1>7, <2>1, <2>2 DEF Release, Server
<1>8. ASSUME NEW c \in Conns, Disconnect(c) PROVE Server'
  BY <1>8, HandlerWorks DEF Disconnect, TypeOK
<1>9. ASSUME NEW c \in Conns, Cleanup(c) PROVE Server'
  BY <1>9, HandlerWorks DEF Cleanup, TypeOK
<1>10. ASSUME NEW c \in Conns, Start(c) PROVE Server'
  BY <1>10, ServerSame DEF Start
<1>11. ASSUME NEW c \in Conns, Binary(c) PROVE Server'
  BY <1>11, ServerSame DEF Binary
<1>12. ASSUME NEW c \in Conns, Cancel(c) PROVE Server'
  BY <1>12, HandlerWorks DEF Cancel, TypeOK
<1>13. ASSUME NEW c \in Conns, Commit(c) PROVE Server'
  BY <1>13, HandlerWorks DEF Commit, TypeOK
<1>14. ASSUME NEW c \in Conns, NEW t \in Turns, Recognized(c, t) PROVE Server'
  BY <1>14, ServerSame DEF Recognized
<1>15. ASSUME NEW c \in Conns, NEW t \in Turns, Report(c, t) PROVE Server'
  BY <1>15, ServerSame DEF Report
<1>16. ASSUME NEW c \in Conns, NEW t \in Turns, Finish(c, t) PROVE Server'
  BY <1>16, ServerSame DEF Finish
<1>17. ASSUME NEW c \in Conns, NEW t \in Turns, WorkerExits(c, t) PROVE Server'
  BY <1>17, ServerSame DEF WorkerExits
<1>18. CASE Shutdown
  <2>1. SlotsMatchHandlers'
    BY <1>18 DEF Shutdown, Server, SlotsMatchHandlers
  <2> QED
    BY <1>18, <2>1 DEF Shutdown, Server, ShutdownMeansEmpty
<1>19. CASE ShutdownDone
  <2>1. Handlers = {}
    BY <1>19, HandlersFinite, FS_EmptySet DEF ShutdownDone, Server, SlotsMatchHandlers, Handlers
  <2>2. SlotsMatchHandlers'
    BY <1>19 DEF ShutdownDone, Server, SlotsMatchHandlers
  <2>3. ShutdownMeansEmpty'
    BY <1>19, <2>1 DEF ShutdownDone, ShutdownMeansEmpty, Handlers
  <2> QED
    BY <1>19, <2>2, <2>3 DEF ShutdownDone, Server
<1> QED
  BY <1>1, <1>2, <1>3, <1>4, <1>5, <1>6, <1>7, <1>8, <1>9, <1>10, <1>11, <1>12, <1>13,
     <1>14, <1>15, <1>16, <1>17, <1>18, <1>19 DEF Next, Client, Handler, Leaves, Job
-----------------------------------------------------------------------------

\* It holds at the start.
LEMMA InitIInv == Init => IInv
<1> SUFFICES ASSUME Init PROVE IInv
  OBVIOUS
<1>1. Handlers = {}
  BY DEF Init, Handlers
<1>2. SlotsMatchHandlers
  BY <1>1, FS_EmptySet DEF Init, Handlers, SlotsMatchHandlers
<1>3. TypeOK
  <2>1. /\ job \in [Conns -> [Turns -> {"none", "recognizing", "final", "error", "finishing",
                                    "exiting", "gone"}]]
        /\ jobEnded \in [Conns -> [Turns -> BOOLEAN]]
        /\ out \in [Conns -> [Turns -> SUBSET {"committed", "final", "error", "cancelled"}]]
    BY DEF Init
  <2>2. /\ connections \in 0 .. MaxSessions
        /\ turn \in [Conns -> 0 .. MaxTurns] /\ active \in [Conns -> 0 .. MaxTurns]
    BY DEF Init
  <2> QED
    BY <2>1, <2>2 DEF Init, TypeOK
<1>4. Reader /\ Jobs
  BY DEF Init, Reader, Jobs, Conn, Turn
<1> QED
  BY <1>2, <1>3, <1>4 DEF Init, IInv, Server, ShutdownMeansEmpty

\* Every step keeps it.
LEMMA NextIInv == IInv /\ [Next]_vars => IInv'
BY TypeStep, ReaderStep, ServerStep DEF IInv, Server

\* It says more than what is promised: a recognising job is the active one.
LEMMA IInvSound == IInv => HandlersSound
<1> SUFFICES ASSUME IInv PROVE HandlersSound
  OBVIOUS
<1>1. ASSUME NEW c \in Conns PROVE Cardinality({t \in Turns : job[c][t] = "recognizing"}) <= 1
  <2>1. {t \in Turns : job[c][t] = "recognizing"} \subseteq {active[c]}
    BY DEF IInv, Jobs, Turn
  <2>2. IsFiniteSet({active[c]}) /\ Cardinality({active[c]}) = 1
    BY FS_Singleton
  <2> QED
    BY <2>1, <2>2, FS_Subset
<1>2. CompleteMeansIdle
  BY DEF IInv, Reader, Conn, CompleteMeansIdle, Working
<1> QED
  BY <1>1, <1>2 DEF IInv, Server, HandlersSound, OneJob

\* One step writes nothing after the last word of a turn or of a connection.
LEMMA LastWordStep ==
  ASSUME IInv, [Next]_vars, NEW c \in Conns
  PROVE  /\ \A t \in Turns : "cancelled" \in out[c][t] => out'[c][t] = out[c][t]
         /\ closedFrame[c] # "none" => out'[c] = out[c]
<1> DEFINE Kept == /\ \A t \in Turns : "cancelled" \in out[c][t] => out'[c][t] = out[c][t]
                   /\ closedFrame[c] # "none" => out'[c] = out[c]
<1>0. TypeOK /\ Reader /\ Jobs
  BY DEF IInv
<1>1. CASE UNCHANGED out
  BY <1>1
<1>2. ASSUME NEW d \in Conns, NEW t \in Turns, NEW kind \in Kinds, Sent(d, t, kind),
             d = c => closedFrame[c] = "none",
             "cancelled" \in out[d][t] => kind = "cancelled"
      PROVE  Kept
  <2>1. ASSUME NEW u \in Turns, "cancelled" \in out[c][u] PROVE out'[c][u] = out[c][u]
    <3>1. Adds(d, t, kind)
      BY <1>0, <1>2, SentAdds
    <3>2. CASE c = d /\ u = t
      <4>1. kind \in out[c][u]
        BY <1>2, <2>1, <3>2
      <4>2. out[c][u] \cup {kind} = out[c][u]
        BY <4>1
      <4> QED
        BY <3>1, <4>2 DEF Adds
    <3>3. CASE ~(c = d /\ u = t)
      BY <3>1, <3>3 DEF Adds
    <3> QED
      BY <3>2, <3>3
  <2>2. d # c => out'[c] = out[c]
    BY <1>0, <1>2 DEF Sent, TypeOK
  <2> QED
    BY <1>2, <2>1, <2>2
<1>3. ASSUME NEW d \in Conns, Acknowledge(d) PROVE Kept
  <2>1. turn[d] \in Turns /\ closedFrame[d] = "none"
    BY <1>0, <1>3 DEF Acknowledge, Reader, Conn, TypeOK
  <2>2. CASE Dead(d)
    BY <1>1, <1>3, <2>2 DEF Acknowledge
  <2>3. CASE ~Dead(d)
    <3>1. Sent(d, turn[d], "cancelled")
      BY <1>3, <2>3 DEF Acknowledge
    <3> QED
      BY <1>2, <2>1, <3>1 DEF Kinds
  <2> QED
    BY <2>2, <2>3
<1>4. ASSUME NEW d \in Conns, Commit(d) PROVE Kept
  <2>1. turn[d] + 1 \in Turns /\ turn[d] \in Nat /\ closedFrame[d] = "none"
    <3>1. turn[d] + 1 \in Turns
      BY <1>0, <1>4, NextTurn
    <3>2. turn[d] \in Nat
      BY <1>0 DEF TypeOK
    <3>3. closedFrame[d] = "none"
      BY <1>0, <1>4 DEF Commit, Reader, Conn
    <3> QED
      BY <3>1, <3>2, <3>3
  <2>2. out[d][turn[d] + 1] = {}
    BY <1>0, <2>1 DEF Jobs, Turn
  <2>3. CASE Dead(d)
    BY <1>1, <1>4, <2>3 DEF Commit
  <2>4. CASE ~Dead(d)
    <3>1. Sent(d, turn[d] + 1, "committed")
      BY <1>4, <2>4 DEF Commit
    <3> QED
      BY <1>2, <2>1, <2>2, <3>1 DEF Kinds
  <2> QED
    BY <2>3, <2>4
<1>5. ASSUME NEW d \in Conns, NEW t \in Turns, Report(d, t) PROVE Kept
  <2>1. CASE JobDead(d, t)
    BY <1>1, <1>5, <2>1 DEF Report
  <2>2. CASE ~JobDead(d, t)
    <3>1. job[d][t] \in Kinds /\ Sent(d, t, job[d][t])
      BY <1>5, <2>2 DEF Report, Kinds
    <3>2. closedFrame[d] = "none"
      BY <1>0, <2>2 DEF JobDead, Dead, Reader, Conn, TypeOK
    <3>3. "cancelled" \notin out[d][t]
      BY <1>0, <2>2 DEF JobDead, Jobs, Turn
    <3> QED
      BY <1>2, <3>1, <3>2, <3>3
  <2> QED
    BY <2>1, <2>2
<1>6. \/ \E d \in Conns : Acknowledge(d) \/ Commit(d) \/ \E t \in Turns : Report(d, t)
      \/ UNCHANGED out
  BY DEF Next, Client, Handler, Leaves, Job, vars, jobVars, Accept, Accepted, Spawn, Closed,
         Release, Disconnect, Cleanup, Start, Binary, Cancel, Recognized, Finish, WorkerExits,
         Shutdown, ShutdownDone
<1> QED
  BY <1>1, <1>3, <1>4, <1>5, <1>6

-----------------------------------------------------------------------------

\* What the server and the handlers say of themselves is true, for any number
\* of connections and slots: a slot for every handler, one recognition per
\* connection, no worker after cleanup_complete, nothing after Shutdown.
THEOREM HandlersAreSound == Spec => []HandlersSound
BY InitIInv, NextIInv, IInvSound, PTL DEF Spec

\* Nothing follows an acknowledged cancellation, and nothing session.closed.
THEOREM LastWordHolds == Spec => LastWordIsLast
<1>1. IInv /\ [Next]_vars =>
        [\A c \in Conns :
           /\ \A t \in Turns : "cancelled" \in out[c][t] => out'[c][t] = out[c][t]
           /\ closedFrame[c] # "none" => out'[c] = out[c]]_vars
  BY LastWordStep
<1> QED
  BY <1>1, InitIInv, NextIInv, PTL DEF Spec, LastWordIsLast
=============================================================================
