----------------------------- MODULE TurnTaking -----------------------------
(***************************************************************************)
(* What a session promises about the conversation's two voices, without    *)
(* timers, inference, tokens or goroutines: what remains of the handlers   *)
(* of internal/realtime once only the playing generation, its hold and the *)
(* user's turn are looked at.  TurnControl implements it.                  *)
(***************************************************************************)
EXTENDS Naturals

VARIABLES playing,   \* the generation being spoken, 0 when silent
          held,      \* its playback is paused on suspicion
          floor,     \* the user's turn: "none", "speaking" or "ended"
          commits,   \* turns given to the assistant
          closed

vars == <<playing, held, floor, commits, closed>>

Init == playing = 0 /\ held = FALSE /\ floor = "none" /\ commits = 0 /\ closed = FALSE

\* Every action of an open session; each names the parts it changes.
Keeping(unchanged) == ~closed /\ closed' = closed /\ UNCHANGED unchanged

Silence == playing' = 0 /\ held' = FALSE

\* A new generation replaces what was being spoken or held.
StartOutput ==
    /\ playing' \in Nat \ {0, playing} /\ held' = FALSE
    /\ Keeping(<<floor, commits>>)

StopOutput == playing # 0 /\ Silence /\ Keeping(<<floor, commits>>)

\* The user starts or resumes speaking.  Speaking again during a hold is an
\* interruption; speaking over output may put it on hold.
Speak ==
    /\ floor # "speaking" /\ floor' = "speaking" /\ Keeping(commits)
    /\ \/ held /\ Silence
       \/ ~held /\ UNCHANGED <<playing, held>>
       \/ ~held /\ playing # 0 /\ held' = TRUE /\ UNCHANGED playing

Pause == floor = "speaking" /\ floor' = "ended" /\ Keeping(<<playing, held, commits>>)

Hold ==
    /\ ~held /\ held' = TRUE /\ playing # 0 /\ floor # "none"
    /\ Keeping(<<playing, floor, commits>>)

\* The speech was no interruption: the same output goes on, the turn is dropped.
Resume == held /\ held' = FALSE /\ floor' = "none" /\ Keeping(<<playing, commits>>)

\* The assistant gets an ended turn, never while output is on hold; the
\* decision that ends a hold may commit the turn it held back.
Commit ==
    /\ floor = "ended" /\ floor' = "none" /\ commits' = commits + 1
    /\ \/ ~held /\ Keeping(<<playing, held>>)
       \/ held /\ Silence /\ Keeping(<<>>)

\* Typed text and manually recorded audio need no floor.
CommitOther == floor = "none" /\ commits' = commits + 1 /\ Keeping(<<playing, held, floor>>)

\* A turn without speech, an input cancelled or too long.
Drop ==
    /\ floor # "none" /\ floor' = "none" /\ Keeping(commits)
    /\ \/ ~held /\ UNCHANGED <<playing, held>>
       \/ held /\ Silence

Close ==
    /\ ~closed /\ closed' = TRUE
    /\ playing' = 0 /\ held' = FALSE /\ floor' = "none" /\ commits' = 0

\* Most of what the implementation does is not seen here: that comes first.
Next == \/ UNCHANGED vars
        \/ StartOutput \/ StopOutput \/ Speak \/ Pause \/ Hold \/ Resume
        \/ Commit \/ CommitOther \/ Drop \/ Close

Spec == Init /\ [][Next]_vars
=============================================================================
