------------------------------ MODULE Chunker ------------------------------
(***************************************************************************)
(* Where text is cut for speech: internal/speech/chunker.go.  Deltas of    *)
(* any size are pushed, Flush ends the text.  A character is its class: an *)
(* ordinary one, a space, a newline, a comma or a full stop.               *)
(*                                                                         *)
(* Reference is the rule the chunker is meant to follow, said of the whole *)
(* text at once; the properties compare it with what came out delta by     *)
(* delta.  Operators marked "Fault" are variants a plausible bug would     *)
(* produce; no action uses them.                                           *)
(***************************************************************************)
EXTENDS Naturals, SequencesExt, FiniteSetsExt

CONSTANTS SoftLimit, HardLimit,
          MaxText,   \* bound: characters of a text
          MaxDelta   \* bound: characters of a delta

\* NewChunker: positive limits, the hard one not below the soft one.
ASSUME ChunkerAssumption ==
    /\ SoftLimit \in Nat \ {0} /\ HardLimit \in Nat /\ SoftLimit <= HardLimit
    /\ MaxText \in Nat /\ MaxDelta \in Nat \ {0}

VARIABLES text,    \* all that was pushed
          buffer,  \* Chunker.buffer
          chunks,  \* all that came out
          flushed

chunkerVars == <<text, buffer, chunks, flushed>>

Char == {"a", "space", "newline", "comma", "stop"}
Space == {"space", "newline"}

\* boundaryPriority.
Priority(c) == CASE c \in {"stop", "newline"} -> 3 [] c = "comma" -> 2 [] OTHER -> 0

ChunkerInit == text = <<>> /\ buffer = <<>> /\ chunks = <<>> /\ flushed = FALSE

-----------------------------------------------------------------------------

\* strings.TrimLeft and strings.TrimSpace.
TrimLeft(s) ==
    LET solid == {i \in DOMAIN s : s[i] \notin Space}
    IN  IF solid = {} THEN <<>> ELSE SubSeq(s, Min(solid), Len(s))

\* Fault: blank space is left at the end.
Trim_Left(s) == TrimLeft(s)

Trim(s) ==
    LET solid == {i \in DOMAIN s : s[i] \notin Space}
    IN  IF solid = {} THEN <<>> ELSE SubSeq(s, Min(solid), Max(solid))

\* The boundaries of highest priority before the soft limit, and the last of them.
Early(s) == {i \in DOMAIN s : i < SoftLimit /\ Priority(s[i]) > 0}
BestEarly(s) ==
    LET top == Max({Priority(s[i]) : i \in Early(s)})
    IN  Max({i \in Early(s) : Priority(s[i]) = top})

\* Fault: the hard limit is one character late.
Stops_Late(s) ==
    {i \in DOMAIN s : (i >= SoftLimit /\ Priority(s[i]) > 0) \/ i > HardLimit}

\* Where findChunkBoundary stops reading: at a boundary from the soft limit on,
\* or at the hard limit.
Stops(s) ==
    {i \in DOMAIN s : (i >= SoftLimit /\ Priority(s[i]) > 0) \/ i >= HardLimit}

\* Fault: the first of several boundaries is taken.
FindChunkBoundary_First(s, flush) ==
    IF Stops(s) # {}
    THEN LET i == Min(Stops(s))
         IN  IF Priority(s[i]) > 0 \/ Early(s) = {} THEN i ELSE Min(Early(s))
    ELSE IF flush THEN Len(s) ELSE 0

FindChunkBoundary(s, flush) ==
    IF Stops(s) # {}
    THEN LET i == Min(Stops(s))
         IN  IF Priority(s[i]) > 0 \/ Early(s) = {} THEN i ELSE BestEarly(s)
    ELSE IF flush THEN Len(s) ELSE 0

\* extract: <<chunks, what is kept>>.
Extract(s, flush) ==
    LET from[t \in Seq(Char)] ==
            LET cut == IF t = <<>> THEN 0 ELSE FindChunkBoundary(t, flush)
                chunk == Trim(SubSeq(t, 1, cut))
                rest == TrimLeft(SubSeq(t, cut + 1, Len(t)))
                out == IF chunk = <<>> THEN <<>> ELSE <<chunk>>
            IN  IF cut = 0 THEN <<<<>>, t>>
                ELSE IF rest = <<>> \/ (~flush /\ Len(rest) < SoftLimit) THEN <<out, rest>>
                ELSE LET more == from[rest] IN <<out \o more[1], more[2]>>
    IN  from[s]

\* Fault: what follows a cut is forgotten unless it is cut as well.
Extracted_Drops(delta, flush) ==
    LET x == Extract(buffer \o delta, flush)
    IN  /\ chunks' = chunks \o x[1]
        /\ buffer' = IF x[1] = <<>> THEN x[2] ELSE <<>>

\* Fault: only the newest delta is looked at.
Extracted_Delta(delta, flush) ==
    LET x == IF flush THEN Extract(buffer, TRUE) ELSE Extract(delta, flush)
    IN  /\ chunks' = chunks \o x[1]
        /\ buffer' = IF flush THEN x[2] ELSE IF x[1] = <<>> THEN buffer \o x[2] ELSE x[2]

Extracted(delta, flush) ==
    LET x == Extract(buffer \o delta, flush)
    IN  chunks' = chunks \o x[1] /\ buffer' = x[2]

Push(delta) ==
    /\ ~flushed /\ Len(text) + Len(delta) <= MaxText
    /\ text' = text \o delta
    /\ Extracted(delta, FALSE)
    /\ UNCHANGED flushed

Flush ==
    /\ ~flushed /\ flushed' = TRUE
    /\ Extracted(<<>>, TRUE)
    /\ UNCHANGED text

\* Reset: what is kept is given up, and another text begins.
Reset ==
    /\ ~flushed /\ text # <<>>
    /\ text' = <<>> /\ buffer' = <<>> /\ chunks' = <<>>
    /\ UNCHANGED flushed

ChunkerNext == Flush \/ Reset \/ \E n \in 1..MaxDelta : \E delta \in [1..n -> Char] : Push(delta)

ChunkerSpec == ChunkerInit /\ [][ChunkerNext]_chunkerVars

-----------------------------------------------------------------------------
(* Properties                                                              *)

\* Every variable keeps its type, and what is kept stays below the hard limit.
ChunkerTypeOK ==
    /\ text \in Seq(Char) /\ chunks \in Seq(Seq(Char)) /\ flushed \in BOOLEAN
    /\ buffer \in Seq(Char) /\ Len(buffer) < HardLimit

\* A text without its blank space.
Solid(s) ==
    LET solid[t \in Seq(Char)] ==
            IF t = <<>> THEN <<>>
            ELSE IF Last(t) \in Space THEN solid[Front(t)] ELSE Append(solid[Front(t)], Last(t))
    IN  solid[s]

\* Nothing but blank space is lost, nothing is repeated or reordered, and a
\* flushed chunker keeps nothing.
TextKept ==
    Solid(FlattenSeq(chunks) \o buffer) = Solid(text) /\ (flushed => buffer = <<>>)

\* What the synthesiser is given is never blank, nor padded, nor longer than the hard limit.
ChunksFit ==
    \A i \in DOMAIN chunks :
        /\ chunks[i] # <<>> /\ Len(chunks[i]) <= HardLimit
        /\ Head(chunks[i]) \notin Space /\ Last(chunks[i]) \notin Space

\* Nothing that can be spoken is held back: what is kept has no boundary from the
\* soft limit on.
NothingHeldBack == \A i \in DOMAIN buffer : i >= SoftLimit => Priority(buffer[i]) = 0

\* The rule, of a whole text without blank space: as far as the first boundary
\* from the soft limit on if the hard limit allows; otherwise to the last of the
\* strongest boundaries before it, otherwise to the hard limit.
RuledCut(s) ==
    LET late  == {i \in SoftLimit..HardLimit : i <= Len(s) /\ Priority(s[i]) > 0}
        early == {i \in 1..SoftLimit - 1 : i <= Len(s) /\ Priority(s[i]) > 0}
        strong == {i \in early : \A j \in early : Priority(s[j]) <= Priority(s[i])}
    IN  IF late # {} THEN Min(late)
        ELSE IF Len(s) < HardLimit THEN Len(s)
        ELSE IF strong # {} THEN Max(strong) ELSE HardLimit

Reference(s) ==
    LET ruled[t \in Seq(Char)] ==
            IF t = <<>> THEN <<>>
            ELSE <<SubSeq(t, 1, RuledCut(t))>> \o ruled[SubSeq(t, RuledCut(t) + 1, Len(t))]
    IN  ruled[s]

\* How a text is spoken does not depend on the deltas it came in.
DeltasDoNotMatter ==
    flushed /\ (\A i \in DOMAIN text : text[i] \notin Space) => chunks = Reference(text)

\* A text is spoken by the rule: all of it, as soon as the rule allows, in chunks
\* the synthesiser takes, and the same whatever deltas the model produced.
SpokenAsRuled == ChunkerTypeOK /\ TextKept /\ ChunksFit /\ NothingHeldBack /\ DeltasDoNotMatter
=============================================================================
