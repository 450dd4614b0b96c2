---------------------------- MODULE Conversation ----------------------------
(***************************************************************************)
(* What a session remembers: the bounded store of                          *)
(* internal/conversation/runtime.go and the handlers of                    *)
(* internal/realtime/conversation.go that write to it under Session.mu.    *)
(*                                                                         *)
(* One handler is one action, because Session.mu is held throughout.       *)
(* Several goroutines call them (the reader, the LLM worker and the speech *)
(* worker of each generation), so a handler may come with the ID of a      *)
(* generation that is over.  Text is a number of bytes; who wrote a byte   *)
(* does not matter, how many there are does.  Frames are units.            *)
(* Operators marked "Fault" are variants a plausible bug would produce; no *)
(* action uses them.                                                       *)
(***************************************************************************)
EXTENDS Naturals, Sequences, SequencesExt, FiniteSetsExt

CONSTANTS PromptBytes, MaxItems, MaxBytes, MaxItemBytes,
          MaxContextItems, MaxContextBytes, MaxChunks,
          ChunkFrames,  \* bound: frames one chunk is synthesised to
          MaxTurns      \* bound: turns, and generations, of a session

\* Validate.
ASSUME ConfigAssumption ==
    /\ {PromptBytes, MaxTurns} \subseteq Nat
    /\ {ChunkFrames, MaxItemBytes, MaxChunks} \subseteq Nat \ {0}
    /\ MaxItems \in Nat /\ MaxItems >= 3
    /\ MaxContextItems \in 2..MaxItems
    /\ MaxBytes \in Nat /\ MaxBytes >= 4 * MaxItemBytes + PromptBytes
    /\ MaxContextBytes \in (PromptBytes + MaxItemBytes)..MaxBytes

VARIABLES items,     \* MemoryStore.items, the system prompt first
          gen,       \* Session.generationID, 0 when none
          textOnly,  \* Session.generationTextOnly
          timeline,  \* Session.timeline, with what the flow controller acknowledged
          resp,      \* Session.responseContext, responseTurn and responseUsed
          request,   \* Session.generationRequest
          done,      \* Session.generationDone
          turns,     \* turn IDs handed out
          started,   \* generation IDs handed out
          wire,      \* frames of gen written to the socket
          rendered   \* frames of each generation the client has rendered

vars == <<items, gen, textOnly, timeline, resp, request, done, turns, started,
          wire, rendered>>

Gens == 1..MaxTurns
Bytes == 0..MaxItemBytes
Statuses == {"pending", "committed", "completed", "interrupted", "cancelled"}
Final == {"completed", "interrupted", "cancelled"}

ChunkRecord == [bytes: Bytes, first: Nat, end: Nat, played: BOOLEAN]
ItemRecord == [role: {"system", "user", "assistant"}, turn: Nat, gen: Nat,
               status: Statuses, content: Bytes \cup {PromptBytes}, sentText: Bytes, textOnly: BOOLEAN,
               llmDone: BOOLEAN, audioDone: BOOLEAN, chunks: Seq(ChunkRecord),
               generated: Nat, sent: Nat, played: Nat]
MessageRecord == [role: {"user", "assistant"}, turn: Nat, bytes: Nat]

Item(role, turn, g, status, bytes, text) ==
    [role |-> role, turn |-> turn, gen |-> g, status |-> status, content |-> bytes,
     sentText |-> 0, textOnly |-> text, llmDone |-> FALSE, audioDone |-> FALSE,
     chunks |-> <<>>, generated |-> 0, sent |-> 0, played |-> 0]

NoTimeline == [open |-> FALSE, generated |-> 0, sent |-> 0, played |-> 0, acked |-> 0]

Lesser(a, b) == IF a < b THEN a ELSE b
Greater(a, b) == IF a < b THEN b ELSE a

-----------------------------------------------------------------------------
(* Runtime: operators from stores to stores                                *)

\* The sum of the first n of the numbers v.
Total(v, n) == LET sum[k \in 0..n] == IF k = 0 THEN 0 ELSE sum[k - 1] + v[k] IN sum[n]

BytesOf(s) == [i \in DOMAIN s |-> s[i].bytes]
ChunkBytes(p) == Total(BytesOf(p.chunks), Len(p.chunks))
ItemBytes(p) == p.content + p.sentText + ChunkBytes(p)
Size(its) == Total([i \in DOMAIN its |-> ItemBytes(its[i])], Len(its))

IndexesOf(its, role, key, value) ==
    {i \in DOMAIN its : its[i].role = role /\ its[i][key] = value}
HasAssistant(its, g) == IndexesOf(its, "assistant", "gen", g) # {}
AssistantAt(its, g) == Min(IndexesOf(its, "assistant", "gen", g))
HasUser(its, turn) == IndexesOf(its, "user", "turn", turn) # {}

\* Where the store may be cut: after the prompt, or between two turns.
Cuts(its) == {n \in DOMAIN its : n = 1 \/ n = Len(its) \/ its[n].turn # its[n + 1].turn}
After(its, n) == <<its[1]>> \o SubSeq(its, n + 1, Len(its))
Fits(its) == Len(its) <= MaxItems /\ Size(its) <= MaxBytes

\* Fault: only the number of items counts.
Trimmed_ItemsOnly(its, current) ==
    LET cuts == {n \in Cuts(its) : \A i \in 2..n : its[i].turn # current}
        fit == {n \in cuts : Len(After(its, n)) <= MaxItems}
    IN  After(its, IF fit = {} THEN Max(cuts) ELSE Min(fit))

\* Fault: single items go, whatever exchange they belong to.
Trimmed_SplitsExchanges(its, current) ==
    LET cuts == {n \in DOMAIN its : \A i \in 2..n : its[i].turn # current}
        fit == {n \in cuts : Fits(After(its, n))}
    IN  After(its, IF fit = {} THEN Max(cuts) ELSE Min(fit))

\* Fault: the newest exchanges make room for the oldest.
Trimmed_EvictsNewest(its, current) ==
    LET fit == {n \in Cuts(its) : Fits(SubSeq(its, 1, n))}
    IN  SubSeq(its, 1, Max(fit))

\* trim: as many of the oldest exchanges go as it takes, never the current one.
Trimmed(its, current) ==
    LET cuts == {n \in Cuts(its) : \A i \in 2..n : its[i].turn # current}
        fit == {n \in cuts : Fits(After(its, n))}
    IN  After(its, IF fit = {} THEN Max(cuts) ELSE Min(fit))

\* delivered: the text sent, or the chunks played before the first that was not.
Delivered(p) ==
    LET heard == {n \in 0..Len(p.chunks) : \A i \in 1..n : p.chunks[i].played}
    IN  IF p.textOnly THEN p.sentText
        ELSE Total(BytesOf(p.chunks), Max(heard))

\* Committed users, and after the user of their turn the assistants who said
\* something.
Said(its, i) ==
    \/ its[i].role = "user" /\ its[i].status = "committed"
    \/ /\ its[i].role = "assistant" /\ its[i].status \in {"completed", "interrupted"}
       /\ Delivered(its[i]) > 0
       /\ \E j \in 2..(i - 1) : its[j].role = "user" /\ its[j].turn = its[i].turn
Message(p) ==
    [role |-> p.role, turn |-> p.turn,
     bytes |-> IF p.role = "user" THEN p.content ELSE Delivered(p)]

\* The messages of the items after the n-th.
MessagesAfter(its, n) ==
    LET upTo[i \in n..Len(its)] ==
            IF i = n THEN <<>>
            ELSE IF Said(its, i) THEN Append(upTo[i - 1], Message(its[i])) ELSE upTo[i - 1]
    IN  upTo[Len(its)]

MessageBytes(ms) == Total(BytesOf(ms), Len(ms))

InWindow(ms) ==
    PromptBytes + MessageBytes(ms) <= MaxContextBytes /\ 1 + Len(ms) <= MaxContextItems

\* Context: the newest exchanges the window has room for, whole; a candidate is
\* a turn of its own and of no record.
Context(its, candidate) ==
    LET extra == IF candidate = 0 THEN <<>>
                 ELSE <<[role |-> "user", turn |-> 0, bytes |-> candidate]>>
        window(n) == MessagesAfter(its, n) \o extra
        room == {n \in Cuts(its) : InWindow(window(n))}
    IN  IF room = {} THEN <<>> ELSE window(Min(room))

\* complete.
Completed(p) ==
    IF ~p.llmDone THEN p
    ELSE IF p.textOnly
         THEN IF p.content = p.sentText THEN [p EXCEPT !.status = "completed"] ELSE p
    ELSE IF ~p.audioDone THEN p
    ELSE IF p.chunks = <<>> THEN [p EXCEPT !.status = "cancelled"]
    ELSE IF \A i \in DOMAIN p.chunks : p.chunks[i].played
         THEN [p EXCEPT !.status = "completed"]
    ELSE p

IsPending(its, g) == HasAssistant(its, g) /\ its[AssistantAt(its, g)].status = "pending"
Changed(its, g, p) == [its EXCEPT ![AssistantAt(its, g)] = p]

\* Fault: the frame after the last must have been played too.
Heard_Strict(c, sent, played) == sent >= c.end /\ played > c.end

Heard(c, sent, played) == sent >= c.end /\ played >= c.end

\* Progress: positions grow, and a chunk is played once its last frame is.
Progress(its, g, sent, played) ==
    IF ~IsPending(its, g) \/ its[AssistantAt(its, g)].textOnly THEN its
    ELSE LET p == its[AssistantAt(its, g)]
             s == Greater(p.sent, Lesser(sent, p.generated))
             y == Greater(p.played, Lesser(played, s))
             heard(c) == [c EXCEPT !.played = @ \/ Heard(c, s, y)]
         IN  Changed(its, g, Completed([p EXCEPT !.sent = s, !.played = y,
                     !.chunks = [i \in DOMAIN p.chunks |-> heard(p.chunks[i])]]))

\* Done.
Done(its, g, audio) ==
    IF ~IsPending(its, g) THEN its
    ELSE LET p == its[AssistantAt(its, g)]
         IN  Changed(its, g, Completed(IF audio THEN [p EXCEPT !.audioDone = TRUE]
                                       ELSE [p EXCEPT !.llmDone = TRUE]))

\* Fault: what was cut short before anything was heard stays pending.
Finalize_LeavesUnheard(its, g) ==
    IF ~IsPending(its, g) THEN its
    ELSE LET p == Completed(its[AssistantAt(its, g)])
         IN  IF p.status = "pending" /\ Delivered(p) = 0 THEN its
             ELSE Changed(its, g, [p EXCEPT !.status = "interrupted"])

\* Finalize.
Finalize(its, g) ==
    IF ~IsPending(its, g) THEN its
    ELSE LET p == Completed(its[AssistantAt(its, g)])
         IN  Changed(its, g,
                     IF p.status # "pending" THEN p
                     ELSE IF Delivered(p) = 0 /\ p.played = 0
                          THEN [p EXCEPT !.status = "cancelled"]
                     ELSE [p EXCEPT !.status = "interrupted"])

CommitUser(its, turn, bytes) ==
    IF HasUser(its, turn) THEN its
    ELSE Trimmed(Append(its, Item("user", turn, 0, "committed", bytes, FALSE)), turn)

BeginAssistant(its, turn, g, text) ==
    Trimmed(Append(its, Item("assistant", turn, g, "pending", 0, text)), turn)

-----------------------------------------------------------------------------
(* The session                                                             *)

Init ==
    /\ items = <<Item("system", 0, 0, "committed", PromptBytes, FALSE)>>
    /\ gen = 0 /\ textOnly = FALSE
    /\ timeline = NoTimeline
    /\ resp = [live |-> FALSE, turn |-> 0, used |-> FALSE]
    /\ request = <<>>
    /\ done = FALSE
    /\ turns = 0 /\ started = 0 /\ wire = 0
    /\ rendered = [g \in Gens |-> 0]

\* Fault: an ID of any generation will do.
Active_AnyGeneration(g) == g # 0 /\ gen # 0

\* activeConversationGenerationLocked.
Active(g) == g # 0 /\ g = gen

\* syncConversationPlaybackLocked.
Synced(its, t) == IF t.open THEN Progress(its, gen, t.sent, t.played) ELSE its

\* finalizeConversationLocked.
Finalized(its) == Finalize(Synced(its, timeline), gen)

\* startGenerationWithTurnLocked, up to the request.
StartWithTurn(its, turn, text) ==
    /\ started < MaxTurns
    /\ started' = started + 1
    /\ gen' = started + 1
    /\ textOnly' = text
    /\ timeline' = [NoTimeline EXCEPT !.open = ~text]
    /\ done' = FALSE
    /\ wire' = 0
    /\ items' = BeginAssistant(Finalized(its), turn, started + 1, text)
    /\ UNCHANGED rendered

\* newInputResponseContextLocked: a turn was committed, by speech or by text.
NewResponseContext ==
    /\ turns < MaxTurns
    /\ turns' = turns + 1
    /\ resp' = [live |-> TRUE, turn |-> turns + 1, used |-> FALSE]
    /\ UNCHANGED <<items, gen, textOnly, timeline, request, done, started, wire, rendered>>

\* Fault: the request is built before the answer it interrupts is finalized.
BeginResponse_RequestFirst(bytes, text) ==
    /\ resp.live /\ ~resp.used /\ bytes \in 1..MaxItemBytes
    /\ resp' = [resp EXCEPT !.used = TRUE]
    /\ request' = Context(CommitUser(items, resp.turn, bytes), 0)
    /\ StartWithTurn(CommitUser(Finalized(items), resp.turn, bytes), resp.turn, text)
    /\ UNCHANGED turns

\* Fault: a context may be consumed twice.
BeginResponse_Again(bytes, text) ==
    /\ resp.live /\ bytes \in 1..MaxItemBytes
    /\ LET committed == CommitUser(Finalized(items), resp.turn, bytes)
       IN  /\ resp' = [resp EXCEPT !.used = TRUE]
           /\ request' = Context(committed, 0)
           /\ StartWithTurn(committed, resp.turn, text)
    /\ UNCHANGED turns

\* beginConversationResponseLocked: a transcript, promoted or recognised, or
\* the client's text.  An empty one consumes the context; one that is too long
\* changes nothing.
BeginResponse(bytes, text) ==
    /\ resp.live /\ ~resp.used
    /\ \/ /\ bytes = 0
          /\ resp' = [resp EXCEPT !.used = TRUE]
          /\ UNCHANGED <<items, gen, textOnly, timeline, request, done, started, wire,
                         rendered>>
       \/ /\ bytes \in 1..MaxItemBytes
          /\ LET committed == CommitUser(Finalized(items), resp.turn, bytes)
             IN  /\ resp' = [resp EXCEPT !.used = TRUE]
                 /\ request' = Context(committed, 0)
                 /\ StartWithTurn(committed, resp.turn, text)
    /\ UNCHANGED turns

\* StartGenerationMode: generation.create, with a turn of its own.
CreateGeneration(text) ==
    /\ turns < MaxTurns
    /\ turns' = turns + 1
    /\ resp' = [resp EXCEPT !.live = FALSE]
    /\ request' = <<>>
    /\ StartWithTurn(items, turns + 1, text)

\* cancelGenerationLocked: by the client, a failed worker, an interruption or
\* the end of the session.  The timeline stays.
CancelGeneration ==
    /\ gen # 0
    /\ items' = Finalized(items)
    /\ gen' = 0
    /\ resp' = [resp EXCEPT !.live = FALSE]
    /\ UNCHANGED <<textOnly, timeline, request, done, turns, started, wire, rendered>>

-----------------------------------------------------------------------------
(* The workers of generation g, and the reader                             *)

TextRoom(g) == IsPending(items, g) /\ ~items[AssistantAt(items, g)].llmDone

\* Fault: the length of an item is not limited.
AppendContent_Unlimited(g) ==
    /\ Active(g)
    /\ TextRoom(g)
    /\ LET p == items[AssistantAt(items, g)]
       IN  items' = Trimmed(Changed(items, g, [p EXCEPT !.content = @ + 1]), p.turn)
    /\ UNCHANGED <<gen, textOnly, timeline, resp, request, done, turns, started, wire,
                   rendered>>

\* AppendAssistantText of a delta received.
AppendContent(g) ==
    /\ Active(g)
    /\ TextRoom(g)
    /\ LET p == items[AssistantAt(items, g)]
       IN  /\ p.content < MaxItemBytes
           /\ items' = Trimmed(Changed(items, g, [p EXCEPT !.content = @ + 1]), p.turn)
    /\ UNCHANGED <<gen, textOnly, timeline, resp, request, done, turns, started, wire,
                   rendered>>

\* AppendAssistantText of a delta the writer has sent.
AppendSent(g) ==
    /\ Active(g)
    /\ IsPending(items, g)
    /\ LET p == items[AssistantAt(items, g)]
       IN  /\ p.sentText < p.content
           /\ items' = Trimmed(Changed(items, g, [p EXCEPT !.sentText = @ + 1]), p.turn)
    /\ UNCHANGED <<gen, textOnly, timeline, resp, request, done, turns, started, wire,
                   rendered>>

\* MarkAssistantTextDone: the LLM ended, or the client said so.
MarkAssistantTextDone(g) ==
    /\ Active(g)
    /\ items' = Done(items, g, FALSE)
    /\ UNCHANGED <<gen, textOnly, timeline, resp, request, done, turns, started, wire,
                   rendered>>

\* RegisterSpeechChunk: a chunk of the text sent was synthesised.
RegisterSpeechChunk(g, frames) ==
    /\ Active(g)
    /\ timeline.open
    /\ IsPending(items, g)
    /\ LET p == items[AssistantAt(items, g)]
           chunk == [bytes |-> 1, first |-> timeline.generated,
                     end |-> timeline.generated + frames, played |-> FALSE]
       IN  /\ ChunkBytes(p) < p.sentText
           /\ Len(p.chunks) < MaxChunks
           /\ items' = Trimmed(Changed(items, g,
                           [p EXCEPT !.chunks = Append(@, chunk), !.generated = chunk.end]),
                               p.turn)
    /\ timeline' = [timeline EXCEPT !.generated = @ + frames]
    /\ UNCHANGED <<gen, textOnly, resp, request, done, turns, started, wire, rendered>>

\* The speech worker writes a frame to the socket...
WriteFrame(g) ==
    /\ Active(g)
    /\ timeline.open /\ wire < timeline.generated
    /\ wire' = wire + 1
    /\ UNCHANGED <<items, gen, textOnly, timeline, resp, request, done, turns, started,
                   rendered>>

\* ...and RecordAudioSent counts it; it may have been acknowledged by then.
RecordAudioSent(g) ==
    /\ Active(g)
    /\ timeline.open /\ timeline.sent < wire
    /\ timeline' = [timeline EXCEPT !.sent = wire,
                                    !.played = Greater(@, Lesser(timeline.acked, wire))]
    /\ items' = Synced(items, timeline')
    /\ UNCHANGED <<gen, textOnly, resp, request, done, turns, started, wire, rendered>>

\* The client renders a frame it received.
Render ==
    /\ gen # 0 /\ rendered[gen] < wire
    /\ rendered' = [rendered EXCEPT ![gen] = @ + 1]
    /\ UNCHANGED <<items, gen, textOnly, timeline, resp, request, done, turns, started,
                   wire>>

\* RecordPlayback, playback.credit: a position the client rendered.
RecordPlayback(g, frames) ==
    /\ Active(g)
    /\ timeline.open
    /\ timeline' = [timeline EXCEPT !.acked = Greater(@, Lesser(frames, wire)),
                                    !.played = Greater(@, Lesser(frames, timeline.sent))]
    /\ items' = Synced(items, timeline')
    /\ UNCHANGED <<gen, textOnly, resp, request, done, turns, started, wire, rendered>>

\* MarkGenerationDone: the pipeline was closed after the text, and all it
\* contained was sent.
MarkGenerationDone(g) ==
    /\ Active(g) /\ ~done
    /\ IsPending(items, g) => items[AssistantAt(items, g)].llmDone
    /\ timeline.sent = timeline.generated
    /\ done' = TRUE
    /\ items' = Synced(Done(items, g, TRUE), timeline)
    /\ UNCHANGED <<gen, textOnly, timeline, resp, request, turns, started, wire, rendered>>

Next ==
    \/ NewResponseContext
    \/ \E bytes \in Bytes, text \in BOOLEAN : BeginResponse(bytes, text)
    \/ \E text \in BOOLEAN : CreateGeneration(text)
    \/ CancelGeneration
    \/ \E g \in Gens : \/ AppendContent(g) \/ AppendSent(g) \/ MarkAssistantTextDone(g)
                       \/ \E frames \in 1..ChunkFrames : RegisterSpeechChunk(g, frames)
                       \/ WriteFrame(g) \/ RecordAudioSent(g)
                       \/ \E frames \in 0..rendered[g] : RecordPlayback(g, frames)
                       \/ MarkGenerationDone(g)
    \/ Render

Spec == Init /\ [][Next]_vars

-----------------------------------------------------------------------------
(* Properties                                                              *)

TypeOK ==
    /\ items \in Seq(ItemRecord) /\ items # <<>>
    /\ gen \in 0..MaxTurns /\ textOnly \in BOOLEAN /\ done \in BOOLEAN
    /\ timeline \in [open: BOOLEAN, generated: Nat, sent: Nat, played: Nat, acked: Nat]
    /\ resp \in [live: BOOLEAN, turn: 0..MaxTurns, used: BOOLEAN]
    /\ request \in Seq(MessageRecord)
    /\ turns \in 0..MaxTurns /\ started \in 0..MaxTurns
    /\ wire \in Nat /\ rendered \in [Gens -> Nat]

\* The limits Validate accepts leave room for any one exchange: however much is
\* appended to the current one, trimming always gets the store under both its
\* bounds although it never touches the current exchange
\* (internal/conversation/runtime.go:45, 299).
StoreBounded == Fits(items)

\* The item of the generation being spoken is never evicted. MarkGenerationDone
\* and the text handlers dereference it without looking.
ActiveItemKept == gen # 0 => HasAssistant(items, gen)

\* A turn has one user item and one answer, though recognition and promotion
\* both hold its context and each may come with a transcript.
OneAnswerPerTurn ==
    \A i, j \in 2..Len(items) :
        items[i].turn = items[j].turn /\ items[i].role = items[j].role => i = j

\* History is append-only but for eviction: whole exchanges leave at the old
\* end, and an item that is committed or final never changes again, whatever
\* late text, chunk or acknowledgement arrives for it.
OldTurns(n) == {items[i].turn : i \in 2..n}
OnlyEvicted ==
    \E n \in Cuts(items) :
        LET kept == After(items, n)
        IN  /\ Len(items') >= Len(kept)
            /\ \A i \in (Len(kept) + 1)..Len(items') : items'[i].turn \notin OldTurns(n)
            /\ \A i \in DOMAIN kept :
                   /\ <<items'[i].role, items'[i].turn, items'[i].gen>>
                        = <<kept[i].role, kept[i].turn, kept[i].gen>>
                   /\ kept[i].status # "pending" => items'[i] = kept[i]
HistoryOnlyEvicted == [][OnlyEvicted]_vars

\* Exactly one item may be open, that of the generation being spoken: whatever
\* ends or replaces a generation gives its item its final status.
OnlyActivePending ==
    \A i \in DOMAIN items : items[i].status = "pending" => items[i].gen = gen /\ gen # 0

\* The model is always asked about the words just committed: at the smallest
\* window Validate accepts, the request of an answer still ends with them, and
\* it never exceeds the window.
RequestEndsWithTurn ==
    gen # 0 =>
        LET turn == items[AssistantAt(items, gen)].turn
        IN  HasUser(items, turn) =>
                /\ request # <<>>
                /\ Last(request).role = "user" /\ Last(request).turn = turn
                /\ 1 + Len(request) <= MaxContextItems
                /\ PromptBytes + MessageBytes(request) <= MaxContextBytes

\* What is remembered of a spoken answer was heard: its chunks up to a frame
\* the client rendered, never a chunk that was only sent or only begun.
RememberedWasHeard ==
    \A i \in DOMAIN items :
        items[i].role = "assistant" /\ ~items[i].textOnly =>
            Delivered(items[i]) <=
                LET heard(c) == IF c.end <= rendered[items[i].gen] THEN c.bytes ELSE 0
                    chunks == items[i].chunks
                IN  Total([k \in DOMAIN chunks |-> heard(chunks[k])], Len(chunks))

\* An answer whose text ended, whose audio ended and whose every chunk the
\* session knows to be played is complete, in whichever order the three were
\* learned.
CompletesWhenHeard ==
    \A i \in DOMAIN items :
        LET p == items[i]
        IN  p.role = "assistant" /\ p.gen = gen /\ ~p.textOnly /\ p.llmDone /\ p.audioDone
              /\ timeline.played = timeline.generated /\ p.chunks # <<>>
            => p.status = "completed"

\* A request quotes an exchange as it happened: with the user's words comes, to
\* the byte, what was heard of the answer, also of the answer this turn
\* interrupted.
RequestQuotesHeard ==
    gen # 0 =>
        \A i \in DOMAIN items, k \in DOMAIN request :
            /\ items[i].role = "assistant" /\ items[i].gen # gen
            /\ request[k].role = "user" /\ request[k].turn = items[i].turn
            /\ Delivered(items[i]) > 0 /\ items[i].status # "cancelled"
            => /\ k < Len(request)
               /\ request[k + 1] = [role |-> "assistant", turn |-> items[i].turn,
                                    bytes |-> Delivered(items[i])]

\* The store keeps what the handlers rely on: it stays within its limits, always
\* holds the exchange in progress, one item for the words and one for the answer,
\* and its request always asks about that exchange.
StoreSound ==
    TypeOK /\ StoreBounded /\ ActiveItemKept /\ OneAnswerPerTurn /\ OnlyActivePending
    /\ RequestEndsWithTurn

\* History is what was heard: no more is remembered or quoted, and no less.
HistoryHeard == RememberedWasHeard /\ CompletesWhenHeard /\ RequestQuotesHeard
=============================================================================
