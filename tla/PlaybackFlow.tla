---------------------------- MODULE PlaybackFlow ----------------------------
(***************************************************************************)
(* How synthesised audio reaches the client and how playback comes back:   *)
(* the credit window of internal/audio/flow.go, the timeline of            *)
(* internal/audio/timeline.go, the accounting internal/realtime does under *)
(* Session.mu, the speech worker of internal/transport/http/realtime.go    *)
(* (one goroutine per generation) and the SDK client on the other side of  *)
(* one WebSocket.                                                          *)
(*                                                                         *)
(* FlowController.mu, Session.mu and the writer lock are each one action   *)
(* long; everything between them interleaves.  A generation's context ends *)
(* when another generation starts or it is cancelled, and nothing scoped   *)
(* to it is written after that.  Frames are units; formats, sequence       *)
(* numbers and text are left out.  Generations start by a response         *)
(* (startLLMGeneration); the WebSocket keeps the order of messages.        *)
(* Operators marked "Fault" are variants a plausible bug would produce; no *)
(* action uses them.                                                       *)
(***************************************************************************)
EXTENDS Naturals, Sequences

CONSTANTS Window,     \* two seconds: the legacy window and an SDK client's capacity
          Packet,     \* most frames in one binary message
          StartUp,    \* frames the worklet gathers before it starts to play
          MaxGen,     \* bound: generations of a session
          MaxFrames,  \* bound: frames one generation speaks
          Pipe        \* bound: messages in flight in each direction

ASSUME FlowAssumption == /\ Window \in Nat \ {0} /\ Packet \in Nat \ {0}
                         /\ StartUp \in 1..Window
                         /\ MaxGen \in Nat /\ MaxFrames \in Nat /\ Pipe \in Nat \ {0, 1}

VARIABLES negotiated,  \* audioCreditRequired: credit-v1, or the legacy window
          made,        \* generations started
          playing,     \* Session.generationID, 0 when none
          flow,        \* the FlowController of each generation
          timeline,    \* the PlaybackTimeline of the last generation
          worker,      \* runSpeechPipeline of each generation
          owed,        \* cancelled generations the client is still to be told of
          down, up,    \* messages to the client, messages to the server
          client

vars == <<negotiated, made, playing, flow, timeline, worker, owed, down, up, client>>

Gens == 1..MaxGen

\* reserved, received and played count frames since the generation began.
FlowRecord == [open: BOOLEAN, explicit: BOOLEAN, capacity: Nat, reserved: Nat,
               received: Nat, played: Nat]
TimelineRecord == [generated: Nat, sent: Nat, played: Nat]
\* left: frames of the chunk not yet reserved; granted: frames of the packet
\* being sent; signalled: was the channel Reserve waits on closed?
WorkerRecord == [pc: {"none", "created", "next", "registered", "announce", "reserve",
                      "waiting", "write", "account", "finished", "done", "gone"},
                 left: Nat, granted: Nat, signalled: BOOLEAN]
\* acked is the position the client last reported, heard what it rendered.
ClientRecord == [gen: 0..MaxGen, state: {"none", "generating", "done", "cancelled"},
                 format: BOOLEAN, started: BOOLEAN, received: Nat, acked: Nat,
                 heard: Nat, fault: {"none", "position", "window", "incomplete"}]
DownMessage == [type: {"created", "started", "audio", "done", "cancelled"},
                gen: Gens, start: Nat, frames: Nat]
UpMessage == [type: {"credit", "progress"}, gen: Gens, received: Nat, played: Nat]

Idle == [pc |-> "none", left |-> 0, granted |-> 0, signalled |-> FALSE]

\* A client that holds no audio of g.
Silent(g, state) == [gen |-> g, state |-> state, format |-> FALSE, started |-> FALSE,
                     received |-> 0, acked |-> 0, heard |-> 0, fault |-> "none"]

Lesser(a, b) == IF a < b THEN a ELSE b
Greater(a, b) == IF a < b THEN b ELSE a

-----------------------------------------------------------------------------
(* FlowController and PlaybackTimeline                                     *)

NoFlow == [open |-> FALSE, explicit |-> FALSE, capacity |-> 0, reserved |-> 0,
           received |-> 0, played |-> 0]
NewFlow == [NoFlow EXCEPT !.open = TRUE, !.explicit = negotiated,
                          !.capacity = IF negotiated THEN 0 ELSE Window]
NewTimeline == [generated |-> 0, sent |-> 0, played |-> 0]

\* Fault: what was received, not what was played, opens the window.
Available_Received(f) ==
    IF f.capacity + f.received > f.reserved THEN f.capacity + f.received - f.reserved ELSE 0

Available(f) ==
    IF f.capacity + f.played > f.reserved THEN f.capacity + f.played - f.reserved ELSE 0

\* The checks of Update that the client's numbers can fail.
ValidCredit(f, m) == m.received <= f.reserved /\ m.played <= m.received

\* Fault: a snapshot without news of received frames counts as old.
Updated_NeedsReceipt(f, m) ==
    IF m.received <= f.received THEN f
    ELSE [f EXCEPT !.explicit = TRUE, !.capacity = Window,
                   !.received = m.received, !.played = m.played]

\* An older snapshot changes nothing.
Updated(f, m) ==
    IF m.received < f.received \/ m.played < f.played THEN f
    ELSE [f EXCEPT !.explicit = TRUE, !.capacity = Window,
                   !.received = m.received, !.played = m.played]

\* A legacy acknowledgement, never of more than was reserved.
Acknowledged(f, played) ==
    LET p == Lesser(played, f.reserved)
    IN  IF f.explicit \/ p <= f.played THEN f
        ELSE [f EXCEPT !.played = p, !.received = Greater(@, p)]

\* Fault: the position may pass what was sent.
Advanced_Unclamped(t, played) == [t EXCEPT !.played = Greater(t.played, played)]

\* SetPlayed: monotonic and never past what was sent.
Advanced(t, played) == [t EXCEPT !.played = Greater(t.played, Lesser(played, t.sent))]

\* Fault: an acknowledgement that overtook the accounting is forgotten.
Sent_Forgets(t, f, n) == [t EXCEPT !.sent = t.sent + n]

\* AddSent and reconcileAudioPlaybackLocked: an acknowledgement may already
\* have arrived for the frames now accounted.
Sent(t, f, n) == Advanced([t EXCEPT !.sent = t.sent + n], f.played)

-----------------------------------------------------------------------------
(* Messages                                                                *)

ToClient(type, g, start, frames) ==
    /\ Len(down) < Pipe
    /\ down' = Append(down, [type |-> type, gen |-> g, start |-> start, frames |-> frames])

Credit(c) == [type |-> "credit", gen |-> c.gen, received |-> c.received, played |-> c.acked]
Progress(c) == [type |-> "progress", gen |-> c.gen, received |-> c.received,
                played |-> c.acked]

\* Without credit-v1 the client reports progress only.
CreditOf(c) == IF negotiated THEN <<Credit(c)>> ELSE <<>>

ToServer(messages) == Len(up) + Len(messages) <= Pipe /\ up' = up \o messages

-----------------------------------------------------------------------------

Init ==
    /\ negotiated \in BOOLEAN
    /\ made = 0 /\ playing = 0
    /\ flow = [g \in Gens |-> NoFlow]
    /\ timeline = NewTimeline
    /\ worker = [g \in Gens |-> Idle]
    /\ owed = {} /\ down = <<>> /\ up = <<>>
    /\ client = Silent(0, "none")

-----------------------------------------------------------------------------
(* The session                                                             *)

SetWorker(g, pc, left, granted) ==
    worker' = [worker EXCEPT ![g] = [pc |-> pc, left |-> left, granted |-> granted,
                                     signalled |-> FALSE]]

\* A response starts a generation and ends the context of the one before.
StartGeneration ==
    /\ made < MaxGen
    /\ made' = made + 1 /\ playing' = made + 1
    /\ timeline' = NewTimeline
    /\ SetWorker(made + 1, "created", 0, 0)
    /\ UNCHANGED <<negotiated, flow, owed, down, up, client>>

\* generation.cancel, a confirmed interruption, a failed synthesis, or a worker that
\* waited thirty seconds for credit.
CancelGeneration ==
    /\ playing # 0
    /\ playing' = 0 /\ owed' = owed \union {playing}
    /\ UNCHANGED <<negotiated, made, flow, timeline, worker, down, up, client>>

\* Whoever cancelled writes the event once Session.mu is free: by then the next
\* generation may have been announced.
AnnounceCancelled(g) ==
    /\ g \in owed /\ owed' = owed \ {g}
    /\ ToClient("cancelled", g, 0, 0)
    /\ UNCHANGED <<negotiated, made, playing, flow, timeline, worker, up, client>>

-----------------------------------------------------------------------------
(* The speech worker of generation g                                       *)

At(g, pc) == worker[g].pc = pc
GoTo(g, pc) == SetWorker(g, pc, worker[g].left, worker[g].granted)

\* The context ended: the worker, unless it had finished, fails at its next step
\* and its controller is dropped with it.
Abandon(g) ==
    /\ playing # g /\ ~At(g, "none") /\ ~At(g, "gone")
    /\ SetWorker(g, "gone", 0, 0)
    /\ flow' = [flow EXCEPT ![g] = NoFlow]
    /\ UNCHANGED <<negotiated, made, playing, timeline, owed, down, up, client>>

AnnounceGeneration(g) ==
    /\ At(g, "created") /\ playing = g
    /\ ToClient("created", g, 0, 0)
    /\ GoTo(g, "next")
    /\ UNCHANGED <<negotiated, made, playing, flow, timeline, owed, up, client>>

\* RegisterSpeechChunk: a chunk of n frames was synthesised.
RegisterChunk(g, n) ==
    /\ At(g, "next") /\ playing = g
    /\ timeline.generated + n <= MaxFrames
    /\ timeline' = [timeline EXCEPT !.generated = @ + n]
    /\ SetWorker(g, "registered", n, 0)
    /\ UNCHANGED <<negotiated, made, playing, flow, owed, down, up, client>>

\* Fault: each chunk gets a controller of its own.
OpenFlow_EveryChunk(g) ==
    /\ At(g, "registered") /\ playing = g
    /\ flow' = [flow EXCEPT ![g] = NewFlow]
    /\ GoTo(g, "announce")
    /\ UNCHANGED <<negotiated, made, playing, timeline, owed, down, up, client>>

\* AudioFlow: the first chunk makes the controller.
OpenFlow(g) ==
    /\ At(g, "registered") /\ playing = g
    /\ flow' = [flow EXCEPT ![g] = IF @.open THEN @ ELSE NewFlow]
    /\ GoTo(g, "announce")
    /\ UNCHANGED <<negotiated, made, playing, timeline, owed, down, up, client>>

AnnounceChunk(g) ==
    /\ At(g, "announce") /\ playing = g
    /\ ToClient("started", g, 0, 0)
    /\ GoTo(g, "reserve")
    /\ UNCHANGED <<negotiated, made, playing, flow, timeline, owed, up, client>>

\* Fault: the packet is not cut to what is left of the chunk.
Reserve_WholePackets(g) ==
    LET n == Lesser(Packet, Available(flow[g]))
    IN  /\ At(g, "reserve") /\ playing = g
        /\ IF n > 0
           THEN /\ flow' = [flow EXCEPT ![g].reserved = @ + n]
                /\ SetWorker(g, "write", worker[g].left, n)
           ELSE GoTo(g, "waiting") /\ UNCHANGED flow
        /\ UNCHANGED <<negotiated, made, playing, timeline, owed, down, up, client>>

\* Reserve grants what fits the window, or waits for the controller to change.
Reserve(g) ==
    LET n == Lesser(Lesser(worker[g].left, Packet), Available(flow[g]))
    IN  /\ At(g, "reserve") /\ playing = g
        /\ IF n > 0
           THEN /\ flow' = [flow EXCEPT ![g].reserved = @ + n]
                /\ SetWorker(g, "write", worker[g].left, n)
           ELSE GoTo(g, "waiting") /\ UNCHANGED flow
        /\ UNCHANGED <<negotiated, made, playing, timeline, owed, down, up, client>>

WakeUp(g) ==
    /\ At(g, "waiting") /\ worker[g].signalled
    /\ GoTo(g, "reserve")
    /\ UNCHANGED <<negotiated, made, playing, flow, timeline, owed, down, up, client>>

\* Metadata and PCM are written as one pair.
WriteAudio(g) ==
    /\ At(g, "write") /\ playing = g
    /\ ToClient("audio", g, flow[g].reserved - worker[g].granted, worker[g].granted)
    /\ GoTo(g, "account")
    /\ UNCHANGED <<negotiated, made, playing, flow, timeline, owed, up, client>>

\* RecordAudioSent does nothing once the generation is not the active one.
RecordAudioSent(g) ==
    LET w == worker[g]
    IN  /\ At(g, "account")
        /\ timeline' = IF playing = g THEN Sent(timeline, flow[g], w.granted) ELSE timeline
        /\ SetWorker(g, IF w.left = w.granted THEN "next" ELSE "reserve",
                     w.left - w.granted, 0)
        /\ UNCHANGED <<negotiated, made, playing, flow, owed, down, up, client>>

\* The pipeline is closed and drained: MarkGenerationDone, then the event.
MarkGenerationDone(g) ==
    /\ At(g, "next") /\ playing = g
    /\ GoTo(g, "finished")
    /\ UNCHANGED <<negotiated, made, playing, flow, timeline, owed, down, up, client>>

AnnounceDone(g) ==
    /\ At(g, "finished") /\ playing = g
    /\ ToClient("done", g, 0, timeline.sent)
    /\ GoTo(g, "done")
    /\ UNCHANGED <<negotiated, made, playing, flow, timeline, owed, up, client>>

-----------------------------------------------------------------------------
(* The server reads what the client reports                                *)

\* Fault: only news of received frames wakes the waiter.
Signal_Receipts(g, f) ==
    /\ flow' = [flow EXCEPT ![g] = f]
    /\ worker' = [worker EXCEPT ![g].signalled =
           @ \/ (At(g, "waiting") /\ f.received # flow[g].received)]

\* Whoever waits for the controller of g is told when it changed.  (A repeated
\* snapshot wakes the waiter too, which then waits again.)
Signal(g, f) ==
    /\ flow' = [flow EXCEPT ![g] = f]
    /\ worker' = [worker EXCEPT ![g].signalled = @ \/ (At(g, "waiting") /\ f # flow[g])]

\* Fault: a report about any generation moves the active one.
Concerns_Anything(m) == playing # 0

Concerns(m) == m.gen = playing

\* A snapshot that fails its checks is answered with an error and changes nothing.
UpdateAudioCredit(m) ==
    IF Concerns(m) /\ flow[playing].open /\ ValidCredit(flow[playing], m)
    THEN LET f == Updated(flow[playing], m)
         IN  Signal(playing, f) /\ timeline' = Advanced(timeline, f.played)
    ELSE UNCHANGED <<flow, worker, timeline>>

\* RecordPlayback with a source position.
RecordPlayback(m) ==
    IF Concerns(m)
    THEN /\ IF flow[playing].open
            THEN Signal(playing, Acknowledged(flow[playing], m.played))
            ELSE UNCHANGED <<flow, worker>>
         /\ timeline' = Advanced(timeline, m.played)
    ELSE UNCHANGED <<flow, worker, timeline>>

ReadClient ==
    /\ up # <<>>
    /\ up' = Tail(up)
    /\ IF Head(up).type = "credit" THEN UpdateAudioCredit(Head(up))
       ELSE RecordPlayback(Head(up))
    /\ UNCHANGED <<negotiated, made, playing, owed, down, client>>

-----------------------------------------------------------------------------
(* The client: sdk/typescript/src/session.ts, browser.ts, audio-worklet.js *)

\* The client's own generation is g and was not cancelled.
Listening(g) == client.gen = g /\ client.state \in {"generating", "done"}

\* Reporting what it received and what it played are the client's answers.
Answer(c) == client' = c /\ ToServer(CreditOf(c))

OnCreated(m) ==
    /\ client' = Silent(m.gen, "generating")
    /\ UNCHANGED up

OnCancelled(m) ==
    /\ client' = IF m.gen = client.gen THEN Silent(m.gen, "cancelled") ELSE client
    /\ UNCHANGED up

OnStarted(m) ==
    IF Listening(m.gen) /\ ~client.format
    THEN Answer([client EXCEPT !.format = TRUE])
    ELSE UNCHANGED <<client, up>>

\* A packet is checked against the position and the window before it counts.
OnAudio(m) ==
    LET total == client.received + m.frames
    IN  IF ~Listening(m.gen) THEN UNCHANGED <<client, up>>
        ELSE IF ~client.format \/ m.start # client.received
        THEN client' = [client EXCEPT !.fault = "position"] /\ UNCHANGED up
        ELSE IF total > client.acked + Window
        THEN client' = [client EXCEPT !.fault = "window"] /\ UNCHANGED up
        ELSE Answer([client EXCEPT !.received = total])

OnDone(m) ==
    /\ client' = IF m.gen # client.gen THEN client
                 ELSE IF m.frames # client.received
                 THEN [client EXCEPT !.fault = "incomplete"]
                 ELSE IF client.state = "generating" THEN [client EXCEPT !.state = "done"]
                 ELSE client
    /\ UNCHANGED up

\* A fault closes the session.
ReadServer ==
    /\ down # <<>> /\ client.fault = "none"
    /\ down' = Tail(down)
    /\ LET m == Head(down)
       IN  CASE m.type = "created" -> OnCreated(m)
             [] m.type = "cancelled" -> OnCancelled(m)
             [] m.type = "started" -> OnStarted(m)
             [] m.type = "audio" -> OnAudio(m)
             [] m.type = "done" -> OnDone(m)
    /\ UNCHANGED <<negotiated, made, playing, flow, timeline, worker, owed>>

\* The worklet starts once it has gathered enough, or has everything, and
\* gathers again when it runs dry.
Render ==
    /\ Listening(client.gen) /\ client.heard < client.received
    /\ \/ client.started \/ client.state = "done"
       \/ client.received - client.heard >= StartUp
    /\ client' = [client EXCEPT !.heard = @ + 1, !.started = client.heard + 1 < client.received]
    /\ UNCHANGED <<negotiated, made, playing, flow, timeline, worker, owed, down, up>>

\* ackPlayed: a position the worklet reported, in the order of its reports.
AckPlayed(position) ==
    /\ client.format /\ client.acked < position /\ position <= client.heard
    /\ LET c == [client EXCEPT !.acked = position]
       IN  client' = c /\ ToServer(CreditOf(c) \o <<Progress(c)>>)
    /\ UNCHANGED <<negotiated, made, playing, flow, timeline, worker, owed, down>>

-----------------------------------------------------------------------------

Worker(g) ==
    \/ Abandon(g) \/ AnnounceGeneration(g) \/ OpenFlow(g) \/ AnnounceChunk(g)
    \/ Reserve(g) \/ WakeUp(g) \/ WriteAudio(g) \/ RecordAudioSent(g) \/ AnnounceDone(g)

\* What the pipeline hands the worker is up to the providers.
Provider(g) ==
    \/ \E n \in 1..MaxFrames : RegisterChunk(g, n)
    \/ MarkGenerationDone(g)

Next ==
    \/ StartGeneration \/ CancelGeneration
    \/ \E g \in Gens : Worker(g) \/ Provider(g) \/ AnnounceCancelled(g)
    \/ ReadClient \/ ReadServer \/ Render
    \/ \E position \in 1..MaxFrames : AckPlayed(position)

Spec == Init /\ [][Next]_vars

\* Workers run, both ends read, a client that is not paused plays what it has
\* and reports where it is.  Providers owe nothing.
Fairness ==
    /\ \A g \in Gens : WF_vars(Worker(g))
    /\ WF_vars(ReadClient) /\ WF_vars(ReadServer) /\ WF_vars(Render)
    /\ WF_vars(AckPlayed(client.heard))

FairSpec == Spec /\ Fairness

-----------------------------------------------------------------------------
(* Properties                                                              *)

\* The state of the session, its workers, the connection and the client has the
\* types of the records the code keeps it in.
TypeOK ==
    /\ negotiated \in BOOLEAN
    /\ made \in 0..MaxGen /\ playing \in 0..made
    /\ flow \in [Gens -> FlowRecord]
    /\ timeline \in TimelineRecord
    /\ worker \in [Gens -> WorkerRecord]
    /\ owed \subseteq Gens
    /\ down \in Seq(DownMessage) /\ up \in Seq(UpMessage)
    /\ client \in ClientRecord

\* A client that keeps the protocol never has a reason to close the session:
\* packets arrive contiguous, the unplayed audio never exceeds the window it
\* advertised, and generation.done finds all it counts received.
NoClientFault == client.fault = "none"

\* What was played was sent, what was sent was reserved from the window, what was
\* reserved was synthesised: the counters kept under three locks agree.
TimelineOrdered ==
    /\ timeline.played <= timeline.sent
    /\ timeline.sent <= timeline.generated
    /\ playing # 0 => timeline.sent <= flow[playing].reserved
    /\ playing # 0 => flow[playing].reserved <= timeline.generated

\* Audio beyond the window is never in flight, whether the client negotiated
\* credit or falls back to the two seconds, and whatever order its reports have.
WindowBounded ==
    \A g \in Gens : /\ flow[g].reserved <= flow[g].played + Window
                    /\ flow[g].played <= flow[g].received
                    /\ flow[g].received <= flow[g].reserved

\* An acknowledgement that overtakes the accounting of the write it answers is
\* not lost: the timeline, which decides what the conversation remembers, is never
\* behind the controller by more than what is still unaccounted.
AckRetained ==
    playing # 0 /\ flow[playing].open =>
        timeline.played >= Lesser(flow[playing].played, timeline.sent)

\* Receipt is not playback: the session never counts as played what the client has
\* not rendered, and never lets a report about one generation count for the next.
NeverCreditsUnheard ==
    playing # 0 => timeline.played <= IF client.gen = playing THEN client.heard ELSE 0

\* No credit an honest client has sent is refused, however late it is read.
HonestCreditAccepted ==
    \A i \in 1..Len(up) :
        up[i].type = "credit" /\ up[i].gen = playing /\ flow[playing].open =>
            ValidCredit(flow[playing], up[i])

\* The two ends agree on what was heard, whatever reports are in flight and
\* whichever generation was replaced meanwhile: the session believes no more than
\* was rendered (recordPlayback, updateAudioCredit), and refuses none of an honest
\* client's snapshots, which would close its connection.
CreditsTruthful == NeverCreditsUnheard /\ HonestCreditAccepted

\* A worker that sleeps in Reserve has nothing to wake for: no update of the window
\* falls between its look at the window and its wait.
NoLostCredit ==
    \A g \in Gens : At(g, "waiting") /\ ~worker[g].signalled => Available(flow[g]) = 0

\* A worker waiting for credit gets some or is released: producer and client never
\* wait for one another, at the smallest window and the largest start-up buffer.
NoAudioStall == \A g \in Gens : At(g, "waiting") ~> ~At(g, "waiting")

\* Once a generation is done the session comes to know that all of it was played,
\* unless the generation is replaced or cancelled.
AllHeard ==
    \A g \in Gens :
        At(g, "done") /\ playing = g ~> playing # g \/ timeline.played = timeline.generated
=============================================================================
