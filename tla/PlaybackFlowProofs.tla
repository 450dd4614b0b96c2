------------------------- MODULE PlaybackFlowProofs -------------------------
(***************************************************************************)
(* The accounting of audio for every window, packet size and number of     *)
(* generations: types, the window, the order of the counters, and that     *)
(* neither an acknowledgement nor a wake-up of the worker is lost.  Then   *)
(* its channels: what is in flight between the two ends is true.           *)
(***************************************************************************)
EXTENDS PlaybackFlow, TLAPS

Busy == {"write", "account"}
Speaking == {"registered", "announce", "reserve", "waiting"} \union Busy
Resting == {"created", "next", "finished", "done"}

\* A controller keeps its window and is blank until it is opened.
Flows ==
    \A g \in Gens :
        /\ flow[g].reserved <= flow[g].played + Window
        /\ flow[g].played <= flow[g].received /\ flow[g].received <= flow[g].reserved
        /\ flow[g].capacity <= Window
        /\ ~flow[g].open => flow[g] = NoFlow

\* A worker holds a granted packet only between Reserve and the accounting, and a
\* chunk only while it speaks.
Sound(w) ==
    /\ w.granted <= w.left
    /\ w.pc \notin Busy => w.granted = 0
    /\ w.pc \in Resting => w.left = 0
    /\ w.pc \in Speaking => w.left > 0

Workers == \A g \in Gens : Sound(worker[g])

\* A generation that has not started has left no trace.
Fresh == \A g \in Gens : g > made => worker[g] = Idle /\ flow[g] = NoFlow

\* While g plays, every frame synthesised is sent, granted or left.
Accounts ==
    /\ timeline.played <= timeline.sent /\ timeline.sent <= timeline.generated
    /\ playing # 0 =>
         /\ timeline.sent + worker[playing].granted = flow[playing].reserved
         /\ flow[playing].reserved + worker[playing].left
                = timeline.generated + worker[playing].granted

\* A client that was told a format knows whose audio it is.
Named == client.format => client.gen # 0

Core == Flows /\ Workers /\ Fresh /\ Accounts /\ AckRetained /\ NoLostCredit

IInv == TypeOK /\ Named /\ Core

core == <<made, playing, flow, timeline, worker>>

USE FlowAssumption DEF Gens

-----------------------------------------------------------------------------

\* The smaller of two numbers is one of them and below both.
LEMMA LesserFact ==
    ASSUME NEW a \in Nat, NEW b \in Nat
    PROVE  Lesser(a, b) \in Nat /\ Lesser(a, b) <= a /\ Lesser(a, b) <= b
           /\ (Lesser(a, b) = a \/ Lesser(a, b) = b)
  BY DEF Lesser

\* What Available offers is what the window has left, or nothing.
LEMMA AvailableFact ==
    ASSUME NEW f \in FlowRecord
    PROVE  /\ Available(f) \in Nat
           /\ Available(f) > 0 => f.reserved + Available(f) = f.capacity + f.played
           /\ Available(f) = 0 => f.capacity + f.played <= f.reserved
  BY DEF Available, FlowRecord

\* SetPlayed moves only the position, forward, and not past what was sent.
LEMMA AdvancedFact ==
    ASSUME NEW t \in TimelineRecord, NEW p \in Nat
    PROVE  /\ Advanced(t, p) \in TimelineRecord
           /\ Advanced(t, p).sent = t.sent /\ Advanced(t, p).generated = t.generated
           /\ t.played <= t.sent => Advanced(t, p).played <= t.sent
           /\ Advanced(t, p).played >= t.played
           /\ Advanced(t, p).played >= Lesser(p, t.sent)
  BY DEF Advanced, TimelineRecord, Lesser, Greater

\* A controller after a valid credit report, or an acknowledgement, keeps its
\* counters in order, what it reserved, and never forgets what was played.
LEMMA ReportFact ==
    ASSUME NEW f \in FlowRecord, NEW m \in UpMessage, NEW h \in FlowRecord,
           f.open, f.reserved <= f.played + Window,
           f.played <= f.received, f.received <= f.reserved, f.capacity <= Window,
           \/ ValidCredit(f, m) /\ h = Updated(f, m)
           \/ h = Acknowledged(f, m.played)
    PROVE  /\ h.open /\ h.reserved = f.reserved /\ h.reserved <= h.played + Window
           /\ h.played <= h.received /\ h.received <= h.reserved /\ h.capacity <= Window
  <1>1. CASE ValidCredit(f, m) /\ h = Updated(f, m)
    BY <1>1 DEF ValidCredit, Updated, FlowRecord, UpMessage
  <1>2. CASE h = Acknowledged(f, m.played)
    BY <1>2 DEF Acknowledged, FlowRecord, UpMessage, Lesser, Greater
  <1> QED BY <1>1, <1>2

\* A report leaves a controller a controller.
LEMMA ReportType ==
    ASSUME NEW f \in FlowRecord, NEW m \in UpMessage
    PROVE  Updated(f, m) \in FlowRecord /\ Acknowledged(f, m.played) \in FlowRecord
  BY DEF Updated, Acknowledged, FlowRecord, UpMessage, Lesser, Greater

-----------------------------------------------------------------------------
(* Every step keeps the types.                                             *)

\* Writing to the client keeps the types of the connection.
LEMMA ToClientType ==
    ASSUME down \in Seq(DownMessage), NEW type, type \in {"created", "started", "audio",
           "done", "cancelled"}, NEW g \in Gens, NEW start \in Nat, NEW frames \in Nat,
           ToClient(type, g, start, frames)
    PROVE  down' \in Seq(DownMessage)
  BY DEF ToClient, DownMessage

\* What the client sends keeps the types of the connection.
LEMMA ToServerType ==
    ASSUME up \in Seq(UpMessage), NEW c \in ClientRecord, c.gen \in Gens,
           \/ ToServer(CreditOf(c))
           \/ ToServer(CreditOf(c) \o <<Progress(c)>>)
    PROVE  up' \in Seq(UpMessage)
  <1>1. Credit(c) \in UpMessage /\ Progress(c) \in UpMessage
    BY DEF Credit, Progress, UpMessage, ClientRecord
  <1>2. CreditOf(c) \in Seq(UpMessage)
    BY <1>1 DEF CreditOf
  <1>3. CreditOf(c) \o <<Progress(c)>> \in Seq(UpMessage)
    BY <1>1, <1>2
  <1>4. ASSUME NEW messages \in Seq(UpMessage), ToServer(messages)  PROVE up' \in Seq(UpMessage)
    <2>1. up' = up \o messages
      BY <1>4 DEF ToServer
    <2> QED BY <2>1
  <1>5. CASE ToServer(CreditOf(c))
    BY <1>2, <1>4, <1>5
  <1>6. CASE ToServer(CreditOf(c) \o <<Progress(c)>>)
    BY <1>3, <1>4, <1>6
  <1> QED BY <1>5, <1>6

\* The initial state is well typed.
LEMMA InitType == Init => TypeOK
  BY DEF Init, TypeOK, Idle, Silent, NoFlow, NewTimeline, FlowRecord, WorkerRecord,
         TimelineRecord, ClientRecord

\* A worker set to a well-typed record leaves the workers well typed.
LEMMA SetWorkerType ==
    ASSUME worker \in [Gens -> WorkerRecord], NEW g \in Gens, NEW left \in Nat,
           NEW granted \in Nat,
           NEW pc \in {"none", "created", "next", "registered", "announce", "reserve",
                       "waiting", "write", "account", "finished", "done", "gone"},
           SetWorker(g, pc, left, granted)
    PROVE  worker' \in [Gens -> WorkerRecord]
  BY DEF SetWorker, WorkerRecord

\* The session's steps keep the types.
LEMMA SessionType ==
    ASSUME TypeOK, \/ StartGeneration \/ CancelGeneration
                   \/ \E g \in Gens : AnnounceCancelled(g)
    PROVE  TypeOK'
  <1>1. CASE StartGeneration
    <2>1. worker \in [Gens -> WorkerRecord] /\ made + 1 \in Gens
      BY <1>1 DEF TypeOK, StartGeneration
    <2>2. worker' \in [Gens -> WorkerRecord]
      BY <1>1, <2>1, SetWorkerType DEF StartGeneration
    <2>3. timeline' \in TimelineRecord
      BY <1>1 DEF StartGeneration, NewTimeline, TimelineRecord
    <2> QED BY <1>1, <2>2, <2>3 DEF TypeOK, StartGeneration
  <1>2. CASE CancelGeneration
    BY <1>2 DEF TypeOK, CancelGeneration
  <1>3. ASSUME NEW g \in Gens, AnnounceCancelled(g)  PROVE TypeOK'
    <2>1. down' \in Seq(DownMessage)
      BY <1>3, ToClientType DEF TypeOK, AnnounceCancelled
    <2> QED BY <1>3, <2>1 DEF TypeOK, AnnounceCancelled
  <1> QED BY <1>1, <1>2, <1>3

\* A worker's steps keep the types.
LEMMA WorkerType ==
    ASSUME IInv, NEW g \in Gens, Worker(g) \/ Provider(g)
    PROVE  TypeOK'
  <1>a. worker \in [Gens -> WorkerRecord]
    BY DEF IInv, TypeOK
  <1>b. flow \in [Gens -> FlowRecord]
    BY DEF IInv, TypeOK
  <1>c. timeline \in TimelineRecord
    BY DEF IInv, TypeOK
  <1>d. down \in Seq(DownMessage)
    BY DEF IInv, TypeOK
  <1>e. worker[g].left \in Nat /\ worker[g].granted \in Nat
        /\ worker[g].granted <= worker[g].left
    BY <1>a DEF WorkerRecord, IInv, Core, Workers, Sound
  <1>f. /\ flow[g] \in FlowRecord /\ flow[g].reserved \in Nat /\ flow[g].played \in Nat
        /\ timeline.sent \in Nat /\ timeline.generated \in Nat
    BY <1>b, <1>c DEF FlowRecord, TimelineRecord
  <1>g. ASSUME flow' \in [Gens -> FlowRecord], worker' \in [Gens -> WorkerRecord],
               timeline' \in TimelineRecord, down' \in Seq(DownMessage),
               UNCHANGED <<negotiated, made, playing, owed, up, client>>
        PROVE  TypeOK'
    BY <1>g DEF IInv, TypeOK
  <1>1. CASE Abandon(g)
    <2>1. worker' \in [Gens -> WorkerRecord]
      BY <1>1, <1>a, SetWorkerType DEF Abandon
    <2>2. flow' \in [Gens -> FlowRecord]
      BY <1>1, <1>b DEF Abandon, NoFlow, FlowRecord
    <2> QED BY <1>1, <1>c, <1>d, <1>g, <2>1, <2>2 DEF Abandon
  <1>2. CASE AnnounceGeneration(g)
    <2>1. worker' \in [Gens -> WorkerRecord]
      BY <1>2, <1>a, <1>e, SetWorkerType DEF AnnounceGeneration, GoTo
    <2>2. down' \in Seq(DownMessage)
      BY <1>2, <1>d, ToClientType DEF AnnounceGeneration
    <2> QED BY <1>2, <1>b, <1>c, <1>g, <2>1, <2>2 DEF AnnounceGeneration
  <1>3. CASE OpenFlow(g)
    <2>1. worker' \in [Gens -> WorkerRecord]
      BY <1>3, <1>a, <1>e, SetWorkerType DEF OpenFlow, GoTo
    <2>2. NewFlow \in FlowRecord
      BY DEF NewFlow, NoFlow, FlowRecord, IInv, TypeOK
    <2>3. flow' \in [Gens -> FlowRecord]
      BY <1>3, <1>b, <2>2 DEF OpenFlow
    <2> QED BY <1>3, <1>c, <1>d, <1>g, <2>1, <2>3 DEF OpenFlow
  <1>4. CASE AnnounceChunk(g)
    <2>1. worker' \in [Gens -> WorkerRecord]
      BY <1>4, <1>a, <1>e, SetWorkerType DEF AnnounceChunk, GoTo
    <2>2. down' \in Seq(DownMessage)
      BY <1>4, <1>d, ToClientType DEF AnnounceChunk
    <2> QED BY <1>4, <1>b, <1>c, <1>g, <2>1, <2>2 DEF AnnounceChunk
  <1>5. CASE Reserve(g)
    <2> DEFINE n == Lesser(Lesser(worker[g].left, Packet), Available(flow[g]))
    <2>1. n \in Nat
      BY <1>e, <1>f, LesserFact, AvailableFact
    <2> HIDE DEF n
    <2>2. CASE n > 0
      <3>1. /\ flow' = [flow EXCEPT ![g].reserved = @ + n]
            /\ SetWorker(g, "write", worker[g].left, n)
        BY <1>5, <2>2 DEF Reserve, n
      <3>h. flow[g].reserved + n \in Nat
        BY <1>f, <2>1
      <3>i. [flow[g] EXCEPT !.reserved = flow[g].reserved + n] \in FlowRecord
        BY <1>f, <3>h DEF FlowRecord
      <3>j. flow' = [flow EXCEPT ![g] = [flow[g] EXCEPT !.reserved = flow[g].reserved + n]]
        BY <3>1
      <3>2. flow' \in [Gens -> FlowRecord]
        BY <1>b, <3>i, <3>j
      <3>3. worker' \in [Gens -> WorkerRecord]
        BY <1>a, <1>e, <2>1, <3>1, SetWorkerType
      <3> QED BY <1>5, <1>c, <1>d, <1>g, <3>2, <3>3 DEF Reserve
    <2>3. CASE ~(n > 0)
      <3>1. GoTo(g, "waiting") /\ UNCHANGED flow
        BY <1>5, <2>3 DEF Reserve, n
      <3>2. worker' \in [Gens -> WorkerRecord]
        BY <1>a, <1>e, <3>1, SetWorkerType DEF GoTo
      <3> QED BY <1>5, <1>b, <1>c, <1>d, <1>g, <3>1, <3>2 DEF Reserve
    <2> QED BY <2>2, <2>3
  <1>6. CASE WakeUp(g)
    <2>1. worker' \in [Gens -> WorkerRecord]
      BY <1>6, <1>a, <1>e, SetWorkerType DEF WakeUp, GoTo
    <2> QED BY <1>6, <1>b, <1>c, <1>d, <1>g, <2>1 DEF WakeUp
  <1>7. CASE WriteAudio(g)
    <2>1. worker' \in [Gens -> WorkerRecord]
      BY <1>7, <1>a, <1>e, SetWorkerType DEF WriteAudio, GoTo
    <2>2. flow[g].reserved = timeline.sent + worker[g].granted
      BY <1>7 DEF WriteAudio, IInv, Core, Accounts
    <2>3. flow[g].reserved - worker[g].granted \in Nat
      BY <1>e, <1>f, <2>2
    <2>4. down' \in Seq(DownMessage)
      BY <1>7, <1>d, <1>e, <2>3, ToClientType DEF WriteAudio
    <2> QED BY <1>7, <1>b, <1>c, <1>g, <2>1, <2>4 DEF WriteAudio
  <1>8. CASE RecordAudioSent(g)
    <2>1. [timeline EXCEPT !.sent = timeline.sent + worker[g].granted] \in TimelineRecord
      BY <1>c, <1>e, <1>f DEF TimelineRecord
    <2>2. Sent(timeline, flow[g], worker[g].granted) \in TimelineRecord
      BY <1>f, <2>1, AdvancedFact DEF Sent
    <2>3. worker[g].left - worker[g].granted \in Nat
      BY <1>e
    <2>4. worker' \in [Gens -> WorkerRecord]
      BY <1>8, <1>a, <2>3, SetWorkerType DEF RecordAudioSent
    <2> QED BY <1>8, <1>b, <1>c, <1>d, <1>g, <2>2, <2>4 DEF RecordAudioSent
  <1>9. CASE AnnounceDone(g)
    <2>1. worker' \in [Gens -> WorkerRecord]
      BY <1>9, <1>a, <1>e, SetWorkerType DEF AnnounceDone, GoTo
    <2>2. down' \in Seq(DownMessage)
      BY <1>9, <1>d, <1>f, ToClientType DEF AnnounceDone
    <2> QED BY <1>9, <1>b, <1>c, <1>g, <2>1, <2>2 DEF AnnounceDone
  <1>10. ASSUME NEW n \in 1..MaxFrames, RegisterChunk(g, n)  PROVE TypeOK'
    <2>1. worker' \in [Gens -> WorkerRecord]
      BY <1>10, <1>a, SetWorkerType DEF RegisterChunk
    <2>2. timeline' = [timeline EXCEPT !.generated = timeline.generated + n] /\ n \in Nat
      BY <1>10 DEF RegisterChunk
    <2>3. timeline' \in TimelineRecord
      BY <1>c, <1>f, <2>2 DEF TimelineRecord
    <2> QED BY <1>10, <1>b, <1>d, <1>g, <2>1, <2>3 DEF RegisterChunk
  <1>11. CASE MarkGenerationDone(g)
    <2>1. worker' \in [Gens -> WorkerRecord]
      BY <1>11, <1>a, <1>e, SetWorkerType DEF MarkGenerationDone, GoTo
    <2> QED BY <1>11, <1>b, <1>c, <1>d, <1>g, <2>1 DEF MarkGenerationDone
  <1> QED BY <1>1, <1>2, <1>3, <1>4, <1>5, <1>6, <1>7, <1>8, <1>9, <1>10, <1>11
             DEF Worker, Provider

\* Reading what the client sent keeps the types.
LEMMA ReadClientType ==
    ASSUME TypeOK, ReadClient
    PROVE  TypeOK'
  <1> DEFINE m == Head(up)
  <1>a. /\ worker \in [Gens -> WorkerRecord] /\ flow \in [Gens -> FlowRecord]
        /\ timeline \in TimelineRecord /\ up \in Seq(UpMessage) /\ up # <<>>
        /\ playing \in Nat /\ (playing # 0 => playing \in Gens)
    BY DEF TypeOK, ReadClient
  <1>b. m \in UpMessage /\ up' \in Seq(UpMessage)
    BY <1>a DEF ReadClient
  <1>c. m.gen \in Gens /\ m.played \in Nat
    BY <1>b DEF UpMessage
  <1> HIDE DEF m
  <1>d. ASSUME NEW f \in FlowRecord, playing \in Gens, Signal(playing, f)
        PROVE  worker' \in [Gens -> WorkerRecord] /\ flow' \in [Gens -> FlowRecord]
    <2>1. flow' = [flow EXCEPT ![playing] = f]
      BY <1>d DEF Signal
    <2>2. worker' = [worker EXCEPT ![playing] = [worker[playing] EXCEPT !.signalled =
                       @ \/ (At(playing, "waiting") /\ f # flow[playing])]]
      BY <1>d DEF Signal
    <2>3. PICK b \in BOOLEAN :
            worker' = [worker EXCEPT ![playing] = [worker[playing] EXCEPT !.signalled = b]]
      BY <2>2
    <2>4. [worker[playing] EXCEPT !.signalled = b] \in WorkerRecord
      BY <1>a, <1>d DEF WorkerRecord
    <2> QED BY <1>a, <1>d, <2>1, <2>3, <2>4
  <1>1. CASE UpdateAudioCredit(m)
    <2>1. CASE Concerns(m) /\ flow[playing].open /\ ValidCredit(flow[playing], m)
      <3>1. playing \in Gens /\ flow[playing] \in FlowRecord
        BY <1>a, <1>c, <2>1 DEF Concerns
      <3>2. Updated(flow[playing], m) \in FlowRecord
        BY <1>b, <3>1, ReportType
      <3>3. Updated(flow[playing], m).played \in Nat
        BY <3>2 DEF FlowRecord
      <3>4. /\ Signal(playing, Updated(flow[playing], m))
            /\ timeline' = Advanced(timeline, Updated(flow[playing], m).played)
        BY <1>1, <2>1 DEF UpdateAudioCredit
      <3>5. timeline' \in TimelineRecord
        BY <1>a, <3>3, <3>4, AdvancedFact
      <3> QED BY <1>b, <1>d, <3>1, <3>2, <3>4, <3>5 DEF ReadClient, TypeOK
    <2>2. CASE ~(Concerns(m) /\ flow[playing].open /\ ValidCredit(flow[playing], m))
      BY <1>1, <1>b, <2>2 DEF UpdateAudioCredit, ReadClient, TypeOK
    <2> QED BY <2>1, <2>2
  <1>2. CASE RecordPlayback(m)
    <2>1. CASE Concerns(m)
      <3>1. playing \in Gens /\ flow[playing] \in FlowRecord
        BY <1>a, <1>c, <2>1 DEF Concerns
      <3>2. Acknowledged(flow[playing], m.played) \in FlowRecord
        BY <1>b, <3>1, ReportType
      <3>3. timeline' \in TimelineRecord
        BY <1>2, <1>a, <1>c, <2>1, AdvancedFact DEF RecordPlayback
      <3>4. worker' \in [Gens -> WorkerRecord] /\ flow' \in [Gens -> FlowRecord]
        BY <1>2, <1>a, <1>d, <2>1, <3>1, <3>2 DEF RecordPlayback
      <3> QED BY <1>b, <3>3, <3>4 DEF ReadClient, TypeOK
    <2>2. CASE ~Concerns(m)
      BY <1>2, <1>b, <2>2 DEF RecordPlayback, ReadClient, TypeOK
    <2> QED BY <2>1, <2>2
  <1> QED BY <1>1, <1>2 DEF ReadClient, m

\* A position of the client is a number.
LEMMA ClientFact ==
    ASSUME NEW c \in ClientRecord, NEW n \in Nat, NEW b \in BOOLEAN
    PROVE  /\ [c EXCEPT !.heard = n, !.started = b] \in ClientRecord
           /\ [c EXCEPT !.acked = n] \in ClientRecord
           /\ [c EXCEPT !.acked = n].gen = c.gen /\ [c EXCEPT !.acked = n].format = c.format
           /\ [c EXCEPT !.received = n] \in ClientRecord
           /\ [c EXCEPT !.received = n].gen = c.gen
  <1>1. [c EXCEPT !.heard = n] \in ClientRecord
    BY DEF ClientRecord
  <1>2. [[c EXCEPT !.heard = n] EXCEPT !.started = b] \in ClientRecord
    BY <1>1 DEF ClientRecord
  <1>3. [c EXCEPT !.acked = n] \in ClientRecord /\ [c EXCEPT !.received = n] \in ClientRecord
    BY DEF ClientRecord
  <1>4. /\ [c EXCEPT !.acked = n].gen = c.gen /\ [c EXCEPT !.acked = n].format = c.format
        /\ [c EXCEPT !.received = n].gen = c.gen
    BY DEF ClientRecord
  <1> QED BY <1>2, <1>3, <1>4

\* What the client does keeps the types, and it reports only about a generation it
\* was told of.
LEMMA ClientType ==
    ASSUME TypeOK, Named, \/ ReadServer \/ Render
                          \/ \E position \in 1..MaxFrames : AckPlayed(position)
    PROVE  TypeOK' /\ Named'
  <1>a. client \in ClientRecord /\ down \in Seq(DownMessage) /\ up \in Seq(UpMessage)
    BY DEF TypeOK
  <1>b. /\ client.heard \in Nat /\ client.received \in Nat /\ client.gen \in 0..MaxGen
        /\ client.acked \in Nat
    BY <1>a DEF ClientRecord
  <1>c. ASSUME client' \in ClientRecord, Named', up' \in Seq(UpMessage),
               down' \in Seq(DownMessage),
               UNCHANGED <<negotiated, made, playing, flow, timeline, worker, owed>>
        PROVE  TypeOK' /\ Named'
    BY <1>c DEF TypeOK
  <1>1. CASE Render
    <2>1. [client EXCEPT !.heard = client.heard + 1,
                         !.started = client.heard + 1 < client.received] \in ClientRecord
      <3>1. client.heard + 1 \in Nat /\ (client.heard + 1 < client.received) \in BOOLEAN
        BY <1>b
      <3> QED BY <1>a, <3>1, ClientFact
    <2>2. client' = [client EXCEPT !.heard = client.heard + 1,
                                   !.started = client.heard + 1 < client.received]
      BY <1>1 DEF Render
    <2>3. Named'
      BY <1>a, <2>2 DEF Named, ClientRecord
    <2> QED BY <1>1, <1>a, <1>c, <2>1, <2>2, <2>3 DEF Render
  <1>2. ASSUME NEW position \in 1..MaxFrames, AckPlayed(position)  PROVE TypeOK' /\ Named'
    <2> DEFINE c == [client EXCEPT !.acked = position]
    <2>1. c \in ClientRecord /\ c.gen = client.gen /\ c.format = client.format
      <3>1. position \in Nat
        BY <1>2
      <3> QED BY <1>a, <3>1, ClientFact
    <2>2. client' = c /\ ToServer(CreditOf(c) \o <<Progress(c)>>) /\ client.format
      BY <1>2 DEF AckPlayed
    <2> HIDE DEF c
    <2>3. c.gen \in Gens
      BY <1>b, <2>1, <2>2 DEF Named
    <2>4. up' \in Seq(UpMessage)
      BY <1>a, <2>1, <2>2, <2>3, ToServerType
    <2>5. Named'
      BY <2>1, <2>2 DEF Named
    <2> QED BY <1>2, <1>a, <1>c, <2>1, <2>2, <2>4, <2>5 DEF AckPlayed
  <1>3. CASE ReadServer
    <2> DEFINE m == Head(down)
    <2>1. m \in DownMessage /\ down' \in Seq(DownMessage)
      BY <1>3, <1>a DEF ReadServer
    <2>2. /\ m.gen \in Gens /\ m.frames \in Nat
          /\ m.type \in {"created", "started", "audio", "done", "cancelled"}
      BY <2>1 DEF DownMessage
    <2> HIDE DEF m
    <2>3. ASSUME NEW c \in ClientRecord, c.gen \in Gens, Answer(c)
          PROVE  client' \in ClientRecord /\ Named' /\ up' \in Seq(UpMessage)
      <3>1. client' = c /\ ToServer(CreditOf(c))
        BY <2>3 DEF Answer
      <3>2. up' \in Seq(UpMessage)
        BY <1>a, <2>3, <3>1, ToServerType
      <3> QED BY <2>3, <3>1, <3>2 DEF Named
    <2>4. CASE m.type = "created" /\ OnCreated(m)
      <3>1. Silent(m.gen, "generating") \in ClientRecord
        BY <2>2 DEF Silent, ClientRecord
      <3> QED BY <1>3, <1>a, <1>c, <2>1, <2>4, <3>1 DEF OnCreated, Silent, Named, ReadServer
    <2>5. CASE m.type = "cancelled" /\ OnCancelled(m)
      <3>1. Silent(m.gen, "cancelled") \in ClientRecord
        BY <2>2 DEF Silent, ClientRecord
      <3> QED BY <1>3, <1>a, <1>c, <2>1, <2>5, <3>1 DEF OnCancelled, Silent, Named, ReadServer
    <2>6. CASE m.type = "started" /\ OnStarted(m)
      <3>1. [client EXCEPT !.format = TRUE] \in ClientRecord
            /\ [client EXCEPT !.format = TRUE].gen = client.gen
        BY <1>a DEF ClientRecord
      <3>2. CASE Listening(m.gen) /\ ~client.format
        BY <1>3, <1>c, <2>1, <2>2, <2>3, <2>6, <3>1, <3>2 DEF OnStarted, Listening, ReadServer
      <3>3. CASE ~(Listening(m.gen) /\ ~client.format)
        BY <1>3, <1>a, <1>c, <2>1, <2>6, <3>3 DEF OnStarted, Named, ReadServer
      <3> QED BY <3>2, <3>3
    <2>7. CASE m.type = "audio" /\ OnAudio(m)
      <3>1. /\ [client EXCEPT !.received = client.received + m.frames] \in ClientRecord
            /\ [client EXCEPT !.received = client.received + m.frames].gen = client.gen
        <4>1. client.received + m.frames \in Nat
          BY <1>b, <2>2
        <4> QED BY <1>a, <4>1, ClientFact
      <3>2. ASSUME NEW x \in {"position", "window"}, client' = [client EXCEPT !.fault = x]
            PROVE  client' \in ClientRecord /\ Named'
        BY <1>a, <3>2 DEF ClientRecord, Named
      <3>3. CASE client' = [client EXCEPT !.fault = "position"] /\ UNCHANGED up
        BY <1>3, <1>a, <1>c, <2>1, <3>2, <3>3 DEF ReadServer
      <3>4. CASE client' = [client EXCEPT !.fault = "window"] /\ UNCHANGED up
        BY <1>3, <1>a, <1>c, <2>1, <3>2, <3>4 DEF ReadServer
      <3>5. CASE UNCHANGED <<client, up>>
        BY <1>3, <1>a, <1>c, <2>1, <3>5 DEF ReadServer, Named
      <3>6. CASE Listening(m.gen)
                 /\ Answer([client EXCEPT !.received = client.received + m.frames])
        BY <1>3, <1>c, <2>1, <2>2, <2>3, <3>1, <3>6 DEF Listening, ReadServer
      <3> QED BY <2>7, <3>3, <3>4, <3>5, <3>6 DEF OnAudio
    <2>8. CASE m.type = "done" /\ OnDone(m)
      <3>1. ASSUME client' = [client EXCEPT !.fault = "incomplete"]
                   \/ client' = [client EXCEPT !.state = "done"] \/ client' = client
            PROVE  client' \in ClientRecord /\ Named'
        BY <1>a, <3>1 DEF ClientRecord, Named
      <3>2. client' \in ClientRecord /\ Named' /\ UNCHANGED up
        BY <2>8, <3>1 DEF OnDone
      <3> QED BY <1>3, <1>a, <1>c, <2>1, <3>2 DEF ReadServer
    <2> QED BY <1>3, <2>2, <2>4, <2>5, <2>6, <2>7, <2>8 DEF ReadServer, m
  <1> QED BY <1>1, <1>2, <1>3

-----------------------------------------------------------------------------
(* Every step keeps the accounts.                                          *)

\* The facts about types the accounts need.
LEMMA CoreTypes ==
    ASSUME TypeOK
    PROVE  /\ flow \in [Gens -> FlowRecord] /\ worker \in [Gens -> WorkerRecord]
           /\ timeline \in TimelineRecord
           /\ playing \in Nat /\ (playing # 0 => playing \in Gens /\ playing <= made)
           /\ \A g \in Gens : /\ flow[g] \in FlowRecord
                              /\ flow[g].capacity \in Nat /\ flow[g].reserved \in Nat
                              /\ flow[g].received \in Nat /\ flow[g].played \in Nat
                              /\ worker[g] \in WorkerRecord
                              /\ worker[g].left \in Nat /\ worker[g].granted \in Nat
           /\ timeline.generated \in Nat /\ timeline.sent \in Nat /\ timeline.played \in Nat
  <1>1. /\ flow \in [Gens -> FlowRecord] /\ worker \in [Gens -> WorkerRecord]
        /\ timeline \in TimelineRecord
        /\ playing \in Nat /\ (playing # 0 => playing \in Gens /\ playing <= made)
    BY DEF TypeOK
  <1>2. ASSUME NEW g \in Gens
        PROVE  /\ flow[g].capacity \in Nat /\ flow[g].reserved \in Nat
               /\ flow[g].received \in Nat /\ flow[g].played \in Nat
               /\ worker[g].left \in Nat /\ worker[g].granted \in Nat
    BY <1>1 DEF FlowRecord, WorkerRecord
  <1>3. timeline.generated \in Nat /\ timeline.sent \in Nat /\ timeline.played \in Nat
    BY <1>1 DEF TimelineRecord
  <1> QED BY <1>1, <1>2, <1>3

\* The initial state keeps the accounts.
LEMMA InitCore == Init => Core /\ Named
  <1> SUFFICES ASSUME Init PROVE Core /\ Named
    OBVIOUS
  <1>1. Flows /\ Workers /\ Fresh /\ Accounts /\ AckRetained /\ NoLostCredit
    BY DEF Init, Idle, NoFlow, NewTimeline, Flows, Workers, Sound, Speaking, Resting, Fresh, Accounts, AckRetained,
           NoLostCredit, At, Busy, Lesser
  <1>2. Named
    BY DEF Init, Silent, Named
  <1> QED BY <1>1, <1>2 DEF Core

\* Steps that touch neither the session nor a worker keep the accounts.
LEMMA IdleCore ==
    ASSUME Core, UNCHANGED core
    PROVE  Core'
  BY DEF core, Core, Flows, Workers, Fresh, Accounts, AckRetained, NoLostCredit, At, Available,
         Lesser

\* A new generation starts with empty accounts, and the end of one closes them.
LEMMA SessionCore ==
    ASSUME TypeOK, Core, \/ StartGeneration \/ CancelGeneration
    PROVE  Core'
  <1>t. /\ flow \in [Gens -> FlowRecord] /\ worker \in [Gens -> WorkerRecord]
        /\ timeline \in TimelineRecord
        /\ playing \in Nat /\ (playing # 0 => playing \in Gens /\ playing <= made)
    BY CoreTypes
  <1>1. CASE StartGeneration
    <2>1. /\ made + 1 \in Gens /\ made' = made + 1 /\ playing' = made + 1
          /\ timeline' = [generated |-> 0, sent |-> 0, played |-> 0] /\ flow' = flow
          /\ SetWorker(made + 1, "created", 0, 0)
      BY <1>1 DEF StartGeneration, NewTimeline, TypeOK
    <2>2. worker[made + 1] = Idle /\ flow[made + 1] = NoFlow
      BY <2>1 DEF Core, Fresh, TypeOK
    <2>3. /\ worker'[made + 1].pc = "created" /\ worker'[made + 1].left = 0
          /\ worker'[made + 1].granted = 0
      BY <1>t, <2>1 DEF SetWorker
    <2>4. \A g \in Gens : g # made + 1 => worker'[g] = worker[g]
      BY <1>t, <2>1 DEF SetWorker
    <2>5. Flows'
      BY <2>1 DEF Core, Flows
    <2>6. Workers'
      <3>1. ASSUME NEW g \in Gens, g # made + 1
            PROVE  Sound(worker'[g])
        BY <2>4, <3>1 DEF Core, Workers
      <3> QED BY <2>3, <3>1 DEF Workers, Sound, Speaking, Busy
    <2>7. Fresh'
      BY <2>1, <2>4 DEF Core, Fresh, TypeOK
    <2>8. Accounts'
      BY <2>1, <2>2, <2>3 DEF Accounts, NoFlow
    <2>9. AckRetained'
      BY <2>1, <2>2 DEF AckRetained, NoFlow
    <2>10. NoLostCredit'
      BY <2>1, <2>3, <2>4 DEF Core, NoLostCredit, At
    <2> QED BY <2>5, <2>6, <2>7, <2>8, <2>9, <2>10 DEF Core
  <1>2. CASE CancelGeneration
    BY <1>2 DEF CancelGeneration, Core, Flows, Workers, Fresh, Accounts, AckRetained,
                NoLostCredit, At, Available
  <1> QED BY <1>1, <1>2

\* A worker that goes on without touching the accounts keeps them.
LEMMA MoveCore ==
    ASSUME TypeOK, Core, NEW g \in Gens,
           NEW pc \in {"next", "announce", "reserve", "account", "finished", "done"},
           GoTo(g, pc),
           ~At(g, "none"),
           pc \notin Busy => worker[g].granted = 0,
           pc \in Resting => worker[g].left = 0, pc \in Speaking => worker[g].left > 0,
           UNCHANGED <<made, playing, flow, timeline>>
    PROVE  Core'
  <1>t. worker \in [Gens -> WorkerRecord] /\ playing \in Nat
        /\ (playing # 0 => playing \in Gens)
    BY CoreTypes
  <1>1. /\ worker'[g].pc = pc /\ worker'[g].left = worker[g].left
        /\ worker'[g].granted = worker[g].granted
        /\ \A h \in Gens : h # g => worker'[h] = worker[h]
    BY <1>t DEF GoTo, SetWorker
  <1>2. worker[g].granted <= worker[g].left
    BY DEF Core, Workers, Sound
  <1>3. Flows' /\ AckRetained'
    BY DEF Core, Flows, AckRetained, Lesser
  <1>4. Workers'
    <2>1. ASSUME NEW h \in Gens, h # g
          PROVE  Sound(worker'[h])
      BY <1>1, <2>1 DEF Core, Workers
    <2> QED BY <1>1, <1>2, <2>1 DEF Workers, Sound
  <1>5. Fresh'
    BY <1>1 DEF Core, Fresh, At, Idle
  <1>6. Accounts'
    BY <1>1, <1>t DEF Core, Accounts
  <1>7. NoLostCredit'
    BY <1>1 DEF Core, NoLostCredit, At
  <1> QED BY <1>3, <1>4, <1>5, <1>6, <1>7 DEF Core

\* A chunk is added to what was synthesised and to what is left.
LEMMA RegisterCore ==
    ASSUME TypeOK, Core, NEW g \in Gens, NEW n \in 1..MaxFrames, RegisterChunk(g, n)
    PROVE  Core'
  <1>t. worker \in [Gens -> WorkerRecord] /\ timeline \in TimelineRecord
        /\ flow[g].reserved \in Nat /\ worker[g].left \in Nat
        /\ timeline.generated \in Nat /\ timeline.sent \in Nat /\ timeline.played \in Nat
    BY CoreTypes
  <1>1. /\ worker[g].pc = "next" /\ playing = g /\ SetWorker(g, "registered", n, 0)
        /\ timeline' = [timeline EXCEPT !.generated = timeline.generated + n]
        /\ UNCHANGED <<made, playing, flow>> /\ n \in Nat
    BY DEF RegisterChunk, At
  <1>2. /\ worker'[g].pc = "registered" /\ worker'[g].left = n /\ worker'[g].granted = 0
        /\ \A h \in Gens : h # g => worker'[h] = worker[h]
    BY <1>t, <1>1 DEF SetWorker
  <1>3. /\ timeline'.generated = timeline.generated + n /\ timeline'.sent = timeline.sent
        /\ timeline'.played = timeline.played
    BY <1>t, <1>1 DEF TimelineRecord
  <1>4. worker[g].left = 0 /\ worker[g].granted = 0
    BY <1>1 DEF Core, Workers, Sound, Busy, Resting
  <1>5. Flows' /\ AckRetained'
    BY <1>1, <1>3 DEF Core, Flows, AckRetained, Lesser
  <1>6. Workers'
    <2>1. ASSUME NEW h \in Gens, h # g
          PROVE  Sound(worker'[h])
      BY <1>2, <2>1 DEF Core, Workers
    <2> QED BY <1>1, <1>2, <2>1 DEF Workers, Sound, Resting
  <1>7. Fresh'
    BY <1>1, <1>2 DEF Core, Fresh, Idle
  <1>8. Accounts'
    BY <1>t, <1>1, <1>2, <1>3, <1>4 DEF Core, Accounts
  <1>9. NoLostCredit'
    BY <1>1, <1>2 DEF Core, NoLostCredit, At
  <1> QED BY <1>5, <1>6, <1>7, <1>8, <1>9 DEF Core

\* A new controller is blank but for its window.
LEMMA OpenCore ==
    ASSUME TypeOK, Core, NEW g \in Gens, OpenFlow(g)
    PROVE  Core'
  <1>t. worker \in [Gens -> WorkerRecord] /\ flow \in [Gens -> FlowRecord]
    BY CoreTypes
  <1>n. /\ worker[g].left \in Nat /\ worker[g].granted \in Nat
        /\ timeline.generated \in Nat /\ timeline.sent \in Nat /\ timeline.played \in Nat
    BY CoreTypes
  <1>1. /\ worker[g].pc = "registered" /\ playing = g /\ GoTo(g, "announce")
        /\ flow' = [flow EXCEPT ![g] = IF flow[g].open THEN flow[g] ELSE NewFlow]
        /\ UNCHANGED <<made, playing, timeline>>
    BY DEF OpenFlow, At
  <1>2. /\ worker'[g].pc = "announce" /\ worker'[g].left = worker[g].left
        /\ worker'[g].granted = worker[g].granted
        /\ \A h \in Gens : h # g => worker'[h] = worker[h]
    BY <1>t, <1>1 DEF GoTo, SetWorker
  <1>3. \A h \in Gens : h # g => flow'[h] = flow[h]
    BY <1>t, <1>1
  <1>4. CASE flow[g].open
    <2>1. flow' = flow
      BY <1>t, <1>1, <1>4
    <2>2. worker[g].granted = 0 /\ ~At(g, "none") /\ worker[g].left > 0
      BY <1>1 DEF Core, Workers, Sound, Busy, Speaking, At
    <2>3. "announce" \notin Resting
      BY DEF Resting
    <2>4. UNCHANGED <<made, playing, flow, timeline>>
      BY <1>1, <2>1
    <2> QED BY <1>1, <2>2, <2>3, <2>4, MoveCore
  <1>5. CASE ~flow[g].open
    <2>1. flow[g] = NoFlow /\ flow'[g] = NewFlow
      BY <1>t, <1>1, <1>5 DEF Core, Flows
    <2>2. /\ NewFlow.open /\ NewFlow.capacity <= Window /\ NewFlow.reserved = 0
          /\ NewFlow.received = 0 /\ NewFlow.played = 0 /\ NoFlow.reserved = 0
      BY DEF NewFlow, NoFlow
    <2>3. worker[g].granted = 0 /\ worker[g].left > 0
      BY <1>1 DEF Core, Workers, Sound, Busy, Speaking
    <2>4. Flows'
      BY <1>3, <2>1, <2>2 DEF Core, Flows
    <2>5. Workers'
      <3>1. ASSUME NEW h \in Gens, h # g
            PROVE  Sound(worker'[h])
        BY <1>2, <3>1 DEF Core, Workers
      <3>2. Sound(worker'[g])
        BY <1>n, <1>2, <2>3 DEF Sound, Busy, Speaking, Resting
      <3> QED BY <3>1, <3>2 DEF Workers
    <2>6. Fresh'
      BY <1>1, <1>2, <1>3 DEF Core, Fresh, Idle
    <2>7. Accounts'
      BY <1>n, <1>1, <1>2, <2>1, <2>2 DEF Core, Accounts
    <2>8. AckRetained'
      <3>1. Lesser(NewFlow.played, timeline.sent) = 0
        BY <1>n, <2>2 DEF Lesser
      <3> QED BY <1>n, <1>1, <2>1, <3>1 DEF AckRetained
    <2>9. NoLostCredit'
      BY <1>2, <1>3 DEF Core, NoLostCredit, At
    <2> QED BY <2>4, <2>5, <2>6, <2>7, <2>8, <2>9 DEF Core
  <1> QED BY <1>4, <1>5

\* A worker whose context ended takes its controller with it.
LEMMA AbandonCore ==
    ASSUME TypeOK, Core, NEW g \in Gens, Abandon(g)
    PROVE  Core'
  <1>t. worker \in [Gens -> WorkerRecord] /\ flow \in [Gens -> FlowRecord]
    BY CoreTypes
  <1>1. /\ worker[g].pc # "none" /\ playing # g /\ SetWorker(g, "gone", 0, 0)
        /\ flow' = [flow EXCEPT ![g] = NoFlow] /\ UNCHANGED <<made, playing, timeline>>
    BY DEF Abandon, At
  <1>2. /\ worker'[g].pc = "gone" /\ worker'[g].left = 0 /\ worker'[g].granted = 0
        /\ \A h \in Gens : h # g => worker'[h] = worker[h]
    BY <1>t, <1>1 DEF SetWorker
  <1>3. flow'[g] = NoFlow /\ \A h \in Gens : h # g => flow'[h] = flow[h]
    BY <1>t, <1>1
  <1>4. Flows'
    BY <1>3 DEF Core, Flows, NoFlow
  <1>5. Workers'
    <2>1. ASSUME NEW h \in Gens, h # g
          PROVE  Sound(worker'[h])
      BY <1>2, <2>1 DEF Core, Workers
    <2> QED BY <1>2, <2>1 DEF Workers, Sound, Busy, Speaking, Resting
  <1>6. Fresh'
    BY <1>1, <1>2, <1>3 DEF Core, Fresh, Idle
  <1>7. Accounts' /\ AckRetained'
    <2>1. playing # 0 => playing \in Gens
      BY CoreTypes
    <2> QED BY <1>1, <1>2, <1>3, <2>1 DEF Core, Accounts, AckRetained
  <1>8. NoLostCredit'
    BY <1>2, <1>3 DEF Core, NoLostCredit, At
  <1> QED BY <1>4, <1>5, <1>6, <1>7, <1>8 DEF Core

\* What is granted fits the window and what is left, or the worker waits at an empty
\* window.
LEMMA ReserveCore ==
    ASSUME TypeOK, Core, NEW g \in Gens, Reserve(g)
    PROVE  Core'
  <1> DEFINE n == Lesser(Lesser(worker[g].left, Packet), Available(flow[g]))
  <1>t. /\ worker \in [Gens -> WorkerRecord] /\ flow \in [Gens -> FlowRecord]
        /\ flow[g] \in FlowRecord
    BY CoreTypes
  <1>n. /\ flow[g].reserved \in Nat /\ flow[g].played \in Nat /\ flow[g].received \in Nat
        /\ flow[g].capacity \in Nat /\ worker[g].left \in Nat /\ worker[g].granted \in Nat
        /\ timeline.generated \in Nat /\ timeline.sent \in Nat /\ timeline.played \in Nat
    BY CoreTypes
  <1>0. /\ n \in Nat /\ n <= worker[g].left /\ n <= Available(flow[g])
        /\ (n = worker[g].left \/ n = Packet \/ n = Available(flow[g]))
    <2>1. /\ Lesser(worker[g].left, Packet) \in Nat
          /\ Lesser(worker[g].left, Packet) <= worker[g].left
          /\ (Lesser(worker[g].left, Packet) = worker[g].left
               \/ Lesser(worker[g].left, Packet) = Packet)
      BY <1>n, LesserFact
    <2>2. Available(flow[g]) \in Nat
      BY <1>t, AvailableFact
    <2>3. /\ n \in Nat /\ n <= Lesser(worker[g].left, Packet) /\ n <= Available(flow[g])
          /\ (n = Lesser(worker[g].left, Packet) \/ n = Available(flow[g]))
      BY <2>1, <2>2, LesserFact
    <2> QED BY <1>n, <2>1, <2>2, <2>3
  <1>1. /\ worker[g].pc = "reserve" /\ playing = g /\ UNCHANGED <<made, playing, timeline>>
        /\ (n > 0 => flow' = [flow EXCEPT ![g].reserved = flow[g].reserved + n]
                      /\ SetWorker(g, "write", worker[g].left, n))
        /\ (~(n > 0) => GoTo(g, "waiting") /\ flow' = flow)
    BY DEF Reserve, At
  <1> HIDE DEF n
  <1>2. worker[g].granted = 0 /\ worker[g].left > 0
    BY <1>1 DEF Core, Workers, Sound, Busy, Speaking
  <1>a. /\ timeline.played <= timeline.sent /\ timeline.sent <= timeline.generated
        /\ timeline.sent = flow[g].reserved
        /\ flow[g].reserved + worker[g].left = timeline.generated
    BY <1>n, <1>1, <1>2 DEF Core, Accounts
  <1>b. /\ flow[g].played <= flow[g].received /\ flow[g].received <= flow[g].reserved
        /\ flow[g].capacity <= Window
    BY DEF Core, Flows
  <1>3. CASE n > 0
    <2>1. /\ worker'[g].pc = "write" /\ worker'[g].left = worker[g].left
          /\ worker'[g].granted = n /\ \A h \in Gens : h # g => worker'[h] = worker[h]
      BY <1>t, <1>1, <1>3 DEF SetWorker
    <2>2. /\ flow'[g] = [flow[g] EXCEPT !.reserved = flow[g].reserved + n]
          /\ \A h \in Gens : h # g => flow'[h] = flow[h]
      BY <1>t, <1>1, <1>3
    <2>3. /\ flow'[g].reserved = flow[g].reserved + n /\ flow'[g].played = flow[g].played
          /\ flow'[g].received = flow[g].received /\ flow'[g].capacity = flow[g].capacity
          /\ flow'[g].open = flow[g].open
      BY <1>t, <2>2 DEF FlowRecord
    <2>4. Available(flow[g]) > 0 /\ n + flow[g].reserved <= flow[g].capacity + flow[g].played
      BY <1>t, <1>n, <1>0, <1>3, AvailableFact
    <2>5. flow[g].open
      <3>1. ~flow[g].open => Available(flow[g]) = 0
        BY DEF Core, Flows, NoFlow, Available
      <3> QED BY <2>4, <3>1
    <2>6. Flows'
      <3>1. /\ flow'[g].reserved <= flow'[g].played + Window
            /\ flow'[g].played <= flow'[g].received /\ flow'[g].received <= flow'[g].reserved
            /\ flow'[g].capacity <= Window /\ flow'[g].open
        BY <1>n, <1>0, <1>b, <2>3, <2>4, <2>5
      <3> QED BY <2>2, <3>1 DEF Core, Flows
    <2>7. Workers'
      <3>1. ASSUME NEW h \in Gens, h # g
            PROVE  Sound(worker'[h])
        BY <2>1, <3>1 DEF Core, Workers
      <3>2. Sound(worker'[g])
        BY <1>n, <1>0, <1>2, <2>1 DEF Sound, Busy, Speaking, Resting
      <3> QED BY <3>1, <3>2 DEF Workers
    <2>8. Fresh'
      BY <1>1, <2>1, <2>2 DEF Core, Fresh, Idle
    <2>9. Accounts'
      <3>1. /\ timeline.sent + n = flow'[g].reserved
            /\ flow'[g].reserved + worker[g].left = timeline.generated + n
        BY <1>n, <1>0, <1>a, <2>3
      <3> QED BY <1>1, <1>a, <2>1, <3>1 DEF Accounts
    <2>10. AckRetained'
      BY <1>1, <2>3 DEF Core, AckRetained
    <2>11. NoLostCredit'
      BY <2>1, <2>2 DEF Core, NoLostCredit, At
    <2> QED BY <2>6, <2>7, <2>8, <2>9, <2>10, <2>11 DEF Core
  <1>4. CASE ~(n > 0)
    <2>1. /\ worker'[g].pc = "waiting" /\ worker'[g].left = worker[g].left
          /\ worker'[g].granted = 0 /\ \A h \in Gens : h # g => worker'[h] = worker[h]
          /\ flow' = flow
      BY <1>t, <1>1, <1>2, <1>4 DEF GoTo, SetWorker
    <2>2. Available(flow[g]) = 0
      BY <1>n, <1>0, <1>2, <1>4
    <2>3. Flows' /\ AckRetained'
      BY <1>1, <2>1 DEF Core, Flows, AckRetained
    <2>4. Workers'
      <3>1. ASSUME NEW h \in Gens, h # g  PROVE Sound(worker'[h])
        BY <2>1, <3>1 DEF Core, Workers
      <3>2. Sound(worker'[g])
        BY <1>n, <1>2, <2>1 DEF Sound, Busy, Speaking, Resting
      <3> QED BY <3>1, <3>2 DEF Workers
    <2>5. Fresh'
      BY <1>1, <2>1 DEF Core, Fresh, Idle
    <2>6. Accounts'
      BY <1>n, <1>1, <1>a, <2>1 DEF Accounts
    <2>7. NoLostCredit'
      BY <2>1, <2>2 DEF Core, NoLostCredit, At
    <2> QED BY <2>3, <2>4, <2>5, <2>6, <2>7 DEF Core
  <1> QED BY <1>0, <1>3, <1>4

\* Counting what was sent changes nothing else.
LEMMA CountFact ==
    ASSUME NEW t \in TimelineRecord, NEW n \in Nat
    PROVE  /\ [t EXCEPT !.sent = n] \in TimelineRecord
           /\ [t EXCEPT !.sent = n].sent = n /\ [t EXCEPT !.sent = n].played = t.played
           /\ [t EXCEPT !.sent = n].generated = t.generated
  BY DEF TimelineRecord

\* The accounting of a written packet closes its grant, and takes in what the client
\* acknowledged meanwhile.
LEMMA SentCore ==
    ASSUME TypeOK, Core, NEW g \in Gens, RecordAudioSent(g)
    PROVE  Core'
  <1> DEFINE n == worker[g].granted
             t == [timeline EXCEPT !.sent = timeline.sent + n]
             pc == IF worker[g].left = n THEN "next" ELSE "reserve"
  <1>t. /\ worker \in [Gens -> WorkerRecord] /\ timeline \in TimelineRecord
        /\ flow[g] \in FlowRecord
    BY CoreTypes
  <1>n. /\ flow[g].reserved \in Nat /\ flow[g].played \in Nat
        /\ worker[g].left \in Nat /\ n \in Nat /\ n <= worker[g].left
        /\ timeline.generated \in Nat /\ timeline.sent \in Nat /\ timeline.played \in Nat
    BY CoreTypes DEF Core, Workers, Sound
  <1>1. /\ worker[g].pc = "account" /\ SetWorker(g, pc, worker[g].left - n, 0)
        /\ UNCHANGED <<made, playing, flow>>
        /\ timeline' = IF playing = g THEN Sent(timeline, flow[g], n) ELSE timeline
    BY DEF RecordAudioSent, At
  <1>2. /\ worker'[g].pc = pc /\ worker'[g].left = worker[g].left - n
        /\ worker'[g].granted = 0 /\ \A h \in Gens : h # g => worker'[h] = worker[h]
    BY <1>t, <1>1 DEF SetWorker
  <1>3. Flows'
    BY <1>1 DEF Core, Flows
  <1>4. Workers'
    <2>1. ASSUME NEW h \in Gens, h # g  PROVE Sound(worker'[h])
      BY <1>2, <2>1 DEF Core, Workers
    <2>2. CASE worker[g].left = n
      <3>1. Sound(worker'[g])
        BY <1>n, <1>2, <2>2 DEF Sound, Busy, Speaking, Resting
      <3> QED BY <2>1, <3>1 DEF Workers
    <2>3. CASE worker[g].left # n
      <3>1. worker[g].left - n > 0
        BY <1>n, <2>3
      <3>2. Sound(worker'[g])
        BY <1>n, <1>2, <2>3, <3>1 DEF Sound, Busy, Speaking, Resting
      <3> QED BY <2>1, <3>2 DEF Workers
    <2> QED BY <2>2, <2>3
  <1>5. Fresh'
    BY <1>1, <1>2 DEF Core, Fresh, Idle
  <1>6. NoLostCredit'
    BY <1>1, <1>2 DEF Core, NoLostCredit, At
  <1>7. CASE playing # g
    <2>1. (playing # 0 => playing \in Gens) /\ timeline' = timeline
      BY <1>1, <1>7, CoreTypes
    <2>2. Accounts'
      BY <1>1, <1>2, <1>7, <2>1 DEF Core, Accounts
    <2>3. AckRetained'
      BY <1>1, <2>1 DEF Core, AckRetained
    <2> QED BY <1>3, <1>4, <1>5, <1>6, <2>2, <2>3 DEF Core
  <1>8. CASE playing = g
    <2>1. /\ timeline.played <= timeline.sent
          /\ timeline.sent + n = flow[g].reserved
          /\ flow[g].reserved + worker[g].left = timeline.generated + n
      BY <1>8 DEF Core, Accounts
    <2>2. t \in TimelineRecord /\ t.sent = timeline.sent + n /\ t.played = timeline.played
          /\ t.generated = timeline.generated
      <3>1. timeline.sent + n \in Nat
        BY <1>n
      <3> QED BY <1>t, <3>1, CountFact
    <2>3. timeline' = Advanced(t, flow[g].played)
      BY <1>1, <1>8 DEF Sent
    <2> HIDE DEF t
    <2>4. /\ timeline'.sent = t.sent /\ timeline'.generated = t.generated
          /\ (t.played <= t.sent => timeline'.played <= t.sent)
          /\ timeline'.played >= Lesser(flow[g].played, t.sent)
      BY <1>n, <2>2, <2>3, AdvancedFact
    <2>5. /\ timeline'.sent = flow[g].reserved /\ timeline'.sent <= timeline'.generated
          /\ flow[g].reserved + (worker[g].left - n) = timeline'.generated
          /\ t.played <= t.sent
      BY <1>n, <2>1, <2>2, <2>4
    <2>6. timeline'.played <= timeline'.sent
      BY <2>4, <2>5
    <2>7. Accounts'
      BY <1>n, <1>1, <1>2, <1>8, <2>5, <2>6 DEF Accounts
    <2>8. AckRetained'
      BY <1>1, <1>8, <2>4 DEF AckRetained
    <2> QED BY <1>3, <1>4, <1>5, <1>6, <2>7, <2>8 DEF Core
  <1> QED BY <1>7, <1>8

\* What the client reports moves the window and the position together, and wakes
\* whoever waits for the window.
LEMMA ReadCore ==
    ASSUME TypeOK, Core, ReadClient
    PROVE  Core'
  <1> DEFINE m == Head(up)
  <1>t. /\ worker \in [Gens -> WorkerRecord] /\ flow \in [Gens -> FlowRecord]
        /\ timeline \in TimelineRecord
        /\ (playing # 0 => playing \in Gens /\ playing <= made)
    BY CoreTypes
  <1>n. /\ timeline.generated \in Nat /\ timeline.sent \in Nat /\ timeline.played \in Nat
        /\ playing \in Nat
    BY CoreTypes
  <1>m. m \in UpMessage /\ m.gen \in Gens /\ m.played \in Nat
    <2>1. up \in Seq(UpMessage) /\ up # <<>>
      BY DEF ReadClient, TypeOK
    <2>2. m \in UpMessage
      BY <2>1
    <2> QED BY <2>2 DEF UpMessage
  <1>r. UNCHANGED <<made, playing>> /\ (UpdateAudioCredit(m) \/ RecordPlayback(m))
    BY DEF ReadClient
  <1> HIDE DEF m
  <1>s. ASSUME UNCHANGED <<flow, worker, timeline>>  PROVE Core'
    BY <1>r, <1>s, IdleCore DEF core
  \* What holds of the timeline after the position moved to p.
  <1>p. ASSUME NEW p \in Nat, timeline' = Advanced(timeline, p)
        PROVE  /\ timeline'.sent = timeline.sent /\ timeline'.generated = timeline.generated
               /\ timeline'.played <= timeline'.sent /\ timeline'.sent <= timeline'.generated
               /\ timeline'.played \in Nat
               /\ timeline'.played >= timeline.played
               /\ timeline'.played >= Lesser(p, timeline.sent)
    <2>1. timeline.played <= timeline.sent /\ timeline.sent <= timeline.generated
      BY DEF Core, Accounts
    <2>2. /\ timeline'.sent = timeline.sent /\ timeline'.generated = timeline.generated
          /\ timeline'.played <= timeline.sent /\ timeline' \in TimelineRecord
          /\ timeline'.played >= timeline.played
          /\ timeline'.played >= Lesser(p, timeline.sent)
      BY <1>t, <1>p, <2>1, AdvancedFact
    <2> QED BY <2>1, <2>2 DEF TimelineRecord
  \* What signalling the playing generation's worker keeps.
  <1>f. ASSUME NEW f \in FlowRecord, playing \in Gens, Signal(playing, f), f.open,
               f.reserved = flow[playing].reserved, f.reserved <= f.played + Window,
               f.played <= f.received, f.received <= f.reserved, f.capacity <= Window,
               NEW p \in Nat, timeline' = Advanced(timeline, p),
               timeline'.played >= Lesser(f.played, timeline'.sent)
        PROVE  Core'
    <2>1. flow'[playing] = f /\ \A h \in Gens : h # playing => flow'[h] = flow[h]
      BY <1>t, <1>f DEF Signal
    <2>2. worker' = [worker EXCEPT ![playing] = [worker[playing] EXCEPT !.signalled =
                       @ \/ (At(playing, "waiting") /\ f # flow[playing])]]
      BY <1>f DEF Signal
    <2>3. PICK b \in BOOLEAN :
            /\ worker' = [worker EXCEPT ![playing] = [worker[playing] EXCEPT !.signalled = b]]
            /\ At(playing, "waiting") /\ ~b => ~worker[playing].signalled /\ f = flow[playing]
      BY <2>2
    <2>4. /\ worker'[playing] = [worker[playing] EXCEPT !.signalled = b]
          /\ \A h \in Gens : h # playing => worker'[h] = worker[h]
      BY <1>t, <1>f, <2>3
    <2>5. /\ worker'[playing].pc = worker[playing].pc
          /\ worker'[playing].left = worker[playing].left
          /\ worker'[playing].granted = worker[playing].granted
          /\ worker'[playing].signalled = b
      BY <1>t, <1>f, <2>4 DEF WorkerRecord
    <2>6. Flows'
      BY <1>f, <2>1 DEF Core, Flows
    <2>7. Workers'
      <3>1. ASSUME NEW h \in Gens, h # playing  PROVE Sound(worker'[h])
        BY <2>4, <3>1 DEF Core, Workers
      <3>2. Sound(worker'[playing])
        BY <1>f, <2>5 DEF Core, Workers, Sound
      <3> QED BY <3>1, <3>2 DEF Workers
    <2>8. Fresh'
      BY <1>t, <1>n, <1>r, <1>f, <2>1, <2>4 DEF Core, Fresh, TypeOK
    <2>9. Accounts'
      BY <1>n, <1>r, <1>f, <1>p, <2>1, <2>5 DEF Core, Accounts
    <2>10. AckRetained'
      BY <1>r, <1>f, <2>1 DEF AckRetained
    <2>11. NoLostCredit'
      BY <1>f, <2>1, <2>3, <2>4, <2>5 DEF Core, NoLostCredit, At
    <2> QED BY <2>6, <2>7, <2>8, <2>9, <2>10, <2>11 DEF Core
  <1>1. CASE UpdateAudioCredit(m)
    <2>1. CASE Concerns(m) /\ flow[playing].open /\ ValidCredit(flow[playing], m)
      <3> DEFINE f == Updated(flow[playing], m)
      <3>1. /\ playing \in Gens /\ flow[playing] \in FlowRecord
            /\ Signal(playing, f) /\ timeline' = Advanced(timeline, f.played)
        BY <1>1, <1>m, <1>t, <2>1 DEF Concerns, UpdateAudioCredit
      <3>2. f \in FlowRecord /\ f.played \in Nat
        BY <1>m, <3>1, ReportType DEF FlowRecord
      <3>3. /\ flow[playing].reserved <= flow[playing].played + Window
            /\ flow[playing].played <= flow[playing].received
            /\ flow[playing].received <= flow[playing].reserved
            /\ flow[playing].capacity <= Window
        BY <3>1 DEF Core, Flows
      <3>4. /\ f.open /\ f.reserved = flow[playing].reserved
            /\ f.reserved <= f.played + Window /\ f.played <= f.received
            /\ f.received <= f.reserved /\ f.capacity <= Window
        BY <1>m, <2>1, <3>1, <3>2, <3>3, ReportFact
      <3> HIDE DEF f
      <3>5. timeline'.played >= Lesser(f.played, timeline'.sent)
        BY <1>p, <3>1, <3>2
      <3> QED BY <1>f, <3>1, <3>2, <3>4, <3>5
    <2> QED BY <1>1, <1>s, <2>1 DEF UpdateAudioCredit
  <1>2. CASE RecordPlayback(m)
    <2>1. CASE Concerns(m) /\ flow[playing].open
      <3> DEFINE f == Acknowledged(flow[playing], m.played)
      <3>1. /\ playing \in Gens /\ flow[playing] \in FlowRecord
            /\ Signal(playing, f) /\ timeline' = Advanced(timeline, m.played)
        BY <1>2, <1>m, <1>t, <2>1 DEF Concerns, RecordPlayback
      <3>2. f \in FlowRecord /\ f.played \in Nat /\ flow[playing].played \in Nat
        BY <1>m, <3>1, ReportType DEF FlowRecord
      <3>3. /\ flow[playing].reserved <= flow[playing].played + Window
            /\ flow[playing].played <= flow[playing].received
            /\ flow[playing].received <= flow[playing].reserved
            /\ flow[playing].capacity <= Window
        BY <3>1 DEF Core, Flows
      <3>4. /\ f.open /\ f.reserved = flow[playing].reserved
            /\ f.reserved <= f.played + Window /\ f.played <= f.received
            /\ f.received <= f.reserved /\ f.capacity <= Window
        BY <1>m, <2>1, <3>1, <3>2, <3>3, ReportFact
      <3>5. f.played = flow[playing].played \/ f.played <= m.played
        BY <1>m, <3>1 DEF Acknowledged, FlowRecord, Lesser
      <3> HIDE DEF f
      <3>6. /\ timeline'.sent = timeline.sent /\ timeline'.played >= timeline.played
            /\ timeline'.played \in Nat /\ timeline'.played >= Lesser(m.played, timeline.sent)
        BY <1>m, <1>p, <3>1
      <3>7. timeline.played >= Lesser(flow[playing].played, timeline.sent)
        BY <1>m, <2>1 DEF Core, AckRetained, Concerns
      <3>8. timeline'.played >= Lesser(f.played, timeline'.sent)
        BY <1>m, <1>n, <3>2, <3>5, <3>6, <3>7 DEF Lesser
      <3> QED BY <1>f, <1>m, <3>1, <3>2, <3>4, <3>8
    <2>2. CASE Concerns(m) /\ ~flow[playing].open
      <3>1. UNCHANGED <<flow, worker>> /\ timeline' = Advanced(timeline, m.played)
        BY <1>2, <2>2 DEF RecordPlayback
      <3>2. /\ timeline'.sent = timeline.sent /\ timeline'.generated = timeline.generated
            /\ timeline'.played <= timeline'.sent /\ timeline'.sent <= timeline'.generated
        BY <1>m, <1>p, <3>1
      <3>3. Flows' /\ Workers' /\ Fresh' /\ NoLostCredit'
        BY <1>r, <3>1 DEF Core, Flows, Workers, Fresh, NoLostCredit, At
      <3>4. Accounts'
        BY <1>r, <3>1, <3>2 DEF Core, Accounts
      <3>5. AckRetained'
        BY <1>r, <2>2, <3>1 DEF AckRetained
      <3> QED BY <3>3, <3>4, <3>5 DEF Core
    <2>3. CASE ~Concerns(m)
      BY <1>2, <1>s, <2>3 DEF RecordPlayback
    <2> QED BY <2>1, <2>2, <2>3
  <1> QED BY <1>r, <1>1, <1>2

-----------------------------------------------------------------------------
(* The invariant, and what it says.                                        *)

\* A worker's steps keep the invariant.
LEMMA WorkerStep ==
    ASSUME IInv, NEW g \in Gens, Worker(g) \/ Provider(g)
    PROVE  IInv'
  <1>1. TypeOK'
    BY WorkerType
  <1>2. Named'
    BY DEF Worker, Provider, Abandon, AnnounceGeneration, OpenFlow, AnnounceChunk, Reserve,
           WakeUp, WriteAudio, RecordAudioSent, AnnounceDone, RegisterChunk,
           MarkGenerationDone, IInv, Named
  <1> SUFFICES Core'
    BY <1>1, <1>2 DEF IInv
  <1>t. TypeOK /\ Core
    BY DEF IInv
  <1>u. Sound(worker[g])
    BY <1>t DEF Core, Workers
  <1>a. CASE AnnounceGeneration(g)
    <2>1. /\ worker[g].pc = "created" /\ GoTo(g, "next")
          /\ UNCHANGED <<made, playing, flow, timeline>>
      BY <1>a DEF AnnounceGeneration, At
    <2>2. /\ ~At(g, "none") /\ worker[g].granted = 0 /\ worker[g].left = 0
      BY <1>u, <2>1 DEF Sound, Busy, Resting, Speaking, At
    <2> QED BY <1>t, <2>1, <2>2, MoveCore DEF Busy, Resting, Speaking
  <1>b. CASE AnnounceChunk(g)
    <2>1. /\ worker[g].pc = "announce" /\ GoTo(g, "reserve")
          /\ UNCHANGED <<made, playing, flow, timeline>>
      BY <1>b DEF AnnounceChunk, At
    <2>2. /\ ~At(g, "none") /\ worker[g].granted = 0 /\ worker[g].left > 0
      BY <1>u, <2>1 DEF Sound, Busy, Resting, Speaking, At
    <2> QED BY <1>t, <2>1, <2>2, MoveCore DEF Busy, Resting, Speaking
  <1>c. CASE WakeUp(g)
    <2>1. /\ worker[g].pc = "waiting" /\ GoTo(g, "reserve")
          /\ UNCHANGED <<made, playing, flow, timeline>>
      BY <1>c DEF WakeUp, At
    <2>2. /\ ~At(g, "none") /\ worker[g].granted = 0 /\ worker[g].left > 0
      BY <1>u, <2>1 DEF Sound, Busy, Resting, Speaking, At
    <2> QED BY <1>t, <2>1, <2>2, MoveCore DEF Busy, Resting, Speaking
  <1>d. CASE WriteAudio(g)
    <2>1. /\ worker[g].pc = "write" /\ GoTo(g, "account")
          /\ UNCHANGED <<made, playing, flow, timeline>>
      BY <1>d DEF WriteAudio, At
    <2>2. /\ ~At(g, "none") /\ worker[g].left > 0
      BY <1>u, <2>1 DEF Sound, Busy, Resting, Speaking, At
    <2> QED BY <1>t, <2>1, <2>2, MoveCore DEF Busy, Resting, Speaking
  <1>e. CASE AnnounceDone(g)
    <2>1. /\ worker[g].pc = "finished" /\ GoTo(g, "done")
          /\ UNCHANGED <<made, playing, flow, timeline>>
      BY <1>e DEF AnnounceDone, At
    <2>2. /\ ~At(g, "none") /\ worker[g].granted = 0 /\ worker[g].left = 0
      BY <1>u, <2>1 DEF Sound, Busy, Resting, Speaking, At
    <2> QED BY <1>t, <2>1, <2>2, MoveCore DEF Busy, Resting, Speaking
  <1>f. CASE MarkGenerationDone(g)
    <2>1. /\ worker[g].pc = "next" /\ GoTo(g, "finished")
          /\ UNCHANGED <<made, playing, flow, timeline>>
      BY <1>f DEF MarkGenerationDone, At
    <2>2. /\ ~At(g, "none") /\ worker[g].granted = 0 /\ worker[g].left = 0
      BY <1>u, <2>1 DEF Sound, Busy, Resting, Speaking, At
    <2> QED BY <1>t, <2>1, <2>2, MoveCore DEF Busy, Resting, Speaking
  <1>g. CASE Abandon(g)
    BY <1>t, <1>g, AbandonCore
  <1>h. CASE OpenFlow(g)
    BY <1>t, <1>h, OpenCore
  <1>i. CASE Reserve(g)
    BY <1>t, <1>i, ReserveCore
  <1>j. CASE RecordAudioSent(g)
    BY <1>t, <1>j, SentCore
  <1>k. ASSUME NEW n \in 1..MaxFrames, RegisterChunk(g, n)  PROVE Core'
    BY <1>t, <1>k, RegisterCore
  <1> QED
    BY <1>a, <1>b, <1>c, <1>d, <1>e, <1>f, <1>g, <1>h, <1>i, <1>j, <1>k DEF Worker, Provider

\* The invariant holds in every state the session, its workers and the client reach.
THEOREM Inductive == Spec => []IInv
  <1>1. Init => IInv
    BY InitType, InitCore DEF IInv
  <1>2. IInv /\ [Next]_vars => IInv'
    <2> SUFFICES ASSUME IInv, [Next]_vars PROVE IInv'
      OBVIOUS
    <2>0. TypeOK /\ Named /\ Core
      BY DEF IInv
    <2>1. CASE StartGeneration \/ CancelGeneration
      <3>1. TypeOK'
        BY <2>0, <2>1, SessionType
      <3>2. Core'
        BY <2>0, <2>1, SessionCore
      <3>3. Named'
        BY <2>0, <2>1 DEF StartGeneration, CancelGeneration, Named
      <3> QED BY <3>1, <3>2, <3>3 DEF IInv
    <2>2. ASSUME NEW g \in Gens, Worker(g) \/ Provider(g)  PROVE IInv'
      BY <2>2, WorkerStep
    <2>3. ASSUME NEW g \in Gens, AnnounceCancelled(g)  PROVE IInv'
      <3>1. TypeOK'
        BY <2>0, <2>3, SessionType
      <3>2. Core'
        BY <2>0, <2>3, IdleCore DEF AnnounceCancelled, core
      <3>3. Named'
        BY <2>0, <2>3 DEF AnnounceCancelled, Named
      <3> QED BY <3>1, <3>2, <3>3 DEF IInv
    <2>4. CASE ReadClient
      <3>1. TypeOK'
        BY <2>0, <2>4, ReadClientType
      <3>2. Core'
        BY <2>0, <2>4, ReadCore
      <3>3. Named'
        BY <2>0, <2>4 DEF ReadClient, Named
      <3> QED BY <3>1, <3>2, <3>3 DEF IInv
    <2>5. CASE ReadServer \/ Render \/ \E position \in 1..MaxFrames : AckPlayed(position)
      <3>1. TypeOK' /\ Named'
        BY <2>0, <2>5, ClientType
      <3>2. UNCHANGED core
        BY <2>5 DEF ReadServer, Render, AckPlayed, core
      <3>3. Core'
        BY <2>0, <3>2, IdleCore
      <3> QED BY <3>1, <3>3 DEF IInv
    <2>6. CASE UNCHANGED vars
      <3>1. Core'
        BY <2>0, <2>6, IdleCore DEF vars, core
      <3>2. TypeOK' /\ Named'
        BY <2>0, <2>6 DEF vars, TypeOK, Named
      <3> QED BY <3>1, <3>2 DEF IInv
    <2> QED BY <2>1, <2>2, <2>3, <2>4, <2>5, <2>6 DEF Next
  <1> QED BY <1>1, <1>2, PTL DEF Spec

\* The state always has the types the code gives it.
THEOREM TypeCorrect == Spec => []TypeOK
  <1>1. IInv => TypeOK
    BY DEF IInv
  <1> QED BY <1>1, Inductive, PTL

\* Whatever the window, no more audio than it is ever reserved and unplayed, so a
\* client that stops reporting stops the server within the window.
THEOREM WindowAlwaysBounded == Spec => []WindowBounded
  <1>1. IInv => WindowBounded
    BY DEF IInv, Core, Flows, WindowBounded
  <1> QED BY <1>1, Inductive, PTL

\* The counters kept under FlowController.mu, Session.mu and the timeline's lock
\* agree at every interleaving: played, sent, reserved, synthesised.
THEOREM TimelineAlwaysOrdered == Spec => []TimelineOrdered
  <1>1. IInv => TimelineOrdered
    <2> SUFFICES ASSUME IInv PROVE TimelineOrdered
      OBVIOUS
    <2>0. TypeOK /\ Flows /\ Workers /\ Accounts
      BY DEF IInv, Core
    <2>1. timeline.played <= timeline.sent /\ timeline.sent <= timeline.generated
      BY <2>0 DEF Accounts
    <2>2. CASE playing # 0
      <3>1. /\ worker[playing].granted \in Nat /\ worker[playing].left \in Nat
            /\ timeline.sent \in Nat /\ timeline.generated \in Nat
            /\ flow[playing].reserved \in Nat /\ playing \in Gens
        BY <2>0, <2>2, CoreTypes
      <3>2. worker[playing].granted <= worker[playing].left
        BY <2>0, <3>1 DEF Workers, Sound
      <3>3. /\ timeline.sent + worker[playing].granted = flow[playing].reserved
            /\ flow[playing].reserved + worker[playing].left
                   = timeline.generated + worker[playing].granted
        BY <2>0, <2>2 DEF Accounts
      <3>4. timeline.sent <= flow[playing].reserved
            /\ flow[playing].reserved <= timeline.generated
        BY <3>1, <3>2, <3>3
      <3> QED BY <2>1, <3>4 DEF TimelineOrdered
    <2> QED BY <2>1, <2>2 DEF TimelineOrdered
  <1> QED BY <1>1, Inductive, PTL

\* No acknowledgement is lost to the race with the accounting of the write it
\* acknowledges.
THEOREM AckAlwaysRetained == Spec => []AckRetained
  <1>1. IInv => AckRetained
    BY DEF IInv, Core
  <1> QED BY <1>1, Inductive, PTL

\* No worker sleeps through a change of its window.
THEOREM NeverLosesCredit == Spec => []NoLostCredit
  <1>1. IInv => NoLostCredit
    BY DEF IInv, Core
  <1> QED BY <1>1, Inductive, PTL

-----------------------------------------------------------------------------
(* The channels: the two ends of the connection agree, for every bound of  *)
(* PlaybackFlow.  The client never meets a message that makes it close the *)
(* session (NoClientFault), and what the session believes was heard, and   *)
(* every report still on its way, is true (CreditsTruthful).               *)
(*                                                                         *)
(* The invariant foresees what the client will have read: a view for every *)
(* message in flight, the first the client as it is, the last what the     *)
(* worker that writes next may rely on.  Writing adds a view at the end,   *)
(* reading drops the first, and nothing else touches them.                 *)

USE FlowAssumption DEF Gens

Told == {"generating", "done"}

\* What the client makes of the messages depends on this much of it.
ViewRecord == [gen: 0..MaxGen, state: {"none", "generating", "done", "cancelled"},
               format: BOOLEAN, received: Nat]

View(c) == [gen |-> c.gen, state |-> c.state, format |-> c.format, received |-> c.received]

Blank(g, state) == [gen |-> g, state |-> state, format |-> FALSE, received |-> 0]

\* The message m is one a client with the view v takes into account...
Follows(v, m) == v.gen = m.gen /\ v.state \in Told

\* ...without a fault...
Accepts(v, m) ==
    /\ m.type = "created" => v.gen < m.gen
    /\ m.type = "audio" /\ Follows(v, m) => v.format /\ m.start = v.received
    /\ m.type = "done" /\ v.gen = m.gen => m.frames = v.received

\* ...and has the view u after it.
Reads(v, m, u) ==
    \/ m.type = "created" /\ u = Blank(m.gen, "generating")
    \/ m.type = "cancelled" /\ v.gen = m.gen /\ u = Blank(m.gen, "cancelled")
    \/ m.type = "started" /\ Follows(v, m) /\ u = [v EXCEPT !.format = TRUE]
    \/ m.type = "audio" /\ Follows(v, m) /\ u = [v EXCEPT !.received = v.received + m.frames]
    \/ m.type = "done" /\ v.gen = m.gen /\ v.state = "generating"
           /\ u = [v EXCEPT !.state = "done"]
    \/ /\ u = v
       /\ \/ m.type = "cancelled" /\ v.gen # m.gen
          \/ m.type \in {"started", "audio"} /\ ~Follows(v, m)
          \/ m.type = "done" /\ ~(v.gen = m.gen /\ v.state = "generating")

\* The client goes on to later generations, never back to one it was told is
\* cancelled, and loses nothing of the one it listens to.
Since(v, u) ==
    /\ v.gen <= u.gen
    /\ v.gen = u.gen /\ u.state # "cancelled" => v.state # "cancelled" /\ v.received <= u.received

\* The position of client c in generation g.
Acked(c, g) == IF c.gen = g THEN c.acked ELSE 0

\* The views of client c while it reads the queue q.
Foreseen(view, c, q) ==
    /\ view[0] = View(c)
    /\ \A i \in 1..Len(q) : Accepts(view[i - 1], q[i]) /\ Reads(view[i - 1], q[i], view[i])
    /\ \A i, j \in 0..Len(q) : i <= j => Since(view[i], view[j])
    /\ \A i \in 1..Len(q) :
           q[i].type = "audio" /\ Follows(view[i - 1], q[i]) =>
               q[i].start + q[i].frames <= Window + Acked(c, q[i].gen)

\* Once c has read q without a fault its view is v.
Foresees(c, q, v) ==
    \E view \in [0..Len(q) -> ViewRecord] : Foreseen(view, c, q) /\ view[Len(q)] = v

-----------------------------------------------------------------------------
(* Views.                                                                  *)

\* A view is a view.
LEMMA ViewType ==
    ASSUME NEW c \in ClientRecord
    PROVE  View(c) \in ViewRecord
  BY DEF View, ViewRecord, ClientRecord

\* The parts of a view.
LEMMA ViewParts ==
    ASSUME NEW v \in ViewRecord
    PROVE  /\ v.gen \in Nat /\ v.gen \in 0..MaxGen /\ v.received \in Nat
           /\ v.state \in {"none", "generating", "done", "cancelled"} /\ v.format \in BOOLEAN
  BY DEF ViewRecord

\* The parts of a message.
LEMMA DownParts ==
    ASSUME NEW m \in DownMessage
    PROVE  /\ m.type \in {"created", "started", "audio", "done", "cancelled"}
           /\ m.gen \in Gens /\ m.gen \in Nat /\ m.start \in Nat /\ m.frames \in Nat
  BY DEF DownMessage

\* What a message that is accepted makes of a view.
LEMMA ReadsFact ==
    ASSUME NEW v \in ViewRecord, NEW m \in DownMessage, NEW u, Accepts(v, m), Reads(v, m, u)
    PROVE  u \in ViewRecord /\ Since(v, u)
  <1>t. /\ v.gen \in Nat /\ v.gen \in 0..MaxGen /\ v.received \in Nat
        /\ v.state \in {"none", "generating", "done", "cancelled"} /\ v.format \in BOOLEAN
    BY ViewParts
  <1>m. m.gen \in Gens /\ m.gen \in Nat /\ m.start \in Nat /\ m.frames \in Nat
    BY DownParts
  <1>1. CASE m.type = "created" /\ u = Blank(m.gen, "generating")
    <2>1. u \in ViewRecord /\ u.gen = m.gen
      BY <1>m, <1>1 DEF Blank, ViewRecord
    <2>2. v.gen < m.gen
      BY <1>1 DEF Accepts
    <2> QED BY <1>t, <1>m, <2>1, <2>2 DEF Since
  <1>2. CASE v.gen = m.gen /\ u = Blank(m.gen, "cancelled")
    <2>1. u \in ViewRecord /\ u.gen = m.gen /\ u.state = "cancelled"
      BY <1>m, <1>2 DEF Blank, ViewRecord
    <2> QED BY <1>t, <1>m, <1>2, <2>1 DEF Since
  <1>3. CASE Follows(v, m) /\ u = [v EXCEPT !.format = TRUE]
    <2>1. u \in ViewRecord /\ u.gen = v.gen /\ u.state = v.state /\ u.received = v.received
      BY <1>3 DEF ViewRecord
    <2> QED BY <1>t, <2>1 DEF Since
  <1>4. CASE Follows(v, m) /\ u = [v EXCEPT !.received = v.received + m.frames]
    <2>1. v.received + m.frames \in Nat
      BY <1>t, <1>m
    <2>2. /\ u \in ViewRecord /\ u.gen = v.gen /\ u.state = v.state
          /\ u.received = v.received + m.frames
      BY <1>4, <2>1 DEF ViewRecord
    <2> QED BY <1>t, <1>m, <2>2 DEF Since
  <1>5. CASE v.state = "generating" /\ u = [v EXCEPT !.state = "done"]
    <2>1. /\ u \in ViewRecord /\ u.gen = v.gen /\ u.received = v.received
      BY <1>5 DEF ViewRecord
    <2> QED BY <1>t, <1>5, <2>1 DEF Since
  <1>6. CASE u = v
    BY <1>t, <1>6 DEF Since
  <1> QED BY <1>1, <1>2, <1>3, <1>4, <1>5, <1>6 DEF Reads

\* Later than later is later.
LEMMA SinceTransitive ==
    ASSUME NEW v \in ViewRecord, NEW u \in ViewRecord, NEW w \in ViewRecord,
           Since(v, u), Since(u, w)
    PROVE  Since(v, w)
  <1>1. /\ v.gen \in Nat /\ u.gen \in Nat /\ w.gen \in Nat
        /\ v.received \in Nat /\ u.received \in Nat /\ w.received \in Nat
    BY ViewParts
  <1> QED BY <1>1 DEF Since

-----------------------------------------------------------------------------
(* What is foreseen.                                                       *)

\* Nothing is under way.
LEMMA ForeseesNothing ==
    ASSUME NEW c \in ClientRecord
    PROVE  Foresees(c, <<>>, View(c))
  <1> DEFINE view == [i \in 0..Len(<<>>) |-> View(c)]
  <1>1. Len(<<>>) = 0 /\ 0..0 = {0}
    OBVIOUS
  <1>2. view \in [0..Len(<<>>) -> ViewRecord] /\ view[0] = View(c)
    BY <1>1, ViewType
  <1>3. Since(View(c), View(c))
    <2>1. View(c).gen \in Nat /\ View(c).received \in Nat
      BY ViewType, ViewParts
    <2> QED BY <2>1 DEF Since
  <1> HIDE DEF view
  <1>4. Foreseen(view, c, <<>>)
    BY <1>1, <1>2, <1>3 DEF Foreseen
  <1> QED BY <1>1, <1>2, <1>4 DEF Foresees

\* A message the last view accepts is written.
LEMMA ForeseesWritten ==
    ASSUME NEW c \in ClientRecord, NEW q \in Seq(DownMessage), NEW v \in ViewRecord,
           Foresees(c, q, v), NEW m \in DownMessage, NEW u, Accepts(v, m), Reads(v, m, u),
           m.type = "audio" /\ Follows(v, m) => m.start + m.frames <= Window + Acked(c, m.gen)
    PROVE  Foresees(c, Append(q, m), u)
  <1> DEFINE r == Append(q, m)
             n == Len(q)
  <1>1. PICK view \in [0..n -> ViewRecord] : Foreseen(view, c, q) /\ view[n] = v
    BY DEF Foresees
  <1>2. /\ n \in Nat /\ Len(r) = n + 1 /\ r[n + 1] = m
        /\ \A i \in 1..n : r[i] = q[i]
    OBVIOUS
  <1>3. u \in ViewRecord /\ Since(v, u)
    BY ReadsFact
  <1> DEFINE next == [i \in 0..(n + 1) |-> IF i = n + 1 THEN u ELSE view[i]]
  <1>f. /\ view[0] = View(c)
        /\ \A i \in 1..n : Accepts(view[i - 1], q[i]) /\ Reads(view[i - 1], q[i], view[i])
        /\ \A i, j \in 0..n : i <= j => Since(view[i], view[j])
        /\ \A i \in 1..n :
               q[i].type = "audio" /\ Follows(view[i - 1], q[i]) =>
                   q[i].start + q[i].frames <= Window + Acked(c, q[i].gen)
    BY <1>1 DEF Foreseen
  <1> HIDE DEF r, n
  <1>4. /\ next \in [0..(n + 1) -> ViewRecord]
        /\ next[n + 1] = u /\ \A i \in 0..n : next[i] = view[i]
    BY <1>1, <1>2, <1>3
  <1> HIDE DEF next
  <1>5. next[0] = View(c) /\ next[n] = v
    BY <1>1, <1>2, <1>4, <1>f
  <1>6. ASSUME NEW i \in 1..(n + 1)
        PROVE  /\ Accepts(next[i - 1], r[i]) /\ Reads(next[i - 1], r[i], next[i])
               /\ r[i].type = "audio" /\ Follows(next[i - 1], r[i]) =>
                      r[i].start + r[i].frames <= Window + Acked(c, r[i].gen)
    <2>1. CASE i = n + 1
      <3>1. i - 1 = n
        BY <1>2, <2>1
      <3> QED BY <1>2, <1>4, <1>5, <2>1, <3>1
    <2>2. CASE i # n + 1
      <3>1. i \in 1..n /\ i \in 0..n /\ i - 1 \in 0..n
        BY <1>2, <2>2
      <3>2. next[i - 1] = view[i - 1] /\ next[i] = view[i] /\ r[i] = q[i]
        BY <1>2, <1>4, <3>1
      <3> QED BY <1>f, <3>1, <3>2
    <2> QED BY <2>1, <2>2
  <1>7. ASSUME NEW i \in 0..(n + 1), NEW j \in 0..(n + 1), i <= j
        PROVE  Since(next[i], next[j])
    <2>1. CASE j # n + 1
      <3>1. i \in 0..n /\ j \in 0..n
        BY <1>2, <1>7, <2>1
      <3> QED BY <1>4, <1>7, <1>f, <3>1
    <2>2. CASE j = n + 1 /\ i # n + 1
      <3>1. i \in 0..n /\ n \in 0..n /\ i <= n
        BY <1>2, <2>2
      <3>2. Since(view[i], v) /\ next[i] = view[i] /\ next[j] = u /\ view[i] \in ViewRecord
        BY <1>1, <1>4, <1>f, <2>2, <3>1
      <3> QED BY <1>3, <3>2, SinceTransitive
    <2>3. CASE j = n + 1 /\ i = n + 1
      <3>1. u.gen \in Nat /\ u.received \in Nat
        BY <1>3, ViewParts
      <3> QED BY <1>4, <2>3, <3>1 DEF Since
    <2> QED BY <2>1, <2>2, <2>3
  <1>8. Foreseen(next, c, r)
    BY <1>2, <1>5, <1>6, <1>7 DEF Foreseen
  <1>9. Foresees(c, r, u)
    BY <1>2, <1>4, <1>8 DEF Foresees
  <1> QED BY <1>9 DEF r

\* The client moves on without reading: it keeps its view, and its position does not
\* go back while it listens to the same generation.
LEMMA ForeseesMoved ==
    ASSUME NEW c \in ClientRecord, NEW q \in Seq(DownMessage), NEW v, Foresees(c, q, v),
           NEW d \in ClientRecord, View(d) = View(c), c.acked <= d.acked
    PROVE  Foresees(d, q, v)
  <1>1. PICK view \in [0..Len(q) -> ViewRecord] : Foreseen(view, c, q) /\ view[Len(q)] = v
    BY DEF Foresees
  <1>2. d.gen = c.gen /\ c.acked \in Nat /\ d.acked \in Nat
    BY DEF View, ClientRecord
  <1>3. ASSUME NEW i \in 1..Len(q), q[i].type = "audio", Follows(view[i - 1], q[i])
        PROVE  q[i].start + q[i].frames <= Window + Acked(d, q[i].gen)
    <2>1. q[i].start \in Nat /\ q[i].frames \in Nat
      BY DownParts
    <2>2. q[i].start + q[i].frames <= Window + Acked(c, q[i].gen)
      BY <1>1, <1>3 DEF Foreseen
    <2>3. /\ Acked(c, q[i].gen) \in Nat /\ Acked(d, q[i].gen) \in Nat
          /\ Acked(c, q[i].gen) <= Acked(d, q[i].gen)
      BY <1>2 DEF Acked
    <2> QED BY <2>1, <2>2, <2>3
  <1>4. Foreseen(view, d, q)
    BY <1>1, <1>3 DEF Foreseen
  <1> QED BY <1>1, <1>4 DEF Foresees

\* The first message is accepted, and within the window.
LEMMA ForeseesFirst ==
    ASSUME NEW c \in ClientRecord, NEW q \in Seq(DownMessage), q # <<>>, NEW v,
           Foresees(c, q, v)
    PROVE  /\ Accepts(View(c), Head(q))
           /\ \E u \in ViewRecord : Reads(View(c), Head(q), u)
           /\ Head(q).type = "audio" /\ Follows(View(c), Head(q)) =>
                  Head(q).start + Head(q).frames <= Window + Acked(c, Head(q).gen)
  <1>1. PICK view \in [0..Len(q) -> ViewRecord] : Foreseen(view, c, q)
    BY DEF Foresees
  <1>2. 1 \in 1..Len(q) /\ 1 \in 0..Len(q) /\ Head(q) = q[1] /\ 1 - 1 = 0
    OBVIOUS
  <1>3. /\ Accepts(view[1 - 1], q[1]) /\ Reads(view[1 - 1], q[1], view[1])
        /\ q[1].type = "audio" /\ Follows(view[1 - 1], q[1]) =>
               q[1].start + q[1].frames <= Window + Acked(c, q[1].gen)
    BY <1>1, <1>2 DEF Foreseen
  <1>4. view[0] = View(c) /\ view[1] \in ViewRecord
    BY <1>1, <1>2 DEF Foreseen
  <1> QED BY <1>2, <1>3, <1>4

\* What is foreseen is later than what is.
LEMMA ForeseesSince ==
    ASSUME NEW c \in ClientRecord, NEW q \in Seq(DownMessage), NEW v, Foresees(c, q, v)
    PROVE  Since(View(c), v) /\ v \in ViewRecord
  <1>1. PICK view \in [0..Len(q) -> ViewRecord] : Foreseen(view, c, q) /\ view[Len(q)] = v
    BY DEF Foresees
  <1>2. 0 \in 0..Len(q) /\ Len(q) \in 0..Len(q) /\ 0 <= Len(q)
    OBVIOUS
  <1> QED BY <1>1, <1>2 DEF Foreseen

\* A message leaves one view.
LEMMA ReadsOne ==
    ASSUME NEW v \in ViewRecord, NEW m \in DownMessage, NEW u, NEW w,
           Reads(v, m, u), Reads(v, m, w)
    PROVE  u = w
  <1>1. m.type \in {"created", "started", "audio", "done", "cancelled"}
    BY DownParts
  <1>2. CASE m.type = "created"
    BY <1>2 DEF Reads
  <1>3. CASE m.type = "cancelled"
    BY <1>3 DEF Reads
  <1>4. CASE m.type = "started"
    <2>1. CASE Follows(v, m)
      BY <1>4, <2>1, ZenonT(30) DEF Reads
    <2>2. CASE ~Follows(v, m)
      BY <1>4, <2>2, ZenonT(30) DEF Reads
    <2> QED BY <2>1, <2>2
  <1>5. CASE m.type = "audio"
    <2>1. CASE Follows(v, m)
      BY <1>5, <2>1, ZenonT(30) DEF Reads
    <2>2. CASE ~Follows(v, m)
      BY <1>5, <2>2, ZenonT(30) DEF Reads
    <2> QED BY <2>1, <2>2
  <1>6. CASE m.type = "done"
    BY <1>6 DEF Reads
  <1> QED BY <1>1, <1>2, <1>3, <1>4, <1>5, <1>6

\* The client reads: what was foreseen after the first message is now.
LEMMA ForeseesRead ==
    ASSUME NEW c \in ClientRecord, NEW q \in Seq(DownMessage), q # <<>>, NEW v,
           Foresees(c, q, v), NEW d \in ClientRecord, Reads(View(c), Head(q), View(d)),
           d.gen = c.gen /\ d.state # "cancelled" => c.acked <= d.acked
    PROVE  Foresees(d, Tail(q), v)
  <1> DEFINE r == Tail(q)
             n == Len(q)
  <1>1. PICK view \in [0..n -> ViewRecord] : Foreseen(view, c, q) /\ view[n] = v
    BY DEF Foresees
  <1>2. /\ n \in Nat /\ n >= 1 /\ Len(r) = n - 1 /\ r \in Seq(DownMessage)
        /\ Head(q) = q[1] /\ \A i \in 1..(n - 1) : r[i] = q[i + 1]
    OBVIOUS
  <1>f. /\ view[0] = View(c)
        /\ \A i \in 1..n : Accepts(view[i - 1], q[i]) /\ Reads(view[i - 1], q[i], view[i])
        /\ \A i, j \in 0..n : i <= j => Since(view[i], view[j])
        /\ \A i \in 1..n :
               q[i].type = "audio" /\ Follows(view[i - 1], q[i]) =>
                   q[i].start + q[i].frames <= Window + Acked(c, q[i].gen)
    BY <1>1 DEF Foreseen
  <1>q. \A i \in 1..n : q[i] \in DownMessage
    OBVIOUS
  <1> HIDE DEF r, n
  <1> DEFINE next == [i \in 0..(n - 1) |-> view[i + 1]]
  <1>3. \A i \in 0..(n - 1) : i + 1 \in 0..n /\ next[i] = view[i + 1]
    BY <1>2
  <1>4. next \in [0..(n - 1) -> ViewRecord]
    BY <1>1, <1>2, <1>3
  <1> HIDE DEF next
  <1>5. next[0] = View(d) /\ view[1] = View(d)
    <2>1. 0 \in 0..(n - 1) /\ 0 + 1 = 1 /\ 1 \in 1..n /\ 1 - 1 = 0
      BY <1>2
    <2>2. next[0] = view[1]
      BY <1>3, <2>1
    <2>3. Reads(View(c), q[1], view[1]) /\ Reads(View(c), q[1], View(d))
      BY <1>2, <1>f, <2>1
    <2>4. view[1] = View(d)
      BY <1>q, <2>1, <2>3, ReadsOne, ViewType
    <2> QED BY <2>2, <2>4
  <1>6. next[n - 1] = v
    <2>1. n - 1 \in 0..(n - 1) /\ (n - 1) + 1 = n
      BY <1>2
    <2> QED BY <1>1, <1>3, <2>1
  <1>7. ASSUME NEW i \in 1..(n - 1)
        PROVE  Accepts(next[i - 1], r[i]) /\ Reads(next[i - 1], r[i], next[i])
    <2>1. /\ i + 1 \in 1..n /\ (i + 1) - 1 = i /\ (i - 1) + 1 = i
          /\ i - 1 \in 0..(n - 1) /\ i \in 0..(n - 1)
      BY <1>2
    <2>2. r[i] = q[i + 1] /\ next[i] = view[i + 1] /\ next[i - 1] = view[i]
      BY <1>2, <1>3, <2>1
    <2>3. Accepts(view[(i + 1) - 1], q[i + 1]) /\ Reads(view[(i + 1) - 1], q[i + 1], view[i + 1])
      BY <1>f, <2>1
    <2> QED BY <2>1, <2>2, <2>3
  <1>8. ASSUME NEW i \in 0..(n - 1), NEW j \in 0..(n - 1), i <= j
        PROVE  Since(next[i], next[j])
    <2>1. i + 1 \in 0..n /\ j + 1 \in 0..n /\ i + 1 <= j + 1
      BY <1>2, <1>8
    <2> QED BY <1>3, <1>f, <2>1
  <1>9. ASSUME NEW i \in 1..(n - 1), r[i].type = "audio", Follows(next[i - 1], r[i])
        PROVE  r[i].start + r[i].frames <= Window + Acked(d, r[i].gen)
    <2>1. /\ i + 1 \in 1..n /\ (i + 1) - 1 = i /\ (i - 1) + 1 = i /\ 1 <= i /\ i \in 0..n
          /\ i - 1 \in 0..(n - 1) /\ 1 \in 0..n
      BY <1>2
    <2>2. r[i] = q[i + 1] /\ next[i - 1] = view[i]
      BY <1>2, <1>3, <2>1
    <2>3. r[i].start + r[i].frames <= Window + Acked(c, r[i].gen)
      BY <1>9, <1>f, <2>1, <2>2
    <2>4. /\ r[i].start \in Nat /\ r[i].frames \in Nat /\ c.acked \in Nat /\ d.acked \in Nat
          /\ c.gen \in Nat /\ d.gen \in Nat /\ view[i].gen \in Nat
      <3>1. q[i + 1] \in DownMessage /\ view[i] \in ViewRecord
        BY <1>q, <1>1, <2>1
      <3>2. c.acked \in Nat /\ d.acked \in Nat /\ c.gen \in Nat /\ d.gen \in Nat
        BY DEF ClientRecord
      <3> QED BY <2>2, <3>1, <3>2, DownParts, ViewParts
    <2>5. Acked(c, r[i].gen) <= Acked(d, r[i].gen)
      <3>1. CASE c.gen # r[i].gen
        BY <2>4, <3>1 DEF Acked
      <3>2. CASE c.gen = r[i].gen
        <4>1. Since(View(c), View(d)) /\ Since(View(d), view[i])
          <5>1. Since(view[0], view[1]) /\ Since(view[1], view[i])
            BY <1>2, <1>f, <2>1
          <5> QED BY <1>5, <1>f, <5>1
        <4>2. view[i].gen = c.gen /\ view[i].state \in Told
          BY <1>9, <2>2, <3>2 DEF Follows
        <4>3. c.gen <= d.gen /\ d.gen <= view[i].gen
          BY <4>1 DEF Since, View
        <4>4. d.gen = c.gen
          BY <2>4, <4>2, <4>3
        <4>5. d.state # "cancelled"
          BY <4>1, <4>2, <4>4 DEF Since, View, Told
        <4> QED BY <2>4, <3>2, <4>4, <4>5 DEF Acked
      <3> QED BY <3>1, <3>2
    <2>6. Acked(c, r[i].gen) \in Nat /\ Acked(d, r[i].gen) \in Nat
      BY <2>4 DEF Acked
    <2> DEFINE start == r[i].start
               frames == r[i].frames
               was == Acked(c, r[i].gen)
               is == Acked(d, r[i].gen)
    <2>7. /\ start \in Nat /\ frames \in Nat /\ was \in Nat /\ is \in Nat
          /\ start + frames <= Window + was /\ was <= is
      BY <2>3, <2>4, <2>5, <2>6
    <2> HIDE DEF start, frames, was, is
    <2>8. start + frames <= Window + is
      BY <2>7
    <2> QED BY <2>8 DEF start, frames, is
  <1>10. Foreseen(next, d, r)
    BY <1>2, <1>5, <1>7, <1>8, <1>9 DEF Foreseen
  <1>11. Foresees(d, r, v)
    BY <1>2, <1>4, <1>6, <1>10 DEF Foresees
  <1> QED BY <1>11 DEF r

-----------------------------------------------------------------------------
(* The invariant.                                                          *)

\* What the worker of the playing generation may rely on when it writes next: the
\* client will have read all that was written.
Ends(v) ==
    /\ v.gen <= made
    /\ playing # 0 =>
         /\ playing = made /\ worker[playing].pc \notin {"none", "gone"}
         /\ worker[playing].pc = "created" => v.gen < playing /\ timeline.generated = 0
         /\ worker[playing].pc # "created" =>
                /\ v.gen = playing /\ v.state \in Told
                /\ v.received + (IF worker[playing].pc = "write" THEN worker[playing].granted
                                 ELSE 0) = flow[playing].reserved
         /\ worker[playing].pc \in {"reserve", "waiting", "write", "account"} => v.format

\* Who is owed a cancellation has ended.
Owing == \A g \in owed : g # playing /\ g <= made

\* The report r says no more than client c knows.
Known(r, c) ==
    /\ r.gen <= c.gen /\ r.played <= r.received
    /\ r.gen = c.gen /\ c.state # "cancelled" => r.received <= c.received /\ r.played <= c.acked

Reported == \A i \in 1..Len(up) : Known(up[i], client)

Honest == client.acked <= client.heard /\ client.heard <= client.received

\* The session believes no more than was reported.
Believed ==
    playing # 0 => /\ flow[playing].played <= Acked(client, playing)
                   /\ timeline.played <= Acked(client, playing)

CInv ==
    /\ Owing /\ Reported /\ Honest /\ Believed /\ client.fault = "none"
    /\ \E v \in ViewRecord : Foresees(client, down, v) /\ Ends(v)

\* While a generation plays the client has heard of no later one, and if it has heard
\* of that one was not told that it is cancelled.
LEMMA Follower ==
    ASSUME TypeOK, playing # 0, NEW c \in ClientRecord, NEW q \in Seq(DownMessage),
           NEW v \in ViewRecord, Foresees(c, q, v), Ends(v)
    PROVE  /\ c.gen <= playing
           /\ c.gen = playing => /\ c.state # "cancelled"
                                 /\ c.received <= flow[playing].reserved
  <1>1. /\ Since(View(c), v) /\ c.gen \in Nat /\ c.received \in Nat
        /\ v.received \in Nat /\ v.gen \in Nat
    BY ForeseesSince, ViewParts DEF ClientRecord
  <1>2. /\ playing \in Nat /\ playing \in Gens /\ flow[playing].reserved \in Nat
        /\ worker[playing].granted \in Nat /\ made \in Nat
    BY CoreTypes DEF TypeOK
  <1>3. v.gen <= playing /\ c.gen <= v.gen
    BY <1>1 DEF Ends, Since, View
  <1>4. ASSUME c.gen = playing
        PROVE  c.state # "cancelled" /\ c.received <= flow[playing].reserved
    <2>1. v.gen = c.gen /\ v.gen = playing
      BY <1>1, <1>2, <1>3, <1>4
    <2>2. worker[playing].pc # "created"
      BY <1>2, <2>1 DEF Ends
    <2>3. v.state \in Told /\ v.received <= flow[playing].reserved
      BY <1>1, <1>2, <2>2 DEF Ends
    <2>4. c.state # "cancelled" /\ c.received <= v.received
      BY <1>1, <2>1, <2>3 DEF Since, View, Told
    <2> DEFINE n == c.received
               l == v.received
               k == flow[playing].reserved
    <2>5. n \in Nat /\ l \in Nat /\ k \in Nat /\ n <= l /\ l <= k
      BY <1>1, <1>2, <2>3, <2>4
    <2> HIDE DEF n, l, k
    <2>6. n <= k
      BY <2>5
    <2> QED BY <2>4, <2>6 DEF n, k
  <1>5. c.gen <= playing
    BY <1>1, <1>2, <1>3
  <1> QED BY <1>4, <1>5

\* At the start nothing is under way.
LEMMA InitChannel == Init => CInv
  <1> SUFFICES ASSUME Init PROVE CInv
    OBVIOUS
  <1>1. client = Silent(0, "none") /\ client \in ClientRecord
    BY InitType DEF Init, TypeOK
  <1>2. Foresees(client, down, View(client)) /\ View(client) \in ViewRecord
    BY <1>1, ForeseesNothing, ViewType DEF Init
  <1>3. Ends(View(client))
    BY <1>1 DEF Init, Ends, View, Silent
  <1>4. Owing /\ Reported /\ Believed
    BY DEF Init, Owing, Reported, Believed
  <1>5. Honest /\ client.fault = "none"
    BY <1>1 DEF Silent, Honest
  <1> QED BY <1>2, <1>3, <1>4, <1>5 DEF CInv

-----------------------------------------------------------------------------
(* The session and its workers.                                            *)

\* A step that writes nothing, and after which the worker may rely on the same.
LEMMA QuietStep ==
    ASSUME CInv, UNCHANGED <<down, up, client>>, Owing', Believed',
           \A v \in ViewRecord : Foresees(client, down, v) /\ Ends(v) => Ends(v)'
    PROVE  CInv'
  <1>1. PICK v \in ViewRecord : Foresees(client, down, v) /\ Ends(v)
    BY DEF CInv
  <1>2. Ends(v)'
    BY <1>1
  <1>3. Foresees(client, down, v)'
    BY <1>1
  <1>4. Reported' /\ Honest' /\ client'.fault = "none"
    BY DEF CInv, Reported, Honest
  <1> QED BY <1>2, <1>3, <1>4 DEF CInv

\* A step that writes a message the client will accept.
LEMMA WriteStep ==
    ASSUME TypeOK, CInv, NEW m \in DownMessage, down' = Append(down, m),
           UNCHANGED <<up, client, playing, made, flow, timeline>>, Owing',
           \A v \in ViewRecord : Foresees(client, down, v) /\ Ends(v) =>
               /\ Accepts(v, m)
               /\ m.type = "audio" /\ Follows(v, m) =>
                      m.start + m.frames <= Window + Acked(client, m.gen)
               /\ \E u \in ViewRecord : Reads(v, m, u) /\ Ends(u)'
    PROVE  CInv'
  <1>1. PICK v \in ViewRecord : Foresees(client, down, v) /\ Ends(v)
    BY DEF CInv
  <1>2. PICK u \in ViewRecord : Reads(v, m, u) /\ Ends(u)'
    BY <1>1
  <1>3. /\ Accepts(v, m)
        /\ m.type = "audio" /\ Follows(v, m) =>
               m.start + m.frames <= Window + Acked(client, m.gen)
    BY <1>1
  <1>4. client \in ClientRecord /\ down \in Seq(DownMessage)
    BY DEF TypeOK
  <1>5. Foresees(client, Append(down, m), u)
    BY <1>1, <1>2, <1>3, <1>4, ForeseesWritten
  <1>6. Foresees(client, down, u)'
    BY <1>5
  <1>7. Reported' /\ Honest' /\ Believed' /\ client'.fault = "none"
    BY DEF CInv, Reported, Honest, Believed
  <1> QED BY <1>2, <1>6, <1>7 DEF CInv

\* What a worker is set to.
LEMMA WorkerSet ==
    ASSUME TypeOK, NEW g \in Gens, NEW pc, NEW left, NEW granted,
           SetWorker(g, pc, left, granted)
    PROVE  /\ worker'[g].pc = pc /\ worker'[g].granted = granted
           /\ \A h \in Gens : h # g => worker'[h] = worker[h]
  <1>1. worker \in [Gens -> WorkerRecord]
    BY DEF TypeOK
  <1> QED BY <1>1 DEF SetWorker

\* A worker whose generation does not play leaves the end as it was.
LEMMA AsideEnds ==
    ASSUME TypeOK, NEW g \in Gens, g # playing, NEW v, Ends(v), UNCHANGED <<made, playing>>,
           playing # 0 => flow'[playing] = flow[playing] /\ timeline' = timeline,
           \A h \in Gens : h # g => worker'[h] = worker[h]
    PROVE  Ends(v)'
  <1>1. playing # 0 => playing \in Gens /\ worker'[playing] = worker[playing]
    BY CoreTypes
  <1> QED BY <1>1 DEF Ends

\* The playing generation's worker goes on; what it reserved or wrote is a packet
\* in hand.
LEMMA GoesOn ==
    ASSUME NEW g \in Gens, g = playing, NEW v, Ends(v), UNCHANGED <<made, playing>>,
           worker[g].pc # "created", worker'[g].pc \notin {"none", "gone", "created"},
           NEW u, u.gen = v.gen, u.state = v.state,
           u.received + (IF worker'[g].pc = "write" THEN worker'[g].granted ELSE 0)
               = flow'[g].reserved,
           worker'[g].pc \in {"reserve", "waiting", "write", "account"} => u.format
    PROVE  Ends(u)'
  BY DEF Ends

\* The start and the end of a generation.
LEMMA SessionChannel ==
    ASSUME TypeOK, Core, CInv, StartGeneration \/ CancelGeneration
    PROVE  CInv'
  <1>0. /\ made \in Nat /\ playing \in Nat /\ playing <= made
        /\ UNCHANGED <<down, up, client>> /\ Owing /\ Believed
    BY DEF TypeOK, StartGeneration, CancelGeneration, CInv
  <1>1. CASE StartGeneration
    <2>1. /\ made + 1 \in Gens /\ made' = made + 1 /\ playing' = made + 1 /\ flow' = flow
          /\ timeline' = [generated |-> 0, sent |-> 0, played |-> 0] /\ owed' = owed
          /\ SetWorker(made + 1, "created", 0, 0)
      BY <1>1 DEF StartGeneration, NewTimeline, TypeOK
    <2>2. Owing'
      <3>1. \A g \in owed : g \in Nat
        BY DEF TypeOK
      <3> QED BY <1>0, <2>1, <3>1 DEF Owing
    <2>3. ASSUME NEW v \in ViewRecord, Foresees(client, down, v), Ends(v)  PROVE Ends(v)'
      <3>1. v.gen \in Nat /\ v.gen <= made
        BY <2>3, ViewParts DEF Ends
      <3>2. worker'[made + 1].pc = "created"
        BY <2>1, WorkerSet
      <3> QED BY <1>0, <2>1, <3>1, <3>2 DEF Ends
    <2>4. Believed'
      <3>1. client \in ClientRecord /\ client.acked \in Nat
        BY DEF TypeOK, ClientRecord
      <3>2. Acked(client, made + 1) \in Nat
        BY <3>1 DEF Acked
      <3>3. flow[made + 1].played = 0
        BY <2>1 DEF TypeOK, Core, Fresh, NoFlow
      <3> QED BY <1>0, <2>1, <3>2, <3>3 DEF Believed
    <2> QED BY <1>0, <2>2, <2>3, <2>4, QuietStep
  <1>2. CASE CancelGeneration
    <2>1. /\ made' = made /\ playing' = 0 /\ owed' = owed \union {playing} /\ playing # 0
      BY <1>2 DEF CancelGeneration
    <2>2. Owing'
      <3>1. \A g \in owed : g # 0
        BY DEF TypeOK
      <3> QED BY <1>0, <2>1, <3>1 DEF Owing
    <2>3. Believed'
      BY <2>1 DEF Believed
    <2>4. ASSUME NEW v \in ViewRecord, Foresees(client, down, v), Ends(v)  PROVE Ends(v)'
      BY <2>1, <2>4 DEF Ends
    <2> QED BY <1>0, <2>2, <2>3, <2>4, QuietStep
  <1> QED BY <1>1, <1>2

\* A worker whose context ended concerns nobody.
LEMMA AbandonChannel ==
    ASSUME TypeOK, CInv, NEW g \in Gens, Abandon(g)
    PROVE  CInv'
  <1>1. /\ playing # g /\ SetWorker(g, "gone", 0, 0) /\ flow' = [flow EXCEPT ![g] = NoFlow]
        /\ UNCHANGED <<made, playing, timeline, owed, down, up, client>>
    BY DEF Abandon
  <1>2. \A h \in Gens : h # g => worker'[h] = worker[h]
    BY <1>1, WorkerSet
  <1>3. playing # 0 => playing \in Gens /\ flow'[playing] = flow[playing]
    BY <1>1, CoreTypes
  <1>4. Owing' /\ Believed'
    BY <1>1, <1>3 DEF CInv, Owing, Believed, Acked
  <1>5. ASSUME NEW v \in ViewRecord, Foresees(client, down, v), Ends(v)  PROVE Ends(v)'
    BY <1>1, <1>2, <1>3, <1>5, AsideEnds
  <1> QED BY <1>1, <1>4, <1>5, QuietStep

\* What a worker does for itself: it takes a chunk, opens the controller, reserves,
\* sleeps, wakes, finishes.
LEMMA AloneChannel ==
    ASSUME TypeOK, Core, CInv, NEW g \in Gens,
           \/ \E n \in 1..MaxFrames : RegisterChunk(g, n)
           \/ OpenFlow(g) \/ Reserve(g) \/ MarkGenerationDone(g)
    PROVE  CInv'
  <1>0. /\ playing = g /\ g # 0 /\ UNCHANGED <<made, playing, owed, down, up, client>>
        /\ worker \in [Gens -> WorkerRecord] /\ flow \in [Gens -> FlowRecord]
        /\ timeline \in TimelineRecord
    BY CoreTypes DEF RegisterChunk, OpenFlow, Reserve, MarkGenerationDone
  <1>n. /\ flow[g] \in FlowRecord /\ flow[g].reserved \in Nat /\ flow[g].played \in Nat
        /\ worker[g].left \in Nat /\ worker[g].granted \in Nat
    BY CoreTypes
  <1>o. Owing'
    BY <1>0 DEF CInv, Owing
  <1>b. ASSUME timeline'.played = timeline.played,
               flow'[g].played = flow[g].played
        PROVE  Believed'
    BY <1>0, <1>b DEF CInv, Believed
  \* Between packets.
  <1>c. ASSUME worker[g].pc # "created", worker'[g].pc \notin {"none", "gone", "created", "write"},
               worker[g].pc # "write", flow'[g].reserved = flow[g].reserved,
               worker'[g].pc \in {"reserve", "waiting", "account"} =>
                   worker[g].pc \in {"reserve", "waiting"},
               timeline'.played = timeline.played, flow'[g].played = flow[g].played
        PROVE  CInv'
    <2>1. ASSUME NEW v \in ViewRecord, Foresees(client, down, v), Ends(v)  PROVE Ends(v)'
      <3>1. v.received + 0 = flow[g].reserved
        BY <1>0, <1>c, <2>1 DEF Ends
      <3>2. worker'[g].pc \in {"reserve", "waiting", "write", "account"} => v.format
        BY <1>0, <1>c, <2>1 DEF Ends
      <3> QED BY <1>0, <1>c, <2>1, <3>1, <3>2, GoesOn
    <2> QED BY <1>0, <1>o, <1>b, <1>c, <2>1, QuietStep
  <1>1. ASSUME NEW n \in 1..MaxFrames, RegisterChunk(g, n)  PROVE CInv'
    <2>1. /\ worker[g].pc = "next" /\ SetWorker(g, "registered", n, 0) /\ flow' = flow
          /\ timeline' = [timeline EXCEPT !.generated = timeline.generated + n]
      BY <1>1 DEF RegisterChunk, At
    <2>2. worker'[g].pc = "registered" /\ timeline'.played = timeline.played
      BY <1>0, <2>1, WorkerSet DEF TimelineRecord
    <2> QED BY <1>c, <2>1, <2>2
  <1>2. CASE MarkGenerationDone(g)
    <2>1. /\ worker[g].pc = "next" /\ UNCHANGED <<flow, timeline>>
          /\ SetWorker(g, "finished", worker[g].left, worker[g].granted)
      BY <1>2 DEF MarkGenerationDone, At, GoTo
    <2>2. worker'[g].pc = "finished"
      BY <2>1, WorkerSet
    <2> QED BY <1>c, <2>1, <2>2
  <1>3. CASE OpenFlow(g)
    <2>1. /\ worker[g].pc = "registered" /\ timeline' = timeline
          /\ SetWorker(g, "announce", worker[g].left, worker[g].granted)
          /\ flow' = [flow EXCEPT ![g] = IF flow[g].open THEN flow[g] ELSE NewFlow]
      BY <1>3 DEF OpenFlow, At, GoTo
    <2>2. worker'[g].pc = "announce"
      BY <2>1, WorkerSet
    <2>3. flow'[g].reserved = flow[g].reserved /\ flow'[g].played = flow[g].played
      <3>1. flow'[g] = IF flow[g].open THEN flow[g] ELSE NewFlow
        BY <1>0, <2>1
      <3>2. CASE ~flow[g].open
        <4>1. flow[g] = NoFlow
          BY <3>2 DEF Core, Flows
        <4>2. NewFlow.reserved = 0 /\ NewFlow.played = 0
          BY DEF NewFlow, NoFlow
        <4> QED BY <3>1, <3>2, <4>1, <4>2 DEF NoFlow
      <3> QED BY <3>1, <3>2
    <2> QED BY <1>c, <2>1, <2>2, <2>3
  <1>4. CASE Reserve(g)
    <2> DEFINE n == Lesser(Lesser(worker[g].left, Packet), Available(flow[g]))
    <2>0. n \in Nat
      BY <1>n, AvailableFact, LesserFact
    <2>1. /\ worker[g].pc = "reserve" /\ timeline' = timeline
          /\ n > 0 => /\ flow' = [flow EXCEPT ![g].reserved = flow[g].reserved + n]
                       /\ SetWorker(g, "write", worker[g].left, n)
          /\ ~(n > 0) => /\ SetWorker(g, "waiting", worker[g].left, worker[g].granted)
                          /\ flow' = flow
      BY <1>4 DEF Reserve, At, GoTo
    <2> HIDE DEF n
    <2>2. CASE ~(n > 0)
      <3>1. worker'[g].pc = "waiting"
        BY <2>1, <2>2, WorkerSet
      <3> QED BY <1>c, <2>1, <2>2, <3>1
    <2>3. CASE n > 0
      <3>1. worker'[g].pc = "write" /\ worker'[g].granted = n
        BY <2>1, <2>3, WorkerSet
      <3>2. flow'[g].reserved = flow[g].reserved + n /\ flow'[g].played = flow[g].played
        <4>1. flow'[g] = [flow[g] EXCEPT !.reserved = flow[g].reserved + n]
          BY <1>0, <2>1, <2>3
        <4> QED BY <1>n, <4>1 DEF FlowRecord
      <3>3. ASSUME NEW v \in ViewRecord, Foresees(client, down, v), Ends(v)  PROVE Ends(v)'
        <4>1. v.received + 0 = flow[g].reserved /\ v.format /\ v.received \in Nat
          BY <1>0, <2>1, <3>3, ViewParts DEF Ends
        <4>2. v.received + n = flow'[g].reserved
          BY <2>0, <3>2, <4>1
        <4> QED BY <1>0, <2>1, <3>1, <3>3, <4>1, <4>2, GoesOn
      <3>4. Believed'
        BY <1>b, <2>1, <3>2
      <3> QED BY <1>0, <1>o, <3>3, <3>4, QuietStep
    <2> QED BY <2>2, <2>3
  <1> QED BY <1>1, <1>2, <1>3, <1>4

\* A worker wakes up, whether or not it is still listened to.
LEMMA WakeChannel ==
    ASSUME TypeOK, CInv, NEW g \in Gens, WakeUp(g)
    PROVE  CInv'
  <1>1. /\ worker[g].pc = "waiting" /\ SetWorker(g, "reserve", worker[g].left, worker[g].granted)
        /\ UNCHANGED <<made, playing, flow, timeline, owed, down, up, client>>
    BY DEF WakeUp, At, GoTo
  <1>2. worker'[g].pc = "reserve" /\ \A h \in Gens : h # g => worker'[h] = worker[h]
    BY <1>1, WorkerSet
  <1>3. Owing' /\ Believed'
    BY <1>1 DEF CInv, Owing, Believed, Acked
  <1>4. ASSUME NEW v \in ViewRecord, Foresees(client, down, v), Ends(v)  PROVE Ends(v)'
    <2>1. CASE g # playing
      BY <1>1, <1>2, <1>4, <2>1, AsideEnds
    <2>2. CASE g = playing
      <3>1. v.received + 0 = flow[g].reserved /\ v.format
        BY <1>1, <1>4, <2>2 DEF Ends
      <3> QED BY <1>1, <1>2, <1>4, <2>2, <3>1, GoesOn
    <2> QED BY <2>1, <2>2
  <1> QED BY <1>1, <1>3, <1>4, QuietStep

\* A position that moves stays what it was, or is where it was moved to or before.
LEMMA AdvancedBound ==
    ASSUME NEW t \in TimelineRecord, NEW p \in Nat, NEW n \in Nat, t.played <= n, p <= n
    PROVE  Advanced(t, p).played <= n
  BY DEF Advanced, TimelineRecord, Lesser, Greater

\* The accounting believes what the controller was told, and no more.
LEMMA SentChannel ==
    ASSUME TypeOK, CInv, NEW g \in Gens, RecordAudioSent(g)
    PROVE  CInv'
  <1> DEFINE n == worker[g].granted
             pc == IF worker[g].left = n THEN "next" ELSE "reserve"
             t == [timeline EXCEPT !.sent = timeline.sent + n]
  <1>1. /\ worker[g].pc = "account" /\ SetWorker(g, pc, worker[g].left - n, 0)
        /\ UNCHANGED <<made, playing, flow, owed, down, up, client>>
        /\ timeline' = IF playing = g THEN Sent(timeline, flow[g], n) ELSE timeline
    BY DEF RecordAudioSent, At
  <1>2. /\ worker'[g].pc = pc /\ pc \in {"next", "reserve"}
        /\ \A h \in Gens : h # g => worker'[h] = worker[h]
    BY <1>1, WorkerSet
  <1> HIDE DEF pc
  <1>3. Owing'
    BY <1>1 DEF CInv, Owing
  <1>4. ASSUME NEW v \in ViewRecord, Foresees(client, down, v), Ends(v)  PROVE Ends(v)'
    <2>1. CASE g # playing
      BY <1>1, <1>2, <1>4, <2>1, AsideEnds
    <2>2. CASE g = playing
      <3>1. v.received + 0 = flow[g].reserved /\ v.format
        BY <1>1, <1>4, <2>2 DEF Ends
      <3> QED BY <1>1, <1>2, <1>4, <2>2, <3>1, GoesOn
    <2> QED BY <2>1, <2>2
  <1>5. CASE g # playing
    <2>1. Believed'
      BY <1>1, <1>5 DEF CInv, Believed, Acked
    <2> QED BY <1>1, <1>3, <1>4, <2>1, QuietStep
  <1>6. CASE g = playing
    <2>1. /\ timeline \in TimelineRecord /\ timeline.sent \in Nat /\ n \in Nat
          /\ flow[g].played \in Nat /\ client.acked \in Nat /\ g # 0
      BY CoreTypes DEF TypeOK, ClientRecord
    <2>2. t \in TimelineRecord /\ t.played = timeline.played
      BY <2>1, CountFact
    <2>3. timeline' = Advanced(t, flow[g].played)
      BY <1>1, <1>6 DEF Sent
    <2> HIDE DEF t
    <2>4. Acked(client, g) \in Nat
      BY <2>1 DEF Acked
    <2>5. flow[g].played <= Acked(client, g) /\ timeline.played <= Acked(client, g)
      BY <1>6, <2>1 DEF CInv, Believed
    <2>6. timeline'.played <= Acked(client, g)
      BY <2>1, <2>2, <2>3, <2>4, <2>5, AdvancedBound
    <2>7. Believed'
      BY <1>1, <1>6, <2>5, <2>6 DEF Believed, Acked
    <2> QED BY <1>1, <1>3, <1>4, <2>7, QuietStep
  <1> QED BY <1>5, <1>6

\* What ToClient writes.
LEMMA ToClientFact ==
    ASSUME NEW type \in {"created", "started", "audio", "done", "cancelled"}, NEW g \in Gens,
           NEW start \in Nat, NEW frames \in Nat, ToClient(type, g, start, frames)
    PROVE  \E m \in DownMessage :
               /\ down' = Append(down, m) /\ m.type = type /\ m.gen = g
               /\ m.start = start /\ m.frames = frames
  <1> DEFINE m == [type |-> type, gen |-> g, start |-> start, frames |-> frames]
  <1>1. m \in DownMessage /\ down' = Append(down, m)
    BY DEF ToClient, DownMessage
  <1> QED BY <1>1

\* A cancellation is announced: the client gives up that generation, no other.
LEMMA CancelledChannel ==
    ASSUME TypeOK, CInv, NEW g \in Gens, AnnounceCancelled(g)
    PROVE  CInv'
  <1>1. /\ g \in owed /\ owed' = owed \ {g} /\ ToClient("cancelled", g, 0, 0)
        /\ UNCHANGED <<made, playing, flow, timeline, worker, up, client>>
    BY DEF AnnounceCancelled
  <1>2. PICK m \in DownMessage : down' = Append(down, m) /\ m.type = "cancelled" /\ m.gen = g
    BY <1>1, ToClientFact
  <1>3. Owing' /\ g # playing /\ g <= made
    BY <1>1 DEF CInv, Owing
  <1>4. ASSUME NEW v \in ViewRecord, Foresees(client, down, v), Ends(v)
        PROVE  /\ Accepts(v, m)
               /\ m.type = "audio" /\ Follows(v, m) =>
                      m.start + m.frames <= Window + Acked(client, m.gen)
               /\ \E u \in ViewRecord : Reads(v, m, u) /\ Ends(u)'
    <2>1. Accepts(v, m)
      BY <1>2 DEF Accepts
    <2>2. CASE v.gen # g
      <3>1. Reads(v, m, v)
        BY <1>2, <2>2 DEF Reads
      <3>2. Ends(v)'
        BY <1>1, <1>4 DEF Ends
      <3> QED BY <1>2, <2>1, <3>1, <3>2
    <2>3. CASE v.gen = g
      <3> DEFINE u == Blank(g, "cancelled")
      <3>1. u \in ViewRecord /\ u.gen = g
        BY DEF Blank, ViewRecord
      <3>2. Reads(v, m, u)
        BY <1>2, <2>3 DEF Reads
      <3> HIDE DEF u
      <3>3. Ends(u)'
        BY <1>1, <1>3, <1>4, <2>3, <3>1 DEF Ends
      <3> QED BY <1>2, <2>1, <3>1, <3>2, <3>3
    <2> QED BY <2>2, <2>3
  <1> QED BY <1>1, <1>2, <1>3, <1>4, WriteStep

\* A packet starts where the one before it ended, within the window.
LEMMA PacketFact ==
    ASSUME NEW sent \in Nat, NEW n \in Nat, NEW reserved \in Nat, NEW played \in Nat,
           NEW a \in Nat, sent + n = reserved, reserved <= played + Window, played <= a
    PROVE  /\ reserved - n = sent /\ reserved - n \in Nat
           /\ (reserved - n) + n = reserved /\ reserved <= Window + a
  OBVIOUS

\* What the worker of the playing generation writes is what the client expects.
LEMMA WriterChannel ==
    ASSUME TypeOK, Core, CInv, NEW g \in Gens,
           \/ AnnounceGeneration(g) \/ AnnounceChunk(g) \/ WriteAudio(g) \/ AnnounceDone(g)
    PROVE  CInv'
  <1>0. /\ playing = g /\ g # 0 /\ UNCHANGED <<made, playing, owed, flow, timeline, up, client>>
        /\ g \in Nat
    BY DEF AnnounceGeneration, AnnounceChunk, WriteAudio, AnnounceDone
  <1>n. /\ flow[g].reserved \in Nat /\ flow[g].played \in Nat
        /\ worker[g].left \in Nat /\ worker[g].granted \in Nat
        /\ timeline.generated \in Nat /\ timeline.sent \in Nat
        /\ worker \in [Gens -> WorkerRecord]
    BY CoreTypes
  <1>a. /\ timeline.sent <= timeline.generated
        /\ timeline.sent + worker[g].granted = flow[g].reserved
        /\ flow[g].reserved + worker[g].left = timeline.generated + worker[g].granted
        /\ worker[g].pc \notin Busy => worker[g].granted = 0
        /\ flow[g].reserved <= flow[g].played + Window
    BY <1>0 DEF Core, Accounts, Workers, Sound, Flows
  <1>b. flow[g].played <= Acked(client, g) /\ Acked(client, g) \in Nat
    BY <1>0 DEF CInv, Believed, Acked, TypeOK, ClientRecord
  <1>o. Owing'
    BY <1>0 DEF CInv, Owing
  <1>1. CASE AnnounceGeneration(g)
    <2>1. /\ worker[g].pc = "created" /\ ToClient("created", g, 0, 0)
          /\ SetWorker(g, "next", worker[g].left, worker[g].granted)
      BY <1>1 DEF AnnounceGeneration, At, GoTo
    <2>2. worker'[g].pc = "next"
      BY <2>1, WorkerSet
    <2>3. PICK m \in DownMessage : down' = Append(down, m) /\ m.type = "created" /\ m.gen = g
      <3>1. ToClient("created", g, 0, 0)
        BY <2>1
      <3> QED BY <3>1, ToClientFact
    <2>4. ASSUME NEW v \in ViewRecord, Foresees(client, down, v), Ends(v)
          PROVE  /\ Accepts(v, m)
                 /\ m.type = "audio" /\ Follows(v, m) =>
                        m.start + m.frames <= Window + Acked(client, m.gen)
                 /\ \E u \in ViewRecord : Reads(v, m, u) /\ Ends(u)'
      <3> DEFINE u == Blank(g, "generating")
      <3>1. v.gen < g /\ timeline.generated = 0 /\ g = made
        BY <1>0, <2>1, <2>4 DEF Ends
      <3>2. Accepts(v, m) /\ Reads(v, m, u)
        BY <2>3, <3>1 DEF Accepts, Reads
      <3>3. /\ u \in ViewRecord /\ u.gen = g /\ u.state \in Told /\ u.received = 0
        BY DEF Blank, ViewRecord, Told
      <3>4. flow[g].reserved = 0
        <4>1. worker[g].granted = 0
          BY <1>a, <2>1 DEF Busy
        <4>2. timeline.sent = 0
          BY <1>n, <1>a, <3>1
        <4> QED BY <1>n, <1>a, <4>1, <4>2
      <3> HIDE DEF u
      <3>5. Ends(u)'
        BY <1>0, <2>2, <3>1, <3>3, <3>4 DEF Ends
      <3> QED BY <2>3, <3>2, <3>3, <3>5
    <2> QED BY <1>0, <1>o, <2>3, <2>4, WriteStep
  <1>2. CASE AnnounceChunk(g)
    <2>1. /\ worker[g].pc = "announce" /\ ToClient("started", g, 0, 0)
          /\ SetWorker(g, "reserve", worker[g].left, worker[g].granted)
      BY <1>2 DEF AnnounceChunk, At, GoTo
    <2>2. worker'[g].pc = "reserve"
      BY <2>1, WorkerSet
    <2>3. PICK m \in DownMessage : down' = Append(down, m) /\ m.type = "started" /\ m.gen = g
      BY <2>1, ToClientFact
    <2>4. ASSUME NEW v \in ViewRecord, Foresees(client, down, v), Ends(v)
          PROVE  /\ Accepts(v, m)
                 /\ m.type = "audio" /\ Follows(v, m) =>
                        m.start + m.frames <= Window + Acked(client, m.gen)
                 /\ \E u \in ViewRecord : Reads(v, m, u) /\ Ends(u)'
      <3> DEFINE u == [v EXCEPT !.format = TRUE]
      <3>1. v.gen = g /\ v.state \in Told /\ v.received + 0 = flow[g].reserved
        BY <1>0, <2>1, <2>4 DEF Ends
      <3>2. Accepts(v, m) /\ Reads(v, m, u)
        BY <2>3, <3>1 DEF Accepts, Reads, Follows
      <3>3. /\ u \in ViewRecord /\ u.gen = v.gen /\ u.state = v.state
            /\ u.received = v.received /\ u.format
        BY DEF ViewRecord
      <3> HIDE DEF u
      <3>5. Ends(u)'
        BY <1>0, <2>1, <2>2, <2>4, <3>1, <3>3, GoesOn
      <3> QED BY <2>3, <3>2, <3>3, <3>5
    <2> QED BY <1>0, <1>o, <2>3, <2>4, WriteStep
  <1>3. CASE WriteAudio(g)
    <2>0. /\ worker[g].pc = "write"
          /\ ToClient("audio", g, flow[g].reserved - worker[g].granted, worker[g].granted)
          /\ SetWorker(g, "account", worker[g].left, worker[g].granted)
      BY <1>3 DEF WriteAudio, At, GoTo
    <2>1. /\ flow[g].reserved - worker[g].granted \in Nat
          /\ (flow[g].reserved - worker[g].granted) + worker[g].granted = flow[g].reserved
          /\ flow[g].reserved <= Window + Acked(client, g)
      <3> DEFINE n == worker[g].granted
                 all == flow[g].reserved
                 played == flow[g].played
                 sent == timeline.sent
                 heard == Acked(client, g)
      <3>1. /\ n \in Nat /\ all \in Nat /\ played \in Nat /\ sent \in Nat
            /\ heard \in Nat
            /\ sent + n = all /\ all <= played + Window /\ played <= heard
        BY <1>n, <1>a, <1>b
      <3> HIDE DEF n, all, played, sent, heard
      <3>2. all - n \in Nat /\ (all - n) + n = all /\ all <= Window + heard
        BY <3>1, PacketFact
      <3> QED BY <3>2 DEF n, all, heard
    <2>2. worker'[g].pc = "account"
      BY <2>0, WorkerSet
    <2>3. PICK m \in DownMessage :
              /\ down' = Append(down, m) /\ m.type = "audio" /\ m.gen = g
              /\ m.start = flow[g].reserved - worker[g].granted
              /\ m.frames = worker[g].granted
      <3> DEFINE start == flow[g].reserved - worker[g].granted
                 frames == worker[g].granted
      <3>1. ToClient("audio", g, start, frames) /\ start \in Nat /\ frames \in Nat
        BY <1>n, <2>0, <2>1
      <3> SUFFICES \E m \in DownMessage :
              /\ down' = Append(down, m) /\ m.type = "audio" /\ m.gen = g
              /\ m.start = start /\ m.frames = frames
        OBVIOUS
      <3> HIDE DEF start, frames
      <3> QED BY <3>1, ToClientFact
    <2>4. ASSUME NEW v \in ViewRecord, Foresees(client, down, v), Ends(v)
          PROVE  /\ Accepts(v, m)
                 /\ m.type = "audio" /\ Follows(v, m) =>
                        m.start + m.frames <= Window + Acked(client, m.gen)
                 /\ \E u \in ViewRecord : Reads(v, m, u) /\ Ends(u)'
      <3> DEFINE u == [v EXCEPT !.received = v.received + m.frames]
      <3>1. /\ v.gen = g /\ v.state \in Told /\ v.format
            /\ v.received + worker[g].granted = flow[g].reserved /\ v.received \in Nat
        BY <1>0, <2>0, <2>4, ViewParts DEF Ends
      <3>2. m.start = v.received /\ v.received + m.frames = flow[g].reserved
        BY <1>n, <2>3, <3>1
      <3>3. Accepts(v, m) /\ Reads(v, m, u)
        BY <2>3, <3>1, <3>2 DEF Accepts, Reads, Follows
      <3>4. /\ u \in ViewRecord /\ u.gen = v.gen /\ u.state = v.state
            /\ u.received + 0 = flow[g].reserved /\ u.format
        <4>1. v.received + m.frames \in Nat /\ flow[g].reserved + 0 = flow[g].reserved
          BY <1>n, <3>2
        <4>2. /\ u \in ViewRecord /\ u.gen = v.gen /\ u.state = v.state
              /\ u.received = v.received + m.frames /\ u.format = v.format
          BY <4>1 DEF ViewRecord
        <4> QED BY <3>1, <3>2, <4>1, <4>2
      <3> HIDE DEF u
      <3>5. Ends(u)'
        BY <1>0, <2>0, <2>2, <2>4, <3>1, <3>4, GoesOn
      <3>6. m.start + m.frames <= Window + Acked(client, m.gen)
        BY <2>1, <2>3
      <3> QED BY <3>3, <3>4, <3>5, <3>6
    <2> QED BY <1>0, <1>o, <2>3, <2>4, WriteStep
  <1>4. CASE AnnounceDone(g)
    <2>1. /\ worker[g].pc = "finished" /\ ToClient("done", g, 0, timeline.sent)
          /\ SetWorker(g, "done", worker[g].left, worker[g].granted)
      BY <1>4 DEF AnnounceDone, At, GoTo
    <2>2. worker'[g].pc = "done"
      BY <2>1, WorkerSet
    <2>3. PICK m \in DownMessage : /\ down' = Append(down, m) /\ m.type = "done" /\ m.gen = g
                                   /\ m.frames = timeline.sent
      <3>1. ToClient("done", g, 0, timeline.sent) /\ timeline.sent \in Nat
        BY <1>n, <2>1
      <3>2. "done" \in {"created", "started", "audio", "done", "cancelled"} /\ 0 \in Nat
        OBVIOUS
      <3> QED BY <3>1, <3>2, ToClientFact
    <2>4. ASSUME NEW v \in ViewRecord, Foresees(client, down, v), Ends(v)
          PROVE  /\ Accepts(v, m)
                 /\ m.type = "audio" /\ Follows(v, m) =>
                        m.start + m.frames <= Window + Acked(client, m.gen)
                 /\ \E u \in ViewRecord : Reads(v, m, u) /\ Ends(u)'
      <3>1. /\ v.gen = g /\ v.state \in Told /\ v.received + 0 = flow[g].reserved
            /\ v.received \in Nat
        BY <1>0, <2>1, <2>4, ViewParts DEF Ends
      <3>2. v.received = timeline.sent
        BY <1>n, <1>a, <2>1, <3>1 DEF Busy
      <3>3. Accepts(v, m)
        BY <2>3, <3>2 DEF Accepts
      <3>4. PICK u \in ViewRecord : Reads(v, m, u) /\ u.gen = v.gen /\ u.state \in Told
                                    /\ u.received = v.received
        <4>1. CASE v.state = "generating"
          <5> DEFINE w == [v EXCEPT !.state = "done"]
          <5>1. w \in ViewRecord /\ w.gen = v.gen /\ w.state \in Told /\ w.received = v.received
            BY DEF ViewRecord, Told
          <5>2. Reads(v, m, w)
            BY <2>3, <3>1, <4>1 DEF Reads
          <5> QED BY <5>1, <5>2
        <4>2. CASE v.state # "generating"
          <5>1. Reads(v, m, v)
            BY <2>3, <4>2 DEF Reads
          <5> QED BY <3>1, <5>1
        <4> QED BY <4>1, <4>2
      <3>5. Ends(u)'
        BY <1>0, <2>1, <2>2, <2>4, <3>1, <3>4 DEF Ends
      <3> QED BY <2>3, <3>3, <3>4, <3>5
    <2> QED BY <1>0, <1>o, <2>3, <2>4, WriteStep
  <1> QED BY <1>1, <1>2, <1>3, <1>4

-----------------------------------------------------------------------------
(* Reports.                                                                *)

\* A report about the playing generation is of what the client knows.
LEMMA ReportTrue ==
    ASSUME TypeOK, CInv, NEW i \in 1..Len(up), up[i].gen = playing
    PROVE  /\ playing # 0 /\ up[i].played <= Acked(client, playing)
           /\ up[i].played <= up[i].received /\ up[i].received <= flow[playing].reserved
  <1>1. PICK v \in ViewRecord : Foresees(client, down, v) /\ Ends(v)
    BY DEF CInv
  <1>2. /\ client \in ClientRecord /\ down \in Seq(DownMessage) /\ playing \in Nat
        /\ up[i] \in UpMessage
    BY CoreTypes DEF TypeOK
  <1>3. /\ up[i].gen \in Nat /\ up[i].gen # 0 /\ client.gen \in Nat /\ client.received \in Nat
        /\ up[i].received \in Nat
    BY <1>2 DEF UpMessage, ClientRecord
  <1>4. /\ client.gen <= playing
        /\ client.gen = playing => /\ client.state # "cancelled"
                                   /\ client.received <= flow[playing].reserved
    BY <1>1, <1>2, <1>3, Follower
  <1>5. /\ up[i].gen <= client.gen /\ up[i].played <= up[i].received
        /\ up[i].gen = client.gen /\ client.state # "cancelled" =>
               up[i].received <= client.received /\ up[i].played <= client.acked
    BY DEF CInv, Reported, Known
  <1>6. client.gen = playing
    BY <1>2, <1>3, <1>4, <1>5
  <1>7. up[i].received <= client.received /\ client.received <= flow[playing].reserved
    BY <1>4, <1>5, <1>6
  <1>8. flow[playing].reserved \in Nat
    BY <1>3, CoreTypes
  <1> QED BY <1>3, <1>4, <1>5, <1>6, <1>7, <1>8 DEF Acked

\* The session reads a report: it comes to believe what that says, at most.
LEMMA ReadChannel ==
    ASSUME TypeOK, CInv, ReadClient
    PROVE  CInv'
  <1> DEFINE m == Head(up)
  <1>u. /\ up \in Seq(UpMessage) /\ up # <<>> /\ up' = Tail(up) /\ m = up[1] /\ 1 \in 1..Len(up)
        /\ m \in UpMessage
    BY DEF ReadClient, TypeOK
  <1>m. m.gen \in Gens /\ m.played \in Nat /\ m.received \in Nat
    BY <1>u DEF UpMessage
  <1>r. /\ UNCHANGED <<made, playing, owed, down, client>>
        /\ UpdateAudioCredit(m) \/ RecordPlayback(m)
    BY DEF ReadClient
  <1>g. m.gen = playing => playing # 0 /\ m.played <= Acked(client, playing)
    BY <1>u, ReportTrue
  <1> HIDE DEF m
  <1>t. /\ worker \in [Gens -> WorkerRecord] /\ flow \in [Gens -> FlowRecord]
        /\ timeline \in TimelineRecord /\ client.acked \in Nat
        /\ playing # 0 => playing \in Gens
    BY CoreTypes DEF TypeOK, ClientRecord
  <1>a. Acked(client, playing) \in Nat
    BY <1>t DEF Acked
  <1>p. Reported'
    <2>1. /\ Len(up') = Len(up) - 1 /\ Len(up) \in Nat
          /\ \A i \in 1..(Len(up) - 1) : up'[i] = up[i + 1] /\ i + 1 \in 1..Len(up)
      BY <1>u
    <2>2. ASSUME NEW i \in 1..Len(up')
          PROVE  Known(up'[i], client)
      <3>1. up'[i] = up[i + 1] /\ i + 1 \in 1..Len(up)
        BY <2>1
      <3> QED BY <3>1 DEF CInv, Reported
    <2> QED BY <1>r, <2>2 DEF Reported, Known
  \* Nothing moves but what the report is about.
  <1>s. ASSUME playing # 0 => /\ worker'[playing].pc = worker[playing].pc
                             /\ worker'[playing].granted = worker[playing].granted
                             /\ flow'[playing].reserved = flow[playing].reserved
                             /\ flow'[playing].played <= Acked(client, playing)
                             /\ timeline'.played <= Acked(client, playing)
                             /\ timeline'.generated = timeline.generated
        PROVE  CInv'
    <2>1. PICK v \in ViewRecord : Foresees(client, down, v) /\ Ends(v)
      BY DEF CInv
    <2>2. Ends(v)'
      BY <1>r, <1>s, <2>1 DEF Ends
    <2>3. Foresees(client, down, v)'
      BY <1>r, <2>1
    <2>4. Owing' /\ Honest' /\ client'.fault = "none"
      BY <1>r DEF CInv, Owing, Honest
    <2>5. Believed'
      BY <1>r, <1>s DEF Believed
    <2> QED BY <1>p, <2>2, <2>3, <2>4, <2>5 DEF CInv
  <1>0. ASSUME UNCHANGED <<flow, worker, timeline>>  PROVE CInv'
    <2>1. playing # 0 => /\ flow[playing].played <= Acked(client, playing)
                        /\ timeline.played <= Acked(client, playing)
      BY DEF CInv, Believed
    <2> QED BY <1>0, <1>s, <2>1
  \* What signalling the playing generation's worker changes.
  <1>f. ASSUME playing \in Gens, NEW f, Signal(playing, f)
        PROVE  /\ worker'[playing].pc = worker[playing].pc
               /\ worker'[playing].granted = worker[playing].granted /\ flow'[playing] = f
    <2> DEFINE b == worker[playing].signalled \/ (At(playing, "waiting") /\ f # flow[playing])
    <2>1. /\ flow' = [flow EXCEPT ![playing] = f]
          /\ worker' = [worker EXCEPT ![playing].signalled = b]
      BY <1>f DEF Signal
    <2> HIDE DEF b
    <2>2. worker'[playing] = [worker[playing] EXCEPT !.signalled = b]
      BY <1>t, <1>f, <2>1
    <2> QED BY <1>t, <1>f, <2>1, <2>2 DEF WorkerRecord
  \* The position moves to what was reported, or to what the controller knew.
  <1>v. ASSUME playing # 0, NEW q \in Nat, q <= Acked(client, playing),
               timeline' = Advanced(timeline, q)
        PROVE  /\ timeline'.played <= Acked(client, playing)
               /\ timeline'.generated = timeline.generated
    <2>1. timeline.played <= Acked(client, playing)
      BY <1>v DEF CInv, Believed
    <2>2. timeline'.played <= Acked(client, playing)
      BY <1>t, <1>a, <1>v, <2>1, AdvancedBound
    <2>3. timeline'.generated = timeline.generated
      BY <1>t, <1>v, AdvancedFact
    <2> QED BY <2>2, <2>3
  <1>1. CASE UpdateAudioCredit(m)
    <2>1. CASE Concerns(m) /\ flow[playing].open /\ ValidCredit(flow[playing], m)
      <3> DEFINE f == Updated(flow[playing], m)
      <3>1. /\ Signal(playing, f) /\ timeline' = Advanced(timeline, f.played)
            /\ m.gen = playing /\ playing \in Gens /\ playing # 0
        BY <1>1, <1>g, <1>m, <2>1 DEF UpdateAudioCredit, Concerns
      <3>2. /\ flow[playing] \in FlowRecord /\ flow[playing].played \in Nat
            /\ flow[playing].played <= Acked(client, playing)
        BY <1>t, <3>1 DEF FlowRecord, CInv, Believed
      <3>3. /\ f.reserved = flow[playing].reserved
            /\ f.played = flow[playing].played \/ f.played = m.played
        BY <3>2 DEF Updated, FlowRecord
      <3> HIDE DEF f
      <3>4. f.played \in Nat /\ f.played <= Acked(client, playing)
        BY <1>g, <1>m, <3>1, <3>2, <3>3
      <3>5. /\ timeline'.played <= Acked(client, playing)
            /\ timeline'.generated = timeline.generated
        BY <1>v, <3>1, <3>4
      <3>6. /\ worker'[playing].pc = worker[playing].pc
            /\ worker'[playing].granted = worker[playing].granted /\ flow'[playing] = f
        BY <1>f, <3>1
      <3> QED BY <1>s, <3>3, <3>4, <3>5, <3>6
    <2> QED BY <1>0, <1>1, <2>1 DEF UpdateAudioCredit
  <1>2. CASE RecordPlayback(m)
    <2>1. CASE Concerns(m)
      <3>1. /\ timeline' = Advanced(timeline, m.played) /\ m.gen = playing /\ playing \in Gens
            /\ playing # 0 /\ m.played <= Acked(client, playing)
        BY <1>2, <1>g, <1>m, <2>1 DEF RecordPlayback, Concerns
      <3>2. /\ flow[playing] \in FlowRecord /\ flow[playing].played \in Nat
            /\ flow[playing].played <= Acked(client, playing)
        BY <1>t, <3>1 DEF FlowRecord, CInv, Believed
      <3>3. /\ timeline'.played <= Acked(client, playing)
            /\ timeline'.generated = timeline.generated
        BY <1>m, <1>v, <3>1
      <3>4. CASE flow[playing].open
        <4> DEFINE f == Acknowledged(flow[playing], m.played)
        <4>1. Signal(playing, f)
          BY <1>2, <2>1, <3>4 DEF RecordPlayback
        <4>2. /\ f.reserved = flow[playing].reserved
              /\ f.played <= flow[playing].played \/ f.played <= m.played
          BY <1>m, <3>2 DEF Acknowledged, FlowRecord, Lesser
        <4>3. f.played \in Nat
          BY <1>u, <3>2, ReportType DEF FlowRecord
        <4> HIDE DEF f
        <4>4. f.played <= Acked(client, playing)
          BY <1>a, <1>m, <3>1, <3>2, <4>2, <4>3
        <4>5. /\ worker'[playing].pc = worker[playing].pc
              /\ worker'[playing].granted = worker[playing].granted /\ flow'[playing] = f
          BY <1>f, <3>1, <4>1
        <4> QED BY <1>s, <3>3, <4>2, <4>4, <4>5
      <3>5. CASE ~flow[playing].open
        <4>1. UNCHANGED <<flow, worker>>
          BY <1>2, <2>1, <3>5 DEF RecordPlayback
        <4> QED BY <1>s, <3>2, <3>3, <4>1
      <3> QED BY <3>4, <3>5
    <2>2. CASE ~Concerns(m)
      BY <1>0, <1>2, <2>2 DEF RecordPlayback
    <2> QED BY <2>1, <2>2
  <1> QED BY <1>r, <1>1, <1>2

-----------------------------------------------------------------------------
(* The client.                                                             *)

\* What the client knew it still knows, of the generation it listens to.
LEMMA StillKnown ==
    ASSUME NEW c \in ClientRecord, NEW d \in ClientRecord, Since(View(c), View(d)),
           d.gen = c.gen /\ d.state # "cancelled" => c.acked <= d.acked,
           NEW r \in UpMessage, Known(r, c)
    PROVE  Known(r, d)
  <1>1. /\ c.gen \in Nat /\ c.received \in Nat /\ c.acked \in Nat
        /\ d.gen \in Nat /\ d.received \in Nat /\ d.acked \in Nat
        /\ r.gen \in Nat /\ r.received \in Nat /\ r.played \in Nat
    BY DEF ClientRecord, UpMessage
  <1>2. /\ c.gen <= d.gen
        /\ c.gen = d.gen /\ d.state # "cancelled" =>
               c.state # "cancelled" /\ c.received <= d.received
    BY DEF Since, View
  <1> QED BY <1>1, <1>2 DEF Known

\* What it reports it knows.
LEMMA NowKnown ==
    ASSUME NEW d \in ClientRecord, d.acked <= d.heard, d.heard <= d.received,
           NEW r, r.gen = d.gen, r.received = d.received, r.played = d.acked
    PROVE  Known(r, d)
  <1>1. d.gen \in Nat /\ d.received \in Nat /\ d.acked \in Nat /\ d.heard \in Nat
    BY DEF ClientRecord
  <1> QED BY <1>1 DEF Known

\* The client moves on to d, whatever it reads, and reports what it then knows.
LEMMA ReportedGrows ==
    ASSUME TypeOK, CInv, NEW d \in ClientRecord, client' = d, Since(View(client), View(d)),
           d.gen = client.gen /\ d.state # "cancelled" => client.acked <= d.acked,
           d.acked <= d.heard, d.heard <= d.received,
           NEW s \in Seq(UpMessage), up' = up \o s,
           \A i \in 1..Len(s) : /\ s[i].gen = d.gen /\ s[i].received = d.received
                                /\ s[i].played = d.acked
    PROVE  Reported'
  <1>t. up \in Seq(UpMessage) /\ client \in ClientRecord
    BY DEF TypeOK
  <1>1. ASSUME NEW i \in 1..Len(up)  PROVE Known(up[i], d)
    <2>1. up[i] \in UpMessage /\ Known(up[i], client)
      BY <1>t DEF CInv, Reported
    <2> QED BY <1>t, <2>1, StillKnown
  <1>2. ASSUME NEW i \in 1..Len(s)  PROVE Known(s[i], d)
    BY NowKnown
  <1>3. ASSUME NEW i \in 1..Len(up')  PROVE Known(up'[i], d)
    <2>1. CASE i <= Len(up)
      <3>1. i \in 1..Len(up) /\ up'[i] = up[i]
        BY <1>t, <2>1
      <3> QED BY <1>1, <3>1
    <2>2. CASE ~(i <= Len(up))
      <3>1. i - Len(up) \in 1..Len(s) /\ up'[i] = s[i - Len(up)]
        BY <1>t, <2>2
      <3> QED BY <1>2, <3>1
    <2> QED BY <2>1, <2>2
  <1> QED BY <1>3 DEF Reported, Known

\* What the client writes.
LEMMA AnswerFact ==
    ASSUME NEW c \in ClientRecord, c.gen \in Gens,
           NEW s, s = CreditOf(c) \/ s = CreditOf(c) \o <<Progress(c)>>
    PROVE  /\ s \in Seq(UpMessage)
           /\ \A i \in 1..Len(s) : /\ s[i].gen = c.gen /\ s[i].received = c.received
                                    /\ s[i].played = c.acked
  <1>1. /\ Credit(c) \in UpMessage /\ Progress(c) \in UpMessage
        /\ Credit(c).gen = c.gen /\ Credit(c).received = c.received /\ Credit(c).played = c.acked
        /\ Progress(c).gen = c.gen /\ Progress(c).received = c.received
        /\ Progress(c).played = c.acked
    BY DEF Credit, Progress, UpMessage, ClientRecord
  <1> DEFINE Says(r) == r.gen = c.gen /\ r.received = c.received /\ r.played = c.acked
             t == CreditOf(c)
  <1>2. t = <<>> \/ t = <<Credit(c)>>
    BY DEF CreditOf
  <1>3. t \in Seq(UpMessage) /\ \A i \in 1..Len(t) : t[i] = Credit(c)
    <2> HIDE DEF t
    <2>1. CASE t = <<>>
      BY <2>1
    <2>2. CASE t = <<Credit(c)>>
      BY <1>1, <2>2
    <2> QED BY <1>2, <2>1, <2>2
  <1>4. Says(Credit(c)) /\ Says(Progress(c))
    BY <1>1
  <1> SUFFICES s \in Seq(UpMessage) /\ \A i \in 1..Len(s) : Says(s[i])
    OBVIOUS
  <1>5. s = t \/ s = t \o <<Progress(c)>>
    OBVIOUS
  <1> HIDE DEF Says, t
  <1>6. CASE s = t
    BY <1>3, <1>4, <1>6
  <1>7. CASE s = t \o <<Progress(c)>>
    <2> DEFINE p == <<Progress(c)>>
    <2>1. p \in Seq(UpMessage) /\ Len(p) = 1 /\ p[1] = Progress(c) /\ s = t \o p
      BY <1>1, <1>7
    <2> HIDE DEF p
    <2>2. s \in Seq(UpMessage) /\ Len(s) = Len(t) + 1
      <3>1. Len(t \o p) = Len(t) + Len(p) /\ t \o p \in Seq(UpMessage)
        <4>1. \A a, b \in Seq(UpMessage) : Len(a \o b) = Len(a) + Len(b) /\ a \o b \in Seq(UpMessage)
          OBVIOUS
        <4> QED BY <1>3, <2>1, <4>1
      <3> QED BY <2>1, <3>1
    <2>3. ASSUME NEW i \in 1..Len(s)  PROVE Says(s[i])
      <3>1. CASE i <= Len(t)
        <4>1. i \in 1..Len(t) /\ s[i] = t[i]
          BY <1>3, <2>1, <2>2, <3>1
        <4> QED BY <1>3, <1>4, <4>1
      <3>2. CASE ~(i <= Len(t))
        <4>1. s[i] = p[1]
          BY <1>3, <2>1, <2>2, <3>2
        <4> QED BY <1>4, <2>1, <4>1
      <3> QED BY <3>1, <3>2
    <2> QED BY <2>2, <2>3
  <1> QED BY <1>5, <1>6, <1>7

\* The position of a client in a generation it does not pass or give up stays or grows.
LEMMA AckedGrows ==
    ASSUME NEW c \in ClientRecord, NEW d \in ClientRecord, Since(View(c), View(d)),
           d.gen = c.gen /\ d.state # "cancelled" => c.acked <= d.acked,
           NEW g \in Nat, d.gen <= g, d.gen = g => d.state # "cancelled"
    PROVE  /\ Acked(c, g) <= Acked(d, g)
           /\ Acked(c, g) \in Nat /\ Acked(d, g) \in Nat
  <1>1. c.gen \in Nat /\ c.acked \in Nat /\ d.gen \in Nat /\ d.acked \in Nat
    BY DEF ClientRecord
  <1>2. c.gen <= d.gen
    BY DEF Since, View
  <1> QED BY <1>1, <1>2 DEF Acked

\* Where the client goes, the session's belief is still no more than is true.
LEMMA ClientStep ==
    ASSUME TypeOK, CInv, NEW d \in ClientRecord, client' = d, Since(View(client), View(d)),
           d.gen = client.gen /\ d.state # "cancelled" => client.acked <= d.acked,
           d.acked <= d.heard, d.heard <= d.received, d.fault = "none",
           NEW s \in Seq(UpMessage), up' = up \o s,
           \A i \in 1..Len(s) : /\ s[i].gen = d.gen /\ s[i].received = d.received
                                /\ s[i].played = d.acked,
           down' \in Seq(DownMessage),
           \A v \in ViewRecord : Foresees(client, down, v) => Foresees(d, down', v),
           UNCHANGED <<made, playing, flow, timeline, worker, owed>>
    PROVE  CInv'
  <1>1. PICK v \in ViewRecord : Foresees(client, down, v) /\ Ends(v)
    BY DEF CInv
  <1>2. Foresees(d, down', v)
    BY <1>1
  <1>3. Ends(v)' /\ Owing'
    BY <1>1 DEF Ends, CInv, Owing
  <1>4. Honest' /\ client'.fault = "none"
    BY DEF Honest
  <1>5. Reported'
    BY ReportedGrows
  <1>6. Believed'
    <2> SUFFICES ASSUME playing # 0
                 PROVE  /\ flow[playing].played <= Acked(d, playing)
                        /\ timeline.played <= Acked(d, playing)
      BY DEF Believed
    <2>1. /\ flow[playing].played <= Acked(client, playing)
          /\ timeline.played <= Acked(client, playing)
      BY DEF CInv, Believed
    <2>2. /\ flow[playing].played \in Nat /\ timeline.played \in Nat /\ playing \in Nat
          /\ client.acked \in Nat /\ d.acked \in Nat /\ client.gen \in Nat /\ d.gen \in Nat
      BY CoreTypes DEF TypeOK, ClientRecord
    <2>3. d.gen <= playing /\ (d.gen = playing => d.state # "cancelled")
      BY <1>1, <1>2, Follower
    <2>5. /\ Acked(client, playing) <= Acked(d, playing)
          /\ Acked(client, playing) \in Nat /\ Acked(d, playing) \in Nat
      <3>1. client \in ClientRecord
        BY DEF TypeOK
      <3> QED BY <2>2, <2>3, <3>1, AckedGrows
    <2> DEFINE a == Acked(client, playing)
               e == Acked(d, playing)
               n == flow[playing].played
               k == timeline.played
    <2>7. /\ a \in Nat /\ e \in Nat /\ n \in Nat /\ k \in Nat
          /\ a <= e /\ n <= a /\ k <= a
      BY <2>1, <2>2, <2>5
    <2> HIDE DEF a, e, n, k
    <2>8. n <= e /\ k <= e
      BY <2>7
    <2> QED BY <2>8 DEF n, k, e
  <1>7. Foresees(client, down, v)'
    BY <1>2
  <1> QED BY <1>1, <1>3, <1>4, <1>5, <1>6, <1>7 DEF CInv

\* Views that agree in every part are one.
LEMMA ViewEqual ==
    ASSUME NEW u \in ViewRecord, NEW w \in ViewRecord, u.gen = w.gen, u.state = w.state,
           u.format = w.format, u.received = w.received
    PROVE  u = w
  BY DEF ViewRecord

\* The view of a client changes with it.
LEMMA ViewChanges ==
    ASSUME NEW c \in ClientRecord, NEW n \in Nat
    PROVE  /\ View([c EXCEPT !.format = TRUE]) = [View(c) EXCEPT !.format = TRUE]
           /\ View([c EXCEPT !.received = n]) = [View(c) EXCEPT !.received = n]
           /\ View([c EXCEPT !.state = "done"]) = [View(c) EXCEPT !.state = "done"]
           /\ c.format => [View(c) EXCEPT !.format = TRUE] = View(c)
  <1> DEFINE v == View(c)
  <1>0. /\ v \in ViewRecord /\ v.gen = c.gen /\ v.state = c.state /\ v.format = c.format
        /\ v.received = c.received
    BY ViewType DEF View
  <1>1. View([c EXCEPT !.format = TRUE]) = [v EXCEPT !.format = TRUE]
    <2> DEFINE d == [c EXCEPT !.format = TRUE]
               u == [v EXCEPT !.format = TRUE]
    <2>1. /\ d \in ClientRecord /\ d.gen = c.gen /\ d.state = c.state /\ d.format = TRUE
          /\ d.received = c.received
      BY DEF ClientRecord
    <2>2. /\ u \in ViewRecord /\ u.gen = v.gen /\ u.state = v.state /\ u.format = TRUE
          /\ u.received = v.received
      BY <1>0 DEF ViewRecord
    <2> SUFFICES View(d) = u
      OBVIOUS
    <2> HIDE DEF d, u, v
    <2>3. /\ View(d) \in ViewRecord /\ View(d).gen = d.gen /\ View(d).state = d.state
          /\ View(d).format = d.format /\ View(d).received = d.received
      BY <2>1, ViewType DEF View
    <2> QED BY <1>0, <2>1, <2>2, <2>3, ViewEqual
  <1>2. View([c EXCEPT !.received = n]) = [v EXCEPT !.received = n]
    <2> DEFINE d == [c EXCEPT !.received = n]
               u == [v EXCEPT !.received = n]
    <2>1. /\ d \in ClientRecord /\ d.gen = c.gen /\ d.state = c.state /\ d.format = c.format
          /\ d.received = n
      BY DEF ClientRecord
    <2>2. /\ u \in ViewRecord /\ u.gen = v.gen /\ u.state = v.state /\ u.format = v.format
          /\ u.received = n
      BY <1>0 DEF ViewRecord
    <2> SUFFICES View(d) = u
      OBVIOUS
    <2> HIDE DEF d, u, v
    <2>3. /\ View(d) \in ViewRecord /\ View(d).gen = d.gen /\ View(d).state = d.state
          /\ View(d).format = d.format /\ View(d).received = d.received
      BY <2>1, ViewType DEF View
    <2> QED BY <1>0, <2>1, <2>2, <2>3, ViewEqual
  <1>3. View([c EXCEPT !.state = "done"]) = [v EXCEPT !.state = "done"]
    <2> DEFINE d == [c EXCEPT !.state = "done"]
               u == [v EXCEPT !.state = "done"]
    <2>1. /\ d \in ClientRecord /\ d.gen = c.gen /\ d.state = "done" /\ d.format = c.format
          /\ d.received = c.received
      BY DEF ClientRecord
    <2>2. /\ u \in ViewRecord /\ u.gen = v.gen /\ u.state = "done" /\ u.format = v.format
          /\ u.received = v.received
      BY <1>0 DEF ViewRecord
    <2> SUFFICES View(d) = u
      OBVIOUS
    <2> HIDE DEF d, u, v
    <2>3. /\ View(d) \in ViewRecord /\ View(d).gen = d.gen /\ View(d).state = d.state
          /\ View(d).format = d.format /\ View(d).received = d.received
      BY <2>1, ViewType DEF View
    <2> QED BY <1>0, <2>1, <2>2, <2>3, ViewEqual
  <1>4. ASSUME c.format  PROVE [v EXCEPT !.format = TRUE] = v
    <2> DEFINE u == [v EXCEPT !.format = TRUE]
    <2>1. /\ u \in ViewRecord /\ u.gen = v.gen /\ u.state = v.state /\ u.format = TRUE
          /\ u.received = v.received
      BY <1>0 DEF ViewRecord
    <2> SUFFICES u = v
      OBVIOUS
    <2>2. c.format = TRUE
      BY <1>4 DEF ClientRecord
    <2> HIDE DEF u, v
    <2> QED BY <1>0, <2>1, <2>2, ViewEqual
  <1> QED BY <1>1, <1>2, <1>3, <1>4

\* The worklet plays a frame, or the client reports how far it played.
LEMMA PlayChannel ==
    ASSUME TypeOK, Named, CInv, Render \/ \E position \in 1..MaxFrames : AckPlayed(position)
    PROVE  CInv'
  <1>1. /\ client \in ClientRecord /\ down \in Seq(DownMessage) /\ up \in Seq(UpMessage)
        /\ client.heard \in Nat /\ client.received \in Nat /\ client.acked \in Nat
        /\ client.acked <= client.heard /\ client.heard <= client.received
        /\ client.fault = "none"
    BY DEF TypeOK, ClientRecord, CInv, Honest
  <1>2. ASSUME NEW d \in ClientRecord, client' = d, View(d) = View(client),
               client.acked <= d.acked, d.acked <= d.heard, d.heard <= d.received,
               d.fault = "none", NEW s \in Seq(UpMessage), up' = up \o s,
               \A i \in 1..Len(s) : /\ s[i].gen = d.gen /\ s[i].received = d.received
                                    /\ s[i].played = d.acked,
               UNCHANGED <<made, playing, flow, timeline, worker, owed, down>>
        PROVE  CInv'
    <2>1. Since(View(client), View(d))
      <3>1. View(client).gen \in Nat /\ View(client).received \in Nat
        BY <1>1, ViewType, ViewParts
      <3> QED BY <1>2, <3>1 DEF Since
    <2>2. \A v \in ViewRecord : Foresees(client, down, v) => Foresees(d, down', v)
      BY <1>1, <1>2, ForeseesMoved
    <2>3. down' \in Seq(DownMessage)
      BY <1>1, <1>2
    <2> QED BY <1>2, <2>1, <2>2, <2>3, ClientStep
  <1>3. CASE Render
    <2> DEFINE h == client.heard + 1
               b == client.heard + 1 < client.received
               d == [[client EXCEPT !.heard = h] EXCEPT !.started = b]
    <2>1. /\ client.heard < client.received
          /\ client' = [client EXCEPT !.heard = h, !.started = b]
          /\ UNCHANGED <<made, playing, flow, timeline, worker, owed, down, up>>
      BY <1>3 DEF Render
    <2>2. h \in Nat /\ h <= client.received /\ client.acked <= h /\ b \in BOOLEAN
      <3>1. /\ client.heard \in Nat /\ client.received \in Nat /\ client.acked \in Nat
            /\ client.acked <= client.heard /\ client.heard < client.received
        BY <1>1, <2>1
      <3>2. h \in Nat /\ h <= client.received /\ client.acked <= h
        BY <3>1
      <3>3. b \in BOOLEAN
        BY <3>1
      <3> QED BY <3>2, <3>3
    <2> HIDE DEF h, b
    <2>3. /\ d \in ClientRecord /\ client' = d /\ View(d) = View(client) /\ d.acked = client.acked
          /\ d.heard = h /\ d.received = client.received /\ d.fault = client.fault
      BY <1>1, <2>1, <2>2 DEF ClientRecord, View
    <2> HIDE DEF d
    <2>4. up' = up \o <<>> /\ <<>> \in Seq(UpMessage) /\ 1..Len(<<>>) = {}
      <3>1. up' = up /\ up \in Seq(UpMessage)
        BY <1>1, <2>1
      <3> QED BY <3>1
    <2>5. /\ client.acked <= d.acked /\ d.acked <= d.heard /\ d.heard <= d.received
          /\ d.fault = "none"
      BY <1>1, <2>2, <2>3
    <2> QED BY <1>2, <2>1, <2>3, <2>4, <2>5
  <1>4. ASSUME NEW position \in 1..MaxFrames, AckPlayed(position)  PROVE CInv'
    <2> DEFINE d == [client EXCEPT !.acked = position]
    <2>1. /\ client.format /\ client.acked < position /\ position <= client.heard
          /\ position \in Nat /\ client' = d /\ up' = up \o (CreditOf(d) \o <<Progress(d)>>)
          /\ UNCHANGED <<made, playing, flow, timeline, worker, owed, down>>
      BY <1>4 DEF AckPlayed, ToServer
    <2>2. /\ d \in ClientRecord /\ View(d) = View(client) /\ d.acked = position
          /\ d.heard = client.heard /\ d.received = client.received /\ d.fault = client.fault
          /\ d.gen = client.gen
      BY <1>1, <2>1 DEF ClientRecord, View
    <2> HIDE DEF d
    <2>3. d.gen \in Gens
      BY <1>1, <2>1, <2>2 DEF Named, ClientRecord
    <2> DEFINE s == CreditOf(d) \o <<Progress(d)>>
    <2>4. /\ s \in Seq(UpMessage)
          /\ \A i \in 1..Len(s) : /\ s[i].gen = d.gen /\ s[i].received = d.received
                                   /\ s[i].played = d.acked
      BY <2>2, <2>3, AnswerFact
    <2>5. up' = up \o s
      BY <2>1
    <2> HIDE DEF s
    <2>6. /\ client.acked <= d.acked /\ d.acked <= d.heard /\ d.heard <= d.received
          /\ d.fault = "none"
      BY <1>1, <2>1, <2>2
    <2> QED BY <1>2, <2>1, <2>2, <2>4, <2>5, <2>6
  <1> QED BY <1>3, <1>4

\* What the client makes of the next message is what was foreseen; it finds no fault.
LEMMA ServerChannel ==
    ASSUME TypeOK, Named, CInv, ReadServer
    PROVE  CInv'
  <1> DEFINE m == Head(down)
  <1>1. /\ client \in ClientRecord /\ down \in Seq(DownMessage) /\ up \in Seq(UpMessage)
        /\ down # <<>> /\ down' = Tail(down) /\ down' \in Seq(DownMessage) /\ m \in DownMessage
        /\ UNCHANGED <<made, playing, flow, timeline, worker, owed>>
    BY DEF ReadServer, TypeOK
  <1>t. /\ client.heard \in Nat /\ client.received \in Nat /\ client.acked \in Nat
        /\ client.acked <= client.heard /\ client.heard <= client.received
        /\ client.fault = "none" /\ client.format \in BOOLEAN
    BY <1>1 DEF ClientRecord, CInv, Honest
  <1>m. /\ m.type \in {"created", "started", "audio", "done", "cancelled"}
        /\ m.gen \in Gens /\ m.gen \in Nat /\ m.start \in Nat /\ m.frames \in Nat
    BY <1>1, DownParts
  <1>h. /\ m.type = "created" => OnCreated(m)
        /\ m.type = "cancelled" => OnCancelled(m)
        /\ m.type = "started" => OnStarted(m)
        /\ m.type = "audio" => OnAudio(m)
        /\ m.type = "done" => OnDone(m)
    BY <1>m DEF ReadServer
  <1>f. /\ Accepts(View(client), m)
        /\ m.type = "audio" /\ Follows(View(client), m) =>
               m.start + m.frames <= Window + Acked(client, m.gen)
    BY <1>1, ForeseesFirst DEF CInv
  <1> HIDE DEF m
  <1>w. m = Head(down)
    BY DEF m
  \* The client becomes d, and reports that or nothing.
  <1>2. ASSUME NEW d \in ClientRecord, client' = d, Reads(View(client), m, View(d)),
               d.gen = client.gen /\ d.state # "cancelled" => client.acked <= d.acked,
               d.acked <= d.heard, d.heard <= d.received, d.fault = "none",
               \/ UNCHANGED up
               \/ d.gen \in Gens /\ up' = up \o CreditOf(d)
        PROVE  CInv'
    <2>1. Since(View(client), View(d))
      BY <1>1, <1>2, <1>f, ReadsFact, ViewType
    <2>2. \A v \in ViewRecord : Foresees(client, down, v) => Foresees(d, down', v)
      BY <1>1, <1>2, <1>w, ForeseesRead
    <2>3. PICK s \in Seq(UpMessage) :
              /\ up' = up \o s
              /\ \A i \in 1..Len(s) : /\ s[i].gen = d.gen /\ s[i].received = d.received
                                       /\ s[i].played = d.acked
      <3>1. CASE UNCHANGED up
        <4>1. up' = up \o <<>> /\ <<>> \in Seq(UpMessage) /\ 1..Len(<<>>) = {}
          BY <1>1, <3>1
        <4> QED BY <4>1
      <3>2. CASE d.gen \in Gens /\ up' = up \o CreditOf(d)
        <4> DEFINE s == CreditOf(d)
        <4>1. /\ s \in Seq(UpMessage)
              /\ \A i \in 1..Len(s) : /\ s[i].gen = d.gen /\ s[i].received = d.received
                                       /\ s[i].played = d.acked
          BY <3>2, AnswerFact
        <4>2. up' = up \o s
          BY <3>2
        <4> HIDE DEF s
        <4> QED BY <4>1, <4>2
      <3> QED BY <1>2, <3>1, <3>2
    <2> QED BY <1>1, <1>2, <2>1, <2>2, <2>3, ClientStep
  <1>3. ASSUME UNCHANGED <<client, up>>, Reads(View(client), m, View(client))  PROVE CInv'
    BY <1>1, <1>2, <1>3, <1>t
  <1>4. Listening(m.gen) <=> Follows(View(client), m)
    BY DEF Listening, Follows, View, Told
  <1>5. ASSUME NEW g \in Gens, NEW state \in {"generating", "cancelled"},
               client' = Silent(g, state), UNCHANGED up,
               Reads(View(client), m, Blank(g, state)),
               g = client.gen => state = "cancelled"
        PROVE  CInv'
    <2> DEFINE d == Silent(g, state)
    <2>1. /\ d \in ClientRecord /\ View(d) = Blank(g, state) /\ d.gen = g /\ d.state = state
          /\ d.acked = 0 /\ d.heard = 0 /\ d.received = 0 /\ d.fault = "none"
      BY DEF Silent, Blank, View, ClientRecord
    <2>2. client' = d
      BY <1>5
    <2> HIDE DEF d
    <2>3. d.gen = client.gen /\ d.state # "cancelled" => client.acked <= d.acked
      BY <1>5, <2>1
    <2>4. d.acked <= d.heard /\ d.heard <= d.received
      BY <2>1
    <2>5. Reads(View(client), m, View(d))
      BY <1>5, <2>1
    <2> QED BY <1>2, <1>5, <2>1, <2>2, <2>3, <2>4, <2>5
  <1>a. CASE m.type = "created"
    <2>1. client' = Silent(m.gen, "generating") /\ UNCHANGED up
      BY <1>a, <1>h DEF OnCreated
    <2>2. Reads(View(client), m, Blank(m.gen, "generating"))
      BY <1>a DEF Reads
    <2>3. m.gen # client.gen
      <3>1. client.gen < m.gen /\ client.gen \in Nat
        BY <1>1, <1>a, <1>f DEF Accepts, View, ClientRecord
      <3> QED BY <1>m, <3>1
    <2> QED BY <1>5, <1>m, <2>1, <2>2, <2>3
  <1>b. CASE m.type = "cancelled"
    <2>1. CASE m.gen = client.gen
      <3>1. client' = Silent(m.gen, "cancelled") /\ UNCHANGED up
        BY <1>b, <1>h, <2>1 DEF OnCancelled
      <3>2. Reads(View(client), m, Blank(m.gen, "cancelled"))
        BY <1>b, <2>1 DEF Reads, View
      <3> QED BY <1>5, <1>m, <3>1, <3>2
    <2>2. CASE m.gen # client.gen
      <3>1. UNCHANGED <<client, up>> /\ Reads(View(client), m, View(client))
        BY <1>b, <1>h, <2>2 DEF OnCancelled, Reads, View
      <3> QED BY <1>3, <3>1
    <2> QED BY <2>1, <2>2
  <1>c. CASE m.type = "started"
    <2>1. CASE ~Listening(m.gen)
      <3>1. UNCHANGED <<client, up>> /\ Reads(View(client), m, View(client))
        BY <1>c, <1>h, <1>4, <2>1 DEF OnStarted, Reads
      <3> QED BY <1>3, <3>1
    <2>2. CASE Listening(m.gen) /\ client.format
      <3>1. View(client) = [View(client) EXCEPT !.format = TRUE]
        BY <1>1, <2>2, ViewChanges
      <3>2. UNCHANGED <<client, up>> /\ Reads(View(client), m, View(client))
        BY <1>c, <1>h, <1>4, <2>2, <3>1 DEF OnStarted, Reads
      <3> QED BY <1>3, <3>2
    <2>3. CASE Listening(m.gen) /\ ~client.format
      <3> DEFINE d == [client EXCEPT !.format = TRUE]
      <3>1. client' = d /\ up' = up \o CreditOf(d)
        BY <1>c, <1>h, <2>3 DEF OnStarted, Answer, ToServer
      <3>2. /\ d \in ClientRecord /\ d.gen = client.gen /\ d.acked = client.acked
            /\ d.heard = client.heard /\ d.received = client.received /\ d.fault = client.fault
        BY <1>1 DEF ClientRecord
      <3>w. View(d) = [View(client) EXCEPT !.format = TRUE]
        BY <1>1, ViewChanges
      <3> HIDE DEF d
      <3>3. Reads(View(client), m, View(d))
        BY <1>c, <1>4, <2>3, <3>2, <3>w DEF Reads
      <3>4. d.gen \in Gens
        BY <1>m, <2>3, <3>2 DEF Listening
      <3>5. /\ client.acked <= d.acked /\ d.acked <= d.heard /\ d.heard <= d.received
            /\ d.fault = "none"
        BY <1>t, <3>2
      <3> QED BY <1>2, <3>1, <3>2, <3>3, <3>4, <3>5
    <2> QED BY <2>1, <2>2, <2>3
  <1>d. CASE m.type = "audio"
    <2>1. CASE ~Listening(m.gen)
      <3>1. UNCHANGED <<client, up>> /\ Reads(View(client), m, View(client))
        BY <1>d, <1>h, <1>4, <2>1 DEF OnAudio, Reads
      <3> QED BY <1>3, <3>1
    <2>2. CASE Listening(m.gen)
      <3> DEFINE total == client.received + m.frames
                 d == [client EXCEPT !.received = total]
      <3>0. client.gen = m.gen
        BY <2>2 DEF Listening
      <3>1. client.format /\ m.start = client.received
        BY <1>d, <1>f, <1>4, <2>2 DEF Accepts, View
      <3>2. m.start + m.frames <= Window + client.acked
        BY <1>d, <1>f, <1>4, <2>2, <3>0 DEF Acked
      <3>3. total \in Nat /\ client.received <= total /\ ~(total > client.acked + Window)
        BY <1>t, <1>m, <3>1, <3>2
      <3>4. client' = d /\ up' = up \o CreditOf(d)
        BY <1>d, <1>h, <2>2, <3>1, <3>3 DEF OnAudio, Answer, ToServer
      <3>v. View(client).received + m.frames = total
        BY DEF View
      <3> HIDE DEF total
      <3>5. /\ d \in ClientRecord /\ d.gen = client.gen /\ d.acked = client.acked
            /\ d.heard = client.heard /\ d.received = total /\ d.fault = client.fault
        BY <1>1, <3>3 DEF ClientRecord
      <3>w. View(d) = [View(client) EXCEPT !.received = total]
        BY <1>1, <3>3, ViewChanges
      <3> HIDE DEF d
      <3>6. Reads(View(client), m, View(d))
        BY <1>d, <1>4, <2>2, <3>5, <3>v, <3>w DEF Reads
      <3>7. d.gen \in Gens
        BY <1>m, <3>0, <3>5
      <3>8. /\ client.acked <= d.acked /\ d.acked <= d.heard /\ d.heard <= d.received
            /\ d.fault = "none"
        BY <1>t, <3>3, <3>5
      <3> QED BY <1>2, <3>4, <3>5, <3>6, <3>7, <3>8
    <2> QED BY <2>1, <2>2
  <1>e. CASE m.type = "done"
    <2>1. CASE m.gen = client.gen /\ client.state = "generating"
      <3> DEFINE d == [client EXCEPT !.state = "done"]
      <3>1. m.frames = client.received
        BY <1>e, <1>f, <2>1 DEF Accepts, View
      <3>2. client' = d /\ UNCHANGED up
        BY <1>e, <1>h, <2>1, <3>1 DEF OnDone
      <3>3. /\ d \in ClientRecord /\ d.gen = client.gen /\ d.acked = client.acked
            /\ d.heard = client.heard /\ d.received = client.received /\ d.fault = client.fault
        BY <1>1 DEF ClientRecord
      <3>w. View(d) = [View(client) EXCEPT !.state = "done"]
        BY <1>1, ViewChanges
      <3> HIDE DEF d
      <3>4. Reads(View(client), m, View(d))
        BY <1>e, <2>1, <3>3, <3>w DEF Reads, View
      <3>5. /\ client.acked <= d.acked /\ d.acked <= d.heard /\ d.heard <= d.received
            /\ d.fault = "none"
        BY <1>t, <3>3
      <3> QED BY <1>2, <3>2, <3>3, <3>4, <3>5
    <2>2. CASE ~(m.gen = client.gen /\ client.state = "generating")
      <3>1. m.gen = client.gen => m.frames = client.received
        BY <1>e, <1>f DEF Accepts, View
      <3>2. UNCHANGED <<client, up>>
        BY <1>e, <1>h, <2>2, <3>1 DEF OnDone
      <3>3. Reads(View(client), m, View(client))
        BY <1>e, <2>2 DEF Reads, View
      <3> QED BY <1>3, <3>2, <3>3
    <2> QED BY <2>1, <2>2
  <1> QED BY <1>m, <1>a, <1>b, <1>c, <1>d, <1>e

-----------------------------------------------------------------------------
(* What it means.                                                          *)

\* What the two ends know of each other holds at every step.
THEOREM ChannelInductive == Spec => []CInv
  <1>1. Init => CInv
    BY InitChannel
  <1>2. IInv /\ CInv /\ [Next]_vars => CInv'
    <2> SUFFICES ASSUME IInv, CInv, [Next]_vars PROVE CInv'
      OBVIOUS
    <2>0. TypeOK /\ Named /\ Core
      BY DEF IInv
    <2>1. CASE StartGeneration \/ CancelGeneration
      BY <2>0, <2>1, SessionChannel
    <2>2. ASSUME NEW g \in Gens, Worker(g) \/ Provider(g)  PROVE CInv'
      <3>1. CASE Abandon(g)
        BY <2>0, <3>1, AbandonChannel
      <3>2. CASE \/ AnnounceGeneration(g) \/ AnnounceChunk(g) \/ WriteAudio(g) \/ AnnounceDone(g)
        BY <2>0, <3>2, WriterChannel
      <3>3. CASE \/ \E n \in 1..MaxFrames : RegisterChunk(g, n)
                 \/ OpenFlow(g) \/ Reserve(g) \/ MarkGenerationDone(g)
        BY <2>0, <3>3, AloneChannel
      <3>4. CASE WakeUp(g)
        BY <2>0, <3>4, WakeChannel
      <3>5. CASE RecordAudioSent(g)
        BY <2>0, <3>5, SentChannel
      <3> QED BY <2>2, <3>1, <3>2, <3>3, <3>4, <3>5 DEF Worker, Provider
    <2>3. ASSUME NEW g \in Gens, AnnounceCancelled(g)  PROVE CInv'
      BY <2>0, <2>3, CancelledChannel
    <2>4. CASE ReadClient
      BY <2>0, <2>4, ReadChannel
    <2>5. CASE ReadServer
      BY <2>0, <2>5, ServerChannel
    <2>6. CASE Render \/ \E position \in 1..MaxFrames : AckPlayed(position)
      BY <2>0, <2>6, PlayChannel
    <2>7. CASE UNCHANGED vars
      <3>1. PICK v \in ViewRecord : Foresees(client, down, v) /\ Ends(v)
        BY DEF CInv
      <3>2. Foresees(client, down, v)' /\ Ends(v)'
        BY <2>7, <3>1 DEF vars, Ends
      <3>3. Owing' /\ Reported' /\ Honest' /\ Believed' /\ client'.fault = "none"
        BY <2>7 DEF CInv, vars, Owing, Reported, Honest, Believed
      <3> QED BY <3>2, <3>3 DEF CInv
    <2> QED BY <2>1, <2>2, <2>3, <2>4, <2>5, <2>6, <2>7 DEF Next
  <1> QED BY <1>1, <1>2, Inductive, PTL DEF Spec

\* A client that keeps the protocol never has a reason to close the session: positions
\* are contiguous, the window it advertised holds, and done finds all it counts.
THEOREM ClientNeverFaults == Spec => []NoClientFault
  <1>1. CInv => NoClientFault
    BY DEF CInv, NoClientFault
  <1> QED BY <1>1, ChannelInductive, PTL

\* The session believes no more than was rendered, and refuses no snapshot of an honest
\* client, whatever is in flight and whichever generation was replaced meanwhile.
THEOREM CreditsAlwaysTruthful == Spec => []CreditsTruthful
  <1>1. TypeOK /\ CInv => CreditsTruthful
    <2> SUFFICES ASSUME TypeOK, CInv PROVE NeverCreditsUnheard /\ HonestCreditAccepted
      BY DEF CreditsTruthful
    <2>1. NeverCreditsUnheard
      <3> SUFFICES ASSUME playing # 0
                   PROVE  timeline.played <= IF client.gen = playing THEN client.heard ELSE 0
        BY DEF NeverCreditsUnheard
      <3>1. timeline.played <= Acked(client, playing) /\ client.acked <= client.heard
        BY DEF CInv, Believed, Honest
      <3>2. timeline.played \in Nat /\ client.acked \in Nat /\ client.heard \in Nat
        BY CoreTypes DEF TypeOK, ClientRecord
      <3>3. CASE client.gen = playing
        BY <3>1, <3>2, <3>3 DEF Acked
      <3>4. CASE client.gen # playing
        BY <3>1, <3>4 DEF Acked
      <3> QED BY <3>3, <3>4
    <2>2. HonestCreditAccepted
      <3>1. ASSUME NEW i \in 1..Len(up), up[i].gen = playing
            PROVE  ValidCredit(flow[playing], up[i])
        BY <3>1, ReportTrue DEF ValidCredit
      <3> QED BY <3>1 DEF HonestCreditAccepted
    <2> QED BY <2>1, <2>2
  <1>2. IInv => TypeOK
    BY DEF IInv
  <1> QED BY <1>1, <1>2, ChannelInductive, Inductive, PTL

=============================================================================
