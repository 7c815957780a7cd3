------------------------------- MODULE H2Bridge -------------------------------
(***************************************************************************)
(* The HTTP/2 front end of src/src/proxy/h2_bridge.rs: each stream of a    *)
(* connection is replayed as one HTTP/1.1 exchange over an in-memory pipe  *)
(* into the engine that serves h1 clients.                                 *)
(*                                                                         *)
(* A task per stream writes the head and the body into the pipe, then      *)
(* reads the engine's answer and sends it on the stream; a permit bounds   *)
(* the engines that run.  The client may reset a stream or vanish at any   *)
(* moment, withhold its DATA or its window, and open another stream in the *)
(* place of one it reset.  The engine is HttpWorker: here it reads the     *)
(* pipe, answers when it likes, before the request's end too, and may cut  *)
(* its answer short.  A pipe holds pieces: a head, the line that opens a   *)
(* chunk, a unit of a body; the chunk of size zero ends a body.  (Behind   *)
(* the engine's own observer, a chunked answer is never malformed: see     *)
(* Chunked.)                                                               *)
(***************************************************************************)
EXTENDS Naturals, Sequences, FiniteSets

CONSTANTS
    BridgeWorlds,  \* what each stream asks, what the engine may answer, and
                   \* whether idle_body_timeout is set
    MaxStreams,    \* MAX_CONCURRENT_STREAMS
    PipeRoom,      \* DUPLEX_BUF, in pieces
    UploadWindow,  \* STREAM_WINDOW, in units
    MaxWindow      \* bound: units of download window a client grants ahead

\* A request: "expressible" is FALSE for CONNECT or no authority; frames are
\* the sizes of its DATA frames, none for END_STREAM on the headers; h2 lets no
\* frame exceed the window.
H2Requests == [expressible : BOOLEAN, declared : BOOLEAN, isHead : BOOLEAN, frames : Seq(0 .. UploadWindow)]
H2Replies  == [framing : {"none", "length", "chunked", "close", "malformed"}, size : Nat]
NoReply    == [framing |-> "unknown", size |-> 0]                \* it did not answer yet

ASSUME BridgeAssumption ==
    /\ MaxStreams \in Nat \ {0} /\ PipeRoom \in Nat \ {0} /\ UploadWindow \in Nat \ {0} /\ MaxWindow \in Nat \ {0}
    /\ \A w \in BridgeWorlds :
          /\ w.asked \in [DOMAIN w.asked -> H2Requests] /\ IsFiniteSet(DOMAIN w.asked)
          /\ w.replies \subseteq H2Replies /\ w.budgeted \in BOOLEAN

VARIABLES
    asked,      \* stream -> its request
    replies,    \* what the engine may answer
    budgeted,   \* idle_body_timeout is set
    h2,         \* the connection: "open", "draining" (GOAWAY sent) or "lost"
    client,     \* stream -> what the client did and got
    bridge,     \* stream -> the task that serves it
    engine      \* stream -> the engine's side

bridgeVars == <<asked, replies, budgeted, h2, client, bridge, engine>>
H2Stream   == DOMAIN asked

NewClient == [sent |-> 0, reset |-> FALSE, upload |-> UploadWindow, window |-> 0,
              head |-> FALSE, units |-> 0, end |-> "no"]
NewBridge == [pc |-> "none", taken |-> 0, size |-> 0, rest |-> <<>>, acc |-> <<>>, got |-> 0]
NewEngine == [st |-> "none", in |-> <<>>, out |-> <<>>, units |-> 0, ended |-> FALSE, head |-> FALSE,
              reply |-> NoReply, left |-> <<>>, aborted |-> FALSE]

Bodyless(r)  == r.frames = <<>>
ChunkBody(r) == ~Bodyless(r) /\ ~r.declared                        \* synth_request_head
UnitsIn(frames) ==                                               \* of its first n frames
    LET sum[n \in 0 .. Len(frames)] == IF n = 0 THEN 0 ELSE sum[n - 1] + frames[n] IN sum
UnitsOf(r)   == UnitsIn(r.frames)[Len(r.frames)]

AllSent(s)   == client[s].sent = Len(asked[s].frames)
Departed(s)  == client[s].reset \/ h2 = "lost"                   \* what poll_reset reports
EngineRuns(s) == engine[s].st \in {"run", "answer"}
Slots        == {s \in H2Stream : bridge[s].pc \notin {"none", "opened", "acquire", "end"}}

-----------------------------------------------------------------------------
(* The client. *)

\* h2 holds the client to the streams it allows, freeing a slot at a reset.
H2Open == {s \in H2Stream : bridge[s].pc # "none" /\ client[s].end = "no" /\ ~client[s].reset}
OpenStream(s) ==
    /\ h2 = "open" /\ bridge[s].pc = "none" /\ Cardinality(H2Open) < MaxStreams
    /\ bridge' = [bridge EXCEPT ![s].pc = "opened"]
    /\ UNCHANGED <<asked, replies, budgeted, h2, client, engine>>

SendFrame(s) ==
    LET n == asked[s].frames[client[s].sent + 1]
    IN  /\ s \in H2Open /\ h2 # "lost" /\ ~AllSent(s) /\ n <= client[s].upload
        /\ client' = [client EXCEPT ![s].sent = @ + 1, ![s].upload = @ - n]
        /\ UNCHANGED <<asked, replies, budgeted, h2, bridge, engine>>

ResetStream(s) ==
    /\ s \in H2Open /\ h2 # "lost"
    /\ client' = [client EXCEPT ![s].reset = TRUE]
    /\ UNCHANGED <<asked, replies, budgeted, h2, bridge, engine>>

GrantWindow(s) ==
    /\ s \in H2Open /\ h2 # "lost" /\ client[s].window < MaxWindow
    /\ client' = [client EXCEPT ![s].window = @ + 1]
    /\ UNCHANGED <<asked, replies, budgeted, h2, bridge, engine>>

\* The client vanishes, or ClientStream fails its writes.
LoseConnection ==
    /\ h2 # "lost" /\ h2' = "lost"
    /\ UNCHANGED <<asked, replies, budgeted, client, bridge, engine>>

-----------------------------------------------------------------------------
(* serve. *)

\* graceful_shutdown: the client opens no stream, those open finish.
DrainH2 ==
    /\ h2 = "open" /\ h2' = "draining"
    /\ UNCHANGED <<asked, replies, budgeted, client, bridge, engine>>

\* accept spawns the task; a head that h1 cannot express is answered at once.
AcceptStream(s) ==
    /\ bridge[s].pc = "opened" /\ h2 # "lost"
    /\ IF asked[s].expressible THEN bridge' = [bridge EXCEPT ![s].pc = "acquire"] /\ UNCHANGED client
       ELSE /\ bridge' = [bridge EXCEPT ![s].pc = "end"]
            /\ client' = [client EXCEPT ![s].head = TRUE, ![s].end = IF client[s].reset THEN "no" ELSE "refused"]
    /\ UNCHANGED <<asked, replies, budgeted, h2, engine>>

DropUnaccepted(s) ==
    /\ bridge[s].pc = "opened" /\ h2 = "lost" /\ bridge' = [bridge EXCEPT ![s].pc = "end"]
    /\ UNCHANGED <<asked, replies, budgeted, h2, client, engine>>

\* A permit of "engines": held until the engine is done or dropped, not until
\* h2 frees the slot.
HoldersByH2 == Slots \cap H2Open
Holders     == Slots
Acquire(s) ==
    /\ bridge[s].pc = "acquire" /\ Cardinality(Holders) < MaxStreams
    /\ bridge' = [bridge EXCEPT ![s].pc = "head", ![s].rest = <<"head">>]
    /\ engine' = [engine EXCEPT ![s].st = "run"]
    /\ UNCHANGED <<asked, replies, budgeted, h2, client>>

-----------------------------------------------------------------------------
(* The request, into the pipe. *)

Units(n)  == [i \in 1 .. n |-> "unit"]
Opens(n)  == IF n = 0 THEN "last" ELSE "chunk"                   \* the size line of a chunk
Reframed(s, n) == IF ChunkBody(asked[s]) THEN <<Opens(n)>> \o Units(n) ELSE Units(n)

\* pump_request_body: a frame of no bytes is skipped, for as a chunk it would
\* end the body.
TakeEveryFrame(s, n) == [bridge[s] EXCEPT !.taken = @ + 1, !.pc = "put", !.size = n, !.rest = Reframed(s, n)]
TakeFrame(s, n) ==
    IF n = 0 THEN [bridge[s] EXCEPT !.taken = @ + 1]
    ELSE [bridge[s] EXCEPT !.taken = @ + 1, !.pc = "put", !.size = n, !.rest = Reframed(s, n)]
CanPump(s) == bridge[s].pc = "pump" /\ (bridge[s].taken < client[s].sent \/ AllSent(s))
Pump(s) ==
    /\ CanPump(s)
    /\ bridge' = [bridge EXCEPT ![s] =
           IF @.taken < client[s].sent THEN TakeFrame(s, asked[s].frames[@.taken + 1])
           ELSE IF ChunkBody(asked[s]) THEN [@ EXCEPT !.pc = "last", !.rest = <<"last">>]
           ELSE [@ EXCEPT !.pc = "await"]]
    /\ UNCHANGED <<asked, replies, budgeted, h2, client, engine>>

\* write_all: the window goes back once all of a frame is in the pipe, or the
\* engine has closed its half, which ends the writing: its answer is read.
AfterPut(pc) == IF pc = "last" THEN "await" ELSE "pump"
NoRelease(s) == UNCHANGED client
Release(s) == client' = [client EXCEPT ![s].upload = @ + bridge[s].size]
CanPut(s) ==
    /\ bridge[s].pc \in {"head", "put", "last"}
    /\ ~EngineRuns(s) \/ Len(engine[s].in) < PipeRoom
Put(s) ==
    /\ CanPut(s)
    /\ LET broken == ~EngineRuns(s)
           whole  == Len(bridge[s].rest) = 1
       IN  /\ bridge' = [bridge EXCEPT ![s] =
                  IF broken THEN [@ EXCEPT !.pc = "await", !.rest = <<>>, !.size = 0]
                  ELSE IF whole THEN [@ EXCEPT !.pc = AfterPut(bridge[s].pc), !.rest = <<>>, !.size = 0]
                  ELSE [@ EXCEPT !.rest = Tail(bridge[s].rest)]]
           /\ engine' = IF broken THEN engine ELSE [engine EXCEPT ![s].in = Append(@, bridge[s].rest[1])]
           /\ IF (broken \/ whole) /\ bridge[s].pc = "put" THEN Release(s) ELSE UNCHANGED client
    /\ UNCHANGED <<asked, replies, budgeted, h2>>

-----------------------------------------------------------------------------
(* The answer, out of it. *)

\* The bridge fails: its half of the pipe goes, the stream is reset, and the
\* engine is dropped with its backend exchange.
FailStream(s) ==
    /\ bridge' = [bridge EXCEPT ![s].pc = "end", ![s].rest = <<>>, ![s].acc = <<>>]
    /\ engine' = [engine EXCEPT ![s].st = IF @ = "none" THEN @ ELSE "gone", ![s].in = <<>>, ![s].out = <<>>]
    /\ client' = [client EXCEPT ![s].end = IF Departed(s) THEN @ ELSE "reset"]

Ended(s)  == engine[s].out = <<>> /\ ~EngineRuns(s)              \* the pipe is at its end

\* A read takes any part of what the pipe holds.
CanReadHead(s) == bridge[s].pc = "await" /\ (engine[s].out # <<>> \/ Ended(s))
ReadHead(s) ==
    /\ CanReadHead(s)
    /\ LET r == engine[s].reply
       IN  IF engine[s].out = <<>> \/ r.framing = "malformed" THEN FailStream(s)
           ELSE \E k \in DOMAIN engine[s].out :
                  LET acc  == SubSeq(engine[s].out, 2, k)
                      none == asked[s].isHead \/ r.framing = "none" \/ (r.framing = "length" /\ r.size = 0)
                  IN  /\ bridge' = [bridge EXCEPT ![s].pc = IF none THEN "wind" ELSE "send", ![s].acc = acc]
                      /\ engine' = [engine EXCEPT ![s].out = SubSeq(@, k + 1, Len(@))]
                      /\ client' = [client EXCEPT ![s].head = TRUE,
                                                  ![s].end = IF none /\ ~Departed(s) THEN "whole" ELSE @]
    /\ UNCHANGED <<asked, replies, budgeted, h2>>

\* send_data, a unit of the window at a time.  END_STREAM goes with the last
\* unit where the framing tells it is the last.
LastOf(s) ==
    \/ engine[s].reply.framing = "length" /\ bridge[s].got + 1 = engine[s].reply.size
    \/ engine[s].reply.framing = "chunked" /\ bridge[s].acc = <<"unit", "last">>
Comes(s)   == IF bridge[s].acc = <<>> THEN "nothing" ELSE bridge[s].acc[1]
CanSend(s) == bridge[s].pc = "send" /\ (Comes(s) # "unit" \/ client[s].window > 0 \/ Departed(s))
Send(s) ==
    /\ CanSend(s)
    /\ LET next == Comes(s)
       IN  IF next = "nothing" THEN bridge' = [bridge EXCEPT ![s].pc = "read"] /\ UNCHANGED <<client, engine>>
           ELSE IF next = "chunk" THEN bridge' = [bridge EXCEPT ![s].acc = Tail(@)] /\ UNCHANGED <<client, engine>>
           ELSE IF Departed(s) THEN FailStream(s)
           ELSE IF next = "last"
           THEN /\ bridge' = [bridge EXCEPT ![s].pc = "wind", ![s].acc = <<>>]
                /\ client' = [client EXCEPT ![s].end = "whole"] /\ UNCHANGED engine
           ELSE /\ bridge' = [bridge EXCEPT ![s].acc = IF LastOf(s) THEN <<>> ELSE Tail(@), ![s].got = @ + 1,
                                            ![s].pc = IF LastOf(s) THEN "wind" ELSE @]
                /\ client' = [client EXCEPT ![s].units = @ + 1, ![s].window = @ - 1,
                                            ![s].end = IF LastOf(s) THEN "whole" ELSE @]
                /\ UNCHANGED engine
    /\ UNCHANGED <<asked, replies, budgeted, h2>>

\* read_body: the end of the pipe ends a body framed by it, unless the engine
\* says it cut the body; it truncates every other.
CutLooksWhole(s) == engine[s].reply.framing = "close"
EndIsWhole(s) == engine[s].reply.framing = "close" /\ ~engine[s].aborted
CanReadBody(s) == bridge[s].pc = "read" /\ (engine[s].out # <<>> \/ Ended(s))
ReadBody(s) ==
    /\ CanReadBody(s)
    /\ IF engine[s].out # <<>>
       THEN \E k \in DOMAIN engine[s].out :
              /\ bridge' = [bridge EXCEPT ![s].pc = "send", ![s].acc = SubSeq(engine[s].out, 1, k)]
              /\ engine' = [engine EXCEPT ![s].out = SubSeq(@, k + 1, Len(@))] /\ UNCHANGED client
       ELSE IF EndIsWhole(s) /\ ~Departed(s)
       THEN /\ bridge' = [bridge EXCEPT ![s].pc = "wind"]
            /\ client' = [client EXCEPT ![s].end = "whole"] /\ UNCHANGED engine
       ELSE FailStream(s)
    /\ UNCHANGED <<asked, replies, budgeted, h2>>

\* A delivered answer lets the engine wind down; then the permit goes back.
WindDown(s) ==
    /\ bridge[s].pc = "wind" /\ ~EngineRuns(s)
    /\ bridge' = [bridge EXCEPT ![s].pc = "end"]
    /\ UNCHANGED <<asked, replies, budgeted, h2, client, engine>>

\* unless_reset: polled where the awaited future is pending.
Watched == {"acquire", "head", "pump", "put", "last", "await", "read"}
Ready(s) == CanPump(s) \/ CanPut(s) \/ CanReadHead(s) \/ CanReadBody(s)
            \/ (bridge[s].pc = "acquire" /\ Cardinality(Holders) < MaxStreams)
NoticeReset(s) ==
    /\ bridge[s].pc \in Watched /\ Departed(s) /\ ~Ready(s) /\ FailStream(s)
    /\ UNCHANGED <<asked, replies, budgeted, h2>>

\* progress: where the bridge waits on the client, or on the body.
TimesOut(s) ==
    budgeted /\ ~Departed(s) /\ ~Ready(s) /\ (bridge[s].pc \in {"pump", "read"} \/ (bridge[s].pc = "send" /\ ~CanSend(s)))
BridgeTimeout(s) ==
    /\ TimesOut(s) /\ FailStream(s)
    /\ UNCHANGED <<asked, replies, budgeted, h2>>

-----------------------------------------------------------------------------
(* The engine, external to this module. *)

CanEngineRead(s) == engine[s].st = "run" /\ engine[s].in # <<>>
EngineRead(s) ==
    /\ CanEngineRead(s)
    /\ engine' = [engine EXCEPT ![s].in = Tail(@),
                     ![s].head = TRUE, ![s].units = @ + IF engine[s].in[1] = "unit" THEN 1 ELSE 0,
                     ![s].ended = @ \/ engine[s].in[1] = "last"]
    /\ UNCHANGED <<asked, replies, budgeted, h2, client, bridge>>

ChunkUnits(n) == [i \in 1 .. 2 * n + 1 |-> IF i = 2 * n + 1 THEN "last" ELSE IF i % 2 = 1 THEN "chunk" ELSE "unit"]
HeadOnly(q, r) == q.isHead \/ r.framing = "none"
Pieces(q, r) ==
    <<"head">> \o (IF HeadOnly(q, r) THEN <<>> ELSE IF r.framing = "chunked" THEN ChunkUnits(r.size) ELSE Units(r.size))

\* It reads no more of the request once it answers.
EngineAnswer(s) ==
    /\ engine[s].st = "run" /\ engine[s].head
    /\ \E r \in replies : engine' = [engine EXCEPT ![s].st = "answer", ![s].reply = r, ![s].left = Pieces(asked[s], r)]
    /\ UNCHANGED <<asked, replies, budgeted, h2, client, bridge>>

\* It closes its half after the last piece, or when the bridge's is gone.
CanEngineWrite(s) ==
    engine[s].st = "answer" /\ (Len(engine[s].out) < PipeRoom \/ bridge[s].pc = "wind")
EngineWrite(s) ==
    /\ CanEngineWrite(s)
    /\ engine' = [engine EXCEPT ![s] =
           IF bridge[s].pc = "wind" THEN [@ EXCEPT !.st = "gone"]
           ELSE [@ EXCEPT !.out = Append(engine[s].out, Head(engine[s].left)), !.left = Tail(engine[s].left),
                          !.st = IF Len(engine[s].left) = 1 THEN "gone" ELSE "answer"]]
    /\ UNCHANGED <<asked, replies, budgeted, h2, client, bridge>>

\* reset_on_drop: cut after the head went out.
EngineCut(s) ==
    /\ engine[s].st = "answer" /\ Len(engine[s].left) < Len(Pieces(asked[s], engine[s].reply))
    /\ engine' = [engine EXCEPT ![s].st = "gone", ![s].aborted = TRUE]
    /\ UNCHANGED <<asked, replies, budgeted, h2, client, bridge>>

EngineQuit(s) ==
    /\ engine[s].st = "run" /\ engine' = [engine EXCEPT ![s].st = "gone"]
    /\ UNCHANGED <<asked, replies, budgeted, h2, client, bridge>>

-----------------------------------------------------------------------------
BridgeInit ==
    \E w \in BridgeWorlds :
        /\ asked = w.asked /\ replies = w.replies /\ budgeted = w.budgeted /\ h2 = "open"
        /\ client = [s \in DOMAIN w.asked |-> NewClient] /\ bridge = [s \in DOMAIN w.asked |-> NewBridge]
        /\ engine = [s \in DOMAIN w.asked |-> NewEngine]

BridgeNext ==
    \/ LoseConnection \/ DrainH2
    \/ \E s \in H2Stream :
          \/ OpenStream(s) \/ SendFrame(s) \/ ResetStream(s) \/ GrantWindow(s)
          \/ AcceptStream(s) \/ DropUnaccepted(s) \/ Acquire(s) \/ Pump(s) \/ Put(s)
          \/ ReadHead(s) \/ Send(s) \/ ReadBody(s) \/ WindDown(s) \/ NoticeReset(s) \/ BridgeTimeout(s)
          \/ EngineRead(s) \/ EngineAnswer(s) \/ EngineWrite(s) \/ EngineCut(s) \/ EngineQuit(s)

BridgeSpec == BridgeInit /\ [][BridgeNext]_bridgeVars

-----------------------------------------------------------------------------
(* Properties. *)

\* What the engine reads as a whole request is the whole of it.
RequestWhole(s) ==
    ChunkBody(asked[s]) /\ engine[s].ended => AllSent(s) /\ engine[s].units = UnitsOf(asked[s])

\* What ends without a reset is the whole answer.
AnswerWhole(s) ==
    client[s].end = "whole" =>
        /\ ~(engine[s].aborted /\ engine[s].left # <<>>)
        /\ client[s].units = IF HeadOnly(asked[s], engine[s].reply) THEN 0 ELSE engine[s].reply.size

\* No step of the bridge or the pipe is left: then the stream is over and its
\* engine with it, or its client owes it DATA or window and is still there, or
\* the engine has yet to decide.  Without a budget there is one more case: an
\* early answer that does not fit the pipe, against a body that does not.
Stopped(s) ==
    /\ ~Ready(s) /\ ~CanSend(s) /\ ~CanEngineRead(s) /\ ~CanEngineWrite(s) /\ ~TimesOut(s)
    /\ ~(bridge[s].pc \in Watched /\ Departed(s)) /\ ~(bridge[s].pc = "wind" /\ ~EngineRuns(s))
    /\ ~(budgeted /\ engine[s].st = "answer")                  \* its writes have the same budget
    /\ bridge[s].pc \notin {"none", "opened"}
EveryoneWaits(s) ==
    /\ bridge[s].pc \in {"put", "last"} /\ engine[s].st = "answer" /\ engine[s].left # <<>>
    /\ Len(engine[s].in) = PipeRoom /\ Len(engine[s].out) = PipeRoom
WaitsOnClient(s) ==
    \/ bridge[s].pc = "pump" /\ ~AllSent(s) /\ asked[s].frames[client[s].sent + 1] <= client[s].upload
    \/ bridge[s].pc = "send" /\ client[s].window = 0
Rests(s) ==
    Stopped(s) =>
        \/ bridge[s].pc = "end" /\ ~EngineRuns(s)
        \/ ~Departed(s) /\ (WaitsOnClient(s) \/ engine[s].st = "run" \/ EveryoneWaits(s))
        \/ bridge[s].pc = "acquire" /\ \E t \in Slots : ~Stopped(t) \/ ~Departed(t)

\* A request reaches the engine whole or not as a whole one; an answer that
\* the engine cut, or that was truncated on the way, never ends as a complete
\* one; no more engines run than streams are allowed, whatever the client
\* resets; and at every point where a stream can wait, a client that left, an
\* engine that closed or a spent budget gets it going, down to the permit.
BridgeHolds ==
    /\ \A s \in H2Stream : RequestWhole(s) /\ AnswerWhole(s) /\ Rests(s)
    /\ Cardinality({s \in H2Stream : EngineRuns(s)}) <= MaxStreams
=============================================================================
