----------------------------- MODULE Inference -----------------------------
(***************************************************************************)
(* How main() gets the segmentation of a frame, and what it makes of it,   *)
(* with either engine: the SNPE library in its own process (loadModel,     *)
(* predictSnpe), or the DLR server over a stream socket (getFd, predictDlr *)
(* and the child that server.cpp forks for a connection).                  *)
(*                                                                         *)
(* The socket has no message boundaries: a frame ends for either side when *)
(* it has counted its bytes, and an answer of "no object" is told from a   *)
(* segmentation by its first float.  A unit stands for equally many bytes  *)
(* and carries the frame it belongs to.  Both sides wait for each other,   *)
(* and neither notices the end of the stream: recv returns 0, which adds   *)
(* nothing to the count, and is called again for ever, a stuttering step.  *)
(***************************************************************************)
EXTENDS Integers, FiniteSets, Sequences

CONSTANTS
    Laps,        \* laps of main() and frames a server child answers, 10 in both
    Chunk,       \* units send and recv are called for (NO_BYTES)
    FrameSize,   \* units of a frame
    AnswerSize,  \* units of a segmentation
    MarkSize     \* units of the float that says "no object"

ASSUME InferenceAssumption ==
    /\ {Laps, Chunk, FrameSize, AnswerSize, MarkSize} \subseteq Nat \ {0}
    /\ FrameSize % Chunk = 0 /\ AnswerSize % Chunk = 0 /\ MarkSize <= Chunk

VARIABLES
    engine,     \* modelChoice: "snpe" or "dlr"
    client,     \* main(): "start", "lap", "send", "recv", "predict" and "segment" in
                \* predictSnpe, "done", "exited" by exit() or a signal, or "crashed"
    lap,        \* laps begun
    sees,       \* what is in the current frame: "object" or "nothing"
    total,      \* total_send or total_recv of predictDlr
    opBuf,      \* the units of the answer
    runtime,    \* the static runtime of loadModel
    loaded,     \* the models loadModel built, of {1, 2}; the others are NULL
    verdict,    \* what main() made of the last answer: "forward" without a look
                \* at the depth image, or "look"
    parent,     \* server.cpp's main(): "starting", "listening" or "gone"
    server,     \* the child: "none", "recv", "infer", "send", "closed" or "dead"
    frames,     \* frames it has answered
    srvTotal,   \* its total_recv or total_send
    inp,        \* the units of the frame it has received
    reply,      \* what it sends: "seg" or "mark"
    up, down,   \* the bytes under way to the server and to the client
    short,      \* history: a send was cut short
    split,      \* history: the mark did not come in one piece
    failed      \* history: predictSnpe could not execute a model in this lap

snpeVars == <<runtime, loaded, failed>>
childVars == <<frames, srvTotal, inp, reply>>
serverVars == <<parent, server, childVars>>
socketVars == <<total, opBuf, up, down, short, split>>
inferenceVars == <<engine, client, lap, sees, verdict, snpeVars, serverVars, socketVars>>

InferenceInit ==
    /\ engine \in {"snpe", "dlr"} /\ client = "start" /\ lap = 0 /\ sees = "nothing"
    /\ total = 0 /\ opBuf = <<>> /\ runtime = "GPU" /\ loaded = {} /\ verdict = "none"
    /\ parent = "starting" /\ server = "none" /\ frames = 0 /\ srvTotal = 0 /\ inp = <<>>
    /\ reply = "none"
    /\ up = <<>> /\ down = <<>> /\ short = FALSE /\ split = FALSE /\ failed = FALSE

-----------------------------------------------------------------------------
(* The engines are set up.                                                 *)

\* A call of loadModel: NULL if the file, the container or the network is
\* bad.  A missing GPU leaves the static runtime at CPU for every later call.
LoadModel(i) ==
    /\ engine = "snpe" /\ client = "start" /\ lap = i - 1
    /\ \/ UNCHANGED <<runtime, loaded>>                  \* no such file
       \/ /\ runtime' \in {runtime, "CPU"}
          /\ loaded' \in {loaded, loaded \cup {i}}
    /\ IF i = 1 THEN lap' = 1 /\ UNCHANGED client ELSE lap' = 0 /\ client' = "lap"
    /\ UNCHANGED <<engine, sees, verdict, failed, serverVars, socketVars>>

\* The server loads its models, binds a socket and listens, or ends.
ServerStart ==
    /\ engine = "dlr" /\ parent = "starting" /\ parent' \in {"listening", "gone"}
    /\ UNCHANGED <<engine, client, lap, sees, verdict, snpeVars, server, childVars, socketVars>>

\* getFd: the server accepts and forks a child, or nobody answers, yet or ever,
\* and main() goes on with 1 or 2 as its socket: standard output or error.
GetFd ==
    /\ engine = "dlr" /\ client = "start" /\ client' = "lap"
    /\ server' \in IF parent = "listening" THEN {"recv", "none"} ELSE {"none"}
    /\ UNCHANGED <<engine, lap, sees, verdict, snpeVars, parent, childVars, socketVars>>

\* main() takes the next frame.
NextLap ==
    /\ client = "lap" /\ lap < Laps /\ lap' = lap + 1
    /\ sees' \in {"object", "nothing"}
    /\ client' = IF engine = "snpe" THEN "predict" ELSE "send"
    /\ total' = 0 /\ opBuf' = <<>> /\ failed' = FALSE
    /\ UNCHANGED <<engine, verdict, runtime, loaded, serverVars, up, down, short, split>>

LastLap ==
    /\ client = "lap" /\ lap = Laps /\ client' = "done"
    /\ UNCHANGED <<engine, lap, sees, verdict, snpeVars, serverVars, socketVars>>

-----------------------------------------------------------------------------
(* predictSnpe.  Its input and output buffers are built anew for each call *)
(* and each network; a network without names or attributes throws.         *)

Judge(made) == verdict' = made /\ client' = "lap"

\* A NULL model is dereferenced, or the buffer maps cannot be built.
SnpeCrash ==
    /\ \/ client = "predict"
       \/ client = "segment"
    /\ client' = "crashed"
    /\ UNCHANGED <<engine, lap, sees, verdict, snpeVars, serverVars, socketVars>>

\* An empty buffer is returned; main() takes it for "no object".
SnpeFails ==
    /\ \/ client = "predict" /\ 1 \in loaded
       \/ client = "segment" /\ 2 \in loaded
    /\ failed' = TRUE /\ Judge("forward")
    /\ UNCHANGED <<engine, lap, sees, runtime, loaded, serverVars, socketVars>>

\* Mutant: the class is compared the wrong way round.
ClassifyInverted ==
    /\ client = "predict" /\ 1 \in loaded
    /\ IF sees = "object" THEN Judge("forward") ELSE client' = "segment" /\ UNCHANGED verdict
    /\ UNCHANGED <<engine, lap, sees, snpeVars, serverVars, socketVars>>

\* Class 4 is "no object", for which an empty buffer is returned too.
Classify ==
    /\ client = "predict" /\ 1 \in loaded
    /\ IF sees = "nothing" THEN Judge("forward") ELSE client' = "segment" /\ UNCHANGED verdict
    /\ UNCHANGED <<engine, lap, sees, snpeVars, serverVars, socketVars>>

Segment ==
    /\ client = "segment" /\ 2 \in loaded /\ Judge("look")
    /\ UNCHANGED <<engine, lap, sees, snpeVars, serverVars, socketVars>>

PredictSnpe == SnpeCrash \/ SnpeFails \/ Classify \/ Segment

-----------------------------------------------------------------------------
(* predictDlr                                                              *)

\* The socket does not work: it is none, or the server has gone.
Unconnected == server \in {"none", "closed", "dead"}

\* send fails or raises SIGPIPE, or recv fails because the server left with
\* bytes it had not read.  The end of the stream is no failure for recv.
SocketFails ==
    /\ Unconnected
    /\ client = "send" \/ (client = "recv" /\ up # <<>>)
    /\ client' = "exited"
    /\ UNCHANGED <<engine, lap, sees, verdict, snpeVars, serverVars, socketVars>>

\* send takes n units from where the last one ended; a send that was cut short
\* makes a later one run past the end of ipBuf.
SendFrame(n) ==
    /\ client = "send" /\ ~Unconnected
    /\ up' = up \o [i \in 1 .. n |-> IF total + i <= FrameSize THEN lap ELSE 0]
    /\ short' = (short \/ n < Chunk)
    /\ IF total + n >= FrameSize THEN client' = "recv" /\ total' = 0
                                 ELSE total' = total + n /\ UNCHANGED client
    /\ UNCHANGED <<engine, lap, sees, verdict, snpeVars, serverVars, opBuf, down, split>>

Mark(units) == \A i \in 1 .. MarkSize : i <= Len(units) /\ units[i][1] = "mark"

\* Mutant: the first float is looked at after every recv.
IsMarkAlways(units) == total + Len(units) >= MarkSize

\* opBuf[0] is looked at after the first recv only.
IsMark(units) == total = 0 /\ Mark(units)

\* recv takes n units; the answer is complete when enough have come.
RecvAnswer(n) ==
    /\ client = "recv" /\ n <= Len(down)
    /\ LET units == SubSeq(down, 1, n)
       IN /\ opBuf' = opBuf \o units
          /\ down' = SubSeq(down, n + 1, Len(down))
          /\ split' = (split \/ (total = 0 /\ units[1][1] = "mark" /\ n < MarkSize))
          /\ IF IsMark(units) THEN Judge("forward") /\ UNCHANGED total
             ELSE /\ total' = total + n
                  /\ IF total + n >= AnswerSize THEN Judge("look")
                                                ELSE UNCHANGED <<client, verdict>>
    /\ UNCHANGED <<engine, lap, sees, snpeVars, serverVars, up, short>>

\* The process of main() ends in the middle of its work: the handler of a signal
\* exits, or the kernel ends it.  What it has sent is still delivered.
ClientLeaves ==
    /\ client \notin {"done", "exited", "crashed"} /\ client' = "exited"
    /\ UNCHANGED <<engine, lap, sees, verdict, snpeVars, serverVars, socketVars>>

PredictDlr ==
    \/ SocketFails
    \/ \E n \in 1 .. Chunk : SendFrame(n) \/ RecvAnswer(n)

-----------------------------------------------------------------------------
(* The child of the server.  Of a client that has left it hears only if an *)
(* answer, or a part of one, was not read.                                 *)

Left == client \in {"exited", "crashed"}

\* send fails or raises SIGPIPE, or recv fails because the client left with
\* bytes it had not read.
ChildFails ==
    /\ Left
    /\ server = "send" \/ (server = "recv" /\ down # <<>>)
    /\ server' = "dead"
    /\ UNCHANGED <<engine, client, lap, sees, verdict, snpeVars, parent, childVars, socketVars>>

\* Frames that were sent are received although the client has left since.
ServerRecv(n) ==
    /\ server = "recv" /\ n <= Len(up)
    /\ inp' = inp \o SubSeq(up, 1, n)
    /\ up' = SubSeq(up, n + 1, Len(up))
    /\ IF srvTotal + n >= FrameSize THEN server' = "infer" /\ srvTotal' = 0
                                    ELSE srvTotal' = srvTotal + n /\ UNCHANGED server
    /\ UNCHANGED <<engine, client, lap, sees, verdict, snpeVars, parent, frames, reply, total,
                   opBuf, down, short, split>>

\* Is inp the frame the client has sent last?
InpIsFrame == inp = [i \in 1 .. FrameSize |-> lap]

\* The classification, and for an object the segmentation; of a frame that is
\* not one frame's units they say anything.
Infer ==
    /\ server = "infer" /\ server' = "send"
    /\ reply' \in IF InpIsFrame THEN {IF sees = "object" THEN "seg" ELSE "mark"}
                                ELSE {"seg", "mark"}
    /\ UNCHANGED <<engine, client, lap, sees, verdict, snpeVars, parent, frames, srvTotal, inp,
                   socketVars>>

\* RunInference throws, which ends the child.
InferThrows ==
    /\ server = "infer" /\ server' = "dead"
    /\ UNCHANGED <<engine, client, lap, sees, verdict, snpeVars, parent, frames, srvTotal, inp,
                   reply, socketVars>>

\* Mutant: the child answers one frame more.
IsLastFrameOffByOne == frames = Laps

IsLastFrame == frames + 1 = Laps

\* The answer has been sent: the child takes the next frame, or ends.
Answered ==
    /\ frames' = frames + 1 /\ srvTotal' = 0 /\ inp' = <<>>
    /\ server' = IF IsLastFrame THEN "closed" ELSE "recv"

ServerSend(n) ==
    /\ server = "send"
    /\ IF reply = "mark"
       THEN /\ n = MarkSize /\ down' = down \o [i \in 1 .. n |-> <<"mark", frames + 1>>]
            /\ Answered /\ UNCHANGED short
       ELSE /\ down' = down \o [i \in 1 .. n |-> <<"seg", frames + 1>>]
            /\ short' = (short \/ n < Chunk)
            /\ IF srvTotal + n >= AnswerSize THEN Answered
               ELSE srvTotal' = srvTotal + n /\ UNCHANGED <<frames, inp, server>>
    /\ UNCHANGED <<engine, client, lap, sees, verdict, snpeVars, parent, reply, total, opBuf, up,
                   split>>

ServerNext ==
    \/ ServerStart
    \/ \E n \in 1 .. Chunk : ServerRecv(n) \/ ServerSend(n)
    \/ Infer
    \/ InferThrows
    \/ ChildFails

-----------------------------------------------------------------------------

MainNext ==
    \/ \E i \in {1, 2} : LoadModel(i)
    \/ GetFd \/ NextLap \/ LastLap \/ PredictSnpe \/ PredictDlr

InferenceNext == MainNext \/ ClientLeaves \/ ServerNext

\* Two processes that run on, unless the client is ended; what they wait for the
\* other one owes.
InferenceFairness == WF_inferenceVars(MainNext) /\ WF_inferenceVars(ServerNext)

-----------------------------------------------------------------------------
(* Properties.                                                             *)

\* The type of every variable of the inference.
InferenceTypeOK ==
    /\ client \in {"start", "lap", "send", "recv", "predict", "segment", "done", "exited",
                   "crashed"}
    /\ parent \in {"starting", "listening", "gone"}
    /\ server \in {"none", "recv", "infer", "send", "closed", "dead"}
    /\ lap \in 0 .. Laps /\ frames \in 0 .. Laps /\ total \in 0 .. FrameSize + AnswerSize
    /\ srvTotal \in 0 .. FrameSize + AnswerSize /\ loaded \subseteq {1, 2}
    /\ runtime \in {"GPU", "CPU"} /\ verdict \in {"none", "forward", "look"}
    /\ up \in Seq(0 .. Laps) /\ \A i \in DOMAIN down : down[i][1] \in {"seg", "mark"}

\* Client and server agree where every frame and answer ends although the
\* socket carries no boundaries: what the server infers from is one frame, what
\* the client acts on is the answer to it, and nothing runs past a buffer.
\* Only a send that was cut short breaks this, as the next ones start off the
\* chunk boundary and send what lies behind the buffer.
FramesAligned ==
    ~short =>
        /\ server \in {"infer", "send"} /\ inp # <<>> => InpIsFrame
        /\ Len(opBuf) <= AnswerSize /\ Len(inp) <= FrameSize
        /\ \A i \in DOMAIN opBuf : opBuf[i][2] = lap

\* main() sends the bot forward without looking at the depth image only if the
\* frame shows no object, or one of the models could not be executed: an empty
\* answer of predictSnpe does not tell the two apart.
ForwardIsKnown ==
    client = "lap" /\ verdict = "forward" /\ lap > 0 => sees = "nothing" \/ failed \/ short

\* The child waits for a client that is no more, and recv tells it so with a 0
\* that it takes for a number of bytes.
Orphaned == server = "recv" /\ Left

\* A connection is served to its end: the child answers as many frames as
\* main() has laps and closes, unless it throws or a call on the socket fails, a
\* send is cut short, the mark of "no object" comes in pieces, which the client
\* does not recognise, or the client leaves while the child waits for a frame:
\* then it stays in its loop for ever.
ServerFinishes ==
    server = "recv" ~> server \in {"closed", "dead"} \/ short \/ split \/ []Orphaned
=============================================================================
