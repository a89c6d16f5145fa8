---------------------------- MODULE StreamCodecs ----------------------------
(***************************************************************************)
(* Streams that TCP cuts into segments as it likes, and their readers:     *)
(*   frames    a channel of WebSocket frames and the frame parser;         *)
(*   response  what a local service answers. The client reads it, looks    *)
(*             for its end and sends it on behind the preamble of the data *)
(*             socket, where it is cut anew; the server relays it;         *)
(*   request   what the server sends to the local service, past the        *)
(*             rewriting of the Host header.                               *)
(* The stream is chosen at the start and never changes; near counts the    *)
(* bytes its first reader has got, far those of the second.                *)
(***************************************************************************)
EXTENDS WsFraming, HttpStreams

CONSTANTS FrameStreams, ResponseStreams, RequestStreams

VARIABLES
  stream,   \* what is sent
  near,     \* bytes the first reader has got
  first,    \* state of the frame parser, of the client's detector or of the transformer
  request,  \* what the client knows of the request that the response answers
  far,      \* bytes of the data socket the server has got
  second,   \* state of the server's relay
  local     \* the local service's socket: "open", "closed", or "seen" closed by the server

vars == <<stream, near, first, request, far, second, local>>

-----------------------------------------------------------------------------
(* What may be sent.                                                       *)

Encode(encoder, message, key) ==
  CASE encoder = "server" -> EncodeFrame(message.opcode, message.data, <<>>)
    [] encoder = "client" -> EncodeFrame(message.opcode, message.data, key)
    [] encoder = "replay" -> ReplayFrame(message.opcode, message.data, key)

\* The bytes of the first n messages
Encoded(encoder, key, messages) ==
  LET encoded[n \in 0..Len(messages)] ==
        IF n = 0 THEN <<>> ELSE encoded[n - 1] \o Encode(encoder, messages[n], key)
  IN  encoded

\* Whole frames, then a faulty one and whatever follows it, or nothing
Frames(encoder, key, messages, fault) ==
  [kind |-> "frames", encoder |-> encoder, key |-> key, messages |-> messages, fault |-> fault,
   bytes |-> Encoded(encoder, key, messages)[Len(messages)] \o fault]

HeadSaying(status, length, chunked, forHead) ==
  [status |-> status, switches |-> FALSE, length |-> length, chunked |-> chunked,
   forHead |-> forHead]

HeadBytes == <<"HTTP/1.1">> \o HeaderEnd

\* The bytes and the data of the first n chunks
ChunkBytes(chunks) ==
  LET encoded[n \in 0..Len(chunks)] ==
        IF n = 0 THEN <<>> ELSE encoded[n - 1] \o EncodeChunk(chunks[n])
  IN  encoded

ChunkData(chunks) ==
  LET data[n \in 0..Len(chunks)] == IF n = 0 THEN <<>> ELSE data[n - 1] \o chunks[n].data
  IN  data

\* A body in chunks with an end, or a plain one that is all of rest. pair: upgrade, the request
\* names websocket; inspected, the client captures; early, whoever answers does not wait for the
\* request
Response(preamble, pair, head, chunks, rest) ==
  [kind |-> "response", preamble |-> preamble, pair |-> pair, head |-> head, chunks |-> chunks,
   rest |-> rest,
   body |-> IF head.chunked THEN ChunkData(chunks)[Len(chunks)] ELSE rest,
   bytes |-> HeadBytes \o ChunkBytes(chunks)[Len(chunks)] \o rest]

\* A request that goes to the local service
Request(before, host, after) ==
  [kind |-> "request", before |-> before, host |-> host, after |-> after,
   bytes |-> before \o <<"host:">> \o host \o after]

PairId == "pair"

IsSequence(s) == Len(s) \in Nat /\ s = [i \in 1..Len(s) |-> s[i]]

DataOpcodes == {Opcodes[name] : name \in DOMAIN Opcodes} \ {Opcodes.CONT}

\* A channel of frames whose lengths 32 bits can tell; behind them there is nothing, or first a
\* frame that the parser does not support.
FrameStream(s) ==
  /\ s = Frames(s.encoder, s.key, s.messages, s.fault)
  /\ s.encoder \in {"server", "client", "replay"}
  /\ s.key \in [1..4 -> {0, 1}]
  /\ s.messages \in Seq([opcode : DataOpcodes, data : Seq({0, 1})])
  /\ \A i \in DOMAIN s.messages : Len(s.messages[i].data) < Base4
  /\ IsSequence(s.fault)
  /\ s.fault # <<>> => TooLarge(s.fault) \/ (HasFrame(s.fault) /\ Fragmented(s.fault))

\* The body of a well-formed answer has the form that its head says: nothing, chunks whose lines
\* tell their lengths and a line that says 0, or the bytes that were announced. What is not an
\* answer of the pair opens with another line.
ResponseStream(s) ==
  /\ s = Response(s.preamble, s.pair, s.head, s.chunks, s.rest)
  /\ s.pair \in [upgrade : BOOLEAN, inspected : BOOLEAN, early : BOOLEAN]
  /\ s.head \in [status : {"interim", "empty", "final"}, switches : BOOLEAN,
                 length : Nat \cup {-1}, chunked : BOOLEAN, forHead : BOOLEAN]
  /\ s.head.switches => s.head.status = "interim"
  /\ s.preamble \in Seq(STRING) /\ s.rest \in Seq(STRING)
  /\ s.chunks \in Seq([line : Seq(STRING), data : Seq(STRING)])
  /\ ~s.head.chunked => s.chunks = <<>>
  /\ s.head.status = "empty" \/ s.head.forHead => s.chunks = <<>> /\ s.rest = <<>>
  /\ s.head.status = "final" /\ ~s.head.forHead /\ s.head.chunked =>
       /\ s.head.length = -1
       /\ \A i \in DOMAIN s.chunks : LET chunk == s.chunks[i] IN
            /\ ParseSize(chunk.line) = Len(chunk.data) /\ chunk.data # <<>>
            /\ Find(chunk.line \o CRLF, CRLF) = Len(chunk.line) + 1
       /\ Find(s.rest, CRLF) # 0
       /\ ParseSize(SubSeq(s.rest, 1, Find(s.rest, CRLF) - 1)) = 0
  /\ s.head.status = "final" /\ ~s.head.forHead /\ ~s.head.chunked /\ s.head.length # -1 =>
       Len(s.rest) = s.head.length
  /\ s.preamble # Preamble(PairId, "") =>
       \A n \in 0..Len(s.preamble) :
         SubSeq(s.preamble, 1, n) \notin {Preamble(PairId, ""), <<"TT/1 PAIR", PairId, "lf">>}

\* The first Host header is the one that counts; it has a value, which ends with its line.
RequestStream(s) ==
  /\ s = Request(s.before, s.host, s.after)
  /\ s.before \in Seq(STRING) /\ s.host \in Seq(STRING) /\ s.after \in Seq(STRING)
  /\ \A i \in DOMAIN s.before : s.before[i] # "host:"
  /\ s.host # <<>> /\ s.host[1] \notin {"cr", "lf"}
  /\ s.after # <<>> => s.after[1] \in {"cr", "lf"}

ASSUME StreamsAssumption ==
  /\ \A s \in FrameStreams : FrameStream(s)
  /\ \A s \in ResponseStreams : ResponseStream(s)
  /\ \A s \in RequestStreams : RequestStream(s)
  /\ DATA_PREAMBLE_MAX_BYTES >= Len(Preamble(PairId, ""))

OnDataSocket == stream.preamble \o SubSeq(stream.bytes, 1, near)

-----------------------------------------------------------------------------

Init ==
  /\ stream \in FrameStreams \cup ResponseStreams \cup RequestStreams
  /\ near = 0
  /\ first = CASE stream.kind = "frames" -> NewParser
               [] stream.kind = "response" -> NewDetector
               [] stream.kind = "request" -> NewTransformer
  /\ request = NewRequest
  /\ far = 0
  /\ second = NewRelay
  /\ local = "open"

Segment(bytes, from, n) == SubSeq(bytes, from + 1, from + n)

\* n more bytes reach the first reader.
Arrive(n) == near + n <= Len(stream.bytes) /\ near' = near + n

FramesArrive(n) ==
  /\ stream.kind = "frames"
  /\ Arrive(n)
  /\ first' = ParseSegment(first, Segment(stream.bytes, near, n))
  /\ UNCHANGED <<stream, request, far, second, local>>

\* The request is written when the preamble has been read.
RequestSent == second.phase # "preamble"

\* The data listener of the data socket has got the head of the request; one that is longer than
\* it collects is never known.
RequestCollected ==
  /\ stream.kind = "response" /\ RequestSent
  /\ request.head = "awaited" /\ ~request.dataEnded
  /\ request' = [request EXCEPT !.head = "collected", !.late = local # "open"]
  /\ UNCHANGED <<stream, near, first, far, second, local>>

\* The data listener of the local socket
LocalWrites(n) ==
  /\ stream.kind = "response" /\ local = "open"
  /\ stream.pair.early \/ RequestSent
  /\ Arrive(n)
  /\ first' = DetectSegment(first, Segment(stream.bytes, near, n))
  /\ request' = IF LooksComplete(first', stream.head) THEN EmitRequest(request) ELSE request
  /\ UNCHANGED <<stream, far, second, local>>

\* The close listener of the local socket; the answer may have been cut short.
LocalCloses ==
  /\ stream.kind = "response" /\ local = "open"
  /\ request' = LocalClosed(request, stream.pair)
  /\ local' = "closed"
  /\ UNCHANGED <<stream, near, first, far, second>>

\* The end listener of the client's data socket, before or after the local socket is closed
DataEnds ==
  /\ stream.kind = "response" /\ ~request.dataEnded
  /\ request' = DataEnded(request, stream.pair)
  /\ UNCHANGED <<stream, near, first, far, second, local>>

\* The data listener of the data socket
ServerReads(n) ==
  /\ stream.kind = "response"
  /\ far + n <= Len(OnDataSocket)
  /\ far' = far + n
  /\ second' = RelaySegment(second, stream.head, PairId, Segment(OnDataSocket, far, n))
  /\ UNCHANGED <<stream, near, first, request, local>>

\* The end of the data socket, behind all that was sent on it
ServerSeesEnd ==
  /\ local = "closed" /\ far = Len(OnDataSocket)
  /\ local' = "seen"
  /\ second' = End(second)
  /\ UNCHANGED <<stream, near, first, request, far>>

RequestArrives(n) ==
  /\ stream.kind = "request"
  /\ Arrive(n)
  /\ first' = TransformSegment(first, Segment(stream.bytes, near, n))
  /\ UNCHANGED <<stream, request, far, second, local>>

Next ==
  \/ \E n \in 1..(Len(stream.bytes) - near) :
        FramesArrive(n) \/ LocalWrites(n) \/ RequestArrives(n)
  \/ RequestCollected \/ LocalCloses \/ DataEnds
  \/ stream.kind = "response" /\ \E n \in 1..(Len(OnDataSocket) - far) : ServerReads(n)
  \/ ServerSeesEnd

Spec == Init /\ [][Next]_vars

-----------------------------------------------------------------------------
(* Properties.                                                             *)

Sent == near = Len(stream.bytes)

\* However a channel is cut, its parser delivers the frames that were sent, each once, whole and
\* in order; it fails at a frame it does not support and delivers nothing behind it. The parser
\* of captures finds the same frames in the bytes that have come.
FramesIntact ==
  stream.kind = "frames" =>
    /\ IsPrefix(first.frames, stream.messages)
    /\ Sent => first.frames = stream.messages /\ first.failed = (stream.fault # <<>>)
    /\ stream.fault = <<>> => CapturedFrames(SubSeq(stream.bytes, 1, near)) = first.frames

\* A well-formed answer on the data socket of a pair that waits for it, from a service that waits
\* for the request
Awaited ==
  /\ stream.kind = "response" /\ ~stream.pair.early
  /\ stream.preamble = Preamble(PairId, "")
  /\ stream.head.status # "interim"

\* However the answer is cut on its two ways, the external request gets the body the local
\* service sent: never a byte of the preamble, the head or the chunk sizes, nothing twice or
\* out of order; it is ended early only by the end of the data socket, and 502 is answered only
\* if not even the head has come.
BodyRelayed ==
  Awaited =>
    /\ IsPrefix(second.out, stream.body)
    /\ second.phase # "destroyed"
    /\ second.phase = "ended" /\ (local # "seen" \/ Sent) => second.out = stream.body
    /\ second.badGateway => local = "seen" /\ near < Len(HeadBytes)

\* The relay can notice the end of the answer without the end of the socket. The end of a body of
\* announced length 0 is told but not noticed: no byte comes behind the head that would show it.
Noticeable(head) == head.status # "final" \/ head.forHead \/ head.chunked \/ head.length > 0

\* An answer without a body by its status or method, in chunks, or of an announced length other
\* than 0 is ended as soon as all of it is there, whatever its last segment was; and any answer,
\* one of announced length 0 too, is ended with its socket.
ResponseEnds ==
  Awaited =>
    /\ Sent /\ far = Len(OnDataSocket) /\ Noticeable(stream.head) => second.phase = "ended"
    /\ local = "seen" => second.phase = "ended"

\* A socket that does not open with the preamble of a waiting pair never reaches an external
\* request.
ForeignSocketRefused ==
  stream.kind = "response" /\ stream.preamble # Preamble(PairId, "")
    => second.out = <<>> /\ second.phase \in {"preamble", "destroyed"}

\* An answer reaches the external request whole, ends when it should, and comes from the pair
\* that the request waits for.
AnswerRelayed == BodyRelayed /\ ResponseEnds /\ ForeignSocketRefused

Terminator == CRLF \o <<"0">> \o HeaderEnd

\* The data of the answer look like the end of a chunked body.
LooksEnded == Find(SubSeq(stream.bytes, 1, Len(stream.bytes) - 1), Terminator) # 0

\* What the client logs of a request, whatever the order in which its sockets end. One that names
\* no websocket is logged at most once; one that does at most twice, and while its local socket is
\* open once if it is answered by 101. One whose head has come before the local socket is closed
\* has been logged by then. A request that names no websocket is not logged before its answer has
\* gone by, unless the local socket is closed or the data of the answer look like its end.
LoggedOnce ==
  stream.kind = "response" =>
    /\ request.emitted <= IF stream.pair.upgrade /\ (local # "open" \/ ~stream.head.switches)
                            THEN 2 ELSE 1
    /\ local # "open" /\ request.head # "awaited" /\ ~request.late => request.emitted >= 1
    /\ /\ request.emitted = 1 /\ local = "open" /\ ~stream.pair.upgrade
       /\ stream.head.status # "interim" /\ ~LooksEnded
       => Sent

\* Of a request nothing but the value of its Host header is changed, however it is cut.
RequestIntact ==
  stream.kind = "request" =>
    /\ IsPrefix(SubSeq(stream.before, 1, Min({near, Len(stream.before)})), first.out)
    /\ Sent => IsSuffix(stream.after, first.out)

=============================================================================
