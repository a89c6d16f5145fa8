---------------------------- MODULE HttpStreams -----------------------------
(***************************************************************************)
(* What reads an HTTP message out of a stream of segments: the decoder of  *)
(* chunked bodies, the relay of a response and the opening line of a data  *)
(* socket on the server (server/tunnel.js, server/tunnel-agent.js), and on *)
(* the client the search for the end of a response                         *)
(* (client/tunnel-cluster.js) and the rewriting of the Host header         *)
(* (client/header-host-transformer.js).                                    *)
(*                                                                         *)
(* A stream is a sequence of tokens: "cr" and "lf", the digits "0" and "1" *)
(* of a size (binary here, hexadecimal in the code), ";" before a chunk's  *)
(* extension, words, and bytes of data, which may look like any of them.   *)
(* What a header section says is a record, kept with the stream it starts. *)
(***************************************************************************)
EXTENDS Integers, Sequences, SequencesExt

CONSTANTS
  DATA_PREAMBLE_MAX_BYTES,
  MaxCollect   \* maxCollect: the bytes after which the client stops collecting a response

ASSUME HttpAssumption == DATA_PREAMBLE_MAX_BYTES \in Nat /\ MaxCollect \in Nat \ {0}

CRLF == <<"cr", "lf">>
HeaderEnd == CRLF \o CRLF
Digits == {"0", "1"}

\* indexOf: the place of the first occurrence of part in stream, or 0
Find(stream, part) ==
  LET places == {i \in 1..(Len(stream) - Len(part) + 1) :
                   SubSeq(stream, i, i + Len(part) - 1) = part}
  IN  IF places = {} THEN 0 ELSE Min(places)

Skip(stream, n) == SubSeq(stream, n + 1, Len(stream))

-----------------------------------------------------------------------------
(* Chunked bodies.                                                         *)

\* A chunk as a local service writes it; line is its size, with an extension or without.
EncodeChunk(chunk) == chunk.line \o CRLF \o chunk.data \o CRLF

NaN == -1

\* parseInt of what stands before ";"
ParseSize(line) ==
  LET digits == {i \in 1..Len(line) : \A j \in 1..i : line[j] \in Digits}
  IN  IF digits = {} THEN NaN
      ELSE FoldLeft(LAMBDA value, digit : 2 * value + (IF digit = "1" THEN 1 ELSE 0), 0,
                    SubSeq(line, 1, Max(digits)))

NewDecoder == [buf |-> <<>>, expectSizeLine |-> TRUE, remaining |-> 0]

DecodeDataUncounted(decoder) ==
  LET take == Min({decoder.remaining, Len(decoder.buf)}) IN
  [data |-> SubSeq(decoder.buf, 1, take), rest |-> Skip(decoder.buf, take),
   remaining |-> decoder.remaining]

DecodeData(decoder) ==
  LET take == Min({decoder.remaining, Len(decoder.buf)}) IN
  [data |-> SubSeq(decoder.buf, 1, take), rest |-> Skip(decoder.buf, take),
   remaining |-> decoder.remaining - take]

\* One pass of the loop of push, with what it has decoded so far, at a size line: a size that is
\* no number ends the body.
DecodeSize(state) ==
  LET buf == state.decoder.buf
      eol == Find(buf, CRLF)
      size == ParseSize(SubSeq(buf, 1, eol - 1))
  IN
  IF eol = 0 THEN state
  ELSE IF size \in {NaN, 0} THEN [state EXCEPT !.done = TRUE]
  ELSE [state EXCEPT !.decoder = [buf |-> Skip(buf, eol + 1), expectSizeLine |-> FALSE,
                                  remaining |-> size]]

\* ... and in the data of a chunk, with the CRLF behind them
DecodeRest(state) ==
  LET data == DecodeData(state.decoder)
      next == [state.decoder EXCEPT !.buf = data.rest, !.remaining = data.remaining]
  IN  [state EXCEPT
        !.decoded = @ \o data.data,
        !.decoder = IF next.remaining > 0 \/ Len(next.buf) < 2 THEN next
                    ELSE [next EXCEPT !.buf = Skip(@, 2), !.expectSizeLine = TRUE]]

DecodePass(state) ==
  IF state.done \/ state.decoder.buf = <<>> THEN state
  ELSE IF state.decoder.expectSizeLine THEN DecodeSize(state)
  ELSE DecodeRest(state)

\* push; every pass but the last takes bytes off the buffer.
DecodeChunked(decoder, segment) ==
  LET start == [decoder |-> [decoder EXCEPT !.buf = @ \o segment], decoded |-> <<>>,
                done |-> FALSE]
      pass[n \in Nat] == IF n = 0 THEN start ELSE DecodePass(pass[n - 1])
  IN  pass[Len(start.decoder.buf)]

-----------------------------------------------------------------------------
(* The server's end of a data socket: the preamble, then the response.     *)

\* buildPreamble; the words of the line are not cut further.
Preamble(pairId, replacesControlId) ==
  <<"TT/1 PAIR", pairId>>
    \o (IF replacesControlId = "" THEN <<>> ELSE <<"REPLACES", replacesControlId>>) \o CRLF

AnyPair(line, pairId) == line # <<>> /\ line[1] = "TT/1 PAIR"

\* parsePreamble, and the look-up of a pair that waits
KnownPair(line, pairId) == line = <<"TT/1 PAIR", pairId>>

\* phase: "preamble", "head" or "body"; "ended" (endResponse) or "destroyed"
NewRelay ==
  [phase |-> "preamble", buf |-> <<>>, received |-> 0, decoder |-> NewDecoder,
   out |-> <<>>, badGateway |-> FALSE]

\* endResponse; before the preamble is read nobody listens for the end.
End(relay) ==
  IF relay.phase \notin {"head", "body"} THEN relay
  ELSE [relay EXCEPT !.phase = "ended", !.badGateway = relay.phase = "head"]

OnlyInterim(head) == head.status = "interim"

\* By its status: 1xx ("interim"; 101 "switches" the protocol), 204 or 304 ("empty")
HasNoBody(head) == head.status \in {"interim", "empty"}

\* consumeBody: an empty segment is ignored, even if nothing is missing
ConsumeBody(relay, head, segment) ==
  IF segment = <<>> THEN relay
  ELSE IF head.chunked
    THEN LET result == DecodeChunked(relay.decoder, segment)
             next == [relay EXCEPT !.decoder = result.decoder, !.out = @ \o result.decoded]
         IN  IF result.done THEN End(next) ELSE next
    ELSE LET next == [relay EXCEPT !.received = @ + Len(segment), !.out = @ \o segment] IN
         IF head.length >= 0 /\ next.received >= head.length THEN End(next) ELSE next

\* The data listener of handleRequest, until the head is complete
ReadHead(relay, head) ==
  LET separator == Find(relay.buf, HeaderEnd)
      parsed == [relay EXCEPT !.phase = "body", !.buf = <<>>]
  IN
  CASE separator = 0 -> relay
    [] separator # 0 /\ (HasNoBody(head) \/ head.forHead) -> End(parsed)
    [] OTHER -> ConsumeBody(parsed, head, Skip(relay.buf, separator + 3))

\* onData of _onSocket. What follows the line is put back, but the socket flows on and nobody
\* listens before the relay is resumed: it is lost.
ReadPreamble(relay, pairId) ==
  LET newline == Find(relay.buf, <<"lf">>)
      lineEnd == IF newline > 1 /\ relay.buf[newline - 1] = "cr" THEN newline - 2 ELSE newline - 1
  IN
  IF newline = 0
    THEN IF Len(relay.buf) > DATA_PREAMBLE_MAX_BYTES THEN [relay EXCEPT !.phase = "destroyed"]
         ELSE relay
    ELSE IF KnownPair(SubSeq(relay.buf, 1, lineEnd), pairId)
      THEN [relay EXCEPT !.phase = "head", !.buf = <<>>]
      ELSE [relay EXCEPT !.phase = "destroyed"]

RelaySegment(relay, head, pairId, segment) ==
  LET next == [relay EXCEPT !.buf = @ \o segment] IN
  CASE relay.phase = "preamble" -> ReadPreamble(next, pairId)
    [] relay.phase = "head" -> ReadHead(next, head)
    [] relay.phase = "body" -> ConsumeBody(relay, head, segment)
    [] OTHER -> relay

-----------------------------------------------------------------------------
(* The client's side.                                                      *)

NewDetector == [collected |-> <<>>, total |-> 0, headerEnd |-> 0]

\* The response is complete as far as tryEmitResponseComplete can tell.
LooksComplete(detector, head) ==
  /\ detector.headerEnd # 0
  /\ ~head.switches
  /\ CASE HasNoBody(head) -> TRUE
       [] ~HasNoBody(head) /\ head.length >= 0 ->
            detector.total - (detector.headerEnd + 3) >= head.length
       [] ~HasNoBody(head) /\ head.length < 0 /\ head.chunked ->
            Find(detector.collected, CRLF \o <<"0">> \o HeaderEnd) # 0
       [] OTHER -> FALSE

\* The data listener of the local socket: the last segment to be collected is kept whole.
DetectSegment(detector, segment) ==
  LET collected == IF Len(detector.collected) < MaxCollect
                     THEN detector.collected \o segment ELSE detector.collected
  IN  [detector EXCEPT !.collected = collected, !.total = @ + Len(segment),
         !.headerEnd = IF @ # 0 THEN @ ELSE Find(collected, HeaderEnd)]

\* What the client knows of the request of a pair. head: "awaited", "collected", or "cleared" with
\* reqBufs; late: it was collected when the local socket was closed; emitted: how often it was
\* logged (both for the properties)
NewRequest ==
  [head |-> "awaited", late |-> FALSE, dataEnded |-> FALSE, requestEmitted |-> FALSE,
   emitted |-> 0]

EmitAlways(request) == [request EXCEPT !.requestEmitted = TRUE, !.emitted = @ + 1]

\* emitHttpRequest
EmitRequest(request) ==
  IF request.requestEmitted \/ request.head # "collected" THEN request
  ELSE [request EXCEPT !.requestEmitted = TRUE, !.emitted = @ + 1]

\* The other two places that log a request, one that asks for a WebSocket: only the capture
\* remembers it.
EmitWebSocket(request, inspected) ==
  [request EXCEPT !.requestEmitted = @ \/ inspected, !.emitted = @ + 1]

\* The end listener of the data socket
DataEnded(request, pair) ==
  LET ended == [request EXCEPT !.dataEnded = TRUE] IN
  IF request.head = "collected" /\ pair.upgrade
    THEN [EmitWebSocket(ended, pair.inspected) EXCEPT !.head = "cleared"]
    ELSE ended

\* The close listener of the local socket
LocalClosed(request, pair) ==
  IF request.head # "collected" \/ request.requestEmitted THEN request
  ELSE IF pair.upgrade THEN EmitWebSocket(request, pair.inspected)
  ELSE EmitRequest(request)

NewTransformer == [replaced |-> FALSE, out |-> <<>>]

\* The segment with the value of its Host header, as far as it has come, replaced. The value may
\* be looked for on the next line.
WithLocalHost(segment) ==
  LET host == Find(segment, <<"host:">>)
      visible == {i \in (host + 1)..Len(segment) : segment[i] \notin {"cr", "lf"}}
      start == Min(visible)
      after == {i \in (start + 1)..Len(segment) : segment[i] \in {"cr", "lf"}}
      valueEnd == IF after = {} THEN Len(segment) ELSE Min(after) - 1
  IN  IF host = 0 \/ visible = {} THEN segment
      ELSE SubSeq(segment, 1, start - 1) \o <<"localhost">> \o Skip(segment, valueEnd)

TransformAll(transformer, segment) ==
  [replaced |-> TRUE, out |-> transformer.out \o WithLocalHost(segment)]

\* _transform: only the first segment is looked at.
TransformSegment(transformer, segment) ==
  [replaced |-> TRUE,
   out |-> transformer.out
             \o (IF transformer.replaced THEN segment ELSE WithLocalHost(segment))]

=============================================================================
