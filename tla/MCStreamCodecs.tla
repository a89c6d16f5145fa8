--------------------------- MODULE MCStreamCodecs ---------------------------
(***************************************************************************)
(* Instances of StreamCodecs for TLC: Short is 2 and Base is 2, so that a  *)
(* payload of 0 or 1 bytes has a short length, one of 2 or 3 a 16-bit      *)
(* length and a longer one a 64-bit length.                                *)
(***************************************************************************)
EXTENDS StreamCodecs

Key == <<1, 0, 0, 1>>

Message(len) == [opcode |-> Opcodes.TEXT, data |-> [i \in 1..len |-> i % 2]]

Lengths == 0..5

Fragment == [EncodeFrame(Opcodes.TEXT, <<1>>, <<>>) EXCEPT ![1].fin = FALSE]
Continuation == EncodeFrame(Opcodes.CONT, <<1>>, Key)
Huge == [EncodeFrame(Opcodes.BINARY, <<1, 1, 1, 1>>, Key) EXCEPT ![6] = 1]
Faults == {<<>>} \cup {fault \o EncodeFrame(Opcodes.PING, <<>>, <<>>) :
                         fault \in {Fragment, Continuation, Huge}}

ManyFrames ==
  {Frames(encoder, Key, <<Message(m), Message(n)>>, fault) :
     encoder \in {"server", "client", "replay"}, m \in Lengths, n \in Lengths, fault \in Faults}

Bodies == {<<>>, <<"a">>, <<"a", "cr", "lf">>, <<"0", "cr", "lf", "cr">>}

Good == Preamble(PairId, "")

\* A size of three binary digits
SizeDigits(n) == [i \in 1..3 |-> IF (n \div (2 ^ (3 - i))) % 2 = 1 THEN "1" ELSE "0"]

Chunk(data, extension) == [line |-> SizeDigits(Len(data)) \o extension, data |-> data]

\* The last one looks like the end of a chunked body.
Chunkings ==
  {<<>>} \cup {<<c>> : c \in {<<"a">>, <<"cr", "lf", "cr", "lf">>, CRLF \o <<"0">> \o HeaderEnd}}
    \cup {<<c, d>> : c \in {<<"a">>, <<"a", "cr">>}, d \in {<<"lf", "0">>}}

\* A chunk extension and the end of the body, without and with a trailer
Endings ==
  {<< <<>>, <<"0">> \o HeaderEnd>>,
   << <<";", "x">>, <<"0">> \o CRLF \o <<"trailer">> \o HeaderEnd>>}

Final(length, chunked) == HeadSaying("final", length, chunked, FALSE)

Pair(upgrade, inspected, early) ==
  [upgrade |-> upgrade, inspected |-> inspected, early |-> early]

Plain == Pair(FALSE, FALSE, FALSE)
Early == Pair(FALSE, FALSE, TRUE)

Interim == HeadSaying("interim", -1, FALSE, FALSE)
Switching == [Interim EXCEPT !.switches = TRUE]

PlainResponses ==
  {Response(Good, Plain, Final(Len(body), FALSE), <<>>, body) : body \in Bodies}
    \cup {Response(Good, Plain, Final(-1, FALSE), <<>>, body) : body \in Bodies}
    \cup {Response(Good, Plain, Final(-1, TRUE), [i \in 1..Len(chunks) |-> Chunk(chunks[i], e[1])],
                   e[2]) :
             chunks \in Chunkings, e \in Endings}
    \cup {Response(Good, Plain, HeadSaying("empty", -1, FALSE, FALSE), <<>>, <<>>),
          Response(Good, Plain, HeadSaying("final", 3, FALSE, TRUE), <<>>, <<>>),
          Response(Good, Plain, Interim, <<>>, HeadBytes \o <<"a">>)}

\* Answers to a request for a WebSocket: 101 and what follows, or a refusal; and one that comes
\* before it is asked for
OtherResponses ==
  {Response(Good, Pair(TRUE, inspected, FALSE), head, <<>>, <<"a">>) :
     inspected \in BOOLEAN, head \in {Switching, Final(1, FALSE)}}
    \cup {Response(Good, Early, Final(1, FALSE), <<>>, <<"a">>)}
    \cup {Response(preamble, Early, Final(1, FALSE), <<>>, <<"a">>) :
             preamble \in {Preamble("other", ""), <<"GET", PairId>> \o CRLF,
                           <<"TT/1 PAIR", PairId, "more">> \o CRLF,
                           <<"long", "long", "long", "long", "long", "long", "long">>}}

ManyResponses == PlainResponses \cup OtherResponses

ManyRequests ==
  {Request(<<"GET">> \o CRLF \o other, host, CRLF \o rest) :
     other \in {<<>>, <<"header">> \o CRLF}, host \in {<<"a">>, <<"a", ".b">>},
     rest \in {CRLF, CRLF \o <<"host:", "c">> \o CRLF}}

=============================================================================
