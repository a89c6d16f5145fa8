----------------------------- MODULE WsFraming ------------------------------
(***************************************************************************)
(* WebSocket frames, as the code writes and reads them: encodeFrame and    *)
(* the incremental parser of the control channel (common/ws-framing.js),   *)
(* the encoder of a replay (replay/runner.js) and the parser that reads    *)
(* the frames of a capture (client/tunnel-cluster.js).                     *)
(*                                                                         *)
(* A frame is a sequence of bytes: two header bytes (records here), the    *)
(* bytes of a long length, the four bytes of the mask and the payload. The *)
(* bytes of a payload are bits, so that exclusive or is addition modulo 2. *)
(* The 126 and 256 of the format are parameters: with small ones all three *)
(* encodings of a length occur in short frames.                            *)
(***************************************************************************)
EXTENDS Integers, Sequences, SequencesExt

CONSTANTS
  Short,   \* 126: a length below it stands in the second byte
  Base     \* 256: the values of a byte of a length

ASSUME FramingAssumption == Short \in Nat \ {0} /\ Base \in Nat \ {0, 1} /\ Short < Base * Base

Opcodes == [CONT |-> 0, TEXT |-> 1, BINARY |-> 2, CLOSE |-> 8, PING |-> 9, PONG |-> 10]

Code16 == Short
Code64 == Short + 1

Base2 == Base * Base
Base4 == Base2 * Base2

\* The bytes of a number, the highest first, and the number that starts at a place of a buffer
UInt16(n) == <<n \div Base, n % Base>>
UInt32(n) == UInt16(n \div Base2) \o UInt16(n % Base2)
UInt64(n) == UInt32(n \div Base4) \o UInt32(n % Base4)

ReadUInt16(buf, at) == Base * buf[at] + buf[at + 1]
ReadUInt32(buf, at) == Base2 * ReadUInt16(buf, at) + ReadUInt16(buf, at + 2)
ReadUInt64(buf, at) == Base4 * ReadUInt32(buf, at) + ReadUInt32(buf, at + 4)

Masked(data, key) == [i \in 1..Len(data) |-> (data[i] + key[((i - 1) % 4) + 1]) % 2]

-----------------------------------------------------------------------------
(* Writing.                                                                *)

LengthCode(len) ==
  CASE len < Short -> len
    [] len >= Short /\ len < Base2 -> Code16
    [] OTHER -> Code64

LengthBytes(len) ==
  CASE len < Short -> <<>>
    [] len >= Short /\ len < Base2 -> UInt16(len)
    [] OTHER -> UInt32(0) \o UInt32(len)

\* encodeFrame; a client's frame has a key, a server's has none.
EncodeFrame(opcode, data, key) ==
  <<[fin |-> TRUE, opcode |-> opcode],
    [masked |-> key # <<>>, code |-> LengthCode(Len(data))]>>
    \o LengthBytes(Len(data)) \o key
    \o (IF key = <<>> THEN data ELSE Masked(data, key))

\* _encodeWsFrame: always masked, the long length in one piece
ReplayFrame(opcode, data, key) ==
  LET len == Len(data)
      code == IF len <= Short - 1 THEN len ELSE IF len <= Base2 - 1 THEN Code16 ELSE Code64
      length == IF code = Code16 THEN UInt16(len) ELSE IF code = Code64 THEN UInt64(len) ELSE <<>>
  IN  <<[fin |-> TRUE, opcode |-> opcode], [masked |-> TRUE, code |-> code]>>
        \o length \o key \o Masked(data, key)

-----------------------------------------------------------------------------
(* Reading.                                                                *)

LengthWidth(buf) == CASE buf[2].code = Code16 -> 2 [] buf[2].code = Code64 -> 8 [] OTHER -> 0

\* The number of bytes before the payload
DataAt(buf) == 2 + LengthWidth(buf) + (IF buf[2].masked THEN 4 ELSE 0)

\* The upper half of a 64-bit length: the parser of the control channel refuses any but 0.
TooLarge(buf) == Len(buf) >= 10 /\ buf[2].code = Code64 /\ ReadUInt32(buf, 3) # 0

PayloadLen(buf) ==
  CASE LengthWidth(buf) = 0 -> buf[2].code
    [] LengthWidth(buf) = 2 -> ReadUInt16(buf, 3)
    [] LengthWidth(buf) = 8 -> ReadUInt64(buf, 3)

FrameEnd(buf) == DataAt(buf) + PayloadLen(buf)

HasFrame(buf) == Len(buf) >= 2 /\ Len(buf) >= DataAt(buf) /\ Len(buf) >= FrameEnd(buf)

FrameAt(buf) ==
  LET data == SubSeq(buf, DataAt(buf) + 1, FrameEnd(buf))
      key == SubSeq(buf, DataAt(buf) - 3, DataAt(buf))
  IN  [opcode |-> buf[1].opcode, data |-> IF buf[2].masked THEN Masked(data, key) ELSE data]

NothingAfter(buf) == <<>>

AfterFrame(buf) == SubSeq(buf, FrameEnd(buf) + 1, Len(buf))

Fragmented(buf) == ~buf[1].fin \/ buf[1].opcode = Opcodes.CONT

\* One pass of the loop of push: a frame that is complete is delivered, the rest waits for more.
\* After an error both users of the parser close the channel.
DrainPass(parser) ==
  LET buf == parser.buf
      rest == [parser EXCEPT !.buf = AfterFrame(buf)]
  IN
  IF parser.failed \/ (~TooLarge(buf) /\ ~HasFrame(buf)) THEN parser
  ELSE IF TooLarge(buf) THEN [parser EXCEPT !.failed = TRUE]
  ELSE IF Fragmented(buf) THEN [rest EXCEPT !.failed = TRUE]
  ELSE [rest EXCEPT !.frames = Append(@, FrameAt(buf))]

\* The loop: as a frame has at least two bytes, so many passes are more than enough.
Drain(parser) ==
  LET pass[n \in Nat] == IF n = 0 THEN parser ELSE DrainPass(pass[n - 1])
  IN  pass[Len(parser.buf)]

NewParser == [buf |-> <<>>, frames |-> <<>>, failed |-> FALSE]

\* push
ParseSegment(parser, segment) ==
  IF parser.failed THEN parser ELSE Drain([parser EXCEPT !.buf = @ \o segment])

\* _parseWsFrames: one pass over what has been collected; continuations are skipped.
CapturePass(capture) ==
  LET buf == capture.buf IN
  IF ~HasFrame(buf) THEN capture
  ELSE [buf |-> AfterFrame(buf),
        frames |-> IF buf[1].opcode = Opcodes.CONT THEN capture.frames
                   ELSE Append(capture.frames, FrameAt(buf))]

CapturedFrames(buf) ==
  LET pass[n \in Nat] == IF n = 0 THEN [buf |-> buf, frames |-> <<>>]
                         ELSE CapturePass(pass[n - 1])
  IN  pass[Len(buf)].frames

=============================================================================
