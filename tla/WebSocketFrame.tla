--------------------------- MODULE WebSocketFrame ---------------------------
(***************************************************************************)
(* The frames of epoll_websocket/epoll_websocket.c as bytes: what          *)
(* decode_packet reads in recvbuffer and encode_packet writes for the      *)
(* answer. WebSocket, where a frame is two parts, uses them for frames of  *)
(* less than 126 bytes; FrameEchoed is why it may, and why for no others.  *)
(***************************************************************************)
EXTENDS Integers, Sequences

CONSTANTS Payloads,  (* payloads of frames: sequences of bytes             *)
          Masks      (* their masks: four bytes                            *)

Byte == 0 .. 255

\* The bytes of C's ^, one place after the other.
Bit(n, place) == (n \div place) % 2
Differ(a, b, place) == IF Bit(a, place) = Bit(b, place) THEN 0 ELSE place
Xor(a, b) ==
  Differ(a, b, 1) + Differ(a, b, 2) + Differ(a, b, 4) + Differ(a, b, 8)
  + Differ(a, b, 16) + Differ(a, b, 32) + Differ(a, b, 64) + Differ(a, b, 128)

\* The buffers are filled with zeros.
ByteAt(stream, i) == IF i <= Len(stream) THEN stream[i] ELSE 0

\* umask: size bytes from start on, with the four bytes of the mask in turn.
Umask(stream, start, size, mask) ==
  [i \in 1 .. size |-> Xor(ByteAt(stream, start + i), mask[((i - 1) % 4) + 1])]

\* Fault: the data is looked for where the mask is.
DecodeAtMask(stream) ==
  LET size == ByteAt(stream, 2) % 128
      mask == [i \in 1 .. 4 |-> ByteAt(stream, 2 + i)]
  IN  Umask(stream, 2, size, mask)

\* decode_packet. The field it compares with 126 and 127 is the mask bit, so
\* that the length is always the seven bits of the second byte, and the mask
\* and the data are looked for right behind it.
DecodePacket(stream) ==
  LET bit == ByteAt(stream, 2) \div 128
      size == ByteAt(stream, 2) % 128
      long == CASE bit = 126 -> 2 [] bit = 127 -> 8 [] OTHER -> 0
      mask == [i \in 1 .. 4 |-> ByteAt(stream, 2 + long + i)]
  IN  Umask(stream, 6 + long, size, mask)

\* encode_packet: fin and the opcode of a text, the length if it is less than
\* 126, 0 otherwise, and the data over whatever longer header was written.
EncodePacket(data) ==
  <<129, IF Len(data) < 126 THEN Len(data) ELSE 0>> \o data

-----------------------------------------------------------------------------
(* The browser (RFC 6455) *)

Header(length) ==
  IF length < 126 THEN <<129, 128 + length>>
                  ELSE <<129, 128 + 126, length \div 256, length % 256>>

\* ws.send: a masked text frame.
ClientFrame(payload, mask) ==
  Header(Len(payload)) \o mask \o Umask(payload, 0, Len(payload), mask)

\* What onmessage gets of a frame of the server, and what follows the frame.
Message(stream) == SubSeq(stream, 3, 2 + (stream[2] % 128))
Rest(stream) == SubSeq(stream, 3 + (stream[2] % 128), Len(stream))

-----------------------------------------------------------------------------

\* transform's answer to a frame, whatever has come behind it.
Answer(payload, mask, behind) ==
  EncodePacket(DecodePacket(ClientFrame(payload, mask) \o behind))

\* Whatever the mask and whatever follows in the buffer, transform answers a
\* frame of less than 126 bytes, and no other, with one frame that has the
\* same payload, and nothing behind it.
FrameEchoed ==
  \A payload, behind \in Payloads, mask \in Masks :
    LET answer == Answer(payload, mask, behind)
    IN  (Message(answer) = payload /\ Rest(answer) = <<>>) <=> Len(payload) < 126
=============================================================================
