-------------------------------- MODULE Wire --------------------------------
(* The bytes of the emergency stop (E-Stop/shared): frames with a CRC, as   *)
(* both radio and USB carry them, and the COBS framing of the pod's reports *)
(* in the stream the host reads.  A byte is the set of its bits that are 1. *)
EXTENDS Naturals, Sequences

CONSTANT MAX_PAYLOAD

ASSUME WireAssumption == MAX_PAYLOAD \in Nat /\ MAX_PAYLOAD + 5 < 254

Bits == 0 .. 7
Byte == SUBSET Bits
Weight == <<1, 2, 4, 8, 16, 32, 64, 128>>
ByteOf(n) == {i \in Bits : (n \div Weight[i + 1]) % 2 = 1}
Number(byte) == CHOOSE n \in 0 .. 255 : ByteOf(n) = byte
Xor(a, b) == (a \ b) \cup (b \ a)

----------------------------------------------------------------------------
(* frame.rs.  CRC-16/KERMIT, as the crc crate has it: the register shifts   *)
(* towards bit 0, the polynomial is 0x8408.                                 *)
Shifted(register) ==
  LET rest == {i \in 0 .. 14 : i + 1 \in register} IN
  IF 0 \in register THEN Xor(rest, {3, 10, 15}) ELSE rest
Shifted4(register) == Shifted(Shifted(Shifted(Shifted(register))))
Updated(register, byte) == Shifted4(Shifted4(Xor(register, byte)))
U16 == 0 .. 15
crc16(bytes) ==
  LET register[n \in 0 .. Len(bytes)] ==
        IF n = 0 THEN {} ELSE Updated(register[n - 1], bytes[n])
  IN register[Len(bytes)]

to_be_bytes(crc) == <<{i \in Bits : i + 8 \in crc}, crc \cap Bits>>
to_le_bytes(crc) == <<crc \cap Bits, {i \in Bits : i + 8 \in crc}>>
from_le_bytes(lo, hi) == lo \cup {i + 8 : i \in hi}

FrameKind == {"Heartbeat", "Stop", "StateChange"}
KindByte == [Heartbeat |-> {0}, Stop |-> {1}, StateChange |-> {0, 4}]
MAGIC == {0, 2, 5, 7}
VERSION == {0}
MAX_FRAME_LEN == MAX_PAYLOAD + 5
MIN_FRAME_LEN == 5

(* What the CRC covers of a frame without its CRC: all but the magic byte.  *)
Covered(bytes) == SubSeq(bytes, 2, Len(bytes))

(* encode, into a buffer of that length; a frame is <<>> for an error.      *)
Encode(kind, payload, room) ==
  LET body == <<MAGIC, VERSION, KindByte[kind]>> \o payload IN
  IF Len(payload) > MAX_PAYLOAD \/ room < Len(body) + 2 THEN <<>>
  ELSE body \o to_le_bytes(crc16(Covered(body)))

(* decode: what it accepts, whichever check fails first, and what it makes  *)
(* of it.                                                                   *)
Accepts(buf) ==
  /\ Len(buf) >= MIN_FRAME_LEN
  /\ buf[1] = MAGIC /\ buf[2] = VERSION
  /\ \E kind \in FrameKind : buf[3] = KindByte[kind]
  /\ from_le_bytes(buf[Len(buf) - 1], buf[Len(buf)])
       = crc16(Covered(SubSeq(buf, 1, Len(buf) - 2)))
Decoded(buf) == [kind    |-> CHOOSE kind \in FrameKind : buf[3] = KindByte[kind],
                 payload |-> SubSeq(buf, 4, Len(buf) - 2)]

----------------------------------------------------------------------------
(* cobs.rs.  The cobs crate replaces each zero, and one added at the end,   *)
(* by the distance from the one before it.                                  *)
NextZero(bytes, n) ==
  CHOOSE z \in n .. Len(bytes) : bytes[z] = {} /\ \A k \in n .. z - 1 : bytes[k] # {}
Stuffed(frame) ==
  LET ended == Append(frame, {}) IN
  [n \in 1 .. Len(ended) |->
     IF n = 1 \/ ended[n - 1] = {} THEN ByteOf(NextZero(ended, n) - n + 1)
                                 ELSE ended[n - 1]]

(* What the bytes between two delimiters were, or <<>> if they were nothing:*)
(* each byte is the number of bytes up to the next such byte, or one of     *)
(* those that are still to come.                                            *)
Unstuffed(bytes) ==
  LET left[n \in 0 .. Len(bytes)] ==
        IF n = 0 THEN 0
        ELSE LET before == left[n - 1] IN
             IF before > 0 THEN before - 1 ELSE Number(bytes[n]) - 1
  IN IF bytes = <<>> \/ left[Len(bytes)] > 0 THEN <<>>
     ELSE [n \in 1 .. Len(bytes) - 1 |-> IF left[n] > 0 THEN bytes[n + 1] ELSE {}]

MAX_ENCODED_LEN == MAX_FRAME_LEN + MAX_FRAME_LEN \div 254 + 2
UndelimitedCobs(frame, room) ==
  IF room < Len(frame) + 2 THEN <<>> ELSE Stuffed(frame)
CobsEncode(frame, room) ==
  IF room < Len(frame) + 2 THEN <<>> ELSE Append(Stuffed(frame), {})

----------------------------------------------------------------------------
(* rx_task hears a Heartbeat or a Stop, or something else. *)
Heard(buf) == IF Accepts(buf) /\ Decoded(buf).kind # "StateChange"
                THEN Decoded(buf).kind ELSE "BadFrame"

(* The host cuts its stream at the delimiters, wherever it begins to read,  *)
(* and takes the payloads of the frames it finds.                           *)
Cut(stream) ==
  {SubSeq(stream, ij[1], ij[2] - 1) : ij \in
     {ij \in (1 .. Len(stream)) \X (1 .. Len(stream)) :
        /\ ij[1] <= ij[2] /\ stream[ij[2]] = {}
        /\ \A k \in ij[1] .. ij[2] - 1 : stream[k] # {}
        /\ ij[1] = 1 \/ stream[ij[1] - 1] = {}}}
Read(stream) ==
  LET frames == {Unstuffed(piece) : piece \in Cut(stream)} IN
  {Decoded(frame).payload : frame \in {f \in frames : Accepts(f)}}
=============================================================================
