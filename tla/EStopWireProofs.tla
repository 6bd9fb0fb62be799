--------------------------- MODULE EStopWireProofs ---------------------------
(* Pod and handheld agree on every frame in the air, whatever the radio     *)
(* does to it within the bounds of Damaged.                                 *)
EXTENDS EStopWire, EStopProofs, WireProofs

(* The CRCs of the two frames of the handheld, bit by bit: their first      *)
(* bytes differ.                                                            *)
LEMMA VersionShifted ==
  Updated({}, VERSION) = {0, 3, 7, 8, 12}
  <1>1. Xor({}, VERSION) = {0}
    BY DEF Xor, VERSION
  <1>2. Shifted({0}) = {3, 10, 15}
    BY DEF Shifted, Xor
  <1>3. Shifted({3, 10, 15}) = {2, 9, 14}
    BY DEF Shifted
  <1>4. Shifted({2, 9, 14}) = {1, 8, 13}
    BY DEF Shifted
  <1>5. Shifted({1, 8, 13}) = {0, 7, 12}
    BY DEF Shifted
  <1>6. Shifted({0, 7, 12}) = {3, 6, 10, 11, 15}
    BY DEF Shifted, Xor
  <1>7. Shifted({3, 6, 10, 11, 15}) = {2, 5, 9, 10, 14}
    BY DEF Shifted
  <1>8. Shifted({2, 5, 9, 10, 14}) = {1, 4, 8, 9, 13}
    BY DEF Shifted
  <1>9. Shifted({1, 4, 8, 9, 13}) = {0, 3, 7, 8, 12}
    BY DEF Shifted
  <1>10. Shifted4({0}) = {0, 7, 12}
    BY ONLY <1>2, <1>3, <1>4, <1>5 DEF Shifted4
  <1>11. Shifted4({0, 7, 12}) = {0, 3, 7, 8, 12}
    BY ONLY <1>6, <1>7, <1>8, <1>9 DEF Shifted4
  <1> QED
    BY ONLY <1>1, <1>10, <1>11 DEF Updated

LEMMA HeartbeatShifted ==
  Updated({0, 3, 7, 8, 12}, {0}) = {0, 4, 6, 11}
  <1>1. Xor({0, 3, 7, 8, 12}, {0}) = {3, 7, 8, 12}
    BY DEF Xor
  <1>2. Shifted({3, 7, 8, 12}) = {2, 6, 7, 11}
    BY DEF Shifted
  <1>3. Shifted({2, 6, 7, 11}) = {1, 5, 6, 10}
    BY DEF Shifted
  <1>4. Shifted({1, 5, 6, 10}) = {0, 4, 5, 9}
    BY DEF Shifted
  <1>5. Shifted({0, 4, 5, 9}) = {4, 8, 10, 15}
    BY DEF Shifted, Xor
  <1>6. Shifted({4, 8, 10, 15}) = {3, 7, 9, 14}
    BY DEF Shifted
  <1>7. Shifted({3, 7, 9, 14}) = {2, 6, 8, 13}
    BY DEF Shifted
  <1>8. Shifted({2, 6, 8, 13}) = {1, 5, 7, 12}
    BY DEF Shifted
  <1>9. Shifted({1, 5, 7, 12}) = {0, 4, 6, 11}
    BY DEF Shifted
  <1>10. Shifted4({3, 7, 8, 12}) = {4, 8, 10, 15}
    BY ONLY <1>2, <1>3, <1>4, <1>5 DEF Shifted4
  <1>11. Shifted4({4, 8, 10, 15}) = {0, 4, 6, 11}
    BY ONLY <1>6, <1>7, <1>8, <1>9 DEF Shifted4
  <1> QED
    BY ONLY <1>1, <1>10, <1>11 DEF Updated

LEMMA StopShifted ==
  Updated({0, 3, 7, 8, 12}, {1}) = {1, 3, 6, 7, 9, 11, 12, 13}
  <1>1. Xor({0, 3, 7, 8, 12}, {1}) = {0, 1, 3, 7, 8, 12}
    BY DEF Xor
  <1>2. Shifted({0, 1, 3, 7, 8, 12}) = {0, 2, 3, 6, 7, 10, 11, 15}
    BY DEF Shifted, Xor
  <1>3. Shifted({0, 2, 3, 6, 7, 10, 11, 15}) = {1, 2, 3, 5, 6, 9, 14, 15}
    BY DEF Shifted, Xor
  <1>4. Shifted({1, 2, 3, 5, 6, 9, 14, 15}) = {0, 1, 2, 4, 5, 8, 13, 14}
    BY DEF Shifted
  <1>5. Shifted({0, 1, 2, 4, 5, 8, 13, 14}) = {0, 1, 4, 7, 10, 12, 13, 15}
    BY DEF Shifted, Xor
  <1>6. Shifted({0, 1, 4, 7, 10, 12, 13, 15}) = {0, 6, 9, 10, 11, 12, 14, 15}
    BY DEF Shifted, Xor
  <1>7. Shifted({0, 6, 9, 10, 11, 12, 14, 15}) = {3, 5, 8, 9, 11, 13, 14, 15}
    BY DEF Shifted, Xor
  <1>8. Shifted({3, 5, 8, 9, 11, 13, 14, 15}) = {2, 4, 7, 8, 10, 12, 13, 14}
    BY DEF Shifted
  <1>9. Shifted({2, 4, 7, 8, 10, 12, 13, 14}) = {1, 3, 6, 7, 9, 11, 12, 13}
    BY DEF Shifted
  <1>10. Shifted4({0, 1, 3, 7, 8, 12}) = {0, 1, 4, 7, 10, 12, 13, 15}
    BY ONLY <1>2, <1>3, <1>4, <1>5 DEF Shifted4
  <1>11. Shifted4({0, 1, 4, 7, 10, 12, 13, 15}) = {1, 3, 6, 7, 9, 11, 12, 13}
    BY ONLY <1>6, <1>7, <1>8, <1>9 DEF Shifted4
  <1> QED
    BY ONLY <1>1, <1>10, <1>11 DEF Updated

(* The first byte of the CRC that an accepted frame without payload has. *)
LEMMA CrcByte ==
  ASSUME NEW buf \in Seq(Byte), Len(buf) = 5, Accepts(buf)
  PROVE  buf[4] = Updated({0, 3, 7, 8, 12}, buf[3]) \cap Bits
  <1> DEFINE front == SubSeq(buf, 1, Len(buf) - 2)
             s == Covered(front)
  <1>1. front \in Seq(Byte) /\ Len(front) = 3 /\ front[2] = buf[2] /\ front[3] = buf[3]
    OBVIOUS
  <1>2. s \in Seq(Byte) /\ Len(s) = 2 /\ s[1] = VERSION /\ s[2] = buf[3]
    <2>0. Len(front) >= 1 /\ Len(front) = 3
      BY <1>1
    <2> HIDE DEF front
    <2>1. /\ s \in Seq(Byte) /\ Len(s) = 3 - 1
          /\ \A n \in 1 .. 3 - 1 : s[n] = front[n + 1]
      BY <1>1, <2>0, CoveredTyped
    <2>2. buf[2] = VERSION
      BY DEF Accepts
    <2> HIDE DEF s
    <2>3. s[1] = front[2] /\ s[2] = front[3]
      BY <2>1
    <2> QED
      BY <1>1, <2>1, <2>2, <2>3
  <1> HIDE DEF s
  <1>3. PICK r : Runs(r, s) /\ crc16(s) = r[Len(s)]
    BY <1>2, RegistersExist
  <1>4. crc16(s) = Updated(Updated({}, VERSION), buf[3])
    <2>1. r[0] = {} /\ \A n \in 1 .. 2 : r[n] = Updated(r[n - 1], s[n])
      BY <1>2, <1>3, RunsOn
    <2>2. 1 \in 1 .. 2 /\ 2 \in 1 .. 2 /\ 1 - 1 = 0 /\ 2 - 1 = 1
      OBVIOUS
    <2>3. r[1] = Updated(r[0], s[1]) /\ r[2] = Updated(r[1], s[2])
      BY <2>1, <2>2
    <2> QED
      BY <1>2, <1>3, <2>1, <2>3
  <1>5. buf[4] \in Byte /\ buf[5] \in Byte
    OBVIOUS
  <1>6. from_le_bytes(buf[4], buf[5]) = crc16(s)
    BY DEF Accepts, s
  <1>7. to_le_bytes(crc16(s)) = <<buf[4], buf[5]>>
    BY <1>5, <1>6, LittleEndianBack
  <1> QED
    BY <1>4, <1>7, VersionShifted DEF to_le_bytes

LEMMA KindsFarApart ==
  ASSUME NEW buf \in Seq(Byte), Len(buf) = 5, Accepts(buf),
         NEW other \in Seq(Byte), Len(other) = 5, Accepts(other),
         buf[3] = {0}, other[3] = {1}
  PROVE  buf[4] # other[4]
  <1>1. buf[4] = {0, 4, 6, 11} \cap Bits
    BY ONLY buf \in Seq(Byte), Len(buf) = 5, Accepts(buf), buf[3] = {0}, CrcByte,
            HeartbeatShifted, Zenon
  <1>2. other[4] = {1, 3, 6, 7, 9, 11, 12, 13} \cap Bits
    BY ONLY other \in Seq(Byte), Len(other) = 5, Accepts(other), other[3] = {1}, CrcByte,
            StopShifted, Zenon
  <1>3. 0 \in buf[4] /\ 0 \notin other[4]
    BY <1>1, <1>2 DEF Bits
  <1> QED
    BY <1>3

(* What is replaced in two neighbouring bytes, or in one, is not heard. *)
LEMMA TwoBytesRefused ==
  ASSUME NEW buf \in Seq(Byte), Accepts(buf),
         NEW damaged \in Seq(Byte), Len(damaged) = Len(buf), damaged # buf,
         NEW n \in 1 .. Len(buf) - 1,
         \A i \in 1 .. Len(buf) : i # n /\ i # n + 1 => damaged[i] = buf[i]
  PROVE  ~Accepts(damaged)
  <1> DEFINE a == damaged[n]
             b == damaged[n + 1]
  <1>1. PICK len \in Nat : len = Len(buf)
    OBVIOUS
  <1>2. a \in Byte /\ b \in Byte
    BY <1>1
  <1>3. damaged = [buf EXCEPT ![n] = a, ![n + 1] = b]
    <2> DEFINE d == [buf EXCEPT ![n] = a, ![n + 1] = b]
    <2>1. d \in Seq(Byte) /\ Len(d) = len
      BY <1>1, <1>2
    <2>2. \A i \in 1 .. len : d[i] = damaged[i]
      BY <1>1
    <2> HIDE DEF d
    <2>3. d = damaged
      BY <1>1, <2>1, <2>2, SeqEqual
    <2> QED
      BY <2>3 DEF d
  <1>4. <<a, b>> # <<buf[n], buf[n + 1]>>
    <2> SUFFICES ASSUME a = buf[n], b = buf[n + 1] PROVE FALSE
      OBVIOUS
    <2>1. \A i \in 1 .. len : damaged[i] = buf[i]
      BY <1>1
    <2> QED
      BY <1>1, <2>1, SeqEqual
  <1> HIDE DEF a, b
  <1> QED
    BY <1>2, <1>3, <1>4, BurstRefused

(* What the handheld sends, and how the pod hears it undamaged. *)
LEMMA RadioFrameFacts ==
  ASSUME NEW kind \in {"Heartbeat", "Stop"}
  PROVE  LET frame == RadioFrame(kind) IN
         /\ frame \in Seq(Byte) /\ Len(frame) = 5
         /\ Accepts(frame) /\ frame[3] = KindByte[kind]
         /\ Heard(frame) = Classify(kind)
  <1> DEFINE frame == RadioFrame(kind)
  <1>1. kind \in FrameKind /\ <<>> \in Seq(Byte) /\ Len(<<>>) = 0 /\ 0 <= MAX_PAYLOAD
    BY WireAssumption DEF FrameKind
  <1>2. /\ Len(frame) = 0 + 5 /\ Accepts(frame)
        /\ Decoded(frame) = [kind |-> kind, payload |-> <<>>]
    BY <1>1, FramesRoundTrip DEF RadioFrame
  <1>3. frame[3] = KindByte[kind]
    <2>1. PICK other \in FrameKind : frame[3] = KindByte[other]
      BY <1>2 DEF Accepts
    <2> HIDE DEF frame
    <2>2. Decoded(frame).kind \in FrameKind /\ frame[3] = KindByte[Decoded(frame).kind]
      BY <2>1 DEF Decoded
    <2> QED
      BY <1>2, <2>2
  <1>4. frame \in Seq(Byte)
    <2>1. MAX_FRAME_LEN \in Nat
      BY WireAssumption DEF MAX_FRAME_LEN
    <2> QED
      BY <1>1, <2>1, EncodeTyped DEF RadioFrame
  <1>5. Heard(frame) = kind
    BY <1>2 DEF Heard
  <1>6. Classify(kind) = kind
    BY DEF Classify
  <1> QED
    BY <1>2, <1>3, <1>4, <1>5, <1>6

(* Bits that are inverted are no longer the same. *)
LEMMA FlippedFacts ==
  ASSUME NEW frame \in Seq(Byte), NEW places \in SUBSET ((1 .. Len(frame)) \X Bits)
  PROVE  /\ Flipped(frame, places) \in Seq(Byte)
         /\ Len(Flipped(frame, places)) = Len(frame)
         /\ \A n \in 1 .. Len(frame) : \A i \in Bits :
              i \in Flipped(frame, places)[n] <=> ~(i \in frame[n] <=> <<n, i>> \in places)
  <1> DEFINE F(n) == Xor(frame[n], {i \in Bits : <<n, i>> \in places})
  <1>1. PICK len \in Nat : len = Len(frame)
    OBVIOUS
  <1>2. \A n \in 1 .. len : F(n) \in Byte
    BY <1>1 DEF Xor, Byte
  <1>3. \A n \in 1 .. len : \A i \in Bits :
          i \in F(n) <=> ~(i \in frame[n] <=> <<n, i>> \in places)
    BY DEF Xor
  <1>4. Flipped(frame, places) = [n \in 1 .. len |-> F(n)]
    BY <1>1 DEF Flipped
  <1> HIDE DEF F
  <1>5. [n \in 1 .. len |-> F(n)] \in Seq(Byte) /\ Len([n \in 1 .. len |-> F(n)]) = len
    BY <1>1, <1>2
  <1>6. \A n \in 1 .. len : [k \in 1 .. len |-> F(k)][n] = F(n)
    OBVIOUS
  <1> QED
    BY <1>1, <1>3, <1>4, <1>5, <1>6

(* Inverting up to three bits does not make one frame of the other: that    *)
(* takes two bits of the kind, and more than one of the CRC.                *)
LEMMA FlippedUnheard ==
  ASSUME NEW kind \in {"Heartbeat", "Stop"},
         NEW p \in (1 .. 5) \X Bits, NEW q \in (1 .. 5) \X Bits, NEW r \in (1 .. 5) \X Bits,
         Flipped(RadioFrame(kind), {p, q, r}) # RadioFrame(kind)
  PROVE  Heard(Flipped(RadioFrame(kind), {p, q, r})) = "BadFrame"
  <1> DEFINE frame == RadioFrame(kind)
             places == {p, q, r}
             damaged == Flipped(frame, places)
             other == Decoded(damaged).kind
  <1>1. /\ frame \in Seq(Byte) /\ Len(frame) = 5
        /\ Accepts(frame) /\ frame[3] = KindByte[kind]
    BY RadioFrameFacts
  <1> HIDE DEF frame
  <1>2. places \in SUBSET ((1 .. 5) \X Bits)
    OBVIOUS
  <1>3. /\ damaged \in Seq(Byte) /\ Len(damaged) = 5
        /\ \A n \in 1 .. 5 : \A i \in Bits :
             i \in damaged[n] <=> ~(i \in frame[n] <=> <<n, i>> \in places)
    <2> HIDE DEF places
    <2> QED
      BY <1>1, <1>2, FlippedFacts
  <1>4. damaged # frame
    BY DEF frame
  <1> HIDE DEF damaged, places
  <1> SUFFICES ASSUME Accepts(damaged), other # "StateChange" PROVE FALSE
    BY DEF Heard, damaged, places, frame
  <1>4a. \A m \in 1 .. 5 : damaged[m] \in Byte /\ frame[m] \in Byte
    <2>1. \A m \in 1 .. 5 : m \in 1 .. Len(damaged) /\ m \in 1 .. Len(frame)
      BY <1>1, <1>3
    <2> QED
      BY <1>1, <1>3, <2>1, ElementOfSeq
  <1>5. damaged[1] = frame[1] /\ damaged[2] = frame[2]
    BY <1>1 DEF Accepts
  <1>6. other \in {"Heartbeat", "Stop"} /\ damaged[3] = KindByte[other]
    <2>1. PICK k \in FrameKind : damaged[3] = KindByte[k]
      BY DEF Accepts
    <2>2. other \in FrameKind /\ damaged[3] = KindByte[other]
      BY <2>1 DEF Decoded
    <2> QED
      BY <2>2 DEF FrameKind
  <1> HIDE DEF other
  <1>7. \A n \in 1 .. 4 :
          ~ \A i \in 1 .. 5 : i # n /\ i # n + 1 => damaged[i] = frame[i]
    <2> SUFFICES ASSUME NEW n \in 1 .. 4,
                        \A i \in 1 .. 5 : i # n /\ i # n + 1 => damaged[i] = frame[i]
                 PROVE  FALSE
      OBVIOUS
    <2>1. n \in 1 .. Len(frame) - 1 /\ Len(damaged) = Len(frame)
      BY <1>1, <1>3
    <2> QED
      BY <1>1, <1>3, <1>4, <2>1, TwoBytesRefused
  <1>8. CASE other = kind
    <2>1. damaged[3] = frame[3]
      BY <1>1, <1>6, <1>8
    <2>2. \A i \in 1 .. 5 : i # 4 /\ i # 4 + 1 => damaged[i] = frame[i]
      BY <1>5, <2>1
    <2> QED
      BY <1>7, <2>2
  <1>9. CASE other # kind
    <2>1. KindByte["Heartbeat"] = {0} /\ KindByte["Stop"] = {1}
      BY DEF KindByte
    <2>2. \/ frame[3] = {0} /\ damaged[3] = {1}
          \/ frame[3] = {1} /\ damaged[3] = {0}
      BY <1>1, <1>6, <1>9, <2>1
    <2>3. <<3, 0>> \in places /\ <<3, 1>> \in places
      <3>1. 0 \in Bits /\ 1 \in Bits /\ 3 \in 1 .. 5
        BY DEF Bits
      <3>2. 0 \in damaged[3] <=> ~(0 \in frame[3])
        BY <2>2
      <3>3. 1 \in damaged[3] <=> ~(1 \in frame[3])
        BY <2>2
      <3> QED
        BY <1>3, <3>1, <3>2, <3>3
    <2>4. PICK k \in Bits : <<4, k>> \in places
      <3>1. damaged[4] # frame[4]
        BY <1>1, <1>3, <2>2, KindsFarApart
      <3>2. damaged[4] \in Byte /\ frame[4] \in Byte
        BY <1>4a
      <3>3. PICK i \in Bits : ~(i \in damaged[4] <=> i \in frame[4])
        BY <3>1, <3>2 DEF Byte
      <3> QED
        BY <1>3, <3>3
    <2>5. PICK j \in Bits : <<5, j>> \in places
      <3>1. damaged[5] # frame[5]
        <4> SUFFICES ASSUME damaged[5] = frame[5] PROVE FALSE
          OBVIOUS
        <4>1. \A i \in 1 .. 5 : i # 3 /\ i # 3 + 1 => damaged[i] = frame[i]
          BY <1>5
        <4> QED
          BY <1>7, <4>1
      <3>2. damaged[5] \in Byte /\ frame[5] \in Byte
        BY <1>4a
      <3>3. PICK i \in Bits : ~(i \in damaged[5] <=> i \in frame[5])
        BY <3>1, <3>2 DEF Byte
      <3> QED
        BY <1>3, <3>3
    <2>6. {<<3, 0>>, <<3, 1>>, <<4, k>>, <<5, j>>} \subseteq {p, q, r}
      BY <2>3, <2>4, <2>5 DEF places
    <2> QED
      BY <2>6
  <1> QED
    BY <1>8, <1>9

(* Replacing a byte or cutting the end off does not either. *)
LEMMA ReplacedUnheard ==
  ASSUME NEW kind \in {"Heartbeat", "Stop"}, NEW n \in 1 .. 5, NEW byte \in Byte,
         [RadioFrame(kind) EXCEPT ![n] = byte] # RadioFrame(kind)
  PROVE  Heard([RadioFrame(kind) EXCEPT ![n] = byte]) = "BadFrame"
  <1> DEFINE frame == RadioFrame(kind)
             damaged == [frame EXCEPT ![n] = byte]
  <1>1. frame \in Seq(Byte) /\ Len(frame) = 5 /\ Accepts(frame)
    BY RadioFrameFacts
  <1>2. damaged # frame
    OBVIOUS
  <1> HIDE DEF frame
  <1>3. damaged \in Seq(Byte) /\ Len(damaged) = Len(frame)
    <2>1. PICK len \in Nat : len = Len(frame)
      BY <1>1
    <2>2. frame \in [1 .. len -> Byte] /\ DOMAIN frame = 1 .. len
      BY <1>1, <2>1, LenProperties
    <2>3. damaged \in [1 .. len -> Byte]
      BY <2>2
    <2> HIDE DEF damaged
    <2> QED
      BY <2>1, <2>3
  <1>4. PICK m \in 1 .. Len(frame) - 1 : n = m \/ n = m + 1
    <2>1. CASE n = 5
      BY <1>1, <2>1, 4 \in 1 .. 4
    <2>2. CASE n # 5
      BY <1>1, <2>2
    <2> QED
      BY <2>1, <2>2
  <1>5. \A i \in 1 .. Len(frame) : i # m /\ i # m + 1 => damaged[i] = frame[i]
    BY <1>1, <1>4
  <1> HIDE DEF damaged
  <1>6. ~Accepts(damaged)
    BY <1>1, <1>2, <1>3, <1>4, <1>5, TwoBytesRefused
  <1> QED
    BY <1>6 DEF Heard, damaged, frame

LEMMA ShortUnheard ==
  ASSUME NEW kind \in {"Heartbeat", "Stop"}, NEW n \in 0 .. 4
  PROVE  Heard(SubSeq(RadioFrame(kind), 1, n)) = "BadFrame"
  <1> DEFINE frame == RadioFrame(kind)
             short == SubSeq(frame, 1, n)
  <1>1. frame \in Seq(Byte) /\ Len(frame) = 5
    BY RadioFrameFacts
  <1> HIDE DEF frame
  <1>2. Len(short) = n
    BY <1>1
  <1> HIDE DEF short
  <1>3. ~Accepts(short)
    BY <1>2 DEF Accepts, MIN_FRAME_LEN
  <1> QED
    BY <1>3 DEF Heard, short, frame

LEMMA FramesRobust ==
  ASSUME NEW kind \in {"Heartbeat", "Stop"}
  PROVE  Robust(kind)
  <1> DEFINE frame == RadioFrame(kind)
             at == (1 .. 5) \X Bits
  <1>1. Len(frame) = 5 /\ Heard(frame) = Classify(kind)
    BY RadioFrameFacts
  <1>2. ASSUME NEW damaged \in Damaged(frame) PROVE Heard(damaged) = "BadFrame"
    <2>1. /\ damaged # frame
          /\ \/ \E places \in {{p, q, r} : p \in at, q \in at, r \in at} :
                   damaged = Flipped(frame, places)
             \/ \E n \in 1 .. 5, byte \in Byte : damaged = [frame EXCEPT ![n] = byte]
             \/ \E n \in 0 .. 4 : damaged = SubSeq(frame, 1, n)
      <3> DEFINE flipped == {Flipped(frame, places) :
                               places \in {{p, q, r} : p \in at, q \in at, r \in at}}
                 replaced == {[frame EXCEPT ![n] = byte] : n \in 1 .. 5, byte \in Byte}
                 short == {SubSeq(frame, 1, n) : n \in 0 .. 4}
      <3>1. Damaged(frame) = (flipped \cup replaced \cup short) \ {frame}
        <4> HIDE DEF frame
        <4>1. Len(frame) - 1 = 4
          BY <1>1
        <4> QED
          BY <1>1, <4>1 DEF Damaged
      <3>2. damaged # frame /\ (damaged \in flipped \/ damaged \in replaced \/ damaged \in short)
        <4> HIDE DEF flipped, replaced, short, frame
        <4> QED
          BY <1>2, <3>1
      <3> QED
        <4> HIDE DEF frame, at
        <4> QED
          BY <3>2
    <2>2. CASE \E places \in {{p, q, r} : p \in at, q \in at, r \in at} :
                 damaged = Flipped(frame, places)
      <3>1. PICK places \in {{p, q, r} : p \in at, q \in at, r \in at} :
              damaged = Flipped(frame, places)
        BY <2>2
      <3>2. PICK p \in at, q \in at, r \in at : places = {p, q, r}
        <4> HIDE DEF at
        <4> QED
          BY ONLY <3>1
      <3> QED
        BY <2>1, <3>1, <3>2, FlippedUnheard
    <2>3. CASE \E n \in 1 .. 5, byte \in Byte : damaged = [frame EXCEPT ![n] = byte]
      <3>1. PICK n \in 1 .. 5, byte \in Byte : damaged = [frame EXCEPT ![n] = byte]
        BY <2>3
      <3>2. [frame EXCEPT ![n] = byte] # frame
        BY <2>1, <3>1
      <3> QED
        BY <3>1, <3>2, ReplacedUnheard
    <2>4. CASE \E n \in 0 .. 4 : damaged = SubSeq(frame, 1, n)
      BY <2>4, ShortUnheard
    <2> QED
      BY <2>1, <2>2, <2>3, <2>4
  <1> QED
    BY <1>1, <1>2, Zenon DEF Robust

(* Pod and handheld agree on every frame in the air, and one that was       *)
(* damaged on its way is noise to the pod, whichever bits, byte or end of   *)
(* it: decode of rx_task and encode of send_frame.                          *)
THEOREM AirUnderstood == Spec => []AirIsUnderstood
  <1>1. HandheldTypeOK => AirIsUnderstood
    <2> SUFFICES ASSUME HandheldTypeOK, NEW n \in 1 .. Len(air)
                 PROVE  [kind |-> air[n], robust |-> TRUE] \in RadioFrames
      BY DEF AirIsUnderstood
    <2>1. air[n] \in {"Heartbeat", "Stop"}
      BY DEF HandheldTypeOK
    <2>2. Robust(air[n]) = TRUE
      BY <2>1, FramesRobust, Zenon
    <2> QED
      BY <2>1, <2>2, Zenon DEF RadioFrames
  <1> QED
    BY <1>1, Typed, PTL
----------------------------------------------------------------------------
(* The host. *)

LEMMA Regrouped ==
  \A r, s, t \in Seq(Byte) : (r \o s) \o t = r \o (s \o t)
  BY ConcatAssociative

(* A cut in the first of two sequences leaves the second as it is. *)
LEMMA CutBefore ==
  ASSUME NEW s \in Seq(Byte), NEW t \in Seq(Byte),
         NEW m \in 1 .. Len(s), NEW n \in 0 .. Len(s) - 1, m <= n + 1
  PROVE  LET before == SubSeq(s, 1, m - 1) \o SubSeq(s, n + 1, Len(s)) IN
         /\ before \in Seq(Byte) /\ before[Len(before)] = s[Len(s)]
         /\ Remains(s \o t, <<m, n>>) = before \o t \o <<>>
  <1> DEFINE a == SubSeq(s, 1, m - 1)
             b == SubSeq(s, n + 1, Len(s))
             before == a \o b
             sent == s \o t
             c == SubSeq(sent, 1, m - 1)
             d == SubSeq(sent, n + 1, Len(sent))
  <1>1. PICK l \in Nat, k \in Nat : l = Len(s) /\ k = Len(t)
    OBVIOUS
  <1>2. m \in 1 .. l /\ n \in 0 .. l - 1
    BY <1>1
  <1>3. /\ sent \in Seq(Byte) /\ Len(sent) = l + k
        /\ \A i \in 1 .. l : sent[i] = s[i]
        /\ \A i \in 1 .. k : sent[l + i] = t[i]
    BY <1>1, Joined
  <1> HIDE DEF sent
  <1>4. /\ a \in Seq(Byte) /\ Len(a) = m - 1
        /\ \A i \in 1 .. m - 1 : a[i] = s[i]
    <2>1. \A i \in 1 .. m - 1 : s[i] \in Byte
      BY <1>1, <1>2
    <2> QED
      BY <1>2, <2>1, SubSeqProperties
  <1>5. /\ b \in Seq(Byte) /\ Len(b) = l - n
        /\ \A i \in 1 .. l - n : b[i] = s[n + i]
    <2>1. \A i \in n + 1 .. l : s[i] \in Byte
      BY <1>1, <1>2
    <2> QED
      BY <1>1, <1>2, <2>1, SubSeqProperties
  <1>6. /\ c \in Seq(Byte) /\ Len(c) = m - 1
        /\ \A i \in 1 .. m - 1 : c[i] = sent[i]
    <2>1. \A i \in 1 .. m - 1 : sent[i] \in Byte
      BY <1>2, <1>3
    <2> QED
      BY <1>2, <2>1, SubSeqProperties
  <1>7. /\ d \in Seq(Byte) /\ Len(d) = l + k - n
        /\ \A i \in 1 .. l + k - n : d[i] = sent[n + i]
    <2>1. \A i \in n + 1 .. l + k : sent[i] \in Byte
      BY <1>2, <1>3
    <2> QED
      BY <1>2, <1>3, <2>1, SubSeqProperties
  <1>8. a = c
    BY <1>2, <1>3, <1>4, <1>6, SeqEqual
  <1> HIDE DEF a, b, c, d
  <1>9. /\ before \in Seq(Byte) /\ Len(before) = m - 1 + (l - n)
        /\ \A i \in 1 .. l - n : before[m - 1 + i] = b[i]
    <2>1. a \in Seq(Byte) /\ b \in Seq(Byte)
      BY <1>4, <1>5
    <2>2. /\ a \o b \in Seq(Byte) /\ Len(a \o b) = Len(a) + Len(b)
          /\ \A i \in 1 .. Len(b) : (a \o b)[Len(a) + i] = b[i]
      BY ONLY <2>1, Joined, Zenon
    <2> QED
      BY <1>2, <1>4, <1>5, <2>2
  <1>10. before[Len(before)] = s[Len(s)]
    <2>1. l - n \in 1 .. l - n /\ n + (l - n) = l
      BY <1>2
    <2> QED
      BY <1>1, <1>5, <1>9, <2>1
  <1>11. d = b \o t
    <2>1. /\ b \o t \in Seq(Byte) /\ Len(b \o t) = l - n + k
          /\ \A i \in 1 .. l - n : (b \o t)[i] = b[i]
          /\ \A i \in 1 .. k : (b \o t)[l - n + i] = t[i]
      <3>1. b \in Seq(Byte) /\ t \in Seq(Byte)
        BY <1>5
      <3>2. /\ b \o t \in Seq(Byte) /\ Len(b \o t) = Len(b) + Len(t)
            /\ \A i \in 1 .. Len(b) : (b \o t)[i] = b[i]
            /\ \A i \in 1 .. Len(t) : (b \o t)[Len(b) + i] = t[i]
        BY ONLY <3>1, Joined, Zenon
      <3> QED
        BY <1>1, <1>2, <1>5, <3>2
    <2>2. ASSUME NEW i \in 1 .. l + k - n PROVE d[i] = (b \o t)[i]
      <3>1. CASE i <= l - n
        <4>1. i \in 1 .. l - n /\ n + i \in 1 .. l
          BY <1>2, <3>1
        <4> QED
          BY <1>3, <1>5, <1>7, <2>1, <4>1
      <3>2. CASE ~(i <= l - n)
        <4>1. i - (l - n) \in 1 .. k /\ l + (i - (l - n)) = n + i /\ l - n + (i - (l - n)) = i
          BY <1>2, <3>2
        <4>2. (b \o t)[i] = t[i - (l - n)]
          BY <2>1, <4>1
        <4>3. sent[n + i] = t[i - (l - n)]
          BY <1>3, <4>1
        <4> QED
          BY <1>7, <4>2, <4>3
      <3> QED
        BY <3>1, <3>2
    <2>3. Len(d) = Len(b \o t)
      BY <1>2, <1>7, <2>1
    <2> QED
      BY <1>7, <2>1, <2>2, <2>3, SeqEqual
  <1>12. Remains(sent, <<m, n>>) = c \o d
    BY DEF Remains, c, d
  <1>13. c \o d = (a \o b) \o t
    <2>1. a \in Seq(Byte) /\ b \in Seq(Byte) /\ t \in Seq(Byte)
      BY <1>4, <1>5
    <2>2. (a \o b) \o t = a \o (b \o t)
      BY ONLY <2>1, Regrouped, Zenon
    <2> QED
      BY ONLY <1>8, <1>11, <2>2, Zenon
  <1>14. before \o t \o <<>> = before \o t
    <2>1. before \o t \in Seq(Byte)
      BY <1>9, Joined
    <2> QED
      BY <2>1, ConcatEmptySeq
  <1> QED
    BY <1>9, <1>10, <1>12, <1>13, <1>14 DEF a, b, sent

(* What HostResyncs says of the later report, for every pair of reports and *)
(* every room there is for two bytes of payload: a host that missed any     *)
(* stretch of a report but its delimiter reads the next one.                *)
THEOREM LaterReportRead ==
  ASSUME MAX_PAYLOAD >= 2, NEW old \in Views, NEW new \in Views,
         NEW m \in 1 .. Len(Report(old)), NEW n \in 0 .. Len(Report(old)) - 1, m <= n + 1
  PROVE  StateBytes(new) \in Read(Remains(Report(old) \o Report(new), <<m, n>>))
  <1>1. \A view \in Views : StateBytes(view) \in Seq(Byte) /\ Len(StateBytes(view)) = 2
    <2>1. ByteOf(0) \in Byte /\ ByteOf(1) \in Byte
      BY NumberOf
    <2> QED
      BY <2>1 DEF StateBytes
  <1>2. Len(StateBytes(old)) <= MAX_PAYLOAD /\ Len(StateBytes(new)) <= MAX_PAYLOAD
    BY <1>1, WireAssumption
  <1>3. \A view \in Views : /\ Report(view) \in Seq(Byte)
                            /\ Report(view) # <<>> => Report(view)[Len(Report(view))] = {}
    <2> SUFFICES ASSUME NEW view \in Views
                 PROVE  /\ Report(view) \in Seq(Byte)
                        /\ Report(view) # <<>> => Report(view)[Len(Report(view))] = {}
      OBVIOUS
    <2> DEFINE frame == Encode("StateChange", StateBytes(view), MAX_FRAME_LEN)
    <2>0. Len(StateBytes(view)) = 2 /\ StateBytes(view) \in Seq(Byte)
      BY <1>1
    <2>1. frame \in Seq(Byte) /\ Len(frame) = Len(StateBytes(view)) + 5
      <3>1. Len(StateBytes(view)) <= MAX_PAYLOAD /\ "StateChange" \in FrameKind
        BY <1>1, WireAssumption DEF FrameKind
      <3>2. MAX_FRAME_LEN \in Nat
        BY WireAssumption DEF MAX_FRAME_LEN
      <3> QED
        BY <1>1, <3>1, <3>2, EncodeTyped, FramesRoundTrip
    <2> HIDE DEF frame
    <2>2. Stuffed(frame) \in Seq(Byte)
      <3>1. Len(frame) < 254
        BY <1>2, <2>1, <2>0, WireAssumption
      <3> QED
        BY ONLY <2>1, <3>1, StuffedFacts
    <2>3. {} \in Byte
      BY DEF Byte
    <2> HIDE DEF frame
    <2>4. Report(view) = <<>> \/ Report(view) = Append(Stuffed(frame), {})
      BY DEF Report, CobsEncode, frame
    <2>5. ASSUME NEW s \in Seq(Byte)
          PROVE  Append(s, {}) \in Seq(Byte) /\ Append(s, {})[Len(Append(s, {}))] = {}
      BY <2>3
    <2>6. <<>> \in Seq(Byte)
      OBVIOUS
    <2> QED
      BY ONLY <2>2, <2>4, <2>5, <2>6, Zenon
  <1> DEFINE before == SubSeq(Report(old), 1, m - 1) \o SubSeq(Report(old), n + 1, Len(Report(old)))
  <1>4. /\ before \in Seq(Byte) /\ before[Len(before)] = Report(old)[Len(Report(old))]
        /\ Remains(Report(old) \o Report(new), <<m, n>>) = before \o Report(new) \o <<>>
    BY <1>3, CutBefore
  <1> HIDE DEF before
  <1>5. before[Len(before)] = {}
    <2>1. Report(old) # <<>>
      BY <1>3
    <2> QED
      BY <1>3, <1>4, <2>1
  <1>6. StateBytes(new) \in Read(before \o Report(new) \o <<>>)
    <2>1. "StateChange" \in FrameKind /\ <<>> \in Seq(Byte)
      BY DEF FrameKind
    <2> QED
      BY <1>1, <1>2, <1>4, <1>5, <2>1, HostInStep DEF Report
  <1> QED
    BY <1>4, <1>6

=============================================================================
