----------------------------- MODULE WireProofs -----------------------------
(* Frames and their CRC, and their COBS framing, for every payload: what    *)
(* one end encodes the other decodes, and what was damaged it refuses.      *)
EXTENDS Wire, TLAPS, SequenceTheorems, WellFoundedInduction

(* The least of some naturals, and so induction, for a set in the place of  *)
(* a predicate.                                                             *)
LEMMA Least ==
  ASSUME NEW T, T \subseteq Nat, T # {}
  PROVE  \E m \in T : \A k \in T : m <= k
  <1>1. IsWellFoundedOn(OpToRel(<, Nat), Nat)
    BY NatLessThanWellFounded
  <1>2. PICK m \in T : \A k \in T : ~(<<k, m>> \in OpToRel(<, Nat))
    BY ONLY <1>1, T \subseteq Nat, T # {}, WFMin
  <1>3. OpToRel(<, Nat) = {p \in Nat \X Nat : p[1] < p[2]}
    BY DEF OpToRel
  <1>4. ASSUME NEW k \in T PROVE m <= k
    <2> SUFFICES ASSUME k < m PROVE FALSE
      OBVIOUS
    <2>1. <<k, m>> \in {p \in Nat \X Nat : p[1] < p[2]}
      OBVIOUS
    <2> QED
      BY <1>2, <1>3, <2>1, Zenon
  <1> QED
    BY <1>4

LEMMA Counting ==
  ASSUME NEW S, 0 \in S, \A n \in Nat : n \in S => n + 1 \in S
  PROVE  Nat \subseteq S
  <1> DEFINE T == Nat \ S
  <1> SUFFICES ASSUME T # {} PROVE FALSE
    OBVIOUS
  <1>1. PICK m \in T : \A k \in T : m <= k
    <2>1. T \subseteq Nat
      OBVIOUS
    <2> HIDE DEF T
    <2> QED
      BY <2>1, Least
  <1>2. m - 1 \in Nat /\ m - 1 + 1 = m
    OBVIOUS
  <1>3. m - 1 \in T
    BY <1>2
  <1> QED
    BY <1>1, <1>3

----------------------------------------------------------------------------
Register == SUBSET U16

(* A shift keeps its register apart from every other: the bit it loses      *)
(* comes back as bit 15, which no other can have set.                       *)
LEMMA ShiftedTyped == \A r \in Register : Shifted(r) \in Register
  BY DEF Shifted, Xor, Register, U16

LEMMA ShiftedInjective ==
  ASSUME NEW a \in Register, NEW b \in Register, Shifted(a) = Shifted(b)
  PROVE  a = b
  <1>1. \A r \in Register :
          /\ 15 \in Shifted(r) <=> 0 \in r
          /\ \A i \in 0 .. 14 : i + 1 \in r <=>
               IF 0 \in r THEN (i \in Shifted(r) <=> i \notin {3, 10, 15})
                          ELSE i \in Shifted(r)
    BY DEF Shifted, Xor
  <1>2. 0 \in a <=> 0 \in b
    BY <1>1
  <1>3. \A i \in 0 .. 14 : i + 1 \in a <=> i + 1 \in b
    BY <1>1, <1>2
  <1>4. \A j \in U16 : j \in a <=> j \in b
    <2> TAKE j \in U16
    <2>1. CASE j = 0
      BY <1>2, <2>1
    <2>2. CASE j # 0
      <3>1. j - 1 \in 0 .. 14 /\ j = (j - 1) + 1
        BY <2>2 DEF U16
      <3> QED
        BY <1>3, <3>1
    <2> QED
      BY <2>1, <2>2
  <1> QED
    BY <1>4 DEF Register

(* What is not shifted out may as well be added after the shift. *)
LEMMA ShiftedXor ==
  ASSUME NEW r \in Register, NEW d \in Register, 0 \notin d
  PROVE  Shifted(Xor(r, d)) = Xor(Shifted(r), {i \in 0 .. 14 : i + 1 \in d})
  <1>1. 0 \in Xor(r, d) <=> 0 \in r
    BY DEF Xor
  <1>2. CASE 0 \in r
    BY <1>1, <1>2 DEF Shifted, Xor
  <1>3. CASE 0 \notin r
    BY <1>1, <1>3 DEF Shifted, Xor
  <1> QED
    BY <1>2, <1>3

LEMMA Shifted4Facts ==
  /\ \A r \in Register : Shifted4(r) \in Register
  /\ \A a, b \in Register : Shifted4(a) = Shifted4(b) => a = b
  /\ Shifted4({}) = {}
  /\ \A r, d \in Register : d \subseteq 4 .. 15 =>
       Shifted4(Xor(r, d)) = Xor(Shifted4(r), {i \in 0 .. 11 : i + 4 \in d})
  <1>1. \A r \in Register : Shifted4(r) \in Register
    BY ShiftedTyped DEF Shifted4
  <1>2. \A a, b \in Register : Shifted4(a) = Shifted4(b) => a = b
    BY ShiftedTyped, ShiftedInjective DEF Shifted4
  <1>3. Shifted4({}) = {}
    BY DEF Shifted4, Shifted
  <1>4. ASSUME NEW r \in Register, NEW d \in Register, d \subseteq 4 .. 15
        PROVE  Shifted4(Xor(r, d)) = Xor(Shifted4(r), {i \in 0 .. 11 : i + 4 \in d})
    <2> DEFINE e1 == {i \in 0 .. 14 : i + 1 \in d}
               e2 == {i \in 0 .. 14 : i + 1 \in e1}
               e3 == {i \in 0 .. 14 : i + 1 \in e2}
               e4 == {i \in 0 .. 14 : i + 1 \in e3}
    <2>1. /\ e1 \in Register /\ e2 \in Register /\ e3 \in Register
          /\ 0 \notin d /\ 0 \notin e1 /\ 0 \notin e2 /\ 0 \notin e3
      BY <1>4 DEF Register, U16
    <2>2. e4 = {i \in 0 .. 11 : i + 4 \in d}
      BY <1>4
    <2> HIDE DEF e1, e2, e3, e4
    <2>3. Shifted(Xor(r, d)) = Xor(Shifted(r), e1)
      BY <2>1, ShiftedXor DEF e1
    <2>4. Shifted(Xor(Shifted(r), e1)) = Xor(Shifted(Shifted(r)), e2)
      BY <2>1, ShiftedXor, ShiftedTyped DEF e2
    <2>5. Shifted(Xor(Shifted(Shifted(r)), e2)) = Xor(Shifted(Shifted(Shifted(r))), e3)
      BY <2>1, ShiftedXor, ShiftedTyped DEF e3
    <2>6. Shifted(Xor(Shifted(Shifted(Shifted(r))), e3)) = Xor(Shifted4(r), e4)
      BY <2>1, ShiftedXor, ShiftedTyped DEF e4, Shifted4
    <2> QED
      BY <2>2, <2>3, <2>4, <2>5, <2>6 DEF Shifted4
  <1> QED
    BY <1>1, <1>2, <1>3, <1>4

(* Two bytes go through the register as one number of 16 bits. *)
LEMMA TwoBytes ==
  ASSUME NEW r \in Register, NEW lo \in Byte, NEW hi \in Byte
  PROVE  /\ Updated(r, lo) \in Register
         /\ Updated(Updated(r, lo), hi)
              = Shifted4(Shifted4(Shifted4(Shifted4(Xor(r, from_le_bytes(lo, hi))))))
  <1> DEFINE up == {i + 8 : i \in hi}
             half == {i \in 0 .. 11 : i + 4 \in up}
  <1>1. Xor(r, lo) \in Register
    BY DEF Xor, Register, U16, Byte, Bits
  <1>2. up \in Register /\ up \subseteq 8 .. 15
    BY DEF Register, U16, Byte, Bits
  <1>3. half \in Register /\ half \subseteq 4 .. 15
    BY <1>2 DEF Register, U16
  <1>4. {i \in 0 .. 11 : i + 4 \in half} = hi
    <2>1. ASSUME NEW i \in 0 .. 11, i + 4 \in half PROVE i \in hi
      <3>1. i + 8 \in up
        BY <2>1
      <3>2. PICK j \in hi : i + 8 = j + 8
        BY <3>1
      <3> QED
        BY <3>2 DEF Byte, Bits
    <2>2. ASSUME NEW i \in hi PROVE i \in 0 .. 11 /\ i + 4 \in half
      <3>1. i \in 0 .. 7 /\ i + 4 + 4 = i + 8
        BY DEF Byte, Bits
      <3> QED
        BY <3>1
    <2> QED
      BY <2>1, <2>2
  <1>5. Xor(Xor(r, lo), up) = Xor(r, from_le_bytes(lo, hi))
    <2>1. lo \cap up = {}
      BY <1>2 DEF Byte, Bits
    <2> HIDE DEF up
    <2>2. Xor(Xor(r, lo), up) = Xor(r, lo \cup up)
      BY <2>1 DEF Xor
    <2> QED
      BY <2>2 DEF from_le_bytes, up
  <1> HIDE DEF up, half
  <1>6. Shifted4(Xor(Xor(r, lo), up)) = Xor(Shifted4(Xor(r, lo)), half)
    BY <1>1, <1>2, Shifted4Facts DEF half
  <1>7. Shifted4(Xor(Shifted4(Xor(r, lo)), half)) = Xor(Updated(r, lo), hi)
    BY <1>1, <1>3, <1>4, Shifted4Facts DEF Updated
  <1>8. Updated(r, lo) \in Register
    BY <1>1, Shifted4Facts DEF Updated
  <1> QED
    BY <1>5, <1>6, <1>7, <1>8 DEF Updated

(* The other way round, for two bytes that came from the air. *)
LEMMA LittleEndianBack ==
  ASSUME NEW lo \in Byte, NEW hi \in Byte
  PROVE  to_le_bytes(from_le_bytes(lo, hi)) = <<lo, hi>>
  <1> DEFINE crc == lo \cup {i + 8 : i \in hi}
  <1>1. crc \cap Bits = lo
    <2>1. lo \subseteq Bits
      BY DEF Byte
    <2>2. ASSUME NEW n \in {i + 8 : i \in hi} PROVE n \notin Bits
      BY DEF Byte, Bits
    <2> QED
      BY <2>1, <2>2
  <1>2. {i \in Bits : i + 8 \in crc} = hi
    <2>1. ASSUME NEW i \in Bits, i + 8 \in crc PROVE i \in hi
      <3>1. i + 8 \notin lo
        BY DEF Byte, Bits
      <3>2. PICK j \in hi : i + 8 = j + 8
        BY <2>1, <3>1
      <3>3. i \in Nat /\ j \in Nat
        BY DEF Byte, Bits
      <3> QED
        BY <3>2, <3>3
    <2>2. ASSUME NEW i \in hi PROVE i \in Bits /\ i + 8 \in crc
      BY DEF Byte
    <2> QED
      BY <2>1, <2>2
  <1>3. from_le_bytes(lo, hi) = crc
    BY DEF from_le_bytes
  <1> HIDE DEF crc
  <1> QED
    BY <1>1, <1>2, <1>3 DEF to_le_bytes

LEMMA LittleEndianTyped ==
  \A lo, hi \in Byte : from_le_bytes(lo, hi) \in Register
  <1> TAKE lo \in Byte, hi \in Byte
  <1>1. \A n \in lo : n \in 0 .. 15
    BY DEF Byte, Bits
  <1>2. \A n \in hi : n + 8 \in 0 .. 15
    BY DEF Byte, Bits
  <1> QED
    BY <1>1, <1>2 DEF from_le_bytes, Register, U16

(* So two different pairs leave different registers, and a pair cancels     *)
(* only the register it is equal to.                                        *)
LEMMA PairsDiffer ==
  ASSUME NEW r \in Register, NEW a \in Byte, NEW b \in Byte, NEW c \in Byte, NEW d \in Byte,
         Updated(Updated(r, a), b) = Updated(Updated(r, c), d)
  PROVE  a = c /\ b = d
  <1> DEFINE x == Xor(r, from_le_bytes(a, b))
             y == Xor(r, from_le_bytes(c, d))
  <1>1. from_le_bytes(a, b) \in Register /\ from_le_bytes(c, d) \in Register
    BY LittleEndianTyped
  <1>2. x \in Register /\ y \in Register
    BY <1>1 DEF Xor, Register
  <1>3. Shifted4(Shifted4(Shifted4(Shifted4(x)))) = Shifted4(Shifted4(Shifted4(Shifted4(y))))
    BY TwoBytes
  <1>4. x = y
    <2> HIDE DEF x, y
    <2> QED
      BY <1>2, <1>3, Shifted4Facts
  <1>5. from_le_bytes(a, b) = from_le_bytes(c, d)
    BY <1>4 DEF Xor
  <1> QED
    BY <1>5, LittleEndianBack

LEMMA PairCancels ==
  ASSUME NEW r \in Register, NEW lo \in Byte, NEW hi \in Byte
  PROVE  Updated(Updated(r, lo), hi) = {} <=> r = from_le_bytes(lo, hi)
  <1> DEFINE x == Xor(r, from_le_bytes(lo, hi))
  <1>1. x \in Register /\ {} \in Register
    BY LittleEndianTyped DEF Xor, Register
  <1>2. Updated(Updated(r, lo), hi) = Shifted4(Shifted4(Shifted4(Shifted4(x))))
    BY TwoBytes
  <1>3. x = {} <=> r = from_le_bytes(lo, hi)
    BY DEF Xor
  <1> HIDE DEF x
  <1>4. Shifted4(Shifted4(Shifted4(Shifted4(x)))) = {} <=> x = {}
    BY <1>1, Shifted4Facts
  <1> QED
    BY <1>2, <1>3, <1>4

LEMMA UpdatedInjective ==
  ASSUME NEW a \in Register, NEW b \in Register, NEW byte \in Byte,
         Updated(a, byte) = Updated(b, byte)
  PROVE  a = b
  <1>1. Xor(a, byte) \in Register /\ Xor(b, byte) \in Register
    BY DEF Xor, Register, U16, Byte, Bits
  <1>2. Xor(a, byte) = Xor(b, byte)
    BY <1>1, Shifted4Facts DEF Updated
  <1> QED
    BY <1>2 DEF Xor
----------------------------------------------------------------------------
(* The registers crc16 runs through. *)
Runs(register, bytes) ==
  register = [n \in 0 .. Len(bytes) |->
                IF n = 0 THEN {} ELSE Updated(register[n - 1], bytes[n])]

(* They exist, however long the bytes are, and crc16 is the last. *)
LEMMA RegistersExist ==
  ASSUME NEW bytes \in Seq(Byte)
  PROVE  \E register : Runs(register, bytes) /\ crc16(bytes) = register[Len(bytes)]
  <1> DEFINE Is(r, k) == r = [n \in 0 .. k |->
                                IF n = 0 THEN {} ELSE Updated(r[n - 1], bytes[n])]
             S == {k \in Nat : \E r : Is(r, k)}
  <1>1. 0 \in S
    <2>1. Is([n \in 0 .. 0 |-> {}], 0)
      OBVIOUS
    <2> QED
      BY <2>1
  <1>2. ASSUME NEW n \in Nat, n \in S PROVE n + 1 \in S
    <2>1. PICK r : Is(r, n)
      BY <1>2
    <2> DEFINE q == [i \in 0 .. n + 1 |->
                       IF i = n + 1 THEN Updated(r[n], bytes[n + 1]) ELSE r[i]]
    <2>2. Is(q, n + 1)
      <3>1. ASSUME NEW i \in 0 .. n + 1
            PROVE  q[i] = IF i = 0 THEN {} ELSE Updated(q[i - 1], bytes[i])
        <4>1. CASE i = n + 1
          BY <4>1
        <4>2. CASE i # n + 1
          <5>1. i \in 0 .. n /\ (i # 0 => i - 1 \in 0 .. n)
            BY <4>2
          <5>2. q[i] = r[i] /\ (i # 0 => q[i - 1] = r[i - 1])
            BY <5>1
          <5>3. r[i] = IF i = 0 THEN {} ELSE Updated(r[i - 1], bytes[i])
            BY <2>1, <5>1
          <5> QED
            BY <5>2, <5>3
        <4> QED
          BY <4>1, <4>2
      <3> QED
        BY <3>1
    <2> HIDE DEF q
    <2> QED
      BY <2>2
  <1>3. Nat \subseteq S
    <2> HIDE DEF S
    <2> QED
      BY <1>1, <1>2, Counting
  <1>4. \E r : Is(r, Len(bytes))
    <2>1. Len(bytes) \in Nat
      OBVIOUS
    <2>2. Len(bytes) \in S
      <3> HIDE DEF S
      <3> QED
        BY <1>3, <2>1
    <2> HIDE DEF Is
    <2> QED
      BY <2>2
  <1>5. PICK r : Is(r, Len(bytes))
    BY <1>4
  <1> QED
    BY <1>5 DEF crc16, Runs

LEMMA RunsOn ==
  ASSUME NEW bytes \in Seq(Byte), NEW r, Runs(r, bytes)
  PROVE  /\ r[0] = {}
         /\ \A n \in 1 .. Len(bytes) : r[n] = Updated(r[n - 1], bytes[n])
         /\ \A n \in 0 .. Len(bytes) : r[n] \in Register
  <1>1. r[0] = {} /\ \A n \in 1 .. Len(bytes) : r[n] = Updated(r[n - 1], bytes[n])
    <2>1. Len(bytes) \in Nat
      OBVIOUS
    <2>2. \A n \in 0 .. Len(bytes) :
            r[n] = IF n = 0 THEN {} ELSE Updated(r[n - 1], bytes[n])
      <3> DEFINE F(n) == IF n = 0 THEN {} ELSE Updated(r[n - 1], bytes[n])
      <3>1. r = [n \in 0 .. Len(bytes) |-> F(n)]
        BY DEF Runs
      <3> HIDE DEF F
      <3>2. \A n \in 0 .. Len(bytes) : r[n] = F(n)
        BY <3>1
      <3> QED
        BY <3>2 DEF F
    <2> QED
      BY <2>1, <2>2
  <1> DEFINE S == {n \in Nat : n <= Len(bytes) => r[n] \in Register}
  <1>2. 0 \in S
    BY <1>1 DEF Register
  <1>3. ASSUME NEW n \in Nat, n \in S PROVE n + 1 \in S
    <2> SUFFICES ASSUME n + 1 <= Len(bytes) PROVE r[n + 1] \in Register
      OBVIOUS
    <2>1. r[n] \in Register /\ bytes[n + 1] \in Byte /\ r[n + 1] = Updated(r[n], bytes[n + 1])
      BY <1>1, <1>3
    <2> QED
      BY <2>1, TwoBytes
  <1>4. Nat \subseteq S
    <2> HIDE DEF S
    <2> QED
      BY <1>2, <1>3, Counting
  <1> QED
    BY <1>1, <1>4

LEMMA CrcTyped == \A bytes \in Seq(Byte) : crc16(bytes) \in Register
  BY RegistersExist, RunsOn

(* Bytes that begin alike leave the same registers, ... *)
LEMMA SameBeginning ==
  ASSUME NEW s \in Seq(Byte), NEW t \in Seq(Byte), NEW r, NEW q, Runs(r, s), Runs(q, t),
         NEW m \in Nat, m <= Len(s), m <= Len(t), \A n \in 1 .. m : s[n] = t[n]
  PROVE  r[m] = q[m]
  <1> DEFINE S == {n \in Nat : n <= m => r[n] = q[n]}
  <1>1. 0 \in S
    BY RunsOn
  <1>2. ASSUME NEW n \in Nat, n \in S PROVE n + 1 \in S
    <2> SUFFICES ASSUME n + 1 <= m PROVE r[n + 1] = q[n + 1]
      OBVIOUS
    <2>1. r[n] = q[n] /\ s[n + 1] = t[n + 1]
      BY <1>2
    <2>2. r[n + 1] = Updated(r[n], s[n + 1]) /\ q[n + 1] = Updated(q[n], t[n + 1])
      BY RunsOn
    <2> QED
      BY <2>1, <2>2
  <1>3. Nat \subseteq S
    <2> HIDE DEF S
    <2> QED
      BY <1>1, <1>2, Counting
  <1> QED
    BY <1>3

(* ... and registers that differ stay different over the same bytes. *)
LEMMA SameEnd ==
  ASSUME NEW s \in Seq(Byte), NEW t \in Seq(Byte), Len(s) = Len(t),
         NEW r, NEW q, Runs(r, s), Runs(q, t),
         NEW m \in 0 .. Len(s), r[m] # q[m], \A n \in m + 1 .. Len(s) : s[n] = t[n]
  PROVE  crc16(s) # crc16(t)
  <1> DEFINE S == {k \in Nat : m + k <= Len(s) => r[m + k] # q[m + k]}
  <1>1. 0 \in S
    OBVIOUS
  <1>2. ASSUME NEW k \in Nat, k \in S PROVE k + 1 \in S
    <2> SUFFICES ASSUME m + (k + 1) <= Len(s) PROVE r[m + (k + 1)] # q[m + (k + 1)]
      OBVIOUS
    <2> DEFINE n == m + (k + 1)
    <2>1. n \in m + 1 .. Len(s) /\ n \in 1 .. Len(s) /\ n - 1 = m + k /\ n - 1 \in 0 .. Len(s)
      OBVIOUS
    <2>2. r[n - 1] # q[n - 1]
      BY <1>2, <2>1
    <2> HIDE DEF n
    <2>3. s[n] = t[n] /\ s[n] \in Byte
      BY <2>1
    <2>4. r[n] = Updated(r[n - 1], s[n]) /\ q[n] = Updated(q[n - 1], t[n])
      BY <2>1, RunsOn
    <2>5. r[n - 1] \in Register /\ q[n - 1] \in Register
      BY <2>1, RunsOn
    <2>6. r[n] # q[n]
      BY <2>2, <2>3, <2>4, <2>5, UpdatedInjective
    <2> QED
      BY <2>6 DEF n
  <1>3. Nat \subseteq S
    <2> HIDE DEF S
    <2> QED
      BY <1>1, <1>2, Counting
  <1>4. r[Len(s)] # q[Len(s)]
    <2>1. Len(s) - m \in Nat /\ m + (Len(s) - m) = Len(s)
      OBVIOUS
    <2> QED
      BY <1>3, <2>1
  <1>5. \A x, y : Runs(x, s) /\ Runs(y, s) => x[Len(s)] = y[Len(s)]
    BY SameBeginning
  <1>6. \A x, y : Runs(x, t) /\ Runs(y, t) => x[Len(t)] = y[Len(t)]
    BY SameBeginning
  <1> QED
    BY <1>4, <1>5, <1>6, RegistersExist

(* Two neighbouring bytes decide a CRC, whatever is around them. *)
LEMMA PairDecides ==
  ASSUME NEW s \in Seq(Byte), NEW t \in Seq(Byte), Len(s) = Len(t),
         NEW n \in 1 .. Len(s) - 1, s[n] # t[n] \/ s[n + 1] # t[n + 1],
         \A i \in 1 .. Len(s) : i # n /\ i # n + 1 => s[i] = t[i]
  PROVE  crc16(s) # crc16(t)
  <1>1. PICK r : Runs(r, s)
    BY RegistersExist
  <1>2. PICK q : Runs(q, t)
    BY RegistersExist
  <1>3. r[n - 1] = q[n - 1] /\ r[n - 1] \in Register
    <2>1. n - 1 \in Nat /\ n - 1 <= Len(s) /\ n - 1 <= Len(t) /\ n - 1 \in 0 .. Len(s)
      OBVIOUS
    <2>2. \A i \in 1 .. n - 1 : s[i] = t[i]
      OBVIOUS
    <2> QED
      BY <1>1, <1>2, <2>1, <2>2, SameBeginning, RunsOn
  <1>4. /\ r[n + 1] = Updated(Updated(r[n - 1], s[n]), s[n + 1])
        /\ q[n + 1] = Updated(Updated(q[n - 1], t[n]), t[n + 1])
    <2>1. n \in 1 .. Len(s) /\ n + 1 \in 1 .. Len(s) /\ (n + 1) - 1 = n
      OBVIOUS
    <2> QED
      BY <1>1, <1>2, <2>1, RunsOn
  <1>5. s[n] \in Byte /\ s[n + 1] \in Byte /\ t[n] \in Byte /\ t[n + 1] \in Byte
    OBVIOUS
  <1>6. r[n + 1] # q[n + 1]
    BY <1>3, <1>4, <1>5, PairsDiffer
  <1>7. n + 1 \in 0 .. Len(s) /\ \A i \in n + 1 + 1 .. Len(s) : s[i] = t[i]
    OBVIOUS
  <1> QED
    BY <1>1, <1>2, <1>6, <1>7, SameEnd

(* Bytes followed by their own CRC leave nothing in the register. *)
LEMMA Residue ==
  ASSUME NEW s \in Seq(Byte), NEW t \in Seq(Byte), Len(t) = Len(s) + 2,
         \A n \in 1 .. Len(s) : t[n] = s[n]
  PROVE  crc16(t) = {} <=> crc16(s) = from_le_bytes(t[Len(t) - 1], t[Len(t)])
  <1> DEFINE m == Len(s)
  <1>1. PICK r : Runs(r, s) /\ crc16(s) = r[m]
    BY RegistersExist
  <1>2. PICK q : Runs(q, t) /\ crc16(t) = q[Len(t)]
    BY RegistersExist
  <1>3. m \in Nat /\ m <= Len(s) /\ m <= Len(t) /\ m \in 0 .. Len(t)
    OBVIOUS
  <1>4. r[m] = q[m] /\ q[m] \in Register
    BY <1>1, <1>2, <1>3, SameBeginning, RunsOn
  <1>5. q[Len(t)] = Updated(Updated(q[m], t[Len(t) - 1]), t[Len(t)])
    <2>1. /\ Len(t) - 1 \in 1 .. Len(t) /\ Len(t) \in 1 .. Len(t)
          /\ Len(t) - 1 - 1 = m
      OBVIOUS
    <2> QED
      BY <1>2, <2>1, RunsOn
  <1>6. t[Len(t) - 1] \in Byte /\ t[Len(t)] \in Byte
    OBVIOUS
  <1> QED
    BY <1>1, <1>2, <1>4, <1>5, <1>6, PairCancels

(* What the CRC covers, byte for byte. *)
LEMMA CoveredTyped ==
  ASSUME NEW bytes \in Seq(Byte), Len(bytes) >= 1
  PROVE  /\ Covered(bytes) \in Seq(Byte) /\ Len(Covered(bytes)) = Len(bytes) - 1
         /\ \A n \in 1 .. Len(bytes) - 1 : Covered(bytes)[n] = bytes[n + 1]
  <1>1. PICK len \in Nat : len = Len(bytes) /\ len >= 1
    OBVIOUS
  <1>2. \A i \in 2 .. len : bytes[i] \in Byte
    BY <1>1
  <1>3. /\ Len(SubSeq(bytes, 2, len)) = IF 2 <= len THEN len - 2 + 1 ELSE 0
        /\ \A i \in 1 .. len - 2 + 1 : SubSeq(bytes, 2, len)[i] = bytes[2 + i - 1]
    BY <1>1, <1>2, SubSeqProperties
  <1>4. SubSeq(bytes, 2, len) \in Seq(Byte)
    BY <1>1, <1>2
  <1> QED
    BY <1>1, <1>3, <1>4 DEF Covered

----------------------------------------------------------------------------
(* The two bytes of a CRC are the CRC. *)
LEMMA LittleEndian ==
  ASSUME NEW crc \in SUBSET U16
  PROVE  \E lo, hi \in Byte : to_le_bytes(crc) = <<lo, hi>> /\ from_le_bytes(lo, hi) = crc
  <1> DEFINE lo == crc \cap Bits
             hi == {i \in Bits : i + 8 \in crc}
  <1>1. to_le_bytes(crc) = <<lo, hi>>
    BY DEF to_le_bytes
  <1>2. lo \in Byte /\ hi \in Byte
    BY DEF Byte
  <1>3. lo \cup {i + 8 : i \in hi} = crc
    <2>1. ASSUME NEW n \in crc PROVE n \in lo \cup {i + 8 : i \in hi}
      <3>1. n \in 0 .. 15
        BY DEF U16
      <3>2. CASE n \in 0 .. 7
        BY <3>2 DEF Bits
      <3>3. CASE n \in 8 .. 15
        <4>1. n - 8 \in hi /\ n = (n - 8) + 8
          BY <3>3 DEF Bits
        <4> QED
          BY <4>1
      <3> QED
        BY <3>1, <3>2, <3>3
    <2>2. ASSUME NEW n \in lo \cup {i + 8 : i \in hi} PROVE n \in crc
      OBVIOUS
    <2> QED
      BY <2>1, <2>2
  <1>4. from_le_bytes(lo, hi) = crc
    BY <1>3 DEF from_le_bytes
  <1> HIDE DEF lo, hi
  <1> QED
    BY <1>1, <1>2, <1>4

(* encode makes bytes. *)
LEMMA EncodeTyped ==
  ASSUME NEW kind \in FrameKind, NEW payload \in Seq(Byte), NEW room \in Nat
  PROVE  Encode(kind, payload, room) \in Seq(Byte)
  <1> DEFINE head == <<MAGIC, VERSION, KindByte[kind]>>
             body == head \o payload
  <1>1. head \in Seq(Byte) /\ Len(head) = 3
    BY DEF MAGIC, VERSION, KindByte, Byte, Bits, FrameKind
  <1>2. body \in Seq(Byte) /\ Len(body) >= 1
    BY <1>1
  <1> HIDE DEF head
  <1>3. crc16(Covered(body)) \in SUBSET U16
    BY <1>2, CoveredTyped, CrcTyped DEF Register
  <1>4. to_le_bytes(crc16(Covered(body))) \in Seq(Byte)
    <2> HIDE DEF body
    <2>1. PICK lo \in Byte, hi \in Byte : to_le_bytes(crc16(Covered(body))) = <<lo, hi>>
      BY <1>3, LittleEndian
    <2> QED
      BY <2>1
  <1> HIDE DEF body
  <1>5. \/ Encode(kind, payload, room) = body \o to_le_bytes(crc16(Covered(body)))
        \/ Encode(kind, payload, room) = <<>>
    BY DEF Encode, body, head
  <1>6. body \o to_le_bytes(crc16(Covered(body))) \in Seq(Byte) /\ <<>> \in Seq(Byte)
    BY <1>2, <1>4
  <1> QED
    BY ONLY <1>5, <1>6, Zenon

(* No two kinds have the same byte. *)
LEMMA KindsDiffer ==
  \A a, b \in FrameKind : KindByte[a] = KindByte[b] => a = b
  <1>1. /\ KindByte["Heartbeat"] = {0} /\ KindByte["Stop"] = {1}
        /\ KindByte["StateChange"] = {0, 4}
    BY DEF KindByte
  <1>2. KindByte["Heartbeat"] # KindByte["Stop"]
    BY <1>1, 0 \in {0}, 0 \notin {1}
  <1>3. KindByte["Heartbeat"] # KindByte["StateChange"]
    BY <1>1, 4 \in {0, 4}, 4 \notin {0}
  <1>4. KindByte["Stop"] # KindByte["StateChange"]
    BY <1>1, 4 \in {0, 4}, 4 \notin {1}
  <1> QED
    BY <1>2, <1>3, <1>4 DEF FrameKind

(* Whatever encode puts into a frame within the limit, decode accepts and   *)
(* gives back: the kind and every byte of the payload.                      *)
THEOREM FramesRoundTrip ==
  ASSUME NEW kind \in FrameKind,
         NEW payload \in Seq(Byte), Len(payload) <= MAX_PAYLOAD
  PROVE  LET frame == Encode(kind, payload, MAX_FRAME_LEN) IN
         /\ Len(frame) = Len(payload) + 5
         /\ Accepts(frame)
         /\ Decoded(frame) = [kind |-> kind, payload |-> payload]
  <1> DEFINE head == <<MAGIC, VERSION, KindByte[kind]>>
             body == head \o payload
             crc == crc16(Covered(body))
             frame == Encode(kind, payload, MAX_FRAME_LEN)
  <1>1. head \in Seq(Byte) /\ Len(head) = 3
    BY DEF MAGIC, VERSION, KindByte, Byte, Bits, FrameKind
  <1>2. body \in Seq(Byte) /\ Len(body) = Len(payload) + 3
    BY <1>1
  <1>3. /\ body[1] = MAGIC /\ body[2] = VERSION /\ body[3] = KindByte[kind]
        /\ \A n \in 1 .. Len(payload) : body[n + 3] = payload[n]
    BY <1>1
  <1>4. PICK lo \in Byte, hi \in Byte :
          to_le_bytes(crc) = <<lo, hi>> /\ from_le_bytes(lo, hi) = crc
    <2>1. crc \in SUBSET U16
      <3>1. Len(body) >= 1
        BY <1>2
      <3> HIDE DEF body
      <3>2. Covered(body) \in Seq(Byte)
        BY <1>2, <3>1, CoveredTyped
      <3> QED
        BY <3>2, CrcTyped DEF Register
    <2> QED
      BY <2>1, LittleEndian
  <1>5. frame = body \o <<lo, hi>>
    <2>1. ~(Len(payload) > MAX_PAYLOAD \/ MAX_FRAME_LEN < Len(body) + 2)
      BY <1>2, WireAssumption DEF MAX_FRAME_LEN
    <2> QED
      BY <1>4, <2>1 DEF Encode
  <1> HIDE DEF body, crc, frame
  <1>6. frame \in Seq(Byte) /\ Len(frame) = Len(payload) + 5
    BY <1>2, <1>5
  <1>7. \A n \in 1 .. Len(payload) + 3 : frame[n] = body[n]
    BY <1>2, <1>5
  <1>8. frame[Len(payload) + 4] = lo /\ frame[Len(payload) + 5] = hi
    BY <1>2, <1>5
  <1>10. SubSeq(frame, 1, Len(frame) - 2) = body
    <2>1. Len(SubSeq(frame, 1, Len(frame) - 2)) = Len(body)
      BY <1>2, <1>6
    <2>2. \A n \in 1 .. Len(body) : SubSeq(frame, 1, Len(frame) - 2)[n] = body[n]
      BY <1>2, <1>6, <1>7
    <2>3. SubSeq(frame, 1, Len(frame) - 2) \in Seq(Byte)
      BY <1>6
    <2> QED
      BY <1>2, <2>1, <2>2, <2>3, SeqEqual
  <1>11. SubSeq(frame, 4, Len(frame) - 2) = payload
    <2>1. Len(SubSeq(frame, 4, Len(frame) - 2)) = Len(payload)
      BY <1>6
    <2>2. \A n \in 1 .. Len(payload) : SubSeq(frame, 4, Len(frame) - 2)[n] = payload[n]
      BY <1>3, <1>6, <1>7
    <2>3. SubSeq(frame, 4, Len(frame) - 2) \in Seq(Byte)
      BY <1>6
    <2> QED
      BY <2>1, <2>2, <2>3, SeqEqual
  <1>12. frame[1] = MAGIC /\ frame[2] = VERSION /\ frame[3] = KindByte[kind]
    BY <1>3, <1>7
  <1>13. frame[Len(frame) - 1] = lo /\ frame[Len(frame)] = hi
    BY <1>6, <1>8
  <1>14. Accepts(frame)
    <2>1. from_le_bytes(frame[Len(frame) - 1], frame[Len(frame)])
            = crc16(Covered(SubSeq(frame, 1, Len(frame) - 2)))
      BY <1>4, <1>10, <1>13 DEF crc
    <2>2. Len(frame) >= MIN_FRAME_LEN
      BY <1>6 DEF MIN_FRAME_LEN
    <2> QED
      BY <1>12, <2>1, <2>2 DEF Accepts
  <1>15. \A other \in FrameKind : KindByte[other] = KindByte[kind] => other = kind
    BY KindsDiffer
  <1>16. (CHOOSE other \in FrameKind : frame[3] = KindByte[other]) = kind
    BY <1>12, <1>15
  <1> QED
    BY <1>6, <1>11, <1>14, <1>16 DEF Decoded, frame

(* Decode accepts nothing but what encode makes: a buffer that fits is the  *)
(* frame of the kind and the payload it is taken for, byte for byte.  So no *)
(* two buffers are taken for the same frame, and nothing of an accepted one *)
(* is left unlooked at.                                                     *)
THEOREM OnlyFramesAccepted ==
  ASSUME NEW buf \in Seq(Byte), Len(buf) <= MAX_FRAME_LEN, Accepts(buf)
  PROVE  buf = Encode(Decoded(buf).kind, Decoded(buf).payload, MAX_FRAME_LEN)
  <1> DEFINE kind == Decoded(buf).kind
             payload == Decoded(buf).payload
             body == <<MAGIC, VERSION, KindByte[kind]>> \o payload
             lo == buf[Len(buf) - 1]
             hi == buf[Len(buf)]
  <1>1. Len(buf) \in Nat /\ Len(buf) >= 5
    BY DEF Accepts, MIN_FRAME_LEN
  <1>2. kind \in FrameKind /\ buf[3] = KindByte[kind]
    BY DEF Accepts, Decoded
  <1>3. payload = SubSeq(buf, 4, Len(buf) - 2)
    BY DEF Decoded
  <1> HIDE DEF kind, payload
  <1>4. /\ payload \in Seq(Byte) /\ Len(payload) = Len(buf) - 5
        /\ \A n \in 1 .. Len(payload) : payload[n] = buf[n + 3]
    <2>1. payload \in Seq(Byte)
      BY <1>1, <1>3
    <2>2. Len(payload) = Len(buf) - 5
      <3>1. PICK len \in Nat : len = Len(buf) /\ len >= 5
        BY <1>1
      <3>2. \A i \in 4 .. len - 2 : buf[i] \in Byte
        BY <3>1
      <3>3. Len(SubSeq(buf, 4, len - 2)) = IF 4 <= len - 2 THEN len - 2 - 4 + 1 ELSE 0
        BY <3>1, <3>2, SubSeqProperties
      <3> QED
        BY <1>3, <3>1, <3>3
    <2>3. \A n \in 1 .. Len(payload) : payload[n] = buf[n + 3]
      BY <1>1, <1>3, <2>2
    <2> QED
      BY <2>1, <2>2, <2>3
  <1>5. buf[1] = MAGIC /\ buf[2] = VERSION
    BY DEF Accepts
  <1>6. /\ body \in Seq(Byte) /\ Len(body) = Len(buf) - 2
        /\ \A n \in 1 .. Len(buf) - 2 : body[n] = buf[n]
    <2> DEFINE head == <<MAGIC, VERSION, KindByte[kind]>>
    <2>1. head \in Seq(Byte) /\ Len(head) = 3
      BY <1>2 DEF MAGIC, VERSION, KindByte, Byte, Bits, FrameKind
    <2>2. body \in Seq(Byte) /\ Len(body) = Len(payload) + 3
      BY <1>4, <2>1
    <2>3. /\ body[1] = MAGIC /\ body[2] = VERSION /\ body[3] = KindByte[kind]
          /\ \A n \in 1 .. Len(payload) : body[n + 3] = payload[n]
      BY <1>4, <2>1
    <2> HIDE DEF body, head
    <2>4. Len(body) = Len(buf) - 2 /\ Len(payload) = Len(buf) - 5
      BY <1>1, <1>4, <2>2
    <2>5. ASSUME NEW n \in 1 .. Len(buf) - 2 PROVE body[n] = buf[n]
      <3>1. CASE n \in {1, 2, 3}
        BY <1>2, <1>5, <2>3, <3>1
      <3>2. CASE n \notin {1, 2, 3}
        <4>1. PICK k \in 1 .. Len(payload) : n = k + 3
          <5>1. n - 3 \in 1 .. Len(payload) /\ n = (n - 3) + 3
            BY <1>1, <2>4, <3>2
          <5> QED
            BY <5>1
        <4> QED
          BY <1>4, <2>3, <4>1
      <3> QED
        BY <3>1, <3>2
    <2> QED
      BY <2>2, <2>4, <2>5
  <1>7. SubSeq(buf, 1, Len(buf) - 2) = body
    <2>1. SubSeq(buf, 1, Len(buf) - 2) \in Seq(Byte) /\ Len(SubSeq(buf, 1, Len(buf) - 2)) = Len(body)
      BY <1>1, <1>6
    <2>2. \A n \in 1 .. Len(body) : SubSeq(buf, 1, Len(buf) - 2)[n] = body[n]
      BY <1>1, <1>6
    <2> QED
      BY <1>6, <2>1, <2>2, SeqEqual
  <1> HIDE DEF body
  <1>8. to_le_bytes(crc16(Covered(body))) = <<lo, hi>>
    <2>1. from_le_bytes(lo, hi) = crc16(Covered(body))
      BY <1>7 DEF Accepts
    <2>2. lo \in Byte /\ hi \in Byte
      BY <1>1
    <2> QED
      BY <2>1, <2>2, LittleEndianBack
  <1>9. Encode(kind, payload, MAX_FRAME_LEN) = body \o <<lo, hi>>
    <2>1. ~(Len(payload) > MAX_PAYLOAD \/ MAX_FRAME_LEN < Len(body) + 2)
      BY <1>1, <1>4, <1>6, WireAssumption DEF MAX_FRAME_LEN
    <2> QED
      BY <1>8, <2>1 DEF Encode, body
  <1>10. buf = body \o <<lo, hi>>
    <2>1. lo \in Byte /\ hi \in Byte
      BY <1>1
    <2>2. body \o <<lo, hi>> \in Seq(Byte) /\ Len(body \o <<lo, hi>>) = Len(buf)
      BY <1>1, <1>6, <2>1
    <2>3. \A n \in 1 .. Len(buf) : buf[n] = (body \o <<lo, hi>>)[n]
      BY <1>1, <1>6, <2>1
    <2> QED
      BY <2>2, <2>3, SeqEqual
  <1> QED
    BY <1>9, <1>10 DEF kind, payload

(* Put shortly: a frame is accepted when its CRC leaves nothing. *)
LEMMA AcceptedResidue ==
  ASSUME NEW buf \in Seq(Byte), Len(buf) >= MIN_FRAME_LEN
  PROVE  Accepts(buf) <=>
           /\ buf[1] = MAGIC /\ buf[2] = VERSION
           /\ \E kind \in FrameKind : buf[3] = KindByte[kind]
           /\ crc16(Covered(buf)) = {}
  <1> DEFINE front == SubSeq(buf, 1, Len(buf) - 2)
             s == Covered(front)
             t == Covered(buf)
  <1>1. PICK len \in Nat : len = Len(buf) /\ len >= 5
    BY DEF MIN_FRAME_LEN
  <1>2. /\ front \in Seq(Byte) /\ Len(front) = len - 2
        /\ \A n \in 1 .. len - 2 : front[n] = buf[n]
    BY <1>1
  <1>3. /\ s \in Seq(Byte) /\ Len(s) = len - 3
        /\ \A n \in 1 .. len - 3 : s[n] = buf[n + 1]
    <2> HIDE DEF front
    <2>1. /\ s \in Seq(Byte) /\ Len(s) = len - 2 - 1
          /\ \A n \in 1 .. len - 2 - 1 : s[n] = front[n + 1]
      BY <1>1, <1>2, CoveredTyped
    <2> QED
      BY <1>1, <1>2, <2>1
  <1>4. /\ t \in Seq(Byte) /\ Len(t) = len - 1
        /\ \A n \in 1 .. len - 1 : t[n] = buf[n + 1]
    BY <1>1, CoveredTyped
  <1> HIDE DEF s, t
  <1>5. crc16(t) = {} <=> crc16(s) = from_le_bytes(t[Len(t) - 1], t[Len(t)])
    <2>1. Len(t) = Len(s) + 2
      BY <1>1, <1>3, <1>4
    <2>2. \A n \in 1 .. Len(s) : t[n] = s[n]
      BY <1>1, <1>3, <1>4
    <2> QED
      BY ONLY <1>3, <1>4, <2>1, <2>2, Residue, Zenon
  <1>6. t[Len(t) - 1] = buf[Len(buf) - 1] /\ t[Len(t)] = buf[Len(buf)]
    BY <1>1, <1>4
  <1> QED
    BY <1>5, <1>6 DEF Accepts, s, t

(* Whatever happens to two neighbouring bytes of a frame, or to one, decode *)
(* refuses what comes of it: as long as the damage stays within those       *)
(* bytes, neither end takes it for another frame, however long it is.       *)
THEOREM BurstRefused ==
  ASSUME NEW buf \in Seq(Byte), Accepts(buf),
         NEW n \in 1 .. Len(buf) - 1, NEW a \in Byte, NEW b \in Byte,
         <<a, b>> # <<buf[n], buf[n + 1]>>
  PROVE  ~Accepts([buf EXCEPT ![n] = a, ![n + 1] = b])
  <1> DEFINE damaged == [buf EXCEPT ![n] = a, ![n + 1] = b]
  <1>1. PICK len \in Nat : len = Len(buf) /\ len >= 5
    BY DEF Accepts, MIN_FRAME_LEN
  <1>2. damaged \in Seq(Byte) /\ Len(damaged) = len
    BY <1>1
  <1>3. /\ damaged[n] = a /\ damaged[n + 1] = b
        /\ \A i \in 1 .. len : i # n /\ i # n + 1 => damaged[i] = buf[i]
    BY <1>1
  <1> HIDE DEF damaged
  <1> SUFFICES ASSUME Accepts(damaged) PROVE FALSE
    BY DEF damaged
  <1>4. CASE n = 1
    <2>1. /\ buf[1] = MAGIC /\ buf[2] = VERSION
          /\ damaged[1] = MAGIC /\ damaged[2] = VERSION
      BY DEF Accepts
    <2> QED
      BY <1>3, <1>4, <2>1
  <1>5. CASE n # 1
    <2> DEFINE s == Covered(buf)
               t == Covered(damaged)
               m == n - 1
    <2>1. crc16(s) = {} /\ crc16(t) = {}
      BY <1>1, <1>2, AcceptedResidue DEF MIN_FRAME_LEN
    <2>2. /\ s \in Seq(Byte) /\ Len(s) = len - 1
          /\ \A i \in 1 .. len - 1 : s[i] = buf[i + 1]
      BY <1>1, CoveredTyped
    <2>3. /\ t \in Seq(Byte) /\ Len(t) = len - 1
          /\ \A i \in 1 .. len - 1 : t[i] = damaged[i + 1]
      BY <1>1, <1>2, CoveredTyped
    <2> HIDE DEF s, t
    <2>4. m \in 1 .. Len(s) - 1 /\ m \in 1 .. len - 1 /\ m + 1 \in 1 .. len - 1
      BY <1>1, <1>5, <2>2
    <2>5. s[m] # t[m] \/ s[m + 1] # t[m + 1]
      BY <1>3, <2>2, <2>3, <2>4
    <2>6. \A i \in 1 .. Len(s) : i # m /\ i # m + 1 => s[i] = t[i]
      <3> TAKE i \in 1 .. Len(s)
      <3> HAVE i # m /\ i # m + 1
      <3>1. i + 1 \in 1 .. len /\ i + 1 # n /\ i + 1 # n + 1 /\ i \in 1 .. len - 1
        BY <1>1, <2>2
      <3> QED
        BY <1>3, <2>2, <2>3, <3>1
    <2> HIDE DEF m
    <2> QED
      BY <2>1, <2>2, <2>3, <2>4, <2>5, <2>6, PairDecides
  <1> QED
    BY <1>4, <1>5

----------------------------------------------------------------------------
(* A number up to 255 is what its eight bits add up to. *)
Value(byte) == (IF 0 \in byte THEN 1 ELSE 0) + (IF 1 \in byte THEN 2 ELSE 0) + (IF 2 \in byte THEN 4 ELSE 0)
               + (IF 3 \in byte THEN 8 ELSE 0) + (IF 4 \in byte THEN 16 ELSE 0) + (IF 5 \in byte THEN 32 ELSE 0)
               + (IF 6 \in byte THEN 64 ELSE 0) + (IF 7 \in byte THEN 128 ELSE 0)

LEMMA ValueOf ==
  ASSUME NEW n \in 0 .. 255
  PROVE  Value(ByteOf(n)) = n
  <1>1. \A i \in Bits : i \in ByteOf(n) <=> (n \div Weight[i + 1]) % 2 = 1
    BY DEF ByteOf
  <1>2. 0 \in ByteOf(n) <=> n % 2 = 1
    BY <1>1, 0 \in Bits, Weight[0 + 1] = 1 DEF Bits, Weight
  <1>3. 1 \in ByteOf(n) <=> (n \div 2) % 2 = 1
    BY <1>1, 1 \in Bits, Weight[1 + 1] = 2 DEF Bits, Weight
  <1>4. 2 \in ByteOf(n) <=> (n \div 4) % 2 = 1
    BY <1>1, 2 \in Bits, Weight[2 + 1] = 4 DEF Bits, Weight
  <1>5. 3 \in ByteOf(n) <=> (n \div 8) % 2 = 1
    BY <1>1, 3 \in Bits, Weight[3 + 1] = 8 DEF Bits, Weight
  <1>6. 4 \in ByteOf(n) <=> (n \div 16) % 2 = 1
    BY <1>1, 4 \in Bits, Weight[4 + 1] = 16 DEF Bits, Weight
  <1>7. 5 \in ByteOf(n) <=> (n \div 32) % 2 = 1
    BY <1>1, 5 \in Bits, Weight[5 + 1] = 32 DEF Bits, Weight
  <1>8. 6 \in ByteOf(n) <=> (n \div 64) % 2 = 1
    BY <1>1, 6 \in Bits, Weight[6 + 1] = 64 DEF Bits, Weight
  <1>9. 7 \in ByteOf(n) <=> (n \div 128) % 2 = 1
    BY <1>1, 7 \in Bits, Weight[7 + 1] = 128 DEF Bits, Weight
  <1>10. n = (IF n % 2 = 1 THEN 1 ELSE 0) + (IF (n \div 2) % 2 = 1 THEN 2 ELSE 0)
           + (IF (n \div 4) % 2 = 1 THEN 4 ELSE 0) + (IF (n \div 8) % 2 = 1 THEN 8 ELSE 0)
           + (IF (n \div 16) % 2 = 1 THEN 16 ELSE 0) + (IF (n \div 32) % 2 = 1 THEN 32 ELSE 0)
           + (IF (n \div 64) % 2 = 1 THEN 64 ELSE 0) + (IF (n \div 128) % 2 = 1 THEN 128 ELSE 0)
    BY ONLY n \in 0 .. 255, SMTT(60)
  <1> QED
    BY ONLY <1>2, <1>3, <1>4, <1>5, <1>6, <1>7, <1>8, <1>9, <1>10 DEF Value

LEMMA ByteOfInjective ==
  ASSUME NEW a \in 0 .. 255, NEW b \in 0 .. 255, ByteOf(a) = ByteOf(b)
  PROVE  a = b
  BY ValueOf

LEMMA NumberOf ==
  ASSUME NEW n \in 0 .. 255
  PROVE  Number(ByteOf(n)) = n /\ ByteOf(n) \in Byte /\ (n # 0 => ByteOf(n) # {})
  <1>1. Number(ByteOf(n)) = n
    <2>1. \A m \in 0 .. 255 : ByteOf(m) = ByteOf(n) => m = n
      BY ByteOfInjective
    <2> QED
      BY <2>1 DEF Number
  <1>2. ByteOf(n) \in Byte
    BY DEF ByteOf, Byte
  <1>3. ByteOf(0) = {}
    <2>1. \A i \in Bits : (0 \div Weight[i + 1]) % 2 = 0
      <3>1. \A i \in Bits : i = 0 \/ i = 1 \/ i = 2 \/ i = 3 \/ i = 4 \/ i = 5 \/ i = 6 \/ i = 7
        BY DEF Bits
      <3>2. \A i \in Bits : Weight[i + 1] \in {1, 2, 4, 8, 16, 32, 64, 128}
        BY <3>1 DEF Weight
      <3>3. \A w \in {1, 2, 4, 8, 16, 32, 64, 128} : (0 \div w) % 2 = 0
        OBVIOUS
      <3> QED
        BY <3>2, <3>3
    <2> QED
      BY <2>1 DEF ByteOf
  <1>4. ByteOf(n) = {} => n = 0
    BY <1>3, 0 \in 0 .. 255, ByteOfInjective
  <1> QED
    BY <1>1, <1>2, <1>4

(* The zero that is nearest, in bytes that end with one. *)
LEMMA NextZeroFacts ==
  ASSUME NEW bytes \in Seq(Byte), NEW n \in 1 .. Len(bytes), bytes[Len(bytes)] = {}
  PROVE  /\ NextZero(bytes, n) \in n .. Len(bytes)
         /\ bytes[NextZero(bytes, n)] = {}
         /\ \A k \in n .. NextZero(bytes, n) - 1 : bytes[k] # {}
  <1> DEFINE Z == {z \in n .. Len(bytes) : bytes[z] = {}}
  <1>1. PICK len \in Nat : len = Len(bytes) /\ n \in 1 .. len /\ len \in n .. len
    OBVIOUS
  <1>2. Z \subseteq Nat /\ Z # {}
    BY <1>1
  <1>3. PICK z \in Z : \A k \in Z : z <= k
    <2> HIDE DEF Z
    <2> QED
      BY <1>2, Least
  <1>4. \A k \in n .. z - 1 : bytes[k] # {}
    BY <1>1, <1>3
  <1> QED
    BY <1>3, <1>4 DEF NextZero

LEMMA NextZeroOnly ==
  ASSUME NEW bytes \in Seq(Byte), NEW n \in 1 .. Len(bytes), bytes[Len(bytes)] = {},
         NEW z \in n .. Len(bytes), bytes[z] = {}, \A k \in n .. z - 1 : bytes[k] # {}
  PROVE  NextZero(bytes, n) = z
  <1> DEFINE y == NextZero(bytes, n)
  <1>1. PICK len \in Nat : len = Len(bytes)
    OBVIOUS
  <1>2. /\ y \in n .. len /\ bytes[y] = {}
        /\ \A k \in n .. y - 1 : bytes[k] # {}
    BY <1>1, NextZeroFacts
  <1> HIDE DEF y
  <1>3. ~(y < z) /\ ~(z < y)
    BY <1>1, <1>2
  <1> QED
    BY <1>1, <1>2, <1>3 DEF y

(* Step by step: at a zero the next one is looked for, else it is the same. *)
LEMMA NextZeroOn ==
  ASSUME NEW bytes \in Seq(Byte), NEW n \in 1 .. Len(bytes) - 1, bytes[Len(bytes)] = {}
  PROVE  IF bytes[n] = {} THEN NextZero(bytes, n) = n
                          ELSE NextZero(bytes, n) > n /\ NextZero(bytes, n) = NextZero(bytes, n + 1)
  <1>1. PICK len \in Nat : len = Len(bytes) /\ n \in 1 .. len /\ n + 1 \in 1 .. len
    OBVIOUS
  <1>2. CASE bytes[n] = {}
    <2>1. n \in n .. len /\ \A k \in n .. n - 1 : bytes[k] # {}
      BY <1>1
    <2> QED
      BY <1>1, <1>2, <2>1, NextZeroOnly
  <1>3. CASE bytes[n] # {}
    <2> DEFINE z == NextZero(bytes, n + 1)
    <2>1. /\ z \in n + 1 .. len /\ bytes[z] = {}
          /\ \A k \in n + 1 .. z - 1 : bytes[k] # {}
      BY <1>1, NextZeroFacts
    <2> HIDE DEF z
    <2>2. z \in n .. len /\ z > n
      BY <1>1, <2>1
    <2>3. \A k \in n .. z - 1 : bytes[k] # {}
      <3> TAKE k \in n .. z - 1
      <3>1. k = n \/ k \in n + 1 .. z - 1
        BY <1>1, <2>1
      <3> QED
        BY <1>3, <2>1, <3>1
    <2>4. NextZero(bytes, n) = z
      BY <1>1, <2>1, <2>2, <2>3, NextZeroOnly
    <2> QED
      BY <1>3, <2>2, <2>4 DEF z
  <1> QED
    BY <1>2, <1>3

(* How many bytes Unstuffed has still to take over, before each. *)
Lefts(left, bytes) ==
  left = [n \in 0 .. Len(bytes) |->
            IF n = 0 THEN 0
            ELSE IF left[n - 1] > 0 THEN left[n - 1] - 1 ELSE Number(bytes[n]) - 1]

LEMMA LeftsExist ==
  ASSUME NEW bytes \in Seq(Byte), bytes # <<>>
  PROVE  \E left : /\ Lefts(left, bytes)
                   /\ Unstuffed(bytes) =
                        IF left[Len(bytes)] > 0 THEN <<>>
                        ELSE [n \in 1 .. Len(bytes) - 1 |->
                                IF left[n] > 0 THEN bytes[n + 1] ELSE {}]
  <1> DEFINE F(r, n) == IF n = 0 THEN 0
                        ELSE IF r[n - 1] > 0 THEN r[n - 1] - 1 ELSE Number(bytes[n]) - 1
             Is(r, k) == r = [n \in 0 .. k |-> F(r, n)]
             S == {k \in Nat : \E r : Is(r, k)}
  <1>1. 0 \in S
    <2>1. Is([n \in 0 .. 0 |-> 0], 0)
      OBVIOUS
    <2> QED
      BY <2>1
  <1>2. ASSUME NEW n \in Nat, n \in S PROVE n + 1 \in S
    <2>1. PICK r : Is(r, n)
      BY <1>2
    <2> DEFINE q == [i \in 0 .. n + 1 |->
                       IF i = n + 1
                         THEN IF r[n] > 0 THEN r[n] - 1 ELSE Number(bytes[n + 1]) - 1
                         ELSE r[i]]
    <2>2. Is(q, n + 1)
      <3>1. ASSUME NEW i \in 0 .. n + 1
            PROVE  q[i] = F(q, i)
        <4>1. CASE i = n + 1
          BY <4>1
        <4>2. CASE i # n + 1
          <5>1. i \in 0 .. n /\ (i # 0 => i - 1 \in 0 .. n)
            BY <4>2
          <5>2. q[i] = r[i] /\ (i # 0 => q[i - 1] = r[i - 1])
            BY <5>1
          <5>3. r[i] = F(r, i)
            <6> HIDE DEF F
            <6> QED
              BY <2>1, <5>1
          <5> QED
            BY <5>2, <5>3
        <4> QED
          BY <4>1, <4>2
      <3>2. q = [i \in 0 .. n + 1 |-> q[i]]
        OBVIOUS
      <3> HIDE DEF q, F
      <3> QED
        BY <3>1, <3>2
    <2> HIDE DEF q
    <2> QED
      BY <2>2
  <1>3. Nat \subseteq S
    <2> HIDE DEF S
    <2> QED
      BY <1>1, <1>2, Counting
  <1>4. \E r : Is(r, Len(bytes))
    <2>1. Len(bytes) \in Nat
      OBVIOUS
    <2>2. Len(bytes) \in S
      <3> HIDE DEF S
      <3> QED
        BY <1>3, <2>1
    <2> HIDE DEF Is
    <2> QED
      BY <2>2
  <1>5. PICK r : Is(r, Len(bytes))
    BY <1>4
  <1> QED
    BY <1>5 DEF Unstuffed, Lefts

LEMMA LeftsOn ==
  ASSUME NEW bytes \in Seq(Byte), NEW left, Lefts(left, bytes)
  PROVE  /\ left[0] = 0
         /\ \A n \in 1 .. Len(bytes) :
              left[n] = IF left[n - 1] > 0 THEN left[n - 1] - 1 ELSE Number(bytes[n]) - 1
  <1> DEFINE F(n) == IF n = 0 THEN 0
                     ELSE IF left[n - 1] > 0 THEN left[n - 1] - 1 ELSE Number(bytes[n]) - 1
  <1>1. PICK len \in Nat : len = Len(bytes)
    OBVIOUS
  <1>2. \A n \in 0 .. len : left[n] = F(n)
    <2>1. left = [n \in 0 .. len |-> F(n)]
      BY <1>1 DEF Lefts
    <2> HIDE DEF F
    <2> QED
      BY <2>1
  <1> QED
    BY <1>1, <1>2

(* The bytes of a stuffed frame: none is zero. *)
LEMMA StuffedFacts ==
  ASSUME NEW frame \in Seq(Byte), Len(frame) < 254
  PROVE  LET ended == Append(frame, {}) IN
         /\ Stuffed(frame) \in Seq(Byte) /\ Len(Stuffed(frame)) = Len(frame) + 1
         /\ \A n \in 1 .. Len(frame) + 1 :
              /\ Stuffed(frame)[n] # {}
              /\ IF n = 1 \/ ended[n - 1] = {}
                   THEN Number(Stuffed(frame)[n]) = NextZero(ended, n) - n + 1
                   ELSE Stuffed(frame)[n] = ended[n - 1]
  <1> DEFINE ended == Append(frame, {})
             F(n) == IF n = 1 \/ ended[n - 1] = {} THEN ByteOf(NextZero(ended, n) - n + 1)
                                                  ELSE ended[n - 1]
  <1>1. PICK len \in Nat : len = Len(frame) /\ len < 254
    OBVIOUS
  <1>2. /\ ended \in Seq(Byte) /\ Len(ended) = len + 1 /\ ended[len + 1] = {}
        /\ \A n \in 1 .. len : ended[n] = frame[n]
    <2>1. {} \in Byte
      BY DEF Byte
    <2> QED
      BY <1>1, <2>1
  <1>3. Stuffed(frame) = [n \in 1 .. len + 1 |-> F(n)]
    <2> HIDE DEF ended
    <2> QED
      BY <1>2, Zenon DEF Stuffed, ended
  <1> HIDE DEF ended
  <1>4. ASSUME NEW n \in 1 .. len + 1
        PROVE  /\ F(n) \in Byte /\ F(n) # {}
               /\ IF n = 1 \/ ended[n - 1] = {}
                    THEN Number(F(n)) = NextZero(ended, n) - n + 1 ELSE F(n) = ended[n - 1]
    <2>1. CASE n = 1 \/ ended[n - 1] = {}
      <3>1. NextZero(ended, n) \in n .. len + 1
        BY <1>1, <1>2, NextZeroFacts
      <3>2. NextZero(ended, n) - n + 1 \in 0 .. 255 /\ NextZero(ended, n) - n + 1 # 0
        <4>1. PICK z \in n .. len + 1 : z = NextZero(ended, n)
          BY <3>1
        <4>2. z - n + 1 \in 0 .. 255 /\ z - n + 1 # 0
          BY <1>1
        <4> QED
          BY <4>1, <4>2
      <3> QED
        BY <2>1, <3>2, NumberOf
    <2>2. CASE ~(n = 1 \/ ended[n - 1] = {})
      <3>1. n - 1 \in 1 .. len + 1
        BY <1>1, <2>2
      <3>2. ended[n - 1] \in Byte
        BY <1>1, <1>2, <3>1, ElementOfSeq
      <3> QED
        BY <2>2, <3>2
    <2> QED
      BY <2>1, <2>2
  <1> HIDE DEF F
  <1>5. Stuffed(frame) \in Seq(Byte) /\ Len(Stuffed(frame)) = len + 1
    BY <1>1, <1>3, <1>4
  <1>6. \A n \in 1 .. len + 1 : Stuffed(frame)[n] = F(n)
    BY <1>3
  <1> QED
    BY <1>1, <1>4, <1>5, <1>6 DEF ended

(* What the pod stuffs the host unstuffs, whatever the bytes, zeros too. *)
THEOREM CobsRoundTrip ==
  ASSUME NEW frame \in Seq(Byte), Len(frame) < 254
  PROVE  Unstuffed(Stuffed(frame)) = frame
  <1> DEFINE ended == Append(frame, {})
             out == Stuffed(frame)
  <1>1. PICK len \in Nat : len = Len(frame)
    OBVIOUS
  <1>2. /\ ended \in Seq(Byte) /\ Len(ended) = len + 1 /\ ended[len + 1] = {}
        /\ \A n \in 1 .. len : ended[n] = frame[n]
    <2>1. {} \in Byte
      BY DEF Byte
    <2> QED
      BY <1>1, <2>1
  <1>3. /\ out \in Seq(Byte) /\ Len(out) = len + 1 /\ out # <<>>
        /\ \A n \in 1 .. len + 1 : IF n = 1 \/ ended[n - 1] = {}
                                     THEN Number(out[n]) = NextZero(ended, n) - n + 1
                                     ELSE out[n] = ended[n - 1]
    <2>1. len < 254
      BY <1>1
    <2>2. Stuffed(frame) # <<>>
      BY <1>1, <2>1, StuffedFacts
    <2> QED
      BY <1>1, <2>1, <2>2, StuffedFacts
  <1> HIDE DEF ended, out
  <1>4. PICK left : /\ Lefts(left, out)
                    /\ Unstuffed(out) =
                         IF left[len + 1] > 0 THEN <<>>
                         ELSE [n \in 1 .. len |-> IF left[n] > 0 THEN out[n + 1] ELSE {}]
    <2>1. PICK left : /\ Lefts(left, out)
                      /\ Unstuffed(out) =
                           IF left[Len(out)] > 0 THEN <<>>
                           ELSE [n \in 1 .. Len(out) - 1 |->
                                   IF left[n] > 0 THEN out[n + 1] ELSE {}]
      BY <1>3, LeftsExist
    <2>2. Len(out) = len + 1 /\ Len(out) - 1 = len
      BY <1>1, <1>3
    <2> QED
      BY <2>1, <2>2
  <1>5. /\ left[0] = 0
        /\ \A n \in 1 .. len + 1 :
             left[n] = IF left[n - 1] > 0 THEN left[n - 1] - 1 ELSE Number(out[n]) - 1
    BY <1>3, <1>4, LeftsOn
  <1>6. \A n \in 1 .. len + 1 : NextZero(ended, n) \in n .. len + 1
    BY <1>2, NextZeroFacts
  <1>7. \A n \in 1 .. len : IF ended[n] = {} THEN NextZero(ended, n) = n
                            ELSE /\ NextZero(ended, n) > n
                                 /\ NextZero(ended, n) = NextZero(ended, n + 1)
    <2> TAKE n \in 1 .. len
    <2>1. n \in 1 .. Len(ended) - 1 /\ ended[Len(ended)] = {}
      BY <1>2
    <2> QED
      BY <1>2, <2>1, NextZeroOn
  <1> DEFINE S == {k \in Nat : k <= len => left[k + 1] = NextZero(ended, k + 1) - (k + 1)}
  <1>8. 0 \in S
    <2>1. 1 \in 1 .. len + 1 /\ 1 - 1 = 0
      BY <1>1
    <2>2. left[1] = Number(out[1]) - 1 /\ Number(out[1]) = NextZero(ended, 1) - 1 + 1
      BY <1>3, <1>5, <2>1
    <2>3. NextZero(ended, 1) \in Nat
      BY <1>6, <2>1
    <2> QED
      BY <2>2, <2>3
  <1>9. ASSUME NEW n \in Nat, n \in S PROVE n + 1 \in S
    <2> DEFINE k == n + 1
    <2> SUFFICES ASSUME k <= len PROVE left[k + 1] = NextZero(ended, k + 1) - (k + 1)
      OBVIOUS
    <2>1. left[k] = NextZero(ended, k) - k
      BY <1>9
    <2>2. /\ k \in 1 .. len /\ k \in 1 .. len + 1 /\ k + 1 \in 1 .. len + 1
          /\ k + 1 - 1 = k /\ k + 1 # 1
      BY <1>1
    <2> HIDE DEF k
    <2>3. NextZero(ended, k) \in Nat /\ NextZero(ended, k + 1) \in Nat
      BY <1>6, <2>2
    <2>4. left[k + 1] = IF left[k] > 0 THEN left[k] - 1 ELSE Number(out[k + 1]) - 1
      BY <1>5, <2>2
    <2>5. CASE ended[k] = {}
      <3>1. ~(left[k] > 0)
        BY <1>7, <2>1, <2>2, <2>5
      <3>2. Number(out[k + 1]) = NextZero(ended, k + 1) - (k + 1) + 1
        BY <1>3, <2>2, <2>5
      <3> QED
        BY <2>2, <2>3, <2>4, <3>1, <3>2
    <2>6. CASE ended[k] # {}
      <3>1. left[k] > 0 /\ NextZero(ended, k) = NextZero(ended, k + 1)
        BY <1>7, <2>1, <2>2, <2>3, <2>6
      <3> QED
        BY <2>1, <2>2, <2>3, <2>4, <3>1
    <2> QED
      BY <2>5, <2>6
  <1>10. \A n \in 1 .. len + 1 : left[n] = NextZero(ended, n) - n
    <2>1. Nat \subseteq S
      <3> HIDE DEF S
      <3> QED
        BY <1>8, <1>9, Counting
    <2> TAKE n \in 1 .. len + 1
    <2>2. n - 1 \in Nat /\ n - 1 <= len /\ n - 1 + 1 = n
      BY <1>1
    <2>3. n - 1 \in S
      BY ONLY <2>1, <2>2, Zenon
    <2> QED
      BY <2>2, <2>3
  <1>11. ~(left[len + 1] > 0)
    BY <1>1, <1>6, <1>10
  <1>12. \A n \in 1 .. len : (IF left[n] > 0 THEN out[n + 1] ELSE {}) = frame[n]
    <2> TAKE n \in 1 .. len
    <2>1. /\ n \in 1 .. len + 1 /\ n + 1 \in 1 .. len + 1 /\ n + 1 - 1 = n /\ n + 1 # 1
      BY <1>1
    <2>2. NextZero(ended, n) \in Nat
      BY <1>6, <2>1
    <2>3. left[n] > 0 <=> ended[n] # {}
      BY <1>7, <1>10, <2>1, <2>2
    <2>4. ended[n] # {} => out[n + 1] = ended[n]
      BY <1>3, <2>1
    <2> QED
      BY <1>2, <2>3, <2>4
  <1>13. Unstuffed(out) = [n \in 1 .. len |-> frame[n]]
    <2>1. Unstuffed(out) = [n \in 1 .. len |-> IF left[n] > 0 THEN out[n + 1] ELSE {}]
      BY <1>4, <1>11, Zenon
    <2> QED
      BY <1>12, <2>1
  <1>14. frame = [n \in 1 .. len |-> frame[n]]
    BY <1>1
  <1> QED
    BY <1>13, <1>14 DEF out

(* One sequence after another, counted from its own beginning. *)
LEMMA Joined ==
  ASSUME NEW s \in Seq(Byte), NEW t \in Seq(Byte)
  PROVE  /\ s \o t \in Seq(Byte) /\ Len(s \o t) = Len(s) + Len(t)
         /\ \A n \in 1 .. Len(s) : (s \o t)[n] = s[n]
         /\ \A n \in 1 .. Len(t) : (s \o t)[Len(s) + n] = t[n]
  <1>1. PICK l \in Nat, m \in Nat : l = Len(s) /\ m = Len(t)
    OBVIOUS
  <1>2. /\ s \o t \in Seq(Byte) /\ Len(s \o t) = l + m
        /\ \A i \in 1 .. l + m : (s \o t)[i] = IF i <= l THEN s[i] ELSE t[i - l]
    BY <1>1, ConcatProperties
  <1>3. \A n \in 1 .. l : n \in 1 .. l + m /\ n <= l
    OBVIOUS
  <1>4. \A n \in 1 .. m : l + n \in 1 .. l + m /\ ~(l + n <= l) /\ l + n - l = n
    OBVIOUS
  <1> QED
    BY <1>1, <1>2, <1>3, <1>4

(* A host that is at a delimiter, or has not begun to read, reads the next  *)
(* report: whatever bytes it or others came to before, and whatever follow. *)
THEOREM HostInStep ==
  ASSUME NEW kind \in FrameKind, NEW payload \in Seq(Byte), Len(payload) <= MAX_PAYLOAD,
         NEW before \in Seq(Byte), NEW after \in Seq(Byte),
         before = <<>> \/ before[Len(before)] = {}
  PROVE  payload \in Read(before \o CobsEncode(Encode(kind, payload, MAX_FRAME_LEN),
                                             MAX_ENCODED_LEN) \o after)
  <1> DEFINE frame == Encode(kind, payload, MAX_FRAME_LEN)
             out == Stuffed(frame)
             sent == Append(out, {})
             stream == before \o sent \o after
             i == Len(before) + 1
             j == Len(before) + Len(frame) + 2
  <1>1. /\ frame \in Seq(Byte) /\ Len(frame) = Len(payload) + 5
        /\ Accepts(frame) /\ Decoded(frame).payload = payload
    <2>1. MAX_FRAME_LEN \in Nat
      BY WireAssumption DEF MAX_FRAME_LEN
    <2>2. frame \in Seq(Byte)
      BY <2>1, EncodeTyped
    <2>3. /\ Len(frame) = Len(payload) + 5 /\ Accepts(frame)
          /\ Decoded(frame) = [kind |-> kind, payload |-> payload]
      BY FramesRoundTrip
    <2> HIDE DEF frame
    <2> QED
      BY <2>2, <2>3
  <1> HIDE DEF frame
  <1>2. /\ Len(frame) < 254 /\ Len(frame) \in Nat /\ Len(before) \in Nat /\ Len(after) \in Nat
        /\ ~(MAX_ENCODED_LEN < Len(frame) + 2)
    <2>1. MAX_FRAME_LEN \div 254 \in Nat
      BY WireAssumption DEF MAX_FRAME_LEN
    <2> QED
      BY <1>1, <2>1, WireAssumption DEF MAX_FRAME_LEN, MAX_ENCODED_LEN
  <1>3. CobsEncode(frame, MAX_ENCODED_LEN) = sent
    BY <1>2 DEF CobsEncode
  <1>4. /\ out \in Seq(Byte) /\ Len(out) = Len(frame) + 1
        /\ \A n \in 1 .. Len(frame) + 1 : out[n] # {}
    BY <1>1, <1>2, StuffedFacts
  <1>5. Unstuffed(out) = frame
    BY <1>1, <1>2, CobsRoundTrip
  <1> HIDE DEF out
  <1>6. /\ sent \in Seq(Byte) /\ Len(sent) = Len(frame) + 2 /\ sent[Len(frame) + 2] = {}
        /\ \A n \in 1 .. Len(frame) + 1 : sent[n] = out[n]
    <2>1. {} \in Byte
      BY DEF Byte
    <2> QED
      BY <1>2, <1>4, <2>1
  <1> HIDE DEF sent
  <1>7. /\ stream \in Seq(Byte) /\ Len(stream) = Len(before) + Len(frame) + 2 + Len(after)
        /\ \A n \in 1 .. Len(before) : stream[n] = before[n]
        /\ \A n \in 1 .. Len(frame) + 2 : stream[Len(before) + n] = sent[n]
    <2> DEFINE front == before \o sent
    <2>1. /\ front \in Seq(Byte) /\ Len(front) = Len(before) + Len(frame) + 2
          /\ \A n \in 1 .. Len(before) : front[n] = before[n]
          /\ \A n \in 1 .. Len(frame) + 2 : front[Len(before) + n] = sent[n]
      <3>1. Len(before) + (Len(frame) + 2) = Len(before) + Len(frame) + 2
        BY <1>2
      <3>2. /\ front \in Seq(Byte) /\ Len(front) = Len(before) + Len(sent)
            /\ \A n \in 1 .. Len(before) : front[n] = before[n]
            /\ \A n \in 1 .. Len(sent) : front[Len(before) + n] = sent[n]
        BY ONLY before \in Seq(Byte), <1>6, Joined, Zenon
      <3> QED
        BY ONLY <1>6, <3>1, <3>2, Zenon
    <2> HIDE DEF front
    <2>2. /\ front \o after \in Seq(Byte)
          /\ Len(front \o after) = Len(before) + Len(frame) + 2 + Len(after)
          /\ \A n \in 1 .. Len(before) + Len(frame) + 2 : (front \o after)[n] = front[n]
      <3>1. /\ front \o after \in Seq(Byte)
            /\ Len(front \o after) = Len(front) + Len(after)
            /\ \A n \in 1 .. Len(front) : (front \o after)[n] = front[n]
        BY ONLY after \in Seq(Byte), <2>1, Joined, Zenon
      <3>2. Len(front) = Len(before) + Len(frame) + 2
        BY <2>1
      <3> QED
        BY ONLY <3>1, <3>2, Zenon
    <2>3. stream = front \o after
      BY DEF front
    <2> HIDE DEF stream
    <2>4. \A n \in 1 .. Len(before) : n \in 1 .. Len(before) + Len(frame) + 2
      BY <1>2
    <2>5. \A n \in 1 .. Len(frame) + 2 :
            Len(before) + n \in 1 .. Len(before) + Len(frame) + 2
      BY <1>2
    <2> QED
      BY <2>1, <2>2, <2>3, <2>4, <2>5
  <1> HIDE DEF stream
  <1>8. SubSeq(stream, i, j - 1) = out
    <2>0. /\ i \in Int /\ j - 1 \in Int /\ i <= j - 1
          /\ j - 1 - i + 1 = Len(frame) + 1
          /\ \A n \in 1 .. Len(frame) + 1 : i + n - 1 = Len(before) + n
      BY <1>2
    <2>0a. \A k \in i .. j - 1 : stream[k] \in Byte
      BY <1>2, <1>7
    <2>1. /\ SubSeq(stream, i, j - 1) \in Seq(Byte)
          /\ Len(SubSeq(stream, i, j - 1)) = Len(frame) + 1
          /\ \A n \in 1 .. Len(frame) + 1 :
               SubSeq(stream, i, j - 1)[n] = stream[i + n - 1]
      <3> HIDE DEF i, j
      <3> QED
        BY <2>0, <2>0a, SubSeqProperties
    <2>2. \A n \in 1 .. Len(frame) + 1 : SubSeq(stream, i, j - 1)[n] = out[n]
      <3> TAKE n \in 1 .. Len(frame) + 1
      <3>1. SubSeq(stream, i, j - 1)[n] = stream[Len(before) + n]
        BY ONLY <2>0, <2>1, n \in 1 .. Len(frame) + 1, Zenon
      <3>2. n \in 1 .. Len(frame) + 2
        BY <1>2
      <3>3. stream[Len(before) + n] = sent[n] /\ sent[n] = out[n]
        BY ONLY n \in 1 .. Len(frame) + 1, <1>6, <1>7, <3>2, Zenon
      <3> QED
        BY ONLY <3>1, <3>3, Zenon
    <2> QED
      BY <1>2, <1>4, <2>1, <2>2, SeqEqual
  <1>9. out \in Cut(stream)
    <2>1. i \in 1 .. Len(stream) /\ j \in 1 .. Len(stream) /\ i <= j
      BY <1>2, <1>7
    <2>2. stream[j] = {}
      <3>1. j = Len(before) + (Len(frame) + 2) /\ Len(frame) + 2 \in 1 .. Len(frame) + 2
        BY <1>2
      <3>2. stream[Len(before) + (Len(frame) + 2)] = sent[Len(frame) + 2]
        BY <1>7, <3>1
      <3> QED
        BY <1>6, <3>1, <3>2
    <2>3. \A k \in i .. j - 1 : stream[k] # {}
      <3> TAKE k \in i .. j - 1
      <3>1. k - Len(before) \in 1 .. Len(frame) + 1 /\ k = Len(before) + (k - Len(before))
            /\ k - Len(before) \in 1 .. Len(frame) + 2
        BY <1>2
      <3> DEFINE n == k - Len(before)
      <3>2. stream[Len(before) + n] = sent[n] /\ sent[n] = out[n] /\ out[n] # {}
        <4> HIDE DEF n
        <4>1. n \in 1 .. Len(frame) + 1 /\ n \in 1 .. Len(frame) + 2
          BY <3>1 DEF n
        <4> QED
          BY ONLY <1>4, <1>6, <1>7, <4>1, Zenon
      <3> QED
        BY ONLY <3>1, <3>2, Zenon DEF n
    <2>4. i = 1 \/ stream[i - 1] = {}
      <3>1. i - 1 = Len(before)
        BY <1>2
      <3>2. before = <<>> => i = 1
        OBVIOUS
      <3>3. before # <<>> => Len(before) \in 1 .. Len(before)
        BY <1>2
      <3> QED
        BY <1>7, <3>1, <3>2, <3>3
    <2> DEFINE p == <<i, j>>
    <2>5. /\ p \in (1 .. Len(stream)) \X (1 .. Len(stream))
          /\ p[1] = i /\ p[2] = j
      BY <2>1
    <2> HIDE DEF i, j, p
    <2> QED
      BY <1>8, <2>1, <2>2, <2>3, <2>4, <2>5 DEF Cut
  <1>10. frame \in {Unstuffed(piece) : piece \in Cut(stream)}
    BY <1>5, <1>9
  <1>11. payload \in Read(stream)
    BY <1>1, <1>10 DEF Read
  <1> QED
    BY <1>3, <1>11 DEF stream, frame
=============================================================================
