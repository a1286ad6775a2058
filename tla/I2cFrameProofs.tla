--------------------------- MODULE I2cFrameProofs ---------------------------
(***************************************************************************)
(* Proofs about Crc8 and I2cFrame.  The checksum is affine over symmetric  *)
(* difference: what the check makes of an error on the wire does not       *)
(* depend on the word it hits.  The in-place check of a frame is right for *)
(* any number of words, any words and any errors of the wire.              *)
(***************************************************************************)
EXTENDS I2cFrame, FiniteSetTheorems, TLAPS

(* The bits of the difference of two bytes.                                 *)
LEMMA DiffMember ==
  ASSUME NEW a, NEW b, NEW x
  PROVE  x \in SymDiff(a, b) <=> ~(x \in a <=> x \in b)
  BY DEF SymDiff

(* Two bytes are equal if they have the same bits.                          *)
LEMMA ByteEqual ==
  ASSUME NEW a \in Byte, NEW b \in Byte,
         \A x \in Bit : x \in a <=> x \in b
  PROVE  a = b
  BY DEF Byte

(* The difference of two bytes is a byte.                                   *)
LEMMA DiffByte == \A a, b \in Byte : SymDiff(a, b) \in Byte
  BY DEF SymDiff, Byte

(* The bits of a shifted checksum.                                          *)
LEMMA ShiftMember ==
  ASSUME NEW c \in Byte, NEW x \in Bit
  PROVE  x \in ShiftBit(c) <=>
           ~((x # 0 /\ x - 1 \in c) <=> (7 \in c /\ x \in CRC8_POLYNOMIAL))
<1> DEFINE up == {b + 1 : b \in c \ {7}}
           poly == IF 7 \in c THEN CRC8_POLYNOMIAL ELSE {}
<1>1. x \in up <=> x # 0 /\ x - 1 \in c
  BY DEF Bit, Byte
<1>2. x \in poly <=> 7 \in c /\ x \in CRC8_POLYNOMIAL
  OBVIOUS
<1>3. x \in ShiftBit(c) <=> ~(x \in up <=> x \in poly)
  BY DiffMember DEF ShiftBit
<1> QED
  BY <1>1, <1>2, <1>3

(* A shifted checksum is a byte.                                            *)
LEMMA ShiftBitByte == \A c \in Byte : ShiftBit(c) \in Byte
<1> SUFFICES ASSUME NEW c \in Byte PROVE ShiftBit(c) \in Byte
  OBVIOUS
<1>1. {b + 1 : b \in c \ {7}} \in Byte
  BY DEF Byte, Bit
<1>2. (IF 7 \in c THEN CRC8_POLYNOMIAL ELSE {}) \in Byte
  BY DEF Byte, Bit, CRC8_POLYNOMIAL
<1> QED
  BY <1>1, <1>2, DiffByte DEF ShiftBit

(* One shift distributes over the difference.                               *)
LEMMA ShiftBitLinear ==
  \A a, b \in Byte : ShiftBit(SymDiff(a, b)) = SymDiff(ShiftBit(a), ShiftBit(b))
<1> SUFFICES ASSUME NEW a \in Byte, NEW b \in Byte
             PROVE  ShiftBit(SymDiff(a, b)) = SymDiff(ShiftBit(a), ShiftBit(b))
  OBVIOUS
<1> DEFINE d == SymDiff(a, b)
<1>1. d \in Byte
  BY DiffByte
<1>2. ASSUME NEW x \in Bit
      PROVE  x \in ShiftBit(d) <=> x \in SymDiff(ShiftBit(a), ShiftBit(b))
  <2>1. x \in SymDiff(ShiftBit(a), ShiftBit(b))
          <=> ~(x \in ShiftBit(a) <=> x \in ShiftBit(b))
    BY DiffMember
  <2>2. 7 \in d <=> ~(7 \in a <=> 7 \in b)
    BY DiffMember
  <2>3. x - 1 \in d <=> ~(x - 1 \in a <=> x - 1 \in b)
    BY DiffMember
  <2>4. x \in ShiftBit(d) <=>
          ~((x # 0 /\ x - 1 \in d) <=> (7 \in d /\ x \in CRC8_POLYNOMIAL))
    BY <1>1, ShiftMember
  <2>5. x \in ShiftBit(a) <=>
          ~((x # 0 /\ x - 1 \in a) <=> (7 \in a /\ x \in CRC8_POLYNOMIAL))
    BY ShiftMember
  <2>6. x \in ShiftBit(b) <=>
          ~((x # 0 /\ x - 1 \in b) <=> (7 \in b /\ x \in CRC8_POLYNOMIAL))
    BY ShiftMember
  <2> HIDE DEF d
  <2> QED
    BY <2>1, <2>2, <2>3, <2>4, <2>5, <2>6
<1>3. ShiftBit(d) \in Byte /\ SymDiff(ShiftBit(a), ShiftBit(b)) \in Byte
  BY <1>1, ShiftBitByte, DiffByte
<1> QED
  BY <1>2, <1>3, ByteEqual

(* So do eight.                                                             *)
LEMMA ShiftByteLinear ==
  \A a, b \in Byte :
    /\ ShiftByte(a) \in Byte
    /\ ShiftByte(SymDiff(a, b)) = SymDiff(ShiftByte(a), ShiftByte(b))
<1>1. \A a, b \in Byte :
        /\ ShiftTwo(a) \in Byte
        /\ ShiftTwo(SymDiff(a, b)) = SymDiff(ShiftTwo(a), ShiftTwo(b))
  BY ShiftBitByte, ShiftBitLinear DEF ShiftTwo
<1>2. \A a, b \in Byte :
        /\ ShiftFour(a) \in Byte
        /\ ShiftFour(SymDiff(a, b)) = SymDiff(ShiftFour(a), ShiftFour(b))
  BY <1>1 DEF ShiftFour
<1> QED
  BY <1>2 DEF ShiftByte

(* The difference is associative and commutative, and undoes itself.        *)
LEMMA DiffSwap ==
  \A a, b, c, d : SymDiff(SymDiff(a, b), SymDiff(c, d))
                  = SymDiff(SymDiff(a, c), SymDiff(b, d))
  BY DEF SymDiff

LEMMA DiffUndo ==
  \A a, b, c : SymDiff(a, b) = SymDiff(a, c) <=> b = c
<1> SUFFICES ASSUME NEW a, NEW b, NEW c, SymDiff(a, b) = SymDiff(a, c)
             PROVE  b = c
  OBVIOUS
<1>1. \A x : ~(x \in a <=> x \in b) <=> ~(x \in a <=> x \in c)
  BY DiffMember
<1>2. \A x : x \in b <=> x \in c
  BY <1>1
<1> QED
  BY <1>2

(* The checksum of a word with inverted bits differs from that of the word  *)
(* by what the inverted bits alone would give.                              *)
THEOREM CrcAffine ==
  \A hi, lo, eh, el \in Byte :
    Crc(SymDiff(hi, eh), SymDiff(lo, el)) = SymDiff(Crc(hi, lo), CrcFrom({}, eh, el))
<1> SUFFICES ASSUME NEW hi \in Byte, NEW lo \in Byte, NEW eh \in Byte, NEW el \in Byte
             PROVE  Crc(SymDiff(hi, eh), SymDiff(lo, el))
                    = SymDiff(Crc(hi, lo), CrcFrom({}, eh, el))
  OBVIOUS
<1> DEFINE p == SymDiff(CRC8_INIT, hi)
           q == SymDiff({}, eh)
           first == SymDiff(ShiftByte(p), lo)
           rest == SymDiff(ShiftByte(q), el)
<1>1. CRC8_INIT \in Byte /\ {} \in Byte
  BY DEF CRC8_INIT, Byte
<1>2. p \in Byte /\ q \in Byte
  BY <1>1, DiffByte
<1>3. SymDiff(CRC8_INIT, SymDiff(hi, eh)) = SymDiff(p, q)
  BY DEF SymDiff
<1>4. first \in Byte /\ rest \in Byte
  BY <1>2, DiffByte, ShiftByteLinear
<1>5. SymDiff(ShiftByte(SymDiff(p, q)), SymDiff(lo, el)) = SymDiff(first, rest)
  <2>1. ShiftByte(SymDiff(p, q)) = SymDiff(ShiftByte(p), ShiftByte(q))
    BY <1>2, ShiftByteLinear
  <2> QED
    BY <2>1, DiffSwap
<1>6. ShiftByte(SymDiff(first, rest)) = SymDiff(ShiftByte(first), ShiftByte(rest))
  BY <1>4, ShiftByteLinear
<1> QED
  BY <1>3, <1>5, <1>6 DEF Crc, CrcFrom

(* The driver's check (i2c.c:127-137): a frame with the error e passes it   *)
(* exactly if e is Missed, whatever the word.                               *)
THEOREM CheckIgnoresWord ==
  \A hi, lo \in Byte, e \in Error :
    Crc(SymDiff(hi, e.hi), SymDiff(lo, e.lo)) = SymDiff(Crc(hi, lo), e.crc)
      <=> Missed(e)
<1> SUFFICES ASSUME NEW hi \in Byte, NEW lo \in Byte, NEW e \in Error
             PROVE  Crc(SymDiff(hi, e.hi), SymDiff(lo, e.lo))
                      = SymDiff(Crc(hi, lo), e.crc) <=> Missed(e)
  OBVIOUS
<1>1. e.hi \in Byte /\ e.lo \in Byte
  BY DEF Error
<1>2. Crc(SymDiff(hi, e.hi), SymDiff(lo, e.lo))
      = SymDiff(Crc(hi, lo), CrcFrom({}, e.hi, e.lo))
  BY <1>1, CrcAffine
<1> QED
  BY <1>2, DiffUndo DEF Missed

----------------------------------------------------------------------------
(* Which errors the checksum catches: what it makes of the 24 bits of a     *)
(* frame, in closed form.                                                   *)

Xor(a, b) == ~(a <=> b)

(* The bits of a byte shifted once.                                         *)
ShiftedOnce(c, d) ==
  /\ 0 \in d <=> 7 \in c
  /\ 1 \in d <=> 0 \in c
  /\ 2 \in d <=> 1 \in c
  /\ 3 \in d <=> 2 \in c
  /\ 4 \in d <=> Xor(3 \in c, 7 \in c)
  /\ 5 \in d <=> Xor(4 \in c, 7 \in c)
  /\ 6 \in d <=> 5 \in c
  /\ 7 \in d <=> 6 \in c

(* The shift, bit by bit.                                                   *)
LEMMA ShiftOnce ==
  ASSUME NEW c \in Byte
  PROVE  ShiftBit(c) \in Byte /\ ShiftedOnce(c, ShiftBit(c))
<1>1. \A x \in Bit : x \in ShiftBit(c) <=>
         Xor(x # 0 /\ x - 1 \in c, 7 \in c /\ x \in CRC8_POLYNOMIAL)
  BY ShiftMember DEF Xor
<1>2. \A x \in Bit : x \in CRC8_POLYNOMIAL <=> x = 0 \/ x = 4 \/ x = 5
  BY DEF CRC8_POLYNOMIAL
<1> QED
  BY <1>1, <1>2, ShiftBitByte, SMT DEF ShiftedOnce, Bit, Xor

(* The bits of a byte shifted eight times.                                  *)
ShiftedByte(c, d) ==
  /\ 0 \in d <=> Xor(Xor(0 \in c, 3 \in c), Xor(4 \in c, 6 \in c))
  /\ 1 \in d <=> Xor(Xor(1 \in c, 4 \in c), Xor(5 \in c, 7 \in c))
  /\ 2 \in d <=> Xor(2 \in c, Xor(5 \in c, 6 \in c))
  /\ 3 \in d <=> Xor(3 \in c, Xor(6 \in c, 7 \in c))
  /\ 4 \in d <=> Xor(Xor(0 \in c, 3 \in c), Xor(6 \in c, 7 \in c))
  /\ 5 \in d <=>
       Xor(Xor(0 \in c, 1 \in c), Xor(3 \in c, Xor(6 \in c, 7 \in c)))
  /\ 6 \in d <=> Xor(Xor(1 \in c, 2 \in c), Xor(4 \in c, 7 \in c))
  /\ 7 \in d <=> Xor(2 \in c, Xor(3 \in c, 5 \in c))

(* Eight shifts, bit by bit.                                                *)
LEMMA ShiftByteBits ==
  ASSUME NEW c \in Byte
  PROVE  ShiftedByte(c, ShiftByte(c))
<1> DEFINE c1 == ShiftBit(c)
           c2 == ShiftBit(c1)
           c3 == ShiftBit(c2)
           c4 == ShiftBit(c3)
           c5 == ShiftBit(c4)
           c6 == ShiftBit(c5)
           c7 == ShiftBit(c6)
           c8 == ShiftBit(c7)
<1>1. ShiftByte(c) = c8
  BY DEF ShiftByte, ShiftFour, ShiftTwo
<1>2. c1 \in Byte /\ ShiftedOnce(c, c1)
  BY ShiftOnce
<1> HIDE DEF c1
<1>3. c2 \in Byte /\ ShiftedOnce(c1, c2)
  BY <1>2, ShiftOnce
<1> HIDE DEF c2
<1>4. c3 \in Byte /\ ShiftedOnce(c2, c3)
  BY <1>3, ShiftOnce
<1> HIDE DEF c3
<1>5. c4 \in Byte /\ ShiftedOnce(c3, c4)
  BY <1>4, ShiftOnce
<1> HIDE DEF c4
<1>6. c5 \in Byte /\ ShiftedOnce(c4, c5)
  BY <1>5, ShiftOnce
<1> HIDE DEF c5
<1>7. c6 \in Byte /\ ShiftedOnce(c5, c6)
  BY <1>6, ShiftOnce
<1> HIDE DEF c6
<1>8. c7 \in Byte /\ ShiftedOnce(c6, c7)
  BY <1>7, ShiftOnce
<1> HIDE DEF c7
<1>9. c8 \in Byte /\ ShiftedOnce(c7, c8)
  BY <1>8, ShiftOnce
<1> HIDE DEF c8
<1> QED
  BY <1>1, <1>2, <1>3, <1>4, <1>5, <1>6, <1>7, <1>8, <1>9, SMT
     DEF ShiftedByte, ShiftedOnce, Xor

(* The bits of the three bytes in the order of the wire.                    *)
LEMMA InvertedBits ==
  ASSUME NEW ps \in SUBSET Positions
  PROVE  /\ Inverted(ps) \in Error
         /\ \A x \in Bit : x \in Inverted(ps).hi <=> 7 - x \in ps
         /\ \A x \in Bit : x \in Inverted(ps).lo <=> 15 - x \in ps
         /\ \A x \in Bit : x \in Inverted(ps).crc <=> 23 - x \in ps
<1> DEFINE bits(byte) == {7 - (p % 8) : p \in {q \in ps : q \div 8 = byte}}
<1>1. Inverted(ps) = [hi |-> bits(0), lo |-> bits(1), crc |-> bits(2)]
  BY DEF Inverted
<1>2. bits(0) \in Byte /\ bits(1) \in Byte /\ bits(2) \in Byte
  BY DEF Byte, Bit, Positions
<1>3. \A x \in Bit : x \in bits(0) <=> 7 - x \in ps
  <2> SUFFICES ASSUME NEW x \in Bit PROVE x \in bits(0) <=> 7 - x \in ps
    OBVIOUS
  <2>1. \A p \in Positions : p \div 8 = 0 /\ 7 - (p % 8) = x <=> p = 7 - x
    BY DEF Bit, Positions
  <2> QED
    BY <2>1
<1>4. \A x \in Bit : x \in bits(1) <=> 15 - x \in ps
  <2> SUFFICES ASSUME NEW x \in Bit PROVE x \in bits(1) <=> 15 - x \in ps
    OBVIOUS
  <2>1. \A p \in Positions : p \div 8 = 1 /\ 7 - (p % 8) = x <=> p = 15 - x
    BY DEF Bit, Positions
  <2> QED
    BY <2>1
<1>5. \A x \in Bit : x \in bits(2) <=> 23 - x \in ps
  <2> SUFFICES ASSUME NEW x \in Bit PROVE x \in bits(2) <=> 23 - x \in ps
    OBVIOUS
  <2>1. \A p \in Positions : p \div 8 = 2 /\ 7 - (p % 8) = x <=> p = 23 - x
    BY DEF Bit, Positions
  <2> QED
    BY <2>1
<1> HIDE DEF bits
<1>6. /\ Inverted(ps).hi = bits(0)
      /\ Inverted(ps).lo = bits(1)
      /\ Inverted(ps).crc = bits(2)
  BY <1>1
<1>7. Inverted(ps) \in Error
  BY <1>1, <1>2 DEF Error
<1> QED
  BY <1>3, <1>4, <1>5, <1>6, <1>7, Zenon

(* The bits of an error that the check misses, in the order of the wire.    *)
Codeword(ps) ==
  /\ 16 \in ps <=>
       Xor(Xor(Xor(1 \in ps, 2 \in ps), Xor(5 \in ps, 6 \in ps)),
           Xor(Xor(7 \in ps, 10 \in ps), Xor(12 \in ps, 13 \in ps)))
  /\ 17 \in ps <=>
       Xor(Xor(Xor(2 \in ps, 3 \in ps), Xor(6 \in ps, 7 \in ps)),
           Xor(Xor(8 \in ps, 11 \in ps), Xor(13 \in ps, 14 \in ps)))
  /\ 18 \in ps <=>
       Xor(Xor(Xor(0 \in ps, 3 \in ps), Xor(4 \in ps, 7 \in ps)),
           Xor(Xor(8 \in ps, 9 \in ps), Xor(12 \in ps, Xor(14 \in ps, 15 \in ps))))
  /\ 19 \in ps <=>
       Xor(Xor(Xor(2 \in ps, 4 \in ps), Xor(6 \in ps, 7 \in ps)),
           Xor(Xor(8 \in ps, 9 \in ps), Xor(12 \in ps, 15 \in ps)))
  /\ 20 \in ps <=>
       Xor(Xor(1 \in ps, Xor(2 \in ps, 3 \in ps)),
           Xor(Xor(6 \in ps, 8 \in ps), Xor(9 \in ps, 12 \in ps)))
  /\ 21 \in ps <=>
       Xor(Xor(2 \in ps, Xor(3 \in ps, 4 \in ps)),
           Xor(Xor(7 \in ps, 9 \in ps), Xor(10 \in ps, 13 \in ps)))
  /\ 22 \in ps <=>
       Xor(Xor(Xor(0 \in ps, 3 \in ps), Xor(4 \in ps, 5 \in ps)),
           Xor(Xor(8 \in ps, 10 \in ps), Xor(11 \in ps, 14 \in ps)))
  /\ 23 \in ps <=>
       Xor(Xor(Xor(0 \in ps, 1 \in ps), Xor(4 \in ps, 5 \in ps)),
           Xor(Xor(6 \in ps, 9 \in ps), Xor(11 \in ps, Xor(12 \in ps, 15 \in ps))))

(* An error that the check misses is a code word.                           *)
LEMMA MissedCodeword ==
  ASSUME NEW ps \in SUBSET Positions, Missed(Inverted(ps))
  PROVE  Codeword(ps)
<1> DEFINE e == Inverted(ps)
           first == SymDiff({}, e.hi)
           second == ShiftByte(first)
           third == SymDiff(second, e.lo)
           last == ShiftByte(third)
<1>1. e \in Error /\ e.hi \in Byte /\ e.lo \in Byte /\ {} \in Byte
  BY InvertedBits DEF Error, Byte
<1>2. e.crc = last
  BY DEF Missed, CrcFrom
<1>3. first \in Byte /\ third \in Byte
  BY <1>1, DiffByte, ShiftByteLinear
<1>4. /\ \A x \in Bit : x \in e.hi <=> 7 - x \in ps
      /\ \A x \in Bit : x \in e.lo <=> 15 - x \in ps
      /\ \A x \in Bit : x \in e.crc <=> 23 - x \in ps
  BY InvertedBits, Zenon
<1> HIDE DEF e
<1>5. \A x \in Bit : x \in first <=> 7 - x \in ps
  BY <1>4, DiffMember
<1> HIDE DEF first
<1>6. /\ 0 \in first <=> 7 \in ps
      /\ 1 \in first <=> 6 \in ps
      /\ 2 \in first <=> 5 \in ps
      /\ 3 \in first <=> 4 \in ps
      /\ 4 \in first <=> 3 \in ps
      /\ 5 \in first <=> 2 \in ps
      /\ 6 \in first <=> 1 \in ps
      /\ 7 \in first <=> 0 \in ps
  BY <1>5 DEF Bit
<1>7. ShiftedByte(first, second)
  BY <1>3, ShiftByteBits
<1> HIDE DEF second
<1>8. \A x \in Bit : x \in third <=> Xor(x \in second, 15 - x \in ps)
  BY <1>4, DiffMember DEF Xor
<1> HIDE DEF third
<1>9. /\ 0 \in third <=> Xor(0 \in second, 15 \in ps)
      /\ 1 \in third <=> Xor(1 \in second, 14 \in ps)
      /\ 2 \in third <=> Xor(2 \in second, 13 \in ps)
      /\ 3 \in third <=> Xor(3 \in second, 12 \in ps)
      /\ 4 \in third <=> Xor(4 \in second, 11 \in ps)
      /\ 5 \in third <=> Xor(5 \in second, 10 \in ps)
      /\ 6 \in third <=> Xor(6 \in second, 9 \in ps)
      /\ 7 \in third <=> Xor(7 \in second, 8 \in ps)
  BY <1>8 DEF Bit
<1>10. ShiftedByte(third, last)
  BY <1>3, ShiftByteBits
<1> HIDE DEF last
<1>11. /\ 0 \in last <=> 23 \in ps
       /\ 1 \in last <=> 22 \in ps
       /\ 2 \in last <=> 21 \in ps
       /\ 3 \in last <=> 20 \in ps
       /\ 4 \in last <=> 19 \in ps
       /\ 5 \in last <=> 18 \in ps
       /\ 6 \in last <=> 17 \in ps
       /\ 7 \in last <=> 16 \in ps
  BY <1>2, <1>4 DEF Bit
<1> QED
  BY <1>6, <1>7, <1>9, <1>10, <1>11, SMT DEF Codeword, ShiftedByte, Xor

(* No burst, no pair and no odd number of bits is a code word.              *)
LEMMA BurstNoCodeword ==
  ASSUME NEW ps \in SUBSET Positions, NEW p \in 0..16,
         ps \subseteq p..(p + 7), Codeword(ps)
  PROVE  ps = {}
<1>1. \A k \in Positions : k \in ps => p <= k /\ k <= p + 7
  OBVIOUS
<1>2. \A k \in Positions : k \notin ps
  BY <1>1, SMTT(100) DEF Codeword, Xor, Positions
<1> QED
  BY <1>2

LEMMA PairNoCodeword ==
  ASSUME NEW ps \in SUBSET Positions,
         NEW p \in Positions, NEW q \in Positions, ps = {p, q}, p # q
  PROVE  ~Codeword(ps)
<1>1. \A k \in Positions : k \in ps <=> k = p \/ k = q
  OBVIOUS
<1> QED
  BY <1>1, SMTT(100) DEF Codeword, Xor, Positions

(* Counting the bits of an error from the first to the last.                *)
LEMMA CountStep ==
  ASSUME NEW ps \in SUBSET Positions, NEW k \in Nat
  PROVE  /\ Cardinality(ps \cap 0..(k - 1)) \in Nat
         /\ Cardinality(ps \cap 0..k)
              = Cardinality(ps \cap 0..(k - 1)) + (IF k \in ps THEN 1 ELSE 0)
<1> DEFINE low == ps \cap 0..(k - 1)
<1>1. IsFiniteSet(low)
  <2>1. IsFiniteSet(0..(k - 1)) /\ low \subseteq 0..(k - 1)
    BY FS_Interval
  <2> HIDE DEF low
  <2> QED
    BY <2>1, FS_Subset
<1>2. Cardinality(low) \in Nat
  BY <1>1, FS_CardinalityType
<1>3. k \notin low
  OBVIOUS
<1>4. CASE k \in ps
  <2>1. ps \cap 0..k = low \cup {k}
    BY <1>4
  <2> QED
    BY <1>1, <1>2, <1>3, <1>4, <2>1, FS_AddElement
<1>5. CASE k \notin ps
  <2>1. ps \cap 0..k = low
    BY <1>5
  <2> QED
    BY <1>2, <1>5, <2>1
<1> QED
  BY <1>4, <1>5

LEMMA OddNoCodeword ==
  ASSUME NEW ps \in SUBSET Positions, Codeword(ps)
  PROVE  Cardinality(ps) % 2 = 0
<1> DEFINE odd(k) == Cardinality(ps \cap 0..(k - 1)) % 2 = 1
<1>1. ~odd(0)
  <2>1. ps \cap 0..(0 - 1) = {}
    OBVIOUS
  <2> QED
    BY <2>1, FS_EmptySet
<1>2. \A k \in Nat : odd(k + 1) <=> Xor(odd(k), k \in ps)
  <2> SUFFICES ASSUME NEW k \in Nat PROVE odd(k + 1) <=> Xor(odd(k), k \in ps)
    OBVIOUS
  <2>1. (k + 1) - 1 = k
    OBVIOUS
  <2> DEFINE n == Cardinality(ps \cap 0..(k - 1))
             n1 == Cardinality(ps \cap 0..k)
  <2>2. n \in Nat /\ n1 = n + (IF k \in ps THEN 1 ELSE 0)
    BY CountStep
  <2>3. odd(k) <=> n % 2 = 1
    OBVIOUS
  <2>4. odd(k + 1) <=> n1 % 2 = 1
    BY <2>1
  <2> HIDE DEF n, n1, odd
  <2> QED
    BY <2>2, <2>3, <2>4 DEF Xor
<1>3. odd(24) <=> Cardinality(ps) % 2 = 1
  <2>1. ps \cap 0..(24 - 1) = ps
    <3>1. \A k \in Positions : k \in 0..(24 - 1)
      BY DEF Positions
    <3> QED
      BY <3>1
  <2> QED
    BY <2>1
<1>4. Cardinality(ps) \in Nat
  <2>1. IsFiniteSet(Positions)
    <3>1. 0 \in Int /\ 23 \in Int
      OBVIOUS
    <3>2. IsFiniteSet(0..23)
      BY <3>1, FS_Interval
    <3> QED
      BY <3>2 DEF Positions
  <2>2. IsFiniteSet(ps)
    BY <2>1, FS_Subset
  <2> QED
    BY <2>2, FS_CardinalityType
<1> HIDE DEF odd
<1>5. /\ odd(1) <=> Xor(odd(0), 0 \in ps)
      /\ odd(2) <=> Xor(odd(1), 1 \in ps)
      /\ odd(3) <=> Xor(odd(2), 2 \in ps)
      /\ odd(4) <=> Xor(odd(3), 3 \in ps)
      /\ odd(5) <=> Xor(odd(4), 4 \in ps)
      /\ odd(6) <=> Xor(odd(5), 5 \in ps)
      /\ odd(7) <=> Xor(odd(6), 6 \in ps)
      /\ odd(8) <=> Xor(odd(7), 7 \in ps)
      /\ odd(9) <=> Xor(odd(8), 8 \in ps)
      /\ odd(10) <=> Xor(odd(9), 9 \in ps)
      /\ odd(11) <=> Xor(odd(10), 10 \in ps)
      /\ odd(12) <=> Xor(odd(11), 11 \in ps)
      /\ odd(13) <=> Xor(odd(12), 12 \in ps)
      /\ odd(14) <=> Xor(odd(13), 13 \in ps)
      /\ odd(15) <=> Xor(odd(14), 14 \in ps)
      /\ odd(16) <=> Xor(odd(15), 15 \in ps)
      /\ odd(17) <=> Xor(odd(16), 16 \in ps)
      /\ odd(18) <=> Xor(odd(17), 17 \in ps)
      /\ odd(19) <=> Xor(odd(18), 18 \in ps)
      /\ odd(20) <=> Xor(odd(19), 19 \in ps)
      /\ odd(21) <=> Xor(odd(20), 20 \in ps)
      /\ odd(22) <=> Xor(odd(21), 21 \in ps)
      /\ odd(23) <=> Xor(odd(22), 22 \in ps)
      /\ odd(24) <=> Xor(odd(23), 23 \in ps)
  BY <1>2
<1>6. ~odd(24)
  BY <1>1, <1>5, SMTT(60) DEF Codeword, Xor
<1> QED
  BY <1>3, <1>4, <1>6

(* The polynomial of i2c.h:11 does what a checksum of eight bits can: the   *)
(* check of i2c.c:127-137 refuses every odd number of inverted bits, every  *)
(* two, and every burst of up to eight, in any word.                        *)
THEOREM DetectableCaught ==
  \A ps \in Detectable : ps = {} \/ ~Missed(Inverted(ps))
<1> SUFFICES ASSUME NEW ps \in Detectable, Missed(Inverted(ps))
             PROVE  ps = {}
  OBVIOUS
<1>1. CASE ps \in OddErrors
  <2>1. ps \in SUBSET Positions /\ Cardinality(ps) % 2 = 1
    BY <1>1 DEF OddErrors
  <2>2. Cardinality(ps) % 2 = 0
    BY <2>1, MissedCodeword, OddNoCodeword
  <2> QED
    BY <2>1, <2>2
<1>2. CASE ps \in TwoBits
  <2>1. PICK p \in Positions, q \in Positions : ps = {p, q}
    BY <1>2 DEF TwoBits
  <2>2. ps \in SUBSET Positions
    BY <2>1
  <2>3. Codeword(ps)
    BY <2>2, MissedCodeword
  <2>4. p = q
    BY <2>1, <2>2, <2>3, PairNoCodeword
  <2>5. CASE p \in 0..16
    <3>1. ps \subseteq p..(p + 7)
      BY <2>1, <2>4, <2>5
    <3> QED
      BY <2>2, <2>3, <2>5, <3>1, BurstNoCodeword
  <2>6. CASE p \notin 0..16
    <3>1. ps \subseteq 16..(16 + 7) /\ 16 \in 0..16
      BY <2>1, <2>4, <2>6 DEF Positions
    <3> QED
      BY <2>2, <2>3, <3>1, BurstNoCodeword
  <2> QED
    BY <2>5, <2>6
<1>3. CASE ps \in Bursts
  <2>1. PICK p \in 0..16 : ps \subseteq p..(p + 7)
    BY <1>3 DEF Bursts
  <2>2. ps \in SUBSET Positions
    BY <2>1 DEF Positions
  <2> QED
    BY <2>1, <2>2, MissedCodeword, BurstNoCodeword
<1> QED
  BY <1>1, <1>2, <1>3 DEF Detectable

----------------------------------------------------------------------------
(* The answer of n words arrived with the errors c.                         *)
Arrived(n, c) ==
  /\ sent \in [0..(n - 1) -> Word]
  /\ wire = Frames(sent, n, c)

(* m frames are checked and moved to the front; the others are untouched.   *)
Moving(n, m) ==
  /\ m \in 0..n
  /\ i = 3 * m
  /\ j = 2 * m
  /\ buffer = [k \in 0..(3 * n - 1) |-> buffer[k]]
  /\ \A k \in 0..(3 * n - 1) : k >= 3 * m => buffer[k] = wire[k]
  /\ \A f \in 0..(m - 1) :
       /\ buffer[2 * f] = wire[3 * f]
       /\ buffer[2 * f + 1] = wire[3 * f + 1]
       /\ Crc(wire[3 * f], wire[3 * f + 1]) = wire[3 * f + 2]

(* The words returned are those of the wire, each checked.                  *)
Returned(n) ==
  /\ values = [f \in 0..(n - 1) |-> [hi |-> wire[3 * f], lo |-> wire[3 * f + 1]]]
  /\ \A f \in 0..(n - 1) : Crc(wire[3 * f], wire[3 * f + 1]) = wire[3 * f + 2]

IInv ==
  /\ at = "read" => \E n \in Lengths : sent \in [0..(n - 1) -> Word]
  /\ at = "check" =>
       \E n \in Lengths, c \in Corruption : Arrived(n, c) /\ \E m \in 0..n : Moving(n, m)
  /\ at = "return" =>
       \E n \in Lengths, c \in Corruption : Arrived(n, c) /\ Returned(n)

(* A frame on the wire: word f with its errors.                             *)
FrameRight(n, w, c, f) ==
  /\ Frames(w, n, c)[3 * f] = SymDiff(w[f].hi, c[f].hi)
  /\ Frames(w, n, c)[3 * f + 1] = SymDiff(w[f].lo, c[f].lo)
  /\ Frames(w, n, c)[3 * f + 2] = SymDiff(Crc(w[f].hi, w[f].lo), c[f].crc)

LEMMA FrameAt ==
  ASSUME NEW n \in Nat, NEW w, NEW c, NEW f \in 0..(n - 1)
  PROVE  FrameRight(n, w, c, f)
<1> USE DEF Frames, Size, FRAME_SIZE, WORD_SIZE, CRC8_LEN
<1>1. 3 * f \in 0..(3 * n - 1) /\ (3 * f) \div 3 = f /\ (3 * f) % 3 = 0
  OBVIOUS
<1>2. 3 * f + 1 \in 0..(3 * n - 1) /\ (3 * f + 1) \div 3 = f /\ (3 * f + 1) % 3 = 1
  OBVIOUS
<1>3. 3 * f + 2 \in 0..(3 * n - 1) /\ (3 * f + 2) \div 3 = f /\ (3 * f + 2) % 3 = 2
  OBVIOUS
<1>4. n * (2 + 1) = 3 * n /\ 2 + 1 = 3
  OBVIOUS
<1>5. Frames(w, n, c)[3 * f] = SymDiff(w[f].hi, c[f].hi)
  BY <1>1, <1>4
<1>6. Frames(w, n, c)[3 * f + 1] = SymDiff(w[f].lo, c[f].lo)
  BY <1>2, <1>4
<1>7. Frames(w, n, c)[3 * f + 2] = SymDiff(Crc(w[f].hi, w[f].lo), c[f].crc)
  BY <1>3, <1>4
<1> QED
  BY <1>5, <1>6, <1>7 DEF FrameRight

LEMMA FramesDomain ==
  ASSUME NEW n \in Nat, NEW w, NEW c
  PROVE  Frames(w, n, c) = [k \in 0..(3 * n - 1) |-> Frames(w, n, c)[k]]
<1>1. n * (2 + 1) = 3 * n
  OBVIOUS
<1> QED
  BY <1>1 DEF Frames, Size, FRAME_SIZE, WORD_SIZE, CRC8_LEN

(* The two stores move frame m to its place and disturb nothing else.       *)
LEMMA MoveOne ==
  ASSUME NEW n \in Nat, NEW m, Moving(n, m), m < n, FrameOk, CheckFrame
  PROVE  Moving(n, m + 1)'
<1> DEFINE one == [buffer EXCEPT ![j] = buffer[i]]
           two == [one EXCEPT ![j + 1] = one[i + 1]]
<1>1. /\ buffer' = two
      /\ i' = i + 3
      /\ j' = j + 2
      /\ wire' = wire
  BY DEF CheckFrame, Moved, FRAME_SIZE, WORD_SIZE, CRC8_LEN
<1>2. /\ m \in 0..(n - 1)
      /\ i = 3 * m
      /\ j = 2 * m
      /\ {3 * m, 3 * m + 1, 3 * m + 2, 2 * m, 2 * m + 1} \subseteq 0..(3 * n - 1)
  BY DEF Moving
<1>3. buffer = [k \in 0..(3 * n - 1) |-> buffer[k]]
  BY DEF Moving
<1>4. /\ buffer[3 * m] = wire[3 * m]
      /\ buffer[3 * m + 1] = wire[3 * m + 1]
      /\ buffer[3 * m + 2] = wire[3 * m + 2]
  BY <1>2 DEF Moving
<1>5. /\ one = [k \in 0..(3 * n - 1) |-> one[k]]
      /\ one[2 * m] = wire[3 * m]
      /\ \A k \in 0..(3 * n - 1) : k # 2 * m => one[k] = buffer[k]
  BY <1>2, <1>3, <1>4
<1>6. /\ two = [k \in 0..(3 * n - 1) |-> two[k]]
      /\ two[2 * m] = wire[3 * m]
      /\ two[2 * m + 1] = wire[3 * m + 1]
      /\ \A k \in 0..(3 * n - 1) : k # 2 * m /\ k # 2 * m + 1 => two[k] = buffer[k]
  <2>1. one[3 * m + 1] = wire[3 * m + 1]
    BY <1>2, <1>4, <1>5
  <2> HIDE DEF one
  <2>2. i + 1 = 3 * m + 1 /\ j + 1 = 2 * m + 1 /\ 2 * m # 2 * m + 1
    BY <1>2
  <2>3. two = [one EXCEPT ![2 * m + 1] = wire[3 * m + 1]]
    BY <2>1, <2>2
  <2>4. 2 * m \in 0..(3 * n - 1) /\ 2 * m + 1 \in 0..(3 * n - 1)
    BY <1>2
  <2> HIDE DEF two
  <2> QED
    BY <1>5, <2>2, <2>3, <2>4
<1>7. Crc(wire[3 * m], wire[3 * m + 1]) = wire[3 * m + 2]
  BY <1>2, <1>4 DEF FrameOk, WORD_SIZE
<1> HIDE DEF one, two
<1>8. \A k \in 0..(3 * n - 1) : k >= 3 * (m + 1) => two[k] = wire[k]
  <2> SUFFICES ASSUME NEW k \in 0..(3 * n - 1), k >= 3 * (m + 1)
               PROVE  two[k] = wire[k]
    OBVIOUS
  <2>1. k # 2 * m /\ k # 2 * m + 1 /\ k >= 3 * m
    BY <1>2
  <2>2. two[k] = buffer[k]
    BY <1>6, <2>1
  <2> QED
    BY <2>1, <2>2 DEF Moving
<1>9. ASSUME NEW f \in 0..m
      PROVE  /\ two[2 * f] = wire[3 * f]
             /\ two[2 * f + 1] = wire[3 * f + 1]
             /\ Crc(wire[3 * f], wire[3 * f + 1]) = wire[3 * f + 2]
  <2>1. CASE f = m
    BY <2>1, <1>6, <1>7
  <2>2. CASE f # m
    <3>1. f \in 0..(m - 1) /\ 2 * f \in 0..(3 * n - 1) /\ 2 * f + 1 \in 0..(3 * n - 1)
      BY <1>2, <2>2
    <3>2. /\ 2 * f # 2 * m /\ 2 * f # 2 * m + 1
          /\ 2 * f + 1 # 2 * m /\ 2 * f + 1 # 2 * m + 1
      BY <1>2, <2>2
    <3>3. two[2 * f] = buffer[2 * f] /\ two[2 * f + 1] = buffer[2 * f + 1]
      BY <1>6, <3>1, <3>2
    <3> QED
      BY <3>1, <3>3 DEF Moving
  <2> QED
    BY <2>1, <2>2
<1>10. /\ m + 1 \in 0..n
       /\ i + 3 = 3 * (m + 1)
       /\ j + 2 = 2 * (m + 1)
       /\ (m + 1) - 1 = m
  BY <1>2
<1> QED
  BY <1>1, <1>6, <1>8, <1>9, <1>10 DEF Moving

(* The strengthened invariant: where the loop is, and what it has done.     *)
LEMMA FrameInv == Spec => []IInv
<1>1. Init => IInv
  BY DEF Init, IInv
<1>2. IInv /\ [Next]_vars => IInv'
  <2> SUFFICES ASSUME IInv, [Next]_vars PROVE IInv'
    OBVIOUS
  <2> USE LengthsAssumption
  <2>1. CASE Call
    BY <2>1 DEF Call, IInv
  <2>2. CASE Read
    <3>1. CASE at' = "failed"
      BY <3>1 DEF IInv
    <3>2. CASE at' = "check"
      <4>1. PICK n \in Lengths, c \in Corruption :
              DOMAIN sent = 0..(n - 1) /\ wire' = Frames(sent, n, c)
        BY <2>2, <3>2 DEF Read
      <4>2. PICK l \in Lengths : sent \in [0..(l - 1) -> Word]
        BY <2>2 DEF Read, IInv
      <4>3. sent' = sent /\ buffer' = wire' /\ i' = 0 /\ j' = 0
        BY <2>2, <3>2 DEF Read
      <4>4. sent \in [0..(n - 1) -> Word]
        BY <4>1, <4>2
      <4>5. Arrived(n, c)'
        BY <4>1, <4>3, <4>4 DEF Arrived
      <4>6. Moving(n, 0)'
        BY <4>1, <4>3, FramesDomain DEF Moving
      <4> QED
        BY <3>2, <4>5, <4>6 DEF IInv
    <3> QED
      BY <2>2, <3>1, <3>2 DEF Read
  <2>3. CASE CheckFrame
    <3>1. CASE at' = "failed"
      BY <3>1 DEF IInv
    <3>2. CASE FrameOk
      <4>1. PICK n \in Lengths, c \in Corruption :
              Arrived(n, c) /\ \E m \in 0..n : Moving(n, m)
        BY <2>3 DEF CheckFrame, IInv
      <4>2. PICK m \in 0..n : Moving(n, m)
        BY <4>1
      <4>3. m < n
        <5>1. i \in DOMAIN wire
          BY <2>3 DEF CheckFrame, More
        <5>2. DOMAIN wire = 0..(3 * n - 1)
          BY <4>1, FramesDomain DEF Arrived
        <5> QED
          BY <4>2, <5>1, <5>2 DEF Moving
      <4>4. Moving(n, m + 1)'
        BY <2>3, <3>2, <4>2, <4>3, MoveOne
      <4>5. Arrived(n, c)' /\ at' = "check" /\ m + 1 \in 0..n
        BY <2>3, <3>2, <4>1, <4>3 DEF CheckFrame, Arrived
      <4> QED
        BY <4>4, <4>5 DEF IInv
    <3> QED
      BY <2>3, <3>1, <3>2 DEF CheckFrame
  <2>4. CASE Decode
    <3>1. PICK n \in Lengths, c \in Corruption :
            Arrived(n, c) /\ \E m \in 0..n : Moving(n, m)
      BY <2>4 DEF Decode, IInv
    <3>2. PICK m \in 0..n : Moving(n, m)
      BY <3>1
    <3>3. m = n
      <4>1. i \notin DOMAIN wire
        BY <2>4 DEF Decode, More
      <4>2. DOMAIN wire = 0..(3 * n - 1)
        BY <3>1, FramesDomain DEF Arrived
      <4> QED
        BY <3>2, <4>1, <4>2 DEF Moving
    <3>4. DOMAIN sent = 0..(n - 1) /\ Arrived(n, c)' /\ at' = "return" /\ wire' = wire
      BY <2>4, <3>1 DEF Decode, Arrived
    <3>5. values' = [f \in 0..(n - 1) |-> [hi |-> wire[3 * f], lo |-> wire[3 * f + 1]]]
      <4>1. values' = [f \in 0..(n - 1) |->
                         [hi |-> buffer[2 * f], lo |-> buffer[2 * f + 1]]]
        BY <2>4, <3>4 DEF Decode
      <4>2. \A f \in 0..(n - 1) : buffer[2 * f] = wire[3 * f]
                                  /\ buffer[2 * f + 1] = wire[3 * f + 1]
        BY <3>2, <3>3 DEF Moving
      <4> QED
        BY <4>1, <4>2
    <3>6. Returned(n)'
      BY <3>2, <3>3, <3>4, <3>5 DEF Returned, Moving
    <3> QED
      BY <3>4, <3>6 DEF IInv
  <2>5. CASE Return
    BY <2>5 DEF Return, IInv
  <2>6. CASE UNCHANGED vars
    BY <2>6 DEF vars, IInv, Arrived, Moving, Returned
  <2> QED
    BY <2>1, <2>2, <2>3, <2>4, <2>5, <2>6 DEF Next
<1> QED
  BY <1>1, <1>2, PTL DEF Spec

(* The checksum of bytes is a byte, and so is all that arrives.             *)
LEMMA FrameBytes ==
  ASSUME NEW n \in Lengths, NEW c \in Corruption,
         NEW w, \A f \in 0..(n - 1) : w[f] \in Word
  PROVE  \A k \in DOMAIN Frames(w, n, c) : Frames(w, n, c)[k] \in Byte
<1> DEFINE wired == Frames(w, n, c)
<1>1. n \in Nat
  BY LengthsAssumption
<1>2. ASSUME NEW f \in 0..(n - 1)
      PROVE  wired[3 * f] \in Byte /\ wired[3 * f + 1] \in Byte /\ wired[3 * f + 2] \in Byte
  <2>1. w[f] \in [hi : Byte, lo : Byte] /\ c[f] \in [hi : Byte, lo : Byte, crc : Byte]
    BY WordAssumption, CorruptionAssumption DEF Error
  <2>2. Crc(w[f].hi, w[f].lo) \in Byte
    <3>1. CRC8_INIT \in Byte
      BY DEF CRC8_INIT, Byte
    <3> QED
      BY <2>1, <3>1, DiffByte, ShiftByteLinear DEF Crc, CrcFrom
  <2>3. /\ wired[3 * f] = SymDiff(w[f].hi, c[f].hi)
        /\ wired[3 * f + 1] = SymDiff(w[f].lo, c[f].lo)
        /\ wired[3 * f + 2] = SymDiff(Crc(w[f].hi, w[f].lo), c[f].crc)
    <3>1. FrameRight(n, w, c, f)
      BY <1>1, FrameAt
    <3> QED
      BY <3>1 DEF FrameRight
  <2> QED
    BY <2>1, <2>2, <2>3, DiffByte
<1>3. DOMAIN wired = 0..(3 * n - 1)
  BY <1>1, FramesDomain
<1> HIDE DEF wired
<1>4. ASSUME NEW k \in 0..(3 * n - 1)
      PROVE  wired[k] \in Byte
  <2>1. PICK f \in 0..(n - 1) : k = 3 * f \/ k = 3 * f + 1 \/ k = 3 * f + 2
    <3>1. /\ k \div 3 \in 0..(n - 1)
          /\ k = 3 * (k \div 3) \/ k = 3 * (k \div 3) + 1 \/ k = 3 * (k \div 3) + 2
      BY <1>1
    <3> QED
      BY <3>1
  <2> QED
    BY <1>2, <2>1
<1> QED
  BY <1>3, <1>4 DEF wired

(* The buffer has the bytes of the wire, in whatever order.                 *)
BytesOK ==
  /\ at \in {"idle", "read", "check", "return", "failed"}
  /\ DOMAIN wire = DOMAIN buffer
  /\ \A k \in DOMAIN wire : wire[k] \in Byte /\ buffer[k] \in Byte

LEMMA LoopInBuffer ==
  ASSUME IInv, at = "check"
  PROVE  /\ i \in Nat /\ j \in 0..i
         /\ More => i + 2 \in DOMAIN wire /\ i + 1 \in DOMAIN wire
<1>1. PICK n \in Lengths, c \in Corruption :
        Arrived(n, c) /\ \E m \in 0..n : Moving(n, m)
  BY DEF IInv
<1>2. PICK m \in 0..n : Moving(n, m)
  BY <1>1
<1>3. n \in Nat /\ DOMAIN wire = 0..(3 * n - 1)
  BY <1>1, LengthsAssumption, FramesDomain DEF Arrived
<1>4. m \in Nat /\ i = 3 * m /\ j = 2 * m
  BY <1>2, <1>3 DEF Moving
<1> QED
  BY <1>3, <1>4 DEF More

(* Whatever arrives, and however many words a call expects, the loop stays  *)
(* inside the caller's buffer, and the buffer holds the answer's bytes.     *)
THEOREM FrameTypeCorrect == Spec => []FrameTypeOK
<1>1. Init => BytesOK
  BY DEF Init, BytesOK
<1>2. IInv /\ BytesOK /\ [Next]_vars => BytesOK'
  <2> SUFFICES ASSUME IInv, BytesOK, [Next]_vars PROVE BytesOK'
    OBVIOUS
  <2>1. CASE Call
    BY <2>1 DEF Call, BytesOK
  <2>2. CASE Read
    <3>1. CASE at' = "failed"
      BY <2>2, <3>1 DEF Read, BytesOK
    <3>2. CASE at' = "check"
      <4>1. PICK n \in Lengths, c \in Corruption :
              DOMAIN sent = 0..(n - 1) /\ wire' = Frames(sent, n, c)
        BY <2>2, <3>2 DEF Read
      <4>2. PICK l \in Lengths : sent \in [0..(l - 1) -> Word]
        BY <2>2 DEF Read, IInv
      <4>3. \A f \in 0..(n - 1) : sent[f] \in Word
        BY <4>1, <4>2
      <4>4. \A k \in DOMAIN wire' : wire'[k] \in Byte
        BY <4>1, <4>3, FrameBytes
      <4>5. buffer' = wire'
        BY <2>2, <3>2 DEF Read
      <4> QED
        BY <3>2, <4>4, <4>5 DEF BytesOK
    <3> QED
      BY <2>2, <3>1, <3>2 DEF Read
  <2>3. CASE CheckFrame
    <3>1. CASE FrameOk
      <4>1. /\ at = "check" /\ at' = "check" /\ wire' = wire
            /\ buffer' = Moved /\ i \in DOMAIN wire
        BY <2>3, <3>1 DEF CheckFrame, More
      <4>2. i + 1 \in DOMAIN wire
        BY <2>3, LoopInBuffer DEF CheckFrame
      <4> DEFINE one == [buffer EXCEPT ![j] = buffer[i]]
      <4>3. DOMAIN one = DOMAIN wire /\ \A k \in DOMAIN wire : one[k] \in Byte
        BY <4>1 DEF BytesOK
      <4>4. Moved = [one EXCEPT ![j + 1] = one[i + 1]]
        BY DEF Moved
      <4> HIDE DEF one
      <4>5. DOMAIN Moved = DOMAIN wire /\ \A k \in DOMAIN wire : Moved[k] \in Byte
        BY <4>2, <4>3, <4>4
      <4> QED
        BY <4>1, <4>5 DEF BytesOK
    <3>2. CASE ~FrameOk
      BY <2>3, <3>2 DEF CheckFrame, BytesOK
    <3> QED
      BY <3>1, <3>2
  <2>4. CASE Decode
    BY <2>4 DEF Decode, BytesOK
  <2>5. CASE Return
    BY <2>5 DEF Return, BytesOK
  <2>6. CASE UNCHANGED vars
    BY <2>6 DEF vars, BytesOK
  <2> QED
    BY <2>1, <2>2, <2>3, <2>4, <2>5, <2>6 DEF Next
<1>3. IInv /\ BytesOK => FrameTypeOK
  BY LoopInBuffer DEF BytesOK, FrameTypeOK, WORD_SIZE
<1> QED
  BY <1>1, <1>2, <1>3, FrameInv, PTL DEF Spec

(* Whatever arrives, and however many words: a call that succeeds returns   *)
(* the words of the wire in their order, each with a matching checksum,     *)
(* although they are moved inside the buffer they are read from.            *)
THEOREM OnlyCheckedHolds == Spec => []OnlyChecked
<1>1. IInv => OnlyChecked
  <2> SUFFICES ASSUME IInv, at = "return", NEW f \in DOMAIN sent
               PROVE  /\ values[f] = [hi |-> wire[3 * f], lo |-> wire[3 * f + 1]]
                      /\ Crc(wire[3 * f], wire[3 * f + 1]) = wire[3 * f + 2]
    BY DEF OnlyChecked
  <2>1. PICK n \in Lengths, c \in Corruption : Arrived(n, c) /\ Returned(n)
    BY DEF IInv
  <2>2. f \in 0..(n - 1)
    BY <2>1 DEF Arrived
  <2> QED
    BY <2>1, <2>2 DEF Returned
<1> QED
  BY <1>1, FrameInv, PTL

(* The words that passed their check are those that were sent, whatever     *)
(* they are, if the checksum misses no error of the wire.                   *)
LEMMA CheckedIsSent ==
  ASSUME ErrorsCaught, IInv, at = "return"
  PROVE  values = sent
<1> USE LengthsAssumption
<1>1. PICK n \in Lengths, c \in Corruption : Arrived(n, c) /\ Returned(n)
  BY DEF IInv
<1>2. ASSUME NEW f \in 0..(n - 1)
      PROVE  [hi |-> wire[3 * f], lo |-> wire[3 * f + 1]] = sent[f]
  <2>1. sent[f] \in [hi : Byte, lo : Byte]
    BY <1>1, WordAssumption DEF Arrived
  <2>2. c[f] \in Error
    BY CorruptionAssumption
  <2>3. /\ wire[3 * f] = SymDiff(sent[f].hi, c[f].hi)
        /\ wire[3 * f + 1] = SymDiff(sent[f].lo, c[f].lo)
        /\ wire[3 * f + 2] = SymDiff(Crc(sent[f].hi, sent[f].lo), c[f].crc)
    <3>1. n \in Nat /\ wire = Frames(sent, n, c)
      BY <1>1 DEF Arrived
    <3>2. /\ Frames(sent, n, c)[3 * f] = SymDiff(sent[f].hi, c[f].hi)
          /\ Frames(sent, n, c)[3 * f + 1] = SymDiff(sent[f].lo, c[f].lo)
          /\ Frames(sent, n, c)[3 * f + 2]
               = SymDiff(Crc(sent[f].hi, sent[f].lo), c[f].crc)
      <4>1. FrameRight(n, sent, c, f)
        BY <3>1, FrameAt
      <4> QED
        BY <4>1 DEF FrameRight
    <3> QED
      BY <3>1, <3>2
  <2>4. Crc(wire[3 * f], wire[3 * f + 1]) = wire[3 * f + 2]
    BY <1>1 DEF Returned
  <2>5. Missed(c[f])
    BY <2>1, <2>2, <2>3, <2>4, CheckIgnoresWord
  <2>6. c[f] = NoError
    BY <2>5 DEF ErrorsCaught
  <2>7. wire[3 * f] = sent[f].hi /\ wire[3 * f + 1] = sent[f].lo
    BY <2>1, <2>3, <2>6 DEF NoError, SymDiff
  <2> QED
    BY <2>1, <2>7
<1>3. sent = [f \in 0..(n - 1) |-> sent[f]]
  BY <1>1 DEF Arrived
<1> QED
  BY <1>1, <1>2, <1>3 DEF Returned

(* If the checksum misses no error of the wire, no corrupted word is ever   *)
(* returned, whatever the words: what TLC finds for two words and the       *)
(* errors of its configuration holds for all words.                         *)
THEOREM UncorruptedHolds ==
  ASSUME ErrorsCaught
  PROVE  Spec => []Uncorrupted
<1>1. IInv => Uncorrupted
  BY CheckedIsSent DEF Uncorrupted
<1> QED
  BY <1>1, FrameInv, PTL

(* Step by step, a call does what Answer promises: reading and checking the *)
(* frames are its waiting, the decoding of the last one gives the answer,   *)
(* and the first frame that fails its check ends the call.                  *)
THEOREM AllOrNothingHolds ==
  ASSUME ErrorsCaught
  PROVE  Spec => AllOrNothing
<1>1. Init => Answers!Init
  BY DEF Init, Answers!Init
<1>2. Uncorrupted' /\ [Next]_vars => [Answers!Next]_Answers!vars
  <2> SUFFICES ASSUME Uncorrupted', [Next]_vars
               PROVE  [Answers!Next]_Answers!vars
    OBVIOUS
  <2> USE DEF Answers!Next, Answers!vars
  <2>1. CASE Call
    BY <2>1 DEF Call, Answers!Call
  <2>2. CASE Read
    BY <2>2 DEF Read, Answers!Fail
  <2>3. CASE CheckFrame
    BY <2>3 DEF CheckFrame, Answers!Fail
  <2>4. CASE Decode
    <3>1. at = "check" /\ at' = "return" /\ sent' = sent
      BY <2>4 DEF Decode
    <3>2. values' = sent'
      BY <3>1 DEF Uncorrupted
    <3> QED
      BY <3>1, <3>2 DEF Answers!Give
  <2>5. CASE Return
    BY <2>5 DEF Return, Answers!Return
  <2>6. CASE UNCHANGED vars
    BY <2>6 DEF vars
  <2> QED
    BY <2>1, <2>2, <2>3, <2>4, <2>5, <2>6 DEF Next
<1> QED
  BY <1>1, <1>2, UncorruptedHolds, PTL DEF Spec, AllOrNothing, Answers!Spec

(* The wire makes errors of the kinds a checksum of eight bits is for.      *)
DetectableOnly ==
  \A c \in Corruption, n \in Lengths : \A f \in 0..(n - 1) :
    \E ps \in Detectable : c[f] = Inverted(ps)

LEMMA DetectableErrorsCaught ==
  ASSUME DetectableOnly
  PROVE  ErrorsCaught
<1> SUFFICES ASSUME NEW c \in Corruption, NEW n \in Lengths, NEW f \in 0..(n - 1)
             PROVE  c[f] = NoError \/ ~Missed(c[f])
  BY DEF ErrorsCaught
<1>1. PICK ps \in Detectable : c[f] = Inverted(ps)
  BY DEF DetectableOnly
<1>2. Inverted({}) = NoError
  BY DEF Inverted, NoError
<1> QED
  BY <1>1, <1>2, DetectableCaught

(* With such errors, in any number of frames, on any words, a call of       *)
(* scd40.c gives what the sensor sent, or fails.                            *)
THEOREM DetectableAllOrNothing ==
  ASSUME DetectableOnly
  PROVE  Spec => AllOrNothing /\ []Uncorrupted
<1>1. ErrorsCaught
  BY DetectableErrorsCaught
<1> QED
  BY <1>1, AllOrNothingHolds, UncorruptedHolds
=============================================================================
