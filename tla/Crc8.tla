-------------------------------- MODULE Crc8 --------------------------------
(***************************************************************************)
(* i2c_generate_crc of app/i2c/i2c.c, the checksum the SCD40 puts behind   *)
(* every word.  A byte is the set of its 1 bits, bit 7 the most            *)
(* significant, so that ^ is the symmetric difference.  Every call in the  *)
(* code passes one word: the loops over its 2 bytes and over the 8 bits of *)
(* a byte are written out.                                                 *)
(***************************************************************************)
EXTENDS Integers, FiniteSetsExt

Bit == 0..7
Byte == SUBSET Bit

CRC8_INIT == Bit              (* 0xFF *)

(* Used by a mutant only: 0x21, a bit of the polynomial lost.               *)
PolynomialShort == {0, 5}

CRC8_POLYNOMIAL == {0, 4, 5}  (* 0x31 *)

(* (crc << 1), and ^ CRC8_POLYNOMIAL if the top bit was set.                *)
ShiftBit(crc) ==
  SymDiff({b + 1 : b \in crc \ {7}}, IF 7 \in crc THEN CRC8_POLYNOMIAL ELSE {})

ShiftTwo(crc) == ShiftBit(ShiftBit(crc))
ShiftFour(crc) == ShiftTwo(ShiftTwo(crc))
ShiftByte(crc) == ShiftFour(ShiftFour(crc))

(* The checksum of the word hi, lo, begun with crc.                         *)
CrcFrom(crc, hi, lo) == ShiftByte(SymDiff(ShiftByte(SymDiff(crc, hi)), lo))

Crc(hi, lo) == CrcFrom(CRC8_INIT, hi, lo)

----------------------------------------------------------------------------
(* Errors on the wire: the bits of a frame that arrive inverted.            *)

Error == [hi : Byte, lo : Byte, crc : Byte]

NoError == [hi |-> {}, lo |-> {}, crc |-> {}]

(* What the check makes of an error does not depend on the word it hits     *)
(* (CheckIgnoresWord): it is missed exactly if its own bits form a frame.   *)
Missed(e) == CrcFrom({}, e.hi, e.lo) = e.crc

(* The bits of a frame in the order of the wire, high bits first.           *)
Positions == 0..23

Inverted(positions) ==
  LET bits(byte) == {7 - (p % 8) : p \in {q \in positions : q \div 8 = byte}}
  IN [hi |-> bits(0), lo |-> bits(1), crc |-> bits(2)]

(* The errors that a checksum of eight bits is chosen for: an odd number of *)
(* bits, two bits anywhere, a burst that spans up to eight bits.            *)
OddErrors == {ps \in SUBSET Positions : Cardinality(ps) % 2 = 1}

TwoBits == {{p, q} : p, q \in Positions}

Bursts == UNION {SUBSET (p..(p + 7)) : p \in 0..16}

Detectable == OddErrors \cup TwoBits \cup Bursts
=============================================================================
