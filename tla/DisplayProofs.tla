---------------------------- MODULE DisplayProofs ----------------------------
(***************************************************************************)
(* Proofs about Display, for every screen whose height is a number of      *)
(* pages, and every coordinate.                                            *)
(***************************************************************************)
EXTENDS Display, TLAPS

Column == 0..(WIDTH - 1)
Row == 0..(HEIGHT - 1)

(* A row is on one of the pages.                                            *)
LEMMA PageOf ==
  ASSUME NEW y \in Row
  PROVE  /\ y \div 8 \in 0..((HEIGHT \div 8) - 1)
         /\ y % 8 \in 0..7
         /\ y = 8 * (y \div 8) + (y % 8)
  BY DisplayConstants DEF Row

(* Number x of page p is a byte of the buffer.                              *)
LEMMA ByteInBuffer ==
  ASSUME NEW w \in Nat \ {0}, NEW pages \in Nat, NEW x \in 0..(w - 1),
         NEW p \in 0..(pages - 1)
  PROVE  x + p * w \in 0..(w * pages - 1)
<1>1. p * w <= (pages - 1) * w
  BY Z3
<1>2. (pages - 1) * w = w * pages - w
  BY Z3
<1>3. p * w \in Nat /\ w * pages \in Nat
  BY Z3
<1> QED
  BY <1>1, <1>2, <1>3

(* Two columns or two pages never share a byte.                             *)
LEMMA BytesApart ==
  ASSUME NEW w \in Nat \ {0}, NEW x \in 0..(w - 1), NEW u \in 0..(w - 1),
         NEW p \in Nat, NEW q \in Nat, x + p * w = u + q * w
  PROVE  x = u /\ p = q
<1>1. p * w \in Nat /\ q * w \in Nat
  BY Z3
<1>2. CASE p < q
  <2>1. p * w + w <= q * w
    <3>1. (p + 1) * w <= q * w
      BY <1>2, Z3
    <3>2. (p + 1) * w = p * w + w
      BY Z3
    <3> QED
      BY <3>1, <3>2
  <2> QED
    BY <1>1, <2>1
<1>3. CASE q < p
  <2>1. q * w + w <= p * w
    <3>1. (q + 1) * w <= p * w
      BY <1>3, Z3
    <3>2. (q + 1) * w = q * w + w
      BY Z3
    <3> QED
      BY <3>1, <3>2
  <2> QED
    BY <1>1, <2>1
<1>4. CASE p = q
  BY <1>1, <1>4
<1> QED
  BY <1>2, <1>3, <1>4

(* Every pixel has a byte of the buffer.                                    *)
LEMMA OffsetInBuffer ==
  ASSUME NEW x \in Column, NEW y \in Row
  PROVE  Offset(x, y) \in 0..(FB_SIZE - 1)
<1>1. y \div 8 \in 0..((HEIGHT \div 8) - 1) /\ HEIGHT \div 8 \in Nat
  BY PageOf, DisplayConstants DEF Row
<1> QED
  BY <1>1, ByteInBuffer, DisplayConstants DEF Offset, FB_SIZE, Column

(* Pixels that share a byte and a bit are the same pixel.                   *)
LEMMA PixelsApart ==
  ASSUME NEW x \in Column, NEW y \in Row, NEW u \in Column, NEW v \in Row,
         Offset(x, y) = Offset(u, v), y % 8 = v % 8
  PROVE  x = u /\ y = v
<1>1. y \div 8 \in Nat /\ v \div 8 \in Nat
  BY PageOf
<1>2. x + (y \div 8) * WIDTH = u + (v \div 8) * WIDTH
  BY DEF Offset
<1>3. WIDTH \in Nat \ {0} /\ x \in 0..(WIDTH - 1) /\ u \in 0..(WIDTH - 1)
  BY DisplayConstants DEF Column
<1>4. x = u /\ y \div 8 = v \div 8
  BY <1>1, <1>2, <1>3, BytesApart
<1>5. y = 8 * (y \div 8) + (y % 8) /\ v = 8 * (v \div 8) + (v % 8)
  BY PageOf
<1> QED
  BY <1>4, <1>5

(* Every call keeps the type of the buffer, and stores only inside it.      *)
LEMMA Invariance == Spec => [](DisplayTypeOK /\ NoStrayStore)
<1> DEFINE I == DisplayTypeOK /\ NoStrayStore
<1>1. Init => I
  BY DEF Init, DisplayTypeOK, NoStrayStore
<1>2. I /\ [Next]_vars => I'
  <2> SUFFICES ASSUME DisplayTypeOK, NoStrayStore, [Next]_vars
               PROVE  DisplayTypeOK' /\ NoStrayStore'
    OBVIOUS
  <2> USE DEF DisplayTypeOK, NoStrayStore
  <2>1. ASSUME NEW x \in X, NEW y \in Y, NEW mode \in Mode, SetPixel(x, y, mode)
        PROVE  DisplayTypeOK' /\ NoStrayStore'
    <3>1. CASE ~OnScreen(x, y)
      BY <2>1, <3>1 DEF SetPixel, OutOfBounds
    <3>2. CASE OnScreen(x, y)
      <4> DEFINE n == Offset(x, y)
                 byte == Mask(y)
      <4>1. x \in Column /\ y \in Row
        BY <3>2, DisplayConstants DEF OnScreen, Column, Row
      <4>2. n \in 0..(FB_SIZE - 1) /\ n \in DOMAIN buffer
        BY <4>1, OffsetInBuffer
      <4>3. byte \in SUBSET (0..7)
        BY <4>1, PageOf DEF Mask
      <4>4. InBuffer(n)
        <5>1. FB_SIZE - 1 \in Int
          BY DisplayConstants DEF FB_SIZE
        <5> QED
          BY <4>2, <5>1 DEF InBuffer
      <4>5. \/ mode = ADD /\ FbByteOr(n, byte)
            \/ mode = SUBTRACT /\ FbByteAnd(n, byte)
            \/ mode = INVERT /\ FbByteXor(n, byte)
        BY <2>1, <3>2, DisplayConstants DEF SetPixel, ADD, SUBTRACT, INVERT
      <4> HIDE DEF n, byte
      <4>6. CASE FbByteOr(n, byte)
        BY <4>2, <4>3, <4>4, <4>6 DEF FbByteOr
      <4>7. CASE FbByteAnd(n, byte)
        BY <4>2, <4>3, <4>4, <4>7 DEF FbByteAnd
      <4>8. CASE FbByteXor(n, byte)
        BY <4>2, <4>3, <4>4, <4>8 DEF FbByteXor, SymDiff
      <4> QED
        BY <4>5, <4>6, <4>7, <4>8
    <3> QED
      BY <3>1, <3>2
  <2>2. CASE FbClear
    BY <2>2 DEF FbClear
  <2>3. CASE UNCHANGED vars
    BY <2>3 DEF vars
  <2> QED
    BY <2>1, <2>2, <2>3 DEF Next, Draw
<1> QED
  BY <1>1, <1>2, PTL DEF Spec

(* The frame buffer stays bytes, and a call out of the screen counts one    *)
(* message at most (display.c:14-30, framebuffer.c).                        *)
THEOREM DisplayTypeCorrect == Spec => []DisplayTypeOK
  BY Invariance, PTL

(* No drawing writes outside the buffer, whatever the coordinates.          *)
THEOREM NoStrayStoreHolds == Spec => []NoStrayStore
  BY Invariance, PTL

(* A change of one bit of the byte of a pixel changes that pixel alone.     *)
LEMMA OnePixel ==
  ASSUME DisplayTypeOK, NEW x \in Column, NEW y \in Row, NEW new,
         buffer' = [buffer EXCEPT ![Offset(x, y)] = new],
         \A b \in 0..7 : b # y % 8 => (b \in new <=> b \in buffer[Offset(x, y)])
  PROVE  Lit' = IF y % 8 \in new THEN Lit \cup {<<x, y>>} ELSE Lit \ {<<x, y>>}
<1>1. ASSUME NEW p \in Column \X Row, p # <<x, y>>
      PROVE  p[2] % 8 \in buffer'[Offset(p[1], p[2])]
               <=> p[2] % 8 \in buffer[Offset(p[1], p[2])]
  <2>1. p[1] \in Column /\ p[2] \in Row /\ p = <<p[1], p[2]>>
    OBVIOUS
  <2>2. Offset(p[1], p[2]) \in DOMAIN buffer /\ Offset(x, y) \in DOMAIN buffer
    BY <2>1, OffsetInBuffer DEF DisplayTypeOK
  <2>3. CASE Offset(p[1], p[2]) = Offset(x, y)
    <3>1. p[2] % 8 # y % 8
      BY <2>1, <2>3, <1>1, PixelsApart
    <3>2. p[2] % 8 \in 0..7
      BY <2>1, PageOf
    <3> QED
      BY <2>2, <2>3, <3>1, <3>2
  <2>4. CASE Offset(p[1], p[2]) # Offset(x, y)
    BY <2>2, <2>4
  <2> QED
    BY <2>3, <2>4
<1>2. buffer'[Offset(x, y)] = new
  BY OffsetInBuffer DEF DisplayTypeOK
<1>3. <<x, y>> \in Column \X Row
  OBVIOUS
<1>4. /\ Lit = {p \in Column \X Row : p[2] % 8 \in buffer[Offset(p[1], p[2])]}
      /\ Lit' = {p \in Column \X Row : p[2] % 8 \in buffer'[Offset(p[1], p[2])]}
  BY DEF Lit, Column, Row, Offset
<1>5. <<x, y>> \in Lit' <=> y % 8 \in new
  BY <1>2, <1>3, <1>4
<1>6. \A p \in Column \X Row : p # <<x, y>> => (p \in Lit' <=> p \in Lit)
  BY <1>1, <1>4
<1>7. Lit \subseteq Column \X Row /\ Lit' \subseteq Column \X Row
  BY <1>4
<1> HIDE DEF Column, Row
<1> QED
  BY <1>3, <1>5, <1>6, <1>7

(* On every screen, ADD lights and INVERT toggles the pixel named, and      *)
(* nothing else on the screen changes.                                      *)
THEOREM PixelsExactHolds == Spec => PixelsExact
<1>1. ASSUME DisplayTypeOK
      PROVE  \A x \in X, y \in Y, mode \in Mode \ {SUBTRACT} : PixelExact(x, y, mode)
  <2> SUFFICES ASSUME NEW x \in X, NEW y \in Y, NEW mode \in Mode \ {SUBTRACT},
                      SetPixel(x, y, mode)
               PROVE  PixelExact(x, y, mode)
    BY DEF PixelExact
  <2>1. CASE ~OnScreen(x, y)
    <3>1. buffer' = buffer
      BY <2>1 DEF SetPixel, OutOfBounds
    <3>2. Lit' = Lit
      BY <3>1 DEF Lit, Offset
    <3> QED
      BY <2>1, <3>2 DEF PixelExact
  <2>2. CASE OnScreen(x, y)
    <3> DEFINE n == Offset(x, y)
    <3>1. x \in Column /\ y \in Row
      BY <2>2, DisplayConstants DEF OnScreen, Column, Row
    <3>2. n \in 0..(FB_SIZE - 1) /\ n \in DOMAIN buffer /\ InBuffer(n)
      <4>1. n \in 0..(FB_SIZE - 1) /\ FB_SIZE - 1 \in Int
        BY <3>1, OffsetInBuffer, DisplayConstants DEF FB_SIZE
      <4> QED
        BY <1>1, <4>1 DEF InBuffer, DisplayTypeOK
    <3>3. Lit \subseteq Column \X Row /\ (<<x, y>> \in Lit <=> y % 8 \in buffer[n])
      BY <3>1 DEF Lit, Column, Row
    <3>4. CASE mode = ADD
      <4>1. FbByteOr(n, {y % 8})
        BY <2>2, <3>4 DEF SetPixel, Mask, ADD, SUBTRACT, INVERT
      <4>2. buffer' = [buffer EXCEPT ![n] = buffer[n] \cup {y % 8}]
        BY <4>1, <3>2 DEF FbByteOr
      <4>3. Lit' = Lit \cup {<<x, y>>}
        <5>1. \A b \in 0..7 :
                b # y % 8 => (b \in buffer[n] \cup {y % 8} <=> b \in buffer[n])
          OBVIOUS
        <5>2. y % 8 \in buffer[n] \cup {y % 8}
          OBVIOUS
        <5> QED
          BY <1>1, <3>1, <4>2, <5>1, <5>2, OnePixel
      <4> QED
        BY <2>2, <3>4, <4>3 DEF PixelExact, ADD, INVERT
    <3>5. CASE mode = INVERT
      <4>1. FbByteXor(n, {y % 8})
        BY <2>2, <3>5 DEF SetPixel, Mask, ADD, SUBTRACT, INVERT
      <4>2. buffer' = [buffer EXCEPT ![n] = SymDiff(buffer[n], {y % 8})]
        BY <4>1, <3>2 DEF FbByteXor
      <4>3. Lit' = IF y % 8 \in SymDiff(buffer[n], {y % 8})
                   THEN Lit \cup {<<x, y>>} ELSE Lit \ {<<x, y>>}
        <5>1. \A b \in 0..7 :
                b # y % 8 => (b \in SymDiff(buffer[n], {y % 8}) <=> b \in buffer[n])
          BY DEF SymDiff
        <5> QED
          BY <1>1, <3>1, <4>2, <5>1, OnePixel
      <4>4. Lit' = SymDiff(Lit, {<<x, y>>})
        BY <3>3, <4>3 DEF SymDiff
      <4> QED
        BY <2>2, <3>5, <4>4 DEF PixelExact, ADD, INVERT
    <3> QED
      BY <3>4, <3>5, DisplayConstants
  <2> QED
    BY <2>1, <2>2
<1>2. DisplayTypeOK =>
        [\A x \in X, y \in Y, mode \in Mode \ {SUBTRACT} : PixelExact(x, y, mode)]_vars
  BY <1>1
<1> QED
  BY <1>2, Invariance, PTL DEF PixelsExact
=============================================================================
