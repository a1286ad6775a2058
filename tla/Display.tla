------------------------------- MODULE Display -------------------------------
(***************************************************************************)
(* display_set_pixel of app/ssd1306/display.c and the byte operations of   *)
(* app/ssd1306/framebuffer.c under it.  The buffer holds the screen in     *)
(* pages of eight rows, one byte for each column of a page, bit 0 on top.  *)
(* A byte is the set of its 1 bits.                                        *)
(***************************************************************************)
EXTENDS Integers, FiniteSetsExt

CONSTANTS
  WIDTH,   (* 128 in display.c                                              *)
  HEIGHT,  (* 64 in display.c                                               *)
  X, Y,    (* bound: coordinates that callers pass                          *)
  Mode     (* write modes that callers pass                                 *)

ADD == 0
SUBTRACT == 1
INVERT == 2

ASSUME DisplayConstants ==
  /\ WIDTH \in Nat \ {0}
  /\ HEIGHT \in Nat \ {0} /\ HEIGHT % 8 = 0
  /\ X \subseteq Int
  /\ Y \subseteq Int
  /\ Mode \subseteq {ADD, SUBTRACT, INVERT}

FB_SIZE == WIDTH * (HEIGHT \div 8)  (* 1024 in framebuffer.h                *)

VARIABLES
  buffer,  (* fb->buffer                                                    *)
  stray,   (* whether a byte outside the buffer was written                 *)
  logged   (* messages the last call logged                                 *)

vars == <<buffer, stray, logged>>

Init ==
  /\ buffer = [n \in 0..(FB_SIZE - 1) |-> {}]
  /\ stray = FALSE
  /\ logged = 0

----------------------------------------------------------------------------
(* framebuffer.c.                                                           *)

InBuffer(n) == n <= FB_SIZE - 1

(* fb_byte_or logs an offset out of range, and stores all the same.         *)
FbByteOr(n, byte) ==
  /\ buffer' = IF n \in DOMAIN buffer THEN [buffer EXCEPT ![n] = @ \cup byte] ELSE buffer
  /\ stray' = (stray \/ n \notin DOMAIN buffer)
  /\ logged' = IF InBuffer(n) THEN 0 ELSE 1

FbByteAnd(n, byte) ==
  /\ buffer' = IF InBuffer(n) THEN [buffer EXCEPT ![n] = @ \cap byte] ELSE buffer
  /\ logged' = 0
  /\ UNCHANGED stray

FbByteXor(n, byte) ==
  /\ buffer' = IF InBuffer(n) THEN [buffer EXCEPT ![n] = SymDiff(@, byte)] ELSE buffer
  /\ logged' = 0
  /\ UNCHANGED stray

FbClear ==
  /\ buffer' = [n \in DOMAIN buffer |-> {}]
  /\ logged' = 0
  /\ UNCHANGED stray

----------------------------------------------------------------------------
(* display.c.                                                               *)

(* Used by a mutant only: x == WIDTH gets through.                          *)
OnScreenInclusive(x, y) == 0 <= x /\ x <= WIDTH /\ 0 <= y /\ y < HEIGHT

OnScreen(x, y) == 0 <= x /\ x < WIDTH /\ 0 <= y /\ y < HEIGHT

(* Used by a mutant only: pages of HEIGHT bytes.                            *)
OffsetByHeight(x, y) == (x + (y \div 8) * HEIGHT) % FB_SIZE

Offset(x, y) == x + (y \div 8) * WIDTH

Mask(y) == {y % 8}

(* Used by a mutant only: one message for x and one for y.                  *)
OutOfBoundsTwice == logged' = 2 /\ UNCHANGED <<buffer, stray>>

OutOfBounds == logged' = 1 /\ UNCHANGED <<buffer, stray>>

SetPixel(x, y, mode) ==
  IF ~OnScreen(x, y) THEN OutOfBounds
  ELSE CASE mode = ADD -> FbByteOr(Offset(x, y), Mask(y))
         [] mode = SUBTRACT -> FbByteAnd(Offset(x, y), Mask(y))
         [] mode = INVERT -> FbByteXor(Offset(x, y), Mask(y))

Draw == \E x \in X, y \in Y, mode \in Mode : SetPixel(x, y, mode)

Next == Draw \/ FbClear

Spec == Init /\ [][Next]_vars

----------------------------------------------------------------------------
(* Every variable keeps its type.                                           *)
DisplayTypeOK ==
  /\ buffer \in [0..(FB_SIZE - 1) -> SUBSET (0..7)]
  /\ stray \in BOOLEAN
  /\ logged \in {0, 1}

(* What the screen shows: the pixels that are on.                           *)
Lit == {p \in (0..(WIDTH - 1)) \X (0..(HEIGHT - 1)) :
          p[2] % 8 \in buffer[Offset(p[1], p[2])]}

(* No call writes outside the buffer, although fb_byte_or does not stop at  *)
(* an offset out of range: display_set_pixel lets none through              *)
(* (framebuffer.c:25-28, display.c:16-19).                                  *)
NoStrayStore == ~stray

(* ADD lights the one pixel it names, INVERT toggles it, and neither        *)
(* touches another pixel of its byte or of the screen; coordinates off the  *)
(* screen change nothing (display.h:10-15, display.c:16-29).                *)
PixelExact(x, y, mode) ==
  SetPixel(x, y, mode) =>
    Lit' = CASE ~OnScreen(x, y) -> Lit
             [] OnScreen(x, y) /\ mode = ADD -> Lit \cup {<<x, y>>}
             [] OnScreen(x, y) /\ mode = INVERT -> SymDiff(Lit, {<<x, y>>})

PixelsExact ==
  [][\A x \in X, y \in Y, mode \in Mode \ {SUBTRACT} : PixelExact(x, y, mode)]_vars

(* "Set pixel off, regardless of state" (display.h:12).                     *)
SubtractClears ==
  [][\A x \in X, y \in Y :
       (OnScreen(x, y) /\ SetPixel(x, y, SUBTRACT)) => <<x, y>> \notin Lit']_vars
=============================================================================
