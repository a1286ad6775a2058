------------------------------- MODULE Screen -------------------------------
(***************************************************************************)
(* What update_display of app/tasks/update_display_task.c draws for a CO2  *)
(* value: items, each a rectangle of the 128 by 64 pixels.  A text is a    *)
(* row of 8 by 8 characters (font8x8_basic.h); which pixels an item lights *)
(* in its rectangle is left out.                                           *)
(***************************************************************************)
EXTENDS Integers

WIDTH == 128
HEIGHT == 64

(* The values of a uint16_t, and the cast to uint8_t.                       *)
UInt16 == 0..65535
ToUInt8(n) == n % 256

BarWidth == WIDTH - 15 - 14

(* Used by a mutant only: the level is not cut to the width of the bar.     *)
FillLevelUncut(co2) == ToUInt8((co2 * BarWidth) \div 2500)

(* The fill level is cast before it is compared with the width of the bar.  *)
FillLevel(co2) ==
  LET level == ToUInt8((co2 * BarWidth) \div 2500)
  IN IF level > BarWidth THEN BarWidth ELSE level

Digits(n) ==
  CASE n < 10 -> 1
    [] n >= 10 /\ n < 100 -> 2
    [] n >= 100 /\ n < 1000 -> 3
    [] n >= 1000 /\ n < 10000 -> 4
    [] n >= 10000 -> 5

Box(x, y, w, h) == [x |-> x, y |-> y, w |-> w, h |-> h]

(* display_draw_text with deg0.                                             *)
TextBox(length, x, y) == Box(x, y, 8 * length, 8)

(* "<co2> ppm"                                                              *)
Co2Text(co2) == TextBox(Digits(co2) + 4, WIDTH \div 3, 20)

(* Very Good, !!Critical!!, Bad, Okay, Good, and nothing for exactly 400.   *)
StatusText(co2) ==
  CASE co2 < 400 -> TextBox(9, (WIDTH \div 3) - 15, 42)
    [] co2 > 2000 -> TextBox(12, (WIDTH \div 3) - 24, 42)
    [] co2 > 1500 /\ co2 <= 2000 -> TextBox(3, (WIDTH \div 3) + 13, 42)
    [] co2 > 400 /\ co2 <= 1500 -> TextBox(4, (WIDTH \div 3) + 11, 42)
    [] co2 = 400 -> TextBox(0, 0, 0)

(* The bar's outline, and the columns filled in it.                         *)
Outline == Box(15, 32, BarWidth + 1, 5)
Fill(co2) == Box(16, 33, FillLevel(co2), 3)

(* "S:" and "W:" with their check marks or crosses, and the line below.     *)
StatusBar ==
  {TextBox(2, 0, 0), Box(16, 0, 8, 8), TextBox(2, WIDTH - 24, 0),
   Box(120, 0, 8, 8), Box(0, 10, WIDTH, 1)}

Texts(co2) == {Co2Text(co2), StatusText(co2)}

Items(co2) == StatusBar \cup Texts(co2) \cup {Outline, Fill(co2)}

OnScreen(b) == b.x >= 0 /\ b.x + b.w <= WIDTH /\ b.y >= 0 /\ b.y + b.h <= HEIGHT
=============================================================================
