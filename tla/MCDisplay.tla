----------------------------- MODULE MCDisplay -----------------------------
(* Display with two pages of three columns, drawn to at the edges of the    *)
(* screen and of the pages and beyond them.                                 *)
EXTENDS Display

MCX == {-1, 0, 2, 3}
MCY == {-1, 0, 3, 7, 8, 15, 16}
=============================================================================
