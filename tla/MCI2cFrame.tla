----------------------------- MODULE MCI2cFrame -----------------------------
(* The calls of scd40.c, with every error of up to three bits of a frame    *)
(* and every burst that spans up to eight bits.                             *)
EXTENDS I2cFrame

FewBits == {{p, q, r} : p, q, r \in Positions}

MCErrors == {Inverted(ps) : ps \in (FewBits \cup Bursts)}

MCCorruption ==
  {[f \in 0..2 |-> IF f = g THEN e ELSE NoError] : g \in 0..2, e \in MCErrors}

(* The CO2 levels 400 and 1000 as words.                                    *)
MCWord == {[hi |-> {0}, lo |-> {4, 7}], [hi |-> {0, 1}, lo |-> {3, 5, 6, 7}]}
=============================================================================
