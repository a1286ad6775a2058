------------------------------ MODULE MCPanel ------------------------------
(* Panel with two CO2 values, of which one overfills the bar.               *)
EXTENDS Panel

MCCO2 == {400, 5000}

(* Values of a sensor in very bad air.                                      *)
MCHighCO2 == {2500, 6400, 6500}
=============================================================================
