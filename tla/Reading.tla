------------------------------ MODULE Reading -------------------------------
(***************************************************************************)
(* What the reading task does with its sensor, whatever fails and whenever *)
(* the board restarts: samples are taken in rounds, each of which asks the *)
(* sensor first and takes one sample at most; the task gives up only while *)
(* it initialises the sensor, and then for good.  ReadDataTask and Scd40   *)
(* are two views of it, one with the other tasks, one with the driver.     *)
(***************************************************************************)
EXTENDS Naturals

VARIABLES
  at,     (* "init", "poll", "measure" or "deleted"                         *)
  taken   (* samples taken so far                                           *)

vars == <<at, taken>>

Init == at = "init" /\ taken = 0

From(place, next) == at = place /\ at' = next

Ready == From("init", "poll") /\ UNCHANGED taken

GiveUp == From("init", "deleted") /\ UNCHANGED taken

Found == From("poll", "measure") /\ UNCHANGED taken

Take == From("measure", "poll") /\ taken' = taken + 1

Skip == From("measure", "poll") /\ UNCHANGED taken

Restart == at' = "init" /\ UNCHANGED taken

Next == Ready \/ GiveUp \/ Found \/ Take \/ Skip \/ Restart

Spec == Init /\ [][Next]_vars
=============================================================================
