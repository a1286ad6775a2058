------------------------------- MODULE Answer -------------------------------
(***************************************************************************)
(* What a reading call of the driver promises the reading task, whatever   *)
(* the bus does: it gives all the words the sensor answers with, as they   *)
(* were sent, or it fails and gives none.  Scd40 takes this for granted.   *)
(***************************************************************************)
EXTENDS Integers

CONSTANTS
  Word,     (* words the sensor may send                                    *)
  Lengths   (* words a call may expect                                      *)

VARIABLES
  at,      (* "idle", "wait", "return" or "failed"                          *)
  sent,    (* the words the sensor answers with                             *)
  values   (* the words handed to the reading task                          *)

vars == <<at, sent, values>>

Init ==
  /\ at = "idle"
  /\ sent = <<>>
  /\ values = <<>>

Call ==
  /\ at = "idle"
  /\ at' = "wait"
  /\ \E n \in Lengths : sent' \in [0..(n - 1) -> Word]
  /\ values' = <<>>

Give ==
  /\ at = "wait"
  /\ at' = "return"
  /\ values' = sent
  /\ UNCHANGED sent

Fail ==
  /\ at = "wait"
  /\ at' = "failed"
  /\ UNCHANGED <<sent, values>>

Return ==
  /\ at \in {"return", "failed"}
  /\ at' = "idle"
  /\ sent' = <<>>
  /\ UNCHANGED values

Next == Call \/ Give \/ Fail \/ Return

Spec == Init /\ [][Next]_vars
=============================================================================
