----------------------------- MODULE SampleFeed -----------------------------
(***************************************************************************)
(* What the firmware promises one consumer of its samples: the samples are *)
(* offered in the order 1, 2, 3 ... they were taken in, each is delivered  *)
(* at most once and in that order, and a sample is given up only when it   *)
(* finds Capacity others waiting (the new one is dropped, never an older   *)
(* one), when the board restarts, or, for a Lossy consumer, on delivery.   *)
(***************************************************************************)
EXTENDS Naturals, Sequences

CONSTANTS
  Capacity,  (* samples that may wait while one more is being delivered     *)
  Lossy      (* whether a delivery may fail, which loses that sample        *)

VARIABLES
  offered,    (* number of the newest sample                                *)
  waiting,    (* samples accepted and not delivered, oldest first           *)
  delivered,  (* the newest sample delivered                                *)
  crashes     (* how often the waiting samples were lost                    *)

vars == <<offered, waiting, delivered, crashes>>

Init ==
  /\ offered = 0
  /\ waiting = <<>>
  /\ delivered = 0
  /\ crashes = 0

Accept ==
  /\ Len(waiting) <= Capacity
  /\ offered' = offered + 1
  /\ waiting' = Append(waiting, offered')
  /\ UNCHANGED <<delivered, crashes>>

Drop ==
  /\ Len(waiting) >= Capacity
  /\ offered' = offered + 1
  /\ UNCHANGED <<waiting, delivered, crashes>>

Deliver ==
  /\ waiting # <<>>
  /\ delivered' = Head(waiting)
  /\ waiting' = Tail(waiting)
  /\ UNCHANGED <<offered, crashes>>

Lose ==
  /\ Lossy
  /\ waiting # <<>>
  /\ waiting' = Tail(waiting)
  /\ UNCHANGED <<offered, delivered, crashes>>

Crash ==
  /\ waiting' = <<>>
  /\ crashes' = crashes + 1
  /\ UNCHANGED <<offered, delivered>>

Next == Accept \/ Drop \/ Deliver \/ Lose \/ Crash

Spec == Init /\ [][Next]_vars
=============================================================================
