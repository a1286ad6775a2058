------------------------------ MODULE Watchdog ------------------------------
(***************************************************************************)
(* The watchdog of app/tasks/network_task.c against the rhythm of the      *)
(* reading task: network_task feeds it whenever a sample arrives, so the   *)
(* delays of scd40.c and read_data_task.c between two samples decide       *)
(* whether it resets the board.                                            *)
(*                                                                         *)
(* Of the time that passes only these delays are counted; the bus and the  *)
(* other tasks take milliseconds beside them.  The network task is waiting *)
(* when a sample comes, since its own delay after a failed attempt,        *)
(* network_task.c:150, is no longer than the reading task's after a        *)
(* sample; and as it feeds the watchdog again after it, it is fed later    *)
(* than here, never earlier.  Callbacks are left out: the five seconds one *)
(* may make a task sleep (network_task.c:101) are not counted, nor is one  *)
(* that waits for a slot of log_queue; Firmware says what those can do.    *)
(***************************************************************************)
EXTENDS Scd40

VARIABLES
  unfed,   (* milliseconds since network_task fed the watchdog; bound: at   *)
           (* Timeout it stops counting                                     *)
  failed   (* rounds since then that brought no sample; bound: one          *)

wdVars == <<vars, unfed, failed>>

(* Used by a mutant only: a zero is missing.                                *)
TIMEOUT_ZERO_LOST == 4000

WATCHDOG_TIMEOUT_MS == 40000

(* External: what the counter of the RP2040's watchdog holds, 24 bits       *)
(* counted down twice a microsecond; watchdog_enable cuts a longer time.    *)
WATCHDOG_COUNTER_MS == 16777215 \div 2000

(* The time after which the chip resets the board.                          *)
Timeout ==
  IF WATCHDOG_TIMEOUT_MS < WATCHDOG_COUNTER_MS THEN WATCHDOG_TIMEOUT_MS
                                               ELSE WATCHDOG_COUNTER_MS

(* network_task arms the watchdog while the reading task is in its first    *)
(* delay.                                                                   *)
WdInit == Init /\ unfed = 0 /\ failed = 0

(* A sample: network_task receives it and feeds the watchdog.               *)
Fed ==
  /\ Driver /\ published' # published
  /\ unfed' = 0
  /\ failed' = 0

(* Any other step of the driver; a round fails when it goes back to polling *)
(* with an error, without data or with an invalid sample.                   *)
Unfed ==
  /\ Driver /\ published' = published
  /\ failed' = IF pc # "settle" /\ pc' = "ready" THEN 1 ELSE failed
  /\ UNCHANGED unfed

Waits ==
  /\ DelayEnds
  /\ unfed' = IF unfed + delay < Timeout THEN unfed + delay ELSE Timeout
  /\ UNCHANGED failed

Measures == MeasurementDone /\ UNCHANGED <<unfed, failed>>

(* A reset: by the watchdog once the timeout is over, or by whatever else   *)
(* resets the board.  No reset is forced, since the watchdog may have been  *)
(* armed or fed later than here.                                            *)
Restart == WatchdogReset /\ unfed' = 0 /\ failed' = 0

WdNext == Fed \/ Unfed \/ Waits \/ Measures \/ Restart

WdSpec == WdInit /\ [][WdNext]_wdVars

----------------------------------------------------------------------------
(* As long as no round fails, the reading task's own delays never let the   *)
(* watchdog bite, not even those of the initialisation, its first sample    *)
(* and the five seconds between them, though the chip waits far less than   *)
(* the constant says (network_task.c:20,158-166, read_data_task.c:22-72,    *)
(* scd40.c:51-176).                                                         *)
BitesAfterFailure == unfed + delay >= Timeout => failed = 1
=============================================================================
