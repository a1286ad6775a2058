----------------------------- MODULE BootProofs -----------------------------
(***************************************************************************)
(* Proofs about Boot, for every queue length and every bus population.     *)
(***************************************************************************)
EXTENDS Boot, TLAPS

(* How many of its own messages main() has logged when it is at a stage.    *)
Own ==
  [wifi |-> 0, i2c_begin |-> 0, i2c_end |-> 1, scan0_begin |-> 2, scan0 |-> 3,
   scan1_begin |-> 3, scan1 |-> 4, oled_begin |-> 4, oled |-> 5, fb_init |-> 6,
   fb_clear |-> 7, faulted |-> 7, tasks |-> 6, created |-> 7, not_created |-> 7,
   returned |-> 8, running |-> 8]

(* Nothing is taken out of log_queue before the scheduler runs, so it holds *)
(* main()'s own messages and one per device and failure.                    *)
Backlog ==
  IF at = "wedged"
  THEN answered + missed + BOOT_MESSAGES > LOG_QUEUE_LENGTH
  ELSE log_waiting = Own[at] + answered + missed

(* The bus being scanned contributed found of the devices that answered.    *)
Devices ==
  /\ at \in {"wifi", "i2c_begin", "i2c_end", "scan0_begin"} => answered = 0
  /\ at \in {"scan0", "scan1_begin"} => answered = found
  /\ at = "scan1" => answered <= MaxDevices + found

IInv == BootTypeOK /\ Backlog /\ Devices

(* The strengthened invariant holds at reset.                               *)
LEMMA InitIInv == Init => IInv
  BY BootConstants DEF Init, IInv, BootTypeOK, Stage, Ended, Backlog, Devices,
     Own, BOOT_MESSAGES

(* Every step of main() keeps it.                                           *)
LEMMA NextIInv == IInv /\ [Next]_vars => IInv'
<1> SUFFICES ASSUME IInv, [Next]_vars PROVE IInv'
  OBVIOUS
<1> USE BootConstants DEF IInv, BootTypeOK, Stage, Ended, Backlog, Devices, Own,
     BOOT_MESSAGES, ULog, Step
<1>1. CASE WifiFails
  BY <1>1 DEF WifiFails
<1>2. CASE WifiConnects
  BY <1>2 DEF WifiConnects
<1>3. CASE InitI2c
  BY <1>3 DEF InitI2c
<1>4. CASE ScanBus
  BY <1>4 DEF ScanBus
<1>5. CASE DeviceFound
  BY <1>5 DEF DeviceFound
<1>6. CASE ScanEnds
  BY <1>6 DEF ScanEnds
<1>7. CASE OledBegin
  BY <1>7 DEF OledBegin
<1>8. CASE OledAck
  BY <1>8 DEF OledAck
<1>9. CASE OledNack
  BY <1>9 DEF OledNack
<1>10. CASE OledEnd
  BY <1>10 DEF OledEnd
<1>11. CASE FbInit
  BY <1>11 DEF FbInit
<1>12. CASE FbClearNull
  BY <1>12 DEF FbClearNull
<1>13. CASE CreateTasks
  BY <1>13 DEF CreateTasks
<1>14. CASE StartScheduler
  BY <1>14 DEF StartScheduler
<1>15. CASE ReturnError
  BY <1>15 DEF ReturnError
<1>16. CASE UNCHANGED vars
  BY <1>16 DEF vars
<1> QED
  BY <1>1, <1>2, <1>3, <1>4, <1>5, <1>6, <1>7, <1>8, <1>9, <1>10, <1>11, <1>12,
     <1>13, <1>14, <1>15, <1>16 DEF Next

(* The strengthened invariant holds in every reachable state.               *)
THEOREM IInvHolds == Spec => []IInv
  BY InitIInv, NextIInv, PTL DEF Spec

(* Whatever the hardware answers, log_queue never holds more than its slots *)
(* and the counters stay within the number of devices and commands.         *)
THEOREM BootTypeCorrect == Spec => []BootTypeOK
<1>1. IInv => BootTypeOK
  BY DEF IInv
<1> QED
  BY <1>1, IInvHolds, PTL

(* For every queue length: a boot wedges only when the devices that         *)
(* answered, the failed OLED commands and main()'s eight messages are more  *)
(* than the queue has slots.                                                *)
THEOREM WedgedOnlyWhenCrowdedHolds == Spec => []WedgedOnlyWhenCrowded
<1>1. IInv => WedgedOnlyWhenCrowded
  BY DEF IInv, Backlog, WedgedOnlyWhenCrowded
<1> QED
  BY <1>1, IInvHolds, PTL

(* A scheduler that starts finds all of main()'s messages in log_queue.     *)
THEOREM BacklogAtStartHolds == Spec => []BacklogAtStart
<1>1. IInv => BacklogAtStart
  BY BootConstants DEF IInv, BootTypeOK, Backlog, BacklogAtStart, Own, BOOT_MESSAGES
<1> QED
  BY <1>1, IInvHolds, PTL
=============================================================================
