---------------------------- MODULE ReadDataTask ----------------------------
(***************************************************************************)
(* read_data_task of app/tasks/read_data_task.c, the highest-priority      *)
(* task.  It starts the sensor, then polls it and hands every valid sample *)
(* to the display and to the network task.  The sensor is the environment: *)
(* each driver call may fail, and samples are numbered as they are taken.  *)
(***************************************************************************)
EXTENDS Kernel

CONSTANT MaxSamples  (* bound: valid samples taken in one behaviour         *)

ASSUME SampleBound == MaxSamples \in Nat \ {0}

VARIABLE taken  (* number of the newest sample handed to the queues         *)

ReadUnchanged == UNCHANGED <<log_waiting, notified, lwip_depth, delayed, halted>>

(* A driver call that fails on the bus logs once in i2c_write or i2c_read   *)
(* and once in the task; a bad CRC, or "not ready", logs in the task only.  *)
DriverFailureLogs == {1, 2}

ReadStart ==
  /\ Goto("read", "read_start", "read_init", 1)
  /\ ReadUnchanged
  /\ UNCHANGED <<display_queue, network_queue, taken>>

(* scd40_init fails: i2c_write, scd40_init and the task each log the error, *)
(* and the task deletes itself.                                             *)
ScdInitFails ==
  /\ Goto("read", "read_init", "read_delete", 3)
  /\ ReadUnchanged
  /\ UNCHANGED <<display_queue, network_queue, taken>>

(* Used by a mutant only: the task goes on although the driver failed.      *)
ReadDeleteForgotten ==
  /\ Goto("read", "read_delete", "read_poll", 0)
  /\ ReadUnchanged
  /\ UNCHANGED <<display_queue, network_queue, taken>>

ReadDelete ==
  /\ Goto("read", "read_delete", "deleted", 0)
  /\ ReadUnchanged
  /\ UNCHANGED <<display_queue, network_queue, taken>>

ScdInit ==
  /\ Goto("read", "read_init", "read_poll", 0)
  /\ ReadUnchanged
  /\ UNCHANGED <<display_queue, network_queue, taken>>

(* scd40_get_data_ready_flag fails, or says "not ready": log and wait a     *)
(* second; otherwise go on to read the sample.                              *)
Poll ==
  /\ \/ \E n \in DriverFailureLogs : Goto("read", "read_poll", "read_delay", n)
     \/ Goto("read", "read_poll", "read_measure", 0)
  /\ ReadUnchanged
  /\ UNCHANGED <<display_queue, network_queue, taken>>

(* scd40_read_measurement fails or returns the invalid sample 0: log and    *)
(* wait for the next period; otherwise log the sample, then publish it.     *)
Measure ==
  /\ \/ \E n \in DriverFailureLogs : Goto("read", "read_measure", "read_delay", n)
     \/ taken < MaxSamples /\ Goto("read", "read_measure", "read_publish", 1)
  /\ ReadUnchanged
  /\ UNCHANGED <<display_queue, network_queue, taken>>

(* Both sends use a timeout of 0 and ignore the result: a full queue loses  *)
(* the new sample, for that consumer alone.                                 *)
Publish ==
  /\ Goto("read", "read_publish", "read_delay", 0)
  /\ taken' = taken + 1
  /\ display_queue' = SendToBack(display_queue, taken', DISPLAY_QUEUE_LENGTH)
  /\ network_queue' = SendToBack(network_queue, taken', NETWORK_QUEUE_LENGTH)
  /\ ReadUnchanged

(* The delay of one or five seconds ends.                                   *)
NextRound ==
  /\ Goto("read", "read_delay", "read_poll", 0)
  /\ ReadUnchanged
  /\ UNCHANGED <<display_queue, network_queue, taken>>

ReadStep ==
  \/ ReadStart \/ ScdInit \/ ScdInitFails \/ ReadDelete
  \/ Poll \/ Measure \/ Publish \/ NextRound
=============================================================================
