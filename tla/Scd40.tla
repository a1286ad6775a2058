------------------------------- MODULE Scd40 --------------------------------
(***************************************************************************)
(* The SCD40 driver (app/scd40/scd40.c) as the reading task calls it       *)
(* (app/tasks/read_data_task.c), and the sensor it talks to.  The sensor   *)
(* keeps its state when the watchdog resets the board, takes only some     *)
(* commands while it measures periodically, and needs a documented time    *)
(* (scd40.h) for each of them.                                             *)
(*                                                                         *)
(* Time is counted in parts of a tick, TICK parts each.  A delay of n      *)
(* ticks ends at the n-th tick interrupt, so it lasts longer than n - 1    *)
(* ticks and may be hardly longer; a late wake-up only makes it longer.    *)
(***************************************************************************)
EXTENDS Integers, Sequences

CONSTANTS
  TICK,        (* parts of a tick; a tick is a millisecond                  *)
  MaxSamples   (* bound: samples the sensor measures in one behaviour       *)

ASSUME TickAssumption == TICK \in Nat \ {0}
ASSUME SamplesAssumption == MaxSamples \in Nat

(* scd40_init's argument to set_altitude.                                   *)
ALTITUDE == 482

Commands == {"stop", "reinit", "altitude", "start", "ready", "read"}

(* The durations documented in scd40.h, in ticks.                           *)
Duration(command) ==
  CASE command = "stop" -> 500
    [] command = "reinit" -> 30
    [] command \in {"altitude", "ready", "read"} -> 1
    [] command = "start" -> 0

(* Words of the data-ready status; the flag is in the low 11 bits.          *)
NotReadyWord == 32768   (* 0x8000 *)
ReadyWord == 32774      (* 0x8006 *)

VARIABLES
  pc,         (* where the reading task is                                  *)
  delay,      (* ticks of the vTaskDelay it is in, 0 if none                *)
  mode,       (* the sensor: "idle" or "periodic"                           *)
  altitude,   (* the altitude it compensates for                            *)
  busy,       (* parts of a tick it still needs for its last command        *)
  measured,   (* number of the newest sample it measured                    *)
  fresh,      (* whether that sample was not read yet                       *)
  reply,      (* the word the sensor answers the last command with          *)
  published   (* history: numbers of the samples handed to the queues       *)

sensor == <<mode, altitude, busy, measured, fresh, reply>>
vars == <<pc, delay, sensor, published>>

(* After power-up or a reset of the board alone, the sensor is in any state *)
(* an earlier run of the firmware may have left it in, except busy: main    *)
(* sleeps for two seconds first (main.c:56).                                *)
Init ==
  /\ pc = "stop"
  /\ delay = 0
  /\ mode \in {"idle", "periodic"}
  /\ altitude \in {0, ALTITUDE}
  /\ busy = 0
  /\ measured = 0
  /\ fresh = FALSE
  /\ reply = 0
  /\ published = <<>>

----------------------------------------------------------------------------
(* The sensor.                                                              *)

(* While it measures periodically the sensor takes these commands only.     *)
Takes(command) == mode = "periodic" => command \in {"stop", "ready", "read"}

(* What a command it takes does to it.  A sample is read once; asked for    *)
(* another one, it may give the old one again.  A sample may be invalid, 0. *)
Execute(command) ==
  /\ Takes(command)
  /\ busy' = Duration(command) * TICK
  /\ mode' = CASE command = "start" -> "periodic"
               [] command = "stop" -> "idle"
               [] OTHER -> mode
  /\ altitude' = CASE command = "altitude" -> ALTITUDE
                   [] command = "reinit" -> 0
                   [] OTHER -> altitude
  /\ fresh' = (fresh /\ command # "read")
  /\ reply' \in CASE command = "ready" -> {IF fresh THEN ReadyWord ELSE NotReadyWord}
                  [] command = "read" -> {0, measured}
                  [] OTHER -> {reply}
  /\ UNCHANGED measured

(* A periodic measurement is done.                                          *)
MeasurementDone ==
  /\ mode = "periodic"
  /\ measured < MaxSamples
  /\ measured' = measured + 1
  /\ fresh' = TRUE
  /\ UNCHANGED <<pc, delay, mode, altitude, busy, reply, published>>

----------------------------------------------------------------------------
(* The driver.                                                              *)

Goto(next, ticks) == pc' = next /\ delay' = ticks

(* A command is written: the sensor takes it and the task waits, or         *)
(* i2c_write reports an error (the sensor may have taken it all the same).  *)
Write(command, next, ticks, onError, errorTicks) ==
  /\ pc = command /\ delay = 0
  /\ \/ Execute(command) /\ Goto(next, ticks)
     \/ (Execute(command) \/ UNCHANGED sensor) /\ Goto(onError, errorTicks)
  /\ UNCHANGED published

StopPeriodicMeasurement == Write("stop", "reinit", 500, "deleted", 0)

(* Used by a mutant only: ten milliseconds taken for a tick.                *)
ReinitTenthOfDelay == Write("reinit", "altitude", 3, "deleted", 0)

Reinit == Write("reinit", "altitude", 30, "deleted", 0)

(* Used by a mutant only: the result is not checked.                        *)
SetAltitudeUnchecked == Write("altitude", "start", 1, "start", 0)

SetAltitude == Write("altitude", "start", 1, "deleted", 0)

(* start_periodic_measurement waits 5000 ticks, scd40_init 2000 more.       *)
StartPeriodicMeasurement == Write("start", "settle", 5000, "deleted", 0)

Settle ==
  /\ pc = "settle" /\ delay = 0
  /\ Goto("ready", 2000)
  /\ UNCHANGED <<sensor, published>>

GetDataReady == Write("ready", "ready_reply", 1, "ready", 1000)

(* Used by a mutant only: the flag is not masked.                           *)
AnyBit(word) == word # 0

DataReadyFlag(word) == word % 2048 # 0

(* i2c_read_data_inplace gives the answer, or fails: on the bus or because  *)
(* the CRC does not fit.                                                    *)
ReadDataReady ==
  /\ pc = "ready_reply" /\ delay = 0
  /\ \/ DataReadyFlag(reply) /\ Goto("read", 0)
     \/ Goto("ready", 1000)
  /\ UNCHANGED <<sensor, published>>

ReadMeasurement == Write("read", "read_reply", 1, "ready", 5000)

(* Used by a mutant only: an invalid sample is not skipped.                 *)
ReadSampleUnchecked ==
  /\ pc = "read_reply" /\ delay = 0
  /\ published' = Append(published, reply)
  /\ Goto("ready", 5000)
  /\ UNCHANGED sensor

(* Used by a mutant only: the next sample is read without asking for it.    *)
ReadSampleUnasked ==
  /\ pc = "read_reply" /\ delay = 0
  /\ \/ reply # 0 /\ published' = Append(published, reply)
     \/ UNCHANGED published
  /\ Goto("read", 5000)
  /\ UNCHANGED sensor

(* An invalid sample, 0, is skipped; another one is handed to the queues.   *)
ReadSample ==
  /\ pc = "read_reply" /\ delay = 0
  /\ \/ reply # 0 /\ published' = Append(published, reply)
     \/ UNCHANGED published
  /\ Goto("ready", 5000)
  /\ UNCHANGED sensor

(* The delay ends; the sensor had more than delay - 1 ticks of time.        *)
DelayEnds ==
  /\ delay > 0
  /\ delay' = 0
  /\ LET left == busy - ((delay - 1) * TICK + 1)
     IN busy' \in 0..(IF left < 0 THEN 0 ELSE left)
  /\ UNCHANGED <<pc, mode, altitude, measured, fresh, reply, published>>

(* The watchdog resets the board: the sensor keeps its state, and has done  *)
(* its last command when the driver starts again.                           *)
WatchdogReset ==
  /\ Goto("stop", 0)
  /\ busy' = 0
  /\ UNCHANGED <<mode, altitude, measured, fresh, reply, published>>

Driver ==
  \/ StopPeriodicMeasurement \/ Reinit \/ SetAltitude
  \/ StartPeriodicMeasurement \/ Settle
  \/ GetDataReady \/ ReadDataReady \/ ReadMeasurement \/ ReadSample

Next == Driver \/ DelayEnds \/ MeasurementDone \/ WatchdogReset

Spec == Init /\ [][Next]_vars

----------------------------------------------------------------------------
(* Every variable keeps its type; no invalid sample is published.           *)
ScdTypeOK ==
  /\ pc \in Commands \cup {"settle", "ready_reply", "read_reply", "deleted"}
  /\ delay \in 0..5000
  /\ mode \in {"idle", "periodic"}
  /\ altitude \in {0, ALTITUDE}
  /\ busy \in 0..500 * TICK
  /\ measured \in 0..MaxSamples
  /\ fresh \in BOOLEAN
  /\ reply \in 0..MaxSamples \cup {NotReadyWord, ReadyWord}
  /\ published \in Seq(1..MaxSamples)

(* Whatever state the sensor was left in, and whenever the watchdog resets  *)
(* the board, a sensor that is polled measures periodically, and for the    *)
(* configured altitude (scd40.c:145-176, read_data_task.c:26-42).           *)
MeasuringWhenPolled ==
  pc \in {"settle", "ready", "ready_reply", "read", "read_reply"} =>
    mode = "periodic" /\ altitude = ALTITUDE

(* No sample of the sensor is published twice, and none before an older one *)
(* (scd40.c:194-218, read_data_task.c:42-70).                               *)
FreshOnly ==
  \A i, j \in 1..Len(published) : i < j => published[i] < published[j]

(* The driver never goes on more than a tick before the sensor is done with *)
(* its last command (the delays of scd40.c against scd40.h:14-20).          *)
AtMostATickEarly == (delay = 0 /\ pc # "deleted") => busy < TICK

(* The commands with a "1ms duration" (scd40.h:15,17,18) had it when their  *)
(* answer is read or the next command is sent.                              *)
MillisecondKept ==
  (delay = 0 /\ pc \in {"start", "ready_reply", "read_reply"}) => busy = 0

(* The driver takes samples in the reading task's rounds: none without      *)
(* asking for data first, one at most for an answer, and none after an      *)
(* initialisation that failed, until the board restarts                     *)
(* (scd40.c:145-218, read_data_task.c:26-76).                               *)
Rounds == INSTANCE Reading WITH
  at <- CASE pc \in {"stop", "reinit", "altitude", "start", "settle"} -> "init"
          [] pc \in {"ready", "ready_reply"} -> "poll"
          [] pc \in {"read", "read_reply"} -> "measure"
          [] pc = "deleted" -> "deleted",
  taken <- Len(published)

InRounds == Rounds!Spec
=============================================================================
