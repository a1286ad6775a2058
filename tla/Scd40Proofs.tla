----------------------------- MODULE Scd40Proofs -----------------------------
(***************************************************************************)
(* Proofs about the SCD40 driver, the sensor and the watchdog, for every   *)
(* length of a tick and every number of samples.                           *)
(***************************************************************************)
EXTENDS Watchdog, TLAPS

USE TickAssumption, SamplesAssumption DEF TickAssumption, SamplesAssumption

(* What the reading task relies on is the sensor's state, at each place.    *)
ConfigInv ==
  /\ pc \in {"reinit", "altitude", "start"} => mode = "idle"
  /\ pc = "start" => altitude = ALTITUDE
  /\ MeasuringWhenPolled

(* A sample that is about to be read, or was read and is not yet published, *)
(* is newer than every published one.                                       *)
Newer(n) == \A i \in 1..Len(published) : published[i] < n

ReplyInv ==
  /\ pc = "ready_reply" => reply \in {NotReadyWord, ReadyWord}
  /\ pc = "ready_reply" /\ reply = ReadyWord => fresh
  /\ pc = "read" => fresh
  /\ pc = "read_reply" => reply \in 0..measured
  /\ pc = "read_reply" /\ fresh => reply < measured

SampleInv ==
  /\ Newer(measured + 1)
  /\ fresh => Newer(measured)
  /\ pc = "read_reply" /\ reply # 0 => Newer(reply)
  /\ FreshOnly

(* The time the sensor still needs ends less than a tick after the delay.   *)
BusyInv ==
  pc # "deleted" => IF delay = 0 THEN busy < TICK ELSE busy <= delay * TICK

Inv == ScdTypeOK /\ ConfigInv /\ ReplyInv /\ SampleInv /\ BusyInv

----------------------------------------------------------------------------
LEMMA TypeInit == Init => ScdTypeOK
  <1> SUFFICES ASSUME Init
               PROVE  ScdTypeOK
    OBVIOUS
  <1>1. pc \in Commands /\ delay \in 0..5000 /\ busy \in 0..500 * TICK
    BY SMT DEF Init, Commands
  <1>2. measured \in 0..MaxSamples /\ reply \in 0..MaxSamples
    BY SMT DEF Init
  <1>3. published \in Seq(1..MaxSamples)
    BY DEF Init
  <1> QED
    BY <1>1, <1>2, <1>3 DEF Init, ScdTypeOK

(* The command that reads a sample, and what it does to the sensor.         *)
Sampled ==
  /\ busy' = TICK
  /\ fresh' \in BOOLEAN /\ ~fresh'
  /\ reply' \in {0, measured}
  /\ UNCHANGED <<mode, altitude, measured>>

LEMMA ReadEffect ==
  ASSUME ReadMeasurement
  PROVE  /\ pc = "read" /\ published' = published
         /\ \/ pc' = "read_reply" /\ delay' = 1 /\ Sampled
            \/ pc' = "ready" /\ delay' = 5000 /\ (Sampled \/ UNCHANGED sensor)
  <1>1. Execute("read") => Sampled
    <2> SUFFICES ASSUME Execute("read")
                 PROVE  Sampled
      OBVIOUS
    <2>1. busy' = TICK
      BY SMT DEF Execute, Duration
    <2>2. fresh' \in BOOLEAN /\ ~fresh' /\ UNCHANGED <<mode, altitude, measured>>
      BY Zenon DEF Execute
    <2>3. reply' \in {0, measured}
      BY Zenon DEF Execute
    <2> QED
      BY <2>1, <2>2, <2>3 DEF Sampled
  <1> QED
    BY <1>1 DEF ReadMeasurement, Write, Goto

LEMMA ConfigStep ==
  ASSUME ScdTypeOK, ConfigInv, [Next]_vars
  PROVE  ConfigInv'
  <1>1. CASE StopPeriodicMeasurement
    BY <1>1, SMT DEF StopPeriodicMeasurement, ConfigInv, MeasuringWhenPolled,
       Write, Execute, Takes, Goto, sensor
  <1>2. CASE Reinit
    BY <1>2, SMT DEF Reinit, ConfigInv, MeasuringWhenPolled,
       Write, Execute, Takes, Goto, sensor
  <1>3. CASE SetAltitude
    BY <1>3, SMT DEF SetAltitude, ConfigInv, MeasuringWhenPolled,
       Write, Execute, Takes, Goto, sensor
  <1>4. CASE StartPeriodicMeasurement
    BY <1>4, SMT DEF StartPeriodicMeasurement, ConfigInv, MeasuringWhenPolled,
       Write, Execute, Takes, Goto, sensor
  <1>5. CASE Settle
    BY <1>5, SMT DEF Settle, ConfigInv, MeasuringWhenPolled, ScdTypeOK, Goto, sensor
  <1>6. CASE GetDataReady
    BY <1>6, SMT DEF GetDataReady, ConfigInv, MeasuringWhenPolled,
       Write, Execute, Takes, Goto, sensor
  <1>7. CASE ReadDataReady
    BY <1>7, SMT DEF ReadDataReady, ConfigInv, MeasuringWhenPolled, ScdTypeOK, Goto, sensor
  <1>8. CASE ReadMeasurement
    BY <1>8, SMT DEF ReadMeasurement, ConfigInv, MeasuringWhenPolled,
       Write, Execute, Takes, Goto, sensor
  <1>9. CASE ReadSample
    BY <1>9, SMT DEF ReadSample, ConfigInv, MeasuringWhenPolled, ScdTypeOK, Goto, sensor
  <1>10. CASE DelayEnds
    BY <1>10, SMT DEF DelayEnds, ConfigInv, MeasuringWhenPolled, ScdTypeOK, Goto, sensor
  <1>11. CASE MeasurementDone
    BY <1>11, SMT DEF MeasurementDone, ConfigInv, MeasuringWhenPolled, ScdTypeOK, Goto, sensor
  <1>12. CASE WatchdogReset
    BY <1>12, SMT DEF WatchdogReset, ConfigInv, MeasuringWhenPolled, ScdTypeOK, Goto, sensor
  <1>13. CASE UNCHANGED vars
    BY <1>13 DEF vars, sensor, ConfigInv, MeasuringWhenPolled
  <1> QED
    BY <1>1, <1>2, <1>3, <1>4, <1>5, <1>6,
       <1>7, <1>8, <1>9, <1>10, <1>11, <1>12, <1>13 DEF Next, Driver

LEMMA ReplyStep ==
  ASSUME ScdTypeOK, ReplyInv, [Next]_vars
  PROVE  ReplyInv'
  <1>1. CASE StopPeriodicMeasurement
    BY <1>1, SMT DEF StopPeriodicMeasurement, ReplyInv, ScdTypeOK,
       NotReadyWord, ReadyWord, DataReadyFlag,
       Write, Execute, Takes, Goto, sensor
  <1>2. CASE Reinit
    BY <1>2, SMT DEF Reinit, ReplyInv, ScdTypeOK,
       NotReadyWord, ReadyWord, DataReadyFlag,
       Write, Execute, Takes, Goto, sensor
  <1>3. CASE SetAltitude
    BY <1>3, SMT DEF SetAltitude, ReplyInv, ScdTypeOK,
       NotReadyWord, ReadyWord, DataReadyFlag,
       Write, Execute, Takes, Goto, sensor
  <1>4. CASE StartPeriodicMeasurement
    BY <1>4, SMT DEF StartPeriodicMeasurement, ReplyInv, ScdTypeOK,
       NotReadyWord, ReadyWord, DataReadyFlag,
       Write, Execute, Takes, Goto, sensor
  <1>5. CASE Settle
    BY <1>5, SMT DEF Settle, ReplyInv, ScdTypeOK,
       NotReadyWord, ReadyWord, DataReadyFlag, Goto, sensor
  <1>6. CASE GetDataReady
    BY <1>6, SMT DEF GetDataReady, ReplyInv, ScdTypeOK,
       NotReadyWord, ReadyWord, DataReadyFlag,
       Write, Execute, Takes, Goto, sensor
  <1>7. CASE ReadDataReady
    BY <1>7, SMT DEF ReadDataReady, ReplyInv, ScdTypeOK,
       NotReadyWord, ReadyWord, DataReadyFlag, Goto, sensor
  <1>8. CASE ReadMeasurement
    <2>1. /\ pc = "read" /\ published' = published
          /\ \/ pc' = "read_reply" /\ delay' = 1 /\ Sampled
             \/ pc' = "ready" /\ delay' = 5000 /\ (Sampled \/ UNCHANGED sensor)
      BY <1>8, ReadEffect
    <2>2. CASE Sampled
      BY <2>1, <2>2, SMT DEF Sampled, ReplyInv, ScdTypeOK
    <2>3. CASE pc' = "ready" /\ UNCHANGED sensor
      BY <2>1, <2>3, SMT DEF sensor, ReplyInv, ScdTypeOK
    <2> QED
      BY <2>1, <2>2, <2>3
  <1>9. CASE ReadSample
    BY <1>9, SMT DEF ReadSample, ReplyInv, ScdTypeOK,
       NotReadyWord, ReadyWord, DataReadyFlag, Goto, sensor
  <1>10. CASE DelayEnds
    BY <1>10, SMT DEF DelayEnds, ReplyInv, ScdTypeOK,
       NotReadyWord, ReadyWord, DataReadyFlag, Goto, sensor
  <1>11. CASE MeasurementDone
    BY <1>11, SMT DEF MeasurementDone, ReplyInv, ScdTypeOK,
       NotReadyWord, ReadyWord, DataReadyFlag, Goto, sensor
  <1>12. CASE WatchdogReset
    BY <1>12, SMT DEF WatchdogReset, ReplyInv, ScdTypeOK,
       NotReadyWord, ReadyWord, DataReadyFlag, Goto, sensor
  <1>13. CASE UNCHANGED vars
    BY <1>13 DEF vars, sensor, ReplyInv
  <1> QED
    BY <1>1, <1>2, <1>3, <1>4, <1>5, <1>6,
       <1>7, <1>8, <1>9, <1>10, <1>11, <1>12, <1>13 DEF Next, Driver

LEMMA BusyStep ==
  ASSUME ScdTypeOK, BusyInv, [Next]_vars
  PROVE  BusyInv'
  <1>1. CASE StopPeriodicMeasurement
    BY <1>1, SMT DEF StopPeriodicMeasurement, BusyInv, ScdTypeOK, Duration,
       Write, Execute, Takes, Goto, sensor
  <1>2. CASE Reinit
    BY <1>2, SMT DEF Reinit, BusyInv, ScdTypeOK, Duration,
       Write, Execute, Takes, Goto, sensor
  <1>3. CASE SetAltitude
    BY <1>3, SMT DEF SetAltitude, BusyInv, ScdTypeOK, Duration,
       Write, Execute, Takes, Goto, sensor
  <1>4. CASE StartPeriodicMeasurement
    BY <1>4, SMT DEF StartPeriodicMeasurement, BusyInv, ScdTypeOK, Duration,
       Write, Execute, Takes, Goto, sensor
  <1>5. CASE Settle
    BY <1>5, SMT DEF Settle, BusyInv, ScdTypeOK, Goto, sensor
  <1>6. CASE GetDataReady
    BY <1>6, SMT DEF GetDataReady, BusyInv, ScdTypeOK, Duration,
       Write, Execute, Takes, Goto, sensor
  <1>7. CASE ReadDataReady
    BY <1>7, SMT DEF ReadDataReady, BusyInv, ScdTypeOK, Goto, sensor
  <1>8. CASE ReadMeasurement
    BY <1>8, SMT DEF ReadMeasurement, BusyInv, ScdTypeOK, Duration,
       Write, Execute, Takes, Goto, sensor
  <1>9. CASE ReadSample
    BY <1>9, SMT DEF ReadSample, BusyInv, ScdTypeOK, Goto, sensor
  <1>10. CASE DelayEnds
    <2> SUFFICES ASSUME pc # "deleted"
                 PROVE  busy' < TICK
      BY <1>10, SMT DEF DelayEnds, BusyInv
    <2> DEFINE left == busy - ((delay - 1) * TICK + 1)
    <2>1. (delay - 1) * TICK = delay * TICK - TICK /\ delay * TICK \in Int
      BY SMT DEF ScdTypeOK
    <2>2. busy <= delay * TICK
      BY <1>10, SMT DEF DelayEnds, BusyInv, ScdTypeOK
    <2>3. left \in Int /\ left < TICK
      BY <2>1, <2>2, SMT DEF ScdTypeOK
    <2>4. busy' \in 0..(IF left < 0 THEN 0 ELSE left)
      BY <1>10 DEF DelayEnds
    <2> HIDE DEF left
    <2> QED
      BY <2>3, <2>4, SMT
  <1>11. CASE MeasurementDone
    BY <1>11, SMT DEF MeasurementDone, BusyInv, ScdTypeOK, Goto, sensor
  <1>12. CASE WatchdogReset
    BY <1>12, SMT DEF WatchdogReset, BusyInv, ScdTypeOK, Goto, sensor
  <1>13. CASE UNCHANGED vars
    BY <1>13 DEF vars, sensor, BusyInv
  <1> QED
    BY <1>1, <1>2, <1>3, <1>4, <1>5, <1>6,
       <1>7, <1>8, <1>9, <1>10, <1>11, <1>12, <1>13 DEF Next, Driver

LEMMA TypeStep ==
  ASSUME ScdTypeOK, ReplyInv, [Next]_vars
  PROVE  ScdTypeOK'
  <1>1. CASE StopPeriodicMeasurement
    BY <1>1, SMT DEF StopPeriodicMeasurement, ScdTypeOK, Commands, Duration,
       Write, Execute, Takes, Goto, sensor
  <1>2. CASE Reinit
    BY <1>2, SMT DEF Reinit, ScdTypeOK, Commands, Duration,
       Write, Execute, Takes, Goto, sensor
  <1>3. CASE SetAltitude
    BY <1>3, SMT DEF SetAltitude, ScdTypeOK, Commands, Duration,
       Write, Execute, Takes, Goto, sensor
  <1>4. CASE StartPeriodicMeasurement
    BY <1>4, SMT DEF StartPeriodicMeasurement, ScdTypeOK, Commands, Duration,
       Write, Execute, Takes, Goto, sensor
  <1>5. CASE Settle
    BY <1>5, SMT DEF Settle, Goto, ScdTypeOK, sensor, Commands
  <1>6. CASE GetDataReady
    BY <1>6, SMT DEF GetDataReady, ScdTypeOK, Commands, Duration,
       Write, Execute, Takes, Goto, sensor
  <1>7. CASE ReadDataReady
    BY <1>7, SMT DEF ReadDataReady, Goto, ScdTypeOK, sensor, Commands
  <1>8. CASE ReadMeasurement
    <2>1. /\ pc = "read" /\ published' = published
          /\ \/ pc' = "read_reply" /\ delay' = 1 /\ Sampled
             \/ pc' = "ready" /\ delay' = 5000 /\ (Sampled \/ UNCHANGED sensor)
      BY <1>8, ReadEffect
    <2>2. CASE Sampled /\ pc' \in {"ready", "read_reply"} /\ delay' \in {1, 5000}
      <3>1. pc' \in Commands \cup {"read_reply"} /\ delay' \in 0..5000
        BY <2>2, SMT DEF Commands
      <3>2. busy' \in 0..500 * TICK
        BY <2>2, SMT DEF Sampled
      <3>3. reply' \in 0..MaxSamples
        BY <2>2, SMT DEF Sampled, ScdTypeOK
      <3> QED
        BY <2>1, <2>2, <3>1, <3>2, <3>3 DEF Sampled, ScdTypeOK
    <2>3. CASE pc' = "ready" /\ delay' = 5000 /\ UNCHANGED sensor
      BY <2>1, <2>3, SMT DEF sensor, ScdTypeOK, Commands
    <2> QED
      BY <2>1, <2>2, <2>3
  <1>9. CASE ReadSample
    <2>1. published' \in Seq(1..MaxSamples)
      <3>1. CASE UNCHANGED published
        BY <3>1 DEF ScdTypeOK
      <3>2. CASE reply # 0 /\ published' = Append(published, reply)
        <4>1. reply \in 1..MaxSamples
          BY <1>9, <3>2, SMT DEF ScdTypeOK, ReplyInv, ReadSample
        <4> QED
          BY <3>2, <4>1 DEF ScdTypeOK
      <3> QED
        BY <1>9, <3>1, <3>2 DEF ReadSample
    <2> QED
      BY <1>9, <2>1, SMT DEF ReadSample, Goto, ScdTypeOK, sensor, Commands
  <1>10. CASE DelayEnds
    <2>1. busy' \in 0..500 * TICK
      <3> DEFINE left == busy - ((delay - 1) * TICK + 1)
      <3>1. delay - 1 \in Nat
        BY <1>10, SMT DEF DelayEnds, ScdTypeOK
      <3>2. (delay - 1) * TICK \in Nat
        BY <3>1, SMT
      <3>3. left \in Int /\ left <= busy
        BY <3>2, SMT DEF ScdTypeOK
      <3>4. busy' \in 0..(IF left < 0 THEN 0 ELSE left)
        BY <1>10 DEF DelayEnds
      <3> HIDE DEF left
      <3> QED
        BY <3>3, <3>4, SMT DEF ScdTypeOK
    <2> QED
      BY <1>10, <2>1, SMT DEF DelayEnds, ScdTypeOK
  <1>11. CASE MeasurementDone
    BY <1>11, SMT DEF MeasurementDone, Goto, ScdTypeOK, sensor, Commands
  <1>12. CASE WatchdogReset
    BY <1>12, SMT DEF WatchdogReset, Goto, ScdTypeOK, sensor, Commands
  <1>13. CASE UNCHANGED vars
    BY <1>13 DEF vars, sensor, ScdTypeOK
  <1> QED
    BY <1>1, <1>2, <1>3, <1>4, <1>5, <1>6,
       <1>7, <1>8, <1>9, <1>10, <1>11, <1>12, <1>13 DEF Next, Driver

LEMMA SampleStep ==
  ASSUME ScdTypeOK, ReplyInv, SampleInv, [Next]_vars
  PROVE  SampleInv'
  <1>1. CASE StopPeriodicMeasurement
    BY <1>1, SMT DEF StopPeriodicMeasurement, SampleInv, Newer, FreshOnly, ScdTypeOK,
       Write, Execute, Takes, Goto, sensor
  <1>2. CASE Reinit
    BY <1>2, SMT DEF Reinit, SampleInv, Newer, FreshOnly, ScdTypeOK,
       Write, Execute, Takes, Goto, sensor
  <1>3. CASE SetAltitude
    BY <1>3, SMT DEF SetAltitude, SampleInv, Newer, FreshOnly, ScdTypeOK,
       Write, Execute, Takes, Goto, sensor
  <1>4. CASE StartPeriodicMeasurement
    BY <1>4, SMT DEF StartPeriodicMeasurement, SampleInv, Newer, FreshOnly, ScdTypeOK,
       Write, Execute, Takes, Goto, sensor
  <1>5. CASE Settle
    BY <1>5, SMT DEF Settle, SampleInv, Newer, FreshOnly, ScdTypeOK, Goto, sensor
  <1>6. CASE GetDataReady
    BY <1>6, SMT DEF GetDataReady, SampleInv, Newer, FreshOnly, ScdTypeOK,
       Write, Execute, Takes, Goto, sensor
  <1>7. CASE ReadDataReady
    BY <1>7, SMT DEF ReadDataReady, SampleInv, Newer, FreshOnly, ScdTypeOK, Goto, sensor
  <1>8. CASE ReadMeasurement
    <2>1. /\ pc = "read" /\ published' = published
          /\ \/ pc' = "read_reply" /\ delay' = 1 /\ Sampled
             \/ pc' = "ready" /\ delay' = 5000 /\ (Sampled \/ UNCHANGED sensor)
      BY <1>8, ReadEffect
    <2>2. CASE Sampled
      BY <2>1, <2>2, SMT DEF Sampled, SampleInv, ReplyInv, Newer, FreshOnly,
         ScdTypeOK
    <2>3. CASE pc' = "ready" /\ UNCHANGED sensor
      BY <2>1, <2>3, SMT DEF sensor, SampleInv, ReplyInv, Newer, FreshOnly,
         ScdTypeOK
    <2> QED
      BY <2>1, <2>2, <2>3
  <1>9. CASE ReadSample
    <2>1. CASE UNCHANGED published
      BY <1>9, <2>1, SMT DEF ReadSample, SampleInv, Newer, FreshOnly, Goto, sensor
    <2>2. CASE reply # 0 /\ published' = Append(published, reply)
      <3>1. /\ Newer(reply)
            /\ reply \in 0..measured
            /\ fresh => reply < measured
            /\ UNCHANGED <<measured, fresh>>
            /\ pc' = "ready"
        BY <1>9, <2>2 DEF ReadSample, SampleInv, ReplyInv, Goto, sensor
      <3>2. /\ Len(published') = Len(published) + 1
            /\ Len(published) \in Nat
            /\ published'[Len(published) + 1] = reply
            /\ \A i \in 1..Len(published) :
                 published[i] \in Int /\ published'[i] = published[i]
        <4>1. published \in Seq(Int) /\ reply \in Int
          BY <3>1, SMT DEF ScdTypeOK
        <4> QED
          BY <2>2, <4>1, SMT
      <3>3. \A i \in 1..Len(published') : published'[i] <= reply
        BY <3>1, <3>2, SMT DEF Newer, ScdTypeOK
      <3>4. Newer(measured + 1)' /\ (fresh' => Newer(measured)')
        <4>1. reply \in Int /\ measured \in Int /\ Len(published') \in Int
              /\ \A i \in 1..Len(published') : published'[i] \in Int
          BY <3>1, <3>2, SMT DEF ScdTypeOK
        <4>2. reply < measured + 1
          BY <3>1, <4>1, SMT
        <4> QED
          BY <3>1, <3>3, <4>1, <4>2, SMT DEF Newer
      <3>5. FreshOnly'
        <4> SUFFICES ASSUME NEW i \in 1..Len(published'), NEW j \in 1..Len(published'),
                            i < j
                     PROVE  published'[i] < published'[j]
          BY DEF FreshOnly
        <4>1. i \in 1..Len(published) /\ published'[i] = published[i]
          BY <3>2, SMT
        <4>2. CASE j \in 1..Len(published)
          BY <3>2, <4>1, <4>2 DEF FreshOnly, SampleInv
        <4>3. CASE j = Len(published) + 1
          BY <3>1, <3>2, <4>1, <4>3 DEF Newer
        <4> QED
          BY <3>2, <4>2, <4>3, SMT
      <3> QED
        BY <3>1, <3>4, <3>5 DEF SampleInv
    <2> QED
      BY <1>9, <2>1, <2>2 DEF ReadSample
  <1>10. CASE DelayEnds
    BY <1>10, SMT DEF DelayEnds, SampleInv, Newer, FreshOnly, ScdTypeOK, Goto, sensor
  <1>11. CASE MeasurementDone
    BY <1>11, SMT DEF MeasurementDone, SampleInv, Newer, FreshOnly, ScdTypeOK, Goto, sensor
  <1>12. CASE WatchdogReset
    BY <1>12, SMT DEF WatchdogReset, SampleInv, Newer, FreshOnly, ScdTypeOK, Goto, sensor
  <1>13. CASE UNCHANGED vars
    BY <1>13 DEF vars, sensor, SampleInv, Newer, FreshOnly
  <1> QED
    BY <1>1, <1>2, <1>3, <1>4, <1>5, <1>6,
       <1>7, <1>8, <1>9, <1>10, <1>11, <1>12, <1>13 DEF Next, Driver

----------------------------------------------------------------------------
LEMMA InvInit == Init => Inv
  <1> SUFFICES ASSUME Init
               PROVE  Inv
    OBVIOUS
  <1>1. ConfigInv /\ ReplyInv
    BY DEF Init, ConfigInv, MeasuringWhenPolled, ReplyInv
  <1>2. SampleInv
    BY SMT DEF Init, SampleInv, Newer, FreshOnly
  <1>3. BusyInv
    BY SMT DEF Init, BusyInv
  <1> QED
    BY <1>1, <1>2, <1>3, TypeInit DEF Inv

LEMMA InvAlways == Spec => []Inv
  <1>1. Inv /\ [Next]_vars => Inv'
    BY TypeStep, ConfigStep, ReplyStep, SampleStep, BusyStep DEF Inv
  <1> QED
    BY InvInit, <1>1, PTL DEF Spec

(* Every variable keeps its type, and no invalid sample is published.       *)
THEOREM ScdTypeCorrect == Spec => []ScdTypeOK
  BY InvAlways, PTL DEF Inv

(* Across failures and resets a polled sensor measures, as configured       *)
(* (scd40.c:145-176).                                                       *)
THEOREM MeasuringWhenPolledHolds == Spec => []MeasuringWhenPolled
  BY InvAlways, PTL DEF Inv, ConfigInv

(* No sample is published twice or out of order (scd40.c:194-218).          *)
THEOREM FreshOnlyHolds == Spec => []FreshOnly
  BY InvAlways, PTL DEF Inv, SampleInv

(* However finely a tick is divided, no command or answer comes a whole     *)
(* tick early (scd40.c:51-142).                                             *)
THEOREM AtMostATickEarlyHolds == Spec => []AtMostATickEarly
  <1>1. Inv => AtMostATickEarly
    BY DEF Inv, BusyInv, AtMostATickEarly
  <1> QED
    BY <1>1, InvAlways, PTL

----------------------------------------------------------------------------
(* The watchdog.                                                            *)

(* With the watchdog the driver does nothing it would not do without.       *)
LEMMA WdStep == [WdNext]_wdVars => [Next]_vars
  BY DEF WdNext, wdVars, Fed, Unfed, Waits, Measures, Restart, Next

(* The chip's counter is the shorter of the two.                            *)
LEMMA TimeoutValue == Timeout = 8388
<1>1. WATCHDOG_COUNTER_MS = 8388
  BY SMT DEF WATCHDOG_COUNTER_MS
<1> QED
  BY <1>1 DEF Timeout, WATCHDOG_TIMEOUT_MS

(* While no round has failed, the time without a sample, the delay under    *)
(* way included, is at most that of the steps since the last one or since   *)
(* the first step of the initialisation.                                    *)
Since == unfed + delay

TimeInv ==
  /\ unfed \in Nat /\ failed \in {0, 1}
  /\ pc = "stop" => Since <= 0
  /\ pc = "reinit" => Since <= 500
  /\ pc = "altitude" => Since <= 530
  /\ pc = "start" => Since <= 531
  /\ pc \in {"settle", "deleted"} => Since <= 5531
  /\ failed = 0 =>
       /\ pc = "ready" => Since <= 7531
       /\ pc \in {"ready_reply", "read"} => Since <= 7532
       /\ pc = "read_reply" => Since <= 7533

LEMMA SumWithZero ==
  ASSUME NEW limit \in Nat, NEW time \in Nat, time <= limit, NEW rest, rest = 0
  PROVE  time + rest \in Nat /\ time + rest <= limit
  OBVIOUS

(* A step of the driver that hands over no sample.                          *)
LEMMA UnfedTime ==
  ASSUME ScdTypeOK, TimeInv, Unfed
  PROVE  TimeInv'
  <1>1. unfed' = unfed /\ unfed \in Nat /\ failed \in {0, 1} /\ delay \in Nat
    BY DEF Unfed, TimeInv, ScdTypeOK
  <1>2. failed' = IF pc # "settle" /\ pc' = "ready" THEN 1 ELSE failed
    BY DEF Unfed
  <1>3. CASE StopPeriodicMeasurement
    BY <1>1, <1>2, <1>3 DEF StopPeriodicMeasurement, Write, Goto, TimeInv, Since
  <1>4. CASE Reinit
    BY <1>1, <1>2, <1>4 DEF Reinit, Write, Goto, TimeInv, Since
  <1>5. CASE SetAltitude
    BY <1>1, <1>2, <1>5 DEF SetAltitude, Write, Goto, TimeInv, Since
  <1>6. CASE StartPeriodicMeasurement
    BY <1>1, <1>2, <1>6 DEF StartPeriodicMeasurement, Write, Goto, TimeInv, Since
  <1>7. CASE Settle
    BY <1>1, <1>2, <1>7 DEF Settle, Goto, TimeInv, Since
  <1>8. CASE GetDataReady
    BY <1>1, <1>2, <1>8 DEF GetDataReady, Write, Goto, TimeInv, Since
  <1>9. CASE ReadDataReady
    BY <1>1, <1>2, <1>9 DEF ReadDataReady, Goto, TimeInv, Since
  <1>10. CASE ReadMeasurement
    BY <1>1, <1>2, <1>10 DEF ReadMeasurement, Write, Goto, TimeInv, Since
  <1>11. CASE ReadSample
    BY <1>1, <1>2, <1>11 DEF ReadSample, Goto, TimeInv, Since
  <1> QED
    BY <1>3, <1>4, <1>5, <1>6, <1>7, <1>8, <1>9, <1>10, <1>11 DEF Unfed, Driver

LEMMA TimeStep ==
  ASSUME ScdTypeOK, TimeInv, [WdNext]_wdVars
  PROVE  TimeInv'
  <1>1. unfed \in Nat /\ failed \in {0, 1} /\ delay \in Nat
    BY DEF TimeInv, ScdTypeOK
  <1>2. CASE Fed
    <2>1. ReadSample
      BY <1>2 DEF Fed, Driver, StopPeriodicMeasurement, Reinit, SetAltitude,
         StartPeriodicMeasurement, Settle, GetDataReady, ReadDataReady,
         ReadMeasurement, Write
    <2>2. pc' = "ready" /\ delay' = 5000
      BY <2>1 DEF ReadSample, Goto
    <2>3. unfed' = 0 /\ failed' = 0
      BY <1>2 DEF Fed
    <2> QED
      BY <2>2, <2>3 DEF TimeInv, Since
  <1>3. CASE Unfed
    BY <1>3, UnfedTime
  <1>4. CASE Waits
    <2>1. delay' = 0 /\ pc' = pc /\ failed' = failed
      BY <1>4 DEF Waits, DelayEnds
    <2>2. unfed' \in Nat /\ unfed' <= unfed + delay
      BY <1>1, <1>4, TimeoutValue DEF Waits
    <2>3. delay' = 0
      BY <2>1
    <2>4. Since \in Nat /\ Since' \in Nat /\ Since' <= Since
      <3>1. unfed + delay \in Nat
        BY <1>1
      <3>2. unfed' + delay' \in Nat /\ unfed' + delay' <= unfed + delay
        BY <2>2, <2>3, <3>1, SumWithZero, Zenon
      <3> QED
        BY <3>1, <3>2, Zenon DEF Since
    <2> HIDE DEF Since
    <2> QED
      BY <1>1, <2>1, <2>2, <2>4 DEF TimeInv
  <1>5. CASE Measures
    BY <1>5 DEF Measures, MeasurementDone, TimeInv, Since
  <1>6. CASE Restart
    BY <1>6 DEF Restart, WatchdogReset, Goto, TimeInv, Since
  <1>7. CASE UNCHANGED wdVars
    BY <1>7 DEF wdVars, vars, TimeInv, Since
  <1> QED
    BY <1>2, <1>3, <1>4, <1>5, <1>6, <1>7 DEF WdNext

(* The chip's watchdog cuts the 40 seconds to 8.4; the longest way to a     *)
(* sample, through the initialisation, takes 7.6                            *)
(* (network_task.c:20,158-166, read_data_task.c:22-72, scd40.c:51-176).     *)
THEOREM BitesAfterFailureHolds == WdSpec => []BitesAfterFailure
  <1>1. WdInit => Inv /\ TimeInv
    <2> SUFFICES ASSUME WdInit PROVE Inv /\ TimeInv
      OBVIOUS
    <2>1. Inv
      BY InvInit DEF WdInit
    <2>2. pc = "stop" /\ delay = 0 /\ unfed = 0 /\ failed = 0
      BY DEF WdInit, Init
    <2> QED
      BY <2>1, <2>2 DEF TimeInv, Since
  <1>2. Inv /\ TimeInv /\ [WdNext]_wdVars => (Inv /\ TimeInv)'
    BY WdStep, TimeStep, TypeStep, ConfigStep, ReplyStep, SampleStep, BusyStep DEF Inv
  <1>3. Inv /\ TimeInv => BitesAfterFailure
    <2> SUFFICES ASSUME Inv, TimeInv, unfed + delay >= Timeout
                 PROVE  failed = 1
      BY DEF BitesAfterFailure
    <2>1. pc \in Commands \cup {"settle", "ready_reply", "read_reply", "deleted"}
      BY DEF Inv, ScdTypeOK
    <2>2. Since >= 8388 /\ Since \in Nat
      BY TimeoutValue DEF Since, TimeInv, Inv, ScdTypeOK
    <2> HIDE DEF Since
    <2>3. CASE pc \in {"stop", "reinit", "altitude", "start", "settle", "deleted"}
      BY <2>2, <2>3 DEF TimeInv
    <2>4. CASE pc \in {"ready", "ready_reply", "read", "read_reply"}
      <3>1. failed = 0 => Since <= 7533
        BY <2>2, <2>4 DEF TimeInv
      <3> QED
        BY <2>2, <3>1 DEF TimeInv
    <2> QED
      BY <2>1, <2>3, <2>4 DEF Commands
  <1> QED
    BY <1>1, <1>2, <1>3, PTL DEF WdSpec

----------------------------------------------------------------------------
(* The rounds.                                                              *)

(* The driver's own places, each in the round of Reading it belongs to, and *)
(* what each of its steps takes.                                            *)
Place(l) ==
  CASE l \in {"stop", "reinit", "altitude", "start", "settle"} -> "init"
    [] l \in {"ready", "ready_reply"} -> "poll"
    [] l \in {"read", "read_reply"} -> "measure"
    [] l = "deleted" -> "deleted"

LEMMA Places ==
  /\ \A l \in {"stop", "reinit", "altitude", "start", "settle"} : Place(l) = "init"
  /\ Place("ready") = "poll" /\ Place("ready_reply") = "poll"
  /\ Place("read") = "measure" /\ Place("read_reply") = "measure"
  /\ Place("deleted") = "deleted"
  BY DEF Place

(* A step of the driver takes a sample, at the end of a round, or none.     *)
LEMMA RoundStep ==
  ASSUME ScdTypeOK, [Next]_vars
  PROVE  [Rounds!Next]_(Rounds!vars)
  <1> DEFINE a == Place(pc)
             b == Place(pc')
             n == Len(published)
             m == Len(published')
  <1>1. SUFFICES \/ a = "init" /\ b = "poll" /\ m = n
                 \/ a = "init" /\ b = "deleted" /\ m = n
                 \/ a = "poll" /\ b = "measure" /\ m = n
                 \/ a = "measure" /\ b = "poll" /\ m \in {n, n + 1}
                 \/ b = "init" /\ m = n
                 \/ a = b /\ m = n
    BY DEF Place, Rounds!Next, Rounds!vars, Rounds!From, Rounds!Ready, Rounds!GiveUp,
       Rounds!Found, Rounds!Take, Rounds!Skip, Rounds!Restart
  <1> HIDE DEF a, b, n, m
  <1>2. CASE UNCHANGED published
    <2>1. m = n
      BY <1>2 DEF m, n
    <2>2. CASE StopPeriodicMeasurement \/ Reinit \/ SetAltitude \/ StartPeriodicMeasurement
      <3>1. /\ pc \in {"stop", "reinit", "altitude", "start"}
            /\ pc' \in {"reinit", "altitude", "start", "settle", "deleted"}
        BY <2>2 DEF StopPeriodicMeasurement, Reinit, SetAltitude,
           StartPeriodicMeasurement, Write, Goto
      <3> QED
        BY <2>1, <3>1, Places DEF a, b
    <2>3. CASE Settle
      <3>1. pc = "settle" /\ pc' = "ready"
        BY <2>3 DEF Settle, Goto
      <3> QED
        BY <2>1, <3>1, Places DEF a, b
    <2>4. CASE GetDataReady \/ ReadDataReady
      <3>1. pc \in {"ready", "ready_reply"} /\ pc' \in {"ready", "ready_reply", "read"}
        BY <2>4 DEF GetDataReady, ReadDataReady, Write, Goto
      <3> QED
        BY <2>1, <3>1, Places DEF a, b
    <2>5. CASE ReadMeasurement \/ ReadSample
      <3>1. pc \in {"read", "read_reply"} /\ pc' \in {"read_reply", "ready"}
        BY <2>5 DEF ReadMeasurement, ReadSample, Write, Goto
      <3> QED
        BY <2>1, <3>1, Places DEF a, b
    <2>6. CASE WatchdogReset
      <3>1. pc' = "stop"
        BY <2>6 DEF WatchdogReset, Goto
      <3> QED
        BY <2>1, <3>1, Places DEF b
    <2>7. CASE DelayEnds \/ MeasurementDone \/ UNCHANGED vars
      <3>1. pc' = pc
        BY <2>7 DEF DelayEnds, MeasurementDone, vars
      <3> QED
        BY <2>1, <3>1 DEF a, b
    <2> QED
      BY <2>2, <2>3, <2>4, <2>5, <2>6, <2>7 DEF Next, Driver
  <1>3. CASE ~UNCHANGED published
    <2>1. ReadSample
      BY <1>3 DEF Next, Driver, StopPeriodicMeasurement, Reinit, SetAltitude,
         StartPeriodicMeasurement, Settle, GetDataReady, ReadDataReady,
         ReadMeasurement, Write, DelayEnds, MeasurementDone, WatchdogReset, vars
    <2>2. pc = "read_reply" /\ pc' = "ready" /\ published' = Append(published, reply)
      BY <1>3, <2>1 DEF ReadSample, Goto
    <2>3. m = n + 1
      BY <2>2 DEF ScdTypeOK, m, n
    <2> QED
      BY <2>2, <2>3, Places DEF a, b
  <1> QED
    BY <1>2, <1>3

(* The driver, the watchdog beside it or not, implements Reading: it takes  *)
(* a sample only in a round that asked for one, at most one, and none after *)
(* an initialisation that failed (scd40.c:145-218, read_data_task.c:26-76). *)
THEOREM DriverInRounds == (Spec => InRounds) /\ (WdSpec => InRounds)
  <1>1. Init => Rounds!Init
    BY DEF Init, Rounds!Init
  <1>2. ScdTypeOK /\ [Next]_vars => [Rounds!Next]_(Rounds!vars)
    BY RoundStep
  <1>3. Spec => InRounds
    BY <1>1, <1>2, ScdTypeCorrect, PTL DEF Spec, InRounds, Rounds!Spec
  <1>4. WdInit => Init
    BY DEF WdInit
  <1>5. WdSpec => Spec
    BY <1>4, WdStep, PTL DEF WdSpec, Spec
  <1> QED
    BY <1>3, <1>5
=============================================================================
