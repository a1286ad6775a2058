--------------------------- MODULE FirmwareProofs ---------------------------
(***************************************************************************)
(* Theorems about Firmware, for every length of the queues, every bound on *)
(* samples and resets and every number of boot messages.                   *)
(***************************************************************************)
EXTENDS Firmware, TLAPS

----------------------------------------------------------------------------
(* Type correctness.                                                        *)

(* What the reading task does to the control state.                         *)
LEMMA ReadControl == ASSUME ControlOK, ReadStep PROVE ControlOK'
<1> USE DEF ControlOK, Goto, Context, Task, DriverFailureLogs, ReadLabel,
            DispLabel, NetLabel, LogLabel, IsrLabel
<1>1. CASE ReadStart BY <1>1 DEF ReadStart
<1>2. CASE ScdInit BY <1>2 DEF ScdInit
<1>3. CASE ScdInitFails BY <1>3 DEF ScdInitFails
<1>4. CASE ReadDelete BY <1>4 DEF ReadDelete
<1>5. CASE Poll BY <1>5 DEF Poll
<1>6. CASE Measure BY <1>6 DEF Measure
<1>7. CASE Publish BY <1>7 DEF Publish
<1>8. CASE NextRound BY <1>8 DEF NextRound
<1> QED BY <1>1, <1>2, <1>3, <1>4, <1>5, <1>6, <1>7, <1>8 DEF ReadStep

(* A send to the back of a queue keeps its type and its length.             *)
LEMMA SendType ==
  ASSUME NEW length \in Nat, NEW x \in Nat \ {0}, NEW q \in Seq(Nat \ {0}),
         Len(q) <= length
  PROVE  /\ SendToBack(q, x, length) \in Seq(Nat \ {0})
         /\ Len(SendToBack(q, x, length)) <= length
  BY DEF SendToBack

(* A receive from the front of a queue keeps its type and its length.       *)
LEMMA ReceiveType ==
  ASSUME NEW length \in Nat, NEW q \in Seq(Nat \ {0}), q # <<>>, Len(q) <= length
  PROVE  /\ Head(q) \in Nat \ {0}
         /\ Tail(q) \in Seq(Nat \ {0})
         /\ Len(Tail(q)) <= length
  OBVIOUS

LEMMA ReadType == ASSUME TypeOK, Read PROVE TypeOK'
<1> USE DEF TypeOK, Read, dispVars, netVars, ReadUnchanged, FlagsOK
<1>1. ControlOK'
  BY ReadControl
<1>2. CASE Publish
  <2>1. DataOK'
    BY <1>2, SendType, QueueLengths DEF Publish, DataOK
  <2> QED BY <1>1, <1>2, <2>1 DEF Publish
<1>3. CASE ~Publish
  <2>1. UNCHANGED <<display_queue, network_queue, taken, log_waiting, notified,
                    lwip_depth, delayed, halted>>
    BY <1>3 DEF ReadStep, ReadStart, ScdInit, ScdInitFails, ReadDelete, Poll,
                Measure, NextRound
  <2> QED BY <1>1, <2>1 DEF DataOK
<1> QED BY <1>2, <1>3

LEMMA DispControl == ASSUME ControlOK, DispStep PROVE ControlOK'
<1> USE DEF ControlOK, Goto, Context, Task, ReadLabel, DispLabel, NetLabel,
            LogLabel, IsrLabel
<1>1. CASE DispStart BY <1>1 DEF DispStart
<1>2. CASE DispFirstFrame BY <1>2, FrameWrites DEF DispFirstFrame
<1>3. CASE DispCommand BY <1>3 DEF DispCommand
<1>4. CASE DispTimeout BY <1>4 DEF DispTimeout
<1>5. CASE DispBrightness BY <1>5 DEF DispBrightness
<1>6. CASE DispFlag BY <1>6 DEF DispFlag
<1>7. CASE DispReceive BY <1>7 DEF DispReceive, WifiStatusLogs
<1>8. CASE DispDraw BY <1>8, FrameWrites DEF DispDraw
<1> QED BY <1>1, <1>2, <1>3, <1>4, <1>5, <1>6, <1>7, <1>8 DEF DispStep

LEMMA DispType == ASSUME TypeOK, Disp PROVE TypeOK'
<1> USE DEF TypeOK, Disp, dispVars, netVars, DispUnchanged
<1>1. ControlOK'
  BY DispControl
<1>2. DataOK'
  <2> USE DEF DataOK
  <2>1. CASE DispReceive
    BY <2>1, ReceiveType, QueueLengths DEF DispReceive
  <2>2. CASE DispDraw BY <2>2 DEF DispDraw
  <2>3. CASE ~DispReceive /\ ~DispDraw
    BY <2>3 DEF DispStep, DispStart, DispFirstFrame, DispCommand, DispTimeout,
                DispBrightness, DispFlag
  <2> QED BY <2>1, <2>2, <2>3
<1>3. FlagsOK' /\ log_waiting' = log_waiting
  BY DEF FlagsOK, DispStep, DispStart, DispFirstFrame, DispCommand, DispTimeout,
         DispBrightness, DispFlag, DispReceive, DispDraw
<1> QED BY <1>1, <1>2, <1>3

LEMMA NetControl == ASSUME ControlOK, NetStep PROVE ControlOK'
<1> USE DEF ControlOK, Goto, Context, Task, ReadLabel, DispLabel, NetLabel,
            LogLabel, IsrLabel, TcpInitLogs
<1>1. CASE NetStart BY <1>1 DEF NetStart
<1>2. CASE NetClientInit BY <1>2 DEF NetClientInit
<1>3. CASE NetConnect BY <1>3 DEF NetConnect
<1>4. CASE NetArm BY <1>4 DEF NetArm
<1>5. CASE NetReceive BY <1>5 DEF NetReceive
<1>6. CASE NetBegin BY <1>6 DEF NetBegin
<1>7. CASE TryTcpSend BY <1>7 DEF TryTcpSend
<1>8. CASE NetEnd BY <1>8 DEF NetEnd
<1> QED BY <1>1, <1>2, <1>3, <1>4, <1>5, <1>6, <1>7, <1>8 DEF NetStep

(* The callbacks and what is left of them change the handler's control only. *)
LEMMA IsrControl == ASSUME ControlOK, Callback \/ IsrStep PROVE ControlOK'
<1> USE DEF ControlOK, Interrupt, Context, Task, ReadLabel, DispLabel, NetLabel,
            LogLabel, IsrLabel, TcpInitLogs
<1>1. CASE TcpLogCallback BY <1>1 DEF TcpLogCallback
<1>2. CASE TcpErrorCallback BY <1>2 DEF TcpErrorCallback
<1>3. CASE TcpRecvCommand BY <1>3 DEF TcpRecvCommand
<1>4. CASE NotifyDisplay BY <1>4 DEF NotifyDisplay
<1>5. CASE IsrReturn BY <1>5 DEF IsrReturn
<1> QED BY <1>1, <1>2, <1>3, <1>4, <1>5 DEF Callback, IsrStep

LEMMA LogControl == ASSUME ControlOK, LogStep PROVE ControlOK'
<1> USE DEF ControlOK, Goto, Context, Task, ReadLabel, DispLabel, NetLabel,
            LogLabel, IsrLabel
<1>1. CASE LogReceive BY <1>1 DEF LogReceive
<1>2. CASE LogBegin BY <1>2 DEF LogBegin
<1>3. CASE LogSend BY <1>3 DEF LogSend
<1> QED BY <1>1, <1>2, <1>3 DEF LogStep

----------------------------------------------------------------------------
(* The lwIP lock.                                                           *)

Holds(inside) == IF inside THEN 1 ELSE 0

NetInside == pc["net"] \in {"net_send", "net_end", "net_cooldown"}

LogInside == pc["log"] = "log_send"

(* The lock counts the tasks between its begin and its end, so that it is   *)
(* free only when none is; a callback that was let in leaves it free.       *)
LockInv ==
  /\ lwip_depth = Holds(NetInside) + Holds(LogInside)
  /\ pc["lwip"] # "idle" => lwip_depth = 0

IInv == TypeOK /\ LockInv

LEMMA NetType == ASSUME IInv, Net PROVE TypeOK'
<1> USE DEF IInv, TypeOK, Net, dispVars, netVars, NetUnchanged
<1>1. ControlOK'
  BY NetControl
<1>2. DataOK'
  <2> USE DEF DataOK
  <2>1. CASE NetReceive
    BY <2>1, ReceiveType, QueueLengths DEF NetReceive
  <2>2. CASE ~NetReceive
    BY <2>2 DEF NetStep, NetStart, NetClientInit, NetConnect, NetArm, NetBegin,
                TryTcpSend, NetEnd
  <2> QED BY <2>1, <2>2
<1>3. lwip_depth' \in Nat
  <2> USE DEF FlagsOK, ControlOK, LockInv, Holds, NetInside, LogInside
  <2>1. CASE NetBegin BY <2>1 DEF NetBegin, LwipBegin
  <2>2. CASE NetEnd BY <2>2 DEF NetEnd, LwipEnd, Goto
  <2>3. CASE ~NetBegin /\ ~NetEnd
    BY <2>3 DEF NetStep, NetStart, NetClientInit, NetConnect, NetArm, NetReceive, TryTcpSend
  <2> QED BY <2>1, <2>2, <2>3
<1>4. FlagsOK' /\ log_waiting' = log_waiting
  BY <1>3 DEF FlagsOK, NetStep, NetStart, NetClientInit, NetConnect, NetArm, NetReceive,
              NetBegin, TryTcpSend, NetEnd
<1> QED BY <1>1, <1>2, <1>4

LEMMA LogType == ASSUME IInv, Log PROVE TypeOK'
<1> USE DEF IInv, TypeOK, Log, dispVars, netVars, LogUnchanged
<1>1. ControlOK'
  BY LogControl
<1>2. lwip_depth' \in Nat
  <2> USE DEF FlagsOK, ControlOK, LockInv, Holds, NetInside, LogInside
  <2>1. CASE LogReceive BY <2>1 DEF LogReceive
  <2>2. CASE LogBegin BY <2>2 DEF LogBegin, LwipBegin
  <2>3. CASE LogSend BY <2>3 DEF LogSend, LwipEnd, Goto
  <2> QED BY <2>1, <2>2, <2>3 DEF LogStep
<1>3. log_waiting' \in 0..LOG_QUEUE_LENGTH
  BY QueueLengths DEF LogStep, LogReceive, LogBegin, LogSend
<1>4. DataOK' /\ FlagsOK'
  BY <1>2 DEF DataOK, FlagsOK, LogStep, LogReceive, LogBegin, LogSend
<1> QED BY <1>1, <1>3, <1>4

LEMMA IsrType == ASSUME TypeOK, Isr PROVE TypeOK'
<1> USE DEF TypeOK, Isr, dispVars, IsrUnchanged
<1>1. ControlOK'
  BY IsrControl
<1> QED
  BY <1>1 DEF DataOK, FlagsOK, IsrStep, NotifyDisplay, IsrReturn

LEMMA CallbackType == ASSUME TypeOK, TcpCallback PROVE TypeOK'
<1> USE DEF TypeOK, TcpCallback, dispVars, IsrUnchanged
<1>1. ControlOK'
  BY IsrControl
<1>2. delayed' \in Seq(Task) /\ halted' \in BOOLEAN
  <2>1. CASE TcpErrorCallback
    BY <2>1 DEF TcpErrorCallback, DelayInterrupted, FlagsOK
  <2>2. CASE ~TcpErrorCallback
    BY <2>2 DEF Callback, TcpLogCallback, TcpRecvCommand, FlagsOK
  <2> QED BY <2>1, <2>2
<1>3. isr_cmd' \in {0} \cup Command /\ UNCHANGED <<notified, last_cmd>>
  BY DEF FlagsOK, Callback, TcpLogCallback, TcpErrorCallback, TcpRecvCommand
<1>4. UNCHANGED <<log_waiting, display_queue, network_queue, lwip_depth, armed,
                  data, sent>>
  BY DEF Callback, TcpLogCallback, TcpErrorCallback, TcpRecvCommand
<1>5. DataOK' /\ log_waiting' \in 0..LOG_QUEUE_LENGTH
  BY <1>4 DEF DataOK
<1>6. FlagsOK'
  BY <1>2, <1>3, <1>4 DEF FlagsOK
<1> QED
  BY <1>1, <1>5, <1>6

LEMMA WriteLogType ==
  ASSUME TypeOK, NEW c \in Context, WriteLog(c)
  PROVE  TypeOK'
<1>1. ControlOK'
  BY DEF TypeOK, ControlOK, WriteLog, ULog
<1>2. log_waiting' \in 0..LOG_QUEUE_LENGTH
  BY QueueLengths DEF TypeOK, WriteLog, ULog, LogFull
<1> QED
  BY <1>1, <1>2 DEF TypeOK, DataOK, FlagsOK, WriteLog, ULog, dispVars, netVars

LEMMA WakeType == ASSUME TypeOK, Wake PROVE TypeOK'
  BY DEF TypeOK, ControlOK, DataOK, FlagsOK, Wake, DelayEnds, dispVars, netVars

LEMMA ResetType == ASSUME TypeOK, Reset PROVE TypeOK'
<1> USE DEF Reset, KernelRestart, DispRestart, NetRestart
<1>1. ControlOK'
  BY DEF ControlOK, EntryPoints, Context, Task, ReadLabel, DispLabel, NetLabel,
         LogLabel, IsrLabel
<1>2. DataOK'
  <2>1. <<>> \in Seq(Nat \ {0}) /\ Len(<<>>) = 0
    OBVIOUS
  <2> QED BY <2>1, QueueLengths DEF TypeOK, DataOK
<1>3. FlagsOK'
  <2>1. <<>> \in Seq(Task)
    OBVIOUS
  <2> QED BY <2>1 DEF FlagsOK
<1>4. log_waiting' \in 0..LOG_QUEUE_LENGTH
  BY BootBound
<1> QED BY <1>1, <1>2, <1>3, <1>4 DEF TypeOK

(* Every step keeps the lock in step with the tasks it counts.              *)
LEMMA LockStep == ASSUME IInv, [Next]_vars PROVE LockInv'
<1> USE DEF IInv, TypeOK, ControlOK, LockInv, Holds, NetInside, LogInside,
            Context, Task, netVars
<1>1. CASE Read
  <2>1. pc'["net"] = pc["net"] /\ pc'["log"] = pc["log"] /\ pc'["lwip"] = pc["lwip"]
    BY <1>1 DEF Read, ReadStep, ReadStart, ScdInit, ScdInitFails, ReadDelete,
                Poll, Measure, Publish, NextRound, Goto
  <2>2. lwip_depth' = lwip_depth
    BY <1>1 DEF Read, ReadStep, ReadStart, ScdInit, ScdInitFails, ReadDelete,
                Poll, Measure, Publish, NextRound, ReadUnchanged
  <2> QED BY <2>1, <2>2
<1>2. CASE Disp
  <2>1. pc'["net"] = pc["net"] /\ pc'["log"] = pc["log"] /\ pc'["lwip"] = pc["lwip"]
    BY <1>2 DEF Disp, DispStep, DispStart, DispFirstFrame, DispCommand,
                DispTimeout, DispBrightness, DispFlag, DispReceive, DispDraw, Goto
  <2>2. lwip_depth' = lwip_depth
    BY <1>2 DEF Disp, DispStep, DispStart, DispFirstFrame, DispCommand,
                DispTimeout, DispBrightness, DispFlag, DispReceive, DispDraw,
                DispUnchanged
  <2> QED BY <2>1, <2>2
<1>3. CASE Net
  <2> USE DEF Goto, HasCpu, NetUnchanged
  <2>1. CASE NetStart BY <2>1 DEF NetStart
  <2>2. CASE NetClientInit BY <2>2 DEF NetClientInit
  <2>3. CASE NetConnect BY <2>3 DEF NetConnect
  <2>4. CASE NetArm BY <2>4 DEF NetArm
  <2>5. CASE NetReceive BY <2>5 DEF NetReceive
  <2>6. CASE NetBegin BY <2>6 DEF NetBegin, LwipBegin
  <2>7. CASE TryTcpSend BY <2>7 DEF TryTcpSend
  <2>8. CASE NetEnd BY <2>8 DEF NetEnd, LwipEnd
  <2> QED BY <1>3, <2>1, <2>2, <2>3, <2>4, <2>5, <2>6, <2>7, <2>8 DEF Net, NetStep
<1>4. CASE Log
  <2> USE DEF Goto, HasCpu, LogUnchanged
  <2>1. CASE LogReceive BY <2>1 DEF LogReceive
  <2>2. CASE LogBegin BY <2>2 DEF LogBegin, LwipBegin
  <2>3. CASE LogSend BY <2>3 DEF LogSend, LwipEnd
  <2> QED BY <1>4, <2>1, <2>2, <2>3 DEF Log, LogStep
<1>5. CASE Isr
  <2> USE DEF IsrUnchanged
  <2>1. CASE NotifyDisplay BY <2>1 DEF NotifyDisplay
  <2>2. CASE IsrReturn BY <2>2 DEF IsrReturn
  <2> QED BY <1>5, <2>1, <2>2 DEF Isr, IsrStep
<1>6. CASE TcpCallback
  <2> USE DEF Interrupt, LwipMayRun, IsrUnchanged
  <2>1. CASE TcpLogCallback BY <2>1 DEF TcpLogCallback
  <2>2. CASE TcpErrorCallback BY <2>2 DEF TcpErrorCallback
  <2>3. CASE TcpRecvCommand BY <2>3 DEF TcpRecvCommand
  <2> QED BY <1>6, <2>1, <2>2, <2>3 DEF TcpCallback, Callback
<1>7. CASE Reset
  BY <1>7 DEF Reset, KernelRestart, EntryPoints
<1>8. CASE Wake \/ \E c \in Context : WriteLog(c)
  BY <1>8 DEF Wake, DelayEnds, WriteLog, ULog
<1>9. CASE UNCHANGED vars
  BY <1>9 DEF vars, kernelVars
<1> QED
  BY <1>1, <1>2, <1>3, <1>4, <1>5, <1>6, <1>7, <1>8, <1>9 DEF Next

LEMMA InitIInv == ASSUME Init PROVE IInv
<1> USE DEF Init, KernelInit, DispInit, NetInit
<1>1. ControlOK /\ LockInv
  BY DEF ControlOK, LockInv, EntryPoints, Context, Task, ReadLabel, DispLabel,
         NetLabel, LogLabel, IsrLabel, Holds, NetInside, LogInside
<1>2. DataOK
  <2>1. <<>> \in Seq(Nat \ {0}) /\ Len(<<>>) = 0
    OBVIOUS
  <2> QED BY <2>1, QueueLengths DEF DataOK
<1>3. FlagsOK
  <2>1. <<>> \in Seq(Task)
    OBVIOUS
  <2> QED BY <2>1 DEF FlagsOK
<1> QED BY <1>1, <1>2, <1>3, BootBound DEF IInv, TypeOK

LEMMA NextIInv == ASSUME IInv, [Next]_vars PROVE IInv'
<1>1. TypeOK'
  <2>1. CASE Read BY <2>1, ReadType DEF IInv
  <2>2. CASE Disp BY <2>2, DispType DEF IInv
  <2>3. CASE Net BY <2>3, NetType
  <2>4. CASE Log BY <2>4, LogType
  <2>5. CASE Isr BY <2>5, IsrType DEF IInv
  <2>6. CASE TcpCallback BY <2>6, CallbackType DEF IInv
  <2>7. CASE Reset BY <2>7, ResetType DEF IInv
  <2>8. CASE Wake BY <2>8, WakeType DEF IInv
  <2>9. CASE \E c \in Context : WriteLog(c) BY <2>9, WriteLogType DEF IInv
  <2>10. CASE UNCHANGED vars
    BY <2>10 DEF IInv, TypeOK, ControlOK, DataOK, FlagsOK, vars, kernelVars,
                 dispVars, netVars
  <2> QED
    BY <2>1, <2>2, <2>3, <2>4, <2>5, <2>6, <2>7, <2>8, <2>9, <2>10 DEF Next
<1> QED BY <1>1, LockStep DEF IInv

(* Every variable keeps its type and no queue overflows.                    *)
THEOREM TypeCorrect == Spec => []TypeOK
<1>1. Init => IInv
  BY InitIInv
<1>2. IInv /\ [Next]_vars => IInv'
  BY NextIInv
<1>3. IInv => TypeOK
  BY DEF IInv
<1> QED BY <1>1, <1>2, <1>3, PTL DEF Spec

----------------------------------------------------------------------------
(* Commands.                                                                *)

(* A pending notification is the last command, and once the display task    *)
(* took the last command it is on its way to the flag; before the task has  *)
(* set the flag for the first time, no command was taken.                   *)
CommandInv ==
  /\ notified # 0 => notified = last_cmd
  /\ pc["lwip"] = "isr_notify" => isr_cmd \in Command
  /\ (pc["disp"] \in {"disp_start", "disp_init"} /\ notified = 0) => last_cmd = 0
  /\ pc["disp"] \in {"disp_bright", "disp_flag"}
       => cmd \in Command /\ (notified = 0 => cmd = last_cmd)
  /\ LastCommandWins

LEMMA CommandStep == ASSUME IInv, CommandInv, [Next]_vars PROVE CommandInv'
<1> USE DEF IInv, TypeOK, ControlOK, CommandInv, LastCommandWins, Context, Task,
            Command, CMD_DISPLAY_OFF, CMD_DISPLAY_ON
<1>1. CASE Read
  <2>1. pc'["disp"] = pc["disp"] /\ pc'["lwip"] = pc["lwip"]
    BY <1>1 DEF Read, ReadStep, ReadStart, ScdInit, ScdInitFails, ReadDelete,
                Poll, Measure, Publish, NextRound, Goto
  <2>2. UNCHANGED <<notified, cmd, display_on, isr_cmd, last_cmd>>
    BY <1>1 DEF Read, ReadStep, ReadStart, ScdInit, ScdInitFails, ReadDelete,
                Poll, Measure, Publish, NextRound, ReadUnchanged, dispVars, netVars
  <2> QED BY <2>1, <2>2
<1>2. CASE Disp
  <2> USE DEF Goto, HasCpu, DispUnchanged, dispVars
  <2>0. UNCHANGED <<isr_cmd, last_cmd>>
    BY <1>2 DEF Disp, netVars
  <2>1. CASE DispStart BY <2>0, <2>1 DEF DispStart
  <2>2. CASE DispFirstFrame
    <3>1. pc["disp"] = "disp_init" /\ pc'["disp"] = "disp_wait"
          /\ pc'["lwip"] = "idle"
      BY <2>2 DEF DispFirstFrame
    <3>2. notified' = notified /\ display_on' = TRUE
      BY <2>2 DEF DispFirstFrame
    <3>3. notified = 0 => last_cmd # CMD_DISPLAY_OFF
      BY <3>1
    <3> QED BY <2>0, <3>1, <3>2, <3>3
  <2>3. CASE DispCommand
    <3>1. notified \in Command /\ notified = last_cmd
      BY <2>3 DEF DispCommand, FlagsOK
    <3>2. pc'["disp"] = "disp_bright" /\ pc'["lwip"] = "idle"
      BY <2>3 DEF DispCommand
    <3> QED BY <2>0, <2>3, <3>1, <3>2 DEF DispCommand
  <2>4. CASE DispTimeout BY <2>0, <2>4 DEF DispTimeout
  <2>5. CASE DispBrightness BY <2>0, <2>5 DEF DispBrightness
  <2>6. CASE DispFlag BY <2>0, <2>6 DEF DispFlag
  <2>7. CASE DispReceive BY <2>0, <2>7 DEF DispReceive
  <2>8. CASE DispDraw BY <2>0, <2>8 DEF DispDraw
  <2> QED
    BY <1>2, <2>1, <2>2, <2>3, <2>4, <2>5, <2>6, <2>7, <2>8 DEF Disp, DispStep
<1>3. CASE Net
  <2>1. pc'["disp"] = pc["disp"] /\ pc'["lwip"] = pc["lwip"]
    BY <1>3 DEF Net, NetStep, NetStart, NetClientInit, NetConnect, NetArm, NetReceive,
                NetBegin, TryTcpSend, NetEnd, Goto
  <2>2. UNCHANGED <<notified, cmd, display_on, isr_cmd, last_cmd>>
    BY <1>3 DEF Net, NetStep, NetStart, NetClientInit, NetConnect, NetArm, NetReceive,
                NetBegin, TryTcpSend, NetEnd, NetUnchanged, dispVars, netVars
  <2> QED BY <2>1, <2>2
<1>4. CASE Log
  <2>1. pc'["disp"] = pc["disp"] /\ pc'["lwip"] = pc["lwip"]
    BY <1>4 DEF Log, LogStep, LogReceive, LogBegin, LogSend, Goto
  <2>2. UNCHANGED <<notified, cmd, display_on, isr_cmd, last_cmd>>
    BY <1>4 DEF Log, LogStep, LogReceive, LogBegin, LogSend, LogUnchanged,
                dispVars, netVars
  <2> QED BY <2>1, <2>2
<1>5. CASE Isr
  <2>0. UNCHANGED <<cmd, display_on>>
    BY <1>5 DEF Isr, dispVars
  <2>1. CASE NotifyDisplay BY <2>0, <2>1 DEF NotifyDisplay
  <2>2. CASE IsrReturn BY <2>0, <2>2 DEF IsrReturn
  <2> QED BY <1>5, <2>1, <2>2 DEF Isr, IsrStep
<1>6. CASE TcpCallback
  <2> USE DEF Interrupt
  <2>0. UNCHANGED <<cmd, display_on>>
    BY <1>6 DEF TcpCallback, dispVars
  <2>1. CASE TcpLogCallback BY <2>0, <2>1 DEF TcpLogCallback
  <2>2. CASE TcpErrorCallback BY <2>0, <2>2 DEF TcpErrorCallback
  <2>3. CASE TcpRecvCommand BY <2>0, <2>3 DEF TcpRecvCommand
  <2> QED BY <1>6, <2>1, <2>2, <2>3 DEF TcpCallback, Callback
<1>7. CASE Reset
  BY <1>7 DEF Reset, KernelRestart, DispRestart, NetRestart, EntryPoints
<1>8. CASE Wake
  BY <1>8 DEF Wake, DelayEnds, dispVars, netVars
<1>9. CASE \E c \in Context : WriteLog(c)
  BY <1>9 DEF WriteLog, ULog, dispVars, netVars
<1>10. CASE UNCHANGED vars
  BY <1>10 DEF vars, kernelVars, dispVars, netVars
<1> QED
  BY <1>1, <1>2, <1>3, <1>4, <1>5, <1>6, <1>7, <1>8, <1>9, <1>10 DEF Next

(* Whenever no command is pending or under way, the display is as the last  *)
(* one said, whatever was overwritten before it.                            *)
THEOREM LastCommandWinsHolds == Spec => []LastCommandWins
<1>1. Init => IInv /\ CommandInv
  <2>1. Init => CommandInv
    BY DEF Init, KernelInit, NetInit, EntryPoints, CommandInv, LastCommandWins
  <2> QED BY <2>1, InitIInv
<1>2. IInv /\ CommandInv /\ [Next]_vars => IInv' /\ CommandInv'
  BY NextIInv, CommandStep
<1>3. CommandInv => LastCommandWins
  BY DEF CommandInv
<1> QED BY <1>1, <1>2, <1>3, PTL DEF Spec

----------------------------------------------------------------------------
(* The log task never blocks on its own queue.                              *)

(* udp_log_task does not call u_log, and is gone only when the kernel is.   *)
LogInv == owe["log"] = 0 /\ (pc["log"] = "deleted" => halted)

LEMMA LogInvStep == ASSUME IInv, LogInv, [Next]_vars PROVE LogInv'
<1> USE DEF IInv, TypeOK, ControlOK, LogInv, Context, Task
<1>1. CASE Read
  BY <1>1 DEF Read, ReadStep, ReadStart, ScdInit, ScdInitFails, ReadDelete, Poll,
              Measure, Publish, NextRound, Goto, ReadUnchanged
<1>2. CASE Disp
  BY <1>2 DEF Disp, DispStep, DispStart, DispFirstFrame, DispCommand, DispTimeout,
              DispBrightness, DispFlag, DispReceive, DispDraw, Goto, DispUnchanged
<1>3. CASE Net
  BY <1>3 DEF Net, NetStep, NetStart, NetClientInit, NetConnect, NetArm, NetReceive, NetBegin,
              TryTcpSend, NetEnd, Goto, NetUnchanged
<1>4. CASE Log
  BY <1>4 DEF Log, LogStep, LogReceive, LogBegin, LogSend, Goto
<1>5. CASE Isr
  BY <1>5 DEF Isr, IsrStep, NotifyDisplay, IsrReturn
<1>6. CASE TcpCallback
  <2> USE DEF Interrupt
  <2>1. CASE TcpLogCallback BY <2>1 DEF TcpLogCallback
  <2>2. CASE TcpErrorCallback
    BY <2>2 DEF TcpErrorCallback, LwipMayRun, DelayInterrupted
  <2>3. CASE TcpRecvCommand BY <2>3 DEF TcpRecvCommand
  <2> QED BY <1>6, <2>1, <2>2, <2>3 DEF TcpCallback, Callback
<1>7. CASE Reset
  BY <1>7 DEF Reset, KernelRestart, EntryPoints
<1>8. CASE Wake
  BY <1>8 DEF Wake, DelayEnds
<1>9. CASE \E c \in Context : WriteLog(c)
  BY <1>9 DEF WriteLog, ULog
<1>10. CASE UNCHANGED vars
  BY <1>10 DEF vars, kernelVars
<1> QED
  BY <1>1, <1>2, <1>3, <1>4, <1>5, <1>6, <1>7, <1>8, <1>9, <1>10 DEF Next

(* A full log queue never stops every task: the log task could run, and the *)
(* tasks above it that are not blocked have the core before it.             *)
THEOREM SomeTaskRunsHolds == Spec => []SomeTaskRuns
<1>1. Init => IInv /\ LogInv
  <2>1. Init => LogInv
    BY DEF Init, KernelInit, EntryPoints, Context, Task, LogInv
  <2> QED BY <2>1, InitIInv
<1>2. IInv /\ LogInv /\ [Next]_vars => IInv' /\ LogInv'
  BY NextIInv, LogInvStep
<1>3. IInv /\ LogInv => SomeTaskRuns
  <2> SUFFICES ASSUME IInv, LogInv, LogFull, ~halted, pc["lwip"] = "idle",
                      delayed = <<>>
               PROVE  \E t \in Task : HasCpu(t) /\ ~Blocked(t)
    BY DEF SomeTaskRuns
  <2>1. \A t \in Task : ~Delayed(t)
    BY DEF Delayed
  <2>2. ~Blocked("log")
    <3>1. log_waiting # 0
      BY QueueLengths DEF LogFull, IInv, TypeOK
    <3>2. pc["log"] \in LogLabel \ {"deleted"}
      BY DEF IInv, TypeOK, ControlOK, LogInv
    <3> QED BY <2>1, <3>1, <3>2 DEF Blocked, Waiting, LogInv, LogLabel, Sleeping, Task
  <2>3. CASE ~Blocked("read")
    BY <2>1, <2>3 DEF HasCpu, Task, Priority
  <2>4. CASE Blocked("read") /\ ~Blocked("disp")
    BY <2>1, <2>4 DEF HasCpu, Task, Priority
  <2>5. CASE Blocked("read") /\ ~Blocked("net")
    BY <2>1, <2>5 DEF HasCpu, Task, Priority
  <2>6. CASE Blocked("read") /\ Blocked("disp") /\ Blocked("net")
    BY <2>1, <2>2, <2>6 DEF HasCpu, Task, Priority
  <2> QED BY <2>3, <2>4, <2>5, <2>6
<1> QED BY <1>1, <1>2, <1>3, PTL DEF Spec

----------------------------------------------------------------------------
(* Callbacks: what they find, and what they stop.                           *)

(* A task that a callback put to sleep is not inside the lwIP lock.         *)
DelayInv == \A t \in Task : Delayed(t) => ~WithLock(t)

LEMMA DelayStep == ASSUME IInv, DelayInv, [Next]_vars PROVE DelayInv'
<1>1. /\ pc \in [Context -> ReadLabel \cup DispLabel \cup NetLabel \cup LogLabel
                                 \cup IsrLabel]
      /\ delayed \in Seq(Task)
  BY DEF IInv, TypeOK, ControlOK, FlagsOK
<1>2. ASSUME pc'["net"] = pc["net"] \/ ~Delayed("net"),
             pc'["log"] = pc["log"] \/ ~Delayed("log"),
             delayed' = delayed
      PROVE  DelayInv'
  BY <1>2 DEF DelayInv, Delayed, WithLock, Task
<1>3. CASE Read
  <2>1. delayed' = delayed
    BY <1>3 DEF Read, ReadStep, ReadStart, ScdInit, ScdInitFails, ReadDelete,
                Poll, Measure, Publish, NextRound, ReadUnchanged
  <2>2. pc'["net"] = pc["net"] /\ pc'["log"] = pc["log"]
    BY <1>1, <1>3 DEF Read, ReadStep, ReadStart, ScdInit, ScdInitFails, ReadDelete,
                Poll, Measure, Publish, NextRound, Goto, Context, Task
  <2> QED BY <1>2, <2>1, <2>2
<1>4. CASE Disp
  <2>1. delayed' = delayed
    BY <1>4 DEF Disp, DispStep, DispStart, DispFirstFrame, DispCommand, DispTimeout,
                DispBrightness, DispFlag, DispReceive, DispDraw, DispUnchanged
  <2>2. pc'["net"] = pc["net"] /\ pc'["log"] = pc["log"]
    BY <1>1, <1>4 DEF Disp, DispStep, DispStart, DispFirstFrame, DispCommand,
                DispTimeout, DispBrightness, DispFlag, DispReceive, DispDraw, Goto,
                Context, Task
  <2> QED BY <1>2, <2>1, <2>2
<1>5. CASE Net
  <2>1. delayed' = delayed
    BY <1>5 DEF Net, NetStep, NetStart, NetClientInit, NetConnect, NetArm, NetReceive,
                NetBegin, TryTcpSend, NetEnd, NetUnchanged
  <2>2. ~Delayed("net") /\ pc'["log"] = pc["log"]
    BY <1>1, <1>5 DEF Net, NetStep, NetStart, NetClientInit, NetConnect, NetArm,
                NetReceive, NetBegin, TryTcpSend, NetEnd, Goto, HasCpu, Context, Task
  <2> QED BY <1>2, <2>1, <2>2
<1>6. CASE Log
  <2>1. delayed' = delayed
    BY <1>6 DEF Log, LogStep, LogReceive, LogBegin, LogSend, LogUnchanged
  <2>2. ~Delayed("log") /\ pc'["net"] = pc["net"]
    BY <1>1, <1>6 DEF Log, LogStep, LogReceive, LogBegin, LogSend, Goto, HasCpu,
                Context, Task
  <2> QED BY <1>2, <2>1, <2>2
<1>7. CASE Isr
  <2>1. pc'["net"] = pc["net"] /\ pc'["log"] = pc["log"] /\ delayed' = delayed
    BY <1>1, <1>7 DEF Isr, IsrStep, NotifyDisplay, IsrReturn, Context, Task
  <2> QED BY <1>2, <2>1
<1>8. CASE TcpCallback
  <2>1. lwip_depth = 0 /\ pc'["net"] = pc["net"] /\ pc'["log"] = pc["log"]
    BY <1>1, <1>8 DEF TcpCallback, Callback, TcpLogCallback, TcpErrorCallback,
                TcpRecvCommand, Interrupt, LwipMayRun, Context, Task
  <2>2. ~NetInside /\ ~LogInside
    BY <2>1 DEF IInv, LockInv, Holds
  <2> QED BY <2>1, <2>2 DEF DelayInv, WithLock, NetInside, LogInside
<1>9. CASE Wake
  <2>1. pc' = pc /\ delayed # <<>> /\ delayed' = Tail(delayed)
    BY <1>9 DEF Wake, DelayEnds
  <2>2. ASSUME NEW i \in DOMAIN delayed'
        PROVE  i + 1 \in DOMAIN delayed /\ delayed'[i] = delayed[i + 1]
    BY <1>1, <2>1, <2>2
  <2>3. \A t \in Task : Delayed(t)' => Delayed(t)
    BY <2>2 DEF Delayed
  <2> QED BY <2>1, <2>3 DEF DelayInv, WithLock
<1>10. CASE Reset
  <2>1. pc' = EntryPoints
    BY <1>10 DEF Reset, KernelRestart
  <2> QED BY <2>1 DEF EntryPoints, DelayInv, WithLock
<1>11. CASE \E c \in Context : WriteLog(c)
  BY <1>2, <1>11 DEF WriteLog, ULog
<1>12. CASE UNCHANGED vars
  BY <1>2, <1>12 DEF vars, kernelVars
<1> QED
  BY <1>3, <1>4, <1>5, <1>6, <1>7, <1>8, <1>9, <1>10, <1>11, <1>12 DEF Next

(* Where the network task is while a callback is active and until it arms   *)
(* the watchdog, and what alone can halt the kernel before any callback.    *)
StartInv ==
  /\ pc["lwip"] # "idle" => pc["net"] \notin {"net_start", "net_init"}
  /\ ~armed => pc["net"] \in {"net_start", "net_init", "net_connect", "net_arm"}
  /\ armed => pc["net"] \notin {"net_start", "net_init", "net_connect", "net_arm"}
  /\ (halted /\ pc["net"] \in {"net_start", "net_init"}) => pc["log"] = "deleted"

LEMMA StartStep == ASSUME IInv, StartInv, [Next]_vars PROVE StartInv'
<1>1. /\ pc \in [Context -> ReadLabel \cup DispLabel \cup NetLabel \cup LogLabel
                                 \cup IsrLabel]
      /\ armed \in BOOLEAN /\ halted \in BOOLEAN
  BY DEF IInv, TypeOK, ControlOK, FlagsOK
<1> USE DEF StartInv
<1>2. CASE Read
  <2>1. halted' = halted /\ armed' = armed
    BY <1>2 DEF Read, ReadStep, ReadStart, ScdInit, ScdInitFails, ReadDelete,
                Poll, Measure, Publish, NextRound, ReadUnchanged, netVars
  <2>2. pc'["net"] = pc["net"] /\ pc'["log"] = pc["log"] /\ pc'["lwip"] = pc["lwip"]
    BY <1>1, <1>2 DEF Read, ReadStep, ReadStart, ScdInit, ScdInitFails, ReadDelete,
                Poll, Measure, Publish, NextRound, Goto, Context, Task
  <2> QED BY <2>1, <2>2
<1>3. CASE Disp
  <2>1. halted' = halted /\ armed' = armed
    BY <1>3 DEF Disp, DispStep, DispStart, DispFirstFrame, DispCommand, DispTimeout,
                DispBrightness, DispFlag, DispReceive, DispDraw, DispUnchanged, netVars
  <2>2. pc'["net"] = pc["net"] /\ pc'["log"] = pc["log"] /\ pc'["lwip"] = pc["lwip"]
    BY <1>1, <1>3 DEF Disp, DispStep, DispStart, DispFirstFrame, DispCommand,
                DispTimeout, DispBrightness, DispFlag, DispReceive, DispDraw, Goto,
                Context, Task
  <2> QED BY <2>1, <2>2
<1>4. CASE Net
  <2> USE <1>1 DEF Goto, HasCpu, NetUnchanged, Context, Task
  <2>1. CASE NetStart BY <2>1 DEF NetStart, netVars
  <2>2. CASE NetClientInit BY <2>2 DEF NetClientInit, netVars
  <2>3. CASE NetConnect BY <2>3 DEF NetConnect, netVars
  <2>4. CASE NetArm BY <2>4 DEF NetArm
  <2>5. CASE NetReceive BY <2>5 DEF NetReceive
  <2>6. CASE NetBegin BY <2>6 DEF NetBegin, netVars
  <2>7. CASE TryTcpSend BY <2>7 DEF TryTcpSend
  <2>8. CASE NetEnd BY <2>8 DEF NetEnd, netVars
  <2> QED BY <1>4, <2>1, <2>2, <2>3, <2>4, <2>5, <2>6, <2>7, <2>8 DEF Net, NetStep
<1>5. CASE Log
  <2>1. armed' = armed
    BY <1>5 DEF Log, netVars
  <2>2. pc'["net"] = pc["net"] /\ pc'["lwip"] = pc["lwip"]
    BY <1>1, <1>5 DEF Log, LogStep, LogReceive, LogBegin, LogSend, Goto, Context, Task
  <2>3. ~halted /\ (halted' => pc'["log"] = "deleted")
    BY <1>1, <1>5 DEF Log, LogStep, LogReceive, LogBegin, LogSend, Goto, HasCpu,
                Context, Task
  <2> QED BY <2>1, <2>2, <2>3
<1>6. CASE Isr
  <2> USE <1>1 DEF IsrUnchanged, Context, Task
  <2>1. CASE NotifyDisplay BY <2>1 DEF NotifyDisplay
  <2>2. CASE IsrReturn BY <2>2 DEF IsrReturn
  <2> QED BY <1>6, <2>1, <2>2 DEF Isr, IsrStep
<1>7. CASE TcpCallback
  <2>1. armed' = armed /\ pc'["net"] = pc["net"]
    BY <1>1, <1>7 DEF TcpCallback, Callback, TcpLogCallback, TcpErrorCallback,
                TcpRecvCommand, Interrupt, IsrUnchanged, Context, Task
  <2>2. pc["net"] \notin {"net_start", "net_init"}
    BY <1>7 DEF TcpCallback, Callback, TcpLogCallback, TcpErrorCallback,
                TcpRecvCommand, Interrupt, LwipMayRun
  <2> QED BY <2>1, <2>2
<1>8. CASE Reset
  BY <1>8 DEF Reset, KernelRestart, NetRestart, EntryPoints
<1>9. CASE Wake \/ \E c \in Context : WriteLog(c)
  BY <1>9 DEF Wake, DelayEnds, WriteLog, ULog, netVars
<1>10. CASE UNCHANGED vars
  BY <1>10 DEF vars, kernelVars, netVars
<1> QED
  BY <1>2, <1>3, <1>4, <1>5, <1>6, <1>7, <1>8, <1>9, <1>10 DEF Next

LEMMA InitCallbackInv == ASSUME Init PROVE DelayInv /\ StartInv
  BY DEF Init, KernelInit, NetInit, EntryPoints, DelayInv, WithLock, StartInv

(* No callback runs or sleeps on top of a task that took the lwIP lock,     *)
(* although two tasks may be inside it at once; of the calls to lwIP made   *)
(* without the lock only the first tcp_connect can be interrupted.          *)
THEOREM LwipExclusionHolds == Spec => []LwipExclusion
<1>1. Init => IInv /\ DelayInv /\ StartInv
  BY InitIInv, InitCallbackInv
<1>2. IInv /\ DelayInv /\ StartInv /\ [Next]_vars => IInv' /\ DelayInv' /\ StartInv'
  BY NextIInv, DelayStep, StartStep
<1>3. IInv /\ DelayInv /\ StartInv => LwipExclusion
  <2> SUFFICES ASSUME IInv, DelayInv, StartInv
               PROVE  LwipExclusion
    OBVIOUS
  <2>1. pc["lwip"] # "idle" => \A t \in Task : ~WithLock(t)
    BY DEF IInv, LockInv, Holds, NetInside, LogInside, WithLock
  <2>2. ASSUME pc["lwip"] # "idle", NEW t \in Task, WithoutLock(t)
        PROVE  pc[t] = "net_connect" /\ ~armed
    BY <2>2 DEF StartInv, WithoutLock
  <2> QED
    BY <2>1, <2>2 DEF LwipExclusion, DelayInv
<1> QED BY <1>1, <1>2, <1>3, PTL DEF Spec

(* A firmware that stopped, for good in a broken kernel or in a handler     *)
(* that waits for a slot, has its watchdog armed, unless it stopped before  *)
(* network_task reached watchdog_enable.                                    *)
THEOREM StopsAreGuardedHolds == Spec => []StopsAreGuarded
<1>1. Init => IInv /\ StartInv
  BY InitIInv, InitCallbackInv
<1>2. IInv /\ StartInv /\ [Next]_vars => IInv' /\ StartInv'
  BY NextIInv, StartStep
<1>3. StartInv => StopsAreGuarded
  BY DEF StartInv, StopsAreGuarded, Stopped, Frozen
<1> QED BY <1>1, <1>2, <1>3, PTL DEF Spec

----------------------------------------------------------------------------
(* The rounds of the reading task.                                          *)

(* Whatever the other tasks, the callbacks and the resets do, the reading   *)
(* task takes samples in the rounds of Reading: the second view of it,      *)
(* beside Scd40 (read_data_task.c:26-76).                                   *)
THEOREM ReadingInRounds == Spec => InRounds
<1>1. Init => Rounds!Init
  BY DEF Init, KernelInit, EntryPoints, Rounds!Init
<1>2. TypeOK /\ [Next]_vars => [Rounds!Next]_(Rounds!vars)
  <2> SUFFICES ASSUME TypeOK, [Next]_vars
               PROVE  [Rounds!Next]_(Rounds!vars)
    OBVIOUS
  <2> USE DEF Rounds!Next, Rounds!vars, Rounds!From
  <2>1. pc \in [Context -> ReadLabel \cup DispLabel \cup NetLabel \cup LogLabel \cup IsrLabel]
    BY DEF TypeOK, ControlOK
  <2>2. CASE Read
    <3> USE DEF Read, ReadStep, Goto
    <3>1. "read" \in Context /\ pc'["read"] \in {"read_init", "read_delete", "deleted",
            "read_poll", "read_delay", "read_measure", "read_publish"}
      BY <2>1, <2>2 DEF Context, Task, ReadStart, ScdInit, ScdInitFails, ReadDelete,
         Poll, Measure, Publish, NextRound
    <3>2. CASE ReadStart
      BY <2>1, <3>1, <3>2 DEF ReadStart
    <3>3. CASE ScdInit
      BY <2>1, <3>1, <3>3 DEF ScdInit, Rounds!Ready
    <3>4. CASE ScdInitFails
      BY <2>1, <3>1, <3>4 DEF ScdInitFails, Rounds!GiveUp
    <3>5. CASE ReadDelete
      BY <2>1, <3>1, <3>5 DEF ReadDelete
    <3>6. CASE Poll
      BY <2>1, <3>1, <3>6 DEF Poll, Rounds!Found
    <3>7. CASE Measure
      BY <2>1, <3>1, <3>7 DEF Measure, Rounds!Skip
    <3>8. CASE Publish
      BY <2>1, <3>1, <3>8 DEF Publish, Rounds!Take
    <3>9. CASE NextRound
      BY <2>1, <3>1, <3>9 DEF NextRound
    <3> QED
      BY <2>2, <3>2, <3>3, <3>4, <3>5, <3>6, <3>7, <3>8, <3>9
  <2>3. CASE Reset
    <3>1. pc'["read"] = "read_start" /\ taken' = taken
      BY <2>3 DEF Reset, KernelRestart, EntryPoints
    <3> QED
      BY <3>1 DEF Rounds!Restart
  <2>4. CASE ~Read /\ ~Reset
    <3>1. pc'["read"] = pc["read"] /\ taken' = taken
      <4>1. taken' = taken
        BY <2>4 DEF Next, vars, Disp, Net, Log, Isr, TcpCallback, WriteLog, Wake
      <4>8. "read" \in Context
        BY DEF Context, Task
      <4>2. CASE Disp
        BY <2>1, <4>1, <4>8, <4>2 DEF Disp, DispStep, DispStart, DispFirstFrame, DispCommand,
           DispTimeout, DispBrightness, DispFlag, DispReceive, DispDraw, Goto
      <4>3. CASE Net
        BY <2>1, <4>1, <4>8, <4>3 DEF Net, NetStep, NetStart, NetClientInit, NetConnect, NetArm, NetReceive,
           NetBegin, TryTcpSend, NetEnd, Goto
      <4>4. CASE Log
        BY <2>1, <4>1, <4>8, <4>4 DEF Log, LogStep, LogReceive, LogBegin, LogSend, Goto
      <4>5. CASE Isr
        BY <2>1, <4>1, <4>8, <4>5 DEF Isr, IsrStep, NotifyDisplay, IsrReturn
      <4>6. CASE TcpCallback
        BY <2>1, <4>1, <4>8, <4>6 DEF TcpCallback, Callback, TcpLogCallback, TcpErrorCallback,
           TcpRecvCommand, Interrupt
      <4>7. CASE Wake \/ (\E c \in Context : WriteLog(c)) \/ UNCHANGED vars
        BY <4>1, <4>7 DEF Wake, DelayEnds, WriteLog, ULog, vars, kernelVars
      <4> QED
        BY <2>4, <4>1, <4>2, <4>3, <4>4, <4>5, <4>6, <4>7 DEF Next
    <3> QED
      BY <3>1
  <2> QED
    BY <2>2, <2>3, <2>4
<1> QED
  BY <1>1, <1>2, TypeCorrect, PTL DEF Spec, InRounds, Rounds!Spec
=============================================================================
