------------------------------ MODULE Firmware ------------------------------
(***************************************************************************)
(* The running firmware of app/main.c: the four tasks, the lwIP callbacks  *)
(* and the watchdog, interleaved as one core schedules them.  A watchdog   *)
(* reset may come whenever the watchdog is armed, for its time is counted  *)
(* in Watchdog only; it clears RAM and starts main() over.                 *)
(***************************************************************************)
EXTENDS UdpLogTask, ReadDataTask, UpdateDisplayTask, NetworkTask, FiniteSets

CONSTANTS
  BootMessages,  (* log_waiting values main() may start the scheduler with  *)
  MaxResets      (* bound: watchdog resets in one behaviour                 *)

ASSUME BootBound == BootMessages \subseteq 0..LOG_QUEUE_LENGTH

ASSUME ResetBound == MaxResets \in Nat

VARIABLE resets  (* watchdog resets so far                                  *)

vars == <<kernelVars, taken, dispVars, netVars, resets>>

Init ==
  /\ KernelInit(BootMessages)
  /\ DispInit
  /\ NetInit
  /\ taken = 0
  /\ shown = 0
  /\ sent = 0
  /\ resets = 0

----------------------------------------------------------------------------
Read == ReadStep /\ UNCHANGED <<dispVars, netVars, resets>>

Disp == DispStep /\ UNCHANGED <<taken, netVars, resets>>

Net == NetStep /\ UNCHANGED <<taken, dispVars, resets>>

Log == LogStep /\ UNCHANGED <<taken, dispVars, netVars, resets>>

Isr == IsrStep /\ UNCHANGED <<taken, dispVars, resets>>

TcpCallback == Callback /\ UNCHANGED <<taken, dispVars, resets>>

WriteLog(c) == ULog(c) /\ UNCHANGED <<taken, dispVars, netVars, resets>>

Wake == DelayEnds /\ UNCHANGED <<taken, dispVars, netVars, resets>>

(* What was taken from the sensor, shown and sent happened outside RAM.     *)
Reset ==
  /\ armed
  /\ resets < MaxResets
  /\ resets' = resets + 1
  /\ KernelRestart(BootMessages)
  /\ DispRestart
  /\ NetRestart
  /\ UNCHANGED <<taken, shown, sent>>

Next ==
  \/ Read \/ Disp \/ Net \/ Log \/ Isr \/ TcpCallback \/ Wake \/ Reset
  \/ \E c \in Context : WriteLog(c)

Spec == Init /\ [][Next]_vars

----------------------------------------------------------------------------
(* The parts of the type invariant.                                         *)

ReadLabel == {"read_start", "read_init", "read_poll", "read_measure",
              "read_publish", "read_delay", "read_delete", "deleted"}

DispLabel == {"disp_start", "disp_init", "disp_wait", "disp_bright",
              "disp_flag", "disp_recv", "disp_draw"}

NetLabel == {"net_start", "net_init", "net_connect", "net_arm", "net_recv",
             "net_begin", "net_send", "net_end", "net_cooldown"}

LogLabel == {"log_recv", "log_begin", "log_send", "deleted"}

IsrLabel == {"idle", "isr_return", "isr_notify"}

ControlOK ==
  /\ pc \in [Context -> ReadLabel \cup DispLabel \cup NetLabel
                         \cup LogLabel \cup IsrLabel]
  /\ pc["read"] \in ReadLabel
  /\ pc["disp"] \in DispLabel
  /\ pc["net"] \in NetLabel
  /\ pc["log"] \in LogLabel
  /\ pc["lwip"] \in IsrLabel
  /\ owe \in [Context -> Nat]

DataOK ==
  /\ display_queue \in Seq(Nat \ {0}) /\ Len(display_queue) <= DISPLAY_QUEUE_LENGTH
  /\ network_queue \in Seq(Nat \ {0}) /\ Len(network_queue) <= NETWORK_QUEUE_LENGTH
  /\ taken \in Nat /\ drawing \in Nat /\ shown \in Nat
  /\ data \in Nat /\ sent \in Nat /\ resets \in Nat

FlagsOK ==
  /\ notified \in {0} \cup Command
  /\ cmd \in {0} \cup Command
  /\ isr_cmd \in {0} \cup Command
  /\ last_cmd \in {0} \cup Command
  /\ lwip_depth \in Nat
  /\ delayed \in Seq(Task)
  /\ display_on \in BOOLEAN /\ armed \in BOOLEAN /\ halted \in BOOLEAN

(* Every variable keeps its type, and no queue holds more than it has slots. *)
TypeOK ==
  /\ ControlOK
  /\ log_waiting \in 0..LOG_QUEUE_LENGTH
  /\ DataOK
  /\ FlagsOK

----------------------------------------------------------------------------
(* Safety.                                                                  *)

(* Tasks between cyw43_arch_lwip_begin and cyw43_arch_lwip_end, and inside   *)
(* the calls to lwIP that the network task makes before its loop.           *)
WithLock(t) ==
  \/ t = "net" /\ pc[t] \in {"net_send", "net_end", "net_cooldown"}
  \/ t = "log" /\ pc[t] = "log_send"

WithoutLock(t) == t = "net" /\ pc[t] \in {"net_init", "net_connect"}

(* A callback never interrupts a task that took the lwIP lock, even when    *)
(* the network task sleeps five seconds with it and the log task enters and *)
(* leaves it meanwhile, nor does its vTaskDelay put such a task to sleep.   *)
(* The one call into lwIP it may interrupt is the first tcp_connect, which  *)
(* takes no lock (network_task.c:67,101,150,157,173-175, logging.c:95-97).  *)
LwipExclusion ==
  /\ pc["lwip"] # "idle" => \A t \in Task :
       ~WithLock(t) /\ (WithoutLock(t) => pc[t] = "net_connect" /\ ~armed)
  /\ \A t \in Task : Delayed(t) => ~WithLock(t)

(* The display carries out commands: whenever none is pending or under way, *)
(* the display is off exactly if the last command since boot said so,       *)
(* however commands overwrote each other and raced the task's start-up      *)
(* (network_task.c:120,124, update_display_task.c:154,165-181).             *)
LastCommandWins ==
  (notified = 0 /\ pc["disp"] \in {"disp_wait", "disp_recv", "disp_draw"})
    => display_on = (last_cmd # CMD_DISPLAY_OFF)

(* The tasks never block each other for good: when log_queue is full and    *)
(* neither the kernel nor an interrupt handler is stuck, some task can run  *)
(* (logging.c:63, where every task waits without a limit).                  *)
SomeTaskRuns ==
  (LogFull /\ ~halted /\ pc["lwip"] = "idle" /\ delayed = <<>>)
    => \E t \in Task : HasCpu(t) /\ ~Blocked(t)

----------------------------------------------------------------------------
(* What each consumer gets of the samples.                                  *)

InHand(s) == IF s = 0 THEN <<>> ELSE <<s>>

(* The display shows the samples in order, each at most once, loses one     *)
(* only when DISPLAY_QUEUE_LENGTH others wait, and no restart shows an old  *)
(* one (read_data_task.c:68, update_display_task.c:183-188).                *)
DisplayFeed == INSTANCE SampleFeed WITH
  offered <- taken, waiting <- InHand(drawing) \o display_queue,
  delivered <- shown, crashes <- resets,
  Capacity <- DISPLAY_QUEUE_LENGTH, Lossy <- FALSE

DisplayInOrder == DisplayFeed!Spec

(* The server gets the samples in order and each at most once; one that     *)
(* meets a broken connection or a failing tcp_write is lost                 *)
(* (read_data_task.c:69, network_task.c:138-152,165-175).                   *)
NetworkFeed == INSTANCE SampleFeed WITH
  offered <- taken, waiting <- InHand(data) \o network_queue,
  delivered <- sent, crashes <- resets,
  Capacity <- NETWORK_QUEUE_LENGTH, Lossy <- TRUE

NetworkInOrder == NetworkFeed!Spec

(* Among the other tasks the reading task does what Scd40 says of it: it    *)
(* takes samples in rounds, one at most after each successful poll, and     *)
(* none after an initialisation that failed, until a reset                  *)
(* (read_data_task.c:26-76).                                                *)
Rounds == INSTANCE Reading WITH
  at <- CASE pc["read"] \in {"read_start", "read_init"} -> "init"
          [] pc["read"] \in {"read_poll", "read_delay"} -> "poll"
          [] pc["read"] \in {"read_measure", "read_publish"} -> "measure"
          [] pc["read"] \in {"read_delete", "deleted"} -> "deleted"

InRounds == Rounds!Spec

(* No sample is shown or sent twice or after a newer one: the one a task    *)
(* has in hand is newer than all before it, whatever the queues dropped, a  *)
(* broken connection lost and a restart cleared (read_data_task.c:68-69,    *)
(* update_display_task.c:183, network_task.c:138-145).                      *)
OnlyNewer ==
  /\ drawing # 0 => drawing > shown
  /\ data # 0 => data > sent

----------------------------------------------------------------------------
(* What stops the firmware.                                                 *)

(* An interrupt handler waits for a slot of log_queue, which only a task    *)
(* could free.                                                              *)
Frozen == pc["lwip"] # "idle" /\ owe["lwip"] > 0 /\ LogFull

Stopped == halted \/ Frozen

(* Whatever stops the firmware, the watchdog was armed before and can end   *)
(* it, unless the network task had not come to watchdog_enable.  Before     *)
(* that a callback can stop it only from the first tcp_connect on, and      *)
(* until then only the log task can, whose send failed                      *)
(* (network_task.c:67,101,157-158, logging.c:63,88-100).                    *)
StopsAreGuarded == Stopped =>
  \/ armed
  \/ pc["net"] \in {"net_connect", "net_arm"}
  \/ pc["net"] \in {"net_start", "net_init"} /\ pc["log"] = "deleted"

----------------------------------------------------------------------------
(* Liveness.                                                                *)

(* Each of the reading task's rounds ends with a delay of one or five       *)
(* seconds, a long time for the core: before it is over, every other task   *)
(* has run until it waits for something of its own.                         *)
OthersWait == \A t \in Task \ {"read"} : Blocked(t)

PatientRead == Read /\ (pc["read"] = "read_delay" => OthersWait)

PatientNext ==
  /\ Next
  /\ (pc["read"] = "read_delay" /\ pc'["read"] # "read_delay" /\ resets' = resets)
       => OthersWait

(* The scheduler runs every task again and again, and a handler and a delay *)
(* come to an end, unless nothing runs any more.  Nothing makes the sensor  *)
(* deliver, the server talk or the watchdog bite.                           *)
Fairness ==
  /\ SF_vars(PatientRead \/ WriteLog("read"))
  /\ SF_vars(Disp \/ WriteLog("disp"))
  /\ SF_vars(Net \/ WriteLog("net"))
  /\ SF_vars(Log)
  /\ WF_vars(Isr \/ WriteLog("lwip"))
  /\ SF_vars(Wake)

FairSpec == Init /\ [][PatientNext]_vars /\ Fairness

(* A full log queue, on which every task blocks, is drained, unless the     *)
(* firmware stops (logging.c:63,78-106).                                    *)
LogDrains == LogFull ~> (~LogFull \/ Stopped)

(* A sample in display_queue is drawn, unless the firmware stops or is      *)
(* reset (update_display_task.c:164-189).                                   *)
SampleShown == \A s \in 1..MaxSamples, r \in 0..MaxResets :
  (resets = r /\ \E i \in DOMAIN display_queue : display_queue[i] = s)
    ~> (shown >= s \/ resets > r \/ Stopped)

(* A pending command is taken up once there is a sample to draw: without    *)
(* one the display task never looks (update_display_task.c:165,183).        *)
CommandTaken ==
  (notified # 0 /\ display_queue # <<>>) ~> (notified = 0 \/ Stopped)
=============================================================================
