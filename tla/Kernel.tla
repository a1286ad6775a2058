------------------------------- MODULE Kernel -------------------------------
(***************************************************************************)
(* What the four FreeRTOS tasks of the firmware and the lwIP callbacks     *)
(* share: the scheduler, the three queues, the display task's notification *)
(* value, the lwIP lock, and u_log, which every context may block in.      *)
(*                                                                         *)
(* FreeRTOS, the Pico SDK and lwIP are not in the repository.  They are    *)
(* modelled from how the code configures and calls them:                   *)
(*   - one core, preemptive fixed priorities (config/FreeRTOSConfig.h and  *)
(*     the GCC/ARM_CM0 port named by CMakeLists.txt);                      *)
(*   - pico_cyw43_arch_lwip_threadsafe_background (app/CMakeLists.txt):    *)
(*     lwIP callbacks run in a low-priority interrupt, never while a task  *)
(*     is between cyw43_arch_lwip_begin and cyw43_arch_lwip_end;           *)
(*   - that lock is recursive and owned by the core, so a second task of   *)
(*     the core enters it by nesting: lwip_depth counts the nesting.       *)
(***************************************************************************)
EXTENDS Naturals, Sequences

CONSTANTS
  LOG_QUEUE_LENGTH,      (* slots of log_queue: 25 in logging.h            *)
  DISPLAY_QUEUE_LENGTH,  (* slots of display_queue: 5 in main.c            *)
  NETWORK_QUEUE_LENGTH   (* slots of network_queue: 5 in main.c            *)

ASSUME QueueLengths ==
  /\ LOG_QUEUE_LENGTH \in Nat \ {0}
  /\ DISPLAY_QUEUE_LENGTH \in Nat \ {0}
  /\ NETWORK_QUEUE_LENGTH \in Nat \ {0}

VARIABLES
  pc,             (* where each context is                                  *)
  owe,            (* u_log calls each context still makes before it goes on *)
  log_waiting,    (* messages in log_queue; their text is abstracted        *)
  display_queue,  (* sample numbers, oldest first                           *)
  network_queue,  (* sample numbers, oldest first                           *)
  notified,       (* display task's pending notification value, 0 if none   *)
  lwip_depth,     (* nesting of the lwIP lock                               *)
  delayed,        (* tasks a callback made sleep by vTaskDelay, in order    *)
  halted          (* the kernel was broken: nothing runs but the watchdog   *)

kernelVars == <<pc, owe, log_waiting, display_queue, network_queue, notified,
                lwip_depth, delayed, halted>>

----------------------------------------------------------------------------
(* The tasks main() creates, with their priorities, and the interrupt.      *)

Task == {"read", "disp", "net", "log"}

Context == Task \cup {"lwip"}

Priority == [read |-> 2, disp |-> 1, net |-> 1, log |-> 0]

(* Commands the server sends (main.h): 0 is CMD_NONE.                       *)
CMD_DISPLAY_OFF == 1
CMD_DISPLAY_ON == 2
Command == {CMD_DISPLAY_OFF, CMD_DISPLAY_ON}

(* Labels at which a task is inside vTaskDelay.  Time is abstract: the      *)
(* delay may end at any moment, and until it does the task leaves the core  *)
(* to the others.                                                           *)
Sleeping == {"read_init", "read_poll", "read_measure", "read_delay",
             "net_cooldown"}

LogFull == log_waiting >= LOG_QUEUE_LENGTH

(* t waits for a slot of log_queue inside u_log, or for a delay, or for an  *)
(* item of a queue or a notification, or it was deleted.                    *)
Waiting(t) ==
  IF owe[t] > 0
  THEN LogFull
  ELSE \/ pc[t] \in Sleeping \cup {"deleted"}
       \/ pc[t] = "disp_wait" /\ notified = 0
       \/ pc[t] = "disp_recv" /\ display_queue = <<>>
       \/ pc[t] = "net_recv" /\ network_queue = <<>>
       \/ pc[t] = "log_recv" /\ log_waiting = 0

Delayed(t) == \E i \in DOMAIN delayed : delayed[i] = t

Blocked(t) == Delayed(t) \/ Waiting(t)

(* The scheduler may give the core to t: no interrupt handler is active and *)
(* every task of higher priority is blocked (equal priorities time-slice).  *)
HasCpu(t) ==
  /\ ~halted
  /\ pc["lwip"] = "idle"
  /\ ~Delayed(t)
  /\ \A u \in Task : Priority[u] > Priority[t] => Blocked(u)

(* Task t runs from one label to the next and then owes n u_log calls.      *)
Goto(t, from, to, n) ==
  /\ HasCpu(t)
  /\ pc[t] = from
  /\ owe[t] = 0
  /\ pc' = [pc EXCEPT ![t] = to]
  /\ owe' = [owe EXCEPT ![t] = n]

(* vTaskDelay called by a callback: the kernel delays whichever task the    *)
(* interrupt happened to preempt.  When that is the idle task, no task is   *)
(* left to select and what the kernel does is undefined.                    *)
DelayInterrupted ==
  \/ /\ \E t \in Task : HasCpu(t) /\ ~Blocked(t) /\ delayed' = Append(delayed, t)
     /\ UNCHANGED halted
  \/ /\ \A t \in Task : Blocked(t)
     /\ halted' \in BOOLEAN
     /\ UNCHANGED delayed

(* These delays are all of five seconds, so they end in order.              *)
DelayEnds ==
  /\ ~halted
  /\ pc["lwip"] = "idle"
  /\ delayed # <<>>
  /\ delayed' = Tail(delayed)
  /\ UNCHANGED <<pc, owe, log_waiting, display_queue, network_queue, notified,
                 lwip_depth, halted>>

----------------------------------------------------------------------------
(* Queue primitives.                                                        *)

(* Used by a mutant only: a full queue gives up its oldest item.            *)
SendOverwriting(q, x, length) ==
  IF Len(q) < length THEN Append(q, x) ELSE Append(Tail(q), x)

(* xQueueSendToBack with a timeout of 0: a full queue drops the new item.   *)
SendToBack(q, x, length) == IF Len(q) < length THEN Append(q, x) ELSE q

(* Used by a mutant only: u_log that does not wait for a free slot.         *)
ULogOverrun(c) ==
  /\ IF c = "lwip" THEN ~halted ELSE HasCpu(c)
  /\ owe[c] > 0
  /\ log_waiting' = log_waiting + 1
  /\ owe' = [owe EXCEPT ![c] = @ - 1]
  /\ UNCHANGED <<pc, display_queue, network_queue, notified, lwip_depth, delayed,
                 halted>>

(* u_log: xQueueSendToBack with portMAX_DELAY, which waits for a free slot. *)
(* Called from a callback it runs inside the interrupt handler.             *)
ULog(c) ==
  /\ IF c = "lwip" THEN ~halted ELSE HasCpu(c)
  /\ owe[c] > 0
  /\ ~LogFull
  /\ log_waiting' = log_waiting + 1
  /\ owe' = [owe EXCEPT ![c] = @ - 1]
  /\ UNCHANGED <<pc, display_queue, network_queue, notified, lwip_depth, delayed,
                 halted>>

----------------------------------------------------------------------------
(* The lwIP lock.                                                           *)

(* Used by a mutant only: a lock that excludes the other tasks of the core. *)
LwipBeginExclusive == lwip_depth = 0 /\ lwip_depth' = lwip_depth + 1

LwipBegin == lwip_depth' = lwip_depth + 1

(* Used by a mutant only: an end that does not count the nesting.           *)
LwipRelease == lwip_depth' = 0

LwipEnd == lwip_depth' = lwip_depth - 1

----------------------------------------------------------------------------
(* What a restart leaves in RAM: every task at its entry, empty queues but  *)
(* for the messages main() logged before it started the scheduler.          *)
EntryPoints == [read |-> "read_start", disp |-> "disp_start",
                net |-> "net_start", log |-> "log_recv", lwip |-> "idle"]

KernelInit(bootMessages) ==
  /\ pc = EntryPoints
  /\ owe = [c \in Context |-> 0]
  /\ log_waiting \in bootMessages
  /\ display_queue = <<>>
  /\ network_queue = <<>>
  /\ notified = 0
  /\ lwip_depth = 0
  /\ delayed = <<>>
  /\ halted = FALSE

KernelRestart(bootMessages) ==
  /\ pc' = EntryPoints
  /\ owe' = [c \in Context |-> 0]
  /\ log_waiting' \in bootMessages
  /\ display_queue' = <<>>
  /\ network_queue' = <<>>
  /\ notified' = 0
  /\ lwip_depth' = 0
  /\ delayed' = <<>>
  /\ halted' = FALSE
=============================================================================
