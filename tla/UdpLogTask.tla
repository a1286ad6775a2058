----------------------------- MODULE UdpLogTask -----------------------------
(***************************************************************************)
(* udp_log_task of app/tasks/logging.c: the only reader of log_queue.  It  *)
(* takes one message at a time and sends it by UDP under the lwIP lock.    *)
(* When pbuf_alloc or udp_sendto fails the task function returns, which    *)
(* FreeRTOS does not allow: the ARM_CM0 port then disables interrupts and  *)
(* spins, so that no task and no callback ever runs again.                 *)
(***************************************************************************)
EXTENDS Kernel

LogUnchanged == UNCHANGED <<display_queue, network_queue, notified, delayed>>

(* xQueueReceive(log_queue, portMAX_DELAY), then pbuf_alloc.                *)
LogReceive ==
  /\ log_waiting > 0
  /\ log_waiting' = log_waiting - 1
  /\ \/ Goto("log", "log_recv", "log_begin", 0) /\ UNCHANGED halted
     \/ Goto("log", "log_recv", "deleted", 0) /\ halted' = TRUE
  /\ UNCHANGED lwip_depth
  /\ LogUnchanged

LogBegin ==
  /\ Goto("log", "log_begin", "log_send", 0)
  /\ LwipBegin
  /\ UNCHANGED <<log_waiting, halted>>
  /\ LogUnchanged

(* Used by a mutant only: an error of udp_sendto is reported with u_log.    *)
LogSendReports ==
  /\ \E n \in {0, 1} : Goto("log", "log_send", "log_recv", n)
  /\ LwipEnd
  /\ UNCHANGED <<log_waiting, halted>>
  /\ LogUnchanged

(* udp_sendto, cyw43_arch_lwip_end, pbuf_free, and the return on an error.  *)
LogSend ==
  /\ \/ Goto("log", "log_send", "log_recv", 0) /\ UNCHANGED halted
     \/ Goto("log", "log_send", "deleted", 0) /\ halted' = TRUE
  /\ LwipEnd
  /\ UNCHANGED log_waiting
  /\ LogUnchanged

LogStep == LogReceive \/ LogBegin \/ LogSend
=============================================================================
