----------------------------- MODULE NetworkTask -----------------------------
(***************************************************************************)
(* network_task of app/tasks/network_task.c and the lwIP callbacks of the  *)
(* same file.  The task sends one sample after another under the lwIP      *)
(* lock; when there is no connection it starts a new one instead, and the  *)
(* sample is lost.  The callbacks run in the interrupt handler "lwip".     *)
(* Which connection a callback belongs to is abstracted here.              *)
(***************************************************************************)
EXTENDS Kernel

VARIABLES
  armed,     (* the watchdog was enabled                                    *)
  data,      (* the sample received and not given to TCP yet, 0 if none     *)
  sent,      (* the newest sample tcp_write accepted                        *)
  isr_cmd,   (* cmd of tcp_recv_callback before its xTaskNotify, else 0     *)
  last_cmd   (* history: the newest command notified since boot, 0 if none  *)

netVars == <<armed, data, sent, isr_cmd, last_cmd>>

NetUnchanged == UNCHANGED <<log_waiting, display_queue, notified, delayed, halted>>

NetInit ==
  /\ armed = FALSE
  /\ data = 0
  /\ isr_cmd = 0
  /\ last_cmd = 0

NetRestart ==
  /\ armed' = FALSE
  /\ data' = 0
  /\ isr_cmd' = 0
  /\ last_cmd' = 0

(* tcp_client_init logs its attempt, or that tcp_new failed; a failing bind *)
(* logs once more.  tcp_connect comes after all of them.                    *)
TcpInitLogs == {1, 2}

----------------------------------------------------------------------------
(* The task.                                                                *)

NetStart ==
  /\ Goto("net", "net_start", "net_init", 1)
  /\ NetUnchanged
  /\ UNCHANGED <<network_queue, lwip_depth, netVars>>

(* The first tcp_client_init takes no lock.  It ends when tcp_new or        *)
(* tcp_bind fails, or goes on to tcp_connect once its message is logged.    *)
NetClientInit ==
  /\ \/ \E n \in TcpInitLogs : Goto("net", "net_init", "net_arm", n)
     \/ Goto("net", "net_init", "net_connect", 1)
  /\ NetUnchanged
  /\ UNCHANGED <<network_queue, lwip_depth, netVars>>

(* The rest of it, tcp_connect, whose result is ignored.                    *)
NetConnect ==
  /\ Goto("net", "net_connect", "net_arm", 0)
  /\ NetUnchanged
  /\ UNCHANGED <<network_queue, lwip_depth, netVars>>

(* Used by a mutant only: the call of watchdog_enable is left out.          *)
NetArmForgotten ==
  /\ Goto("net", "net_arm", "net_recv", 0)
  /\ NetUnchanged
  /\ UNCHANGED <<network_queue, lwip_depth, netVars>>

(* watchdog_enable, then the first watchdog_update.                         *)
NetArm ==
  /\ Goto("net", "net_arm", "net_recv", 0)
  /\ armed' = TRUE
  /\ NetUnchanged
  /\ UNCHANGED <<network_queue, lwip_depth, data, sent, isr_cmd, last_cmd>>

(* Used by a mutant only: xQueuePeek instead of xQueueReceive.              *)
NetPeek ==
  /\ network_queue # <<>>
  /\ Goto("net", "net_recv", "net_begin", 0)
  /\ data' = Head(network_queue)
  /\ NetUnchanged
  /\ UNCHANGED <<network_queue, lwip_depth, armed, sent, isr_cmd, last_cmd>>

NetReceive ==
  /\ network_queue # <<>>
  /\ Goto("net", "net_recv", "net_begin", 0)
  /\ data' = Head(network_queue)
  /\ network_queue' = Tail(network_queue)
  /\ NetUnchanged
  /\ UNCHANGED <<lwip_depth, armed, sent, isr_cmd, last_cmd>>

NetBegin ==
  /\ Goto("net", "net_begin", "net_send", 0)
  /\ LwipBegin
  /\ NetUnchanged
  /\ UNCHANGED <<network_queue, netVars>>

(* try_tcp_send with the lock held: tcp_write succeeds, or fails and logs,  *)
(* or there is no connection and tcp_client_init starts one, after which    *)
(* the task sleeps for five seconds.  The latter two lose the sample.       *)
TryTcpSend ==
  /\ \/ Goto("net", "net_send", "net_end", 0) /\ sent' = data
     \/ Goto("net", "net_send", "net_end", 1) /\ UNCHANGED sent
     \/ /\ \E n \in TcpInitLogs : Goto("net", "net_send", "net_cooldown", 1 + n)
        /\ UNCHANGED sent
  /\ data' = 0
  /\ NetUnchanged
  /\ UNCHANGED <<network_queue, lwip_depth, armed, isr_cmd, last_cmd>>

(* cyw43_arch_lwip_end, at once or after the five seconds.                  *)
NetEnd ==
  /\ \E from \in {"net_end", "net_cooldown"} : Goto("net", from, "net_recv", 0)
  /\ LwipEnd
  /\ NetUnchanged
  /\ UNCHANGED <<network_queue, netVars>>

NetStep ==
  \/ NetStart \/ NetClientInit \/ NetConnect \/ NetArm \/ NetReceive
  \/ NetBegin \/ TryTcpSend \/ NetEnd

----------------------------------------------------------------------------
(* The callbacks.                                                           *)

(* lwIP may call back once the first tcp_connect has begun, unless a task   *)
(* holds the lock; the first one holds none, so a callback may come before  *)
(* it is over.  Earlier there is no connection to report about.  Which      *)
(* callbacks a connection of that state can have is left open.              *)
LwipMayRun ==
  /\ ~halted
  /\ pc["lwip"] = "idle"
  /\ lwip_depth = 0
  /\ pc["net"] \notin {"net_start", "net_init"}
  /\ pc["net"] \in {"net_connect", "net_arm"} => owe["net"] = 0

IsrUnchanged ==
  UNCHANGED <<log_waiting, display_queue, network_queue, lwip_depth, armed, data,
              sent>>

Interrupt(to, n) ==
  /\ LwipMayRun
  /\ pc' = [pc EXCEPT !["lwip"] = to]
  /\ owe' = [owe EXCEPT !["lwip"] = n]

(* The callbacks that log one message and do nothing to the other tasks:    *)
(* tcp_sent_callback, tcp_connected_callback with an error, and             *)
(* tcp_recv_callback at the end of the connection or for other data.        *)
TcpLogCallback ==
  /\ Interrupt("isr_return", 1)
  /\ UNCHANGED <<notified, delayed, halted, isr_cmd, last_cmd>>
  /\ IsrUnchanged

(* tcp_error_callback: log, vTaskDelay, tcp_client_init.                    *)
TcpErrorCallback ==
  /\ \E n \in TcpInitLogs : Interrupt("isr_return", 1 + n)
  /\ DelayInterrupted
  /\ UNCHANGED <<notified, isr_cmd, last_cmd>>
  /\ IsrUnchanged

(* tcp_recv_callback with a command: log it, then notify the display task.  *)
TcpRecvCommand ==
  /\ Interrupt("isr_notify", 1)
  /\ isr_cmd' \in Command
  /\ UNCHANGED <<notified, delayed, halted, last_cmd>>
  /\ IsrUnchanged

(* Used by a mutant only: a notification that does not replace a pending one. *)
NotifyWithoutOverwrite ==
  /\ ~halted
  /\ pc["lwip"] = "isr_notify"
  /\ owe["lwip"] = 0
  /\ pc' = [pc EXCEPT !["lwip"] = "idle"]
  /\ notified' = IF notified = 0 THEN isr_cmd ELSE notified
  /\ last_cmd' = isr_cmd
  /\ isr_cmd' = 0
  /\ UNCHANGED <<owe, delayed, halted>>
  /\ IsrUnchanged

(* xTaskNotify with eSetValueWithOverwrite replaces a pending command.      *)
NotifyDisplay ==
  /\ ~halted
  /\ pc["lwip"] = "isr_notify"
  /\ owe["lwip"] = 0
  /\ pc' = [pc EXCEPT !["lwip"] = "idle"]
  /\ notified' = isr_cmd
  /\ last_cmd' = isr_cmd
  /\ isr_cmd' = 0
  /\ UNCHANGED <<owe, delayed, halted>>
  /\ IsrUnchanged

IsrReturn ==
  /\ ~halted
  /\ pc["lwip"] = "isr_return"
  /\ owe["lwip"] = 0
  /\ pc' = [pc EXCEPT !["lwip"] = "idle"]
  /\ UNCHANGED <<owe, notified, delayed, halted, isr_cmd, last_cmd>>
  /\ IsrUnchanged

Callback == TcpLogCallback \/ TcpErrorCallback \/ TcpRecvCommand

IsrStep == NotifyDisplay \/ IsrReturn
=============================================================================
