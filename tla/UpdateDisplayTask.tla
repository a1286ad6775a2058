-------------------------- MODULE UpdateDisplayTask --------------------------
(***************************************************************************)
(* update_display_task of app/tasks/update_display_task.c.  Each round it  *)
(* waits 500 ms for a command, carries it out, and then waits without a    *)
(* limit for a sample to draw.  The drawing itself is abstracted to the    *)
(* number of the sample shown; a write the OLED does not acknowledge logs  *)
(* once and is not retried.                                                *)
(***************************************************************************)
EXTENDS Kernel

CONSTANT FRAME_WRITES  (* I2C writes of one display_send_buffer: 7          *)

ASSUME FrameWrites == FRAME_WRITES \in Nat

VARIABLES
  cmd,         (* receivedCommand while it is carried out, else 0           *)
  display_on,  (* the flag the network task reports to the server           *)
  drawing,     (* the sample received and not drawn yet, 0 if none          *)
  shown        (* the newest sample drawn                                   *)

dispVars == <<cmd, display_on, drawing, shown>>

DispUnchanged == UNCHANGED <<log_waiting, network_queue, lwip_depth, delayed, halted>>

DispInit ==
  /\ cmd = 0
  /\ display_on = FALSE
  /\ drawing = 0

DispRestart ==
  /\ cmd' = 0
  /\ display_on' = FALSE
  /\ drawing' = 0

DispStart ==
  /\ Goto("disp", "disp_start", "disp_init", 1)
  /\ DispUnchanged
  /\ UNCHANGED <<display_queue, notified, dispVars>>

(* The display is on after its initialisation; draw the empty screen.       *)
DispFirstFrame ==
  /\ \E n \in 0..FRAME_WRITES : Goto("disp", "disp_init", "disp_wait", n)
  /\ display_on' = TRUE
  /\ DispUnchanged
  /\ UNCHANGED <<display_queue, notified, cmd, drawing, shown>>

(* Used by a mutant only: xTaskNotifyWait that clears no bit on exit.       *)
DispCommandKept ==
  /\ notified # 0
  /\ Goto("disp", "disp_wait", "disp_bright", 2)
  /\ cmd' = notified
  /\ DispUnchanged
  /\ UNCHANGED <<display_queue, notified, display_on, drawing, shown>>

(* xTaskNotifyWait returns a pending value at once and clears it.           *)
DispCommand ==
  /\ notified # 0
  /\ Goto("disp", "disp_wait", "disp_bright", 2)
  /\ cmd' = notified
  /\ notified' = 0
  /\ DispUnchanged
  /\ UNCHANGED <<display_queue, display_on, drawing, shown>>

(* Used by a mutant only: a timeout starts the next round at once.          *)
DispTimeoutContinues ==
  /\ notified = 0
  /\ Goto("disp", "disp_wait", "disp_wait", 0)
  /\ DispUnchanged
  /\ UNCHANGED <<display_queue, notified, dispVars>>

DispTimeout ==
  /\ notified = 0
  /\ Goto("disp", "disp_wait", "disp_recv", 0)
  /\ DispUnchanged
  /\ UNCHANGED <<display_queue, notified, dispVars>>

(* oled_set_brightness: two writes, each logs if it fails.                  *)
DispBrightness ==
  /\ \E n \in 0..2 : Goto("disp", "disp_bright", "disp_flag", n)
  /\ DispUnchanged
  /\ UNCHANGED <<display_queue, notified, dispVars>>

DispFlag ==
  /\ Goto("disp", "disp_flag", "disp_recv", 0)
  /\ display_on' = (cmd = CMD_DISPLAY_ON)
  /\ cmd' = 0
  /\ DispUnchanged
  /\ UNCHANGED <<display_queue, notified, drawing, shown>>

(* The messages of wifi_status: one in each state of the link but up.       *)
WifiStatusLogs == 0..1

(* xQueueReceive(display_queue, portMAX_DELAY), then wifi_status.           *)
DispReceive ==
  /\ display_queue # <<>>
  /\ \E n \in WifiStatusLogs : Goto("disp", "disp_recv", "disp_draw", n)
  /\ drawing' = Head(display_queue)
  /\ display_queue' = Tail(display_queue)
  /\ DispUnchanged
  /\ UNCHANGED <<notified, cmd, display_on, shown>>

DispDraw ==
  /\ \E n \in 0..FRAME_WRITES : Goto("disp", "disp_draw", "disp_wait", n)
  /\ shown' = drawing
  /\ drawing' = 0
  /\ DispUnchanged
  /\ UNCHANGED <<display_queue, notified, cmd, display_on>>

DispStep ==
  \/ DispStart \/ DispFirstFrame \/ DispCommand \/ DispTimeout
  \/ DispBrightness \/ DispFlag \/ DispReceive \/ DispDraw
=============================================================================
