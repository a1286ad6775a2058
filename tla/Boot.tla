-------------------------------- MODULE Boot --------------------------------
(***************************************************************************)
(* main() of app/main.c, from reset to vTaskStartScheduler.  It calls      *)
(* u_log while no task exists to empty log_queue: every message stays      *)
(* there until the scheduler starts, and a u_log that finds the queue full *)
(* would wait for a slot with no task to wait in, so that the boot goes no *)
(* further, and the watchdog is not armed yet.  The number of messages is  *)
(* what the hardware makes of it: one per device that answers i2c_scan and *)
(* one per command the OLED does not acknowledge.                          *)
(***************************************************************************)
EXTENDS Naturals

CONSTANTS
  LOG_QUEUE_LENGTH,  (* slots of log_queue: 25 in logging.h                 *)
  OLED_COMMANDS,     (* commands of oled_init: 25                           *)
  MaxDevices,        (* bound: devices on one bus; I2C has 127 addresses    *)
  MaxReboots         (* bound: reboots for want of a WiFi connection        *)

ASSUME BootConstants ==
  /\ LOG_QUEUE_LENGTH \in Nat
  /\ OLED_COMMANDS \in Nat
  /\ MaxDevices \in Nat
  /\ MaxReboots \in Nat

VARIABLES
  at,           (* where main() is, or how it ended                         *)
  log_waiting,  (* messages in log_queue                                    *)
  found,        (* devices that answered on the bus being scanned           *)
  answered,     (* devices that answered on either bus                      *)
  commands,     (* commands of oled_init issued                             *)
  missed,       (* commands of oled_init not acknowledged                   *)
  reboots       (* reboots by init_wifi                                     *)

vars == <<at, log_waiting, found, answered, commands, missed, reboots>>

(* No message of main() is optional but those for devices and failures: two *)
(* of init_i2c, two of i2c_scan, two of oled_init, and two around the       *)
(* creation of the tasks.                                                   *)
BOOT_MESSAGES == 8

Init ==
  /\ at = "wifi"
  /\ log_waiting = 0
  /\ found = 0
  /\ answered = 0
  /\ commands = 0
  /\ missed = 0
  /\ reboots = 0

----------------------------------------------------------------------------
(* Used by a mutant only: u_log takes one message too many.                 *)
ULogOverrun(from, to) ==
  /\ at = from
  /\ IF log_waiting <= LOG_QUEUE_LENGTH
     THEN at' = to /\ log_waiting' = log_waiting + 1
     ELSE at' = "wedged" /\ UNCHANGED log_waiting

(* u_log before the scheduler runs: on a full queue the boot is over.       *)
ULog(from, to) ==
  /\ at = from
  /\ IF log_waiting < LOG_QUEUE_LENGTH
     THEN at' = to /\ log_waiting' = log_waiting + 1
     ELSE at' = "wedged" /\ UNCHANGED log_waiting

Step(from, to) == at = from /\ at' = to

(* init_wifi reboots the board when the chip or the network is not there.   *)
WifiFails ==
  /\ at = "wifi"
  /\ reboots < MaxReboots
  /\ reboots' = reboots + 1
  /\ UNCHANGED <<at, log_waiting, found, answered, commands, missed>>

WifiConnects ==
  /\ Step("wifi", "i2c_begin")
  /\ UNCHANGED <<log_waiting, found, answered, commands, missed, reboots>>

InitI2c ==
  /\ ULog("i2c_begin", "i2c_end") \/ ULog("i2c_end", "scan0_begin")
  /\ UNCHANGED <<found, answered, commands, missed, reboots>>

(* i2c_scan announces each bus.                                             *)
ScanBus ==
  /\ ULog("scan0_begin", "scan0") \/ ULog("scan1_begin", "scan1")
  /\ found' = 0
  /\ UNCHANGED <<answered, commands, missed, reboots>>

(* A device answers on the bus being scanned.                               *)
DeviceFound ==
  /\ found < MaxDevices
  /\ ULog("scan0", "scan0") \/ ULog("scan1", "scan1")
  /\ found' = found + 1
  /\ answered' = answered + 1
  /\ UNCHANGED <<commands, missed, reboots>>

ScanEnds ==
  /\ Step("scan0", "scan1_begin") \/ Step("scan1", "oled_begin")
  /\ UNCHANGED <<log_waiting, found, answered, commands, missed, reboots>>

(* oled_init, with its first message, its commands and its last message.    *)
OledBegin ==
  /\ ULog("oled_begin", "oled")
  /\ UNCHANGED <<found, answered, commands, missed, reboots>>

OledAck ==
  /\ commands < OLED_COMMANDS
  /\ Step("oled", "oled")
  /\ commands' = commands + 1
  /\ UNCHANGED <<log_waiting, found, answered, missed, reboots>>

(* Used by a mutant only: a failed command is tried again without a limit.  *)
OledNackRetried ==
  /\ commands < OLED_COMMANDS
  /\ ULog("oled", "oled")
  /\ UNCHANGED <<found, answered, commands, missed, reboots>>

(* oled_command logs that the write failed; the command is not tried again. *)
OledNack ==
  /\ commands < OLED_COMMANDS
  /\ ULog("oled", "oled")
  /\ missed' = missed + 1
  /\ commands' = commands + 1
  /\ UNCHANGED <<found, answered, reboots>>

OledEnd ==
  /\ commands = OLED_COMMANDS
  /\ ULog("oled", "fb_init")
  /\ UNCHANGED <<found, answered, commands, missed, reboots>>

(* fb_init: without memory it logs, still returns 0, and fb_clear then      *)
(* writes through the null pointer.                                         *)
FbInit ==
  /\ \/ Step("fb_init", "tasks") /\ UNCHANGED log_waiting
     \/ ULog("fb_init", "fb_clear")
  /\ UNCHANGED <<found, answered, commands, missed, reboots>>

FbClearNull ==
  /\ Step("fb_clear", "faulted")
  /\ UNCHANGED <<log_waiting, found, answered, commands, missed, reboots>>

(* "Creating Tasks", then the tasks.  The scheduler starts if the log, read *)
(* and display tasks were created; main() does not look at the fourth.      *)
CreateTasks ==
  /\ ULog("tasks", "created") \/ ULog("tasks", "not_created")
  /\ UNCHANGED <<found, answered, commands, missed, reboots>>

StartScheduler ==
  /\ ULog("created", "running")
  /\ UNCHANGED <<found, answered, commands, missed, reboots>>

ReturnError ==
  /\ ULog("not_created", "returned")
  /\ UNCHANGED <<found, answered, commands, missed, reboots>>

Next ==
  \/ WifiFails \/ WifiConnects \/ InitI2c \/ ScanBus \/ DeviceFound \/ ScanEnds
  \/ OledBegin \/ OledAck \/ OledNack \/ OledEnd \/ FbInit \/ FbClearNull
  \/ CreateTasks \/ StartScheduler \/ ReturnError

Spec == Init /\ [][Next]_vars

----------------------------------------------------------------------------
Ended == {"wedged", "faulted", "returned", "running"}

Stage == {"wifi", "i2c_begin", "i2c_end", "scan0_begin", "scan0", "scan1_begin",
          "scan1", "oled_begin", "oled", "fb_init", "fb_clear", "tasks",
          "created", "not_created"} \cup Ended

(* Every variable keeps its type and log_queue holds no more than its slots. *)
BootTypeOK ==
  /\ at \in Stage
  /\ log_waiting \in 0..LOG_QUEUE_LENGTH
  /\ found \in 0..MaxDevices
  /\ answered \in 0..(2 * MaxDevices)
  /\ commands \in 0..OLED_COMMANDS
  /\ missed \in 0..commands
  /\ reboots \in 0..MaxReboots

(* The boot wedges only when devices and failed OLED commands together      *)
(* leave no room for main()'s own messages:                                 *)
(* with the sensor and the OLED connected, 15 more would still fit          *)
(* (main.c:69-110, logging.h:4, ssd1306.c:21-30, i2c.c:83-107).             *)
WedgedOnlyWhenCrowded ==
  at = "wedged" => answered + missed + BOOT_MESSAGES > LOG_QUEUE_LENGTH

(* The scheduler starts with every message of main() still queued, which is *)
(* the backlog the log task begins with (main.c:110-111, logging.c:78-79).  *)
BacklogAtStart ==
  at = "running" => log_waiting = answered + missed + BOOT_MESSAGES
=============================================================================
