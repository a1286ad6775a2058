----------------------------- MODULE MCFirmware -----------------------------
(* Firmware with the small queues and bounds of its configurations.         *)
EXTENDS Firmware

(* main() leaves part of the queue filled, or all of it.                    *)
MCBootMessages == {1, LOG_QUEUE_LENGTH}
=============================================================================
