------------------------------ MODULE I2cFrame ------------------------------
(***************************************************************************)
(* i2c_read_data_inplace of app/i2c/i2c.c and the two calls of it in       *)
(* app/scd40/scd40.c.  The sensor answers with frames of a word and its    *)
(* checksum; the driver reads them into one buffer and then moves the      *)
(* words together inside that buffer, each after its check.  The wire may  *)
(* invert bits, or the read may fail.                                      *)
(***************************************************************************)
EXTENDS Crc8

CONSTANTS
  Word,        (* words the sensor may send: records of bytes hi and lo      *)
  Lengths,     (* words a call expects: 1 (data ready) or 3 (measurement)    *)
  Corruption   (* what the wire may do: an error per frame                   *)

ASSUME WordAssumption == Word \subseteq [hi : Byte, lo : Byte]
ASSUME LengthsAssumption == Lengths \subseteq Nat \ {0}
ASSUME CorruptionAssumption ==
  \A c \in Corruption, n \in Lengths : \A f \in 0..(n - 1) : c[f] \in Error

WORD_SIZE == 2
CRC8_LEN == 1

VARIABLES
  at,      (* "idle", "read", "check", "return" or "failed"                  *)
  sent,    (* the words the sensor answers with                              *)
  wire,    (* the bytes as they arrive                                       *)
  buffer,  (* the caller's buffer                                            *)
  i, j,    (* the loop's read and write positions                            *)
  values   (* the words handed to the reading task, <<>> if none             *)

vars == <<at, sent, wire, buffer, i, j, values>>

Init ==
  /\ at = "idle"
  /\ sent = <<>>
  /\ wire = <<>>
  /\ buffer = <<>>
  /\ i = 0
  /\ j = 0
  /\ values = <<>>

FRAME_SIZE == WORD_SIZE + CRC8_LEN

Size(n) == n * FRAME_SIZE

(* The frames of the words w, with the errors c.                            *)
Frames(w, n, c) ==
  [k \in 0..(Size(n) - 1) |->
    LET f == k \div FRAME_SIZE
    IN CASE k % FRAME_SIZE = 0 -> SymDiff(w[f].hi, c[f].hi)
         [] k % FRAME_SIZE = 1 -> SymDiff(w[f].lo, c[f].lo)
         [] k % FRAME_SIZE = 2 -> SymDiff(Crc(w[f].hi, w[f].lo), c[f].crc)]

(* A driver call has sent its command and waited; the sensor has an answer. *)
Call ==
  /\ at = "idle"
  /\ at' = "read"
  /\ \E n \in Lengths : sent' \in [0..(n - 1) -> Word]
  /\ values' = <<>>
  /\ UNCHANGED <<wire, buffer, i, j>>

(* i2c_read delivers the whole answer, or an error of the bus or a short    *)
(* answer, which it reports: the call fails.                                *)
Read ==
  /\ at = "read"
  /\ \/ /\ \E n \in Lengths, c \in Corruption :
             /\ DOMAIN sent = 0..(n - 1)
             /\ wire' = Frames(sent, n, c)
        /\ at' = "check"
        /\ buffer' = wire'
     \/ at' = "failed" /\ UNCHANGED <<wire, buffer>>
  /\ i' = 0
  /\ j' = 0
  /\ UNCHANGED <<sent, values>>

(* Used by a mutant only: i <= size.                                        *)
MoreOrEqual == i \in DOMAIN wire \cup {Cardinality(DOMAIN wire)}

(* i < size                                                                 *)
More == i \in DOMAIN wire

(* Used by a mutant only: only the first frame is checked.                  *)
FirstFrameOk == i > 0 \/ Crc(buffer[i], buffer[i + 1]) = buffer[i + WORD_SIZE]

FrameOk == Crc(buffer[i], buffer[i + 1]) = buffer[i + WORD_SIZE]

(* Used by a mutant only: the low byte is moved before the high byte.       *)
MovedLowFirst ==
  LET moved == [buffer EXCEPT ![j + 1] = buffer[i + 1]]
  IN [moved EXCEPT ![j] = moved[i]]

(* buffer[j++] = buffer[i]; buffer[j++] = buffer[i + 1];                    *)
Moved ==
  LET moved == [buffer EXCEPT ![j] = buffer[i]]
  IN [moved EXCEPT ![j + 1] = moved[i + 1]]

CheckFrame ==
  /\ at = "check"
  /\ More
  /\ IF FrameOk
     THEN /\ buffer' = Moved
          /\ i' = i + FRAME_SIZE
          /\ j' = j + WORD_SIZE
          /\ UNCHANGED at
     ELSE at' = "failed" /\ UNCHANGED <<buffer, i, j>>
  /\ UNCHANGED <<sent, wire, values>>

(* common_bytes_to_uint16_t takes the words from the front of the buffer.   *)
Decode ==
  /\ at = "check"
  /\ ~More
  /\ at' = "return"
  /\ values' = [f \in DOMAIN sent |->
                  [hi |-> buffer[2 * f], lo |-> buffer[2 * f + 1]]]
  /\ UNCHANGED <<sent, wire, buffer, i, j>>

(* The call returns, and its buffer is gone.                                *)
Return ==
  /\ at \in {"return", "failed"}
  /\ at' = "idle"
  /\ sent' = <<>>
  /\ wire' = <<>>
  /\ buffer' = <<>>
  /\ i' = 0
  /\ j' = 0
  /\ UNCHANGED values

Next == Call \/ Read \/ CheckFrame \/ Decode \/ Return

Spec == Init /\ [][Next]_vars

----------------------------------------------------------------------------
(* Every variable keeps its type, and the loop stays inside the buffer.     *)
FrameTypeOK ==
  /\ at \in {"idle", "read", "check", "return", "failed"}
  /\ \A k \in DOMAIN wire : wire[k] \in Byte /\ buffer[k] \in Byte
  /\ DOMAIN wire = DOMAIN buffer
  /\ at = "check" =>
       /\ i \in Nat /\ j \in 0..i
       /\ More => i + WORD_SIZE \in DOMAIN buffer

(* The move inside the buffer never spoils a frame that is not checked yet, *)
(* and gives the words as they arrived, each with a matching checksum       *)
(* (i2c.c:164-173).                                                         *)
OnlyChecked ==
  at = "return" =>
    \A f \in DOMAIN sent :
      /\ values[f] = [hi |-> wire[3 * f], lo |-> wire[3 * f + 1]]
      /\ Crc(wire[3 * f], wire[3 * f + 1]) = wire[3 * f + 2]

(* Every error the wire may make is one that the checksum catches           *)
(* (i2c.c:110-137, with the polynomial of i2c.h:11).                        *)
ErrorsCaught ==
  \A c \in Corruption, n \in Lengths : \A f \in 0..(n - 1) :
    c[f] = NoError \/ ~Missed(c[f])

(* A call that succeeds returns what the sensor sent: an answer that the    *)
(* wire corrupted is refused as a whole (i2c.c:132-137,164-175).            *)
Uncorrupted == at = "return" => values = sent

(* Step by step, a call does what Answer promises: the frames that are      *)
(* checked one after the other and moved inside their buffer are given as a *)
(* whole or not at all, and nothing is left of a call that failed           *)
(* (i2c.c:160-175).                                                         *)
Answers == INSTANCE Answer WITH
  at <- IF at \in {"read", "check"} THEN "wait" ELSE at

AllOrNothing == Answers!Spec
=============================================================================
