------------------------------ MODULE TcpClient ------------------------------
(***************************************************************************)
(* The connection blocks behind tcp_pcb of app/tasks/network_task.c.  lwIP *)
(* has a fixed pool of them; tcp_client_init takes one and puts it into    *)
(* tcp_pcb, whatever was there before, and lwIP gives one back when its    *)
(* connection ends, whether or not tcp_pcb still points to it.  Blocks the *)
(* program no longer points to live on, connect, and call back.            *)
(*                                                                         *)
(* lwIP is not in the repository; of it are modelled the calls this file   *)
(* makes.  A freed block keeps its state field until it is used again.     *)
(* Each call and callback is one step, because the task holds the lwIP     *)
(* lock in its calls (LwipExclusion in Firmware).  The first attempt takes *)
(* no lock, but a callback can interrupt only its tcp_connect, which is    *)
(* the last thing it does to the blocks.  Messages, delays and             *)
(* notifications are in NetworkTask.                                       *)
(***************************************************************************)
CONSTANTS
  Block,  (* the pool: five blocks, as lwipopts.h does not set their number *)
  NULL

ASSUME NullAssumption == NULL \notin Block

VARIABLES
  pcb,      (* for each block what lwIP keeps in it                         *)
  tcp_pcb   (* the block the network task sends through, or NULL            *)

vars == <<pcb, tcp_pcb>>

(* live: allocated.  watched: its error callback is registered.             *)
(* unacked: it holds data the server has not acknowledged.                  *)
Contents ==
  [live : BOOLEAN, state : {"CLOSED", "SYN_SENT", "ESTABLISHED", "LAST_ACK"},
   watched : BOOLEAN, unacked : BOOLEAN]

New(state) == [live |-> TRUE, state |-> state, watched |-> FALSE, unacked |-> FALSE]

Freed(state) == [live |-> FALSE, state |-> state, watched |-> FALSE, unacked |-> FALSE]

In(b, state) == pcb[b].live /\ pcb[b].state = state

----------------------------------------------------------------------------
(* tcp_client_init, as the set of its outcomes on the blocks p.             *)

Unused(p) == {b \in Block : ~p[b].live}

Closing(p) == {b \in Block : p[b].live /\ p[b].state = "LAST_ACK"}

(* What follows tcp_new when that returned b: tcp_bind fails and tcp_abort  *)
(* frees b again, or tcp_connect fails, which is not tested, or it sends.   *)
Attempt(p, b) ==
  {[pcb |-> [p EXCEPT ![b] = r], tcp_pcb |-> b] :
     r \in {Freed("CLOSED"), New("CLOSED"), New("SYN_SENT")}}

(* With the pool in use, tcp_new aborts a closing connection b and calls    *)
(* its error callback, which calls tcp_client_init: that gets b.  If it     *)
(* keeps b, there is none for tcp_new, which returns NULL.                  *)
Reenter(p, b) ==
  UNION {IF o.pcb[b].live THEN {[o EXCEPT !.tcp_pcb = NULL]} ELSE Attempt(o.pcb, b) :
           o \in Attempt(p, b)}

ClientInit(p) ==
  IF Unused(p) # {} THEN UNION {Attempt(p, b) : b \in Unused(p)}
  ELSE IF Closing(p) # {} THEN UNION {Reenter(p, b) : b \in Closing(p)}
  ELSE {[pcb |-> p, tcp_pcb |-> NULL]}

(* Used by a mutant only: without an argument nothing is done.              *)
ErrorCallbackIgnored(p, b) == {[pcb |-> p, tcp_pcb |-> tcp_pcb]}

(* tcp_error_callback has no argument (there is no tcp_arg), so it leaves   *)
(* the old block alone and starts another connection.  It is called for b   *)
(* only if it was registered.                                               *)
ErrorCallback(p, b) ==
  IF pcb[b].watched THEN ClientInit(p) ELSE {[pcb |-> p, tcp_pcb |-> tcp_pcb]}

----------------------------------------------------------------------------
(* The task, once it has made its first connection attempt.                 *)

Init == \E o \in ClientInit([b \in Block |-> Freed("CLOSED")]) :
  pcb = o.pcb /\ tcp_pcb = o.tcp_pcb

Writable == tcp_pcb # NULL /\ pcb[tcp_pcb].state = "ESTABLISHED"

(* tcp_write takes the sample, or has no room beside older ones.            *)
Write ==
  /\ Writable
  /\ \/ pcb' = [pcb EXCEPT ![tcp_pcb].unacked = TRUE]
     \/ pcb[tcp_pcb].unacked /\ UNCHANGED pcb
  /\ UNCHANGED tcp_pcb

(* Used by a mutant only: a sample that cannot be written starts another    *)
(* connection.                                                              *)
ReconnectWhenFull ==
  /\ Writable => pcb[tcp_pcb].unacked
  /\ \E o \in ClientInit(pcb) : pcb' = o.pcb /\ tcp_pcb' = o.tcp_pcb

Reconnect ==
  /\ ~Writable
  /\ \E o \in ClientInit(pcb) : pcb' = o.pcb /\ tcp_pcb' = o.tcp_pcb

try_tcp_send == Write \/ Reconnect

----------------------------------------------------------------------------
(* lwIP and the callbacks.                                                  *)

(* Used by a mutant only: the error callback is not registered.             *)
ConnectedUnwatched(b) ==
  /\ In(b, "SYN_SENT")
  /\ pcb' = [pcb EXCEPT ![b].state = "ESTABLISHED"]
  /\ UNCHANGED tcp_pcb

tcp_connected_callback(b) ==
  /\ In(b, "SYN_SENT")
  /\ pcb' = [pcb EXCEPT ![b].state = "ESTABLISHED", ![b].watched = TRUE]
  /\ UNCHANGED tcp_pcb

tcp_sent_callback(b) ==
  /\ In(b, "ESTABLISHED") /\ pcb[b].unacked
  /\ pcb' = [pcb EXCEPT ![b].unacked = FALSE]
  /\ UNCHANGED tcp_pcb

(* Used by a mutant only: the closed connection is not closed in return.    *)
ServerClosesHalf(b) ==
  /\ In(b, "ESTABLISHED")
  /\ pcb' = [pcb EXCEPT ![b].state = "CLOSE_WAIT"]
  /\ UNCHANGED tcp_pcb

(* tcp_recv_callback without data: the server has closed, and tcp_close     *)
(* sends the last segment.                                                  *)
ServerCloses(b) ==
  /\ In(b, "ESTABLISHED")
  /\ pcb' = [pcb EXCEPT ![b].state = "LAST_ACK"]
  /\ UNCHANGED tcp_pcb

(* The server acknowledges the end of the connection: b is freed silently.  *)
LastAck(b) ==
  /\ In(b, "LAST_ACK")
  /\ pcb' = [pcb EXCEPT ![b] = Freed("CLOSED")]
  /\ UNCHANGED tcp_pcb

(* The server refuses or resets: lwIP calls back, then frees b.             *)
ServerResets(b) ==
  /\ In(b, "SYN_SENT") \/ In(b, "ESTABLISHED") \/ In(b, "LAST_ACK")
  /\ \E o \in ErrorCallback(pcb, b) :
       pcb' = [o.pcb EXCEPT ![b] = Freed("CLOSED")] /\ tcp_pcb' = o.tcp_pcb

(* No answer to a segment after all its retries: lwIP frees b, its state    *)
(* field as it was, and then calls back.                                    *)
TimesOut(b) ==
  /\ In(b, "SYN_SENT") \/ In(b, "LAST_ACK") \/ (In(b, "ESTABLISHED") /\ pcb[b].unacked)
  /\ \E o \in ErrorCallback([pcb EXCEPT ![b] = Freed(pcb[b].state)], b) :
       pcb' = o.pcb /\ tcp_pcb' = o.tcp_pcb

Lwip(b) ==
  \/ tcp_connected_callback(b) \/ tcp_sent_callback(b) \/ ServerCloses(b)
  \/ LastAck(b) \/ ServerResets(b) \/ TimesOut(b)

Next == try_tcp_send \/ \E b \in Block : Lwip(b)

Spec == Init /\ [][Next]_vars

(* Samples keep coming, lwIP ends what it began, and now and then an        *)
(* attempt works: tcp_connect sends and the server answers in time.  The    *)
(* server never has to close or to reset anything.                          *)
Fairness ==
  /\ WF_vars(try_tcp_send)
  /\ SF_vars(Reconnect /\ tcp_pcb' # NULL /\ pcb'[tcp_pcb'] = New("SYN_SENT"))
  /\ \A b \in Block :
       /\ SF_vars(tcp_pcb = b /\ tcp_connected_callback(b))
       /\ WF_vars(tcp_connected_callback(b) \/ (In(b, "SYN_SENT") /\ TimesOut(b)))
       /\ WF_vars(LastAck(b) \/ (In(b, "LAST_ACK") /\ TimesOut(b)))

FairSpec == Spec /\ Fairness

----------------------------------------------------------------------------
(* Every variable keeps its type.                                           *)
TcpTypeOK == pcb \in [Block -> Contents] /\ tcp_pcb \in Block \cup {NULL}

(* Although tcp_pcb keeps pointing to blocks lwIP has freed, and their      *)
(* state field is read, a sample is written only to a live connection, one  *)
(* whose end will be told (network_task.c:63,73-75,89-103,109,138-142).     *)
WritesToLive == Writable => pcb[tcp_pcb].live /\ pcb[tcp_pcb].watched

Connected == tcp_pcb # NULL /\ In(tcp_pcb, "ESTABLISHED")

(* An established connection leaves tcp_pcb only when the error callback of *)
(* some connection, this or an older one, replaces it: never because a      *)
(* sample could not be written or another attempt came through              *)
(* (network_task.c:70-103,138-151).                                         *)
OnlyErrorsAbandon ==
  [][(Connected /\ tcp_pcb' # tcp_pcb)
       => \E b \in Block : pcb[b].live /\ pcb[b].watched /\ ~pcb'[b].watched]_vars

(* A block nobody frees: its tcp_connect failed, or its connection was      *)
(* replaced in tcp_pcb while it was up or before it came up.                *)
Abandoned(b) == b # tcp_pcb /\ (In(b, "CLOSED") \/ In(b, "ESTABLISHED"))

(* As long as an attempt works now and then, the task is connected again    *)
(* and again, whatever broke before, unless in the end every block of the   *)
(* pool is abandoned (network_task.c:49-68,89-103,146-150).                 *)
ReportsResume == []<>Connected \/ <>[](\A b \in Block : Abandoned(b))

(* "Measurements are sent to a server via tcp" (README.md:10): under the    *)
(* same conditions they are always sent again.                              *)
MeasurementsAreSent == []<>Connected
=============================================================================
