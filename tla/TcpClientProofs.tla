--------------------------- MODULE TcpClientProofs ---------------------------
(***************************************************************************)
(* Proofs about the connection blocks, for every size of the pool.         *)
(***************************************************************************)
EXTENDS TcpClient, TLAPS

(* What an attempt leaves in the block it took.                             *)
Fresh == {Freed("CLOSED"), New("CLOSED"), New("SYN_SENT")}

LEMMA FreshContents ==
  /\ Fresh \subseteq Contents
  /\ \A r \in Fresh : ~r.watched /\ r.state # "ESTABLISHED"
  BY DEF Fresh, Freed, New, Contents

(* An outcome o of tcp_client_init on the blocks p: other blocks are as     *)
(* before or hold a failed attempt, and tcp_pcb points to an attempt.       *)
Outcome(p, o) ==
  /\ o.pcb \in [Block -> Contents] /\ o.tcp_pcb \in Block \cup {NULL}
  /\ \A b \in Block : o.pcb[b] = p[b] \/ o.pcb[b] \in Fresh
  /\ \A b \in Block : o.tcp_pcb = b => o.pcb[b] \in Fresh

LEMMA AttemptOutcome ==
  ASSUME NEW p \in [Block -> Contents], NEW c \in Block, NEW o \in Attempt(p, c)
  PROVE  /\ o.pcb \in [Block -> Contents] /\ o.tcp_pcb = c
         /\ \A b \in Block : o.pcb[b] = p[b] \/ o.pcb[b] \in Fresh
         /\ o.pcb[c] \in Fresh
<1>1. PICK r \in Fresh : o = [pcb |-> [p EXCEPT ![c] = r], tcp_pcb |-> c]
  BY DEF Attempt, Fresh
<1>2. o.pcb = [p EXCEPT ![c] = r] /\ o.tcp_pcb = c
  BY <1>1
<1>3. r \in Contents
  BY FreshContents
<1> QED
  BY <1>2, <1>3

LEMMA ReenterOutcome ==
  ASSUME NEW p \in [Block -> Contents], NEW c \in Block, NEW o \in Reenter(p, c)
  PROVE  Outcome(p, o)
<1>1. PICK q \in Attempt(p, c) :
        o \in (IF q.pcb[c].live THEN {[q EXCEPT !.tcp_pcb = NULL]}
                                ELSE Attempt(q.pcb, c))
  BY DEF Reenter
<1>2. /\ q.pcb \in [Block -> Contents] /\ q.tcp_pcb = c
      /\ \A b \in Block : q.pcb[b] = p[b] \/ q.pcb[b] \in Fresh
  BY AttemptOutcome
<1>3. CASE q.pcb[c].live
  <2>1. o = [q EXCEPT !.tcp_pcb = NULL]
    BY <1>1, <1>3
  <2>2. PICK r \in Fresh : q = [pcb |-> [p EXCEPT ![c] = r], tcp_pcb |-> c]
    BY DEF Attempt, Fresh
  <2>3. o.pcb = q.pcb /\ o.tcp_pcb = NULL
    BY <2>1, <2>2
  <2> QED
    BY <1>2, <2>3, NullAssumption DEF Outcome
<1>4. CASE ~q.pcb[c].live
  <2>1. o \in Attempt(q.pcb, c)
    BY <1>1, <1>4
  <2>2. /\ o.pcb \in [Block -> Contents] /\ o.tcp_pcb = c
        /\ \A b \in Block : o.pcb[b] = q.pcb[b] \/ o.pcb[b] \in Fresh
        /\ o.pcb[c] \in Fresh
    BY <1>2, <2>1, AttemptOutcome
  <2> QED
    BY <1>2, <2>2 DEF Outcome
<1> QED
  BY <1>3, <1>4

LEMMA ClientInitOutcome ==
  ASSUME NEW p \in [Block -> Contents], NEW o \in ClientInit(p)
  PROVE  Outcome(p, o)
<1>1. CASE Unused(p) # {}
  <2>1. PICK c \in Unused(p) : o \in Attempt(p, c)
    BY <1>1 DEF ClientInit
  <2> QED
    BY <2>1, AttemptOutcome DEF Unused, Outcome
<1>2. CASE Unused(p) = {} /\ Closing(p) # {}
  <2>1. PICK c \in Closing(p) : o \in Reenter(p, c)
    BY <1>2 DEF ClientInit
  <2> QED
    BY <2>1, ReenterOutcome DEF Closing
<1>3. CASE Unused(p) = {} /\ Closing(p) = {}
  <2>1. o = [pcb |-> p, tcp_pcb |-> NULL]
    BY <1>3 DEF ClientInit
  <2> QED
    BY <2>1, NullAssumption DEF Outcome
<1> QED
  BY <1>1, <1>2, <1>3

----------------------------------------------------------------------------
(* The inductive invariant: only live connections are watched, and a live   *)
(* one that is up is; and although a block that timed out keeps the state   *)
(* it had, tcp_pcb does not point to one that was up.                       *)
BlockInv ==
  \A b \in Block :
    /\ pcb[b].watched => pcb[b].live
    /\ pcb[b].live /\ pcb[b].state = "ESTABLISHED" => pcb[b].watched
    /\ tcp_pcb = b /\ pcb[b].state = "ESTABLISHED" => pcb[b].live

IInv == TcpTypeOK /\ BlockInv

(* tcp_client_init keeps the invariant on blocks p of which only those      *)
(* tcp_pcb points to may be at fault.                                       *)
LEMMA ClientInitStep ==
  ASSUME NEW p \in [Block -> Contents],
         \A b \in Block : /\ p[b].watched => p[b].live
                          /\ p[b].live /\ p[b].state = "ESTABLISHED" => p[b].watched,
         NEW o \in ClientInit(p)
  PROVE  /\ o.pcb \in [Block -> Contents] /\ o.tcp_pcb \in Block \cup {NULL}
         /\ \A b \in Block :
              /\ o.pcb[b].watched => o.pcb[b].live
              /\ o.pcb[b].live /\ o.pcb[b].state = "ESTABLISHED" => o.pcb[b].watched
              /\ o.tcp_pcb = b => o.pcb[b].state # "ESTABLISHED"
              /\ o.pcb[b].watched => p[b].watched
  BY ClientInitOutcome, FreshContents DEF Outcome

LEMMA FreedContents ==
  \A state \in {"CLOSED", "SYN_SENT", "ESTABLISHED", "LAST_ACK"} :
    /\ Freed(state) \in Contents
    /\ ~Freed(state).watched /\ ~Freed(state).live /\ Freed(state).state = state
  BY DEF Freed, Contents

LEMMA InitStep == Init => IInv
<1> SUFFICES ASSUME Init PROVE IInv
  OBVIOUS
<1> DEFINE p == [b \in Block |-> Freed("CLOSED")]
<1>1. PICK o \in ClientInit(p) : pcb = o.pcb /\ tcp_pcb = o.tcp_pcb
  BY DEF Init
<1>2. p \in [Block -> Contents]
  BY FreedContents
<1>3. \A b \in Block : ~p[b].watched /\ ~p[b].live
  BY FreedContents
<1> HIDE DEF p
<1> QED
  BY <1>1, <1>2, <1>3, ClientInitStep DEF IInv, TcpTypeOK, BlockInv

(* What a callback for b does through tcp_error_callback.                   *)
LEMMA ErrorStep ==
  ASSUME IInv, NEW p \in [Block -> Contents], NEW b \in Block,
         \A c \in Block : p[c] = pcb[c] \/ (c = b /\ p[c] = Freed(pcb[c].state)),
         NEW o \in ErrorCallback(p, b)
  PROVE  /\ o.pcb \in [Block -> Contents] /\ o.tcp_pcb \in Block \cup {NULL}
         /\ \A c \in Block :
              /\ o.pcb[c].watched => o.pcb[c].live
              /\ o.pcb[c].live /\ o.pcb[c].state = "ESTABLISHED" => o.pcb[c].watched
              /\ o.tcp_pcb = c /\ o.pcb[c].state = "ESTABLISHED"
                   => p[c].state = "ESTABLISHED" /\ tcp_pcb = c /\ ~pcb[b].watched
              /\ o.pcb[c] = p[c] \/ pcb[b].watched
              /\ o.pcb[c].watched => p[c].watched
         /\ o.tcp_pcb # tcp_pcb => pcb[b].watched
<1>1. \A c \in Block : pcb[c] \in Contents
  BY DEF IInv, TcpTypeOK
<1>2. \A c \in Block : /\ p[c].watched => p[c].live
                       /\ p[c].live /\ p[c].state = "ESTABLISHED" => p[c].watched
  <2> SUFFICES ASSUME NEW c \in Block
               PROVE  /\ p[c].watched => p[c].live
                      /\ p[c].live /\ p[c].state = "ESTABLISHED" => p[c].watched
    OBVIOUS
  <2>1. CASE p[c] = pcb[c]
    BY <2>1 DEF IInv, BlockInv
  <2>2. CASE p[c] = Freed(pcb[c].state)
    BY <2>2 DEF Freed
  <2> QED
    BY <2>1, <2>2
<1>3. CASE pcb[b].watched
  <2>1. o \in ClientInit(p)
    BY <1>3 DEF ErrorCallback
  <2> QED
    BY <1>2, <1>3, <2>1, ClientInitStep
<1>4. CASE ~pcb[b].watched
  <2>1. o = [pcb |-> p, tcp_pcb |-> tcp_pcb]
    BY <1>4 DEF ErrorCallback
  <2> QED
    BY <1>2, <1>4, <2>1 DEF IInv, TcpTypeOK
<1> QED
  BY <1>3, <1>4

LEMMA NextStep == IInv /\ [Next]_vars => IInv'
<1> SUFFICES ASSUME IInv, [Next]_vars PROVE IInv'
  OBVIOUS
<1>1. /\ pcb \in [Block -> Contents] /\ tcp_pcb \in Block \cup {NULL}
      /\ \A b \in Block : /\ pcb[b].watched => pcb[b].live
                          /\ pcb[b].live /\ pcb[b].state = "ESTABLISHED" => pcb[b].watched
  BY DEF IInv, TcpTypeOK, BlockInv
<1>2. CASE Write
  <2>1. CASE pcb' = [pcb EXCEPT ![tcp_pcb].unacked = TRUE] /\ UNCHANGED tcp_pcb
    <3>1. tcp_pcb \in Block
      BY <1>1, <1>2 DEF Write, Writable
    <3> QED
      BY <1>1, <2>1, <3>1 DEF IInv, TcpTypeOK, BlockInv, Contents
  <2>2. CASE UNCHANGED <<pcb, tcp_pcb>>
    BY <2>2 DEF IInv, TcpTypeOK, BlockInv
  <2> QED
    BY <1>2, <2>1, <2>2 DEF Write
<1>3. CASE Reconnect
  <2>1. PICK o \in ClientInit(pcb) : pcb' = o.pcb /\ tcp_pcb' = o.tcp_pcb
    BY <1>3 DEF Reconnect
  <2> QED
    BY <1>1, <2>1, ClientInitStep DEF IInv, TcpTypeOK, BlockInv
<1>4. ASSUME NEW b \in Block, tcp_connected_callback(b) PROVE IInv'
  <2>1. pcb[b].live
    BY <1>4 DEF tcp_connected_callback, In
  <2>2. /\ pcb' = [pcb EXCEPT ![b].state = "ESTABLISHED", ![b].watched = TRUE]
        /\ tcp_pcb' = tcp_pcb
    BY <1>4 DEF tcp_connected_callback
  <2> QED
    BY <1>1, <2>1, <2>2 DEF IInv, TcpTypeOK, BlockInv, Contents
<1>5. ASSUME NEW b \in Block, tcp_sent_callback(b) PROVE IInv'
  BY <1>1, <1>5 DEF tcp_sent_callback, IInv, TcpTypeOK, BlockInv, Contents
<1>6. ASSUME NEW b \in Block, ServerCloses(b) PROVE IInv'
  BY <1>1, <1>6 DEF ServerCloses, In, IInv, TcpTypeOK, BlockInv, Contents
<1>7. ASSUME NEW b \in Block, LastAck(b) PROVE IInv'
  BY <1>1, <1>7 DEF LastAck, Freed, IInv, TcpTypeOK, BlockInv, Contents
<1>8. ASSUME NEW b \in Block, ServerResets(b) PROVE IInv'
  <2>1. PICK o \in ErrorCallback(pcb, b) :
          pcb' = [o.pcb EXCEPT ![b] = Freed("CLOSED")] /\ tcp_pcb' = o.tcp_pcb
    BY <1>8 DEF ServerResets
  <2>2. /\ o.pcb \in [Block -> Contents] /\ o.tcp_pcb \in Block \cup {NULL}
        /\ \A c \in Block :
             /\ o.pcb[c].watched => o.pcb[c].live
             /\ o.pcb[c].live /\ o.pcb[c].state = "ESTABLISHED" => o.pcb[c].watched
             /\ o.tcp_pcb = c /\ o.pcb[c].state = "ESTABLISHED"
                  => pcb[c].state = "ESTABLISHED" /\ tcp_pcb = c /\ ~pcb[b].watched
             /\ o.pcb[c] = pcb[c] \/ pcb[b].watched
    BY <1>1, ErrorStep
  <2>3. \A c \in Block : o.tcp_pcb = c /\ o.pcb[c].state = "ESTABLISHED" => o.pcb[c].live
    BY <2>2 DEF IInv, BlockInv
  <2> QED
    BY <2>1, <2>2, <2>3, FreedContents DEF IInv, TcpTypeOK, BlockInv
<1>9. ASSUME NEW b \in Block, TimesOut(b) PROVE IInv'
  <2> DEFINE p == [pcb EXCEPT ![b] = Freed(pcb[b].state)]
  <2>1. PICK o \in ErrorCallback(p, b) : pcb' = o.pcb /\ tcp_pcb' = o.tcp_pcb
    BY <1>9 DEF TimesOut
  <2>2. p \in [Block -> Contents]
    BY <1>1 DEF Freed, Contents
  <2>3. \A c \in Block : p[c] = pcb[c] \/ (c = b /\ p[c] = Freed(pcb[c].state))
    BY <1>1
  <2>4. \A c \in Block : c # b => p[c] = pcb[c]
    BY <1>1
  <2>5. p[b].state = pcb[b].state
    BY <1>1 DEF Freed
  <2> HIDE DEF p
  <2>6. /\ o.pcb \in [Block -> Contents] /\ o.tcp_pcb \in Block \cup {NULL}
        /\ \A c \in Block :
             /\ o.pcb[c].watched => o.pcb[c].live
             /\ o.pcb[c].live /\ o.pcb[c].state = "ESTABLISHED" => o.pcb[c].watched
             /\ o.tcp_pcb = c /\ o.pcb[c].state = "ESTABLISHED"
                  => p[c].state = "ESTABLISHED" /\ tcp_pcb = c /\ ~pcb[b].watched
             /\ o.pcb[c] = p[c] \/ pcb[b].watched
    BY <2>2, <2>3, ErrorStep
  <2>7. pcb[b].state = "ESTABLISHED" => pcb[b].watched
    BY <1>1, <1>9 DEF TimesOut, In
  <2>8. \A c \in Block : o.tcp_pcb = c /\ o.pcb[c].state = "ESTABLISHED" => o.pcb[c].live
    BY <2>4, <2>5, <2>6, <2>7 DEF IInv, BlockInv
  <2> QED
    BY <2>1, <2>6, <2>8 DEF IInv, TcpTypeOK, BlockInv
<1>10. CASE UNCHANGED vars
  BY <1>10 DEF vars, IInv, TcpTypeOK, BlockInv
<1> QED
  BY <1>2, <1>3, <1>4, <1>5, <1>6, <1>7, <1>8, <1>9, <1>10 DEF Next, try_tcp_send, Lwip

LEMMA Invariance == Spec => []IInv
  BY InitStep, NextStep, PTL DEF Spec

(* Every variable keeps its type, whatever the size of the pool.            *)
THEOREM TcpTypeCorrect == Spec => []TcpTypeOK
<1>1. IInv => TcpTypeOK
  BY DEF IInv
<1> QED
  BY <1>1, Invariance, PTL

(* A sample is written only to a live connection whose end will be told,    *)
(* although tcp_pcb points to freed blocks for a while and their state is   *)
(* read (network_task.c:63,73-75,89-103,109,138-142).                       *)
THEOREM WritesToLiveHolds == Spec => []WritesToLive
<1>1. IInv => WritesToLive
  BY DEF IInv, TcpTypeOK, BlockInv, WritesToLive, Writable
<1> QED
  BY <1>1, Invariance, PTL

(* An established connection leaves tcp_pcb only with the error of some     *)
(* connection (network_task.c:70-103,138-151).                              *)
THEOREM OnlyErrorsAbandonHolds == Spec => OnlyErrorsAbandon
<1>1. IInv /\ [Next]_vars =>
        [(Connected /\ tcp_pcb' # tcp_pcb)
           => \E b \in Block : pcb[b].live /\ pcb[b].watched /\ ~pcb'[b].watched]_vars
  <2> SUFFICES ASSUME IInv, Next, Connected, tcp_pcb' # tcp_pcb
               PROVE  \E b \in Block : pcb[b].live /\ pcb[b].watched /\ ~pcb'[b].watched
    BY DEF vars
  <2>1. pcb \in [Block -> Contents] /\ \A c \in Block : pcb[c].watched => pcb[c].live
    BY DEF IInv, TcpTypeOK, BlockInv
  <2>2. ~Reconnect /\ ~Write
    BY DEF Reconnect, Write, Writable, Connected, In
  <2>3. PICK b \in Block : ServerResets(b) \/ TimesOut(b)
    BY <2>2 DEF Next, try_tcp_send, Lwip, tcp_connected_callback, tcp_sent_callback,
       ServerCloses, LastAck
  <2>4. CASE ServerResets(b)
    <3>1. PICK o \in ErrorCallback(pcb, b) :
            pcb' = [o.pcb EXCEPT ![b] = Freed("CLOSED")] /\ tcp_pcb' = o.tcp_pcb
      BY <2>4 DEF ServerResets
    <3>2. o.pcb \in [Block -> Contents] /\ pcb[b].watched
      BY <2>1, <3>1, ErrorStep
    <3> QED
      BY <2>1, <3>1, <3>2, FreedContents
  <2>5. CASE TimesOut(b)
    <3> DEFINE p == [pcb EXCEPT ![b] = Freed(pcb[b].state)]
    <3>1. PICK o \in ErrorCallback(p, b) : pcb' = o.pcb /\ tcp_pcb' = o.tcp_pcb
      BY <2>5 DEF TimesOut
    <3>2. p \in [Block -> Contents]
      BY <2>1 DEF Freed, Contents
    <3>3. \A c \in Block : p[c] = pcb[c] \/ (c = b /\ p[c] = Freed(pcb[c].state))
      BY <2>1
    <3>4. ~p[b].watched
      BY <2>1 DEF Freed
    <3> HIDE DEF p
    <3>5. pcb[b].watched /\ ~o.pcb[b].watched
      BY <3>1, <3>2, <3>3, <3>4, ErrorStep
    <3> QED
      BY <2>1, <3>1, <3>5
  <2> QED
    BY <2>3, <2>4, <2>5
<1> QED
  BY <1>1, Invariance, PTL DEF Spec, OnlyErrorsAbandon
=============================================================================
