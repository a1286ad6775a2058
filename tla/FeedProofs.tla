----------------------------- MODULE FeedProofs -----------------------------
(***************************************************************************)
(* Firmware implements SampleFeed for both consumers of the samples.       *)
(***************************************************************************)
EXTENDS FirmwareProofs

----------------------------------------------------------------------------
(* The sample in hand stands before the queue.                              *)

Sample == Nat \ {0}

LEMMA InHandType ==
  ASSUME NEW q \in Seq(Sample), NEW s \in Nat
  PROVE  /\ InHand(s) \o q \in Seq(Sample)
         /\ s = 0 => Len(InHand(s) \o q) = Len(q)
         /\ s # 0 => Len(InHand(s) \o q) = Len(q) + 1
<1>1. CASE s = 0 BY <1>1 DEF InHand, Sample
<1>2. CASE s # 0 BY <1>2 DEF InHand, Sample
<1> QED BY <1>1, <1>2

LEMMA InHandAppend ==
  ASSUME NEW q \in Seq(Sample), NEW s \in Nat, NEW x \in Sample
  PROVE  InHand(s) \o Append(q, x) = Append(InHand(s) \o q, x)
  BY DEF InHand, Sample

LEMMA InHandReceive ==
  ASSUME NEW q \in Seq(Sample), q # <<>>
  PROVE  InHand(Head(q)) \o Tail(q) = InHand(0) \o q
<1>1. Head(q) # 0 /\ <<Head(q)>> \o Tail(q) = q /\ <<>> \o q = q
  BY DEF Sample
<1> QED BY <1>1 DEF InHand

LEMMA InHandDeliver ==
  ASSUME NEW q \in Seq(Sample), NEW s \in Sample
  PROVE  /\ InHand(s) \o q # <<>>
         /\ Head(InHand(s) \o q) = s
         /\ Tail(InHand(s) \o q) = InHand(0) \o q
<1>1. Head(<<s>> \o q) = s /\ Tail(<<s>> \o q) = q /\ <<s>> \o q # <<>>
  BY DEF Sample
<1>2. <<>> \o q = q
  BY DEF Sample
<1> QED BY <1>1, <1>2 DEF InHand, Sample

(* A send to a queue accepts the sample when fewer than length others wait, *)
(* drops it when at least length others do, and may do either in between.   *)
LEMMA InHandSend ==
  ASSUME NEW length \in Nat \ {0}, NEW q \in Seq(Sample), Len(q) <= length,
         NEW s \in Nat, NEW x \in Sample
  PROVE  \/ /\ Len(InHand(s) \o q) <= length
            /\ InHand(s) \o SendToBack(q, x, length) = Append(InHand(s) \o q, x)
         \/ /\ Len(InHand(s) \o q) >= length
            /\ InHand(s) \o SendToBack(q, x, length) = InHand(s) \o q
<1>0. Len(q) \in Nat
  BY DEF Sample
<1>1. CASE Len(q) < length
  <2>1. SendToBack(q, x, length) = Append(q, x)
    BY <1>1 DEF SendToBack
  <2>2. Len(InHand(s) \o q) <= length
    <3>1. Len(InHand(s) \o q) = Len(q) \/ Len(InHand(s) \o q) = Len(q) + 1
      BY InHandType
    <3> QED BY <1>0, <1>1, <3>1
  <2> QED BY <2>1, <2>2, InHandAppend
<1>2. CASE ~(Len(q) < length)
  <2>1. SendToBack(q, x, length) = q
    BY <1>2 DEF SendToBack
  <2>2. Len(InHand(s) \o q) >= length
    BY <1>0, <1>2, InHandType
  <2> QED BY <2>1, <2>2
<1> QED BY <1>1, <1>2

----------------------------------------------------------------------------
(* A task has a sample in hand exactly between its receive and its use.     *)

HandInv ==
  /\ drawing # 0 <=> pc["disp"] = "disp_draw"
  /\ data # 0 <=> pc["net"] \in {"net_begin", "net_send"}

LEMMA HandStep == ASSUME IInv, HandInv, [Next]_vars PROVE HandInv'
<1> USE DEF IInv, TypeOK, ControlOK, HandInv, Context, Task
<1>1. CASE Read
  <2>1. pc'["disp"] = pc["disp"] /\ pc'["net"] = pc["net"]
    BY <1>1 DEF Read, ReadStep, ReadStart, ScdInit, ScdInitFails, ReadDelete,
                Poll, Measure, Publish, NextRound, Goto
  <2> QED BY <1>1, <2>1 DEF Read, dispVars, netVars
<1>2. CASE Disp
  <2>0. pc'["net"] = pc["net"] /\ data' = data
    BY <1>2 DEF Disp, DispStep, DispStart, DispFirstFrame, DispCommand,
                DispTimeout, DispBrightness, DispFlag, DispReceive, DispDraw,
                Goto, netVars
  <2> USE DEF Goto, dispVars
  <2>1. CASE DispReceive
    <3>1. Head(display_queue) # 0
      BY <2>1 DEF DispReceive, DataOK
    <3> QED BY <2>0, <2>1, <3>1 DEF DispReceive
  <2>2. CASE DispDraw BY <2>0, <2>2 DEF DispDraw
  <2>3. CASE ~DispReceive /\ ~DispDraw
    BY <1>2, <2>0, <2>3 DEF Disp, DispStep, DispStart, DispFirstFrame, DispCommand,
                DispTimeout, DispBrightness, DispFlag
  <2> QED BY <2>1, <2>2, <2>3
<1>3. CASE Net
  <2>0. pc'["disp"] = pc["disp"] /\ drawing' = drawing
    BY <1>3 DEF Net, NetStep, NetStart, NetClientInit, NetConnect, NetArm, NetReceive,
                NetBegin, TryTcpSend, NetEnd, Goto, dispVars
  <2> USE DEF Goto, netVars
  <2>1. CASE NetReceive
    <3>1. Head(network_queue) # 0
      BY <2>1 DEF NetReceive, DataOK
    <3> QED BY <2>0, <2>1, <3>1 DEF NetReceive
  <2>2. CASE TryTcpSend BY <2>0, <2>2 DEF TryTcpSend
  <2>3. CASE ~NetReceive /\ ~TryTcpSend
    BY <1>3, <2>0, <2>3 DEF Net, NetStep, NetStart, NetClientInit, NetConnect, NetArm,
                            NetBegin, NetEnd
  <2> QED BY <2>1, <2>2, <2>3
<1>4. CASE Log
  <2>1. pc'["disp"] = pc["disp"] /\ pc'["net"] = pc["net"]
    BY <1>4 DEF Log, LogStep, LogReceive, LogBegin, LogSend, Goto
  <2> QED BY <1>4, <2>1 DEF Log, dispVars, netVars
<1>5. CASE Isr
  BY <1>5 DEF Isr, IsrStep, NotifyDisplay, IsrReturn, IsrUnchanged, dispVars
<1>6. CASE TcpCallback
  BY <1>6 DEF TcpCallback, Callback, TcpLogCallback, TcpErrorCallback,
              TcpRecvCommand, Interrupt, IsrUnchanged, dispVars
<1>7. CASE Reset
  BY <1>7 DEF Reset, KernelRestart, DispRestart, NetRestart, EntryPoints
<1>8. CASE Wake \/ \E c \in Context : WriteLog(c)
  BY <1>8 DEF Wake, DelayEnds, WriteLog, ULog, dispVars, netVars
<1>9. CASE UNCHANGED vars
  BY <1>9 DEF vars, kernelVars, dispVars, netVars
<1> QED
  BY <1>1, <1>2, <1>3, <1>4, <1>5, <1>6, <1>7, <1>8, <1>9 DEF Next

FInv == IInv /\ HandInv

LEMMA InitFInv == ASSUME Init PROVE FInv
<1>1. HandInv
  BY DEF Init, KernelInit, DispInit, NetInit, EntryPoints, HandInv
<1> QED BY <1>1, InitIInv DEF FInv

LEMMA NextFInv == ASSUME FInv, [Next]_vars PROVE FInv'
  BY NextIInv, HandStep DEF FInv

----------------------------------------------------------------------------
(* The display's feed.                                                      *)

LEMMA DisplayStep == ASSUME FInv, [Next]_vars PROVE [DisplayFeed!Next]_(DisplayFeed!vars)
<1> USE DEF FInv, IInv, TypeOK, DataOK
<1>1. CASE Publish /\ Read
  <2>1. taken' = taken + 1 /\ taken' \in Sample
    BY <1>1 DEF Publish, Sample
  <2>2. UNCHANGED <<drawing, shown, resets>>
    BY <1>1 DEF Read, dispVars
  <2>3. display_queue' = SendToBack(display_queue, taken', DISPLAY_QUEUE_LENGTH)
    BY <1>1 DEF Publish
  <2>4. DisplayFeed!Accept \/ DisplayFeed!Drop
    <3> HIDE DEF FInv, IInv, TypeOK, DataOK
    <3>0. /\ display_queue \in Seq(Sample) /\ Len(display_queue) <= DISPLAY_QUEUE_LENGTH
          /\ drawing \in Nat /\ DISPLAY_QUEUE_LENGTH \in Nat \ {0}
      BY QueueLengths DEF FInv, IInv, TypeOK, DataOK, Sample
    <3>1. \/ /\ Len(InHand(drawing) \o display_queue) <= DISPLAY_QUEUE_LENGTH
             /\ InHand(drawing) \o display_queue' = Append(InHand(drawing) \o display_queue, taken')
          \/ /\ Len(InHand(drawing) \o display_queue) >= DISPLAY_QUEUE_LENGTH
             /\ InHand(drawing) \o display_queue' = InHand(drawing) \o display_queue
      BY <2>1, <2>3, <3>0, InHandSend, Zenon
    <3>2. InHand(drawing') \o display_queue' = InHand(drawing) \o display_queue'
      BY <2>2
    <3> QED
      BY <2>1, <2>2, <3>1, <3>2 DEF DisplayFeed!Accept, DisplayFeed!Drop
  <2> QED BY <2>4 DEF DisplayFeed!Next
<1>2. CASE DispReceive /\ Disp
  <2>1. drawing = 0
    BY <1>2 DEF DispReceive, Goto, HandInv
  <2>2. InHand(drawing') \o display_queue' = InHand(drawing) \o display_queue
    BY <1>2, <2>1, InHandReceive DEF DispReceive, Sample
  <2>3. UNCHANGED <<taken, shown, resets>>
    BY <1>2 DEF Disp, DispReceive
  <2> QED BY <2>2, <2>3 DEF DisplayFeed!vars
<1>3. CASE DispDraw /\ Disp
  <2>1. drawing \in Sample
    BY <1>3 DEF DispDraw, Goto, HandInv, Sample
  <2>2. UNCHANGED <<taken, resets, display_queue>> /\ shown' = drawing /\ drawing' = 0
    BY <1>3 DEF Disp, DispDraw
  <2>3. DisplayFeed!Deliver
    BY <2>1, <2>2, InHandDeliver DEF DisplayFeed!Deliver, Sample
  <2> QED BY <2>3 DEF DisplayFeed!Next
<1>4. CASE Reset
  <2>1. UNCHANGED <<taken, shown>> /\ resets' = resets + 1
    BY <1>4 DEF Reset
  <2>2. InHand(drawing') \o display_queue' = <<>>
    BY <1>4 DEF Reset, KernelRestart, DispRestart, InHand
  <2>3. DisplayFeed!Crash
    BY <2>1, <2>2 DEF DisplayFeed!Crash
  <2> QED BY <2>3 DEF DisplayFeed!Next
<1>5. CASE UNCHANGED <<taken, drawing, display_queue, shown, resets>>
  BY <1>5 DEF DisplayFeed!vars
<1>6. CASE Read /\ ~Publish
  BY <1>5, <1>6 DEF Read, ReadStep, ReadStart, ScdInit, ScdInitFails, ReadDelete,
                    Poll, Measure, NextRound, dispVars
<1>7. CASE Disp /\ ~DispReceive /\ ~DispDraw
  BY <1>5, <1>7 DEF Disp, DispStep, DispStart, DispFirstFrame, DispCommand,
                    DispTimeout, DispBrightness, DispFlag, dispVars
<1>8. CASE Net
  BY <1>5, <1>8 DEF Net, NetStep, NetStart, NetClientInit, NetConnect, NetArm, NetReceive,
                    NetBegin, TryTcpSend, NetEnd, NetUnchanged, dispVars
<1>9. CASE Log
  BY <1>5, <1>9 DEF Log, LogStep, LogReceive, LogBegin, LogSend, LogUnchanged,
                    dispVars
<1>10. CASE Isr
  BY <1>5, <1>10 DEF Isr, IsrStep, NotifyDisplay, IsrReturn, IsrUnchanged, dispVars
<1>11. CASE TcpCallback
  BY <1>5, <1>11 DEF TcpCallback, Callback, TcpLogCallback, TcpErrorCallback,
                     TcpRecvCommand, IsrUnchanged, dispVars
<1>12. CASE Wake \/ \E c \in Context : WriteLog(c)
  BY <1>5, <1>12 DEF Wake, DelayEnds, WriteLog, ULog, dispVars
<1>13. CASE UNCHANGED vars
  BY <1>5, <1>13 DEF vars, kernelVars, dispVars
<1> QED
  BY <1>1, <1>2, <1>3, <1>4, <1>6, <1>7, <1>8, <1>9, <1>10, <1>11, <1>12, <1>13
     DEF Next

(* The display is a lossless, ordered consumer but for a full queue and for *)
(* resets.                                                                  *)
THEOREM DisplayInOrderHolds == Spec => DisplayInOrder
<1>1. Init => FInv /\ DisplayFeed!Init
  <2>1. Init => DisplayFeed!Init
    BY DEF Init, KernelInit, DispInit, DisplayFeed!Init, InHand
  <2> QED BY <2>1, InitFInv
<1>2. FInv /\ [Next]_vars => FInv'
  BY NextFInv
<1>3. FInv /\ [Next]_vars => [DisplayFeed!Next]_(DisplayFeed!vars)
  BY DisplayStep
<1> QED BY <1>1, <1>2, <1>3, PTL DEF Spec, DisplayInOrder, DisplayFeed!Spec

----------------------------------------------------------------------------
(* The server's feed.                                                       *)

LEMMA NetworkStep == ASSUME FInv, [Next]_vars PROVE [NetworkFeed!Next]_(NetworkFeed!vars)
<1> USE DEF FInv, IInv, TypeOK, DataOK
<1>1. CASE Publish /\ Read
  <2>1. taken' = taken + 1 /\ taken' \in Sample
    BY <1>1 DEF Publish, Sample
  <2>2. UNCHANGED <<data, sent, resets>>
    BY <1>1 DEF Read, netVars
  <2>3. network_queue' = SendToBack(network_queue, taken', NETWORK_QUEUE_LENGTH)
    BY <1>1 DEF Publish
  <2>4. NetworkFeed!Accept \/ NetworkFeed!Drop
    <3> HIDE DEF FInv, IInv, TypeOK, DataOK
    <3>0. /\ network_queue \in Seq(Sample) /\ Len(network_queue) <= NETWORK_QUEUE_LENGTH
          /\ data \in Nat /\ NETWORK_QUEUE_LENGTH \in Nat \ {0}
      BY QueueLengths DEF FInv, IInv, TypeOK, DataOK, Sample
    <3>1. \/ /\ Len(InHand(data) \o network_queue) <= NETWORK_QUEUE_LENGTH
             /\ InHand(data) \o network_queue' = Append(InHand(data) \o network_queue, taken')
          \/ /\ Len(InHand(data) \o network_queue) >= NETWORK_QUEUE_LENGTH
             /\ InHand(data) \o network_queue' = InHand(data) \o network_queue
      BY <2>1, <2>3, <3>0, InHandSend, Zenon
    <3>2. InHand(data') \o network_queue' = InHand(data) \o network_queue'
      BY <2>2
    <3> QED
      BY <2>1, <2>2, <3>1, <3>2 DEF NetworkFeed!Accept, NetworkFeed!Drop
  <2> QED BY <2>4 DEF NetworkFeed!Next
<1>2. CASE NetReceive /\ Net
  <2>1. data = 0
    BY <1>2 DEF NetReceive, Goto, HandInv
  <2>2. InHand(data') \o network_queue' = InHand(data) \o network_queue
    BY <1>2, <2>1, InHandReceive DEF NetReceive, Sample
  <2>3. UNCHANGED <<taken, sent, resets>>
    BY <1>2 DEF Net, NetReceive
  <2> QED BY <2>2, <2>3 DEF NetworkFeed!vars
<1>3. CASE TryTcpSend /\ Net
  <2>1. data \in Sample
    BY <1>3 DEF TryTcpSend, Goto, HandInv, Sample
  <2>2. UNCHANGED <<taken, resets, network_queue>> /\ data' = 0
        /\ (sent' = data \/ sent' = sent)
    BY <1>3 DEF Net, TryTcpSend
  <2>3. NetworkFeed!Deliver \/ NetworkFeed!Lose
    BY <2>1, <2>2, InHandDeliver
       DEF NetworkFeed!Deliver, NetworkFeed!Lose, Sample
  <2> QED BY <2>3 DEF NetworkFeed!Next
<1>4. CASE Reset
  <2>1. UNCHANGED <<taken, sent>> /\ resets' = resets + 1
    BY <1>4 DEF Reset
  <2>2. InHand(data') \o network_queue' = <<>>
    BY <1>4 DEF Reset, KernelRestart, NetRestart, InHand
  <2>3. NetworkFeed!Crash
    BY <2>1, <2>2 DEF NetworkFeed!Crash
  <2> QED BY <2>3 DEF NetworkFeed!Next
<1>5. CASE UNCHANGED <<taken, data, network_queue, sent, resets>>
  BY <1>5 DEF NetworkFeed!vars
<1>6. CASE Read /\ ~Publish
  BY <1>5, <1>6 DEF Read, ReadStep, ReadStart, ScdInit, ScdInitFails, ReadDelete,
                    Poll, Measure, NextRound, netVars
<1>7. CASE Disp
  BY <1>5, <1>7 DEF Disp, DispStep, DispStart, DispFirstFrame, DispCommand,
                    DispTimeout, DispBrightness, DispFlag, DispReceive, DispDraw,
                    DispUnchanged, netVars
<1>8. CASE Net /\ ~NetReceive /\ ~TryTcpSend
  BY <1>5, <1>8 DEF Net, NetStep, NetStart, NetClientInit, NetConnect, NetArm, NetBegin,
                    NetEnd, netVars
<1>9. CASE Log
  BY <1>5, <1>9 DEF Log, LogStep, LogReceive, LogBegin, LogSend, LogUnchanged,
                    netVars
<1>10. CASE Isr
  BY <1>5, <1>10 DEF Isr, IsrStep, NotifyDisplay, IsrReturn, IsrUnchanged
<1>11. CASE TcpCallback
  BY <1>5, <1>11 DEF TcpCallback, Callback, TcpLogCallback, TcpErrorCallback,
                     TcpRecvCommand, IsrUnchanged
<1>12. CASE Wake \/ \E c \in Context : WriteLog(c)
  BY <1>5, <1>12 DEF Wake, DelayEnds, WriteLog, ULog, netVars
<1>13. CASE UNCHANGED vars
  BY <1>5, <1>13 DEF vars, kernelVars, netVars
<1> QED
  BY <1>1, <1>2, <1>3, <1>4, <1>6, <1>7, <1>8, <1>9, <1>10, <1>11, <1>12, <1>13
     DEF Next

(* The server gets the samples in order and none twice, whatever fails.     *)
THEOREM NetworkInOrderHolds == Spec => NetworkInOrder
<1>1. Init => FInv /\ NetworkFeed!Init
  <2>1. Init => NetworkFeed!Init
    BY DEF Init, KernelInit, NetInit, NetworkFeed!Init, InHand
  <2> QED BY <2>1, InitFInv
<1>2. FInv /\ [Next]_vars => FInv'
  BY NextFInv
<1>3. FInv /\ [Next]_vars => [NetworkFeed!Next]_(NetworkFeed!vars)
  BY NetworkStep
<1> QED BY <1>1, <1>2, <1>3, PTL DEF Spec, NetworkInOrder, NetworkFeed!Spec

----------------------------------------------------------------------------
(* The order of the samples.                                                *)

(* What waits is in the order of the offers, and newer than what was        *)
(* delivered.                                                               *)
Ordered(w, d, o) ==
  /\ d <= o
  /\ \A n \in DOMAIN w : d < w[n] /\ w[n] <= o
  /\ \A m, n \in DOMAIN w : m < n => w[m] < w[n]

LEMMA OrderedAccept ==
  ASSUME NEW w \in Seq(Sample), NEW d \in Nat, NEW o \in Nat, Ordered(w, d, o)
  PROVE  Ordered(Append(w, o + 1), d, o + 1) /\ Ordered(w, d, o + 1)
<1>1. \A n \in DOMAIN w : w[n] \in Nat
  BY DEF Sample
<1>2. Ordered(w, d, o + 1)
  BY <1>1 DEF Ordered
<1> DEFINE l == Len(w) + 1
           v == Append(w, o + 1)
<1>3. /\ Len(w) \in Nat
      /\ DOMAIN v = DOMAIN w \cup {l}
      /\ \A n \in DOMAIN w : v[n] = w[n] /\ n < l
      /\ v[l] = o + 1
  BY DEF Sample
<1> HIDE DEF v, l
<1>4. \A n \in DOMAIN v : d < v[n] /\ v[n] <= o + 1
  BY <1>1, <1>3 DEF Ordered
<1>5. ASSUME NEW m \in DOMAIN v, NEW n \in DOMAIN v, m < n
      PROVE  v[m] < v[n]
  <2>1. m \in DOMAIN w
    BY <1>3, <1>5 DEF l
  <2>2. CASE n = l
    BY <1>1, <1>3, <2>1, <2>2 DEF Ordered
  <2>3. CASE n \in DOMAIN w
    BY <1>3, <1>5, <2>1, <2>3 DEF Ordered
  <2> QED
    BY <1>3, <2>2, <2>3
<1> QED
  BY <1>2, <1>4, <1>5 DEF Ordered, v

LEMMA OrderedDeliver ==
  ASSUME NEW w \in Seq(Sample), NEW d \in Nat, NEW o \in Nat, Ordered(w, d, o),
         w # <<>>
  PROVE  Ordered(Tail(w), Head(w), o) /\ Ordered(Tail(w), d, o)
<1> DEFINE v == Tail(w)
<1>1. /\ 1 \in DOMAIN w
      /\ Head(w) = w[1]
      /\ \A n \in DOMAIN v : n \in Nat /\ n + 1 \in DOMAIN w /\ 1 < n + 1 /\ v[n] = w[n + 1]
  BY DEF Sample
<1> HIDE DEF v
<1>2. \A n \in DOMAIN v : w[1] < v[n] /\ d < v[n] /\ v[n] <= o
  BY <1>1 DEF Ordered
<1>3. \A m, n \in DOMAIN v : m < n => v[m] < v[n]
  BY <1>1 DEF Ordered
<1> QED
  BY <1>1, <1>2, <1>3 DEF Ordered, v

LEMMA OrderedEmpty ==
  ASSUME NEW d \in Nat, NEW o \in Nat, d <= o
  PROVE  Ordered(<<>>, d, o)
  BY DEF Ordered

(* What waits for the display and for the server.                           *)
DisplayOrder == Ordered(InHand(drawing) \o display_queue, shown, taken)

NetworkOrder == Ordered(InHand(data) \o network_queue, sent, taken)

LEMMA FeedTypes ==
  ASSUME FInv
  PROVE  /\ InHand(drawing) \o display_queue \in Seq(Sample)
         /\ InHand(data) \o network_queue \in Seq(Sample)
         /\ shown \in Nat /\ sent \in Nat /\ taken \in Nat
<1>1. /\ display_queue \in Seq(Sample) /\ network_queue \in Seq(Sample)
      /\ drawing \in Nat /\ data \in Nat
      /\ shown \in Nat /\ sent \in Nat /\ taken \in Nat
  BY DEF FInv, IInv, TypeOK, DataOK, Sample
<1> QED
  BY <1>1, InHandType

LEMMA DisplayOrderStep ==
  ASSUME FInv, DisplayOrder, [DisplayFeed!Next]_(DisplayFeed!vars)
  PROVE  DisplayOrder'
<1> DEFINE w == InHand(drawing) \o display_queue
<1>1. w \in Seq(Sample) /\ shown \in Nat /\ taken \in Nat /\ Ordered(w, shown, taken)
  BY FeedTypes DEF DisplayOrder
<1>2. CASE DisplayFeed!Accept
  <2>1. taken' = taken + 1 /\ w' = Append(w, taken + 1) /\ shown' = shown
    BY <1>2 DEF DisplayFeed!Accept
  <2> HIDE DEF w
  <2> QED
    BY <1>1, <2>1, OrderedAccept DEF DisplayOrder, w
<1>3. CASE DisplayFeed!Drop
  <2>1. taken' = taken + 1 /\ w' = w /\ shown' = shown
    BY <1>3 DEF DisplayFeed!Drop
  <2> HIDE DEF w
  <2> QED
    BY <1>1, <2>1, OrderedAccept DEF DisplayOrder, w
<1>4. CASE DisplayFeed!Deliver \/ DisplayFeed!Lose
  <2>1. /\ w # <<>> /\ w' = Tail(w) /\ taken' = taken
        /\ shown' = Head(w) \/ shown' = shown
    BY <1>4 DEF DisplayFeed!Deliver, DisplayFeed!Lose
  <2> HIDE DEF w
  <2> QED
    BY <1>1, <2>1, OrderedDeliver DEF DisplayOrder, w
<1>5. CASE DisplayFeed!Crash
  <2>1. w' = <<>> /\ taken' = taken /\ shown' = shown
    BY <1>5 DEF DisplayFeed!Crash
  <2> HIDE DEF w
  <2>2. shown <= taken
    BY <1>1 DEF Ordered
  <2> QED
    BY <1>1, <2>1, <2>2, OrderedEmpty DEF DisplayOrder, w
<1>6. CASE UNCHANGED DisplayFeed!vars
  BY <1>6 DEF DisplayFeed!vars, DisplayOrder
<1> QED
  BY <1>2, <1>3, <1>4, <1>5, <1>6 DEF DisplayFeed!Next

LEMMA NetworkOrderStep ==
  ASSUME FInv, NetworkOrder, [NetworkFeed!Next]_(NetworkFeed!vars)
  PROVE  NetworkOrder'
<1> DEFINE w == InHand(data) \o network_queue
<1>1. w \in Seq(Sample) /\ sent \in Nat /\ taken \in Nat /\ Ordered(w, sent, taken)
  BY FeedTypes DEF NetworkOrder
<1>2. CASE NetworkFeed!Accept
  <2>1. taken' = taken + 1 /\ w' = Append(w, taken + 1) /\ sent' = sent
    BY <1>2 DEF NetworkFeed!Accept
  <2> HIDE DEF w
  <2> QED
    BY <1>1, <2>1, OrderedAccept DEF NetworkOrder, w
<1>3. CASE NetworkFeed!Drop
  <2>1. taken' = taken + 1 /\ w' = w /\ sent' = sent
    BY <1>3 DEF NetworkFeed!Drop
  <2> HIDE DEF w
  <2> QED
    BY <1>1, <2>1, OrderedAccept DEF NetworkOrder, w
<1>4. CASE NetworkFeed!Deliver \/ NetworkFeed!Lose
  <2>1. /\ w # <<>> /\ w' = Tail(w) /\ taken' = taken
        /\ sent' = Head(w) \/ sent' = sent
    BY <1>4 DEF NetworkFeed!Deliver, NetworkFeed!Lose
  <2> HIDE DEF w
  <2> QED
    BY <1>1, <2>1, OrderedDeliver DEF NetworkOrder, w
<1>5. CASE NetworkFeed!Crash
  <2>1. w' = <<>> /\ taken' = taken /\ sent' = sent
    BY <1>5 DEF NetworkFeed!Crash
  <2> HIDE DEF w
  <2>2. sent <= taken
    BY <1>1 DEF Ordered
  <2> QED
    BY <1>1, <2>1, <2>2, OrderedEmpty DEF NetworkOrder, w
<1>6. CASE UNCHANGED NetworkFeed!vars
  BY <1>6 DEF NetworkFeed!vars, NetworkOrder
<1> QED
  BY <1>2, <1>3, <1>4, <1>5, <1>6 DEF NetworkFeed!Next

(* Whatever the queues drop and the resets clear, no consumer gets a sample *)
(* twice or after a newer one, for all lengths of the queues: the sample a  *)
(* task has in hand stands in front of its queue, and both are in order.    *)
THEOREM OnlyNewerHolds == Spec => []OnlyNewer
<1> DEFINE Order == DisplayOrder /\ NetworkOrder
<1>1. Init => FInv /\ Order
  <2> SUFFICES ASSUME Init PROVE FInv /\ Order
    OBVIOUS
  <2>1. /\ InHand(drawing) \o display_queue = <<>> /\ shown = 0 /\ taken = 0
        /\ InHand(data) \o network_queue = <<>> /\ sent = 0
    BY DEF Init, KernelInit, DispInit, NetInit, InHand
  <2>2. DisplayOrder /\ NetworkOrder
    BY <2>1, OrderedEmpty DEF DisplayOrder, NetworkOrder
  <2> QED
    BY <2>2, InitFInv
<1>2. FInv /\ Order /\ [Next]_vars => FInv' /\ Order'
  BY NextFInv, DisplayStep, NetworkStep, DisplayOrderStep, NetworkOrderStep
<1>3. FInv /\ Order => OnlyNewer
  <2> SUFFICES ASSUME FInv, Order PROVE OnlyNewer
    OBVIOUS
  <2>1. /\ display_queue \in Seq(Sample) /\ network_queue \in Seq(Sample)
        /\ drawing \in Nat /\ data \in Nat
        /\ shown \in Nat /\ sent \in Nat /\ taken \in Nat
    BY DEF FInv, IInv, TypeOK, DataOK, Sample
  <2>2. ASSUME NEW q \in Seq(Sample), NEW s \in Nat, s # 0
        PROVE  1 \in DOMAIN (InHand(s) \o q) /\ (InHand(s) \o q)[1] = s
    BY <2>2 DEF InHand, Sample
  <2>3. drawing # 0 => drawing > shown
    BY <2>1, <2>2 DEF DisplayOrder, Ordered
  <2>4. data # 0 => data > sent
    BY <2>1, <2>2 DEF NetworkOrder, Ordered
  <2> QED
    BY <2>3, <2>4 DEF OnlyNewer
<1> QED
  BY <1>1, <1>2, <1>3, PTL DEF Spec
=============================================================================
