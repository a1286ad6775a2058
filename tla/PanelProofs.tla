----------------------------- MODULE PanelProofs -----------------------------
(***************************************************************************)
(* Proofs about the screen and the panel, for every set of CO2 values a    *)
(* uint16_t can hold.                                                      *)
(***************************************************************************)
EXTENDS Panel, TLAPS

(* The value shown is a uint16_t.                                           *)
ValueOK == co2 \in UInt16

(* The fill level never exceeds the width of the bar, whatever the cast     *)
(* makes of it.                                                             *)
LEMMA FillInBar ==
  ASSUME NEW n \in UInt16
  PROVE  FillLevel(n) \in 0..BarWidth
  <1> DEFINE m == (n * BarWidth) \div 2500
  <1>1. n * BarWidth \in Nat
    BY SMT DEF UInt16, BarWidth, WIDTH
  <1>2. m \in Nat
    BY <1>1, SMT
  <1> HIDE DEF m
  <1>3. m % 256 \in 0..255
    BY <1>2, SMT
  <1>4. FillLevel(n) = IF m % 256 > BarWidth THEN BarWidth ELSE m % 256
    BY DEF FillLevel, ToUInt8, m
  <1> QED
    BY <1>3, <1>4, SMT DEF BarWidth, WIDTH

(* Every item of every value lies on the screen.                            *)
LEMMA ItemsOnScreen ==
  ASSUME NEW n \in UInt16
  PROVE  \A b \in Items(n) : OnScreen(b)
  <1>1. n \in Int /\ n >= 0 /\ n <= 65535
    BY SMT DEF UInt16
  <1>2. WIDTH \div 3 = 42
    BY SMT DEF WIDTH
  <1>3. \A b \in StatusBar : OnScreen(b)
    BY SMT DEF StatusBar, TextBox, Box, OnScreen, WIDTH, HEIGHT
  <1>4. OnScreen(Co2Text(n))
    <2>1. Digits(n) \in 1..5
      BY <1>1, SMT DEF Digits
    <2> QED
      BY <1>2, <2>1, SMT DEF Co2Text, TextBox, Box, OnScreen, WIDTH, HEIGHT
  <1>5. OnScreen(StatusText(n))
    <2> DEFINE inRow(length, x) == StatusText(n) = TextBox(length, 42 + x, 42)
    <2>1. \/ inRow(9, -15) \/ inRow(12, -24) \/ inRow(3, 13) \/ inRow(4, 11)
          \/ StatusText(n) = TextBox(0, 0, 0)
      BY <1>1, <1>2, SMT DEF StatusText, TextBox, Box
    <2> QED
      BY <2>1, SMT DEF TextBox, Box, OnScreen, WIDTH, HEIGHT
  <1>6. OnScreen(Outline)
    BY SMT DEF Outline, Box, OnScreen, BarWidth, WIDTH, HEIGHT
  <1>7. OnScreen(Fill(n))
    <2>1. FillLevel(n) \in 0..BarWidth
      BY FillInBar
    <2> QED
      BY <2>1, SMT DEF Fill, Box, OnScreen, BarWidth, WIDTH, HEIGHT
  <1> QED
    BY <1>3, <1>4, <1>5, <1>6, <1>7 DEF Items, Texts

LEMMA ValueAlways == Spec => []ValueOK
  <1>1. Init => ValueOK
    BY SMT DEF Init, ValueOK, UInt16
  <1>2. ValueOK /\ [Next]_vars => ValueOK'
    BY CO2Assumption DEF ValueOK, Next, vars, UpdateDisplay, SetBrightness,
       Written, Lost
  <1> QED
    BY <1>1, <1>2, PTL DEF Spec

(* Whatever values are received, nothing is drawn beyond the screen         *)
(* (update_display_task.c:40-109, display.c:16-19).                         *)
THEOREM NothingOffScreenHolds == Spec => []NothingOffScreen
  <1>1. ValueOK => NothingOffScreen
    BY ItemsOnScreen DEF ValueOK, NothingOffScreen
  <1> QED
    BY <1>1, ValueAlways, PTL

(* The bar is full for every value from its range up to 6464 and no         *)
(* further: 6465 is the first that the cast to uint8_t wraps to nothing     *)
(* (update_display_task.c:72-77).                                           *)
THEOREM BarLimit ==
  \A n \in UInt16 : (\A k \in 2500..n : FillLevel(k) = BarWidth) <=> n <= 6464
  <1> DEFINE level(k) == (k * 99) \div 2500
  <1>1. BarWidth = 99
    BY DEF BarWidth, WIDTH
  <1>2. ASSUME NEW k \in 2500..6464
        PROVE  FillLevel(k) = 99
    <2>1. level(k) \in 99..255
      BY SMT
    <2>2. FillLevel(k) = IF level(k) % 256 > 99 THEN 99 ELSE level(k) % 256
      BY <1>1 DEF FillLevel, ToUInt8
    <2> HIDE DEF level
    <2>3. level(k) % 256 = level(k)
      BY <2>1, SMT
    <2> QED
      BY <2>1, <2>2, <2>3, SMT
  <1>3. FillLevel(6465) = 0
    <2>1. level(6465) = 256
      BY SMT
    <2> QED
      BY <1>1, <2>1, SMT DEF FillLevel, ToUInt8
  <1>4. ASSUME NEW n \in UInt16, n <= 6464
        PROVE  \A k \in 2500..n : FillLevel(k) = BarWidth
    <2>1. 2500..n \subseteq 2500..6464
      BY <1>4, SMT DEF UInt16
    <2> QED
      BY <1>1, <1>2, <2>1
  <1>5. ASSUME NEW n \in UInt16, ~(n <= 6464)
        PROVE  ~(\A k \in 2500..n : FillLevel(k) = BarWidth)
    <2>1. 6465 \in 2500..n
      BY <1>5, SMT DEF UInt16
    <2> QED
      BY <1>1, <1>3, <2>1
  <1> QED
    BY <1>4, <1>5

----------------------------------------------------------------------------
(* What the panel expects while an operation is sent.                       *)

(* The last n writes of a frame, and the two ways to set the brightness.    *)
F1 == <<DATA>>
F2 == <<127, DATA>>
F3 == <<0, 127, DATA>>
F4 == <<33, 0, 127, DATA>>
F5 == <<7, 33, 0, 127, DATA>>
F6 == <<0, 7, 33, 0, 127, DATA>>
F7 == <<34, 0, 7, 33, 0, 127, DATA>>
B1(c) == <<c>>
B2(c) == <<129, c>>

LastPage == <<"last page">>
LastColumn == <<"last column">>

Wants == {<<>>, PageArguments, LastPage, ColumnArguments, LastColumn, ContrastArgument}

(* What is left of an operation is one of these.                            *)
PendingOK ==
  \/ pending \in {<<>>, F1, F2, F3, F4, F5, F6, F7}
  \/ pending \in {B1(commanded), B2(commanded)}

TypeInv ==
  /\ PendingOK
  /\ want \in Wants
  /\ page \in (0..7) \X (0..7)
  /\ col \in (0..127) \X (0..127)
  /\ contrast \in 0..255
  /\ start \in {0, 63}
  /\ commanded \in {0, Full}
  /\ ram \in {"new", "old", "garbled"}
  /\ home \subseteq {"page", "column"}
  /\ lost \in BOOLEAN
  /\ begun \in 0..2

(* Each write in turn, and the argument each is.                            *)
LEMMA Writes ==
  /\ SendBuffer = F7
  /\ Head(F7) = CMD_PAGE_ADDR /\ Tail(F7) = F6
  /\ Head(F6) = 0 /\ Tail(F6) = F5
  /\ Head(F5) = 7 /\ Tail(F5) = F4
  /\ Head(F4) = CMD_COL_ADDR /\ Tail(F4) = F3
  /\ Head(F3) = 0 /\ Tail(F3) = F2
  /\ Head(F2) = 127 /\ Tail(F2) = F1
  /\ Head(F1) = DATA /\ Tail(F1) = <<>>
  BY SMT DEF SendBuffer, F1, F2, F3, F4, F5, F6, F7, CMD_PAGE_ADDR, CMD_COL_ADDR

LEMMA BrightnessWrites ==
  ASSUME NEW c
  PROVE  /\ <<CMD_SET_CONTRAST, c>> = B2(c)
         /\ Head(B2(c)) = CMD_SET_CONTRAST /\ Tail(B2(c)) = B1(c)
         /\ Head(B1(c)) = c /\ Tail(B1(c)) = <<>>
  BY SMT DEF B1, B2, CMD_SET_CONTRAST

(* No write of a frame is taken for one of the brightness.                  *)
LEMMA Apart ==
  ASSUME NEW c \in {0, Full}
  PROVE  /\ {F1, F2, F3, F4, F5, F6, F7} \cap {<<>>, B1(c), B2(c)} = {}
         /\ B1(c) # <<>> /\ B2(c) # <<>>
<1>1. c # DATA /\ CMD_SET_CONTRAST # 127
  BY DEF Full, DATA, CMD_SET_CONTRAST
<1>2. F1 # B1(c) /\ F2 # B2(c)
  BY <1>1, Writes, BrightnessWrites
<1>3. F3 # B1(c) /\ F4 # B1(c) /\ F5 # B1(c) /\ F6 # B1(c) /\ F7 # B1(c)
  BY DEF F3, F4, F5, F6, F7, B1
<1>4. F3 # B2(c) /\ F4 # B2(c) /\ F5 # B2(c) /\ F6 # B2(c) /\ F7 # B2(c)
  BY DEF F3, F4, F5, F6, F7, B2
<1>5. F1 # B2(c) /\ F2 # B1(c) /\ B1(c) # <<>> /\ B2(c) # <<>>
  BY DEF F1, F2, B1, B2
<1>6. /\ F1 # <<>> /\ F2 # <<>> /\ F3 # <<>> /\ F4 # <<>> /\ F5 # <<>>
      /\ F6 # <<>> /\ F7 # <<>>
  BY DEF F1, F2, F3, F4, F5, F6, F7
<1> QED
  BY <1>2, <1>3, <1>4, <1>5, <1>6

LEMMA TailOfPair ==
  ASSUME NEW a, NEW b
  PROVE  Tail(<<a, b>>) = <<b>>
  OBVIOUS

LEMMA Arguments ==
  /\ Head(PageArguments) = "first page" /\ Tail(PageArguments) = LastPage
  /\ Head(LastPage) = "last page" /\ Tail(LastPage) = <<>>
  /\ Head(ColumnArguments) = "first column" /\ Tail(ColumnArguments) = LastColumn
  /\ Head(LastColumn) = "last column" /\ Tail(LastColumn) = <<>>
  /\ Head(ContrastArgument) = "contrast" /\ Tail(ContrastArgument) = <<>>
  /\ PageArguments # <<>> /\ LastPage # <<>> /\ ColumnArguments # <<>>
  /\ LastColumn # <<>> /\ ContrastArgument # <<>>
<1>1. Tail(PageArguments) = LastPage /\ Tail(ColumnArguments) = LastColumn
  BY TailOfPair DEF PageArguments, LastPage, ColumnArguments, LastColumn
<1>2. Head(PageArguments) = "first page" /\ Head(ColumnArguments) = "first column"
  BY DEF PageArguments, ColumnArguments
<1>3. Head(LastPage) = "last page" /\ Head(LastColumn) = "last column"
  BY DEF LastPage, LastColumn
<1>4. Head(ContrastArgument) = "contrast" /\ Tail(ContrastArgument) = <<>>
  BY DEF ContrastArgument
<1>5. Tail(LastPage) = <<>> /\ Tail(LastColumn) = <<>>
  BY DEF LastPage, LastColumn
<1>6. /\ PageArguments # <<>> /\ LastPage # <<>> /\ ColumnArguments # <<>>
      /\ LastColumn # <<>> /\ ContrastArgument # <<>>
  BY DEF PageArguments, LastPage, ColumnArguments, LastColumn, ContrastArgument
<1> QED
  BY <1>1, <1>2, <1>3, <1>4, <1>5, <1>6

(* A write left to do is a byte or the frame, of the bytes in 64..127 only  *)
(* the last column, and those after it are the rest of the same operation.  *)
LEMMA NextWrite ==
  ASSUME PendingOK, commanded \in {0, Full}, pending # <<>>,
         pending' = Tail(pending), commanded' = commanded
  PROVE  PendingOK' /\ Head(pending) \in {0, 7, 33, 34, 127, 129, 255, DATA}
<1>1. CASE pending \in {F1, F2, F3, F4, F5, F6, F7}
  <2>1. pending' \in {<<>>, F1, F2, F3, F4, F5, F6}
    BY <1>1, Writes
  <2>2. Head(pending) \in {0, 7, 33, 34, 127, DATA}
    BY <1>1, Writes DEF CMD_PAGE_ADDR, CMD_COL_ADDR
  <2>3. PendingOK'
    BY <2>1, Zenon DEF PendingOK
  <2> QED
    BY <2>2, <2>3
<1>2. CASE pending \in {B1(commanded), B2(commanded)}
  <2>1. pending' \in {<<>>, B1(commanded)}
    BY <1>2, BrightnessWrites
  <2>2. Head(pending) \in {0, Full, CMD_SET_CONTRAST}
    BY <1>2, BrightnessWrites
  <2> QED
    BY <2>1, <2>2 DEF PendingOK, CMD_SET_CONTRAST, Full
<1> QED
  BY <1>1, <1>2 DEF PendingOK

LEMMA TypeStep == TypeInv /\ [Next]_vars => TypeInv'
<1> SUFFICES ASSUME TypeInv, [Next]_vars PROVE TypeInv'
  OBVIOUS
<1>1. CASE UpdateDisplay
  BY <1>1, Writes DEF UpdateDisplay, TypeInv, PendingOK
<1>2. CASE SetBrightness
  BY <1>2, BrightnessWrites DEF SetBrightness, TypeInv, PendingOK, panelVars
<1>3. CASE Written
  <2> DEFINE byte == Head(pending)
  <2>1. pending # <<>> /\ pending' = Tail(pending) /\ commanded' = commanded
    BY <1>3 DEF Written
  <2>2. PendingOK' /\ byte \in {0, 7, 33, 34, 127, 129, 255, DATA}
    BY <2>1, NextWrite DEF TypeInv
  <2>3. UNCHANGED <<co2, commanded, lost, begun>>
    BY <1>3 DEF Written
  <2>4. CASE TakeFrame
    BY <2>2, <2>3, <2>4 DEF TakeFrame, TypeInv
  <2>5. CASE want # <<>> /\ byte # DATA /\ TakeArgument(byte)
    <3>1. byte \in 0..255
      BY <2>2, <2>5
    <3> HIDE DEF byte
    <3>2. byte % 8 \in 0..7 /\ byte % 128 \in 0..127
      BY <3>1
    <3>3. want' \in Wants /\ contrast' \in 0..255 /\ home' \subseteq {"page", "column"}
      BY <2>5, <3>1, Arguments DEF TakeArgument, TypeInv, Wants
    <3>4. page' \in (0..7) \X (0..7)
      BY <2>5, <3>2 DEF TakeArgument, TypeInv
    <3>5. col' \in (0..127) \X (0..127)
      BY <2>5, <3>2 DEF TakeArgument, TypeInv
    <3> QED
      BY <2>2, <2>3, <2>5, <3>3, <3>4, <3>5 DEF TakeArgument, TypeInv
  <2>6. CASE byte # DATA /\ TakeCommand(byte)
    <3>1. byte \in {0, 7, 33, 34, 127, 129, 255}
      BY <2>2, <2>6
    <3> HIDE DEF byte
    <3>2. want' \in Wants
      BY <2>6 DEF TakeCommand, Wants, PageArguments, ColumnArguments, ContrastArgument
    <3>3. start' = (IF byte \in 64..127 THEN byte - 64 ELSE start)
      BY <2>6 DEF TakeCommand, StartLine
    <3>4. start' \in {0, 63}
      <4>1. byte \in 64..127 => byte = 127
        BY <3>1
      <4> QED
        BY <3>3, <4>1 DEF TypeInv
    <3> QED
      BY <2>2, <2>3, <2>6, <3>2, <3>4 DEF TakeCommand, TypeInv
  <2> QED
    BY <1>3, <2>4, <2>5, <2>6 DEF Written
<1>4. CASE Lost
  <2>1. PendingOK'
    BY <1>4, NextWrite DEF Lost, TypeInv
  <2>2. ram' \in {"new", "old", "garbled"} /\ home' \subseteq {"page", "column"}
    BY <1>4 DEF Lost, TypeInv
  <2>3. UNCHANGED <<want, page, col, contrast, start, commanded>>
    BY <1>4 DEF Lost
  <2>4. lost' = TRUE /\ begun' = 0
    BY <1>4 DEF Lost
  <2> QED
    BY <2>1, <2>2, <2>3, <2>4 DEF TypeInv
<1>5. CASE UNCHANGED vars
  BY <1>5 DEF vars, panelVars, TypeInv, PendingOK
<1> QED
  BY <1>1, <1>2, <1>3, <1>4, <1>5 DEF Next

LEMMA TypeAlways == Spec => []TypeInv
<1>1. Init => TypeInv
  <2> SUFFICES ASSUME Init PROVE TypeInv
    OBVIOUS
  <2>1. PendingOK /\ want \in Wants
    BY DEF Init, PendingOK, Wants
  <2>2. page \in (0..7) \X (0..7) /\ col \in (0..127) \X (0..127)
    BY DEF Init
  <2>3. contrast \in 0..255 /\ start \in {0, 63} /\ begun \in 0..2
    BY DEF Init, Full
  <2> QED
    BY <2>1, <2>2, <2>3 DEF Init, TypeInv
<1> QED
  BY <1>1, TypeStep, PTL DEF Spec

(* Every variable of the panel keeps its type, and no operation begins      *)
(* before the writes of the last one are done (display.c:32-41,             *)
(* ssd1306.c:17-31,72-76).                                                  *)
THEOREM PanelTypeCorrect == Spec => []PanelTypeOK
<1>1. TypeInv /\ co2 \in CO2 \cup {0} => PanelTypeOK
  <2> SUFFICES ASSUME TypeInv, co2 \in CO2 \cup {0} PROVE PanelTypeOK
    OBVIOUS
  <2>1. Len(pending) \in 0..Len(SendBuffer)
    <3>1. /\ Len(F1) = 1 /\ Len(F2) = 2 /\ Len(F3) = 3 /\ Len(F4) = 4
          /\ Len(F5) = 5 /\ Len(F6) = 6 /\ Len(F7) = 7 /\ Len(<<>>) = 0
      BY DEF F1, F2, F3, F4, F5, F6, F7
    <3>2. Len(B1(commanded)) = 1 /\ Len(B2(commanded)) = 2
      BY DEF B1, B2
    <3>3. Len(pending) \in 0..7
      BY <3>1, <3>2 DEF TypeInv, PendingOK
    <3>4. Len(SendBuffer) = 7
      BY <3>1, Writes
    <3> QED
      BY <3>3, <3>4, Zenon
  <2>2. start \in 0..63
    BY DEF TypeInv
  <2> QED
    BY <2>1, <2>2, Arguments, Zenon DEF TypeInv, PanelTypeOK, Wants
<1>2. Spec => [](co2 \in CO2 \cup {0})
  <2>1. Init => co2 \in CO2 \cup {0}
    BY DEF Init
  <2>2. co2 \in CO2 \cup {0} /\ [Next]_vars => (co2 \in CO2 \cup {0})'
    BY DEF Next, vars, UpdateDisplay, SetBrightness, Written, Lost
  <2> QED
    BY <2>1, <2>2, PTL DEF Spec
<1> QED
  BY <1>1, <1>2, TypeAlways, PTL

----------------------------------------------------------------------------
(* The panel in step with the writes.                                       *)

PageSet == page = <<0, 7>> /\ "page" \in home
ColumnSet == col = <<0, 127>> /\ "column" \in home

(* The panel takes every write for what it is; when no frame is being sent, *)
(* it shows the last one if shown is true.                                  *)
Synced(shown) ==
  \/ pending = <<>> /\ want = <<>> /\ (shown => ram = "new")
  \/ pending = B2(commanded) /\ want = <<>> /\ (shown => ram = "new")
  \/ pending = B1(commanded) /\ want = ContrastArgument /\ (shown => ram = "new")
  \/ pending = F7 /\ want = <<>>
  \/ pending = F6 /\ want = PageArguments
  \/ pending = F5 /\ want = LastPage /\ page[1] = 0
  \/ pending = F4 /\ want = <<>> /\ PageSet
  \/ pending = F3 /\ want = ColumnArguments /\ PageSet
  \/ pending = F2 /\ want = LastColumn /\ PageSet /\ col[1] = 0
  \/ pending = F1 /\ want = <<>> /\ PageSet /\ ColumnSet

(* During the first frame after a loss: whatever the panel expects when the *)
(* frame begins, from the column command on it is in step again.            *)
Regaining ==
  \/ pending = F7
  \/ pending = F6 /\ want \in {<<>>, PageArguments, LastPage, LastColumn}
  \/ pending = F5 /\ want \in {<<>>, LastPage}
  \/ pending = F4 /\ want = <<>>
  \/ pending = F3 /\ want = ColumnArguments
  \/ pending = F2 /\ want = LastColumn
  \/ pending = F1 /\ want = <<>>
  \/ pending \in {<<>>, B2(commanded)} /\ want = <<>>
  \/ pending = B1(commanded) /\ want = ContrastArgument

RecoverInv ==
  /\ begun = 1 => Regaining
  /\ begun = 2 => Synced(TRUE)

(* As long as nothing was lost the windows never change, so they are right  *)
(* between frames, too.                                                     *)
FollowInv ==
  ~lost =>
    /\ Synced(begun > 0)
    /\ PageSet /\ ColumnSet
    /\ start = 0
    /\ contrast = commanded \/ pending \in {B1(commanded), B2(commanded)}

(* A write the panel takes, as a command, an argument or the frame.         *)
LEMMA CommandTaken ==
  ASSUME Written, want = <<>>, Head(pending) # DATA
  PROVE  TakeCommand(Head(pending))
  BY DEF Written

LEMMA ArgumentTaken ==
  ASSUME Written, want # <<>>, Head(pending) # DATA
  PROVE  TakeArgument(Head(pending))
  BY DEF Written

LEMMA FrameTaken ==
  ASSUME Written, Head(pending) = DATA
  PROVE  TakeFrame
  BY DEF Written

(* A write keeps the panel in step.                                         *)
LEMMA SyncedWrite ==
  ASSUME TypeInv, Written, NEW shown \in BOOLEAN, Synced(shown)
  PROVE  \/ pending' = <<>> /\ want' = <<>> /\ (shown => ram' = "new")
         \/ pending' = B1(commanded) /\ want' = ContrastArgument /\ (shown => ram' = "new")
         \/ pending' = F6 /\ want' = PageArguments
         \/ pending' = F5 /\ want' = LastPage /\ page'[1] = 0
         \/ pending' = F4 /\ want' = <<>> /\ PageSet'
         \/ pending' = F3 /\ want' = ColumnArguments /\ PageSet'
         \/ pending' = F2 /\ want' = LastColumn /\ PageSet' /\ col'[1] = 0
         \/ pending' = F1 /\ want' = <<>> /\ PageSet' /\ ColumnSet'
<1>1. pending # <<>> /\ pending' = Tail(pending)
  BY DEF Written
<1>2. /\ page \in (0..7) \X (0..7)
      /\ col \in (0..127) \X (0..127)
  BY DEF TypeInv
<1>3. CASE pending = B2(commanded) /\ want = <<>> /\ (shown => ram = "new")
  <2>1. TakeCommand(CMD_SET_CONTRAST)
    BY <1>3, CommandTaken, BrightnessWrites DEF CMD_SET_CONTRAST, DATA
  <2>2. want' = ContrastArgument /\ ram' = ram
    BY <2>1 DEF TakeCommand, ContrastArgument, CMD_SET_CONTRAST, CMD_PAGE_ADDR, CMD_COL_ADDR
  <2> QED
    BY <1>1, <1>3, <2>2, BrightnessWrites
<1>4. CASE pending = B1(commanded) /\ want = ContrastArgument /\ (shown => ram = "new")
  <2>1. Head(pending) # DATA
    BY <1>4, BrightnessWrites DEF TypeInv, Full, DATA
  <2>2. want' = <<>> /\ ram' = ram
    BY <1>4, <2>1, ArgumentTaken, Arguments DEF TakeArgument
  <2> QED
    BY <1>1, <1>4, <2>2, BrightnessWrites
<1>5. CASE pending = F7 /\ want = <<>>
  <2>1. TakeCommand(CMD_PAGE_ADDR)
    BY <1>5, CommandTaken, Writes DEF CMD_PAGE_ADDR, DATA
  <2>2. want' = PageArguments
    BY <2>1 DEF TakeCommand, CMD_PAGE_ADDR, CMD_COL_ADDR, CMD_SET_CONTRAST
  <2> QED
    BY <1>1, <1>5, <2>2, Writes
<1>6. CASE pending = F6 /\ want = PageArguments
  <2>1. Head(pending) = 0 /\ Head(pending) # DATA
    BY <1>6, Writes DEF DATA
  <2>2. want' = LastPage /\ page' = <<Head(pending) % 8, page[2]>>
    BY <1>6, <2>1, ArgumentTaken, Arguments DEF TakeArgument
  <2> QED
    BY <1>1, <1>6, <2>2, Writes
<1>7. CASE pending = F5 /\ want = LastPage /\ page[1] = 0
  <2>1. Head(pending) = 7 /\ Head(pending) # DATA
    BY <1>7, Writes DEF DATA
  <2>2. want' = <<>> /\ page' = <<page[1], Head(pending) % 8>>
    BY <1>7, <2>1, ArgumentTaken, Arguments DEF TakeArgument
  <2>3. home' = home \cup {"page"}
    BY <1>7, <2>1, ArgumentTaken, Arguments DEF TakeArgument
  <2>4. page' = <<0, 7>>
    BY <1>7, <2>1, <2>2
  <2> QED
    BY <1>1, <1>7, <2>2, <2>3, <2>4, Writes DEF PageSet
<1>8. CASE pending = F4 /\ want = <<>> /\ PageSet
  <2>1. TakeCommand(CMD_COL_ADDR)
    BY <1>8, CommandTaken, Writes DEF CMD_COL_ADDR, DATA
  <2>2. want' = ColumnArguments /\ page' = page /\ home' = home
    BY <2>1 DEF TakeCommand, CMD_PAGE_ADDR, CMD_COL_ADDR, CMD_SET_CONTRAST
  <2> QED
    BY <1>1, <1>8, <2>2, Writes DEF PageSet
<1>9. CASE pending = F3 /\ want = ColumnArguments /\ PageSet
  <2>1. Head(pending) = 0 /\ Head(pending) # DATA
    BY <1>9, Writes DEF DATA
  <2>2. want' = LastColumn /\ col' = <<Head(pending) % 128, col[2]>>
    BY <1>9, <2>1, ArgumentTaken, Arguments DEF TakeArgument
  <2>3. page' = page /\ home' = home
    BY <1>9, <2>1, ArgumentTaken, Arguments DEF TakeArgument
  <2>4. col'[1] = 0
    BY <2>1, <2>2
  <2> QED
    BY <1>1, <1>9, <2>2, <2>3, <2>4, Writes DEF PageSet
<1>10. CASE pending = F2 /\ want = LastColumn /\ PageSet /\ col[1] = 0
  <2>1. Head(pending) = 127 /\ Head(pending) # DATA
    BY <1>10, Writes DEF DATA
  <2>2. want' = <<>> /\ col' = <<col[1], Head(pending) % 128>>
    BY <1>10, <2>1, ArgumentTaken, Arguments DEF TakeArgument
  <2>3. page' = page /\ home' = home \cup {"column"}
    BY <1>10, <2>1, ArgumentTaken, Arguments DEF TakeArgument
  <2>4. col' = <<0, 127>>
    BY <1>10, <2>1, <2>2
  <2> QED
    BY <1>1, <1>10, <2>2, <2>3, <2>4, Writes DEF PageSet, ColumnSet
<1>11. CASE pending = F1 /\ want = <<>> /\ PageSet /\ ColumnSet
  <2>1. TakeFrame
    BY <1>11, FrameTaken, Writes
  <2>2. home = {"page", "column"}
    BY <1>11 DEF PageSet, ColumnSet, TypeInv
  <2>3. ram' = "new" /\ want' = <<>>
    BY <1>11, <2>1, <2>2 DEF TakeFrame, PageSet, ColumnSet
  <2> QED
    BY <1>1, <1>11, <2>3, Writes
<1> QED
  BY <1>1, <1>3, <1>4, <1>5, <1>6, <1>7, <1>8, <1>9, <1>10, <1>11 DEF Synced

(* A byte of a frame that is taken as an argument leaves the rest of what   *)
(* was expected; one that is no command leaves the panel as it was.         *)
LEMMA RegainingArgument ==
  ASSUME TypeInv, Written, want # <<>>, Head(pending) # DATA
  PROVE  /\ want \in {LastPage, LastColumn, ContrastArgument} => want' = <<>>
         /\ want = PageArguments => want' = LastPage
         /\ want = ColumnArguments => want' = LastColumn
<1>1. want' = Tail(want)
  BY ArgumentTaken DEF TakeArgument
<1> QED
  BY <1>1, Arguments

LEMMA NoCommand ==
  ASSUME Written, want = <<>>, Head(pending) \in {0, 7}
  PROVE  want' = <<>>
<1>1. TakeCommand(Head(pending))
  BY CommandTaken DEF DATA
<1> QED
  BY <1>1 DEF TakeCommand, CMD_PAGE_ADDR, CMD_COL_ADDR, CMD_SET_CONTRAST

(* A write taken during the first frame after a loss.                       *)
LEMMA RegainingWrite ==
  ASSUME TypeInv, Written, Regaining
  PROVE  \/ pending' = F6 /\ want' \in {<<>>, PageArguments, LastPage, LastColumn}
         \/ pending' = F5 /\ want' \in {<<>>, LastPage}
         \/ pending' = F4 /\ want' = <<>>
         \/ pending' = F3 /\ want' = ColumnArguments
         \/ pending' = F2 /\ want' = LastColumn
         \/ pending' = F1 /\ want' = <<>>
         \/ pending' = <<>> /\ want' = <<>>
         \/ pending' = B1(commanded) /\ want' = ContrastArgument
<1>1. pending # <<>> /\ pending' = Tail(pending)
  BY DEF Written
<1>2. CASE pending = F7
  <2>1. Head(pending) = CMD_PAGE_ADDR /\ Head(pending) # DATA
    BY <1>2, Writes DEF CMD_PAGE_ADDR, DATA
  <2>2. CASE want = <<>>
    <3>1. TakeCommand(Head(pending))
      BY <2>1, <2>2, CommandTaken
    <3>2. want' = PageArguments
      BY <2>1, <3>1 DEF TakeCommand, CMD_PAGE_ADDR, CMD_COL_ADDR, CMD_SET_CONTRAST
    <3> QED
      BY <1>1, <1>2, <3>2, Writes
  <2>3. CASE want # <<>>
    <3>1. want' \in {<<>>, LastPage, LastColumn}
      BY <2>1, <2>3, RegainingArgument DEF TypeInv, Wants
    <3> QED
      BY <1>1, <1>2, <3>1, Writes
  <2> QED
    BY <2>2, <2>3
<1>3. CASE pending = F6 /\ want \in {<<>>, PageArguments, LastPage, LastColumn}
  <2>1. Head(pending) = 0 /\ Head(pending) # DATA
    BY <1>3, Writes DEF DATA
  <2>2. want' \in {<<>>, LastPage}
    BY <1>3, <2>1, RegainingArgument, NoCommand
  <2> QED
    BY <1>1, <1>3, <2>2, Writes
<1>4. CASE pending = F5 /\ want \in {<<>>, LastPage}
  <2>1. Head(pending) = 7 /\ Head(pending) # DATA
    BY <1>4, Writes DEF DATA
  <2>2. want' = <<>>
    BY <1>4, <2>1, RegainingArgument, NoCommand
  <2> QED
    BY <1>1, <1>4, <2>2, Writes
<1>5. CASE pending = F4 /\ want = <<>>
  <2>1. Head(pending) = CMD_COL_ADDR /\ Head(pending) # DATA
    BY <1>5, Writes DEF CMD_COL_ADDR, DATA
  <2>2. TakeCommand(Head(pending))
    BY <1>5, <2>1, CommandTaken
  <2>3. want' = ColumnArguments
    BY <2>1, <2>2 DEF TakeCommand, CMD_PAGE_ADDR, CMD_COL_ADDR, CMD_SET_CONTRAST
  <2> QED
    BY <1>1, <1>5, <2>3, Writes
<1>6. CASE pending = F3 /\ want = ColumnArguments
  <2>1. Head(pending) # DATA
    BY <1>6, Writes DEF DATA
  <2>2. want' = LastColumn
    BY <1>6, <2>1, Arguments, RegainingArgument
  <2> QED
    BY <1>1, <1>6, <2>2, Writes
<1>7. CASE pending = F2 /\ want = LastColumn
  <2>1. Head(pending) # DATA
    BY <1>7, Writes DEF DATA
  <2>2. want' = <<>>
    BY <1>7, <2>1, Arguments, RegainingArgument
  <2> QED
    BY <1>1, <1>7, <2>2, Writes
<1>8. CASE pending = F1 /\ want = <<>>
  <2>1. TakeFrame
    BY <1>8, FrameTaken, Writes
  <2>2. want' = <<>>
    BY <1>8, <2>1 DEF TakeFrame
  <2> QED
    BY <1>1, <1>8, <2>2, Writes
<1>9. CASE \/ pending \in {<<>>, B2(commanded)} /\ want = <<>>
           \/ pending = B1(commanded) /\ want = ContrastArgument
  <2>1. Head(pending) # DATA
    BY <1>1, <1>9, BrightnessWrites DEF TypeInv, CMD_SET_CONTRAST, Full, DATA
  <2>2. CASE pending = B2(commanded) /\ want = <<>>
    <3>1. TakeCommand(Head(pending)) /\ Head(pending) = CMD_SET_CONTRAST
      BY <2>1, <2>2, CommandTaken, BrightnessWrites
    <3>2. want' = ContrastArgument
      BY <3>1 DEF TakeCommand, CMD_PAGE_ADDR, CMD_COL_ADDR, CMD_SET_CONTRAST
    <3> QED
      BY <1>1, <2>2, <3>2, BrightnessWrites
  <2>3. CASE pending = B1(commanded) /\ want = ContrastArgument
    <3>1. want' = <<>>
      BY <2>1, <2>3, Arguments, RegainingArgument
    <3> QED
      BY <1>1, <2>3, <3>1, BrightnessWrites
  <2> QED
    BY <1>1, <1>9, <2>2, <2>3
<1> QED
  BY <1>2, <1>3, <1>4, <1>5, <1>6, <1>7, <1>8, <1>9 DEF Regaining

(* Between operations nothing is expected.                                  *)
LEMMA IdleSynced ==
  ASSUME TypeInv, pending = <<>>
  PROVE  /\ \A shown \in BOOLEAN :
              Synced(shown) => want = <<>> /\ (shown => ram = "new")
         /\ Regaining => want = <<>>
<1>1. /\ {F1, F2, F3, F4, F5, F6, F7} \cap {<<>>, B1(commanded), B2(commanded)} = {}
      /\ B1(commanded) # <<>> /\ B2(commanded) # <<>>
  BY Apart DEF TypeInv
<1>2. /\ F1 # <<>> /\ F2 # <<>> /\ F3 # <<>> /\ F4 # <<>> /\ F5 # <<>>
      /\ F6 # <<>> /\ F7 # <<>>
  BY <1>1
<1>3. Regaining => want = <<>>
  BY <1>1, <1>2 DEF Regaining
<1>4. ASSUME NEW shown \in BOOLEAN, Synced(shown)
      PROVE  want = <<>> /\ (shown => ram = "new")
  BY <1>1, <1>2, <1>4 DEF Synced
<1> QED
  BY <1>3, <1>4

LEMMA RecoverStep == TypeInv /\ RecoverInv /\ [Next]_vars => RecoverInv'
<1> SUFFICES ASSUME TypeInv, RecoverInv, [Next]_vars PROVE RecoverInv'
  OBVIOUS
<1>1. CASE UpdateDisplay
  <2>1. pending = <<>> /\ pending' = F7 /\ want' = want
    BY <1>1, Writes DEF UpdateDisplay
  <2>2. begun' = 2 => begun \in {1, 2}
    BY <1>1 DEF UpdateDisplay, TypeInv
  <2>3. begun' = 2 => want = <<>>
    BY <2>1, <2>2, IdleSynced DEF RecoverInv
  <2> QED
    BY <2>1, <2>3 DEF RecoverInv, Regaining, Synced
<1>2. CASE SetBrightness
  <2>1. pending = <<>> /\ pending' = B2(commanded')
    BY <1>2, BrightnessWrites DEF SetBrightness
  <2>2. want' = want /\ ram' = ram /\ begun' = begun
    BY <1>2 DEF SetBrightness, panelVars
  <2>3. begun = 1 => want = <<>>
    BY <2>1, IdleSynced DEF RecoverInv
  <2>4. begun = 2 => want = <<>> /\ ram = "new"
    BY <2>1, IdleSynced DEF RecoverInv
  <2> QED
    BY <2>1, <2>2, <2>3, <2>4 DEF RecoverInv, Regaining, Synced
<1>3. CASE Written
  <2>1. begun' = begun /\ commanded' = commanded
    BY <1>3 DEF Written
  <2>2. begun = 1 => Regaining'
    <3>1. ASSUME begun = 1 PROVE Regaining'
      <4>1. Regaining
        BY <3>1 DEF RecoverInv
      <4> QED
        BY <1>3, <2>1, <4>1, RegainingWrite DEF Regaining
    <3> QED
      BY <3>1
  <2>3. begun = 2 => Synced(TRUE)'
    <3>1. ASSUME begun = 2 PROVE Synced(TRUE)'
      <4>1. Synced(TRUE)
        BY <3>1 DEF RecoverInv
      <4> QED
        BY <1>3, <2>1, <4>1, SyncedWrite DEF Synced
    <3> QED
      BY <3>1
  <2> QED
    BY <2>1, <2>2, <2>3 DEF RecoverInv
<1>4. CASE Lost
  BY <1>4 DEF Lost, RecoverInv
<1>5. CASE UNCHANGED vars
  BY <1>5 DEF vars, panelVars, RecoverInv, Regaining, Synced, PageSet, ColumnSet
<1> QED
  BY <1>1, <1>2, <1>3, <1>4, <1>5 DEF Next

(* After any losses two frames without one repair the panel's memory, and   *)
(* all that can stay wrong of the picture is that it is one row off, its    *)
(* start line 63 (display.c:32-41, ssd1306.c:17-31,72-102).                 *)
THEOREM MemoryRecoversHolds == Spec => []MemoryRecovers
<1>1. Init => RecoverInv
  BY DEF Init, RecoverInv
<1>2. TypeInv /\ RecoverInv => MemoryRecovers
  BY IdleSynced DEF TypeInv, RecoverInv, MemoryRecovers
<1> QED
  BY <1>1, <1>2, RecoverStep, TypeAlways, PTL DEF Spec

(* What a write does to the windows, the start line and the contrast of a   *)
(* panel that has taken every write before it.                              *)
LEMMA UnlostWrite ==
  ASSUME TypeInv, Written, NEW shown \in BOOLEAN, Synced(shown), PageSet, ColumnSet
  PROVE  /\ page' = page /\ col' = col /\ home' = home /\ start' = start
         /\ \/ contrast' = contrast /\ pending # B1(commanded)
            \/ contrast' = commanded /\ pending = B1(commanded)
<1>1. {F1, F2, F3, F4, F5, F6, F7} \cap {<<>>, B1(commanded), B2(commanded)} = {}
  BY Apart DEF TypeInv
<1>2. /\ F1 # B1(commanded) /\ F2 # B1(commanded) /\ F3 # B1(commanded)
      /\ F4 # B1(commanded) /\ F5 # B1(commanded) /\ F6 # B1(commanded)
      /\ F7 # B1(commanded)
  BY <1>1
<1>3. page = <<0, 7>> /\ col = <<0, 127>> /\ home = {"page", "column"}
  BY DEF PageSet, ColumnSet, TypeInv
<1>4. CASE /\ want = <<>>
           /\ Head(pending) \in {CMD_PAGE_ADDR, CMD_COL_ADDR, CMD_SET_CONTRAST}
           /\ pending # B1(commanded)
  <2>1. TakeCommand(Head(pending))
    BY <1>4, CommandTaken DEF CMD_PAGE_ADDR, CMD_COL_ADDR, CMD_SET_CONTRAST, DATA
  <2>2. Head(pending) \notin 64..127
    <3>1. \A b \in {CMD_PAGE_ADDR, CMD_COL_ADDR, CMD_SET_CONTRAST} : b \notin 64..127
      BY DEF CMD_PAGE_ADDR, CMD_COL_ADDR, CMD_SET_CONTRAST
    <3> QED
      BY <1>4, <3>1, Zenon
  <2>3. start' = start
    BY <2>1, <2>2 DEF TakeCommand
  <2>4. page' = page /\ col' = col /\ home' = home /\ contrast' = contrast
    BY <2>1 DEF TakeCommand
  <2> QED
    BY <1>4, <2>3, <2>4
<1>5. CASE pending = F6 /\ want = PageArguments
  <2>1. Head(pending) = 0 /\ Head(pending) # DATA
    BY <1>5, Writes DEF DATA
  <2>2. page' = <<Head(pending) % 8, page[2]>> /\ col' = col
    BY <1>5, <2>1, ArgumentTaken, Arguments DEF TakeArgument
  <2>3. home' = home /\ start' = start /\ contrast' = contrast
    BY <1>5, <2>1, ArgumentTaken, Arguments DEF TakeArgument
  <2> QED
    BY <1>2, <1>3, <1>5, <2>1, <2>2, <2>3
<1>6. CASE pending = F5 /\ want = LastPage
  <2>1. Head(pending) = 7 /\ Head(pending) # DATA
    BY <1>6, Writes DEF DATA
  <2>2. page' = <<page[1], Head(pending) % 8>> /\ col' = col
    BY <1>6, <2>1, ArgumentTaken, Arguments DEF TakeArgument
  <2>3. home' = home \cup {"page"} /\ start' = start /\ contrast' = contrast
    BY <1>6, <2>1, ArgumentTaken, Arguments DEF TakeArgument
  <2> QED
    BY <1>2, <1>3, <1>6, <2>1, <2>2, <2>3
<1>7. CASE pending = F3 /\ want = ColumnArguments
  <2>1. Head(pending) = 0 /\ Head(pending) # DATA
    BY <1>7, Writes DEF DATA
  <2>2. page' = page /\ col' = <<Head(pending) % 128, col[2]>>
    BY <1>7, <2>1, ArgumentTaken, Arguments DEF TakeArgument
  <2>3. home' = home /\ start' = start /\ contrast' = contrast
    BY <1>7, <2>1, ArgumentTaken, Arguments DEF TakeArgument
  <2> QED
    BY <1>2, <1>3, <1>7, <2>1, <2>2, <2>3
<1>8. CASE pending = F2 /\ want = LastColumn
  <2>1. Head(pending) = 127 /\ Head(pending) # DATA
    BY <1>8, Writes DEF DATA
  <2>2. page' = page /\ col' = <<col[1], Head(pending) % 128>>
    BY <1>8, <2>1, ArgumentTaken, Arguments DEF TakeArgument
  <2>3. home' = home \cup {"column"} /\ start' = start /\ contrast' = contrast
    BY <1>8, <2>1, ArgumentTaken, Arguments DEF TakeArgument
  <2> QED
    BY <1>2, <1>3, <1>8, <2>1, <2>2, <2>3
<1>9. CASE pending = F1
  <2>1. TakeFrame
    BY <1>9, FrameTaken, Writes
  <2> QED
    BY <1>2, <1>3, <1>9, <2>1 DEF TakeFrame
<1>10. CASE pending = B1(commanded) /\ want = ContrastArgument
  <2>1. Head(pending) = commanded /\ Head(pending) # DATA
    BY <1>10, BrightnessWrites DEF TypeInv, Full, DATA
  <2>2. page' = page /\ col' = col /\ home' = home /\ start' = start
    BY <1>10, <2>1, ArgumentTaken, Arguments DEF TakeArgument
  <2>3. contrast' = commanded
    BY <1>10, <2>1, ArgumentTaken, Arguments DEF TakeArgument
  <2> QED
    BY <1>10, <2>2, <2>3
<1>11. CASE \/ pending = F7 /\ want = <<>>
            \/ pending = F4 /\ want = <<>>
            \/ pending = B2(commanded) /\ want = <<>>
  <2>1. B2(commanded) # B1(commanded)
    BY DEF B1, B2
  <2>2. Head(pending) \in {CMD_PAGE_ADDR, CMD_COL_ADDR, CMD_SET_CONTRAST}
    BY <1>11, Writes, BrightnessWrites
  <2> QED
    BY <1>2, <1>4, <1>11, <2>1, <2>2
<1>12. pending # <<>>
  BY DEF Written
<1> QED
  BY <1>5, <1>6, <1>7, <1>8, <1>9, <1>10, <1>11, <1>12 DEF Synced

LEMMA FollowStep == TypeInv /\ FollowInv /\ [Next]_vars => FollowInv'
<1> SUFFICES ASSUME TypeInv, FollowInv, [Next]_vars, ~lost'
             PROVE  /\ Synced(begun > 0)'
                    /\ PageSet' /\ ColumnSet'
                    /\ start' = 0
                    /\ contrast' = commanded' \/ pending' \in {B1(commanded'), B2(commanded')}
  BY DEF FollowInv
<1>1. ~lost
  BY DEF Next, UpdateDisplay, SetBrightness, Written, Lost, vars
<1>2. /\ Synced(begun > 0) /\ PageSet /\ ColumnSet /\ start = 0
      /\ contrast = commanded \/ pending \in {B1(commanded), B2(commanded)}
  BY <1>1 DEF FollowInv
<1>3. (begun > 0) \in BOOLEAN
  OBVIOUS
<1>4. pending = <<>> => want = <<>> /\ (begun > 0 => ram = "new") /\ contrast = commanded
  <2>1. B1(commanded) # <<>> /\ B2(commanded) # <<>>
    BY Apart DEF TypeInv
  <2> QED
    BY <1>2, <1>3, <2>1, IdleSynced
<1>5. CASE UpdateDisplay
  <2>1. pending = <<>> /\ pending' = F7 /\ commanded' = commanded
    BY <1>5, Writes DEF UpdateDisplay
  <2>2. UNCHANGED <<want, page, col, home, contrast, start>>
    BY <1>5 DEF UpdateDisplay
  <2>3. PageSet' /\ ColumnSet' /\ start' = 0
    BY <1>2, <2>2 DEF PageSet, ColumnSet
  <2> QED
    BY <1>4, <2>1, <2>2, <2>3 DEF Synced
<1>6. CASE SetBrightness
  <2>1. pending = <<>> /\ pending' = B2(commanded')
    BY <1>6, BrightnessWrites DEF SetBrightness
  <2>2. UNCHANGED <<want, page, col, home, contrast, start, ram, begun>>
    BY <1>6 DEF SetBrightness, panelVars
  <2>3. PageSet' /\ ColumnSet' /\ start' = 0
    BY <1>2, <2>2 DEF PageSet, ColumnSet
  <2> QED
    BY <1>4, <2>1, <2>2, <2>3 DEF Synced
<1>7. CASE Written
  <2>1. begun' = begun /\ commanded' = commanded /\ pending' = Tail(pending)
    BY <1>7 DEF Written
  <2>2. Synced(begun > 0)'
    BY <1>2, <1>3, <1>7, <2>1, SyncedWrite DEF Synced
  <2>3. /\ page' = page /\ col' = col /\ home' = home /\ start' = start
        /\ \/ contrast' = contrast /\ pending # B1(commanded)
           \/ contrast' = commanded /\ pending = B1(commanded)
    BY <1>2, <1>3, <1>7, UnlostWrite
  <2>4. PageSet' /\ ColumnSet' /\ start' = 0
    BY <1>2, <2>3 DEF PageSet, ColumnSet
  <2>5. contrast' = commanded \/ pending' = B1(commanded)
    BY <1>2, <2>1, <2>3, BrightnessWrites
  <2> QED
    BY <2>1, <2>2, <2>4, <2>5
<1>8. CASE Lost
  BY <1>8 DEF Lost
<1>9. CASE UNCHANGED vars
  BY <1>2, <1>9 DEF vars, panelVars, Synced, PageSet, ColumnSet
<1> QED
  BY <1>5, <1>6, <1>7, <1>8, <1>9 DEF Next

(* A panel that loses no write shows every frame, from its first row on,    *)
(* with the contrast set last (display.c:32-41, ssd1306.c:72-76).           *)
THEOREM FollowsHolds == Spec => []Follows
<1>1. Init => FollowInv
  <2> SUFFICES ASSUME Init PROVE FollowInv
    OBVIOUS
  <2>1. Synced(begun > 0)
    BY DEF Init, Synced
  <2> QED
    BY <2>1 DEF Init, FollowInv, PageSet, ColumnSet
<1>2. TypeInv /\ FollowInv => Follows
  <2> SUFFICES ASSUME TypeInv, FollowInv, ~lost, pending = <<>>
               PROVE  want = <<>> /\ contrast = commanded /\ start = 0
                      /\ (begun > 0 => ram = "new")
    BY DEF Follows
  <2>1. B1(commanded) # <<>> /\ B2(commanded) # <<>>
    BY Apart DEF TypeInv
  <2>2. Synced(begun > 0) /\ start = 0 /\ contrast = commanded
    BY <2>1 DEF FollowInv
  <2>3. (begun > 0) \in BOOLEAN
    OBVIOUS
  <2> QED
    BY <2>2, <2>3, IdleSynced
<1> QED
  BY <1>1, <1>2, FollowStep, TypeAlways, PTL DEF Spec
=============================================================================
