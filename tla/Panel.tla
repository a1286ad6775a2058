-------------------------------- MODULE Panel --------------------------------
(***************************************************************************)
(* The OLED as the display task drives it: display_send_buffer of          *)
(* app/ssd1306/display.c and oled_set_brightness of app/ssd1306/ssd1306.c  *)
(* write a command byte or the frame at a time, and a write the panel does *)
(* not acknowledge is logged and not repeated.  The SSD1306 is not in the  *)
(* repository; of it are modelled the commands these two send: a byte it   *)
(* expects as the argument of an earlier command is taken as one, whatever *)
(* it was meant to be.  oled_init is taken to have succeeded.              *)
(***************************************************************************)
EXTENDS Screen, Sequences

CONSTANT CO2  (* bound: CO2 values received                                 *)

ASSUME CO2Assumption == CO2 \subseteq UInt16

CMD_PAGE_ADDR == 34     (* 0x22 *)
CMD_COL_ADDR == 33      (* 0x21 *)
CMD_SET_CONTRAST == 129 (* 0x81 *)

DATA == 256  (* no byte: the one write of the whole frame buffer            *)

VARIABLES
  co2,        (* the value the frame buffer shows                           *)
  pending,    (* the writes left of the operation under way                 *)
  want,       (* the arguments the panel expects next                       *)
  page, col,  (* the panel's address windows: <<first, last>>               *)
  home,       (* which of its pointers are at the start of their window     *)
  contrast,   (* the panel's contrast                                       *)
  start,      (* the row of its memory the panel shows in its first line    *)
  ram,        (* its memory: the "new" frame, the "old" one, "garbled"      *)
  commanded,  (* the contrast last set by oled_set_brightness               *)
  lost,       (* whether a write was lost since oled_init                   *)
  begun       (* bound 2: frames begun since the last lost write            *)

panelVars == <<want, page, col, home, contrast, start, ram>>
vars == <<co2, pending, panelVars, commanded, lost, begun>>

Full == 255  (* 0xFF *)

Init ==
  /\ co2 = 0
  /\ pending = <<>>
  /\ want = <<>>
  /\ page = <<0, 7>>
  /\ col = <<0, 127>>
  /\ home = {"page", "column"}
  /\ contrast = Full
  /\ start = 0
  /\ ram = "garbled"
  /\ commanded = Full
  /\ lost = FALSE
  /\ begun = 0

----------------------------------------------------------------------------
(* The display task starts an operation.                                    *)

(* Used by a mutant only: only the column window is set before the frame.   *)
SendColumnsOnly == <<CMD_COL_ADDR, 0, 127, DATA>>

SendBuffer == <<CMD_PAGE_ADDR, 0, 7, CMD_COL_ADDR, 0, 127, DATA>>

(* Used by a mutant only: the frame is queued behind the writes under way.  *)
UpdateDisplayQueued ==
  /\ co2' \in CO2
  /\ pending' = pending \o SendBuffer
  /\ ram' = IF ram = "new" THEN "old" ELSE ram
  /\ begun' = IF begun < 2 THEN begun + 1 ELSE begun
  /\ UNCHANGED <<want, page, col, home, contrast, start, commanded, lost>>

(* update_display: draw the value, then send the frame buffer.              *)
UpdateDisplay ==
  /\ pending = <<>>
  /\ co2' \in CO2
  /\ pending' = SendBuffer
  /\ ram' = IF ram = "new" THEN "old" ELSE ram
  /\ begun' = IF begun < 2 THEN begun + 1 ELSE begun
  /\ UNCHANGED <<want, page, col, home, contrast, start, commanded, lost>>

(* Used by a mutant only: the brightness is sent before its command.        *)
SetBrightnessSwapped ==
  /\ pending = <<>>
  /\ commanded' \in {0, Full}
  /\ pending' = <<commanded', CMD_SET_CONTRAST>>
  /\ UNCHANGED <<co2, panelVars, lost, begun>>

SetBrightness ==
  /\ pending = <<>>
  /\ commanded' \in {0, Full}
  /\ pending' = <<CMD_SET_CONTRAST, commanded'>>
  /\ UNCHANGED <<co2, panelVars, lost, begun>>

----------------------------------------------------------------------------
(* What a write does to the panel.                                          *)

(* The next argument of a command.                                          *)
TakeArgument(byte) ==
  /\ want' = Tail(want)
  /\ page' = CASE Head(want) = "first page" -> <<byte % 8, page[2]>>
               [] Head(want) = "last page" -> <<page[1], byte % 8>>
               [] OTHER -> page
  /\ col' = CASE Head(want) = "first column" -> <<byte % 128, col[2]>>
              [] Head(want) = "last column" -> <<col[1], byte % 128>>
              [] OTHER -> col
  /\ contrast' = IF Head(want) = "contrast" THEN byte ELSE contrast
  /\ home' = CASE Head(want) = "last page" -> home \cup {"page"}
               [] Head(want) = "last column" -> home \cup {"column"}
               [] OTHER -> home
  /\ UNCHANGED <<start, ram>>

(* What the commands expect.                                                *)
PageArguments == <<"first page", "last page">>
ColumnArguments == <<"first column", "last column">>
ContrastArgument == <<"contrast">>

(* CMD_SET_START_LINE, 0x40, and 63 more: up to 0x7F.                       *)
StartLine(byte) == byte - 64

(* A command, or an argument whose command was lost: of those only 127, the *)
(* last column, is a command with an effect here.                           *)
TakeCommand(byte) ==
  /\ want' = CASE byte = CMD_PAGE_ADDR -> PageArguments
               [] byte = CMD_COL_ADDR -> ColumnArguments
               [] byte = CMD_SET_CONTRAST -> ContrastArgument
               [] OTHER -> <<>>
  /\ start' = IF byte \in 64..127 THEN StartLine(byte) ELSE start
  /\ UNCHANGED <<page, col, home, contrast, ram>>

(* The frame fills the window from the address pointer on.                  *)
TakeFrame ==
  /\ IF home = {"page", "column"} /\ page = <<0, 7>> /\ col = <<0, 127>>
     THEN ram' = "new" /\ UNCHANGED home
     ELSE ram' = "garbled" /\ home' = {}
  /\ UNCHANGED <<want, page, col, contrast, start>>

Written ==
  /\ pending # <<>>
  /\ CASE Head(pending) = DATA -> TakeFrame
       [] Head(pending) # DATA /\ want # <<>> -> TakeArgument(Head(pending))
       [] Head(pending) # DATA /\ want = <<>> -> TakeCommand(Head(pending))
  /\ pending' = Tail(pending)
  /\ UNCHANGED <<co2, commanded, lost, begun>>

(* The panel takes no byte of a command, or only a part of the frame.       *)
Lost ==
  /\ pending # <<>>
  /\ pending' = Tail(pending)
  /\ lost' = TRUE
  /\ begun' = 0
  /\ IF Head(pending) = DATA
     THEN ram' = "garbled" /\ home' = {}
     ELSE UNCHANGED <<ram, home>>
  /\ UNCHANGED <<co2, commanded, want, page, col, contrast, start>>

Next == UpdateDisplay \/ SetBrightness \/ Written \/ Lost

Spec == Init /\ [][Next]_vars

----------------------------------------------------------------------------
(* Every variable keeps its type.                                           *)
PanelTypeOK ==
  /\ co2 \in CO2 \cup {0}
  /\ Len(pending) \in 0..Len(SendBuffer)
  /\ want \in {<<>>, PageArguments, Tail(PageArguments),
               ColumnArguments, Tail(ColumnArguments), ContrastArgument}
  /\ page \in (0..7) \X (0..7)
  /\ col \in (0..127) \X (0..127)
  /\ contrast \in 0..255
  /\ start \in 0..63
  /\ commanded \in {0, Full}
  /\ ram \in {"new", "old", "garbled"}
  /\ home \subseteq {"page", "column"}
  /\ lost \in BOOLEAN
  /\ begun \in 0..2

(* No item is drawn beyond an edge of the screen, for any CO2 value: each   *)
(* such pixel would log a message (update_display_task.c:40-109,            *)
(* display.c:16-19).                                                        *)
NothingOffScreen == \A b \in Items(co2) : OnScreen(b)

(* The panel's memory recovers from lost writes: after two frames sent      *)
(* without a loss it holds the last one, whatever the panel took of the     *)
(* writes before and whichever commands those bytes became.  The picture    *)
(* is then right but for the start line, which no frame sets: it is 0, or   *)
(* 63, one row off, since a last column was once taken for its command      *)
(* (display.c:32-41, ssd1306.c:17-31,72-102).                               *)
MemoryRecovers == (begun = 2 /\ pending = <<>>) => ram = "new" /\ start \in {0, 63}

(* Without a lost write the panel follows: every frame is shown, from its   *)
(* first row on, and the contrast is the one set last, though frames and    *)
(* brightness commands share the panel's one command parser, to which the   *)
(* last column, 127, is also a command (display.c:32-41, ssd1306.c:72-76).  *)
Follows ==
  (~lost /\ pending = <<>>) =>
    /\ want = <<>>
    /\ contrast = commanded
    /\ start = 0
    /\ begun > 0 => ram = "new"

(* "Adjust fill level if it exceeds the bar's width"                        *)
(* (update_display_task.c:75): above the range of the bar, 2500, it is full. *)
BarFull == co2 >= 2500 => FillLevel(co2) = BarWidth
=============================================================================
