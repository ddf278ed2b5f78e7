------------------------- MODULE LegacyKernel_proofs ------------------------
(***************************************************************************)
(* Proofs about the first kernel: its console, printed to and scrolled at  *)
(* once, for every size of the screen and of its history; then that the    *)
(* kernel as a whole uses the console the way the theorem about it         *)
(* supposes.                                                               *)
(***************************************************************************)
EXTENDS LegacyKernel, TLAPS

\* The console with the two parties that use it, whatever else they do.
Handling == \/ vga_scroll_up \/ vga_scroll_down
            \/ vga_set_scroll_offset(vga_get_scroll_max)
            \/ vga_set_scroll_offset(0)

ConsoleNext == (\E c \in Chars : vga_char(c)) \/ Printing \/ Handling

ConsoleSpec == InitConsole /\ [][ConsoleNext]_consoleVars

-----------------------------------------------------------------------------
(***************************************************************************)
(* The inductive invariant.  How far the cursor may be outside the screen  *)
(* depends on the place vga_char is at: one column to the right before the *)
(* margin is tested, one line below before it scrolls; to the left and     *)
(* above only once a backspace was printed.                                *)
(***************************************************************************)
Bounds ==
    /\ cursorx \in Int /\ cursorx >= -1 /\ cursorx <= VGA_WIDTH
    /\ cursory \in Int /\ cursory >= -1 /\ cursory <= VGA_HEIGHT
    /\ ~rubbed => cursorx >= 0 /\ cursory >= 0
    /\ at \notin {"zero", "margin?"} => cursorx < VGA_WIDTH
    /\ at \notin {"below?", "scroll", "scroll_x", "scroll_y"}
         => cursory < VGA_HEIGHT

\* Above and to the left at once only until '\b' has set the column.
Corner == at # "edge" => ~(cursorx = -1 /\ cursory = -1)

\* What was read, and what the handler cannot take back before it is used.
\* A column or a line of 0 under '\b' is the handler's.
Carried ==
    /\ r \in Int
    /\ at \in {"down", "down="} => cursorx = 0
    /\ at = "down=" => r >= -1 /\ r < VGA_HEIGHT
    /\ at = "left" => cursorx >= 0 /\ (cursorx = 0 => cursory >= 0)
    /\ at = "left=" => /\ r >= 0 /\ r < VGA_WIDTH
                       /\ r = 0 => cursory >= 0
    /\ at = "up" => cursory >= 0
    /\ at = "up=" => r >= 0 /\ r < VGA_HEIGHT
    /\ at = "right=" => r >= -1 /\ r < VGA_WIDTH
    /\ at = "margin?" => cursorx >= 0

\* Which characters get where; after the move of a '\n' the cursor is on
\* the screen.
Route == /\ rubbed \in BOOLEAN /\ more \in BOOLEAN /\ calm \in BOOLEAN
         /\ at \in {"left?", "left", "left=", "up?", "up", "up=", "edge"}
              => char = "backspace"
         /\ at \in {"line", "cell"} => char \in {"text", "backspace"}
         /\ at \in {"right", "right=", "margin?"} => char = "text"
         /\ char = "backspace" => rubbed
         /\ char = "newline" /\ at \notin {"idle", "zero", "down", "down="}
              => cursorx >= 0 /\ cursory >= 0

CursorInv == Bounds /\ Corner /\ Carried /\ Route

\* The line was read, the column is read with the store.
StoreInv == /\ at = "cell" => /\ r <= (VGA_HEIGHT - 1) * VGA_WIDTH
                              /\ r >= -VGA_WIDTH /\ (~rubbed => r >= 0)
                              /\ r + cursorx >= -VGA_WIDTH
            /\ char = "newline" => stored = 0
            /\ stored \in Int /\ StoreBounds

\* Undisturbed, the registers get the position byte by byte.
ShownInv == /\ crtc \in [select : {14, 15}, low : Int, high : Int]
            /\ calm => 
                 /\ at = "idle" => crtc = Shown(cursorx, cursory)
                 /\ at = "pos" => r = cursory * VGA_WIDTH
                 /\ at \in {"0F", "low", "0E", "high"}
                      => r = Position(cursorx, cursory)
                 /\ at = "low" => crtc.select = 15
                 /\ at = "high" => crtc.select = 14
                 /\ at \in {"0E", "high"}
                      => crtc.low = Position(cursorx, cursory) % BYTE

IInv == CursorInv /\ StoreInv /\ ShownInv

-----------------------------------------------------------------------------
\* The sizes, as the steps below need them.
LEMMA Sizes == /\ VGA_WIDTH \in Int /\ VGA_WIDTH >= 1
               /\ VGA_HEIGHT \in Int /\ VGA_HEIGHT >= 1
BY LegacyConsoleAssumption

\* A byte's values and a word's.
LEMMA Widths == /\ BYTE \in Int /\ BYTE >= 2
                /\ BYTE * BYTE \in Int /\ BYTE * BYTE >= 1
<1>1. BYTE \in Int /\ BYTE >= 2 BY LegacyConsoleAssumption
<1>2. BYTE * BYTE \in Int /\ BYTE * BYTE >= 1 BY <1>1
<1> QED BY <1>1, <1>2

\* Products of integers, which the solver does not type by itself.
LEMMA ProductInt == ASSUME NEW a \in Int, NEW b \in Int PROVE a * b \in Int
OBVIOUS

LEMMA InitCursor == InitConsole => CursorInv
<1> SUFFICES ASSUME InitConsole PROVE CursorInv OBVIOUS
<1>1. Bounds BY Sizes DEF InitConsole, Bounds
<1>2. Corner BY DEF InitConsole, Corner
<1>3. Carried BY DEF InitConsole, Carried
<1>4. Route BY DEF InitConsole, Route
<1> QED BY <1>1, <1>2, <1>3, <1>4 DEF CursorInv

(***************************************************************************)
(* The cursor, one group of vga_char's steps after the other.              *)
(***************************************************************************)
LEMMA NewlineCursor == CursorInv /\ Newline => CursorInv'
<1> SUFFICES ASSUME CursorInv, Newline PROVE CursorInv' OBVIOUS
<1> USE Sizes DEF CursorInv, Bounds, Corner, Carried, Route
<1>1. CASE SetX("zero", 0, IF char = "return" THEN "below?" ELSE "down")
      BY <1>1 DEF SetX, Go
<1>2. CASE Read("down", cursory, "down=") BY <1>2 DEF Read, Go, console
<1>3. CASE SetY("down=", r + 1, "below?") BY <1>3 DEF SetY, Go
<1> QED BY <1>1, <1>2, <1>3 DEF Newline

LEMMA BackspaceCursor == CursorInv /\ Backspace => CursorInv'
<1> SUFFICES ASSUME CursorInv, Backspace PROVE CursorInv' OBVIOUS
<1> USE Sizes DEF CursorInv, Bounds, Corner, Carried, Route
<1>1. CASE Test("left?", cursorx > 0, "left", "up?")
      BY <1>1 DEF Test, Go, console
<1>2. CASE Read("left", cursorx, "left=") BY <1>2 DEF Read, Go, console
<1>3. CASE SetX("left=", r - 1, "line") BY <1>3 DEF SetX, Go
<1>4. CASE Test("up?", cursory > 0, "up", "below?")
      BY <1>4 DEF Test, Go, console
<1>5. CASE Read("up", cursory, "up=") BY <1>5 DEF Read, Go, console
<1>6. CASE SetY("up=", r - 1, "edge") BY <1>6 DEF SetY, Go
<1>7. CASE SetX("edge", VGA_WIDTH - 1, "line") BY <1>7 DEF SetX, Go
<1> QED BY <1>1, <1>2, <1>3, <1>4, <1>5, <1>6, <1>7 DEF Backspace

LEMMA StoreCursor == CursorInv /\ Store => CursorInv'
<1> SUFFICES ASSUME CursorInv, Store PROVE CursorInv' OBVIOUS
<1> USE Sizes DEF CursorInv, Bounds, Corner, Carried, Route
<1>1. CASE Read("line", cursory * VGA_WIDTH, "cell")
  <2>1. cursory \in Int /\ VGA_WIDTH \in Int OBVIOUS
  <2>2. cursory * VGA_WIDTH \in Int BY ONLY <2>1, ProductInt
  <2> QED BY <1>1, <2>2 DEF Read, Go, console
<1>2. CASE /\ Go("cell", IF char = "backspace" THEN "below?" ELSE "right")
           /\ UNCHANGED <<console, char, r, more, rubbed, calm>>
      BY <1>2 DEF Go, console
<1> QED BY <1>1, <1>2 DEF Store

LEMMA TextCursor == CursorInv /\ Text => CursorInv'
<1> SUFFICES ASSUME CursorInv, Text PROVE CursorInv' OBVIOUS
<1> USE Sizes DEF CursorInv, Bounds, Corner, Carried, Route
<1>1. CASE Read("right", cursorx, "right=") BY <1>1 DEF Read, Go, console
<1>2. CASE SetX("right=", r + 1, "margin?") BY <1>2 DEF SetX, Go
<1>3. CASE Test("margin?", Margin(cursorx), "zero", "below?")
      BY <1>3 DEF Test, Go, console, Margin
<1> QED BY <1>1, <1>2, <1>3 DEF Text

LEMMA ScrollCursor == CursorInv /\ Scroll => CursorInv'
<1> SUFFICES ASSUME CursorInv, Scroll PROVE CursorInv' OBVIOUS
<1> USE Sizes DEF CursorInv, Bounds, Corner, Carried, Route
<1>1. CASE Test("below?", Below(cursory), "scroll", "update")
      BY <1>1 DEF Test, Go, console, Below
<1>2. CASE /\ Go("scroll", "scroll_x")
           /\ UNCHANGED <<cursor, char, r, more, rubbed, calm>>
      BY <1>2 DEF Go, cursor
<1>3. CASE SetX("scroll_x", 0, "scroll_y") BY <1>3 DEF SetX, Go
<1>4. CASE SetY("scroll_y", VGA_HEIGHT - 1, "scroll_0")
      BY <1>4 DEF SetY, Go
<1>5. CASE /\ Go("scroll_0", "update") /\ more' = TRUE
           /\ UNCHANGED <<cursor, char, r, rubbed, calm>>
      BY <1>5 DEF Go, cursor
<1> QED BY <1>1, <1>2, <1>3, <1>4, <1>5 DEF Scroll

LEMMA UpdateCursor == CursorInv /\ update_cursor => CursorInv'
<1> SUFFICES ASSUME CursorInv, update_cursor PROVE CursorInv' OBVIOUS
<1> USE Sizes DEF CursorInv, Bounds, Corner, Carried, Route
<1>1. CASE Read("update", cursory * VGA_WIDTH, "pos")
  <2>1. cursory \in Int /\ VGA_WIDTH \in Int OBVIOUS
  <2>2. cursory * VGA_WIDTH \in Int BY ONLY <2>1, ProductInt
  <2> QED BY <1>1, <2>2 DEF Read, Go, console
<1>2. CASE Read("pos", (r + cursorx) % (BYTE * BYTE), "0F")
  <2> DEFINE q == BYTE * BYTE
  <2>1. q \in Int /\ q >= 1 /\ r \in Int /\ cursorx \in Int
        BY Widths
  <2> HIDE DEF q
  <2>2. (r + cursorx) % q \in Int BY ONLY <2>1
  <2> QED BY <1>2, <2>2 DEF Read, Go, console
<1>3. ASSUME NEW from \in {"0F", "low", "0E"},
             NEW to \in {"low", "0E", "high"}, NEW registers,
             Out(from, to, registers)
      PROVE  CursorInv'
      BY <1>3 DEF Out, Go, cursor
<1>4. CASE /\ Go("high", IF more THEN "update" ELSE "idle")
           /\ more' = FALSE /\ r' = 0
           /\ rubbed' = (rubbed /\ (more \/ char # "newline"))
           /\ UNCHANGED <<cursor, char, calm>>
  <2> USE DEF Go, cursor
  <2>1. Bounds' BY <1>4
  <2>2. Corner' BY <1>4
  <2>3. Carried' BY <1>4
  <2>4. Route' BY <1>4
  <2> QED BY <2>1, <2>2, <2>3, <2>4
<1> QED BY <1>1, <1>2, <1>3, <1>4 DEF update_cursor

LEMMA CharCursor ==
    ASSUME CursorInv, NEW c \in Chars, vga_char(c)
    PROVE  CursorInv'
BY Sizes DEF CursorInv, Bounds, Corner, Carried, Route,
             vga_char, Go, Chars, console

\* The handler puts the cursor in a corner of the screen, or does nothing.
LEMMA HandlingMoves ==
    ASSUME Handling
    PROVE  \/ UNCHANGED consoleVars
           \/ /\ cursorx' = 0 /\ cursory' \in {0, VGA_HEIGHT - 1}
              /\ crtc' = Shown(cursorx', cursory') /\ calm' = (at = "idle")
              /\ UNCHANGED <<main, stored, rubbed>>
BY DEF Handling, vga_scroll_up, vga_scroll_down, vga_set_scroll_offset,
       redraw_screen_from_history

LEMMA StutterCursor == CursorInv /\ UNCHANGED consoleVars => CursorInv'
<1> SUFFICES ASSUME CursorInv, UNCHANGED consoleVars PROVE CursorInv' OBVIOUS
<1> USE DEF CursorInv, consoleVars, console, main
<1>1. Bounds' BY DEF Bounds
<1>2. Corner' BY DEF Corner
<1>3. Carried' BY DEF Carried
<1>4. Route' BY DEF Route
<1> QED BY <1>1, <1>2, <1>3, <1>4

LEMMA HandlingCursor == CursorInv /\ Handling => CursorInv'
<1> SUFFICES ASSUME CursorInv, Handling PROVE CursorInv' OBVIOUS
<1> USE DEF CursorInv
<1>1. CASE UNCHANGED consoleVars BY <1>1, StutterCursor
<1>2. CASE /\ cursorx' = 0 /\ cursory' \in {0, VGA_HEIGHT - 1}
           /\ calm' = (at = "idle")
           /\ UNCHANGED <<main, stored, rubbed>>
  <2> USE <1>2, Sizes DEF main
  <2>1. Bounds' BY DEF Bounds
  <2>2. Corner' BY DEF Corner
  <2>3. Carried' BY DEF Carried
  <2>4. Route' BY DEF Route
  <2> QED BY <2>1, <2>2, <2>3, <2>4
<1> QED BY <1>1, <1>2, HandlingMoves

LEMMA NextCursor == CursorInv /\ [ConsoleNext]_consoleVars => CursorInv'
BY NewlineCursor, BackspaceCursor, StoreCursor, TextCursor, ScrollCursor,
   UpdateCursor, CharCursor, HandlingCursor, StutterCursor
   DEF ConsoleNext, Printing

(***************************************************************************)
(* The cell that is written.                                               *)
(***************************************************************************)
LEMMA Cells ==
    ASSUME NEW y \in Int, y >= -1, y < VGA_HEIGHT
    PROVE  /\ y * VGA_WIDTH \in Int
           /\ y * VGA_WIDTH <= (VGA_HEIGHT - 1) * VGA_WIDTH
           /\ y * VGA_WIDTH >= -VGA_WIDTH
           /\ y >= 0 => y * VGA_WIDTH >= 0
BY Sizes

LEMMA NearestCell ==
    \A line, x, y \in Int :
        /\ line >= -VGA_WIDTH /\ x >= -1 /\ y >= -1
        /\ (y >= 0 => line >= 0) /\ (y = -1 => x >= 0)
        => line + x >= -VGA_WIDTH
BY Sizes

LEMMA LastCell == /\ VGA_WIDTH * VGA_HEIGHT \in Int
                  /\ VGA_WIDTH * VGA_HEIGHT > 0
                  /\ (VGA_HEIGHT - 1) * VGA_WIDTH
                       = VGA_WIDTH * VGA_HEIGHT - VGA_WIDTH
BY Sizes

LEMMA ElsewhereStore ==
    ASSUME StoreInv, UNCHANGED <<char, stored, rubbed>>, at' # "cell"
    PROVE  StoreInv'
BY DEF StoreInv, StoreBounds

LEMMA LineStore ==
    ASSUME CursorInv, StoreInv, Store
    PROVE  StoreInv'
<1> USE Sizes DEF CursorInv, StoreInv
<1>1. CASE Read("line", cursory * VGA_WIDTH, "cell")
  <2>1. at = "line" /\ at' = "cell" /\ r' = cursory * VGA_WIDTH
        /\ UNCHANGED <<char, stored, rubbed, cursorx>>
        BY <1>1 DEF Read, Go, console
  <2>2. /\ cursory \in Int /\ cursory >= -1 /\ cursory < VGA_HEIGHT
        /\ cursorx \in Int /\ cursorx >= -1
        /\ ~rubbed => cursory >= 0
        /\ cursory = -1 => cursorx >= 0
        BY <2>1 DEF Bounds, Corner
  <2>3. /\ r' \in Int
        /\ r' <= (VGA_HEIGHT - 1) * VGA_WIDTH
        /\ r' >= -VGA_WIDTH
        /\ cursory >= 0 => r' >= 0
        BY <2>1, <2>2, Cells
  <2>4. r' + cursorx >= -VGA_WIDTH
    <3>1. r' \in Int /\ r' >= -VGA_WIDTH /\ (cursory >= 0 => r' >= 0)
          BY <2>3
    <3> QED BY ONLY <2>2, <3>1, Sizes, NearestCell
  <2>5. stored' \in Int /\ StoreBounds' BY <2>1 DEF StoreBounds
  <2>6. char' = "newline" => stored' = 0 BY <2>1
  <2>7. ~rubbed' => r' >= 0 BY <2>1, <2>2, <2>3
  <2>8. r' + cursorx' >= -VGA_WIDTH BY <2>1, <2>4
  <2> QED BY <2>1, <2>3, <2>5, <2>6, <2>7, <2>8
<1>2. CASE /\ Go("cell", IF char = "backspace" THEN "below?" ELSE "right")
           /\ stored' = r + cursorx
           /\ UNCHANGED <<console, char, r, more, rubbed, calm>>
  <2> DEFINE size == VGA_WIDTH * VGA_HEIGHT
             last == (VGA_HEIGHT - 1) * VGA_WIDTH
  <2>1. /\ at = "cell" /\ at' # "cell" /\ stored' = r + cursorx
        /\ UNCHANGED <<char, rubbed>>
        BY <1>2 DEF Go
  <2>2. /\ cursorx \in Int /\ cursorx < VGA_WIDTH /\ r \in Int
        /\ ~rubbed => cursorx >= 0
        BY <2>1 DEF Bounds, Carried
  <2>3. /\ r <= last /\ r + cursorx >= -VGA_WIDTH
        /\ ~rubbed => r >= 0
        BY <2>1
  <2>4. char # "newline" BY <2>1 DEF Route
  <2>5. size \in Int /\ last = size - VGA_WIDTH BY LastCell
  <2> HIDE DEF size, last
  <2>6. r + cursorx < size BY <2>2, <2>3, <2>5
  <2>7. r + cursorx >= IF rubbed THEN -VGA_WIDTH ELSE 0 BY <2>2, <2>3
  <2>8. stored' \in Int /\ StoreBounds'
        BY <2>1, <2>2, <2>6, <2>7 DEF StoreBounds, size
  <2> QED BY <2>1, <2>4, <2>8
<1> QED BY <1>1, <1>2 DEF Store

LEMMA UpdateStore ==
    ASSUME StoreInv, update_cursor
    PROVE  StoreInv'
<1>1. /\ at' # "cell" /\ UNCHANGED <<char, stored>>
      /\ ~rubbed' => ~rubbed \/ char = "newline"
  <2>1. ASSUME NEW value, Read("update", value, "pos")
                          \/ Read("pos", value, "0F")
        PROVE  <1>1!1 /\ <1>1!2
        BY <2>1 DEF Read, Go
  <2>2. ASSUME NEW from, NEW to \in {"low", "0E", "high"}, NEW registers,
               Out(from, to, registers)
        PROVE  <1>1!1 /\ <1>1!2
        BY <2>2 DEF Out, Go
  <2>3. CASE /\ Go("high", IF more THEN "update" ELSE "idle")
             /\ rubbed' = (rubbed /\ (more \/ char # "newline"))
             /\ UNCHANGED <<cursor, char, stored>>
        BY <2>3 DEF Go
  <2> QED BY <2>1, <2>2, <2>3 DEF update_cursor
<1>2. StoreBounds'
  <2>1. VGA_WIDTH * VGA_HEIGHT \in Int BY LastCell
  <2>2. CASE char = "newline"
    <3>1. stored = 0 BY <2>2 DEF StoreInv
    <3> QED BY <1>1, <3>1, Sizes, LastCell DEF StoreBounds
  <2>3. CASE char # "newline"
    <3>1. /\ stored < VGA_WIDTH * VGA_HEIGHT
          /\ stored >= 0 \/ stored >= -VGA_WIDTH
          /\ ~rubbed' => stored >= 0
          BY <1>1, <2>3 DEF StoreInv, StoreBounds
    <3>2. stored >= -VGA_WIDTH BY <3>1, Sizes DEF StoreInv
    <3> QED BY <1>1, <3>1, <3>2 DEF StoreBounds
  <2> QED BY <2>2, <2>3
<1> QED BY <1>1, <1>2 DEF StoreInv

LEMMA NextStore ==
    CursorInv /\ StoreInv /\ [ConsoleNext]_consoleVars => StoreInv'
<1> SUFFICES ASSUME CursorInv, StoreInv, [ConsoleNext]_consoleVars
             PROVE  StoreInv'
    OBVIOUS
<1>1. CASE Newline
      BY <1>1, ElsewhereStore DEF Newline, SetX, SetY, Read, Go
<1>2. CASE Backspace
      BY <1>2, ElsewhereStore DEF Backspace, SetX, SetY, Read, Test, Go
<1>3. CASE Store BY <1>3, LineStore
<1>4. CASE Text BY <1>4, ElsewhereStore DEF Text, SetX, Read, Test, Go
<1>5. CASE Scroll BY <1>5, ElsewhereStore DEF Scroll, SetX, SetY, Test, Go
<1>6. CASE update_cursor BY <1>6, UpdateStore
<1>7. ASSUME NEW c \in Chars, vga_char(c) PROVE StoreInv'
  <2>1. at' # "cell" /\ stored' = 0 BY <1>7 DEF vga_char, Go, Chars
  <2> QED BY <2>1, Sizes, LastCell DEF StoreInv, StoreBounds
<1>8. CASE UNCHANGED consoleVars
      BY <1>8 DEF consoleVars, console, main, StoreInv, StoreBounds
<1>9. CASE /\ cursorx' = 0
           /\ UNCHANGED <<main, stored, rubbed>>
  <2>1. r \in Int BY DEF CursorInv, Carried
  <2> QED BY <1>9, <2>1, Sizes DEF main, StoreInv, StoreBounds
<1> QED BY <1>1, <1>2, <1>3, <1>4, <1>5, <1>6, <1>7, <1>8, <1>9,
           HandlingMoves DEF ConsoleNext, Printing

(***************************************************************************)
(* The display's registers.                                                *)
(***************************************************************************)
Registers == [select : {14, 15}, low : Int, high : Int]

LEMMA Bytes ==
    ASSUME NEW v \in Int
    PROVE  v % BYTE \in Int /\ v \div BYTE \in Int
<1>1. BYTE \in Int /\ BYTE >= 2 BY Widths
<1> QED BY ONLY <1>1

LEMMA Selected ==
    ASSUME crtc \in Registers, NEW b \in Int
    PROVE  /\ ToSelected(b) \in Registers
           /\ ToSelected(b).select = crtc.select
           /\ crtc.select = 15 => ToSelected(b).low = b
           /\ crtc.select = 14 => /\ ToSelected(b).high = b
                                  /\ ToSelected(b).low = crtc.low
BY DEF ToSelected, Registers

LEMMA ElsewhereShown ==
    ASSUME ShownInv, crtc' = crtc,
           at' \notin {"idle", "pos", "0F", "low", "0E", "high"}
    PROVE  ShownInv'
BY DEF ShownInv

LEMMA UpdateShown ==
    ASSUME CursorInv, ShownInv, update_cursor
    PROVE  ShownInv'
<1>0. crtc \in Registers /\ r \in Int
      BY DEF ShownInv, Registers, CursorInv, Carried
<1>1. CASE Read("update", cursory * VGA_WIDTH, "pos")
      BY <1>1 DEF Read, Go, console, ShownInv
<1>2. CASE Read("pos", (r + cursorx) % (BYTE * BYTE), "0F")
  <2>1. /\ at = "pos" /\ at' = "0F" /\ r' = (r + cursorx) % (BYTE * BYTE)
        /\ UNCHANGED <<cursorx, cursory, crtc, calm>>
        BY <1>2 DEF Read, Go, console
  <2>2. calm => r' = Position(cursorx, cursory)
        BY <2>1 DEF ShownInv, Position
  <2>3. calm' => r' = Position(cursorx, cursory)' BY <2>1, <2>2 DEF Position
  <2> QED BY <2>1, <2>3 DEF ShownInv
<1>3. ASSUME Out("0F", "low", [crtc EXCEPT !.select = 15])
      PROVE  ShownInv'
  <2>1. /\ at = "0F" /\ at' = "low" /\ crtc' = [crtc EXCEPT !.select = 15]
        /\ UNCHANGED <<cursorx, cursory, r, calm>>
        BY <1>3 DEF Out, Go, cursor
  <2>2. crtc' \in Registers /\ crtc'.select = 15
        BY <1>0, <2>1 DEF Registers
  <2>3. Position(cursorx, cursory)' = Position(cursorx, cursory)
        BY <2>1 DEF Position
  <2> QED BY <2>1, <2>2, <2>3 DEF ShownInv, Registers
<1>4. ASSUME Out("low", "0E", ToSelected(r % BYTE))
      PROVE  ShownInv'
  <2>1. /\ at = "low" /\ at' = "0E" /\ crtc' = ToSelected(r % BYTE)
        /\ UNCHANGED <<cursorx, cursory, r, calm>>
        BY <1>4 DEF Out, Go, cursor
  <2>2. /\ crtc' \in Registers
        /\ crtc.select = 15 => crtc'.low = r % BYTE
        BY <1>0, <2>1, Bytes, Selected
  <2>3. Position(cursorx, cursory)' = Position(cursorx, cursory)
        BY <2>1 DEF Position
  <2> QED BY <2>1, <2>2, <2>3 DEF ShownInv, Registers
<1>5. ASSUME Out("0E", "high", [crtc EXCEPT !.select = 14])
      PROVE  ShownInv'
  <2>1. /\ at = "0E" /\ at' = "high" /\ crtc' = [crtc EXCEPT !.select = 14]
        /\ UNCHANGED <<cursorx, cursory, r, calm>>
        BY <1>5 DEF Out, Go, cursor
  <2>2. crtc' \in Registers /\ crtc'.select = 14 /\ crtc'.low = crtc.low
        BY <1>0, <2>1 DEF Registers
  <2>3. Position(cursorx, cursory)' = Position(cursorx, cursory)
        BY <2>1 DEF Position
  <2> QED BY <2>1, <2>2, <2>3 DEF ShownInv, Registers
<1>6. CASE /\ Go("high", IF more THEN "update" ELSE "idle")
           /\ crtc' = ToSelected(r \div BYTE)
           /\ UNCHANGED <<cursor, calm>>
  <2>1. /\ at = "high" /\ at' \in {"update", "idle"}
        /\ crtc' = ToSelected(r \div BYTE)
        /\ UNCHANGED <<cursorx, cursory, calm>>
        BY <1>6 DEF Go, cursor
  <2>2. /\ crtc' \in Registers /\ crtc'.select = crtc.select
        /\ crtc.select = 14 => /\ crtc'.high = r \div BYTE
                               /\ crtc'.low = crtc.low
        BY <1>0, <2>1, Bytes, Selected
  <2>3. calm => crtc' = Shown(cursorx, cursory)
    <3> SUFFICES ASSUME calm PROVE crtc' = Shown(cursorx, cursory) OBVIOUS
    <3>1. /\ crtc.select = 14 /\ r = Position(cursorx, cursory)
          /\ crtc.low = Position(cursorx, cursory) % BYTE
          BY <2>1 DEF ShownInv
    <3> QED BY <2>2, <3>1 DEF Shown, Registers
  <2>4. Shown(cursorx, cursory)' = Shown(cursorx, cursory)
        BY <2>1 DEF Shown, Position
  <2> QED BY <2>1, <2>2, <2>3, <2>4 DEF ShownInv, Registers
<1> QED BY <1>1, <1>2, <1>3, <1>4, <1>5, <1>6 DEF update_cursor

LEMMA HandlingShown ==
    ASSUME CursorInv, ShownInv,
           cursorx' = 0, cursory' \in {0, VGA_HEIGHT - 1},
           crtc' = Shown(cursorx', cursory'), calm' = (at = "idle"),
           UNCHANGED <<main, stored, rubbed>>
    PROVE  ShownInv'
<1>1. Position(cursorx', cursory') \in Int
  <2>1. cursory' * VGA_WIDTH + cursorx' \in Int
    <3>1. cursory' \in Int BY Sizes
    <3>2. cursory' * VGA_WIDTH \in Int BY <3>1, Sizes, ProductInt
    <3> QED BY <3>2
  <2>2. BYTE * BYTE \in Int /\ BYTE * BYTE >= 1 BY Widths
  <2> DEFINE v == cursory' * VGA_WIDTH + cursorx'
             q == BYTE * BYTE
  <2> HIDE DEF v, q
  <2>3. v \in Int /\ q \in Int /\ q >= 1 BY <2>1, <2>2 DEF v, q
  <2>4. v % q \in Int BY ONLY <2>3
  <2> QED BY <2>4 DEF Position, v, q
<1>2. Shown(cursorx', cursory') \in Registers
      BY <1>1, Bytes DEF Shown, Registers
<1>3. crtc' = Shown(cursorx, cursory)' /\ at' = at BY DEF Shown, Position, main
<1> QED BY <1>2, <1>3 DEF ShownInv, Registers

LEMMA NextShown ==
    CursorInv /\ ShownInv /\ [ConsoleNext]_consoleVars => ShownInv'
<1> SUFFICES ASSUME CursorInv, ShownInv, [ConsoleNext]_consoleVars
             PROVE  ShownInv'
    OBVIOUS
<1>1. CASE Newline
      BY <1>1, ElsewhereShown DEF Newline, SetX, SetY, Read, Go, console
<1>2. CASE Backspace
      BY <1>2, ElsewhereShown
         DEF Backspace, SetX, SetY, Read, Test, Go, console
<1>3. CASE Store BY <1>3, ElsewhereShown DEF Store, Read, Go, console
<1>4. CASE Text
      BY <1>4, ElsewhereShown DEF Text, SetX, Read, Test, Go, console
<1>5. CASE Scroll
      BY <1>5, ElsewhereShown DEF Scroll, SetX, SetY, Test, Go, console
<1>6. CASE update_cursor BY <1>6, UpdateShown
<1>7. ASSUME NEW c \in Chars, vga_char(c) PROVE ShownInv'
      BY <1>7, ElsewhereShown DEF vga_char, Go, Chars, console
<1>8. CASE UNCHANGED consoleVars
      BY <1>8 DEF consoleVars, console, main, ShownInv, Shown, Position
<1>9. CASE Handling BY <1>8, <1>9, HandlingMoves, HandlingShown
<1> QED BY <1>1, <1>2, <1>3, <1>4, <1>5, <1>6, <1>7, <1>8, <1>9
        DEF ConsoleNext, Printing

-----------------------------------------------------------------------------
LEMMA InitIInv == InitConsole => IInv
<1> SUFFICES ASSUME InitConsole PROVE IInv OBVIOUS
<1>1. CursorInv BY InitCursor
<1>2. StoreInv BY Sizes, LastCell DEF InitConsole, StoreInv, StoreBounds
<1>3. ShownInv
  <2>1. Position(0, 0) = 0
    <3>1. 0 * VGA_WIDTH + 0 = 0 BY Sizes
    <3> DEFINE q == BYTE * BYTE
    <3>2. q \in Int /\ q >= 1 BY Widths
    <3> HIDE DEF q
    <3>3. 0 % q = 0 BY ONLY <3>2
    <3> QED BY <3>1, <3>3 DEF Position, q
  <2>2. Shown(0, 0) \in Registers BY <2>1, Bytes DEF Shown, Registers
  <2> QED BY <2>2 DEF InitConsole, ShownInv, Registers
<1> QED BY <1>1, <1>2, <1>3 DEF IInv

LEMMA NextIInv == IInv /\ [ConsoleNext]_consoleVars => IInv'
BY NextCursor, NextStore, NextShown DEF IInv

LEMMA Invariance == ConsoleSpec => []IInv
BY InitIInv, NextIInv, PTL DEF ConsoleSpec

LEMMA Bounded == IInv => StoreBounds /\ CursorRecovers /\ CursorShown
<1> SUFFICES ASSUME IInv PROVE StoreBounds /\ CursorRecovers /\ CursorShown
    OBVIOUS
<1>1. StoreBounds BY DEF IInv, StoreInv
<1>2. CursorRecovers
  <2> SUFFICES ASSUME at = "idle" PROVE CursorRecovers BY DEF CursorRecovers
  <2>1. /\ cursorx \in Int /\ cursorx >= -1 /\ cursorx < VGA_WIDTH
        /\ cursory \in Int /\ cursory >= -1 /\ cursory < VGA_HEIGHT
        /\ ~rubbed => cursorx >= 0 /\ cursory >= 0
        BY DEF IInv, CursorInv, Bounds
  <2>2. CASE rubbed BY <2>1, <2>2, Sizes DEF CursorRecovers
  <2>3. CASE ~rubbed BY <2>1, <2>3, Sizes DEF CursorRecovers
  <2> QED BY <2>2, <2>3
<1>3. CursorShown BY DEF IInv, ShownInv, CursorShown
<1> QED BY <1>1, <1>2, <1>3

(***************************************************************************)
(* Whoever prints and whoever scrolls, in whatever order their accesses    *)
(* come, on a screen of any size: vga_char writes no cell behind the last, *)
(* the cursor is at most one place outside and comes back, and the display *)
(* shows it where it is (old/Include/VGA.c:54-250).               *)
(***************************************************************************)
THEOREM ConsoleCorrect ==
    ConsoleSpec => [](StoreBounds /\ CursorRecovers /\ CursorShown)
BY Invariance, Bounded, PTL

-----------------------------------------------------------------------------
(***************************************************************************)
(* The kernel and its console: the handler's calls and nothing else come   *)
(* between the steps of vga_char.                                          *)
(***************************************************************************)
LEMMA StartUses == Start => UNCHANGED consoleVars
BY DEF Start, IDT_INIT, pic_init, PS2_KB_INIT, Flush, Exchange, ReadConfig,
       WaitAck, GotAck, PS2_KB_INSTALL, sti

LEMMA PrintsUses == Prints => ConsoleNext
BY DEF Prints, ConsoleNext

LEMMA HandleUses ==
    ASSUME NEW b, Handle(b)
    PROVE  Handling \/ UNCHANGED consoleVars
BY DEF Handle, ScrollKey, Handling

LEMMA InterruptUses == Interrupt => Handling \/ UNCHANGED consoleVars
BY HandleUses DEF Interrupt

LEMMA ArrivalUses == Code \/ Answer => UNCHANGED consoleVars
BY DEF Code, Answer

(***************************************************************************)
(* The kernel implements the console's specification: kernel_main, the     *)
(* keyboard's handler, the controllers and the keyboard do nothing else to *)
(* the cursor, the view and the display's registers (old/KERNEL.c:39-76,   *)
(* old/Include/PS2KB.c:160-238).                                           *)
(***************************************************************************)
THEOREM KernelUsesConsole == Spec => ConsoleSpec
<1>1. Init => InitConsole BY DEF Init
<1>2. [Next]_vars => [ConsoleNext]_consoleVars
  <2> SUFFICES ASSUME [Next]_vars PROVE [ConsoleNext]_consoleVars OBVIOUS
  <2>1. CASE UNCHANGED vars BY <2>1 DEF vars
  <2>2. CASE Next
        BY <2>2, StartUses, PrintsUses, InterruptUses, ArrivalUses
           DEF Next, ConsoleNext
  <2> QED BY <2>1, <2>2
<1> QED BY <1>1, <1>2, PTL DEF Spec, ConsoleSpec

(***************************************************************************)
(* vga_char writes inside the screen, or a line before it where a '\b' was *)
(* printed, at whatever access the keyboard's interrupt comes              *)
(* (old/Include/VGA.c:220-250).                                            *)
(***************************************************************************)
THEOREM StoresBounded == Spec => []StoreBounds
BY KernelUsesConsole, ConsoleCorrect, PTL

(***************************************************************************)
(* Between two characters the cursor is on the screen, or one place        *)
(* outside until the next newline (old/Include/VGA.c:220-250).             *)
(***************************************************************************)
THEOREM CursorComesBack == Spec => []CursorRecovers
BY KernelUsesConsole, ConsoleCorrect, PTL

(***************************************************************************)
(* The display's cursor is the console's after a character that was        *)
(* printed undisturbed, whatever was selected in the display's registers   *)
(* before (old/Include/VGA.c:212-218).                                     *)
(***************************************************************************)
THEOREM CursorIsShown == Spec => []CursorShown
BY KernelUsesConsole, ConsoleCorrect, PTL

-----------------------------------------------------------------------------
(***************************************************************************)
(* The machine: what the interrupt controllers and the 8042 are at each    *)
(* place of kernel_main.  ICW1 forgets a request of the keyboard; the      *)
(* flush that follows takes its byte, so that the line rises again.        *)
(***************************************************************************)
ChipOK(c) == c \in [base : Int, imr : Int, irr : SUBSET Lines,
                    isr : SUBSET Lines, icw : {0, 2, 3, 4}, icw1 : Int]

BufferOK(k) ==
    k \in [config : Configs, out : Codes \cup {EMPTY, "config", "ack"},
           asked : BOOLEAN, owes : BOOLEAN, scanning : BOOLEAN]

\* Behind the write of the configuration byte.
Written == {"enable", "flush again", "scan", "wait ack", "gate", "sti",
            "print"}

Idle(pic1, pic2) == ChipOK(pic1) /\ ChipOK(pic2) /\ pic1.isr = {} /\ pic2.isr = {}

Masked(pic) == pic.base = 32 /\ pic.imr = 253 /\ pic.icw = 0

Programmed ==
    /\ Idle(PIC1, PIC2) /\ entered \in {"none", "ps2"}
    /\ pc # "IDT_INIT" => gates = "ps2"
    /\ pc \notin {"IDT_INIT", "pic_init"} => Masked(PIC1)
    /\ enabled <=> pc = "print"

Configured ==
    /\ BufferOK(kbc) /\ config \in Configs
    /\ pc # "wait config" => ~kbc.asked
    /\ pc \in Written => kbc.config.irq
    /\ pc \in Written \ {"enable"} => ~kbc.config.off

Requested ==
    pc \notin {"IDT_INIT", "pic_init", "flush"}
       => (Line(kbc) => KEYBOARD \in PIC1.irr)

MachineInv == Programmed /\ Configured /\ Requested

\* The bits of the words the kernel sends; the mask leaves the keyboard's
\* line open and no other.
LEMMA Words ==
    /\ Bit(17, 0) /\ ~Bit(17, 1) /\ Bit(17, 4)
    /\ ~Bit(32, 3) /\ ~Bit(32, 4) /\ Bit(32, 5)
BY DEF Bit, Weight

LEMMA KeyboardMask == \A l \in Lines : Bit(253, l) <=> l # KEYBOARD
<1> SUFFICES ASSUME NEW l \in Lines PROVE Bit(253, l) <=> l # KEYBOARD
    OBVIOUS
<1>1. l \in {0, 1, 2, 3, 4, 5, 6, 7} BY DEF Lines
<1>2. /\ 253 \div 1 = 253 /\ 253 \div 2 = 126 /\ 253 \div 4 = 63
      /\ 253 \div 8 = 31 /\ 253 \div 16 = 15 /\ 253 \div 32 = 7
      /\ 253 \div 64 = 3 /\ 253 \div 128 = 1
      OBVIOUS
<1> QED BY <1>1, <1>2 DEF Bit, Weight, KEYBOARD

\* The least element of a set of one.
LEMMA MinOne == ASSUME NEW x \in Int PROVE Min({x}) = x
BY DEF Min

\* A write to the data port leaves the lines alone.
LEMMA DataKeeps ==
    ASSUME NEW c, ChipOK(c), c.icw = 0, NEW v \in Int
    PROVE  /\ ChipOK(Data(c, v)) /\ Data(c, v).icw = 0
           /\ Data(c, v).imr = v /\ Data(c, v).base = c.base
           /\ Data(c, v).isr = c.isr /\ Data(c, v).irr = c.irr
BY DEF Data, ChipOK

LEMMA DataChip ==
    ASSUME NEW c, ChipOK(c), NEW v \in Int
    PROVE  ChipOK(Data(c, v))
<1>1. AfterIcw3(c) \in {0, 2, 3, 4} BY DEF AfterIcw3
<1>2. CASE c.icw = 2
  <2> DEFINE w == IF Bit(c.icw1, 1) THEN AfterIcw3(c) ELSE 3
  <2>1. w \in {0, 2, 3, 4} /\ v - (v % 8) \in Int BY <1>1
  <2>2. Data(c, v) = [c EXCEPT !.base = v - (v % 8), !.icw = w]
        BY <1>2 DEF Data
  <2> HIDE DEF w
  <2> QED BY <2>1, <2>2 DEF ChipOK
<1>3. CASE c.icw # 2 BY <1>1, <1>3 DEF Data, ChipOK
<1> QED BY <1>2, <1>3

\* ICW1 to ICW4 as the kernel sends them: the chip is idle and has its base.
LEMMA InitialiseResult ==
    ASSUME NEW c, ChipOK(c), NEW icw2 \in Int, icw2 % 8 = 0, NEW icw3,
           NEW d, d = Initialise(c, 17, icw2, icw3, 1)
    PROVE  ChipOK(d) /\ d.base = icw2 /\ d.isr = {} /\ d.icw = 0
<1> DEFINE c1 == [c EXCEPT !.icw1 = 17, !.icw = 2, !.imr = 0,
                           !.irr = {}, !.isr = {}]
           c2 == [c1 EXCEPT !.base = icw2, !.icw = 3]
           c3 == [c2 EXCEPT !.icw = 4]
           c4 == [c3 EXCEPT !.icw = 0]
<1>1. Command(c, 17) = c1 BY Words DEF Command
<1>2. Data(c1, icw2) = c2
  <2>1. c1.icw = 2 /\ c1.icw1 = 17 BY DEF ChipOK
  <2>2. icw2 - (icw2 % 8) = icw2 OBVIOUS
  <2> HIDE DEF c1
  <2> QED BY <2>1, <2>2, Words DEF Data
<1>3. Data(c2, icw3) = c3 BY Words DEF Data, AfterIcw3, ChipOK
<1>4. Data(c3, 1) = c4 BY DEF Data, ChipOK
<1>5. d = c4 BY <1>1, <1>2, <1>3, <1>4 DEF Initialise
<1>6. ChipOK(c1) /\ c1.isr = {}
  <2>1. {} \in SUBSET Lines /\ 2 \in {0, 2, 3, 4} /\ 0 \in Int /\ 17 \in Int
        OBVIOUS
  <2> QED BY <2>1 DEF ChipOK
<1> HIDE DEF c1
<1>7. ChipOK(c2) /\ c2.isr = {} /\ c2.base = icw2 BY <1>6 DEF ChipOK
<1> HIDE DEF c2
<1> QED BY <1>5, <1>7 DEF ChipOK

\* Whatever the firmware left in them, pic_init leaves both controllers idle
\* and only the keyboard's line open.
LEMMA WritesResult ==
    ASSUME NEW c1, NEW c2, ChipOK(c1), ChipOK(c2)
    PROVE  Idle(Pic1Writes(c1), Pic2Writes(c2)) /\ Masked(Pic1Writes(c1))
<1> DEFINE i1 == Initialise(Data(c1, 255), 17, 32, 4, 1)
           i2 == Initialise(Data(c2, 255), 17, 40, 2, 1)
<1>1. ChipOK(Data(c1, 255)) /\ ChipOK(Data(c2, 255)) BY DataChip
<1>2. ChipOK(i1) /\ i1.base = 32 /\ i1.isr = {} /\ i1.icw = 0
      BY <1>1, InitialiseResult
<1>3. ChipOK(i2) /\ i2.isr = {} /\ i2.icw = 0 BY <1>1, InitialiseResult
<1>4. Pic1Writes(c1) = Data(i1, 253) /\ Pic2Writes(c2) = Data(i2, 255)
      BY DEF Pic1Writes, Pic2Writes
<1> HIDE DEF i1, i2
<1>5. /\ ChipOK(Data(i1, 253)) /\ Data(i1, 253).isr = {}
      /\ Data(i1, 253).base = 32 /\ Data(i1, 253).imr = 253
      /\ Data(i1, 253).icw = 0
  <2>1. ChipOK(i1) /\ i1.icw = 0 BY <1>2
  <2>2. \A v \in Int :
           /\ ChipOK(Data(i1, v)) /\ Data(i1, v).icw = 0
           /\ Data(i1, v).imr = v /\ Data(i1, v).base = i1.base
           /\ Data(i1, v).isr = i1.isr
        BY ONLY <2>1, DataKeeps
  <2> QED BY ONLY <1>2, <2>2
<1>6. ChipOK(Data(i2, 255)) /\ Data(i2, 255).isr = {}
      BY <1>3, DataKeeps
<1> QED BY <1>4, <1>5, <1>6 DEF Idle, Masked

\* With that mask and nothing in service only the keyboard is passed on.
LEMMA KeyboardRaised ==
    ASSUME NEW c, ChipOK(c), c.imr = 253, c.isr = {}
    PROVE  Raised(c) = IF KEYBOARD \in c.irr THEN {KEYBOARD} ELSE {}
<1>1. \A l \in c.irr : l \in Lines BY DEF ChipOK
<1>2. \A l \in c.irr : l \in Raised(c) <=> l = KEYBOARD
      BY <1>1, KeyboardMask DEF Raised
<1> QED BY <1>2 DEF Raised

\* What the line does to the request.
LEMMA EdgeResult ==
    ASSUME NEW old, NEW new, NEW pic, ChipOK(pic), NEW now \in Edge(old, new, pic)
    PROVE  /\ ChipOK(now) /\ now.isr = pic.isr
           /\ now.base = pic.base /\ now.imr = pic.imr /\ now.icw = pic.icw
           /\ Line(new) => KEYBOARD \in now.irr \/ (Line(old) /\ now = pic)
<1> DEFINE up == [pic EXCEPT !.irr = @ \cup {KEYBOARD}]
           down == [pic EXCEPT !.irr = @ \ {KEYBOARD}]
<1>1. KEYBOARD \in Lines BY DEF KEYBOARD, Lines
<1>2. /\ pic.irr \cup {KEYBOARD} \in SUBSET Lines
      /\ pic.irr \ {KEYBOARD} \in SUBSET Lines
      BY <1>1 DEF ChipOK
<1>3. /\ ChipOK(up) /\ up.isr = pic.isr /\ up.base = pic.base
      /\ up.imr = pic.imr /\ up.icw = pic.icw /\ KEYBOARD \in up.irr
      BY <1>2 DEF ChipOK
<1>4. /\ ChipOK(down) /\ down.isr = pic.isr /\ down.base = pic.base
      /\ down.imr = pic.imr /\ down.icw = pic.icw
      BY <1>2 DEF ChipOK
<1>5. \/ Line(new) /\ now = up
      \/ ~Line(new) /\ now \in {pic, down}
      \/ (Line(new) => Line(old)) /\ now = pic
      BY DEF Edge, Request
<1> HIDE DEF up, down
<1> QED BY <1>3, <1>4, <1>5

-----------------------------------------------------------------------------
\* What each exchange makes of the 8042.
LEMMA Exchanges ==
    ASSUME NEW k, BufferOK(k)
    PROVE  /\ BufferOK(Taken(k)) /\ ~Taken(k).asked
           /\ Taken(k).config = k.config /\ (~k.asked => ~Full(Taken(k)))
           /\ BufferOK(Disable(k)) /\ Disable(k).asked = k.asked
           /\ Line(Disable(k)) = Line(k)
           /\ BufferOK(AskConfig(k))
           /\ BufferOK(Enable(k)) /\ ~Enable(k).config.off
           /\ Enable(k).asked = k.asked /\ Enable(k).config.irq = k.config.irq
           /\ BufferOK(EnableScanning(k))
           /\ EnableScanning(k).config = k.config
           /\ EnableScanning(k).asked = k.asked
BY DEF BufferOK, Configs, Taken, Full, Line, Disable, AskConfig, Enable,
       EnableScanning

LEMMA Written8042 ==
    ASSUME NEW k, BufferOK(k), NEW byte \in Configs
    PROVE  /\ BufferOK(WriteConfig(k, IrqOn(byte)))
           /\ WriteConfig(k, IrqOn(byte)).config.irq
           /\ WriteConfig(k, IrqOn(byte)).asked = k.asked
<1>1. IrqOn(byte) \in Configs /\ IrqOn(byte).irq BY DEF IrqOn, Configs
<1> QED BY <1>1 DEF WriteConfig, BufferOK

\* An exchange leaves the controllers as they are programmed.
LEMMA DriveKeeps ==
    ASSUME MachineInv, NEW new, Drive(new)
    PROVE  /\ kbc' = new /\ Idle(PIC1', PIC2)
           /\ Masked(PIC1) => Masked(PIC1')
           /\ \/ ~Line(new)
              \/ KEYBOARD \in PIC1'.irr
              \/ Line(kbc) /\ PIC1' = PIC1
<1>1. ChipOK(PIC1) /\ PIC1.isr = {} /\ ChipOK(PIC2) /\ PIC2.isr = {}
      BY DEF MachineInv, Programmed, Idle
<1>2. PIC1' \in Edge(kbc, new, PIC1) /\ kbc' = new BY DEF Drive
<1>3. /\ ChipOK(PIC1') /\ PIC1'.isr = PIC1.isr
      /\ PIC1'.base = PIC1.base /\ PIC1'.imr = PIC1.imr
      /\ PIC1'.icw = PIC1.icw
      /\ Line(new) => KEYBOARD \in PIC1'.irr \/ (Line(kbc) /\ PIC1' = PIC1)
      BY <1>1, <1>2, EdgeResult
<1> QED BY <1>1, <1>2, <1>3 DEF Idle, Masked

\* A place of kernel_main between pic_init and sti that is left with an
\* exchange.
LEMMA ExchangeKeeps ==
    ASSUME MachineInv, NEW new, Drive(new), BufferOK(new),
           UNCHANGED <<PIC2, enabled, gates, entered>>,
           config' \in Configs,
           pc \notin {"IDT_INIT", "pic_init"},
           pc' \notin {"IDT_INIT", "pic_init", "flush"},
           pc = "flush" => ~Line(new),
           pc' = "print" <=> pc = "print",
           pc' # "wait config" => ~new.asked,
           pc' \in Written => new.config.irq,
           pc' \in Written \ {"enable"} => ~new.config.off
    PROVE  MachineInv'
<1>1. /\ kbc' = new /\ Idle(PIC1', PIC2) /\ (Masked(PIC1) => Masked(PIC1'))
      /\ \/ ~Line(new) \/ KEYBOARD \in PIC1'.irr
         \/ Line(kbc) /\ PIC1' = PIC1
      BY DriveKeeps
<1>2. Programmed' BY <1>1 DEF MachineInv, Programmed
<1>3. Configured' BY <1>1 DEF Configured
<1>4. Requested' BY <1>1 DEF MachineInv, Requested
<1> QED BY <1>2, <1>3, <1>4 DEF MachineInv

LEMMA SetUpKeeps == ASSUME MachineInv, PS2_KB_INIT PROVE MachineInv'
<1> USE DEF Step, Exchange, Flush, cpu, driver
<1>1. BufferOK(kbc) /\ config \in Configs BY DEF MachineInv, Configured
<1>2. CASE Flush("flush", "disable")
  <2>1. CASE Full(kbc)
    <3>1. /\ pc = "flush" /\ pc' = "flush" /\ Drive(Taken(kbc))
          /\ UNCHANGED <<PIC2, enabled, gates, entered, config>>
          BY <1>2, <2>1
    <3>2. /\ kbc' = Taken(kbc) /\ Idle(PIC1', PIC2)
          /\ Masked(PIC1) => Masked(PIC1')
          BY <3>1, DriveKeeps
    <3>3. BufferOK(Taken(kbc)) /\ ~Taken(kbc).asked BY <1>1, Exchanges
    <3>4. Programmed' BY <3>1, <3>2 DEF MachineInv, Programmed
    <3>5. Configured' BY <1>1, <3>1, <3>2, <3>3 DEF Configured, Written
    <3>6. Requested' BY <3>1 DEF Requested
    <3> QED BY <3>4, <3>5, <3>6 DEF MachineInv
  <2>2. CASE ~Full(kbc)
    <3>1. ~kbc.asked BY <1>2 DEF MachineInv, Configured
    <3>2. BufferOK(Taken(kbc)) /\ ~Taken(kbc).asked /\ ~Line(Taken(kbc))
          BY <1>1, <3>1, Exchanges DEF Line
    <3> QED BY <1>1, <1>2, <2>2, <3>2, ExchangeKeeps DEF Written
  <2> QED BY <2>1, <2>2
<1>3. CASE Exchange("disable", "ask config", Disable(kbc))
  <2>1. ~kbc.asked BY <1>3 DEF MachineInv, Configured
  <2>2. BufferOK(Disable(kbc)) /\ ~Disable(kbc).asked
        BY <1>1, <2>1, Exchanges
  <2> QED BY <1>1, <1>3, <2>2, ExchangeKeeps DEF Written
<1>4. CASE Exchange("ask config", "wait config", AskConfig(kbc))
  <2>1. BufferOK(AskConfig(kbc)) BY <1>1, Exchanges
  <2> QED BY <1>1, <1>4, <2>1, ExchangeKeeps DEF Written
<1>5. CASE ReadConfig
  <2>1. BufferOK(Taken(kbc)) /\ ~Taken(kbc).asked BY <1>1, Exchanges
  <2>2. config' \in Configs BY <1>1, <1>5 DEF ReadConfig, BufferOK
  <2>3. /\ pc = "wait config" /\ pc' = "write config" /\ Drive(Taken(kbc))
        /\ UNCHANGED <<PIC2, enabled, gates, entered>>
        BY <1>5 DEF ReadConfig
  <2> QED BY <2>1, <2>2, <2>3, ExchangeKeeps DEF Written
<1>6. CASE Exchange("write config", "enable", WriteConfig(kbc, IrqOn(config)))
  <2> DEFINE new == WriteConfig(kbc, IrqOn(config))
  <2>1. ~kbc.asked BY <1>6 DEF MachineInv, Configured
  <2>2. BufferOK(new) /\ new.config.irq /\ ~new.asked
        BY <1>1, <2>1, Written8042
  <2>3. /\ pc = "write config" /\ pc' = "enable" /\ Drive(new)
        /\ UNCHANGED <<PIC2, enabled, gates, entered, config>>
        BY <1>6
  <2> HIDE DEF new
  <2> QED BY <1>1, <2>2, <2>3, ExchangeKeeps
<1>7. CASE Exchange("enable", "flush again", Enable(kbc))
  <2>1. ~kbc.asked /\ kbc.config.irq
        BY <1>7 DEF MachineInv, Configured, Written
  <2>2. /\ BufferOK(Enable(kbc)) /\ ~Enable(kbc).asked
        /\ Enable(kbc).config.irq /\ ~Enable(kbc).config.off
        BY <1>1, <2>1, Exchanges
  <2> QED BY <1>1, <1>7, <2>2, ExchangeKeeps
<1>8. CASE Flush("flush again", "scan")
  <2>1. ~kbc.asked /\ kbc.config.irq /\ ~kbc.config.off
        BY <1>8 DEF MachineInv, Configured, Written
  <2>2. /\ BufferOK(Taken(kbc)) /\ ~Taken(kbc).asked
        /\ Taken(kbc).config = kbc.config
        BY <1>1, Exchanges
  <2>3. /\ pc = "flush again" /\ pc' \in {"flush again", "scan"}
        /\ Drive(Taken(kbc))
        /\ UNCHANGED <<PIC2, enabled, gates, entered, config>>
        BY <1>8
  <2> QED BY <1>1, <2>1, <2>2, <2>3, ExchangeKeeps
<1>9. CASE Exchange("scan", "wait ack", EnableScanning(kbc))
  <2>1. ~kbc.asked /\ kbc.config.irq /\ ~kbc.config.off
        BY <1>9 DEF MachineInv, Configured, Written
  <2>2. /\ BufferOK(EnableScanning(kbc)) /\ ~EnableScanning(kbc).asked
        /\ EnableScanning(kbc).config = kbc.config
        BY <1>1, <2>1, Exchanges
  <2> QED BY <1>1, <1>9, <2>1, <2>2, ExchangeKeeps
<1>10. CASE WaitAck
       BY <1>10 DEF WaitAck, MachineInv, Programmed, Configured, Requested
<1>11. CASE GotAck
  <2> DEFINE new == IF Full(kbc) /\ timeout > 0 THEN Taken(kbc) ELSE kbc
  <2>1. ~kbc.asked /\ kbc.config.irq /\ ~kbc.config.off
        BY <1>11 DEF GotAck, MachineInv, Configured, Written
  <2>2. BufferOK(new) /\ ~new.asked /\ new.config = kbc.config
        BY <1>1, <2>1, Exchanges
  <2>3. /\ pc = "wait ack" /\ pc' = "gate" /\ Drive(new)
        /\ UNCHANGED <<PIC2, enabled, gates, entered>>
        /\ config' \in Configs
        BY <1>11 DEF GotAck, NoConfig, Configs
  <2> HIDE DEF new
  <2> QED BY <2>1, <2>2, <2>3, ExchangeKeeps
<1> QED
    BY <1>2, <1>3, <1>4, <1>5, <1>6, <1>7, <1>8, <1>9, <1>10, <1>11
       DEF PS2_KB_INIT

LEMMA StartKeeps == ASSUME MachineInv, Start PROVE MachineInv'
<1> USE DEF Step
<1>1. CASE IDT_INIT
      BY <1>1 DEF IDT_INIT, MachineInv, Programmed, Configured, Requested,
                  Written, driver
<1>2. CASE pic_init
  <2> DEFINE w == Pic1Writes(PIC1)
             v == Pic2Writes(PIC2)
  <2>1. Idle(w, v) /\ Masked(w)
        BY WritesResult DEF MachineInv, Programmed, Idle
  <2>2. PIC1' = [w EXCEPT !.irr = Devices1] /\ PIC2' = v
        BY <1>2 DEF pic_init
  <2> HIDE DEF w, v
  <2>3. Devices1 \in SUBSET Lines BY LegacyKernelAssumption
  <2>4. Idle(PIC1', PIC2') /\ Masked(PIC1')
        BY <2>1, <2>2, <2>3 DEF Idle, Masked, ChipOK
  <2> QED BY <1>2, <2>4 DEF pic_init, MachineInv, Programmed, Configured,
                            Requested, Written, driver
<1>3. CASE PS2_KB_INIT BY <1>3, SetUpKeeps
<1>4. CASE PS2_KB_INSTALL
  <2>1. Idle(PIC1, PIC2) /\ Masked(PIC1)
        BY <1>4 DEF PS2_KB_INSTALL, MachineInv, Programmed
  <2>2. Unmasked(PIC1.imr, KEYBOARD) = 253
    <3>1. KEYBOARD \in Lines BY DEF KEYBOARD, Lines
    <3> QED BY <2>1, <3>1, KeyboardMask DEF Unmasked, Masked
  <2>3. /\ ChipOK(PIC1') /\ PIC1'.isr = {} /\ PIC1'.irr = PIC1.irr
        /\ Masked(PIC1')
        BY <1>4, <2>1, <2>2, DataKeeps DEF PS2_KB_INSTALL, Idle, Masked
  <2> QED BY <1>4, <2>1, <2>3
             DEF PS2_KB_INSTALL, MachineInv, Programmed, Configured,
                 Requested, Written, driver, Idle
<1>5. CASE sti
      BY <1>5 DEF sti, MachineInv, Programmed, Configured, Requested,
                  Written, driver
<1> QED BY <1>1, <1>2, <1>3, <1>4, <1>5 DEF Start

LEMMA PrintsKeeps == ASSUME MachineInv, Prints PROVE MachineInv'
BY DEF Prints, Step, cpu, driver, MachineInv, Programmed, Configured,
       Requested

\* A code or an answer comes: at any place of kernel_main.
LEMMA ArrivalKeeps == ASSUME MachineInv, Code \/ Answer PROVE MachineInv'
<1>1. PICK new \in Arrivals(kbc) \cup Answers(kbc) : Drive(new)
      BY DEF Code, Answer
<1>2. UNCHANGED <<pc, cpu, driver>> BY DEF Code, Answer
<1>3. BufferOK(kbc) /\ config \in Configs BY DEF MachineInv, Configured
<1>4. ~Full(kbc) BY <1>1 DEF Arrivals, Answers
<1>5. BufferOK(new) /\ new.config = kbc.config /\ new.asked = kbc.asked
  <2>1. CASE new \in Arrivals(kbc)
    <3>1. PICK b \in Codes : new = [kbc EXCEPT !.out = b]
          BY <2>1 DEF Arrivals
    <3> QED BY <1>3, <3>1 DEF BufferOK
  <2>2. CASE new \in Answers(kbc)
    <3>1. new = [kbc EXCEPT !.owes = FALSE, !.scanning = TRUE, !.out = "ack"]
          BY <2>2 DEF Answers
    <3> QED BY <1>3, <3>1 DEF BufferOK
  <2> QED BY <1>1, <2>1, <2>2
<1>6. /\ kbc' = new /\ Idle(PIC1', PIC2) /\ (Masked(PIC1) => Masked(PIC1'))
      /\ \/ ~Line(new) \/ KEYBOARD \in PIC1'.irr
         \/ Line(kbc) /\ PIC1' = PIC1
      BY <1>1, DriveKeeps
<1>7. Programmed' BY <1>2, <1>6 DEF MachineInv, Programmed, cpu
<1>8. Configured'
      BY <1>2, <1>3, <1>5, <1>6 DEF MachineInv, Configured, driver, Written
<1>9. Requested' BY <1>2, <1>4, <1>6 DEF Requested, Line
<1> QED BY <1>7, <1>8, <1>9 DEF MachineInv

\* The interrupt is the keyboard's; its handler takes the byte.
LEMMA InterruptKeeps == ASSUME MachineInv, Interrupt PROVE MachineInv'
<1>1. /\ enabled /\ pc = "print" /\ gates = "ps2" /\ Masked(PIC1)
      /\ ChipOK(PIC1) /\ PIC1.isr = {} /\ ChipOK(PIC2) /\ PIC2.isr = {}
      /\ BufferOK(kbc) /\ config \in Configs /\ ~kbc.asked
      /\ kbc.config.irq /\ ~kbc.config.off
      BY DEF Interrupt, Pending, MachineInv, Programmed, Configured, Idle,
             Written
<1>2. Raised(PIC1) = {KEYBOARD}
      BY <1>1, KeyboardRaised DEF Interrupt, Pending, Masked
<1>3. Min(Raised(PIC1)) = KEYBOARD BY <1>2, MinOne DEF KEYBOARD
<1> DEFINE served == [PIC1 EXCEPT !.irr = @ \ {KEYBOARD},
                                  !.isr = @ \cup {KEYBOARD}]
           ended == [served EXCEPT !.isr = {}]
<1>4. Acknowledge(PIC1) = served BY <1>3 DEF Acknowledge
<1>5. /\ PIC1.irr \ {KEYBOARD} \in SUBSET Lines /\ {KEYBOARD} \in SUBSET Lines
      /\ PIC1.isr \cup {KEYBOARD} = {KEYBOARD}
      BY <1>1 DEF ChipOK, KEYBOARD, Lines
<1>6. ChipOK(served) /\ served.isr = {KEYBOARD} /\ Masked(served)
  <2>1. ChipOK(served) BY <1>1, <1>5 DEF ChipOK
  <2>2. served.isr = {KEYBOARD} BY <1>1, <1>5 DEF ChipOK
  <2>3. Masked(served) BY <1>1 DEF ChipOK, Masked
  <2> QED BY <2>1, <2>2, <2>3
<1>7. Command(served, 32) = ended
  <2>1. Min(served.isr) = KEYBOARD BY <1>6, MinOne DEF KEYBOARD
  <2>2. served.isr \ {Min(served.isr)} = {} BY <1>6, <2>1
  <2> HIDE DEF served
  <2> QED BY <1>6, <2>2, Words DEF Command
<1>8. PIC1' = ended BY <1>4, <1>7 DEF Interrupt
<1>9. PIC1.base + Min(Raised(PIC1)) = 33
      BY <1>1, <1>3 DEF Masked, KEYBOARD
<1>10. entered' = "ps2" BY <1>1, <1>9 DEF Interrupt
<1>11. kbc' = Taken(kbc)
       /\ UNCHANGED <<pc, PIC2, enabled, gates, config>>
       BY <1>10 DEF Interrupt, driver
<1> HIDE DEF served
<1>12. ChipOK(PIC1') /\ PIC1'.isr = {} /\ Masked(PIC1')
       BY <1>6, <1>8 DEF ChipOK, Masked
<1>13. /\ BufferOK(kbc') /\ ~kbc'.asked /\ kbc'.config = kbc.config
       /\ ~Line(kbc')
       BY <1>1, <1>11, Exchanges DEF Line
<1>14. Programmed' BY <1>1, <1>10, <1>11, <1>12 DEF Programmed, Idle
<1>15. Configured' BY <1>1, <1>11, <1>13 DEF Configured
<1>16. Requested' BY <1>13 DEF Requested
<1> QED BY <1>14, <1>15, <1>16 DEF MachineInv

LEMMA InitMachine == Init => MachineInv
<1> SUFFICES ASSUME Init PROVE MachineInv OBVIOUS
<1>1. PICK m \in Masks : PIC1 = Chip(8, m) /\ PIC2 = Chip(112, m)
      BY DEF Init
<1>2. m \in Int BY LegacyKernelAssumption
<1>3. Idle(PIC1, PIC2) BY <1>1, <1>2 DEF Idle, ChipOK, Chip
<1>4. PICK irq \in BOOLEAN, scanning \in BOOLEAN, out \in {EMPTY, "key"} :
         kbc = Controller([irq |-> irq, off |-> FALSE], out, scanning)
      BY DEF Init
<1>5. BufferOK(kbc) /\ ~kbc.asked
      BY <1>4 DEF Controller, BufferOK, Configs, Codes
<1> QED BY <1>3, <1>5 DEF Init, MachineInv, Programmed, Configured,
                          Requested, Written, NoConfig, Configs

LEMMA MachineInvariant == Spec => []MachineInv
<1>1. MachineInv /\ [Next]_vars => MachineInv'
  <2> SUFFICES ASSUME MachineInv, [Next]_vars PROVE MachineInv' OBVIOUS
  <2>1. CASE UNCHANGED vars
        BY <2>1 DEF vars, cpu, driver, MachineInv, Programmed, Configured,
                    Requested
  <2>2. CASE Next
        BY <2>2, StartKeeps, PrintsKeeps, InterruptKeeps, ArrivalKeeps
           DEF Next
  <2> QED BY <2>1, <2>2
<1> QED BY <1>1, InitMachine, PTL DEF Spec

(***************************************************************************)
(* For every mask the firmware leaves, every set of devices that ask and   *)
(* whatever byte PS2_KB_INIT takes for the configuration                   *)
(* (old/Include/PS2KB.c:81-134): the keyboard's is the only interrupt that *)
(* is taken, by its handler, and no byte is left without its request.      *)
(***************************************************************************)
THEOREM OnlyKeyboardCorrect == Spec => []OnlyKeyboard
<1>1. ASSUME MachineInv PROVE OnlyKeyboard
  <2>1. ASSUME enabled
        PROVE  /\ PIC1.isr = {} /\ PIC2.isr = {}
               /\ kbc.config.irq /\ ~kbc.config.off
               /\ Full(kbc) => KEYBOARD \in Raised(PIC1)
    <3>1. /\ pc = "print" /\ Masked(PIC1) /\ Idle(PIC1, PIC2)
          /\ kbc.config.irq /\ ~kbc.config.off
          BY <1>1, <2>1 DEF MachineInv, Programmed, Configured, Written
    <3>2. Full(kbc) => KEYBOARD \in PIC1.irr
          BY <1>1, <3>1 DEF MachineInv, Requested, Line
    <3>3. Raised(PIC1) = IF KEYBOARD \in PIC1.irr THEN {KEYBOARD} ELSE {}
          BY <3>1, KeyboardRaised DEF Masked, Idle
    <3> QED BY <3>1, <3>2, <3>3 DEF Idle
  <2> QED BY <1>1, <2>1 DEF MachineInv, Programmed, OnlyKeyboard
<1> QED BY <1>1, MachineInvariant, PTL
=============================================================================
