-------------------------------- MODULE VGA ---------------------------------
(***************************************************************************)
(* The text console of Kernel/src/Include/VGA.c (the first kernel's        *)
(* VGA.c and VGA_DRV.c are the same code): characters go to the screen at  *)
(* the cursor, lines that leave the screen at the top go to a ring of      *)
(* lines, and vga_scroll_up and vga_scroll_down show the ring again.       *)
(*                                                                         *)
(* One action is one call: nothing that interrupts this kernel prints.     *)
(* Colours are left out, a cell is its character; so is the port protocol  *)
(* of the hardware cursor, which follows cursorx and cursory.              *)
(***************************************************************************)
EXTENDS Integers, Sequences

CONSTANTS Width,    \* VGA_WIDTH
          Height,   \* VGA_HEIGHT
          History,  \* VGA_HISTORY_SIZE
          Chars     \* characters that take a cell, the blank not among them

LF == "LF"  \* the control characters
CR == "CR"
BS == "BS"
SP == "SP"  \* the blank

ASSUME ConsoleAssumption ==
    /\ {Width, Height, History} \subseteq Nat \ {0}
    /\ {SP, LF, CR, BS} \cap Chars = {}

VARIABLES screen,         \* VGA_BUFFER: row -> line
          cursorx, cursory,
          scroll_offset,
          vga_history,    \* the ring: slot -> line
          history_start, history_count

cursor == <<cursorx, cursory>>
ring == <<vga_history, history_start, history_count>>
vars == <<screen, cursor, scroll_offset, ring>>

Rows == 0 .. (Height - 1)
Columns == 0 .. (Width - 1)
Slots == 0 .. (History - 1)

Lines == [Columns -> Chars \cup {SP}]
BlankLine == [x \in Columns |-> SP]
BlankScreen == [y \in Rows |-> BlankLine]

\* vga_init; the ring is zeroed memory, its lines are not shown.
Init == /\ screen = BlankScreen
        /\ cursorx = 0 /\ cursory = 0 /\ scroll_offset = 0
        /\ vga_history = [i \in Slots |-> BlankLine]
        /\ history_start = 0 /\ history_count = 0

\* Mutant: the ring is emptied where it stands.
ClearKeepsStart == /\ screen' = BlankScreen
                   /\ cursorx' = 0 /\ cursory' = 0 /\ scroll_offset' = 0
                   /\ history_count' = 0
                   /\ UNCHANGED <<vga_history, history_start>>

vga_clear == /\ screen' = BlankScreen
             /\ cursorx' = 0 /\ cursory' = 0 /\ scroll_offset' = 0
             /\ history_start' = 0 /\ history_count' = 0
             /\ UNCHANGED vga_history

-----------------------------------------------------------------------------
history_line_index(line) == (history_start + line) % History

\* Mutant: a full ring overwrites its oldest line and keeps it the oldest.
AddKeepsStart(line) ==
    LET full == history_count = History
    IN  /\ vga_history' = [vga_history EXCEPT
                             ![IF full THEN history_start ELSE history_count]
                                 = line]
        /\ history_count' = IF full THEN history_count ELSE history_count + 1
        /\ UNCHANGED history_start

add_line_to_history(line) ==
    LET full == history_count = History
    IN  /\ vga_history' = [vga_history EXCEPT
                             ![IF full THEN history_start ELSE history_count]
                                 = line]
        /\ history_count' = IF full THEN history_count ELSE history_count + 1
        /\ history_start' = IF full THEN (history_start + 1) % History
                                    ELSE history_start

\* The screen s moves up one line.
vga_scroll(s) ==
    /\ add_line_to_history(s[0])
    /\ screen' = [y \in Rows |-> IF y = Height - 1 THEN BlankLine ELSE s[y + 1]]
    /\ cursorx' = 0 /\ cursory' = Height - 1
    /\ scroll_offset' = 0

-----------------------------------------------------------------------------
(***************************************************************************)
(* vga_char(c): the cell and the cursor, and a scroll if the cursor has    *)
(* left the screen.  At is the screen and the cursor after the character.  *)
(***************************************************************************)
Set(y, x, c) == [screen EXCEPT ![y][x] = c]

At(s, x, y) == [s |-> s, x |-> x, y |-> y]

Backspace == IF cursorx > 0
             THEN At(Set(cursory, cursorx - 1, SP), cursorx - 1, cursory)
             ELSE IF cursory > 0
             THEN At(Set(cursory - 1, Width - 1, SP), Width - 1, cursory - 1)
             ELSE At(screen, cursorx, cursory)

\* Mutant: the line is not left when it is full.
PrintableNoWrap(c) == At(Set(cursory, cursorx, c), cursorx + 1, cursory)

Printable(c) == IF cursorx + 1 >= Width
                THEN At(Set(cursory, cursorx, c), 0, cursory + 1)
                ELSE At(Set(cursory, cursorx, c), cursorx + 1, cursory)

After(c) == CASE c = LF -> At(screen, 0, cursory + 1)
              [] c = CR -> At(screen, 0, cursory)
              [] c = BS -> Backspace
              [] OTHER    -> Printable(c)

vga_char(c) ==
    LET a == After(c)
    IN  IF a.y >= Height
        THEN vga_scroll(a.s)
        ELSE /\ screen' = a.s /\ cursorx' = a.x /\ cursory' = a.y
             /\ UNCHANGED <<scroll_offset, ring>>

-----------------------------------------------------------------------------
vga_get_scroll_max == IF history_count > Height THEN history_count - Height ELSE 0

\* The line of the history in the first row, for a scroll offset.
StartLine(offset) ==
    IF history_count > Height THEN history_count - Height - offset ELSE 0

HistoryLine(line) == vga_history[history_line_index(line)]

redraw_screen_from_history(offset) ==
    /\ screen' = [y \in Rows |-> IF StartLine(offset) + y < history_count
                                 THEN HistoryLine(StartLine(offset) + y)
                                 ELSE BlankLine]
    /\ cursorx' = 0
    /\ cursory' = IF offset = 0 THEN Height - 1 ELSE 0

View(offset) == /\ scroll_offset' = offset
                /\ redraw_screen_from_history(offset)
                /\ UNCHANGED ring

vga_scroll_up == /\ scroll_offset < vga_get_scroll_max
                 /\ View(scroll_offset + 1)

vga_scroll_down == scroll_offset > 0 /\ View(scroll_offset - 1)

\* An offset out of range is brought into it.
vga_set_scroll_offset(offset) ==
    View(IF offset < 0 THEN 0
         ELSE IF offset > vga_get_scroll_max THEN vga_get_scroll_max
         ELSE offset)

-----------------------------------------------------------------------------
Offsets == -1 .. (History + 1)

Next == \/ \E c \in Chars \cup {SP, LF, CR, BS} : vga_char(c)
        \/ vga_scroll_up \/ vga_scroll_down
        \/ \E offset \in Offsets : vga_set_scroll_offset(offset)
        \/ vga_clear

Spec == Init /\ [][Next]_vars

-----------------------------------------------------------------------------
(***************************************************************************)
(* Types: the cursor is on the screen whenever a character is written.     *)
(***************************************************************************)
TypeOK ==
    /\ screen \in [Rows -> Lines] /\ vga_history \in [Slots -> Lines]
    /\ cursorx \in Columns /\ cursory \in Rows
    /\ history_start \in Slots /\ history_count \in 0 .. History
    /\ scroll_offset \in 0 .. History

(***************************************************************************)
(* A view never reaches above the oldest line that is kept, even as the    *)
(* ring fills up, is overwritten or is emptied under it, and the ring only *)
(* starts to turn once it is full: the slot add_line_to_history takes      *)
(* while it fills (VGA.c:33) counts on it.                                 *)
(***************************************************************************)
InHistory == /\ scroll_offset <= vga_get_scroll_max
             /\ history_count < History => history_start = 0

(***************************************************************************)
(* The ring and the screen implement a terminal: a line that leaves the    *)
(* screen at the top joins the kept ones as the newest, however the ring   *)
(* stands; the oldest is given up first, and only when the ring is full;   *)
(* scrolling writes consecutive kept lines over the screen.  It does not   *)
(* say that nothing printed is lost: Terminal's Overwrite loses what was   *)
(* on the screen, as VGA.c:81 does, though the comment on scroll_down      *)
(* there promises a way back "do aktualnych danych", to the current data.  *)
(***************************************************************************)
Term == INSTANCE Terminal
           WITH Keep <- History, Blank <- BlankLine,
                above <- [i \in 1 .. history_count |-> HistoryLine(i - 1)]

ImplementsTerminal == Term!Spec
=============================================================================
