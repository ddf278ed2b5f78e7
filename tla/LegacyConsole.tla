---------------------------- MODULE LegacyConsole ---------------------------
(***************************************************************************)
(* The console of the first kernel, old/Include/VGA.c, as two parties use  *)
(* it at once: kernel_main prints with vga_char, and the keyboard's        *)
(* interrupt handler scrolls (old/Include/PS2KB.c:179-196) between any two *)
(* instructions of it.                                                     *)
(*                                                                         *)
(* This is about the cursor, the offset of the view and the indices of     *)
(* VGA_BUFFER; what the cells show is module VGA's.  The build is -O0 and  *)
(* no variable is volatile or locked: every read and every write of one    *)
(* that the handler writes too is a step of its own, with what was read    *)
(* kept in r.  The handler's functions run with interrupts off, at once.   *)
(***************************************************************************)
EXTENDS Integers

CONSTANTS VGA_WIDTH,         \* 80
          VGA_HEIGHT,        \* 25
          VGA_HISTORY_SIZE,  \* 10000
          BYTE               \* 256: the cursor's registers are bytes

ASSUME LegacyConsoleAssumption ==
    /\ VGA_WIDTH \in Nat \ {0} /\ VGA_HEIGHT \in Nat \ {0}
    /\ VGA_HISTORY_SIZE \in Nat \ {0} /\ BYTE \in Nat \ {0, 1}

VARIABLES cursorx, cursory, scroll_offset, history_count,
          at,      \* where vga_char is, "idle" outside it
          char,    \* its argument
          r,       \* what it has read
          more,    \* update_cursor is called once more after this one
          crtc,    \* the display's registers: which is selected, their values
          stored,  \* the index of VGA_BUFFER that vga_char wrote, or 0
          rubbed,  \* a '\b' was printed since the last '\n'
          calm     \* the handler did not redraw during the last vga_char

cursor == <<cursorx, cursory>>
console == <<cursorx, cursory, scroll_offset, history_count, crtc>>
main == <<at, char, r, more>>
consoleVars == <<console, main, stored, rubbed, calm>>

Chars == {"text", "newline", "return", "backspace"}

-----------------------------------------------------------------------------
\* update_cursor: a position is 16 bits, low byte in register 15, high byte
\* in register 14.
Position(x, y) == (y * VGA_WIDTH + x) % (BYTE * BYTE)

Shown(x, y) == [select |-> 14, low  |-> Position(x, y) % BYTE,
                               high |-> Position(x, y) \div BYTE]

InitConsole ==
    /\ cursorx = 0 /\ cursory = 0 /\ scroll_offset = 0 /\ history_count = 0
    /\ at = "idle" /\ char = "newline" /\ r = 0 /\ more = FALSE
    /\ crtc = Shown(0, 0) /\ stored = 0 /\ rubbed = FALSE /\ calm = TRUE

-----------------------------------------------------------------------------
(***************************************************************************)
(* The handler's functions.  Each rewrites the whole screen and puts the   *)
(* cursor in one of two corners.                                           *)
(***************************************************************************)
vga_get_scroll_max == IF history_count > VGA_HEIGHT
                      THEN history_count - VGA_HEIGHT ELSE 0

redraw_screen_from_history(offset) ==
    LET y == IF offset = 0 THEN VGA_HEIGHT - 1 ELSE 0
    IN  /\ scroll_offset' = offset
        /\ cursorx' = 0 /\ cursory' = y
        /\ crtc' = Shown(0, y)
        /\ calm' = (at = "idle")
        /\ UNCHANGED <<history_count, main, stored, rubbed>>

vga_scroll_up ==
    IF scroll_offset < vga_get_scroll_max
    THEN redraw_screen_from_history(scroll_offset + 1)
    ELSE UNCHANGED consoleVars

vga_scroll_down ==
    IF scroll_offset > 0
    THEN redraw_screen_from_history(scroll_offset - 1)
    ELSE UNCHANGED consoleVars

\* Its callers pass 0 or vga_get_scroll_max(): nothing to clamp.
vga_set_scroll_offset(offset) == redraw_screen_from_history(offset)

-----------------------------------------------------------------------------
(***************************************************************************)
(* vga_char, one access at a time.                                         *)
(***************************************************************************)
Go(from, to) == at = from /\ at' = to

Read(from, value, to) ==
    /\ Go(from, to) /\ r' = value
    /\ UNCHANGED <<console, char, more, stored, rubbed, calm>>

Test(from, holds, yes, no) ==
    /\ Go(from, IF holds THEN yes ELSE no)
    /\ UNCHANGED <<console, char, r, more, stored, rubbed, calm>>

SetX(from, x, to) ==
    /\ Go(from, to) /\ cursorx' = x
    /\ UNCHANGED <<cursory, scroll_offset, history_count, crtc, char, r,
                   more, stored, rubbed, calm>>

SetY(from, y, to) ==
    /\ Go(from, to) /\ cursory' = y
    /\ UNCHANGED <<cursorx, scroll_offset, history_count, crtc, char, r,
                   more, stored, rubbed, calm>>

vga_char(c) ==
    /\ Go("idle", CASE c \in {"newline", "return"} -> "zero"
                    [] c = "backspace"             -> "left?"
                    [] c = "text"                  -> "line")
    /\ char' = c
    /\ rubbed' = (rubbed \/ c = "backspace")
    /\ calm' = TRUE /\ stored' = 0
    /\ UNCHANGED <<console, r, more>>

\* cursorx = 0; cursory++, for '\n' and where text reaches the margin.
Newline == \/ SetX("zero", 0, IF char = "return" THEN "below?" ELSE "down")
           \/ Read("down", cursory, "down=")
           \/ SetY("down=", r + 1, "below?")

\* '\b': cursorx--, or up to the end of the line above.
Backspace == \/ Test("left?", cursorx > 0, "left", "up?")
             \/ Read("left", cursorx, "left=")
             \/ SetX("left=", r - 1, "line")
             \/ Test("up?", cursory > 0, "up", "below?")
             \/ Read("up", cursory, "up=")
             \/ SetY("up=", r - 1, "edge")
             \/ SetX("edge", VGA_WIDTH - 1, "line")

\* VGA_BUFFER[cursory * VGA_WIDTH + cursorx] = ...
Store == \/ Read("line", cursory * VGA_WIDTH, "cell")
         \/ /\ Go("cell", IF char = "backspace" THEN "below?" ELSE "right")
            /\ stored' = r + cursorx
            /\ UNCHANGED <<console, char, r, more, rubbed, calm>>

\* Mutant: the margin is one cell further right.
PastMargin(x) == x > VGA_WIDTH

Margin(x) == x >= VGA_WIDTH

Text == \/ Read("right", cursorx, "right=")
        \/ SetX("right=", r + 1, "margin?")
        \/ Test("margin?", Margin(cursorx), "zero", "below?")

\* Mutant: the screen has a line more.
BelowLate(y) == y > VGA_HEIGHT

Below(y) == y >= VGA_HEIGHT

\* vga_scroll: a line more in the history, then the last line is empty and
\* the cursor's.
Scroll ==
    \/ Test("below?", Below(cursory), "scroll", "update")
    \/ /\ Go("scroll", "scroll_x")
       /\ history_count' = IF history_count < VGA_HISTORY_SIZE
                           THEN history_count + 1 ELSE history_count
       /\ UNCHANGED <<cursor, scroll_offset, crtc, char, r, more, stored,
                      rubbed, calm>>
    \/ SetX("scroll_x", 0, "scroll_y")
    \/ SetY("scroll_y", VGA_HEIGHT - 1, "scroll_0")
    \/ /\ Go("scroll_0", "update")
       /\ scroll_offset' = 0 /\ more' = TRUE
       /\ UNCHANGED <<cursor, history_count, crtc, char, r, stored, rubbed,
                      calm>>

Out(from, to, registers) ==
    /\ Go(from, to) /\ crtc' = registers
    /\ UNCHANGED <<cursor, scroll_offset, history_count, char, r, more,
                   stored, rubbed, calm>>

\* Mutant: nothing selects the other register.
ToLow(b) == [crtc EXCEPT !.low = b]

\* A byte goes to the register selected at that time.
ToSelected(b) == IF crtc.select = 15 THEN [crtc EXCEPT !.low = b]
                                     ELSE [crtc EXCEPT !.high = b]

update_cursor ==
    \/ Read("update", cursory * VGA_WIDTH, "pos")
    \/ Read("pos", (r + cursorx) % (BYTE * BYTE), "0F")
    \/ Out("0F", "low", [crtc EXCEPT !.select = 15])
    \/ Out("low", "0E", ToSelected(r % BYTE))
    \/ Out("0E", "high", [crtc EXCEPT !.select = 14])
    \/ /\ Go("high", IF more THEN "update" ELSE "idle")
       /\ crtc' = ToSelected(r \div BYTE) /\ more' = FALSE /\ r' = 0
       /\ rubbed' = (rubbed /\ (more \/ char # "newline"))
       /\ UNCHANGED <<cursor, scroll_offset, history_count, char, stored,
                      calm>>

Printing == \/ Newline \/ Backspace \/ Store \/ Text \/ Scroll
            \/ update_cursor

-----------------------------------------------------------------------------
Places == {"idle", "zero", "down", "down=", "left?", "left", "left=", "up?",
           "up", "up=", "edge", "line", "cell", "right", "right=", "margin?",
           "below?", "scroll", "scroll_x", "scroll_y", "scroll_0", "update",
           "pos", "0F", "low", "0E", "high"}

(***************************************************************************)
(* Wherever the handler comes between a test, a read and the write that    *)
(* follows, vga_char writes nothing behind the last cell of the screen,    *)
(* and nothing farther before the first than one line; and that only where *)
(* a backspace was printed since the last newline.                         *)
(***************************************************************************)
StoreBounds ==
    /\ stored < VGA_WIDTH * VGA_HEIGHT
    /\ stored >= IF rubbed THEN -VGA_WIDTH ELSE 0

(***************************************************************************)
(* Between two characters the cursor is on the screen.  A backspace that   *)
(* races with a scroll may leave it a column or a line outside, to the     *)
(* left or above: the next newline brings it back.                         *)
(***************************************************************************)
CursorRecovers ==
    at = "idle" =>
        /\ cursorx \in (IF rubbed THEN -1 ELSE 0) .. (VGA_WIDTH - 1)
        /\ cursory \in (IF rubbed THEN -1 ELSE 0) .. (VGA_HEIGHT - 1)

(***************************************************************************)
(* The display's cursor is where the console's is once a character was     *)
(* printed undisturbed, although the registers are written a byte at a     *)
(* time and a handler that redraws between them leaves another one         *)
(* selected.                                                               *)
(***************************************************************************)
CursorShown == at = "idle" /\ calm => crtc = Shown(cursorx, cursory)
=============================================================================
