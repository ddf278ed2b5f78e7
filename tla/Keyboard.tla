------------------------------ MODULE Keyboard ------------------------------
(***************************************************************************)
(* The keyboard driver of the first kernel, old/Include/PS2KB.c: the       *)
(* handler of IRQ 1 turns the keyboard's bytes into characters in a ring,  *)
(* PS2_KB_GETC takes them out and PS2_KB_READ_LN edits a line with them.   *)
(*                                                                         *)
(* The handler runs behind an interrupt gate (type 0x8E), so a byte and    *)
(* its handler are one action; it comes between any two steps of the       *)
(* reader.  Without optimisation bufferCount-- is a load and a store, and  *)
(* these are two steps.  The other statements of PS2_KB_GETC touch nothing *)
(* the handler writes and are joined to their neighbours.                  *)
(*                                                                         *)
(* input_buffer is the line up to pos.  What the handler asks of the       *)
(* console is noted, not carried out.                                      *)
(***************************************************************************)
EXTENDS Integers, SequencesExt

CONSTANTS KB_BUFFER_SIZE,    \* 256
          INPUT_KB_BUFFER,   \* 128
          Letters,           \* codes of keys that type a character
          OtherKeys,         \* codes of keys that type none, or one READ_LN skips
          ExtendedKeys       \* codes the keyboard sends after an E0

ASSUME KeyboardAssumption ==
    /\ KB_BUFFER_SIZE \in Nat \ {0, 1} /\ INPUT_KB_BUFFER \in Nat \ {0}
    /\ Letters \cap OtherKeys = {}

VARIABLES e0_prefix, shiftPressed, ctrlPressed, altPressed,
          KB_BUFFER, bufferStart, bufferEnd, bufferCount,
          view,           \* the last thing the handler asked of the console
          pc, c, loaded,  \* the reader: place, character, bufferCount as read
          line,           \* PS2_KB_READ_LN's input_buffer up to pos
          shown,          \* the screen's row up to the cursor
          down, owed,     \* the keyboard: modifiers held, code behind its E0
          unread,         \* for the properties: characters in the ring,
          split, overrun  \*   a decrement was split, the ring was overrun

modifiers == <<e0_prefix, shiftPressed, ctrlPressed, altPressed>>
ring == <<KB_BUFFER, bufferStart, bufferEnd, bufferCount>>
reader == <<pc, c, loaded, line, shown>>
keyboard == <<down, owed>>
ghosts == <<unread, split, overrun>>
vars == <<modifiers, ring, view, reader, keyboard, ghosts>>

\* Characters: a letter is <<code, shift>>.
NUL == <<>>
BLANK == <<" ">>
PROMPT == <<"PROMPT">>  \* whatever stands in front of a line on the screen
LF == <<"ENTER">>
BS == <<"BKSP">>
HT == <<"TAB">>

Shifts == {"LSHIFT", "RSHIFT"}
Modifiers == Shifts \cup {"CTRL", "ALT"}
Codes == Letters \cup OtherKeys
Slots == 0 .. (KB_BUFFER_SIZE - 1)

\* keyboard_map and keyboard_shift_map; NUL for no character.
Map(code, shift) == CASE code \in Letters -> <<code, shift>>
                      [] code \in {"ENTER", "BKSP", "TAB"} -> <<code>>
                      [] OTHER -> NUL

Printable == Letters \X BOOLEAN
Characters == Printable \cup {NUL, LF, BS, HT}

Init == /\ e0_prefix = FALSE
        /\ shiftPressed = FALSE /\ ctrlPressed = FALSE /\ altPressed = FALSE
        /\ KB_BUFFER = [s \in Slots |-> NUL]
        /\ bufferStart = 0 /\ bufferEnd = 0 /\ bufferCount = 0
        /\ view = "none"
        /\ pc = "wait" /\ c = NUL /\ loaded = 0 /\ line = <<>>
        /\ shown = <<PROMPT>>
        /\ down = {} /\ owed = <<>>
        /\ unread = <<>> /\ split = FALSE /\ overrun = FALSE

-----------------------------------------------------------------------------
(***************************************************************************)
(* PS2_KB_HANDLER.                                                         *)
(***************************************************************************)
\* Mutant: a ring that is full takes the character.
PutAlways(ch) ==
    /\ KB_BUFFER' = [KB_BUFFER EXCEPT ![bufferEnd] = ch]
    /\ bufferEnd' = (bufferEnd + 1) % KB_BUFFER_SIZE
    /\ bufferCount' = bufferCount + 1

\* Mutant: the character is not counted.
PutUncounted(ch) == /\ bufferCount < KB_BUFFER_SIZE
                    /\ KB_BUFFER' = [KB_BUFFER EXCEPT ![bufferEnd] = ch]
                    /\ bufferEnd' = (bufferEnd + 1) % KB_BUFFER_SIZE
                    /\ UNCHANGED bufferCount

Put(ch) == /\ bufferCount < KB_BUFFER_SIZE
           /\ KB_BUFFER' = [KB_BUFFER EXCEPT ![bufferEnd] = ch]
           /\ bufferEnd' = (bufferEnd + 1) % KB_BUFFER_SIZE
           /\ bufferCount' = bufferCount + 1

\* KB_PUTC
KB_PUTC(ch) ==
    \/ /\ Put(ch)
       /\ split' = (split \/ pc = "store")
       /\ IF Len(unread) < KB_BUFFER_SIZE
          THEN unread' = Append(unread, ch) /\ UNCHANGED overrun
          ELSE overrun' = TRUE /\ UNCHANGED unread
       /\ UNCHANGED bufferStart
    \/ /\ ~(bufferCount < KB_BUFFER_SIZE)
       /\ UNCHANGED <<ring, ghosts>>

\* Mutant: the code behind an E0 leaves the prefix set.
ExtendedKeeps(code, pressed) ==
    /\ view' = IF pressed /\ code = "PGUP" THEN "up" ELSE view
    /\ UNCHANGED <<e0_prefix, shiftPressed, ctrlPressed, altPressed>>

\* The code behind an E0: a scroll, or nothing.
Extended(code, pressed) ==
    /\ view' = CASE pressed /\ code = "PGUP" -> "up"
                 [] pressed /\ code = "PGDN" -> "down"
                 [] pressed /\ code = "HOME" /\ ctrlPressed -> "oldest"
                 [] pressed /\ code = "END" /\ ctrlPressed -> "newest"
                 [] OTHER -> view
    /\ e0_prefix' = FALSE
    /\ UNCHANGED <<shiftPressed, ctrlPressed, altPressed>>

\* One flag for both shift keys.
Modifier(code, pressed) ==
    /\ shiftPressed' = IF code \in Shifts THEN pressed ELSE shiftPressed
    /\ ctrlPressed' = IF code = "CTRL" THEN pressed ELSE ctrlPressed
    /\ altPressed' = IF code = "ALT" THEN pressed ELSE altPressed
    /\ UNCHANGED <<e0_prefix, view>>

Type(code) ==
    LET ch == Map(code, shiftPressed)
    IN  /\ IF ch # NUL THEN KB_PUTC(ch) ELSE UNCHANGED <<ring, ghosts>>
        /\ UNCHANGED <<modifiers, view>>

\* A code byte, a press or a release.
HandleCode(code, pressed) ==
    \/ /\ e0_prefix /\ Extended(code, pressed)
       /\ UNCHANGED <<ring, ghosts>>
    \/ /\ ~e0_prefix /\ code \in Modifiers /\ Modifier(code, pressed)
       /\ UNCHANGED <<ring, ghosts>>
    \/ /\ ~e0_prefix /\ code \notin Modifiers
       /\ IF pressed THEN Type(code)
                     ELSE UNCHANGED <<modifiers, view, ring, ghosts>>

\* E0_ESCAPE
HandleE0 == /\ e0_prefix' = TRUE
            /\ UNCHANGED <<shiftPressed, ctrlPressed, altPressed, view, ring,
                           ghosts>>

\* Any interrupt ends the reader's hlt.
Wake == /\ pc' = IF pc = "halted" THEN "wait" ELSE pc
        /\ UNCHANGED <<c, loaded, line, shown>>

-----------------------------------------------------------------------------
(***************************************************************************)
(* The keyboard: a key goes down (or repeats) or comes up.  An extended    *)
(* key sends two bytes, with an interrupt for each.                        *)
(***************************************************************************)
Press(code) == /\ owed = <<>> /\ HandleCode(code, TRUE) /\ Wake
               /\ down' = IF code \in Modifiers THEN down \cup {code} ELSE down
               /\ UNCHANGED owed

Release(code) == /\ owed = <<>> /\ HandleCode(code, FALSE) /\ Wake
                 /\ code \in Modifiers => code \in down
                 /\ down' = down \ {code}
                 /\ UNCHANGED owed

Prefix(code, pressed) == /\ owed = <<>> /\ HandleE0 /\ Wake
                         /\ owed' = <<code, pressed>>
                         /\ UNCHANGED down

Second == /\ owed # <<>> /\ HandleCode(owed[1], owed[2]) /\ Wake
          /\ owed' = <<>>
          /\ UNCHANGED down

-----------------------------------------------------------------------------
(***************************************************************************)
(* PS2_KB_READ_LN, called again as soon as it returns, and PS2_KB_GETC     *)
(* inside it.                                                              *)
(***************************************************************************)
Go(from, to) == /\ pc = from /\ pc' = to
                /\ UNCHANGED <<modifiers, view, keyboard, split, overrun>>

Test == /\ Go("wait", IF bufferCount = 0 THEN "hlt" ELSE "take")
        /\ UNCHANGED <<ring, c, loaded, line, shown, unread>>

Hlt == /\ Go("hlt", "halted")
       /\ UNCHANGED <<ring, c, loaded, line, shown, unread>>

\* Mutant: the index goes on before the character is read.
NextCharacter == KB_BUFFER[(bufferStart + 1) % KB_BUFFER_SIZE]

Character == KB_BUFFER[bufferStart]

Take == /\ Go("take", "load")
        /\ c' = Character
        /\ bufferStart' = (bufferStart + 1) % KB_BUFFER_SIZE
        /\ unread' = IF unread = <<>> THEN <<>> ELSE Tail(unread)
        /\ UNCHANGED <<KB_BUFFER, bufferEnd, bufferCount, loaded, line, shown>>

Load == /\ Go("load", "store")
        /\ loaded' = bufferCount
        /\ UNCHANGED <<ring, c, line, shown, unread>>

\* Mutant: the count is cleared instead of counted down.
Cleared == 0

Decremented == loaded - 1

Store == /\ Go("store", "edit")
         /\ bufferCount' = Decremented
         /\ loaded' = 0
         /\ UNCHANGED <<KB_BUFFER, bufferStart, bufferEnd, c, line, shown,
                        unread>>

\* vga_char, as far as one row goes: a backspace takes away what stands in
\* front of the cursor, be it of the line or not.
vga_char(text, ch) == IF ch = BS THEN Front(text) ELSE Append(text, ch)

\* Back, a blank over the character, and back again.
Erase(text) == vga_char(vga_char(vga_char(text, BS), BLANK), BS)

\* Mutant: a backspace is taken at the start of the line as well.
BegunAlways == TRUE

\* pos > 0
Begun == line # <<>>

Fits == Len(line) < INPUT_KB_BUFFER - 1

Edit ==
    /\ Go("edit", "wait")
    /\ c' = NUL
    /\ \/ /\ c = LF
          /\ line' = <<>> /\ shown' = <<PROMPT>>
       \/ /\ c = BS /\ Begun
          /\ line' = Front(line)
          /\ shown' = Erase(shown)
       \/ /\ c \in Printable /\ Fits
          /\ line' = Append(line, c)
          /\ shown' = vga_char(shown, c)
       \/ /\ \/ c = BS /\ ~Begun
             \/ c \in Printable /\ ~Fits
             \/ c \notin Printable \cup {LF, BS}
          /\ UNCHANGED <<line, shown>>
    /\ UNCHANGED <<ring, loaded, unread>>

-----------------------------------------------------------------------------
Reader == Test \/ Hlt \/ Take \/ Load \/ Store \/ Edit

Next == \/ Reader
        \/ \E code \in Codes : Press(code) \/ Release(code)
        \/ \E code \in ExtendedKeys, pressed \in BOOLEAN : Prefix(code, pressed)
        \/ Second

Spec == Init /\ [][Next]_vars

\* The reader runs between the interrupts.
FairSpec == Spec /\ WF_vars(Reader)

-----------------------------------------------------------------------------
(***************************************************************************)
(* Types.  The line and the newline behind it fit input_buffer, and the    *)
(* count never goes below 0, wherever the handler comes in between.        *)
(***************************************************************************)
TypeOK ==
    /\ {e0_prefix, shiftPressed, ctrlPressed, altPressed, split, overrun}
          \subseteq BOOLEAN
    /\ KB_BUFFER \in [Slots -> Characters]
    /\ bufferStart \in Slots /\ bufferEnd \in Slots
    /\ bufferCount \in 0 .. KB_BUFFER_SIZE /\ loaded \in 0 .. KB_BUFFER_SIZE
    /\ view \in {"none", "up", "down", "oldest", "newest"}
    /\ pc \in {"wait", "hlt", "halted", "take", "load", "store", "edit"}
    /\ c \in Characters
    /\ Len(line) < INPUT_KB_BUFFER /\ \A i \in DOMAIN line : line[i] \in Printable
    /\ down \subseteq Modifiers

(***************************************************************************)
(* The driver's modifiers are the keyboard's.  Extended keys share codes   *)
(* with the modifiers (E0 1D, E0 2A, E0 38): their two bytes, each with an *)
(* interrupt of its own, neither set nor release one.  Of the shift keys   *)
(* only one direction holds: the flag is for both, and releasing one       *)
(* clears it while the other is still held.                                *)
(***************************************************************************)
ModifiersHeld ==
    /\ ctrlPressed <=> "CTRL" \in down
    /\ altPressed <=> "ALT" \in down
    /\ shiftPressed => down \cap Shifts # {}
    /\ e0_prefix <=> owed # <<>>

(***************************************************************************)
(* PS2_KB_GETC takes the oldest character typed and not yet read, each     *)
(* once, even after its count has lost keys to a split decrement, until    *)
(* such a count lets KB_PUTC overrun the ring.                             *)
(***************************************************************************)
InOrder ==
    [][pc = "take" /\ pc' = "load" /\ ~overrun
          => unread # <<>> /\ c' = Head(unread)]_vars

(***************************************************************************)
(* bufferCount counts the characters in the ring, the one PS2_KB_GETC is   *)
(* at work on included, until a key comes between the load and the store   *)
(* of its decrement.  From then on it never counts too many, and only then *)
(* can the ring be overrun.                                                *)
(***************************************************************************)
Held == Len(unread) + (IF pc \in {"load", "store"} THEN 1 ELSE 0)

CountExact ==
    /\ ~overrun => bufferCount <= Held
    /\ ~split => bufferCount = Held /\ ~overrun

(***************************************************************************)
(* What PS2_KB_READ_LN has printed of a line is the line: every character  *)
(* it keeps and nothing it has dropped or rubbed out; and what stands in   *)
(* front of the line is never rubbed out, however many backspaces arrive.  *)
(***************************************************************************)
LineShown == shown = <<PROMPT>> \o line

(***************************************************************************)
(* Keys that arrive between the test of bufferCount and the hlt, and keys  *)
(* the count has lost, wait for another interrupt, but never for ever: as  *)
(* long as characters go on arriving, PS2_KB_GETC goes on returning some.  *)
(***************************************************************************)
KeepsReading ==
    []<><<bufferEnd' # bufferEnd>>_vars => []<>(pc = "edit")
=============================================================================
