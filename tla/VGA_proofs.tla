----------------------------- MODULE VGA_proofs -----------------------------
(***************************************************************************)
(* Proofs about the text console, for every size of the screen and of the  *)
(* history and every set of characters.                                    *)
(***************************************************************************)
EXTENDS VGA, SequenceTheorems, TLAPS

IInv == TypeOK /\ InHistory

-----------------------------------------------------------------------------
LEMMA Sizes == /\ Width \in Int /\ Width >= 1
               /\ Height \in Int /\ Height >= 1
               /\ History \in Int /\ History >= 1
<1>1. {Width, Height, History} \subseteq Nat \ {0} BY ConsoleAssumption
<1> QED BY <1>1

\* A character that is no control character is a cell.
LEMMA Printed ==
    ASSUME NEW c \in Chars \cup {SP, LF, CR, BS}, c \notin {LF, CR, BS}
    PROVE  c \in Chars \cup {SP}
OBVIOUS

LEMMA CellSet ==
    ASSUME screen \in [Rows -> Lines], NEW y \in Rows, NEW x \in Columns,
           NEW c \in Chars \cup {SP}
    PROVE  /\ Set(y, x, c) \in [Rows -> Lines]
           /\ \A z \in Rows : z # y => Set(y, x, c)[z] = screen[z]
BY DEF Set, Lines

LEMMA BlankLineType == BlankLine \in Lines /\ BlankScreen \in [Rows -> Lines]
BY DEF BlankLine, BlankScreen, Lines

\* Every line of the ring can be asked for, also past its newest.
LEMMA RingLine ==
    ASSUME TypeOK, NEW line \in Int
    PROVE  HistoryLine(line) \in Lines
<1>1. history_start \in Int BY Sizes DEF TypeOK, Slots
<1>2. (history_start + line) % History \in Slots BY <1>1, Sizes DEF Slots
<1> QED BY <1>2 DEF TypeOK, HistoryLine, history_line_index

-----------------------------------------------------------------------------
(***************************************************************************)
(* What a character makes of the screen and the cursor (VGA.c:197-223):    *)
(* one line changes at most, and the cursor is on the screen or, in the    *)
(* first column, one line below it.                                        *)
(***************************************************************************)
Good(a) == /\ a.s \in [Rows -> Lines]
           /\ a.x \in Columns
           /\ a.y \in Int /\ a.y >= 0 /\ a.y <= Height
           /\ \E y \in Rows : \A z \in Rows : z # y => a.s[z] = screen[z]

LEMMA GoodAt ==
    ASSUME NEW s \in [Rows -> Lines], NEW x \in Columns,
           NEW y \in Int, y >= 0, y <= Height,
           NEW changed \in Rows,
           \A z \in Rows : z # changed => s[z] = screen[z]
    PROVE  Good(At(s, x, y))
BY DEF Good, At

LEMMA AfterType ==
    ASSUME TypeOK, NEW c \in Chars \cup {SP, LF, CR, BS}
    PROVE  Good(After(c))
<1>0. /\ screen \in [Rows -> Lines] /\ cursorx \in Columns /\ cursory \in Rows
      BY DEF TypeOK
<1>1. /\ cursorx \in Int /\ cursorx >= 0 /\ cursorx < Width
      /\ cursory \in Int /\ cursory >= 0 /\ cursory < Height
      /\ 0 \in Columns
      BY <1>0, Sizes DEF Columns, Rows
<1>2. CASE c = LF
  <2>1. After(c) = At(screen, 0, cursory + 1) BY <1>2 DEF After, LF, CR, BS
  <2>2. cursory + 1 \in Int /\ cursory + 1 >= 0 /\ cursory + 1 <= Height
        BY <1>1, Sizes
  <2> QED BY <1>0, <1>1, <2>1, <2>2, GoodAt
<1>3. CASE c = CR
  <2>1. After(c) = At(screen, 0, cursory) BY <1>3 DEF After, LF, CR, BS
  <2>2. cursory <= Height BY <1>1, Sizes
  <2> QED BY <1>0, <1>1, <2>1, <2>2, GoodAt
<1>4. CASE c = BS
  <2>0. After(c) = Backspace BY <1>4 DEF After, LF, CR, BS
  <2>1. cursory <= Height BY <1>1, Sizes
  <2>2. CASE cursorx > 0
    <3>1. cursorx - 1 \in Columns BY <1>1, <2>2, Sizes DEF Columns
    <3>2. Backspace = At(Set(cursory, cursorx - 1, SP), cursorx - 1, cursory)
          BY <2>2 DEF Backspace
    <3> QED BY <1>0, <1>1, <2>0, <2>1, <3>1, <3>2, CellSet, GoodAt
  <2>3. CASE cursorx = 0 /\ cursory > 0
    <3>1. cursory - 1 \in Rows /\ Width - 1 \in Columns
          BY <1>1, <2>3, Sizes DEF Rows, Columns
    <3>2. Backspace = At(Set(cursory - 1, Width - 1, SP), Width - 1,
                         cursory - 1)
          BY <2>3 DEF Backspace
    <3>3. cursory - 1 \in Int /\ cursory - 1 >= 0 /\ cursory - 1 <= Height
          BY <1>1, <2>3, Sizes
    <3> QED BY <1>0, <2>0, <3>1, <3>2, <3>3, CellSet, GoodAt
  <2>4. CASE cursorx = 0 /\ cursory = 0
    <3>1. Backspace = At(screen, cursorx, cursory) BY <2>4 DEF Backspace
    <3> QED BY <1>0, <1>1, <2>0, <2>1, <3>1, GoodAt
  <2> QED BY <1>1, <2>2, <2>3, <2>4
<1>5. CASE c \notin {LF, CR, BS}
  <2>0. After(c) = Printable(c) /\ c \in Chars \cup {SP}
        BY <1>5, Printed DEF After
  <2>1. /\ Set(cursory, cursorx, c) \in [Rows -> Lines]
        /\ \A z \in Rows : z # cursory
              => Set(cursory, cursorx, c)[z] = screen[z]
        BY <1>0, <2>0, CellSet
  <2>2. CASE cursorx + 1 >= Width
    <3>1. Printable(c) = At(Set(cursory, cursorx, c), 0, cursory + 1)
          BY <2>2 DEF Printable
    <3>2. cursory + 1 \in Int /\ cursory + 1 >= 0 /\ cursory + 1 <= Height
          BY <1>1, Sizes
    <3> QED BY <1>0, <1>1, <2>0, <2>1, <3>1, <3>2, GoodAt
  <2>3. CASE ~(cursorx + 1 >= Width)
    <3>1. Printable(c) = At(Set(cursory, cursorx, c), cursorx + 1, cursory)
          BY <2>3 DEF Printable
    <3>2. cursorx + 1 \in Columns /\ cursory <= Height
          BY <1>1, <2>3, Sizes DEF Columns
    <3> QED BY <1>0, <1>1, <2>0, <2>1, <3>1, <3>2, GoodAt
  <2> QED BY <2>2, <2>3
<1> QED BY <1>2, <1>3, <1>4, <1>5

\* A line that joins the ring (VGA.c:29-43): the ring turns once it is full.
LEMMA AddType ==
    ASSUME IInv, NEW line \in Lines, add_line_to_history(line)
    PROVE  /\ vga_history' \in [Slots -> Lines]
           /\ history_start' \in Slots /\ history_count' \in 0 .. History
           /\ history_count' < History => history_start' = 0
<1> USE Sizes DEF IInv, TypeOK, InHistory
<1>1. CASE history_count = History
  <2>1. (history_start + 1) % History \in Slots BY DEF Slots
  <2> QED BY <1>1, <2>1 DEF add_line_to_history
<1>2. CASE history_count # History
  <2>1. history_count \in Slots BY <1>2 DEF Slots
  <2> QED BY <1>2, <2>1 DEF add_line_to_history
<1> QED BY <1>1, <1>2

-----------------------------------------------------------------------------
(***************************************************************************)
(* The invariant.                                                          *)
(***************************************************************************)
LEMMA InitIInv == Init => IInv
BY Sizes, BlankLineType
   DEF Init, IInv, TypeOK, InHistory, Rows, Columns, Slots,
       vga_get_scroll_max

LEMMA ClearIInv == IInv /\ vga_clear => IInv'
BY Sizes, BlankLineType
   DEF vga_clear, IInv, TypeOK, InHistory, Rows, Columns, Slots,
       vga_get_scroll_max

LEMMA ScrollIInv ==
    ASSUME IInv, NEW s \in [Rows -> Lines], vga_scroll(s)
    PROVE  IInv'
<1> USE Sizes
<1>1. s[0] \in Lines BY DEF Rows
<1>2. /\ vga_history' \in [Slots -> Lines]
      /\ history_start' \in Slots /\ history_count' \in 0 .. History
      /\ history_count' < History => history_start' = 0
      BY <1>1, AddType DEF vga_scroll
<1>3. screen' \in [Rows -> Lines] BY BlankLineType DEF vga_scroll, Rows
<1>4. TypeOK' BY <1>2, <1>3 DEF vga_scroll, TypeOK, Rows, Columns
<1>5. InHistory'
  <2>1. vga_get_scroll_max' >= 0
    <3>1. \A n \in Int : (IF n > Height THEN n - Height ELSE 0) >= 0
          OBVIOUS
    <3>2. history_count' \in Int BY <1>2
    <3> QED BY <3>1, <3>2 DEF vga_get_scroll_max
  <2>2. scroll_offset' = 0 BY DEF vga_scroll
  <2> QED BY <1>2, <2>1, <2>2 DEF InHistory
<1> QED BY <1>4, <1>5 DEF IInv

LEMMA CharIInv ==
    ASSUME IInv, NEW c \in Chars \cup {SP, LF, CR, BS}, vga_char(c)
    PROVE  IInv'
<1>1. TypeOK BY DEF IInv
<1>2. /\ After(c).s \in [Rows -> Lines] /\ After(c).x \in Columns
      /\ After(c).y \in Int /\ After(c).y >= 0
      BY <1>1, AfterType DEF Good
<1>3. CASE After(c).y >= Height
      BY <1>2, <1>3, ScrollIInv DEF vga_char
<1>4. CASE ~(After(c).y >= Height)
  <2>1. /\ screen' = After(c).s /\ cursorx' = After(c).x
        /\ cursory' = After(c).y
        /\ UNCHANGED <<scroll_offset, ring>>
        BY <1>4 DEF vga_char
  <2>2. cursory' \in Rows BY <1>2, <1>4, <2>1, Sizes DEF Rows
  <2>3. TypeOK' BY <1>1, <1>2, <2>1, <2>2 DEF TypeOK, ring
  <2>4. InHistory'
        BY <2>1 DEF IInv, InHistory, vga_get_scroll_max, ring
  <2> QED BY <2>3, <2>4 DEF IInv
<1> QED BY <1>3, <1>4

LEMMA ViewIInv ==
    ASSUME IInv, NEW offset \in 0 .. vga_get_scroll_max, View(offset)
    PROVE  IInv'
<1> USE Sizes
<1>1. TypeOK BY DEF IInv
<1>2. offset \in Int /\ history_count \in Int BY <1>1 DEF TypeOK
<1>3. \A y \in Rows : StartLine(offset) + y \in Int
      BY <1>2 DEF StartLine, Rows
<1>4. screen' \in [Rows -> Lines]
      BY <1>1, <1>3, RingLine, BlankLineType
         DEF View, redraw_screen_from_history
<1>5. offset <= History
      BY <1>1 DEF TypeOK, vga_get_scroll_max
<1>6. TypeOK'
      BY <1>1, <1>4, <1>5
         DEF View, redraw_screen_from_history, TypeOK, ring, Rows, Columns
<1>7. InHistory'
      BY DEF View, IInv, InHistory, vga_get_scroll_max, ring
<1> QED BY <1>6, <1>7 DEF IInv

\* The three calls that show a part of the history.
LEMMA Views ==
    ASSUME IInv,
           \/ vga_scroll_up \/ vga_scroll_down
           \/ \E offset \in Offsets : vga_set_scroll_offset(offset)
    PROVE  \E offset \in 0 .. vga_get_scroll_max : View(offset)
<1>1. scroll_offset \in Int /\ scroll_offset >= 0
      /\ scroll_offset <= vga_get_scroll_max
      BY Sizes DEF IInv, TypeOK, InHistory
<1>2. vga_get_scroll_max \in Int /\ vga_get_scroll_max >= 0
      BY Sizes DEF IInv, TypeOK, vga_get_scroll_max
<1>3. CASE vga_scroll_up
  <2>1. scroll_offset + 1 \in 0 .. vga_get_scroll_max
        BY <1>1, <1>2, <1>3 DEF vga_scroll_up
  <2> QED BY <1>3, <2>1 DEF vga_scroll_up
<1>4. CASE vga_scroll_down
  <2>1. scroll_offset - 1 \in 0 .. vga_get_scroll_max
        BY <1>1, <1>2, <1>4 DEF vga_scroll_down
  <2> QED BY <1>4, <2>1 DEF vga_scroll_down
<1>5. ASSUME NEW offset \in Offsets, vga_set_scroll_offset(offset)
      PROVE  \E o \in 0 .. vga_get_scroll_max : View(o)
  <2> DEFINE o == IF offset < 0 THEN 0
                  ELSE IF offset > vga_get_scroll_max THEN vga_get_scroll_max
                  ELSE offset
  <2>1. o \in 0 .. vga_get_scroll_max BY <1>2 DEF Offsets
  <2>2. View(o) BY <1>5 DEF vga_set_scroll_offset
  <2> QED BY <2>1, <2>2
<1> QED BY <1>3, <1>4, <1>5

LEMMA NextIInv == IInv /\ [Next]_vars => IInv'
<1> SUFFICES ASSUME IInv, [Next]_vars PROVE IInv' OBVIOUS
<1>1. CASE UNCHANGED vars
      BY <1>1 DEF vars, cursor, ring, IInv, TypeOK, InHistory,
                  vga_get_scroll_max
<1>2. ASSUME NEW c \in Chars \cup {SP, LF, CR, BS}, vga_char(c) PROVE IInv'
      BY <1>2, CharIInv
<1>3. CASE vga_clear BY <1>3, ClearIInv
<1> QED BY <1>1, <1>2, <1>3, Views, ViewIInv DEF Next

LEMMA Invariance == Spec => []IInv
BY InitIInv, NextIInv, PTL DEF Spec

(***************************************************************************)
(* Type correctness.  vga_char indexes VGA_BUFFER and the history's loops  *)
(* index vga_history with what this bounds (VGA.c:41, 113, 197-227): neither is *)
(* checked there.                                                          *)
(***************************************************************************)
THEOREM TypeCorrect == Spec => []TypeOK
BY Invariance, PTL DEF IInv

(***************************************************************************)
(* A view never reaches above the oldest line kept, and the ring turns     *)
(* only when it is full (VGA.c:29-43, 68-156).                            *)
(***************************************************************************)
THEOREM ViewsInHistory == Spec => []InHistory
BY Invariance, PTL DEF IInv

-----------------------------------------------------------------------------
(***************************************************************************)
(* The refinement: the ring, read from its start, is the lines above the   *)
(* screen.                                                                 *)
(***************************************************************************)
Above == [i \in 1 .. history_count |-> HistoryLine(i - 1)]

LEMMA AboveType ==
    ASSUME TypeOK
    PROVE  /\ Above \in Seq(Lines) /\ Len(Above) = history_count
           /\ history_count \in Nat /\ history_count <= History
           /\ \A i \in 1 .. history_count : Above[i] = HistoryLine(i - 1)
<1>1. history_count \in Nat /\ history_count <= History
      BY Sizes DEF TypeOK
<1>2. \A i \in 1 .. history_count : HistoryLine(i - 1) \in Lines
      BY <1>1, RingLine
<1> QED BY <1>1, <1>2 DEF Above

\* The ring's arithmetic.
LEMMA Turn ==
    ASSUME NEW a \in Slots, NEW k \in 0 .. History
    PROVE  (a + k) % History = IF a + k < History THEN a + k
                               ELSE a + k - History
<1>1. /\ a \in Int /\ a >= 0 /\ a < History /\ k \in Int /\ k >= 0
      /\ k <= History /\ History \in Int /\ History >= 1
      BY Sizes DEF Slots
<1>2. CASE a + k < History BY ONLY <1>1, <1>2
<1>3. CASE a + k >= History
  <2> DEFINE m == a + k - History
  <2>1. m \in Int /\ m >= 0 /\ m < History /\ a + k = m + History
        BY ONLY <1>1, <1>3
  <2> HIDE DEF m
  <2>2. (m + History) % History = m BY ONLY <1>1, <2>1
  <2> QED BY <1>1, <1>3, <2>1, <2>2 DEF m
<1> QED BY <1>1, <1>2, <1>3

\* A screen of which one line changed is one the terminal may write.
LEMMA OneLine ==
    ASSUME TypeOK, NEW s \in [Rows -> Lines], NEW y \in Rows,
           \A z \in Rows : z # y => s[z] = screen[z]
    PROVE  s \in Term!Written
<1>1. s = [screen EXCEPT ![y] = s[y]] BY DEF TypeOK
<1>2. s[y] \in Lines OBVIOUS
<1> QED BY <1>1, <1>2 DEF Term!Written, Term!Rows, Rows

\* What the lines above become when one joins them.
LEMMA WithLine ==
    ASSUME TypeOK, NEW l \in Lines
    PROVE  /\ Term!With(l) \in Seq(Lines)
           /\ history_count < History =>
                /\ Len(Term!With(l)) = history_count + 1
                /\ \A i \in 1 .. (history_count + 1) :
                      Term!With(l)[i] = IF i = history_count + 1 THEN l
                                        ELSE HistoryLine(i - 1)
           /\ history_count = History =>
                /\ Len(Term!With(l)) = History
                /\ \A i \in 1 .. History :
                      Term!With(l)[i] = IF i = History THEN l
                                        ELSE HistoryLine(i)
<1> DEFINE all == Append(Above, l)
           n == history_count
<1>1. /\ Above \in Seq(Lines) /\ Len(Above) = n
      /\ n \in Nat /\ n <= History /\ n \in Int
      /\ \A i \in 1 .. n : Above[i] = HistoryLine(i - 1)
      BY AboveType
<1>2. /\ all \in Seq(Lines) /\ Len(all) = n + 1
      /\ \A i \in 1 .. n : all[i] = HistoryLine(i - 1)
      /\ all[n + 1] = l
      BY <1>1, AppendProperties
<1>3. Term!With(l) = SubSeq(all, IF n + 1 > History THEN 2 ELSE 1, n + 1)
      BY <1>2 DEF Term!With, Above
<1>4. \A i \in 1 .. (n + 1) : all[i] \in Lines BY <1>2, ElementOfSeq
<1> HIDE DEF all, n
<1>5. CASE n < History
  <2>1. Term!With(l) = SubSeq(all, 1, n + 1) BY <1>1, <1>3, <1>5, Sizes
  <2>2. /\ Term!With(l) \in Seq(Lines) /\ Len(Term!With(l)) = n + 1
        /\ \A i \in 1 .. (n + 1) : Term!With(l)[i] = all[i]
    <3>1. /\ SubSeq(all, 1, n + 1) \in Seq(Lines)
          /\ Len(SubSeq(all, 1, n + 1))
               = IF 1 <= n + 1 THEN n + 1 - 1 + 1 ELSE 0
          /\ \A i \in 1 .. (n + 1 - 1 + 1) :
                SubSeq(all, 1, n + 1)[i] = all[1 + i - 1]
          BY <1>1, <1>4, SubSeqProperties
    <3> QED BY <1>1, <2>1, <3>1
  <2> QED BY <1>1, <1>2, <1>5, <2>2, Sizes DEF n
<1>6. CASE n = History
  <2>1. Term!With(l) = SubSeq(all, 2, n + 1) BY <1>1, <1>3, <1>6, Sizes
  <2>2. /\ Term!With(l) \in Seq(Lines) /\ Len(Term!With(l)) = n
        /\ \A i \in 1 .. n : Term!With(l)[i] = all[i + 1]
    <3>1. \A i \in 2 .. (n + 1) : all[i] \in Lines BY <1>1, <1>4
    <3>2. /\ SubSeq(all, 2, n + 1) \in Seq(Lines)
          /\ Len(SubSeq(all, 2, n + 1))
               = IF 2 <= n + 1 THEN n + 1 - 2 + 1 ELSE 0
          /\ \A i \in 1 .. (n + 1 - 2 + 1) :
                SubSeq(all, 2, n + 1)[i] = all[2 + i - 1]
          BY <1>1, <3>1, SubSeqProperties
    <3>3. 2 <= n + 1 BY <1>1, <1>6, Sizes
    <3>4. n + 1 - 2 + 1 = n BY <1>1
    <3>5. \A i \in 1 .. n : 2 + i - 1 = i + 1 BY <1>1
    <3> QED BY <1>1, <2>1, <3>2, <3>3, <3>4, <3>5
  <2>3. \A i \in 1 .. n : i # n => all[i + 1] = HistoryLine(i)
    <3> SUFFICES ASSUME NEW i \in 1 .. n, i # n
                 PROVE  all[i + 1] = HistoryLine(i)
        OBVIOUS
    <3>1. i + 1 \in 1 .. n /\ i + 1 - 1 = i BY <1>1
    <3> QED BY <1>2, <3>1
  <2> QED BY <1>1, <1>2, <1>6, <2>2, <2>3, Sizes DEF n
<1> QED BY <1>1, <1>5, <1>6, Sizes

\* add_line_to_history does that to the ring.
LEMMA AddAbove ==
    ASSUME IInv, NEW l \in Lines, add_line_to_history(l), TypeOK'
    PROVE  Above' = Term!With(l)
<1> DEFINE n == history_count
<1>1. /\ history_start \in Slots /\ n \in Int /\ n >= 0 /\ n <= History
      /\ vga_history \in [Slots -> Lines]
      /\ n < History => history_start = 0
      /\ History \in Int /\ History >= 1
      BY Sizes DEF IInv, TypeOK, InHistory
<1>2. /\ Term!With(l) \in Seq(Lines)
      /\ n < History =>
            /\ Len(Term!With(l)) = n + 1
            /\ \A i \in 1 .. (n + 1) :
                  Term!With(l)[i] = IF i = n + 1 THEN l ELSE HistoryLine(i - 1)
      /\ n = History =>
            /\ Len(Term!With(l)) = History
            /\ \A i \in 1 .. History :
                  Term!With(l)[i] = IF i = History THEN l ELSE HistoryLine(i)
      BY WithLine DEF IInv
<1> HIDE DEF n
<1>3. \A i \in 1 .. History : i - 1 \in 0 .. History /\ i \in 0 .. History
      BY <1>1
<1>4. CASE n < History
  <2>1. /\ vga_history' = [vga_history EXCEPT ![n] = l]
        /\ history_count' = n + 1 /\ history_start' = 0 /\ history_start = 0
        /\ n \in Slots /\ 0 \in Slots
    <3>1. history_count # History BY <1>1, <1>4 DEF n
    <3>2. /\ vga_history' = [vga_history EXCEPT ![history_count] = l]
          /\ history_count' = history_count + 1
          /\ history_start' = history_start
          BY <3>1 DEF add_line_to_history
    <3>3. n \in Slots /\ 0 \in Slots BY <1>1, <1>4 DEF Slots
    <3> QED BY <1>1, <1>4, <3>2, <3>3 DEF n
  <2>2. \A i \in 1 .. (n + 1) :
           HistoryLine(i - 1)' = Term!With(l)[i]
    <3> SUFFICES ASSUME NEW i \in 1 .. (n + 1)
                 PROVE  HistoryLine(i - 1)' = Term!With(l)[i]
        OBVIOUS
    <3>1. i \in 1 .. History /\ i - 1 \in Slots BY <1>1, <1>4 DEF Slots
    <3>2. (0 + (i - 1)) % History = i - 1
      <4>1. 0 + (i - 1) < History /\ 0 + (i - 1) = i - 1
            BY <1>1, <3>1 DEF Slots
      <4> QED BY <1>3, <2>1, <3>1, <4>1, Turn
    <3>3. HistoryLine(i - 1)' = vga_history'[i - 1]
          BY <2>1, <3>2 DEF HistoryLine, history_line_index
    <3>4. HistoryLine(i - 1) = vga_history[i - 1]
          BY <2>1, <3>2 DEF HistoryLine, history_line_index
    <3>5. CASE i = n + 1
      <4>1. i - 1 = n BY <1>1, <3>5
      <4>2. vga_history'[n] = l BY <1>1, <2>1
      <4> QED BY <1>2, <1>4, <3>3, <3>5, <4>1, <4>2
    <3>6. CASE i # n + 1
      <4>1. i - 1 # n BY <1>1, <3>6
      <4>2. vga_history'[i - 1] = vga_history[i - 1]
            BY <1>1, <2>1, <3>1, <4>1
      <4> QED BY <1>2, <1>4, <3>3, <3>4, <3>6, <4>2
    <3> QED BY <3>5, <3>6
  <2>3. Above' = [i \in 1 .. (n + 1) |-> Term!With(l)[i]]
        BY <2>1, <2>2 DEF Above
  <2> QED BY <1>2, <1>4, <2>3, LenProperties
<1>5. CASE n = History
  <2>1. /\ vga_history' = [vga_history EXCEPT ![history_start] = l]
        /\ history_count' = History
        /\ history_start' = (history_start + 1) % History
        BY <1>1, <1>5 DEF add_line_to_history, n
  <2>2. \A i \in 1 .. History :
           HistoryLine(i - 1)' = Term!With(l)[i]
    <3> SUFFICES ASSUME NEW i \in 1 .. History
                 PROVE  HistoryLine(i - 1)' = Term!With(l)[i]
        OBVIOUS
    <3> DEFINE slot == (history_start + i) % History
    <3>1. (history_start' + (i - 1)) % History = slot
          /\ slot \in Slots /\ (slot = history_start <=> i = History)
      <4>1. history_start' = IF history_start + 1 < History
                             THEN history_start + 1
                             ELSE history_start + 1 - History
            BY <1>1, <2>1, Turn
      <4>2. history_start' \in Slots BY <1>1, <4>1 DEF Slots
      <4>3. (history_start' + (i - 1)) % History
              = IF history_start' + (i - 1) < History
                THEN history_start' + (i - 1)
                ELSE history_start' + (i - 1) - History
            BY <1>3, <4>2, Turn
      <4>4. slot = IF history_start + i < History THEN history_start + i
                   ELSE history_start + i - History
            BY <1>1, <1>3, Turn
      <4> HIDE DEF slot
      <4>5. /\ history_start \in Int /\ history_start >= 0
            /\ history_start < History
            /\ i \in Int /\ i >= 1 /\ i <= History
            BY <1>1 DEF Slots
      <4>6. slot \in Slots /\ (slot = history_start <=> i = History)
            BY <1>1, <4>4, <4>5 DEF Slots
      <4>7. (history_start' + (i - 1)) % History = slot
            BY <1>1, <4>1, <4>3, <4>4, <4>5
      <4> QED BY <4>6, <4>7
    <3>2. HistoryLine(i - 1)' = vga_history'[slot]
          BY <3>1 DEF HistoryLine, history_line_index
    <3>3. HistoryLine(i) = vga_history[slot]
          BY DEF HistoryLine, history_line_index
    <3> HIDE DEF slot
    <3>4. CASE i = History
      <4>1. vga_history'[slot] = l BY <1>1, <2>1, <3>1, <3>4
      <4> QED BY <1>2, <1>5, <3>2, <3>4, <4>1
    <3>5. CASE i # History
      <4>1. vga_history'[slot] = vga_history[slot]
            BY <1>1, <2>1, <3>1, <3>5
      <4> QED BY <1>2, <1>5, <3>2, <3>3, <3>5, <4>1
    <3> QED BY <3>4, <3>5
  <2>3. Above' = [i \in 1 .. History |-> Term!With(l)[i]]
        BY <2>1, <2>2 DEF Above
  <2> QED BY <1>2, <1>5, <2>3, LenProperties
<1> QED BY <1>1, <1>4, <1>5

LEMMA AboveKept == UNCHANGED ring => Above' = Above
BY DEF ring, Above, HistoryLine, history_line_index

LEMMA CharRefines ==
    ASSUME IInv, NEW c \in Chars \cup {SP, LF, CR, BS}, vga_char(c), TypeOK'
    PROVE  Term!Put \/ Term!Feed
<1> DEFINE s == After(c).s
<1>1. TypeOK BY DEF IInv
<1>2. s \in [Rows -> Lines] /\ s \in Term!Written
  <2>1. Good(After(c)) BY <1>1, AfterType
  <2>2. s \in [Rows -> Lines] BY <2>1 DEF Good
  <2>3. PICK y \in Rows : \A z \in Rows : z # y => s[z] = screen[z]
        BY <2>1 DEF Good
  <2> HIDE DEF s
  <2> QED BY <1>1, <2>2, <2>3, OneLine
<1>3. CASE After(c).y >= Height
  <2>1. vga_scroll(s) BY <1>3 DEF vga_char
  <2> HIDE DEF s
  <2>2. s[0] \in Lines BY <1>2, Sizes DEF Rows
  <2>3. Above' = Term!With(s[0]) BY <2>1, <2>2, AddAbove DEF vga_scroll
  <2>4. screen' = [y \in Term!Rows |-> IF y + 1 \in Term!Rows THEN s[y + 1]
                                                            ELSE BlankLine]
        BY <2>1, Sizes DEF vga_scroll, Term!Rows, Rows
  <2> QED BY <1>2, <2>3, <2>4 DEF Term!Feed, Above
<1>4. CASE ~(After(c).y >= Height)
  <2>1. screen' = s /\ UNCHANGED ring BY <1>4 DEF vga_char
  <2>2. Above' = Above BY <2>1, AboveKept
  <2> QED BY <1>2, <2>1, <2>2 DEF Term!Put, Above
<1> QED BY <1>3, <1>4

LEMMA ViewRefines ==
    ASSUME IInv, NEW offset \in 0 .. vga_get_scroll_max, View(offset)
    PROVE  \E back \in 0 .. Len(Above) :
              back \in {0} \cup 0 .. (Len(Above) - Height) /\ Term!Overwrite(back)
<1> DEFINE n == history_count
<1>1. /\ Len(Above) = n /\ n \in Int /\ n >= 0
      /\ \A i \in 1 .. n : Above[i] = HistoryLine(i - 1)
      BY AboveType DEF IInv
<1>2. offset \in 0 .. n /\ offset \in {0} \cup 0 .. (n - Height)
      BY <1>1, Sizes DEF vga_get_scroll_max
<1>3. Above' = Above BY AboveKept DEF View
<1>4. screen' = LET top == IF Len(Above) > Height
                           THEN Len(Above) - Height - offset ELSE 0
                IN  [y \in Term!Rows |-> IF top + y + 1 <= Len(Above)
                                         THEN Above[top + y + 1]
                                         ELSE BlankLine]
  <2> DEFINE top == IF n > Height THEN n - Height - offset ELSE 0
  <2>1. StartLine(offset) = top BY DEF StartLine
  <2>2. top \in Int /\ top >= 0 BY <1>1, <1>2, Sizes
  <2> HIDE DEF top
  <2>3. screen' = [y \in Rows |-> IF top + y < n THEN HistoryLine(top + y)
                                  ELSE BlankLine]
        BY <2>1 DEF View, redraw_screen_from_history
  <2>4. ASSUME NEW y \in Rows
        PROVE  (IF top + y < n THEN HistoryLine(top + y) ELSE BlankLine)
                 = IF top + y + 1 <= n THEN Above[top + y + 1] ELSE BlankLine
    <3>1. y \in Int /\ y >= 0 BY Sizes DEF Rows
    <3>2. top + y < n <=> top + y + 1 <= n BY <1>1, <2>2, <3>1
    <3>3. ASSUME top + y < n PROVE Above[top + y + 1] = HistoryLine(top + y)
      <4> DEFINE k == top + y + 1
      <4>1. k \in 1 .. n /\ k - 1 = top + y BY <1>1, <2>2, <3>1, <3>3
      <4> HIDE DEF k
      <4>2. Above[k] = HistoryLine(k - 1) BY <1>1, <4>1
      <4> QED BY <4>1, <4>2 DEF k
    <3> QED BY <3>2, <3>3
  <2>5. screen' = [y \in Rows |-> IF top + y + 1 <= n THEN Above[top + y + 1]
                                  ELSE BlankLine]
        BY <2>3, <2>4
  <2>6. Term!Rows = Rows BY DEF Term!Rows, Rows
  <2> QED BY <1>1, <2>5, <2>6 DEF top
<1>5. Term!Overwrite(offset) BY <1>3, <1>4 DEF Term!Overwrite, Above
<1> QED BY <1>1, <1>2, <1>5

LEMMA EmptyAbove == history_count = 0 => Above = <<>>
BY DEF Above

LEMMA InitRefines == Init => Term!Init
<1> SUFFICES ASSUME Init PROVE Term!Init OBVIOUS
<1>1. Above = <<>> BY EmptyAbove DEF Init
<1>2. screen = [y \in Term!Rows |-> BlankLine]
      BY DEF Init, BlankScreen, Term!Rows, Rows
<1> QED BY <1>1, <1>2 DEF Term!Init, Above

LEMMA ClearRefines == vga_clear => Term!Clear
<1> SUFFICES ASSUME vga_clear PROVE Term!Clear OBVIOUS
<1>1. Above' = <<>> BY DEF vga_clear, Above
<1>2. screen' = [y \in Term!Rows |-> BlankLine]
      BY DEF vga_clear, BlankScreen, Term!Rows, Rows
<1> QED BY <1>1, <1>2 DEF Term!Clear, Above

LEMMA NextRefines ==
    IInv /\ IInv' /\ [Next]_vars => [Term!Next]_<<screen, Above>>
<1> SUFFICES ASSUME IInv, IInv', [Next]_vars
             PROVE  [Term!Next]_<<screen, Above>>
    OBVIOUS
<1>1. CASE UNCHANGED vars
  <2>1. screen' = screen /\ UNCHANGED ring BY <1>1 DEF vars, ring
  <2> QED BY <2>1, AboveKept
<1>2. ASSUME NEW c \in Chars \cup {SP, LF, CR, BS}, vga_char(c)
      PROVE  Term!Next
      BY <1>2, CharRefines DEF IInv, Term!Next
<1>3. CASE vga_clear BY <1>3, ClearRefines DEF Term!Next
<1>4. ASSUME \/ vga_scroll_up \/ vga_scroll_down
             \/ \E offset \in Offsets : vga_set_scroll_offset(offset)
      PROVE  Term!Next
      BY <1>4, Views, ViewRefines DEF Term!Next, Above
<1> QED BY <1>1, <1>2, <1>3, <1>4 DEF Next

(***************************************************************************)
(* The console implements the terminal: a line that leaves the screen      *)
(* joins the kept ones as the newest, the oldest is given up first and     *)
(* only when the ring is full, and scrolling writes consecutive kept lines *)
(* over the screen, whose own lines are lost (VGA.c:29-156; see Terminal). *)
(***************************************************************************)
THEOREM Refinement == Spec => ImplementsTerminal
<1>1. IInv /\ IInv' /\ [Next]_vars => [Term!Next]_<<screen, Above>>
      BY NextRefines
<1> QED BY <1>1, InitRefines, Invariance, PTL
        DEF Spec, ImplementsTerminal, Term!Spec, Above
=============================================================================
