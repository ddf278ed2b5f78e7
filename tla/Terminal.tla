------------------------------ MODULE Terminal ------------------------------
(***************************************************************************)
(* What the text console does for those who print: a screen of lines, and  *)
(* above it the latest lines that left it at the top, in the order they    *)
(* left it.  The screen has no copy of its own: to show lines from above   *)
(* again is to write them over what it holds.                              *)
(***************************************************************************)
EXTENDS Integers, Sequences

CONSTANTS Height,   \* lines on the screen
          Keep,     \* lines kept above it
          Lines,    \* what a line may hold
          Blank     \* an empty one

VARIABLES screen,   \* row -> line
          above     \* the lines above, the oldest first

Rows == 0 .. (Height - 1)

Init == screen = [y \in Rows |-> Blank] /\ above = <<>>

\* Output changes one line.
Written == {[screen EXCEPT ![y] = l] : y \in Rows, l \in Lines}

\* The lines above once l joins them.
With(l) == LET all == Append(above, l)
           IN  SubSeq(all, IF Len(all) > Keep THEN 2 ELSE 1, Len(all))

Put == screen' \in Written /\ UNCHANGED above

Feed == \E s \in Written :
           /\ above' = With(s[0])
           /\ screen' = [y \in Rows |-> IF y + 1 \in Rows THEN s[y + 1]
                                                          ELSE Blank]

\* The lines above, the newest `back` of them aside, as far as they go, take
\* the place of what the screen held, which is lost: no step brings it back.
\* They are lines of the screen now, and once they leave it at the top they
\* are above a second time.
Overwrite(back) ==
    /\ screen' = LET top == IF Len(above) > Height
                            THEN Len(above) - Height - back ELSE 0
                 IN  [y \in Rows |-> IF top + y + 1 <= Len(above)
                                     THEN above[top + y + 1] ELSE Blank]
    /\ UNCHANGED above

Clear == screen' = [y \in Rows |-> Blank] /\ above' = <<>>

Next == \/ Put \/ Feed \/ Clear
        \/ \E back \in 0 .. Len(above) :
              back \in {0} \cup 0 .. (Len(above) - Height) /\ Overwrite(back)

Spec == Init /\ [][Next]_<<screen, above>>
=============================================================================
