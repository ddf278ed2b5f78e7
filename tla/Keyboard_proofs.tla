--------------------------- MODULE Keyboard_proofs ---------------------------
(***************************************************************************)
(* Proofs about the keyboard driver, for every size of the ring and of the *)
(* line and for every keyboard.                                            *)
(***************************************************************************)
EXTENDS Keyboard, TLAPS

-----------------------------------------------------------------------------
(***************************************************************************)
(* The modifiers.  ModifiersHeld is inductive by itself.                   *)
(***************************************************************************)

\* A pair is not the empty sequence: the keyboard owes a byte after an E0.
LEMMA PairNotEmpty == \A a, b : <<a, b>> # <<>>
OBVIOUS

\* A byte without a prefix sets or clears the flag of its own key only; the
\* byte behind an E0 sets none (PS2KB.c:173-237).
LEMMA CodeModifiers ==
    ASSUME ModifiersHeld, NEW code, NEW pressed \in BOOLEAN,
           HandleCode(code, pressed)
    PROVE  \/ /\ e0_prefix /\ ~e0_prefix'
              /\ UNCHANGED <<shiftPressed, ctrlPressed, altPressed>>
           \/ /\ ~e0_prefix /\ code \in Modifiers /\ Modifier(code, pressed)
           \/ /\ ~e0_prefix /\ code \notin Modifiers /\ UNCHANGED modifiers
BY DEF HandleCode, Extended, Type, modifiers

\* A key that is pressed is held from then on.
LEMMA PressModifiers ==
    ASSUME ModifiersHeld, NEW code, Press(code)
    PROVE  ModifiersHeld'
<1>1. owed = <<>> /\ owed' = owed /\ HandleCode(code, TRUE)
      BY DEF Press
<1>2. ~e0_prefix BY <1>1 DEF ModifiersHeld
<1>3. CASE code \in Modifiers /\ Modifier(code, TRUE)
  <2>1. down' = down \cup {code} BY <1>3 DEF Press
  <2> QED BY <1>1, <1>2, <1>3, <2>1 DEF ModifiersHeld, Modifier, Modifiers, Shifts
<1>4. CASE code \notin Modifiers /\ UNCHANGED modifiers
  <2>1. down' = down BY <1>4 DEF Press
  <2> QED BY <1>1, <1>4, <2>1 DEF ModifiersHeld, modifiers
<1> QED BY <1>1, <1>2, <1>3, <1>4, CodeModifiers

\* Releasing one shift key clears the flag, whether or not the other is held.
LEMMA ReleaseModifiers ==
    ASSUME ModifiersHeld, NEW code, Release(code)
    PROVE  ModifiersHeld'
<1>1. /\ owed = <<>> /\ owed' = owed /\ HandleCode(code, FALSE)
      /\ down' = down \ {code}
      BY DEF Release
<1>2. ~e0_prefix BY <1>1 DEF ModifiersHeld
<1>3. CASE code \in Modifiers /\ Modifier(code, FALSE)
  BY <1>1, <1>2, <1>3 DEF ModifiersHeld, Modifier, Modifiers, Shifts
<1>4. CASE code \notin Modifiers /\ UNCHANGED modifiers
  BY <1>1, <1>4 DEF ModifiersHeld, modifiers, Modifiers, Shifts
<1> QED BY <1>1, <1>2, <1>3, <1>4, CodeModifiers

\* Every step keeps the driver's modifiers the keyboard's.
LEMMA NextModifiers == ModifiersHeld /\ [Next]_vars => ModifiersHeld'
<1> SUFFICES ASSUME ModifiersHeld, [Next]_vars PROVE ModifiersHeld' OBVIOUS
<1>1. ASSUME Reader PROVE ModifiersHeld'
  <2>1. UNCHANGED <<modifiers, keyboard>>
        BY <1>1 DEF Reader, Go, Test, Hlt, Take, Load, Store, Edit
  <2> QED BY <2>1 DEF ModifiersHeld, modifiers, keyboard
<1>2. ASSUME NEW code, Press(code) PROVE ModifiersHeld'
  BY <1>2, PressModifiers
<1>3. ASSUME NEW code, Release(code) PROVE ModifiersHeld'
  BY <1>3, ReleaseModifiers
<1>4. ASSUME NEW code, NEW pressed, Prefix(code, pressed) PROVE ModifiersHeld'
  <2>1. /\ e0_prefix' /\ owed' = <<code, pressed>> /\ down' = down
        /\ UNCHANGED <<shiftPressed, ctrlPressed, altPressed>>
        BY <1>4 DEF Prefix, HandleE0
  <2> QED BY <2>1, PairNotEmpty DEF ModifiersHeld
<1>5. ASSUME Second PROVE ModifiersHeld'
  <2>1. owed # <<>> /\ owed' = <<>> /\ down' = down BY <1>5 DEF Second
  <2>2. e0_prefix BY <2>1 DEF ModifiersHeld
  <2>3. ~e0_prefix' /\ UNCHANGED <<shiftPressed, ctrlPressed, altPressed>>
        BY <1>5, <2>2 DEF Second, HandleCode, Extended
  <2> QED BY <2>1, <2>3 DEF ModifiersHeld
<1>6. CASE UNCHANGED vars
  BY <1>6 DEF ModifiersHeld, vars, modifiers, keyboard
<1> QED BY <1>1, <1>2, <1>3, <1>4, <1>5, <1>6 DEF Next

(***************************************************************************)
(* The driver never takes a modifier for pressed that no key of the        *)
(* keyboard holds, and never one for released that the only key holds      *)
(* (shift aside), extended keys between them or not (PS2KB.c:160-238).     *)
(***************************************************************************)
THEOREM ModifiersCorrect == Spec => []ModifiersHeld
<1>1. Init => ModifiersHeld BY DEF Init, ModifiersHeld
<1> QED BY <1>1, NextModifiers, PTL DEF Spec

-----------------------------------------------------------------------------
(***************************************************************************)
(* The count.  TypeOK and CountExact are inductive together with what the  *)
(* reader knows on its way through PS2_KB_GETC (Knows).                    *)
(***************************************************************************)

\* Behind the test there is a character in the count, and what was loaded is
\* the count unless it has been split since.
Knows ==
    /\ pc \in {"take", "load"} => bufferCount >= 1
    /\ pc = "store" => loaded >= 1
    /\ pc = "store" /\ ~overrun => loaded <= Held
    /\ pc = "store" /\ ~split => loaded = bufferCount

Types == TypeOK /\ line \in Seq(Printable) /\ unread \in Seq(Characters)

IInv == Types /\ Knows /\ CountExact

\* What the tables give is a character (PS2KB.c:18-39).
LEMMA MapCharacter ==
    ASSUME NEW code, NEW shift \in BOOLEAN
    PROVE  Map(code, shift) \in Characters
BY DEF Map, Characters, Printable, LF, BS, HT, NUL

\* KB_PUTC keeps the invariant wherever the reader is (PS2KB.c:134-140).
LEMMA PutInvariant ==
    ASSUME IInv, NEW ch \in Characters, KB_PUTC(ch), Wake,
           UNCHANGED <<modifiers, view>>, down' \subseteq Modifiers
    PROVE  IInv'
<1> USE KeyboardAssumption
<1>1. /\ bufferCount \in 0 .. KB_BUFFER_SIZE /\ loaded \in 0 .. KB_BUFFER_SIZE
      /\ bufferEnd \in Slots /\ unread \in Seq(Characters)
      /\ Len(unread) \in Nat
      BY DEF IInv, Types, TypeOK
<1>2. /\ pc' \in {"wait", "hlt", "halted", "take", "load", "store", "edit"}
      /\ \A p \in {"take", "load", "store"} : pc' = p <=> pc = p
      /\ UNCHANGED <<c, loaded, line, shown>>
      BY DEF Wake, IInv, Types, TypeOK
<1>3. CASE /\ Put(ch) /\ split' = (split \/ pc = "store")
           /\ UNCHANGED bufferStart
           /\ IF Len(unread) < KB_BUFFER_SIZE
              THEN unread' = Append(unread, ch) /\ UNCHANGED overrun
              ELSE overrun' = TRUE /\ UNCHANGED unread
  <2>1. /\ bufferCount' = bufferCount + 1 /\ bufferCount < KB_BUFFER_SIZE
        /\ bufferEnd' \in Slots /\ KB_BUFFER' \in [Slots -> Characters]
        BY <1>1, <1>3 DEF Put, Slots, IInv, Types, TypeOK
  <2>4. ~split' => ~split /\ pc # "store" BY <1>3, Zenon
  <2>2. CASE Len(unread) < KB_BUFFER_SIZE
    <3>1. /\ unread' = Append(unread, ch) /\ (overrun' <=> overrun)
          BY <1>3, <2>2
    <3>2. unread' \in Seq(Characters) /\ Len(unread') = Len(unread) + 1
          BY <1>1, <3>1
    <3>3. Held \in Nat /\ Held' = Held + 1 BY <1>1, <1>2, <3>2 DEF Held
    <3>4. Types' BY <1>1, <1>2, <1>3, <2>1, <3>1, <3>2
                 DEF IInv, Types, TypeOK, modifiers
    <3>5. Knows' BY <1>1, <1>2, <2>1, <2>4, <3>1, <3>3 DEF IInv, Knows
    <3>6. CountExact' BY <1>1, <2>1, <2>4, <3>1, <3>3 DEF IInv, CountExact
    <3> QED BY <3>4, <3>5, <3>6 DEF IInv
  <2>3. CASE ~(Len(unread) < KB_BUFFER_SIZE)
    <3>1. unread' = unread /\ overrun' BY <1>3, <2>3
    <3>2. Held \in Nat /\ Held >= KB_BUFFER_SIZE BY <1>1, <2>3 DEF Held
    <3>3. split BY <1>1, <2>1, <3>2 DEF IInv, CountExact
    <3>4. Types' BY <1>1, <1>2, <1>3, <2>1, <3>1
                 DEF IInv, Types, TypeOK, modifiers
    <3>5. split' BY <1>3, <3>3, Zenon
    <3>6. Knows' BY <1>1, <1>2, <2>1, <3>1, <3>5 DEF IInv, Knows
    <3>7. CountExact' BY <3>1, <3>5 DEF CountExact
    <3> QED BY <3>4, <3>6, <3>7 DEF IInv
  <2> QED BY <2>2, <2>3
<1>4. CASE UNCHANGED <<ring, ghosts>>
  <2>1. Held' = Held BY <1>2, <1>4 DEF Held, ghosts
  <2>2. Types' BY <1>2, <1>4 DEF IInv, Types, TypeOK, ring, ghosts, modifiers
  <2>3. Knows' BY <1>2, <1>4, <2>1 DEF IInv, Knows, ring, ghosts
  <2>4. CountExact' BY <1>4, <2>1 DEF IInv, CountExact, ring, ghosts
  <2> QED BY <2>2, <2>3, <2>4 DEF IInv
<1> QED BY <1>3, <1>4 DEF KB_PUTC

\* A step that leaves the ring alone, the reader too but for its waking up.
LEMMA IdleInvariant ==
    ASSUME IInv, UNCHANGED <<ring, ghosts>>, Wake,
           {e0_prefix, shiftPressed, ctrlPressed, altPressed}' \subseteq BOOLEAN,
           view' \in {"none", "up", "down", "oldest", "newest"},
           down' \subseteq Modifiers
    PROVE  IInv'
<1>1. /\ pc' \in {"wait", "hlt", "halted", "take", "load", "store", "edit"}
      /\ \A p \in {"take", "load", "store"} : pc' = p <=> pc = p
      /\ UNCHANGED <<c, loaded, line, shown>>
      BY DEF Wake, IInv, Types, TypeOK
<1>2. Held' = Held BY <1>1 DEF Held, ghosts
<1>3. Types' BY <1>1 DEF IInv, Types, TypeOK, ring, ghosts
<1>4. Knows' BY <1>1, <1>2 DEF IInv, Knows, ring, ghosts
<1>5. CountExact' BY <1>2 DEF IInv, CountExact, ring, ghosts
<1> QED BY <1>3, <1>4, <1>5 DEF IInv

\* PS2_KB_HANDLER for a byte that is a code (PS2KB.c:173-237).
LEMMA CodeInvariant ==
    ASSUME IInv, NEW code, NEW pressed \in BOOLEAN,
           HandleCode(code, pressed), Wake, down' \subseteq Modifiers
    PROVE  IInv'
<1>1. /\ {e0_prefix, shiftPressed, ctrlPressed, altPressed} \subseteq BOOLEAN
      /\ view \in {"none", "up", "down", "oldest", "newest"}
      BY DEF IInv, Types, TypeOK
<1>2. CASE Extended(code, pressed) /\ UNCHANGED <<ring, ghosts>>
  <2>1. view' \in {"none", "up", "down", "oldest", "newest"}
        BY <1>1, <1>2 DEF Extended
  <2>2. {e0_prefix, shiftPressed, ctrlPressed, altPressed}' \subseteq BOOLEAN
        BY <1>1, <1>2 DEF Extended
  <2> QED BY <1>2, <2>1, <2>2, IdleInvariant
<1>3. CASE Modifier(code, pressed) /\ UNCHANGED <<ring, ghosts>>
  <2>1. {e0_prefix, shiftPressed, ctrlPressed, altPressed}' \subseteq BOOLEAN
        BY <1>1, <1>3 DEF Modifier
  <2>2. view' = view BY <1>3 DEF Modifier
  <2> QED BY <1>1, <1>3, <2>1, <2>2, IdleInvariant
<1>4. ASSUME UNCHANGED <<modifiers, view, ring, ghosts>> PROVE IInv'
  BY <1>1, <1>4, IdleInvariant DEF modifiers
<1>5. CASE Type(code)
  <2>1. Map(code, shiftPressed) \in Characters BY <1>1, MapCharacter
  <2> QED BY <1>4, <1>5, <2>1, PutInvariant DEF Type
<1> QED BY <1>2, <1>3, <1>4, <1>5 DEF HandleCode

-----------------------------------------------------------------------------
(***************************************************************************)
(* The steps of the reader.                                                *)
(***************************************************************************)

\* Everything a step of the reader leaves alone.
LEMMA GoFacts ==
    ASSUME IInv, NEW from, NEW to, Go(from, to)
    PROVE  /\ UNCHANGED <<e0_prefix, shiftPressed, ctrlPressed, altPressed,
                          view, down>>
           /\ split' = split /\ overrun' = overrun /\ pc = from /\ pc' = to
BY DEF Go, modifiers, keyboard

\* PS2_KB_GETC, from its test to the hlt (PS2KB.c:143-145).
LEMMA TestInvariant == ASSUME IInv, Test \/ Hlt PROVE IInv'
<1>1. /\ UNCHANGED <<ring, c, loaded, line, shown, unread>>
      /\ UNCHANGED <<e0_prefix, shiftPressed, ctrlPressed, altPressed, view,
                     down, split, overrun>>
      /\ pc \in {"wait", "hlt"} /\ pc' \in {"hlt", "halted", "take"}
      /\ pc' = "take" => bufferCount # 0
      BY DEF Test, Hlt, Go, modifiers, keyboard
<1>2. Held' = Held BY <1>1 DEF Held
<1>3. Types' BY <1>1 DEF IInv, Types, TypeOK, ring
<1>4. bufferCount \in Nat BY DEF IInv, Types, TypeOK
<1>5. Knows' BY <1>1, <1>4 DEF Knows, ring
<1>6. CountExact' BY <1>1, <1>2 DEF IInv, CountExact, ring
<1> QED BY <1>3, <1>5, <1>6 DEF IInv

\* The character leaves the ring; the count still has it (PS2KB.c:147-148).
LEMMA TakeInvariant == ASSUME IInv, Take PROVE IInv'
<1> USE KeyboardAssumption
<1>1. /\ UNCHANGED <<KB_BUFFER, bufferEnd, bufferCount, loaded, line, shown>>
      /\ UNCHANGED <<e0_prefix, shiftPressed, ctrlPressed, altPressed, view,
                     down, split, overrun>>
      /\ pc = "take" /\ pc' = "load"
      BY DEF Take, Go, modifiers, keyboard
<1>2. /\ c' = Character /\ bufferStart' = (bufferStart + 1) % KB_BUFFER_SIZE
      /\ unread' = IF unread = <<>> THEN <<>> ELSE Tail(unread)
      BY DEF Take
<1>3. /\ unread \in Seq(Characters) /\ bufferCount \in Nat /\ bufferCount >= 1
      /\ bufferStart \in Slots /\ KB_BUFFER \in [Slots -> Characters]
      /\ Len(unread) \in Nat /\ Held = Len(unread)
      BY <1>1 DEF IInv, Types, TypeOK, Knows, Held
<1>4. c' \in Characters /\ bufferStart' \in Slots
      BY <1>2, <1>3 DEF Character, Slots
<1>5. unread' \in Seq(Characters) BY <1>2, <1>3
<1>6. unread # <<>> => Held' = Held
  <2>1. unread # <<>> => Len(unread') = Len(unread) - 1 BY <1>2, <1>3
  <2>2. Held' = Len(unread') + 1 BY <1>1 DEF Held
  <2> QED BY <1>3, <2>1, <2>2
<1>7. ~overrun => unread # <<>> BY <1>3 DEF IInv, CountExact
<1>8. Types' BY <1>1, <1>4, <1>5 DEF IInv, Types, TypeOK
<1>9. Knows' BY <1>1, <1>3 DEF Knows
<1>10. CountExact' BY <1>1, <1>6, <1>7 DEF IInv, CountExact
<1> QED BY <1>8, <1>9, <1>10 DEF IInv

\* The first half of bufferCount-- (PS2KB.c:149).
LEMMA LoadInvariant == ASSUME IInv, Load PROVE IInv'
<1>1. /\ UNCHANGED <<ring, c, line, shown, unread>>
      /\ UNCHANGED <<e0_prefix, shiftPressed, ctrlPressed, altPressed, view,
                     down, split, overrun>>
      /\ pc = "load" /\ pc' = "store" /\ loaded' = bufferCount
      BY DEF Load, Go, modifiers, keyboard
<1>2. Held' = Held BY <1>1 DEF Held
<1>3. Types' BY <1>1 DEF IInv, Types, TypeOK, ring
<1>4. Knows' BY <1>1, <1>2 DEF IInv, Knows, CountExact, ring
<1>5. CountExact' BY <1>1, <1>2 DEF IInv, CountExact, ring
<1> QED BY <1>3, <1>4, <1>5 DEF IInv

\* The second half: what came in between is lost to the count, which
\* therefore can only be too low (PS2KB.c:149).
LEMMA StoreInvariant == ASSUME IInv, Store PROVE IInv'
<1>1. /\ UNCHANGED <<KB_BUFFER, bufferStart, bufferEnd, c, line, shown, unread>>
      /\ UNCHANGED <<e0_prefix, shiftPressed, ctrlPressed, altPressed, view,
                     down, split, overrun>>
      /\ pc = "store" /\ pc' = "edit"
      /\ bufferCount' = loaded - 1 /\ loaded' = 0
      BY DEF Store, Go, modifiers, keyboard, Decremented
<1>2. /\ loaded \in 1 .. KB_BUFFER_SIZE /\ KB_BUFFER_SIZE \in Nat
      /\ Len(unread) \in Nat
      BY <1>1, KeyboardAssumption DEF IInv, Types, TypeOK, Knows
<1>3. Held = Len(unread) + 1 /\ Held' = Len(unread) BY <1>1 DEF Held
<1>4. Types' BY <1>1, <1>2 DEF IInv, Types, TypeOK
<1>5. Knows' BY <1>1 DEF Knows
<1>6. CountExact' BY <1>1, <1>2, <1>3 DEF IInv, Knows, CountExact
<1> QED BY <1>4, <1>5, <1>6 DEF IInv

\* PS2_KB_READ_LN's switch: the line stays within its bounds
\* (PS2KB.c:247-269).
LEMMA EditInvariant == ASSUME IInv, Edit PROVE IInv'
<1>1. /\ UNCHANGED <<ring, loaded, unread>>
      /\ UNCHANGED <<e0_prefix, shiftPressed, ctrlPressed, altPressed, view,
                     down, split, overrun>>
      /\ pc = "edit" /\ pc' = "wait" /\ c' = NUL
      BY DEF Edit, Go, modifiers, keyboard
<1>2. line \in Seq(Printable) /\ Len(line) \in Nat /\ Len(line) < INPUT_KB_BUFFER
      BY DEF IInv, Types, TypeOK
<1>3. line' \in Seq(Printable) /\ Len(line') < INPUT_KB_BUFFER
  <2>1. CASE line' = <<>> BY <2>1, KeyboardAssumption
  <2>2. CASE line # <<>> /\ line' = Front(line)
    BY <1>2, <2>2, KeyboardAssumption DEF Front
  <2>3. CASE c \in Printable /\ Fits /\ line' = Append(line, c)
    BY <1>2, <2>3, KeyboardAssumption DEF Fits
  <2>4. CASE line' = line BY <1>2, <2>4
  <2> QED BY <2>1, <2>2, <2>3, <2>4 DEF Edit, Begun
<1>4. \A i \in DOMAIN line' : line'[i] \in Printable BY <1>3
<1>5. Held' = Held BY <1>1 DEF Held
<1>6. NUL \in Characters BY DEF Characters
<1>7. Types' BY <1>1, <1>3, <1>4, <1>6 DEF IInv, Types, TypeOK, ring
<1>8. Knows' BY <1>1 DEF Knows
<1>9. CountExact' BY <1>1, <1>5 DEF IInv, CountExact, ring
<1> QED BY <1>7, <1>8, <1>9 DEF IInv

-----------------------------------------------------------------------------
(***************************************************************************)
(* The invariant holds at the start and is kept by every step.             *)
(***************************************************************************)
LEMMA InitIInv == Init => IInv
<1> SUFFICES ASSUME Init PROVE IInv OBVIOUS
<1> USE KeyboardAssumption DEF Init
<1>1. 0 \in Slots BY DEF Slots
<1>2. NUL \in Characters BY DEF Characters
<1>3. line \in Seq(Printable) /\ unread \in Seq(Characters) /\ Len(line) = 0
      /\ Len(unread) = 0 /\ DOMAIN line = {}
      OBVIOUS
<1>4. Types
  <2>1. KB_BUFFER \in [Slots -> Characters] BY <1>2
  <2>2. {e0_prefix, shiftPressed, ctrlPressed, altPressed, split, overrun}
           \subseteq BOOLEAN
        OBVIOUS
  <2>3. bufferCount \in 0 .. KB_BUFFER_SIZE /\ loaded \in 0 .. KB_BUFFER_SIZE
        OBVIOUS
  <2>4. Len(line) < INPUT_KB_BUFFER BY <1>3
  <2> QED BY <1>1, <1>2, <1>3, <2>1, <2>2, <2>3, <2>4 DEF Types, TypeOK
<1>5. Held = 0 BY <1>3 DEF Held
<1> QED BY <1>4, <1>5 DEF IInv, Knows, CountExact

LEMMA NextIInv == IInv /\ ModifiersHeld /\ [Next]_vars => IInv'
<1> SUFFICES ASSUME IInv, ModifiersHeld, [Next]_vars PROVE IInv' OBVIOUS
<1>1. down \subseteq Modifiers BY DEF IInv, Types, TypeOK
<1>2. ASSUME Reader PROVE IInv'
  BY <1>2, TestInvariant, TakeInvariant, LoadInvariant, StoreInvariant,
     EditInvariant DEF Reader
<1>3. ASSUME NEW code, Press(code) PROVE IInv'
  <2>1. down' \subseteq Modifiers BY <1>1, <1>3 DEF Press
  <2> QED BY <1>3, <2>1, CodeInvariant DEF Press
<1>4. ASSUME NEW code, Release(code) PROVE IInv'
  <2>1. down' \subseteq Modifiers BY <1>1, <1>4 DEF Release
  <2> QED BY <1>4, <2>1, CodeInvariant DEF Release
<1>5. ASSUME NEW code, NEW pressed, Prefix(code, pressed) PROVE IInv'
  <2>1. /\ e0_prefix' = TRUE /\ down' = down /\ Wake
        /\ UNCHANGED <<shiftPressed, ctrlPressed, altPressed, view>>
        /\ UNCHANGED <<ring, ghosts>>
        BY <1>5 DEF Prefix, HandleE0
  <2>2. /\ {e0_prefix, shiftPressed, ctrlPressed, altPressed}' \subseteq BOOLEAN
        /\ view' \in {"none", "up", "down", "oldest", "newest"}
        BY <2>1 DEF IInv, Types, TypeOK
  <2> QED BY <1>1, <2>1, <2>2, IdleInvariant
\* The byte behind an E0 finds the prefix set, and types nothing.
<1>6. ASSUME Second PROVE IInv'
  <2>1. e0_prefix BY <1>6 DEF Second, ModifiersHeld
  <2>2. /\ Extended(owed[1], owed[2]) /\ UNCHANGED <<ring, ghosts>>
        /\ Wake /\ down' = down
        BY <1>6, <2>1 DEF Second, HandleCode
  <2>3. view' \in {"none", "up", "down", "oldest", "newest"}
        BY <2>2 DEF Extended, IInv, Types, TypeOK
  <2>4. {e0_prefix, shiftPressed, ctrlPressed, altPressed}' \subseteq BOOLEAN
        BY <2>2 DEF Extended, IInv, Types, TypeOK
  <2> QED BY <1>1, <2>2, <2>3, <2>4, IdleInvariant
<1>7. CASE UNCHANGED vars
  <2>1. Held' = Held BY <1>7 DEF Held, vars, ghosts, reader
  <2> QED BY <1>7, <2>1 DEF IInv, Types, TypeOK, Knows, CountExact, vars,
             modifiers, ring, reader, keyboard, ghosts
<1> QED BY <1>2, <1>3, <1>4, <1>5, <1>6, <1>7 DEF Next

\* The three parts of the invariant, always.
LEMMA Invariant == Spec => []IInv
BY InitIInv, NextIInv, ModifiersCorrect, PTL DEF Spec

(***************************************************************************)
(* The indices stay in the ring, the count between 0 and its size, and the *)
(* line in input_buffer with room for its newline, wherever an interrupt   *)
(* comes.                                                                  *)
(***************************************************************************)
THEOREM TypeCorrect == Spec => []TypeOK
<1>1. IInv => TypeOK BY DEF IInv, Types
<1> QED BY <1>1, Invariant, PTL

(***************************************************************************)
(* bufferCount is exact until an interrupt splits its decrement, never too *)
(* high before the ring is overrun, and the ring is not overrun before.    *)
(***************************************************************************)
THEOREM CountCorrect == Spec => []CountExact
<1>1. IInv => CountExact BY DEF IInv
<1> QED BY <1>1, Invariant, PTL

-----------------------------------------------------------------------------
(***************************************************************************)
(* The order.  Until the ring is overrun, the characters nobody has read   *)
(* lie in it from bufferStart to bufferEnd, oldest first.                  *)
(***************************************************************************)
Slot(i) == (bufferStart + i - 1) % KB_BUFFER_SIZE

Queue == /\ Len(unread) <= KB_BUFFER_SIZE
         /\ bufferEnd = (bufferStart + Len(unread)) % KB_BUFFER_SIZE
         /\ \A i \in 1 .. Len(unread) : KB_BUFFER[Slot(i)] = unread[i]

InRing == ~overrun => Queue

\* What the index arithmetic of the ring does: it goes round at most once.
Wrap(x) == IF x < KB_BUFFER_SIZE THEN x ELSE x - KB_BUFFER_SIZE

LEMMA Round ==
    \A x \in Int : 0 <= x /\ x < 2 * KB_BUFFER_SIZE
                      => x % KB_BUFFER_SIZE = Wrap(x)
<1> DEFINE N == KB_BUFFER_SIZE
<1> SUFFICES ASSUME NEW x \in Int, 0 <= x, x < 2 * N PROVE x % N = Wrap(x)
    OBVIOUS
<1>1. N \in Nat /\ N >= 2 BY KeyboardAssumption
<1>2. CASE x < N BY <1>1, <1>2 DEF Wrap
<1>3. CASE ~(x < N)
  <2>1. x - N \in 0 .. (N - 1) BY <1>1, <1>3
  <2>2. (x - N) % N = x - N BY <1>1, <2>1
  <2>3. x % N = (x - N) % N BY <1>1, <1>3
  <2> QED BY <1>3, <2>2, <2>3 DEF Wrap
<1> QED BY <1>2, <1>3

\* Slots along the ring: the next index, and the slot behind b + n.
LEMMA NextSlot ==
    ASSUME NEW b \in Slots, NEW n \in 0 .. KB_BUFFER_SIZE
    PROVE  /\ n < KB_BUFFER_SIZE
                 => (((b + n) % KB_BUFFER_SIZE) + 1) % KB_BUFFER_SIZE
                       = (b + n + 1) % KB_BUFFER_SIZE
           /\ n >= 1 => (((b + 1) % KB_BUFFER_SIZE) + (n - 1)) % KB_BUFFER_SIZE
                           = (b + n) % KB_BUFFER_SIZE
           /\ (b + n) % KB_BUFFER_SIZE \in Slots
<1> DEFINE N == KB_BUFFER_SIZE
<1>1. N \in Nat /\ N >= 2 /\ b \in 0 .. (N - 1)
      BY KeyboardAssumption DEF Slots
<1>2. (b + n) % N = Wrap(b + n) BY <1>1, Round
<1>3. (b + 1) % N = Wrap(b + 1) BY <1>1, Round
<1>4. Wrap(b + n) \in 0 .. (N - 1) /\ Wrap(b + 1) \in 0 .. (N - 1)
      BY <1>1 DEF Wrap
<1>5. ASSUME n < N PROVE (Wrap(b + n) + 1) % N = (b + n + 1) % N
  <2>1. (Wrap(b + n) + 1) % N = Wrap(Wrap(b + n) + 1) BY <1>1, <1>4, Round
  <2>2. (b + n + 1) % N = Wrap(b + n + 1) BY <1>1, <1>5, Round
  <2>3. Wrap(Wrap(b + n) + 1) = Wrap(b + n + 1) BY <1>1, <1>5 DEF Wrap
  <2> QED BY <2>1, <2>2, <2>3
<1>6. ASSUME n >= 1 PROVE (Wrap(b + 1) + (n - 1)) % N = (b + n) % N
  <2>1. (Wrap(b + 1) + (n - 1)) % N = Wrap(Wrap(b + 1) + (n - 1))
        BY <1>1, <1>4, <1>6, Round
  <2>2. Wrap(Wrap(b + 1) + (n - 1)) = Wrap(b + n) BY <1>1, <1>6 DEF Wrap
  <2> QED BY <1>2, <2>1, <2>2
<1> QED BY <1>2, <1>3, <1>4, <1>5, <1>6 DEF Slots

\* Fewer steps than the ring has slots do not lead back to the same slot.
LEMMA SlotsDiffer ==
    ASSUME NEW b \in Slots, NEW n \in 0 .. (KB_BUFFER_SIZE - 1),
           NEW m \in 0 .. (n - 1)
    PROVE  (b + m) % KB_BUFFER_SIZE # (b + n) % KB_BUFFER_SIZE
<1>1. KB_BUFFER_SIZE \in Nat /\ b \in 0 .. (KB_BUFFER_SIZE - 1)
      BY KeyboardAssumption DEF Slots
<1>2. (b + n) % KB_BUFFER_SIZE = Wrap(b + n) BY <1>1, Round
<1>3. (b + m) % KB_BUFFER_SIZE = Wrap(b + m) BY <1>1, Round
<1>4. Wrap(b + m) # Wrap(b + n) BY <1>1 DEF Wrap
<1> QED BY <1>2, <1>3, <1>4

\* What the invariant says of the ring.
LEMMA RingFacts ==
    ASSUME IInv
    PROVE  /\ KB_BUFFER_SIZE \in Nat /\ KB_BUFFER_SIZE >= 2
           /\ bufferStart \in Slots /\ bufferStart \in Nat
           /\ bufferEnd \in Slots
           /\ unread \in Seq(Characters) /\ Len(unread) \in Nat
           /\ KB_BUFFER \in [Slots -> Characters]
BY KeyboardAssumption DEF IInv, Types, TypeOK, Slots

\* A character goes behind the others and over none of them (PS2KB.c:136).
LEMMA PutQueue ==
    ASSUME IInv, InRing, NEW ch, KB_PUTC(ch)
    PROVE  InRing'
<1> DEFINE N == KB_BUFFER_SIZE
<1> DEFINE n == Len(unread)
<1>1. CASE /\ Put(ch) /\ UNCHANGED bufferStart /\ n < N
           /\ unread' = Append(unread, ch) /\ UNCHANGED overrun
  <2> SUFFICES ASSUME ~overrun, Queue PROVE Queue'
      BY <1>1 DEF InRing
  <2>1. /\ KB_BUFFER' = [KB_BUFFER EXCEPT ![bufferEnd] = ch]
        /\ bufferEnd' = (bufferEnd + 1) % N /\ bufferStart' = bufferStart
        BY <1>1 DEF Put
  <2>2. /\ Len(unread') = n + 1 /\ unread'[n + 1] = ch
        /\ \A i \in 1 .. n : unread'[i] = unread[i]
        BY <1>1, RingFacts
  <2>3. bufferEnd = (bufferStart + n) % N BY DEF Queue
  <2>4. n \in 0 .. (N - 1) BY <1>1, RingFacts
  <2>5. bufferEnd' = (bufferStart' + Len(unread')) % N
    <3>1. (((bufferStart + n) % N) + 1) % N = (bufferStart + n + 1) % N
          BY <1>1, <2>4, RingFacts, NextSlot
    <3>2. bufferStart + n + 1 = bufferStart + (n + 1) BY <2>4, RingFacts
    <3> QED BY <2>1, <2>2, <2>3, <3>1, <3>2
  <2>6. ASSUME NEW i \in 1 .. (n + 1) PROVE KB_BUFFER'[Slot(i)'] = unread'[i]
    <3>1. Slot(i)' = Slot(i) BY <2>1 DEF Slot
    <3>2. CASE i = n + 1
      <4>1. bufferStart + (n + 1) - 1 = bufferStart + n BY <2>4, RingFacts
      <4>2. Slot(i) = bufferEnd BY <2>3, <3>2, <4>1 DEF Slot
      <4> QED BY <2>1, <2>2, <3>1, <3>2, <4>2, RingFacts
    <3>3. CASE i \in 1 .. n
      <4>1. i - 1 \in 0 .. (n - 1) /\ bufferStart + i - 1 = bufferStart + (i - 1)
            BY <2>4, <3>3, RingFacts
      <4>2. Slot(i) # bufferEnd
            BY <2>3, <2>4, <4>1, SlotsDiffer, RingFacts DEF Slot
      <4>3. i - 1 \in 0 .. N BY <2>4, <4>1, RingFacts
      <4>4. Slot(i) \in Slots BY <4>1, <4>3, NextSlot, RingFacts DEF Slot
      <4>5. KB_BUFFER'[Slot(i)] = KB_BUFFER[Slot(i)]
            BY <2>1, <4>2, <4>4, RingFacts
      <4> QED BY <2>2, <3>1, <3>3, <4>5 DEF Queue
    <3> QED BY <2>4, <3>2, <3>3
  <2>7. Len(unread') <= N BY <2>2, <2>4, RingFacts
  <2> QED BY <2>2, <2>5, <2>6, <2>7 DEF Queue
<1>2. CASE overrun' = TRUE BY <1>2 DEF InRing
<1>3. CASE UNCHANGED <<ring, ghosts>>
  BY <1>3 DEF InRing, Queue, Slot, ring, ghosts
<1> QED BY <1>1, <1>2, <1>3 DEF KB_PUTC

\* The oldest leaves from the front (PS2KB.c:147-148).
LEMMA TakeQueue ==
    ASSUME IInv, InRing, Take
    PROVE  /\ InRing'
           /\ ~overrun => unread # <<>> /\ c' = Head(unread)
<1> DEFINE N == KB_BUFFER_SIZE
<1> DEFINE n == Len(unread)
<1>1. /\ UNCHANGED <<KB_BUFFER, bufferEnd, overrun>>
      /\ c' = KB_BUFFER[bufferStart] /\ bufferStart' = (bufferStart + 1) % N
      /\ unread' = IF unread = <<>> THEN <<>> ELSE Tail(unread)
      /\ pc = "take"
      BY DEF Take, Go, Character
<1> SUFFICES ASSUME ~overrun, Queue
             PROVE  Queue' /\ unread # <<>> /\ c' = Head(unread)
    BY <1>1 DEF InRing
<1>2. unread # <<>>
  <2>1. bufferCount \in Nat /\ bufferCount >= 1 /\ Held = n
        BY <1>1, RingFacts DEF IInv, Types, TypeOK, Knows, Held
  <2> QED BY <2>1, RingFacts DEF IInv, CountExact
<1>3. /\ n \in 1 .. N /\ Head(unread) = unread[1] /\ Len(unread') = n - 1
      /\ \A i \in 1 .. (n - 1) : unread'[i] = unread[i + 1]
      BY <1>1, <1>2, RingFacts DEF Queue
<1>4. c' = Head(unread)
  <2>1. bufferStart + 1 - 1 = bufferStart + 0 /\ bufferStart % N = bufferStart
        /\ bufferStart + 0 = bufferStart
    <3>1. /\ bufferStart \in Nat /\ N \in Nat /\ N > 0
          /\ bufferStart < N
          BY RingFacts DEF Slots
    <3>2. bufferStart % N = bufferStart BY ONLY <3>1
    <3> QED BY ONLY <3>1, <3>2
  <2>2. Slot(1) = bufferStart BY <2>1 DEF Slot
  <2> QED BY <1>1, <1>3, <2>2 DEF Queue
<1>5. ASSUME NEW i \in 1 .. n
      PROVE  (bufferStart' + (i - 1)) % N = (bufferStart + i) % N
  <2>1. i \in 0 .. N /\ i >= 1 BY <1>3, RingFacts
  <2> QED BY <1>1, <2>1, NextSlot, RingFacts
<1>6. ASSUME NEW i \in 1 .. (n - 1) PROVE KB_BUFFER'[Slot(i)'] = unread'[i]
  <2>1. bufferStart' \in Slots /\ bufferStart' \in Nat
    <3>1. 1 \in 0 .. N BY RingFacts
    <3>2. bufferStart' \in Slots BY <1>1, <3>1, NextSlot, RingFacts
    <3> QED BY <3>2, RingFacts DEF Slots
  <2>2. /\ i \in 1 .. n /\ i + 1 \in 1 .. n
        /\ bufferStart + (i + 1) - 1 = bufferStart + i
        /\ bufferStart' + i - 1 = bufferStart' + (i - 1)
        BY <1>3, <2>1, RingFacts
  <2>3. Slot(i)' = (bufferStart' + (i - 1)) % N BY <2>2 DEF Slot
  <2>4. Slot(i + 1) = (bufferStart + i) % N BY <2>2 DEF Slot
  <2>5. Slot(i)' = Slot(i + 1) BY <1>5, <2>2, <2>3, <2>4
  <2>6. KB_BUFFER[Slot(i + 1)] = unread[i + 1] BY <2>2 DEF Queue
  <2> QED BY <1>1, <1>3, <2>5, <2>6
<1>7. Queue'
  <2>1. n \in 1 .. n BY <1>3, RingFacts
  <2>2. bufferEnd' = (bufferStart' + (n - 1)) % N
        BY <1>1, <1>5, <2>1 DEF Queue
  <2>3. n - 1 <= N BY <1>3, RingFacts
  <2> QED BY <1>3, <1>6, <2>2, <2>3 DEF Queue
<1> QED BY <1>2, <1>4, <1>7

\* No other step touches the ring.
LEMMA NextQueue ==
    IInv /\ ModifiersHeld /\ InRing /\ [Next]_vars => InRing'
<1> SUFFICES ASSUME IInv, ModifiersHeld, InRing, [Next]_vars PROVE InRing'
    OBVIOUS
<1>1. ASSUME UNCHANGED <<KB_BUFFER, bufferStart, bufferEnd, unread, overrun>>
      PROVE  InRing'
  BY <1>1 DEF InRing, Queue, Slot
<1>2. ASSUME NEW code, NEW pressed, HandleCode(code, pressed) PROVE InRing'
  BY <1>1, <1>2, PutQueue DEF HandleCode, Type, ring, ghosts
<1>3. ASSUME Reader PROVE InRing'
  <2>1. CASE Take BY <2>1, TakeQueue
  <2>2. CASE Test \/ Hlt \/ Load \/ Store \/ Edit
    BY <1>1, <2>2 DEF Test, Hlt, Load, Store, Edit, Go, ring
  <2> QED BY <1>3, <2>1, <2>2 DEF Reader
<1>4. ASSUME NEW code, NEW pressed, Prefix(code, pressed) PROVE InRing'
  BY <1>1, <1>4 DEF Prefix, HandleE0, ring, ghosts
<1>5. CASE UNCHANGED vars BY <1>1, <1>5 DEF vars, ring, ghosts
<1> QED BY <1>2, <1>3, <1>4, <1>5 DEF Next, Press, Release, Second

LEMMA RingInvariant == Spec => []InRing
<1>1. Init => InRing
  <2> SUFFICES ASSUME Init PROVE Queue BY DEF InRing
  <2>1. Len(unread) = 0 /\ bufferStart = 0 /\ bufferEnd = 0 BY DEF Init
  <2>2. 0 % KB_BUFFER_SIZE = 0 BY KeyboardAssumption
  <2> QED BY <2>1, <2>2, KeyboardAssumption DEF Queue
<1> QED BY <1>1, NextQueue, Invariant, ModifiersCorrect, PTL DEF Spec

(***************************************************************************)
(* PS2_KB_GETC takes the characters in the order in which they were typed, *)
(* each once, although its count may have lost some, until the ring is     *)
(* overrun.                                                                *)
(***************************************************************************)
THEOREM OrderCorrect == Spec => InOrder
<1>1. ASSUME IInv, InRing, [Next]_vars
      PROVE  [pc = "take" /\ pc' = "load" /\ ~overrun
                 => unread # <<>> /\ c' = Head(unread)]_vars
  <2> SUFFICES ASSUME pc = "take", pc' = "load", ~overrun
               PROVE  unread # <<>> /\ c' = Head(unread)
      OBVIOUS
  <2>1. Take
    <3>1. ~Wake BY DEF Wake
    <3>2. ~(UNCHANGED vars) BY DEF vars, reader
    <3>3. Next BY <1>1, <3>2
    <3>4. Reader BY <3>1, <3>3 DEF Next, Press, Release, Prefix, Second
    <3> QED BY <3>4 DEF Reader, Test, Hlt, Load, Store, Edit, Go
  <2> QED BY <2>1, <1>1, TakeQueue
<1> QED BY <1>1, Invariant, RingInvariant, PTL DEF Spec, InOrder

-----------------------------------------------------------------------------
(***************************************************************************)
(* The line on the screen.  What PS2_KB_READ_LN prints for a backspace     *)
(* takes exactly the last character away.                                  *)
(***************************************************************************)

\* No character of a line is a backspace, and the blank printed over one
\* that is rubbed out is none.
LEMMA NoBackspace == BS # BLANK /\ \A ch \in Printable : ch # BS
<1>1. <<"BKSP">>[1] = "BKSP" /\ <<" ">>[1] = " " OBVIOUS
<1>2. BS # BLANK BY <1>1 DEF BS, BLANK
<1>3. ASSUME NEW ch \in Printable PROVE ch # BS
  <2>1. PICK l \in Letters, b \in BOOLEAN : ch = <<l, b>>
        BY DEF Printable
  <2>2. Len(ch) = 2 BY <2>1
  <2>3. Len(BS) = 1 BY DEF BS
  <2> QED BY <2>2, <2>3
<1> QED BY <1>2, <1>3

\* Behind a line: back, a blank, and back again (PS2KB.c:255-257).
LEMMA EraseFront ==
    ASSUME NEW S, NEW text \in Seq(S), text # <<>>
    PROVE  Erase(text) = Front(text)
<1> DEFINE short == Front(text)
           back == Append(short, BLANK)
<1>1. short \in Seq(S) /\ Len(short) \in Nat BY DEF Front
<1>2. vga_char(text, BS) = short BY DEF vga_char
<1> HIDE DEF short
<1>3. vga_char(short, BLANK) = back BY NoBackspace DEF vga_char
<1>4. /\ back \in Seq(S \cup {BLANK}) /\ Len(back) = Len(short) + 1
      /\ \A i \in 1 .. Len(short) : back[i] = short[i]
      BY <1>1
<1>5. vga_char(back, BS) = Front(back)
  <2>1. back # <<>> BY <1>1, <1>4
  <2> QED BY <2>1 DEF vga_char
<1>6. Front(back) = short
  <2>1. Front(back) \in Seq(S \cup {BLANK}) /\ Len(Front(back)) = Len(short)
        BY <1>1, <1>4 DEF Front
  <2>2. \A i \in 1 .. Len(short) : Front(back)[i] = short[i]
        BY <1>1, <1>4 DEF Front
  <2>3. short \in Seq(S \cup {BLANK}) BY <1>1
  <2> QED BY <1>1, <2>1, <2>2, <2>3
<1> QED BY <1>2, <1>3, <1>5, <1>6 DEF Erase, short

LEMMA FrontIs ==
    ASSUME NEW S, NEW text \in Seq(S), Len(text) > 0
    PROVE  /\ Front(text) \in Seq(S) /\ Len(Front(text)) = Len(text) - 1
           /\ \A i \in 1 .. (Len(text) - 1) : Front(text)[i] = text[i]
BY DEF Front

\* A line behind what stands in front of it.
LEMMA Behind ==
    ASSUME NEW S, NEW text \in Seq(S), NEW x, NEW ch
    PROVE  /\ <<x>> \o text \in Seq(S \cup {x}) /\ <<x>> \o text # <<>>
           /\ <<x>> \o Append(text, ch) = Append(<<x>> \o text, ch)
           /\ text # <<>> => Front(<<x>> \o text) = <<x>> \o Front(text)
<1> DEFINE T == S \cup {x, ch}
           row == <<x>> \o text
<1>1. /\ <<x>> \in Seq(S \cup {x}) /\ text \in Seq(S \cup {x})
      /\ Len(text) \in Nat /\ x \in S \cup {x}
      OBVIOUS
<1>2. /\ row \in Seq(S \cup {x}) /\ Len(row) = Len(text) + 1
      /\ row[1] = x /\ \A i \in 1 .. Len(text) : row[i + 1] = text[i]
      BY <1>1
<1>3. <<x>> \o Append(text, ch) = Append(row, ch)
  <2> DEFINE a == <<x>> \o Append(text, ch)
             b == Append(row, ch)
  <2>1. Append(text, ch) \in Seq(T) /\ <<x>> \in Seq(T) /\ row \in Seq(T)
        BY <1>1, <1>2
  <2>2. a \in Seq(T) /\ b \in Seq(T) BY <2>1
  <2>3. Len(a) = Len(text) + 2 /\ Len(b) = Len(text) + 2 BY <1>1, <1>2, <2>1
  <2>4. ASSUME NEW i \in 1 .. (Len(text) + 2) PROVE a[i] = b[i]
        BY <1>1, <1>2, <2>1, <2>4
  <2> HIDE DEF a, b
  <2>5. a = b BY <1>1, <2>2, <2>3, <2>4
  <2> QED BY <2>5 DEF a, b
<1>4. ASSUME text # <<>> PROVE Front(row) = <<x>> \o Front(text)
  <2> DEFINE a == Front(row)
             b == <<x>> \o Front(text)
  <2>1. Len(text) > 0 BY <1>1, <1>4
  <2>2. Front(text) \in Seq(S) /\ Len(Front(text)) = Len(text) - 1
        /\ \A i \in 1 .. (Len(text) - 1) : Front(text)[i] = text[i]
        BY <1>1, <2>1, FrontIs
  <2>3. a \in Seq(S \cup {x}) /\ Len(a) = Len(text)
        /\ \A i \in 1 .. Len(text) : a[i] = row[i]
    <3> DEFINE n == Len(text)
               R == S \cup {x}
    <3>1. n \in Nat /\ n > 0 /\ row \in Seq(R) /\ Len(row) = n + 1
          BY <1>1, <1>2, <2>1
    <3> HIDE DEF n, R, row
    <3>2. /\ Front(row) \in Seq(R) /\ Len(Front(row)) = n
          /\ \A i \in 1 .. n : Front(row)[i] = row[i]
          BY <3>1, FrontIs
    <3> QED BY <3>2 DEF n, R
  <2>4. b \in Seq(S \cup {x}) /\ Len(b) = Len(text) /\ b[1] = x
        /\ \A i \in 1 .. (Len(text) - 1) : b[i + 1] = Front(text)[i]
        BY <1>1, <2>1, <2>2
  <2> HIDE DEF a, b, row
  <2>5. ASSUME NEW i \in 1 .. Len(text) PROVE a[i] = b[i]
    <3>1. CASE i = 1 BY <1>1, <1>2, <2>1, <2>3, <2>4, <3>1
    <3>2. CASE i # 1
      <4> DEFINE k == i - 1
      <4>1. k \in 1 .. (Len(text) - 1) /\ i = k + 1 BY <1>1, <3>2
      <4> HIDE DEF k
      <4>2. b[i] = text[k] BY <2>2, <2>4, <4>1
      <4>3. k \in 1 .. Len(text) BY <1>1, <4>1
      <4>4. a[i] = text[k] BY <1>2, <2>3, <4>1, <4>3
      <4> QED BY <4>2, <4>4
    <3> QED BY <3>1, <3>2
  <2>6. a = b BY <1>1, <2>3, <2>4, <2>5
  <2> QED BY <2>6 DEF a, b
<1> HIDE DEF T
<1>5. row # <<>> BY <1>1, <1>2
<1> QED BY <1>2, <1>3, <1>4, <1>5

\* Each way through the switch of PS2_KB_READ_LN (PS2KB.c:247-269).
LEMMA EditLine ==
    ASSUME IInv, LineShown, Edit
    PROVE  LineShown'
<1>1. /\ line \in Seq(Printable)
      /\ shown = <<PROMPT>> \o line /\ shown # <<>>
      /\ shown \in Seq(Printable \cup {PROMPT})
      BY Behind DEF IInv, Types, LineShown
<1>2. CASE line' = <<>> /\ shown' = <<PROMPT>> BY <1>2 DEF LineShown
<1>3. CASE line # <<>> /\ line' = Front(line) /\ shown' = Erase(shown)
  <2>1. Erase(shown) = Front(shown) BY <1>1, EraseFront
  <2>2. Front(shown) = <<PROMPT>> \o Front(line) BY <1>1, <1>3, Behind
  <2> QED BY <1>3, <2>1, <2>2 DEF LineShown
<1>4. CASE c \in Printable /\ line' = Append(line, c) /\ shown' = vga_char(shown, c)
  <2>1. shown' = Append(shown, c) BY <1>4, NoBackspace DEF vga_char
  <2>2. Append(shown, c) = <<PROMPT>> \o Append(line, c) BY <1>1, Behind
  <2> QED BY <1>4, <2>1, <2>2 DEF LineShown
<1>5. CASE UNCHANGED <<line, shown>> BY <1>5 DEF LineShown
<1> QED BY <1>2, <1>3, <1>4, <1>5 DEF Edit, Begun

(***************************************************************************)
(* What PS2_KB_READ_LN has printed of a line is what it will return, after *)
(* any number of characters typed, dropped and rubbed out, and whenever    *)
(* the keys arrive; and what stood in front of the line is still there.    *)
(***************************************************************************)
THEOREM LineCorrect == Spec => []LineShown
<1>1. Init => LineShown BY DEF Init, LineShown
<1>2. IInv /\ LineShown /\ [Next]_vars => LineShown'
  <2> SUFFICES ASSUME IInv, LineShown, [Next]_vars PROVE LineShown' OBVIOUS
  <2>1. CASE Edit BY <2>1, EditLine
  <2>2. CASE UNCHANGED <<line, shown>> BY <2>2 DEF LineShown
  <2>3. Edit \/ UNCHANGED <<line, shown>>
    BY DEF Next, Reader, Test, Hlt, Take, Load, Store, Press, Release, Prefix,
           Second, Wake, vars, reader
  <2> QED BY <2>1, <2>2, <2>3
<1> QED BY <1>1, <1>2, Invariant, PTL DEF Spec
=============================================================================
