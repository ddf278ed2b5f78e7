-------------------------- MODULE Interrupts_proofs -------------------------
(***************************************************************************)
(* Proofs about the interrupts of the second kernel, for every counter,    *)
(* every length of the sleep, every mask the firmware leaves and every set *)
(* of devices that ask.                                                    *)
(***************************************************************************)
EXTENDS Interrupts, TLAPS

\* A controller's registers.
ChipOK(c) == c \in [base : Int, imr : Int, irr : SUBSET Lines,
                    isr : SUBSET Lines, icw : {0, 2, 3, 4}, icw1 : Int]

TypeOK ==
    /\ ChipOK(PIC1) /\ ChipOK(PIC2)
    /\ idt \in BOOLEAN /\ enabled \in BOOLEAN /\ ran \in BOOLEAN
    /\ pc \in {"idt_init", "remap_pic", "enable_sti", "memory", "test",
               "hlt", "halted", "awake"}
    /\ system_ticks \in 0 .. (Ticks - 1) /\ target \in Int
    /\ started \in 0 .. (Ticks - 1) /\ slept \in 0 .. MaxSlept

(***************************************************************************)
(* How far the start has got: the IDT is filled before the controllers are *)
(* programmed, these before interrupts are let in; and from then on        *)
(* interrupts are off just while the timer's handler runs, which is while  *)
(* its line is in service.                                                 *)
(***************************************************************************)
Booting == {"idt_init", "remap_pic", "enable_sti"}

Prepared ==
    /\ pc # "idt_init" => idt
    /\ pc \notin {"idt_init", "remap_pic"}
         => PIC1.base = 32 /\ PIC1.imr = 254

Serving ==
    /\ PIC2.isr = {}
    /\ \/ /\ handler = "none" /\ PIC1.isr = {}
          /\ enabled = (pc \notin Booting)
       \/ /\ handler = "pit_handler" /\ PIC1.isr = {TIMER}
          /\ ~enabled /\ pc \notin Booting

(***************************************************************************)
(* While k_init sleeps no more than one tick comes between two of its      *)
(* steps: Due is the one that may still come.                              *)
(***************************************************************************)
Sleeping == pc \in {"test", "hlt", "halted"}

Due == IF ran \/ TIMER \in PIC1.irr \/ handler = "pit_handler" THEN 1 ELSE 0

OneTick ==
    Sleeping => /\ TIMER \in PIC1.irr \/ handler = "pit_handler" => ~ran
                /\ handler = "pit_handler" => TIMER \notin PIC1.irr

\* One tick may slip in before the hlt, and the one that ends it.
Longest == CASE pc = "hlt" -> MS [] OTHER -> MS + 1

Counting ==
    NoWrap =>
      /\ Sleeping => /\ target = started + MS
                     /\ system_ticks = started + slept
                     /\ slept + Due <= Longest
      /\ pc = "awake" => slept \in MS .. (MS + 1)

IInv == TypeOK /\ Prepared /\ Serving /\ OneTick /\ Counting

-----------------------------------------------------------------------------
(***************************************************************************)
(* The controllers.                                                        *)
(***************************************************************************)

\* The mask 254 lets the timer's line pass and no other.
LEMMA TimerMask == \A l \in Lines : Bit(254, l) <=> l # TIMER
<1> SUFFICES ASSUME NEW l \in Lines PROVE Bit(254, l) <=> l # TIMER
  OBVIOUS
<1>1. l \in {0, 1, 2, 3, 4, 5, 6, 7}
  BY DEF Lines
<1>2. /\ 254 \div 1 = 254 /\ 254 \div 2 = 127 /\ 254 \div 4 = 63
      /\ 254 \div 8 = 31 /\ 254 \div 16 = 15 /\ 254 \div 32 = 7
      /\ 254 \div 64 = 3 /\ 254 \div 128 = 1
  OBVIOUS
<1> QED
  BY <1>1, <1>2 DEF Bit, Weight, TIMER

\* The bits of the words the kernel sends.
LEMMA Words ==
    /\ Bit(17, 0) /\ ~Bit(17, 1) /\ Bit(17, 4)
    /\ ~Bit(32, 3) /\ ~Bit(32, 4) /\ Bit(32, 5)
BY DEF Bit, Weight

\* The least element of a set of one.
LEMMA MinOne == ASSUME NEW x \in Int PROVE Min({x}) = x
BY DEF Min

\* ICW1 clears the mask and the lines.
LEMMA Icw1Result ==
    ASSUME NEW c, ChipOK(c), NEW v \in Int
    PROVE  LET d == [c EXCEPT !.icw1 = v, !.icw = 2, !.imr = 0,
                              !.irr = {}, !.isr = {}]
           IN  ChipOK(d) /\ d.irr = {} /\ d.isr = {}
<1>1. {} \in SUBSET Lines /\ 2 \in {0, 2, 3, 4} /\ 0 \in Int
  OBVIOUS
<1> QED
  BY <1>1 DEF ChipOK

\* ICW1 to ICW4 as the kernel sends them.
LEMMA InitialiseResult ==
    ASSUME NEW c, ChipOK(c), NEW icw2 \in Int, icw2 % 8 = 0, NEW icw3,
           NEW d, d = Initialise(c, 17, icw2, icw3, 1)
    PROVE  /\ ChipOK(d)
           /\ d.base = icw2 /\ d.irr = {} /\ d.isr = {} /\ d.icw = 0
<1> DEFINE c1 == [c EXCEPT !.icw1 = 17, !.icw = 2, !.imr = 0,
                           !.irr = {}, !.isr = {}]
           c2 == [c1 EXCEPT !.base = icw2, !.icw = 3]
           c3 == [c2 EXCEPT !.icw = 4]
           c4 == [c3 EXCEPT !.icw = 0]
<1>1. Command(c, 17) = c1
  BY Words DEF Command
<1>2. Data(c1, icw2) = c2
  <2>1. c1.icw = 2 /\ c1.icw1 = 17
    BY DEF ChipOK
  <2>2. icw2 - (icw2 % 8) = icw2
    OBVIOUS
  <2> HIDE DEF c1
  <2> QED
    BY <2>1, <2>2, Words DEF Data
<1>3. Data(c2, icw3) = c3
  BY Words DEF Data, AfterIcw3, ChipOK
<1>4. Data(c3, 1) = c4
  BY DEF Data, ChipOK
<1>5. d = c4
  BY <1>1, <1>2, <1>3, <1>4 DEF Initialise
<1>6. ChipOK(c1) /\ c1.irr = {} /\ c1.isr = {}
  <2>1. 17 \in Int
    OBVIOUS
  <2> QED
    BY <2>1, Icw1Result
<1> HIDE DEF c1
<1>7. ChipOK(c2) /\ c2.irr = {} /\ c2.isr = {} /\ c2.base = icw2
  BY <1>6 DEF ChipOK
<1> HIDE DEF c2
<1> QED
  BY <1>5, <1>7 DEF ChipOK

\* PIC1 after remap_pic: vectors from 32, only the timer's line open.
LEMMA Remap1Result ==
    ASSUME NEW c, ChipOK(c)
    PROVE  /\ ChipOK(Remap1(c))
           /\ Remap1(c).base = 32 /\ Remap1(c).imr = 254
           /\ Remap1(c).irr = {} /\ Remap1(c).isr = {}
<1> DEFINE i == Initialise(c, 17, 32, 4, 1)
           m == [i EXCEPT !.imr = c.imr]
<1>1. /\ ChipOK(i)
      /\ i.base = 32 /\ i.irr = {} /\ i.isr = {} /\ i.icw = 0
  BY InitialiseResult
<1> HIDE DEF i
<1>2. Data(i, c.imr) = m
  BY <1>1 DEF Data
<1>3. Data(m, 254) = [m EXCEPT !.imr = 254]
  BY <1>1 DEF Data, ChipOK
<1>4. Remap1(c) = [m EXCEPT !.imr = 254]
  BY <1>2, <1>3 DEF Remap1, i
<1>5. ChipOK(m) /\ m.base = 32 /\ m.irr = {} /\ m.isr = {}
  BY <1>1 DEF ChipOK
<1> HIDE DEF m
<1> QED
  BY <1>4, <1>5 DEF ChipOK

\* A write to the data port leaves the lines alone.
LEMMA DataKeeps ==
    ASSUME NEW c, ChipOK(c), NEW v \in Int
    PROVE  /\ ChipOK(Data(c, v))
           /\ Data(c, v).isr = c.isr /\ Data(c, v).irr = c.irr
<1>1. c.icw \in {0, 2, 3, 4} /\ AfterIcw3(c) \in {0, 4}
  BY DEF ChipOK, AfterIcw3
<1>2. CASE c.icw = 0
  BY <1>2 DEF Data, ChipOK
<1>3. CASE c.icw = 2
  <2> DEFINE w == IF Bit(c.icw1, 1) THEN AfterIcw3(c) ELSE 3
  <2>1. w \in {0, 2, 3, 4}
    BY <1>1
  <2>2. Data(c, v) = [c EXCEPT !.base = v - (v % 8), !.icw = w]
    BY <1>3 DEF Data
  <2>3. v - (v % 8) \in Int
    OBVIOUS
  <2> HIDE DEF w
  <2> QED
    BY <2>1, <2>2, <2>3 DEF ChipOK
<1>4. CASE c.icw = 3
  BY <1>1, <1>4 DEF Data, ChipOK
<1>5. CASE c.icw = 4
  BY <1>5 DEF Data, ChipOK
<1> QED
  BY <1>1, <1>2, <1>3, <1>4, <1>5

\* A write to the command port leaves a controller that serves nothing idle.
LEMMA CommandIdle ==
    ASSUME NEW c, ChipOK(c), c.isr = {}, NEW v \in Int
    PROVE  ChipOK(Command(c, v)) /\ Command(c, v).isr = {}
<1>1. CASE Bit(v, 4)
  <2> DEFINE d == [c EXCEPT !.icw1 = v, !.icw = 2, !.imr = 0,
                            !.irr = {}, !.isr = {}]
  <2>1. Command(c, v) = d
    BY <1>1 DEF Command
  <2>2. ChipOK(d) /\ d.isr = {}
    BY Icw1Result
  <2> HIDE DEF d
  <2> QED
    BY <2>1, <2>2
<1>2. CASE ~Bit(v, 4)
  <2>1. Command(c, v) = c
    BY <1>2 DEF Command
  <2> QED
    BY <2>1
<1> QED
  BY <1>1, <1>2

\* PIC2 after remap_pic serves nothing, whatever its old mask was.
LEMMA Remap2Result ==
    ASSUME NEW c, ChipOK(c)
    PROVE  ChipOK(Remap2(c)) /\ Remap2(c).isr = {}
<1> DEFINE i == Initialise(c, 17, 40, 2, 1)
<1>1. ChipOK(i) /\ i.isr = {}
  BY InitialiseResult
<1>2. c.imr \in Int
  BY DEF ChipOK
<1> HIDE DEF i
<1>3. ChipOK(Command(i, c.imr)) /\ Command(i, c.imr).isr = {}
  BY <1>1, <1>2, CommandIdle
<1>4. ChipOK(Data(Command(i, c.imr), 255))
        /\ Data(Command(i, c.imr), 255).isr = {}
  BY <1>3, DataKeeps
<1> QED
  BY <1>4 DEF Remap2, i

\* A request changes nothing else.
LEMMA RequestKeeps ==
    ASSUME NEW c, ChipOK(c), NEW l \in Lines
    PROVE  /\ ChipOK(Request(c, l))
           /\ Request(c, l).base = c.base /\ Request(c, l).imr = c.imr
           /\ Request(c, l).isr = c.isr
           /\ Request(c, l).irr = c.irr \cup {l}
BY DEF Request, ChipOK

\* The end of interrupt ends the only line in service.
LEMMA EoiResult ==
    ASSUME NEW c, ChipOK(c), c.isr = {TIMER}
    PROVE  Eoi(c) = [c EXCEPT !.isr = {}]
<1>1. Min(c.isr) = TIMER
  BY MinOne DEF TIMER
<1>2. c.isr \ {Min(c.isr)} = {}
  BY <1>1
<1> QED
  BY <1>2, Words DEF Eoi, Command

\* PIC2's request reaches PIC1, and the mask keeps it there.
LEMMA CascadeKeeps ==
    ASSUME ChipOK(PIC1), ChipOK(PIC2)
    PROVE  /\ ChipOK(Cascade)
           /\ Cascade.base = PIC1.base /\ Cascade.imr = PIC1.imr
           /\ Cascade.isr = PIC1.isr
           /\ TIMER \in Cascade.irr <=> TIMER \in PIC1.irr
<1>1. CASCADE \in Lines /\ CASCADE # TIMER
  BY DEF CASCADE, TIMER, Lines
<1> QED
  BY <1>1, RequestKeeps DEF Cascade

\* With the mask 254 and nothing in service only the timer is passed on.
LEMMA OnlyTimerRaised ==
    ASSUME NEW c, ChipOK(c), c.imr = 254, c.isr = {}
    PROVE  Raised(c) = IF TIMER \in c.irr THEN {TIMER} ELSE {}
<1>1. \A l \in c.irr : l \in Lines
  BY DEF ChipOK
<1>2. \A l \in c.irr : l \in Raised(c) <=> l = TIMER
  BY <1>1, TimerMask DEF Raised
<1> QED
  BY <1>2 DEF Raised

-----------------------------------------------------------------------------
(***************************************************************************)
(* The invariant holds at the start, and every action keeps it.            *)
(***************************************************************************)

LEMMA InitInvariant == Init => IInv
<1> SUFFICES ASSUME Init PROVE IInv
  OBVIOUS
<1> USE InterruptAssumption
<1>1. ASSUME NEW b \in Int, NEW m \in Masks PROVE ChipOK(Chip(b, m))
  BY <1>1 DEF Chip, ChipOK
<1>2. ChipOK(PIC1) /\ ChipOK(PIC2) /\ PIC1.isr = {} /\ PIC2.isr = {}
  BY <1>1 DEF Init, Chip
<1>3. TypeOK
  <2>1. /\ idt = FALSE /\ pc = "idt_init" /\ enabled = FALSE /\ ran = TRUE
        /\ system_ticks = 0 /\ target = 0 /\ slept = 0 /\ started = 0
    BY DEF Init
  <2>2. 0 \in 0 .. (Ticks - 1) /\ 0 \in 0 .. MaxSlept /\ 0 \in Int
    BY DEF MaxSlept
  <2>3. idt \in BOOLEAN /\ enabled \in BOOLEAN /\ ran \in BOOLEAN
    BY <2>1, Zenon
  <2> QED
    BY <1>2, <2>1, <2>2, <2>3, Zenon DEF TypeOK
<1> QED
  BY <1>2, <1>3 DEF Init, IInv, Prepared, Serving, Booting, OneTick, Counting,
                    Sleeping

\* With interrupts on, only the timer's reaches the processor.
LEMMA PendingTimer ==
    ASSUME IInv, enabled
    PROVE  Raised(Cascade) = IF TIMER \in PIC1.irr THEN {TIMER} ELSE {}
<1>1. PIC1.isr = {} /\ PIC1.imr = 254 /\ ChipOK(PIC1) /\ ChipOK(PIC2)
  BY DEF IInv, TypeOK, Prepared, Serving, Booting
<1> QED
  BY <1>1, CascadeKeeps, OnlyTimerRaised

\* k_init runs with interrupts on only when the timer's line is quiet.
LEMMA QuietStep ==
    ASSUME IInv, NEW from, NEW to, Step(from, to), from \notin Booting
    PROVE  enabled /\ TIMER \notin PIC1.irr
<1>1. enabled
  BY DEF IInv, Serving, Step
<1> QED
  BY <1>1, PendingTimer DEF Step, Pending

\* A step of k_init while it boots.
LEMMA BootKeeps ==
    ASSUME IInv, idt_init \/ remap_pic \/ enable_sti
    PROVE  IInv'
<1> USE InterruptAssumption
<1>1. CASE idt_init
  BY <1>1 DEF idt_init, Step, IInv, TypeOK, ChipOK, Prepared, Serving, Booting,
              OneTick, Counting, Sleeping, sleep, NoWrap
<1>2. CASE remap_pic
  <2>1. /\ ChipOK(PIC1') /\ PIC1'.base = 32 /\ PIC1'.imr = 254
        /\ PIC1'.isr = {}
    BY <1>2, Remap1Result DEF remap_pic, IInv, TypeOK
  <2>2. ChipOK(PIC2') /\ PIC2'.isr = {}
    BY <1>2, Remap2Result DEF remap_pic, IInv, TypeOK
  <2>3. TypeOK'
    BY <1>2, <2>1, <2>2 DEF remap_pic, Step, IInv, TypeOK, sleep, MaxSlept
  <2> QED
    BY <1>2, <2>1, <2>2, <2>3
       DEF remap_pic, Step, IInv, Prepared, Serving, Booting, OneTick,
           Counting, Sleeping, sleep, NoWrap
<1>3. CASE enable_sti
  <2>1. /\ pc = "enable_sti" /\ pc' = "memory" /\ handler = "none"
        /\ enabled' = TRUE /\ ran' = TRUE
        /\ UNCHANGED <<idt, PIC1, PIC2, handler, system_ticks>>
        /\ UNCHANGED <<target, slept, started>>
    BY <1>3 DEF enable_sti, Step, sleep
  <2>2. TypeOK'
    BY <2>1 DEF IInv, TypeOK, ChipOK, MaxSlept
  <2>3. Prepared'
    BY <2>1 DEF IInv, Prepared
  <2>4. Serving'
    BY <2>1 DEF IInv, Serving, Booting
  <2>5. OneTick' /\ Counting'
    BY <2>1 DEF OneTick, Counting, Sleeping
  <2> QED
    BY <2>2, <2>3, <2>4, <2>5 DEF IInv
<1> QED
  BY <1>1, <1>2, <1>3

\* A step of k_init while it sleeps, before and after.
LEMMA SleepKeeps ==
    ASSUME IInv, Memory \/ Ksleep \/ Awake \/ Again \/ Hlt \/ Idle
    PROVE  IInv'
<1> USE InterruptAssumption
<1> DEFINE Quiet == enabled /\ TIMER \notin PIC1.irr
<1>1. CASE Memory
  BY <1>1, QuietStep
     DEF Memory, Step, IInv, TypeOK, Prepared, Serving, Booting, OneTick,
         Counting, Sleeping, machine, sleep, NoWrap
<1>2. CASE Ksleep
  <2>1. Quiet
    BY <1>2, QuietStep DEF Ksleep, Booting
  <2>2. NoWrap' => target' = started' + MS
    BY <1>2 DEF Ksleep, NoWrap, Target, IInv, TypeOK
  <2>3. TypeOK'
    BY <1>2 DEF Ksleep, Step, IInv, TypeOK, Target, MaxSlept, machine
  <2>4. Prepared' /\ Serving' /\ OneTick'
    BY <1>2, <2>1 DEF Ksleep, Step, IInv, Prepared, Serving, Booting, OneTick,
                      machine
  <2>5. Counting'
    <3>1. slept' = 0 /\ started' = system_ticks /\ pc' = "test"
          /\ system_ticks' = system_ticks
      BY <1>2 DEF Ksleep, Step
    <3> QED
      BY <2>2, <3>1 DEF Counting, Due, Longest, IInv, TypeOK
  <2> QED
    BY <2>3, <2>4, <2>5 DEF IInv
<1>3. CASE Awake
  BY <1>3 DEF Awake, Step, IInv, TypeOK, Prepared, Serving, Booting, OneTick,
              Counting, Sleeping, machine, sleep, NoWrap, Due, Longest
<1>4. CASE Again
  <2>1. Quiet
    BY <1>4, QuietStep DEF Again, Booting
  <2>2. TypeOK' /\ Prepared' /\ Serving' /\ OneTick'
    BY <1>4, <2>1 DEF Again, Step, IInv, TypeOK, Prepared, Serving, Booting,
                      OneTick, machine, sleep
  <2>3. Counting'
    <3>1. NoWrap => slept < MS
      BY <1>4 DEF Again, Step, IInv, Counting, Sleeping, TypeOK
    <3>2. Due' = 1 /\ Longest' = MS /\ pc' = "hlt"
      BY <1>4 DEF Again, Step, Due, Longest
    <3> QED
      BY <1>4, <3>1, <3>2 DEF Again, Step, IInv, TypeOK, Counting, Sleeping,
                              sleep, NoWrap
  <2> QED
    BY <2>2, <2>3 DEF IInv
<1>5. CASE Hlt
  <2>1. Quiet
    BY <1>5, QuietStep DEF Hlt, Booting
  <2>2. TypeOK' /\ Prepared' /\ Serving' /\ OneTick'
    BY <1>5, <2>1 DEF Hlt, Step, IInv, TypeOK, Prepared, Serving, Booting,
                      OneTick, machine, sleep
  <2>3. Counting'
    <3>1. NoWrap => slept + Due <= MS
      BY <1>5 DEF Hlt, Step, IInv, Counting, Sleeping, Longest
    <3>2. Due' = 1 /\ Longest' = MS + 1 /\ pc' = "halted"
      BY <1>5 DEF Hlt, Step, Due, Longest
    <3>3. slept <= MS \/ ~NoWrap
      BY <3>1 DEF Due, IInv, TypeOK
    <3> QED
      BY <1>5, <3>2, <3>3 DEF Hlt, Step, IInv, TypeOK, Counting, Sleeping,
                              sleep, NoWrap
  <2> QED
    BY <2>2, <2>3 DEF IInv
<1>6. CASE Idle
  BY <1>6 DEF Idle, Step, IInv, TypeOK, Prepared, Serving, Booting, OneTick,
              Counting, Sleeping, machine, sleep, NoWrap
<1> QED
  BY <1>1, <1>2, <1>3, <1>4, <1>5, <1>6

\* A request of the timer or of a device.
LEMMA DeviceKeeps ==
    ASSUME IInv, Timer \/ Device1 \/ Device2
    PROVE  IInv'
<1> USE InterruptAssumption
<1>1. ChipOK(PIC1) /\ ChipOK(PIC2) /\ TIMER \in Lines
  BY DEF IInv, TypeOK, TIMER, Lines
<1>2. CASE Timer
  <2>1. /\ ChipOK(PIC1') /\ PIC1'.base = PIC1.base /\ PIC1'.imr = PIC1.imr
        /\ PIC1'.isr = PIC1.isr /\ TIMER \in PIC1'.irr
    BY <1>1, <1>2, RequestKeeps DEF Timer
  <2>2. /\ UNCHANGED <<pc, idt, PIC2, enabled, handler, system_ticks>>
        /\ UNCHANGED <<target, slept, started>>
        /\ ran /\ ran' = FALSE /\ TIMER \notin PIC1.irr
    BY <1>2 DEF Timer, sleep
  <2>3. TypeOK'
    BY <2>1, <2>2 DEF IInv, TypeOK, ChipOK, MaxSlept
  <2>4. Prepared' /\ Serving'
    BY <2>1, <2>2 DEF IInv, Prepared, Serving, Booting
  <2>5. OneTick'
    BY <2>1, <2>2 DEF IInv, OneTick, Sleeping
  <2>6. Counting'
    BY <2>1, <2>2 DEF IInv, Counting, NoWrap, Sleeping, Due, Longest
  <2> QED
    BY <2>3, <2>4, <2>5, <2>6 DEF IInv
<1>3. CASE Device1
  <2>1. PICK l \in Devices1 \ PIC1.irr : PIC1' = Request(PIC1, l)
    BY <1>3 DEF Device1
  <2>2. l \in Lines /\ l # TIMER
    BY <2>1 DEF TIMER
  <2>3. /\ ChipOK(PIC1') /\ PIC1'.base = PIC1.base /\ PIC1'.imr = PIC1.imr
        /\ PIC1'.isr = PIC1.isr
        /\ TIMER \in PIC1'.irr <=> TIMER \in PIC1.irr
    BY <1>1, <2>1, <2>2, RequestKeeps
  <2>4. /\ UNCHANGED <<pc, idt, PIC2, enabled, handler, system_ticks, ran>>
        /\ UNCHANGED <<target, slept, started>>
    BY <1>3 DEF Device1, sleep
  <2>5. TypeOK'
    BY <2>3, <2>4 DEF IInv, TypeOK, ChipOK, MaxSlept
  <2>6. Prepared' /\ Serving'
    BY <2>3, <2>4 DEF IInv, Prepared, Serving, Booting
  <2>7. OneTick'
    BY <2>3, <2>4 DEF IInv, OneTick, Sleeping
  <2>8. Counting'
    BY <2>3, <2>4 DEF IInv, Counting, NoWrap, Sleeping, Due, Longest
  <2> QED
    BY <2>5, <2>6, <2>7, <2>8 DEF IInv
<1>4. CASE Device2
  <2>1. PICK l \in Devices2 \ PIC2.irr : PIC2' = Request(PIC2, l)
    BY <1>4 DEF Device2
  <2>2. ChipOK(PIC2') /\ PIC2'.isr = PIC2.isr
    BY <1>1, <2>1, RequestKeeps
  <2>3. /\ UNCHANGED <<pc, idt, PIC1, enabled, handler, system_ticks, ran>>
        /\ UNCHANGED <<target, slept, started>>
    BY <1>4 DEF Device2, sleep
  <2>4. TypeOK'
    BY <2>2, <2>3 DEF IInv, TypeOK, ChipOK, MaxSlept
  <2>5. Prepared' /\ Serving'
    BY <2>2, <2>3 DEF IInv, Prepared, Serving, Booting
  <2>6. OneTick' /\ Counting'
    BY <2>3 DEF IInv, OneTick, Counting, NoWrap, Sleeping, Due, Longest
  <2> QED
    BY <2>4, <2>5, <2>6 DEF IInv
<1> QED
  BY <1>2, <1>3, <1>4

\* The processor takes an interrupt: the timer's, with its own handler.
LEMMA InterruptKeeps ==
    ASSUME IInv, Interrupt
    PROVE  IInv'
<1> USE InterruptAssumption
<1>1. /\ enabled /\ pc \notin Booting /\ handler = "none" /\ idt
      /\ PIC1.base = 32 /\ PIC1.imr = 254 /\ PIC1.isr = {}
      /\ PIC2.isr = {} /\ ChipOK(PIC1) /\ ChipOK(PIC2)
  <2>1. enabled
    BY DEF Interrupt, Pending
  <2>2. /\ handler = "none" /\ pc \notin Booting
        /\ PIC1.isr = {} /\ PIC2.isr = {}
    BY <2>1 DEF IInv, Serving
  <2>3. idt /\ PIC1.base = 32 /\ PIC1.imr = 254
    BY <2>2 DEF IInv, Prepared, Booting
  <2>4. ChipOK(PIC1) /\ ChipOK(PIC2)
    BY DEF IInv, TypeOK
  <2> QED
    BY <2>1, <2>2, <2>3, <2>4
<1>2. TIMER \in PIC1.irr /\ Raised(Cascade) = {TIMER}
  BY PendingTimer DEF Interrupt, Pending
<1>3. Min(Raised(Cascade)) = TIMER
  BY <1>2, MinOne DEF TIMER
<1>4. ~BySlave
  BY <1>3 DEF BySlave, TIMER, CASCADE
<1>5. handler' = "pit_handler"
  <2>1. handler' = Gate(32 + TIMER)
    BY <1>1, <1>3, <1>4 DEF Interrupt
  <2> QED
    BY <2>1 DEF Gate, TIMER
<1>6. /\ ChipOK(PIC1') /\ PIC1'.base = 32 /\ PIC1'.imr = 254
      /\ PIC1'.isr = {TIMER} /\ TIMER \notin PIC1'.irr
  <2>1. PIC1' = [Cascade EXCEPT !.irr = @ \ {TIMER}, !.isr = @ \cup {TIMER}]
    BY <1>3 DEF Interrupt, Acknowledge
  <2>2. /\ ChipOK(Cascade) /\ Cascade.base = 32 /\ Cascade.imr = 254
        /\ Cascade.isr = {}
    BY <1>1, CascadeKeeps
  <2>3. TIMER \in Lines
    BY DEF TIMER, Lines
  <2>4. /\ Cascade.irr \ {TIMER} \in SUBSET Lines
        /\ Cascade.isr \cup {TIMER} = {TIMER}
        /\ {TIMER} \in SUBSET Lines
    BY <2>2, <2>3 DEF ChipOK
  <2>5. ChipOK(PIC1')
    BY <2>1, <2>2, <2>4 DEF ChipOK
  <2>6. PIC1'.base = 32 /\ PIC1'.imr = 254
    BY <2>1, <2>2 DEF ChipOK
  <2>7. PIC1'.isr = {TIMER} /\ PIC1'.irr = Cascade.irr \ {TIMER}
    BY <2>1, <2>2, <2>4 DEF ChipOK
  <2> QED
    BY <2>5, <2>6, <2>7
<1>7. PIC2' = PIC2
  BY <1>4 DEF Interrupt
<1>8. TypeOK'
  <2>1. /\ enabled' = FALSE
        /\ UNCHANGED <<pc, idt, system_ticks, target, slept, started, ran>>
    BY DEF Interrupt, sleep
  <2>2. ChipOK(PIC1') /\ ChipOK(PIC2')
    BY <1>1, <1>6, <1>7
  <2> QED
    BY <2>1, <2>2 DEF IInv, TypeOK, MaxSlept
<1>9. Prepared' /\ Serving'
  BY <1>1, <1>5, <1>6, <1>7
     DEF Interrupt, IInv, Prepared, Serving, Booting
<1>10. OneTick'
  BY <1>2, <1>6 DEF Interrupt, IInv, OneTick, Sleeping
<1>11. Counting'
  <2>1. Due = 1 /\ Due' = 1
    BY <1>2, <1>5 DEF Due
  <2> QED
    BY <2>1 DEF Interrupt, IInv, Counting, Sleeping, sleep, NoWrap, Longest
<1> QED
  BY <1>8, <1>9, <1>10, <1>11 DEF IInv

\* The timer's handler counts one tick, which was the one due.
LEMMA HandlerKeeps ==
    ASSUME IInv, pit_handler
    PROVE  IInv'
<1> USE InterruptAssumption
<1>1. /\ handler = "pit_handler" /\ PIC1.isr = {TIMER} /\ ChipOK(PIC1)
      /\ PIC2.isr = {} /\ pc \notin Booting
  BY DEF pit_handler, IInv, TypeOK, Serving
<1>2. /\ ChipOK(PIC1') /\ PIC1'.base = PIC1.base /\ PIC1'.imr = PIC1.imr
      /\ PIC1'.isr = {} /\ PIC1'.irr = PIC1.irr
  <2>1. PIC1' = [PIC1 EXCEPT !.isr = {}]
    BY <1>1, EoiResult DEF pit_handler
  <2> QED
    BY <1>1, <2>1 DEF ChipOK
<1>3. TypeOK'
  BY <1>2 DEF pit_handler, IInv, TypeOK, Tick, MaxSlept
<1>4. Prepared' /\ Serving'
  <2>1. /\ idt' = idt /\ PIC2' = PIC2 /\ handler' = "none" /\ enabled' = TRUE
        /\ pc' \notin Booting /\ PIC2.isr = {}
    BY <1>1 DEF pit_handler, Booting
  <2>2. idt /\ PIC1.base = 32 /\ PIC1.imr = 254
    BY <1>1 DEF IInv, Prepared, Booting
  <2>3. Prepared'
    BY <1>2, <2>1, <2>2 DEF Prepared
  <2> QED
    BY <1>2, <2>1, <2>3 DEF Serving
<1>5. OneTick'
  BY <1>1, <1>2 DEF pit_handler, IInv, OneTick, Sleeping
<1>6. Counting'
  <2> DEFINE Asleep == /\ target = started + MS
                       /\ system_ticks = started + slept
                       /\ slept + Due <= Longest
  <2> SUFFICES ASSUME NoWrap'
               PROVE  /\ Sleeping' => Asleep'
                      /\ pc' = "awake" => slept' \in MS .. (MS + 1)
    BY DEF Counting
  <2>1. NoWrap
    BY DEF NoWrap, pit_handler
  <2>2. ASSUME Sleeping' PROVE Asleep'
    <3>1. /\ Sleeping /\ target = started + MS
          /\ system_ticks = started + slept /\ slept + 1 <= Longest
      BY <1>1, <2>1, <2>2 DEF IInv, Counting, Sleeping, pit_handler, Due
    <3>2. slept < MaxSlept /\ system_ticks + 1 < Ticks
      BY <2>1, <3>1 DEF Longest, MaxSlept, NoWrap, IInv, TypeOK
    <3>3. slept' = slept + 1 /\ system_ticks' = system_ticks + 1
      BY <3>1, <3>2 DEF pit_handler, Sleeping, Tick, IInv, TypeOK
    <3>4. Due' = 0
      BY <1>1, <1>2, <3>1 DEF pit_handler, IInv, OneTick, Due
    <3>5. slept' <= Longest'
      BY <3>1, <3>3 DEF pit_handler, Longest, Sleeping, IInv, TypeOK
    <3> QED
      BY <3>1, <3>3, <3>4, <3>5 DEF pit_handler, IInv, TypeOK, Longest
  <2>3. ASSUME pc' = "awake" PROVE slept' \in MS .. (MS + 1)
    BY <2>1, <2>3 DEF IInv, Counting, Sleeping, pit_handler
  <2> QED
    BY <2>2, <2>3
<1> QED
  BY <1>3, <1>4, <1>5, <1>6 DEF IInv

-----------------------------------------------------------------------------
(***************************************************************************)
(* The theorems.                                                           *)
(***************************************************************************)

LEMMA NextInvariant == IInv /\ [Next]_vars => IInv'
<1>1. ASSUME IInv, Next PROVE IInv'
  BY <1>1, BootKeeps, SleepKeeps, DeviceKeeps, InterruptKeeps, HandlerKeeps
     DEF Next, Run
<1>2. ASSUME IInv, UNCHANGED vars PROVE IInv'
  BY <1>2 DEF vars, machine, sleep, IInv, TypeOK, ChipOK, MaxSlept, Prepared,
              Serving, Booting, OneTick, Counting, Sleeping, NoWrap, Due,
              Longest
<1> QED
  BY <1>1, <1>2

LEMMA Invariant == Spec => []IInv
BY InitInvariant, NextInvariant, PTL DEF Spec

(***************************************************************************)
(* For every mask the firmware may leave and every set of devices: the     *)
(* timer's is the only handler an interrupt enters (remap_pic, idt_init),  *)
(* and its line is in service only while it runs.                          *)
(***************************************************************************)
THEOREM OnlyTimerCorrect == Spec => []OnlyTimer
<1>1. IInv => OnlyTimer
  BY DEF IInv, Serving, OnlyTimer
<1> QED
  BY <1>1, Invariant, PTL

(***************************************************************************)
(* For every width of the counter and every length of the sleep that does  *)
(* not reach its end: ksleep counts that many ticks or one more.           *)
(***************************************************************************)
THEOREM SleepLengthCorrect == Spec => []SleepLength
<1>1. IInv => SleepLength
  BY DEF IInv, Counting, SleepLength
<1> QED
  BY <1>1, Invariant, PTL
=============================================================================
