------------------------------- MODULE CpuLine -------------------------------
(* The frame of the 65816 core (cpu.s, CPU_MainLoop and CPU_Run): lines of   *)
(* cycles, the H and V interrupts a game schedules in them, the NMI of the   *)
(* vertical blank, and WAI, which sleeps until one of the two.               *)
(*                                                                           *)
(* One Step is one turn of cpuloop: the interrupt check, one instruction of  *)
(* the game (any of those that touch this state, or one that only takes      *)
(* time), and the delayed check of the NMI. The CPU's data is left out.      *)
EXTENDS Naturals

CONSTANTS HBlank,        \* cycles of a line before its HBlank (1024)
          LineLen,       \* cycles of a line (1364)
          ScreenHeight,  \* the last visible line
          TotalLines,    \* lines of a frame
          Fetch,         \* cycles of the opcode fetch (6 or 8)
          OpCycles,      \* cycles the rest of an instruction may take
          Trigger,       \* cycles of entering an interrupt
          HMatches,      \* the H positions a game may ask for
          VMatches       \* the lines it may ask for

\* The last H position a game may ask for, and the longest turn of the loop: an
\* IRQ, an instruction and an NMI.
LastMatch == CHOOSE m \in HMatches : \A n \in HMatches : n <= m
Longest ==
  Fetch + Trigger + Trigger + (CHOOSE m \in OpCycles : \A n \in OpCycles : n <= m)

\* CurHMatch when the line has no IRQ: past every cycle count.
None == 32768

\* One turn of the loop is shorter than either part of a line.
ASSUME LineAssumption ==
  /\ HBlank \in Nat /\ LineLen \in Nat /\ ScreenHeight \in Nat /\ TotalLines \in Nat
  /\ ScreenHeight + 1 < TotalLines
  /\ Fetch \in Nat \ {0} /\ Trigger \in Nat
  /\ OpCycles \subseteq Nat /\ \E m \in OpCycles : \A n \in OpCycles : n <= m
  /\ Longest <= HBlank /\ HBlank + Longest <= LineLen
  /\ HMatches \subseteq Nat /\ VMatches \subseteq Nat /\ 0 \in HMatches /\ 0 \in VMatches
  /\ \E m \in HMatches : \A n \in HMatches : n <= m
  /\ LineLen + LastMatch + Longest < None

\* The bits 4 and 5 of IRQCond: which counters an IRQ waits for.
HV == {"off", "h", "v", "hv"}

VARIABLES
  at,      \* where CPU_MainLoop is
  goal,    \* the cycles CPU_Run runs up to (the lower half of snesCycles)
  line,    \* r3: the line to run next, or that runs
  vcount,  \* VCount
  hcount,  \* the upper half of snesCycles
  latch,   \* HCount: the count at the last opcode fetch, which I/O sees
  hv, nmiOn,       \* IRQCond: bits 4-5, bit 7
  hmatch, vmatch,  \* IRQ_HMatch, IRQ_VMatch
  curh,    \* IRQ_CurHMatch
  w, i, nmi,       \* the flags W, I and NMI of P
  irqAck, nmiAck,  \* HVBFlags: bit 4, bit 5
  vblank,  \* HVBFlags: bit 7
  last,    \* history: what the last instruction did to the IRQ of the line
  taken,   \* history: NMIs taken since the last vertical blank began (2: or more)
  owed     \* history: the NMI was enabled when it began

beam == <<at, goal, line>>
regs == <<hv, nmiOn, hmatch, vmatch>>
hist == <<last, taken, owed>>
vars == <<at, goal, line, vcount, hcount, latch, hv, nmiOn, hmatch, vmatch,
          curh, w, i, nmi, irqAck, nmiAck, vblank, last, taken, owed>>

TypeOK ==
  /\ at \in {"frame", "line", "enter", "loop", "ran", "vblank"}
  /\ goal \in {HBlank, LineLen}
  /\ line \in 0 .. TotalLines /\ vcount \in 0 .. TotalLines - 1
  /\ hcount \in Nat /\ latch \in Nat
  /\ hcount < LineLen + LastMatch + Longest
  /\ hv \in HV /\ hmatch \in HMatches /\ vmatch \in VMatches
  /\ curh \in HMatches \cup {0, None}
  /\ {nmiOn, w, i, nmi, irqAck, nmiAck, vblank, owed} \subseteq BOOLEAN
  /\ taken \in 0 .. 2 /\ last \in {"slept", "scheduled", "other"}

Init ==
  /\ at = "frame" /\ goal = HBlank /\ line = 0 /\ vcount = 0
  /\ hcount = 0 /\ latch = 0
  /\ hv = "off" /\ nmiOn = FALSE /\ hmatch = 0 /\ vmatch = 0 /\ curh = None
  /\ w = FALSE /\ i = TRUE /\ nmi = FALSE
  /\ irqAck = FALSE /\ nmiAck = FALSE /\ vblank = FALSE
  /\ last = "other" /\ taken = 0 /\ owed = FALSE

(***************************** The frame **********************************)

BeginFrame ==
  /\ at = "frame"
  /\ at' = "line" /\ line' = 0 /\ goal' = HBlank
  /\ UNCHANGED <<vcount, hcount, latch, regs, curh, w, i, nmi, irqAck, nmiAck,
                 vblank, hist>>

\* The IRQ of a line, from the condition the game has set.
MatchOf(v) ==
  IF hv = "off" \/ (hv \in {"v", "hv"} /\ v # vmatch) THEN None
  ELSE IF hv = "v" THEN 0 ELSE hmatch

StartLine ==
  /\ at = "line"
  /\ vcount' = line
  /\ curh' = MatchOf(line)
  /\ at' = "enter"
  /\ UNCHANGED <<goal, line, hcount, latch, regs, w, i, nmi, irqAck, nmiAck,
                 vblank, hist>>

\* A visible line is run in two parts, with the transfers of its HBlank
\* between them.
HBlankOfLine ==
  /\ at = "ran" /\ goal = HBlank
  /\ goal' = LineLen /\ at' = "enter"
  /\ UNCHANGED <<line, vcount, hcount, latch, regs, curh, w, i, nmi, irqAck,
                 nmiAck, vblank, hist>>

NextLine ==
  IF line = TotalLines - 1 THEN "frame"
  ELSE IF line = ScreenHeight THEN "vblank"
  ELSE "line"

(* Variant: the line's cycles are not taken off. *)
EndLine_Keeps ==
  /\ at = "ran" /\ goal = LineLen
  /\ line' = line + 1
  /\ at' = NextLine
  /\ goal' = IF line < ScreenHeight THEN HBlank ELSE LineLen
  /\ IF NextLine = "frame"
     THEN vblank' = FALSE /\ nmiAck' = FALSE
     ELSE UNCHANGED <<vblank, nmiAck>>
  /\ UNCHANGED <<vcount, hcount, latch, regs, curh, w, i, nmi, irqAck, hist>>

\* In the vertical blank the goal stays the end of the line.
EndLine ==
  /\ at = "ran" /\ goal = LineLen
  /\ hcount' = hcount - LineLen
  /\ line' = line + 1
  /\ at' = NextLine
  /\ goal' = IF line < ScreenHeight THEN HBlank ELSE LineLen
  /\ IF NextLine = "frame"
     THEN vblank' = FALSE /\ nmiAck' = FALSE
     ELSE UNCHANGED <<vblank, nmiAck>>
  /\ UNCHANGED <<vcount, latch, regs, curh, w, i, nmi, irqAck, hist>>

BeginVBlank ==
  /\ at = "vblank"
  /\ at' = "line"
  /\ vblank' = TRUE /\ nmiAck' = TRUE
  /\ nmi' = (nmi \/ nmiOn)
  /\ owed' = nmiOn /\ taken' = 0
  /\ UNCHANGED <<goal, line, vcount, hcount, latch, regs, curh, w, i, irqAck,
                 last>>

(***************************** CPU_Run ************************************)

(* Variant: a sleeping CPU does not look at the IRQ of the line. *)
Enter_Blind ==
  LET asleep == w /\ ~nmi
  IN /\ at = "enter"
     /\ w' = asleep
     /\ hcount' = IF asleep THEN goal ELSE hcount
     /\ at' = IF asleep THEN "ran" ELSE "loop"
     /\ UNCHANGED <<goal, line, vcount, latch, regs, curh, i, nmi, irqAck,
                    nmiAck, vblank, hist>>

\* Entering CPU_Run: a pending NMI ends the sleep of WAI; a CPU that still
\* sleeps moves to the IRQ of the line, or to the end of the run.
Enter ==
  LET asleep == w /\ ~nmi
  IN /\ at = "enter"
     /\ w' = asleep
     /\ hcount' = IF ~asleep THEN hcount
                  ELSE IF curh = None THEN goal ELSE curh
     /\ at' = IF asleep /\ (curh = None \/ curh >= goal) THEN "ran" ELSE "loop"
     /\ UNCHANGED <<goal, line, vcount, latch, regs, curh, i, nmi, irqAck,
                    nmiAck, vblank, hist>>

(* Variant: only the exact cycle counts. *)
Due_Exact == curh = hcount

\* The IRQ of the line is due.
Due == curh <= hcount

\* CPU_TriggerIRQ on a pending IRQ: WAI ends even when IRQs are disabled.
Pending == irqAck \/ Due
Taken == Pending /\ ~i
\* The cycle count and the flags W and I as the instruction finds them.
CountAtOp == hcount + (IF Taken THEN Trigger ELSE 0) + Fetch
WAtOp == w /\ ~Pending
IAtOp == i \/ Taken
CurAtOp == IF Due THEN None ELSE curh

(* Variant: the line is not compared. *)
Reschedule_AnyLine(cond, h, v) ==
  IF cond = "off" \/ (cond \in {"h", "hv"} /\ CountAtOp > h) THEN None
  ELSE IF cond = "v" THEN 0 ELSE h

\* SNES_RescheduleIRQ with the registers as they are after the write.
Reschedule(cond, h, v) ==
  IF \/ cond = "off"
     \/ cond \in {"v", "hv"} /\ vcount # v
     \/ cond \in {"h", "hv"} /\ CountAtOp > h
  THEN None
  ELSE IF cond = "v" THEN 0 ELSE h

\* What an instruction may do: it ends after t cycles with these flags.
Op(t, wait, disable, acked) ==
  /\ hcount' = (IF wait THEN goal ELSE CountAtOp + t)
               + (IF nmi THEN Trigger ELSE 0)
  /\ w' = (~nmi /\ (WAtOp \/ wait))
  /\ i' = (disable \/ nmi)
  /\ irqAck' = (Pending /\ ~acked)

Plain == \E t \in OpCycles :
  /\ Op(t, FALSE, IAtOp, FALSE)
  /\ curh' = CurAtOp /\ UNCHANGED <<regs, nmiAck>>

\* CLI, SEI, PLP and RTI.
SetI == \E t \in OpCycles, b \in BOOLEAN :
  /\ Op(t, FALSE, b, FALSE)
  /\ curh' = CurAtOp /\ UNCHANGED <<regs, nmiAck>>

\* WAI eats the cycles of the run.
WAI ==
  /\ Op(0, TRUE, IAtOp, FALSE)
  /\ curh' = CurAtOp /\ UNCHANGED <<regs, nmiAck>>

\* Reading 0x4211 and 0x4210 acknowledges.
ReadIrq == \E t \in OpCycles :
  /\ Op(t, FALSE, IAtOp, TRUE)
  /\ curh' = CurAtOp /\ UNCHANGED <<regs, nmiAck>>

ReadNmi == \E t \in OpCycles :
  /\ nmiAck
  /\ Op(t, FALSE, IAtOp, FALSE)
  /\ nmiAck' = FALSE
  /\ curh' = CurAtOp /\ UNCHANGED regs

\* Writing 0x4200: the IRQ is scheduled again when its condition changes, and
\* acknowledged when it is switched off.
WriteCond == \E t \in OpCycles, c \in HV, n \in BOOLEAN :
  /\ Op(t, FALSE, IAtOp, c = "off")
  /\ hv' = c /\ nmiOn' = n
  /\ curh' = IF c # hv THEN Reschedule(c, hmatch, vmatch) ELSE CurAtOp
  /\ UNCHANGED <<hmatch, vmatch, nmiAck>>

WriteHMatch == \E t \in OpCycles, h \in HMatches :
  /\ Op(t, FALSE, IAtOp, FALSE)
  /\ hmatch' = h
  /\ curh' = IF hv \in {"h", "hv"} THEN Reschedule(hv, h, vmatch) ELSE CurAtOp
  /\ UNCHANGED <<hv, nmiOn, vmatch, nmiAck>>

WriteVMatch == \E t \in OpCycles, v \in VMatches :
  /\ Op(t, FALSE, IAtOp, FALSE)
  /\ vmatch' = v
  /\ curh' = IF hv \in {"v", "hv"} THEN Reschedule(hv, hmatch, v) ELSE CurAtOp
  /\ UNCHANGED <<hv, nmiOn, hmatch, nmiAck>>

(* Variant: a pending NMI stays pending. *)
AfterOp_KeepsNmi ==
  /\ latch' = CountAtOp
  /\ nmi' = nmi
  /\ taken' = IF nmi THEN (IF taken = 0 THEN 1 ELSE 2) ELSE taken
  /\ at' = IF hcount' < goal THEN "loop" ELSE "ran"
  /\ last' = IF w' /\ ~WAtOp THEN "slept"
             ELSE IF curh' # CurAtOp THEN "scheduled" ELSE "other"
  /\ UNCHANGED <<goal, line, vcount, vblank, owed>>

\* What every instruction is followed by: the pending NMI is taken, and the
\* loop goes on below the goal.
AfterOp ==
  /\ latch' = CountAtOp
  /\ nmi' = FALSE
  /\ taken' = IF nmi THEN (IF taken = 0 THEN 1 ELSE 2) ELSE taken
  /\ at' = IF hcount' < goal THEN "loop" ELSE "ran"
  /\ last' = IF w' /\ ~WAtOp THEN "slept"
             ELSE IF curh' # CurAtOp THEN "scheduled" ELSE "other"
  /\ UNCHANGED <<goal, line, vcount, vblank, owed>>

Step ==
  /\ at = "loop"
  /\ \/ Plain \/ SetI \/ WAI \/ ReadIrq \/ ReadNmi
     \/ WriteCond \/ WriteHMatch \/ WriteVMatch
  /\ AfterOp

Frame == BeginFrame \/ StartLine \/ HBlankOfLine \/ EndLine \/ BeginVBlank

Next == Frame \/ Enter \/ Step

Spec == Init /\ [][Next]_vars
FairSpec == Spec /\ WF_vars(Next)

(***************************** Properties *********************************)

\* An IRQ that is scheduled is the one the registers ask for: the game's
\* writes, in any order and in the middle of any line, and the start of each
\* line leave IRQ_CurHMatch in step with IRQCond, IRQ_HMatch and IRQ_VMatch.
ScheduleRight ==
  /\ TypeOK
  /\ curh # None =>
       /\ hv # "off"
       /\ curh = IF hv = "v" THEN 0 ELSE hmatch
       /\ hv \in {"v", "hv"} => vcount = vmatch

\* No line passes its match: when a line ends with its IRQ still scheduled,
\* the position is past the end of the line, or the last instruction was a WAI
\* (which ate the rest of the line), scheduled the IRQ, or ran over it.
MatchTaken ==
  EndLine => \/ curh = None \/ curh >= LineLen
             \/ last \in {"slept", "scheduled"}
             \/ curh + Fetch + Trigger >= latch

\* The game sees the NMI of each vertical blank exactly once when it was
\* enabled at its start, and never otherwise: also when it changes the enable,
\* sleeps, or takes an IRQ meanwhile.
NmiOnce == at = "ran" /\ at' = "frame" => taken = IF owed THEN 1 ELSE 0

\* The interrupts of a frame come, and come once.
InterruptsTaken == [][MatchTaken /\ NmiOnce]_vars

\* The IRQ a sleeping CPU waits for exists.
MatchComes ==
  \/ hv = "h" /\ hmatch < LineLen
  \/ hv = "v" /\ vmatch < TotalLines
  \/ hv = "hv" /\ hmatch < LineLen /\ vmatch < TotalLines

\* WAI ends: a CPU that sleeps with its NMI enabled, or with an IRQ some line
\* of the frame brings, runs again, woken by the one or the other, whatever
\* line and cycle it fell asleep at.
WaitEnds == (w /\ (nmiOn \/ MatchComes)) ~> (~w \/ (at = "loop" /\ Pending))
=============================================================================
