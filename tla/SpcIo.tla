-------------------------------- MODULE SpcIo --------------------------------
(* The SPC700 beside the 65816 (cpu.s CPU_MainLoop, spc700.s SPC_Run,        *)
(* spc700io.c): at the end of each line it catches up with the cycles the    *)
(* CPU has run, one instruction at a time; each instruction moves its timers *)
(* and the samples of the DSP on, and may read or write its I/O.             *)
(*                                                                           *)
(* One timer stands for the three, and one port for the four each way. The   *)
(* instructions that touch no I/O only take time.                            *)
EXTENDS Integers

CONSTANTS LineLen,      \* cycles of a line (1364)
          Overrun,      \* by how many cycles the CPU may pass the end of a line
          Ratio,        \* Mem_Status->SPC_CycleRatio (6400)
          SpcRatio,     \* SPC_CycleRatio: what an SPC cycle costs (134013)
          OpCycles,     \* SPC cycles of an instruction
          Half,         \* 0x8000: half of the timers' lower part
          Unit,         \* 1 << 7: what a timer's register counts in
          Reloads,      \* values of a timer's register, 0 among them
          Sample,       \* SPC cycles between two mixes (0x200)
          MaxTicks      \* bound: ticks of a timer the SPC has not read

VARIABLES
  hcount,       \* the count the line began at
  lastCycle,    \* SPC_LastCycle
  spcCycles,    \* what SPC_Run has left
  running,      \* SPC_Run is in its loop
  on,           \* the timer's bit in SPC_TimerEnable
  reload,       \* SPC_TimerReload
  low, high,    \* the two parts of SPC_TimerVal
  elapsed,      \* SPC_ElapsedCycles
  inPort, outPort,   \* SPC_IOPorts: what the CPU writes, what the SPC writes
  debt,         \* history: what the SPC owes the CPU, from both their clocks
  period, since, ticks
                \* history: the SPC cycles of a tick, 0 if the timer has no
                \* regular one; those since the last; the ticks not read

clock == <<hcount, lastCycle>>
timer == <<on, reload, low, high>>
count == <<period, since, ticks>>
vars == <<hcount, lastCycle, spcCycles, running, on, reload, low, high, elapsed,
          inPort, outPort, debt, period, since, ticks>>

Whole == 2 * Half
Longest == CHOOSE c \in OpCycles : \A d \in OpCycles : d <= c

TypeOK ==
  /\ hcount \in 0 .. Overrun
  /\ lastCycle \in -Ratio * LineLen .. Ratio * Overrun
  /\ spcCycles \in -SpcRatio * Longest .. Ratio * (LineLen + Overrun)
  /\ running \in BOOLEAN /\ on \in BOOLEAN
  /\ reload \in 0 .. Whole /\ low \in 0 .. Whole - 1
  /\ high \in 0 .. MaxTicks + 2
  /\ elapsed \in 0 .. Sample - 1
  /\ inPort \in 0 .. 1 /\ outPort \in 0 .. 1

\* Mem_Reset and SPC_InitMisc
Init ==
  /\ hcount = 0 /\ lastCycle = 0 /\ spcCycles = 0 /\ running = FALSE
  /\ on = FALSE /\ reload = 0 /\ low = 0 /\ high = 0 /\ elapsed = 0
  /\ inPort = 0 /\ outPort = 0
  /\ debt = 0 /\ period = 0 /\ since = 0 /\ ticks = 0

(****************************** The CPU ***********************************)

(* Variant: the line is not taken off the SPC's clock. *)
RunLine_Ahead == \E end \in LineLen .. LineLen + Overrun, p \in 0 .. 1 :
  LET given == Ratio * end - lastCycle
  IN /\ ~running
     /\ inPort' = p
     /\ hcount' = end - LineLen
     /\ lastCycle' = 0
     /\ debt' = debt + Ratio * (end - hcount)
     /\ spcCycles' = IF given > 0 THEN spcCycles + given ELSE spcCycles
     /\ running' = (given > 0 /\ spcCycles + given > 0)
     /\ UNCHANGED <<timer, elapsed, outPort, count>>

\* The CPU runs a line: it may write a port, and ends at or past its end. The
\* SPC is given the cycles since it was given some last.
RunLine == \E end \in LineLen .. LineLen + Overrun, p \in 0 .. 1 :
  LET given == Ratio * end - lastCycle
  IN /\ ~running
     /\ inPort' = p
     /\ hcount' = end - LineLen
     /\ lastCycle' = Ratio * end - Ratio * LineLen
     /\ debt' = debt + Ratio * (end - hcount)
     /\ spcCycles' = IF given > 0 THEN spcCycles + given ELSE spcCycles
     /\ running' = (given > 0 /\ spcCycles + given > 0)
     /\ UNCHANGED <<timer, elapsed, outPort, count>>

(****************************** The SPC ***********************************)

\* What follows every instruction of c cycles: the timer, as the instruction
\* left it (its value v), the mixer and the clock.
Value(l, h) == l + Whole * h

(* Variant: the mixes are not taken off the elapsed cycles. *)
AfterOp_Elapsed(c, en, rel, v) ==
  LET counted == v + c
      w == IF ~en THEN v
           ELSE IF (counted \div Half) % 2 = 0 THEN counted + rel ELSE counted
  IN /\ low' = w % Whole /\ high' = w \div Whole
     /\ elapsed' = elapsed + c
     /\ spcCycles' = spcCycles - SpcRatio * c
     /\ running' = (spcCycles' >= 0)
     /\ debt' = debt - SpcRatio * c

AfterOp(c, en, rel, v) ==
  LET counted == v + c
      w == IF ~en THEN v
           ELSE IF (counted \div Half) % 2 = 0 THEN counted + rel ELSE counted
  IN /\ low' = w % Whole /\ high' = w \div Whole
     /\ elapsed' = IF elapsed + c >= Sample THEN elapsed + c - Sample
                   ELSE elapsed + c
     /\ spcCycles' = spcCycles - SpcRatio * c
     /\ running' = (spcCycles' >= 0)
     /\ debt' = debt - SpcRatio * c

\* The same for the history of a timer that runs with the register at n.
Count(c, p, s, t, rel) ==
  IF p = 0 THEN UNCHANGED period /\ since' = 0 /\ ticks' = 0
  ELSE IF s + c >= p
       THEN /\ ticks' = t + 1
            /\ period' = IF rel \in Half + 1 .. Whole - 1 THEN Whole - rel ELSE 0
            /\ since' = IF period' = 0 THEN 0 ELSE s + c - p
       ELSE UNCHANGED period /\ since' = s + c /\ ticks' = t

Plain == \E c \in OpCycles :
  /\ AfterOp(c, on, reload, Value(low, high))
  /\ IF on THEN Count(c, period, since, ticks, reload) ELSE UNCHANGED count
  /\ UNCHANGED <<on, reload, inPort, outPort>>

(* Variant: the lower part is cleared as well. *)
ReadTimer_Clears == \E c \in OpCycles :
  /\ AfterOp(c, on, reload, 0)
  /\ IF on THEN Count(c, period, since, 0, reload)
     ELSE ticks' = 0 /\ UNCHANGED <<period, since>>
  /\ UNCHANGED <<on, reload, inPort, outPort>>

\* Reading 0xFD clears the upper part.
ReadTimer == \E c \in OpCycles :
  /\ AfterOp(c, on, reload, Value(low, 0))
  /\ IF on THEN Count(c, period, since, 0, reload)
     ELSE ticks' = 0 /\ UNCHANGED <<period, since>>
  /\ UNCHANGED <<on, reload, inPort, outPort>>

\* Writing 0xF1: every enabled timer starts again, every other one is
\* cleared; a pair of ports from the CPU may be cleared as well.
WriteControl == \E c \in OpCycles, en \in BOOLEAN, clear \in BOOLEAN :
  LET regular == en /\ reload \in Half + 1 .. Whole - 1
      p == IF regular THEN Whole - reload ELSE 0
  IN /\ AfterOp(c, en, reload, IF en THEN reload ELSE 0)
     /\ on' = en
     /\ inPort' = IF clear THEN 0 ELSE inPort
     /\ IF regular
        THEN IF c >= p THEN since' = c - p /\ ticks' = 1 /\ period' = p
             ELSE since' = c /\ ticks' = 0 /\ period' = p
        ELSE since' = 0 /\ ticks' = 0 /\ period' = 0
     /\ UNCHANGED <<reload, outPort>>

\* Writing 0xFA: the period from the next tick on.
WriteReload == \E c \in OpCycles, n \in Reloads :
  LET rel == Whole - n * Unit
  IN /\ AfterOp(c, on, rel, Value(low, high))
     /\ reload' = rel
     /\ IF on THEN Count(c, period, since, ticks, rel) ELSE UNCHANGED count
     /\ UNCHANGED <<on, inPort, outPort>>

WritePort == \E c \in OpCycles, p \in 0 .. 1 :
  /\ AfterOp(c, on, reload, Value(low, high))
  /\ outPort' = p
  /\ IF on THEN Count(c, period, since, ticks, reload) ELSE UNCHANGED count
  /\ UNCHANGED <<on, reload, inPort>>

SPC_Run ==
  /\ running /\ high <= MaxTicks
  /\ Plain \/ ReadTimer \/ WriteControl \/ WriteReload \/ WritePort
  /\ UNCHANGED clock

Next == RunLine \/ SPC_Run

Spec == Init /\ [][Next]_vars

(****************************** Properties ********************************)

\* The two processors keep in step for ever: what SPC_Run has left is what the
\* SPC owes the CPU, though lines end early or late and their counts are taken
\* off both clocks; between two lines it is at most one instruction ahead and
\* never behind.
SpcInStep ==
  /\ spcCycles = debt
  /\ ~running => debt <= 0 /\ debt >= -SpcRatio * Longest

\* A timer with a period ticks once for each, and loses no cycle of an
\* instruction that passes one: the lower part is always as far as the cycles
\* since the last tick, and the upper part is the ticks not read, whatever the
\* SPC reads and writes meanwhile. (A register of 0 has no period here.)
TimerRight ==
  on /\ period # 0 =>
    /\ low = Whole - period + since
    /\ high = ticks
=============================================================================
