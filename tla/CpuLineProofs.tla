---------------------------- MODULE CpuLineProofs ----------------------------
(* Proofs of the safety properties of CpuLine, for any length of a line and   *)
(* of its parts, any positions and any costs of instructions, as long as one  *)
(* turn of the loop fits into each part of a line (LineAssumption).           *)
EXTENDS CpuLine, TLAPS

(* How far the count may be: where the second part of a line may begin, and   *)
(* where a line may begin after the one before it ran over.                   *)
HalfEnd == IF LineLen > LastMatch THEN LineLen ELSE LastMatch + 1
LineStart == HalfEnd + Longest - LineLen

(* The count is never more than one turn of the loop past the part that has   *)
(* been run, so nothing piles up from line to line.                           *)
CountInv ==
  /\ at \in {"frame", "line", "vblank"} => hcount < LineStart
  /\ at = "enter" /\ goal = HBlank => hcount < LineStart
  /\ at = "loop" /\ goal = HBlank => hcount < LineStart \/ hcount < HBlank
  /\ at = "ran" /\ goal = HBlank => hcount < HalfEnd
  /\ at \in {"enter", "loop"} /\ goal = LineLen => hcount < HalfEnd
  /\ at = "ran" => hcount >= goal
  /\ hcount < HalfEnd + Longest

(* Where the lines of the frame are.                                          *)
PlaceInv ==
  /\ at # "frame" => line < TotalLines
  /\ at = "vblank" => line = ScreenHeight + 1

(* The registers and the schedule of the line agree.                          *)
MatchInv ==
  curh # None =>
    /\ hv # "off"
    /\ curh = IF hv = "v" THEN 0 ELSE hmatch
    /\ hv \in {"v", "hv"} => vcount = vmatch

(* What has become of the match when the line ends.                           *)
PastInv ==
  at = "ran" /\ goal = LineLen =>
    \/ curh = None \/ curh >= LineLen
    \/ last \in {"slept", "scheduled"}
    \/ curh + Fetch + Trigger >= latch

(* The NMI waits for the first instruction of the vertical blank, and is      *)
(* counted from then on.                                                      *)
NmiInv ==
  /\ nmi => owed /\ line > ScreenHeight /\ at \in {"line", "enter", "loop"}
  /\ line > ScreenHeight /\ at \in {"line", "enter", "loop", "ran"}
       => taken = IF owed /\ ~nmi THEN 1 ELSE 0

LineInv ==
  /\ TypeOK /\ CountInv /\ PlaceInv /\ MatchInv /\ PastInv /\ NmiInv

-----------------------------------------------------------------------------
(* The constants.                                                             *)

LEMMA Numbers ==
  /\ HBlank \in Nat /\ LineLen \in Nat /\ Fetch \in Nat /\ Trigger \in Nat /\ Longest \in Nat
  /\ LastMatch \in Nat /\ HalfEnd \in Nat /\ LineStart \in Nat
  /\ 0 < Fetch /\ Fetch + Trigger + Trigger <= Longest
  /\ Longest <= HBlank /\ HBlank + Longest <= LineLen /\ LineLen <= HalfEnd
  /\ LineStart + LineLen = HalfEnd + Longest
  /\ HalfEnd <= LineLen + LastMatch
  /\ HBlank # LineLen
<1>1. PICK m \in OpCycles : \A n \in OpCycles : n <= m
  BY LineAssumption
<1> DEFINE o == CHOOSE k \in OpCycles : \A n \in OpCycles : n <= k
<1>2. o \in OpCycles /\ \A n \in OpCycles : n <= o
  BY <1>1
<1>3. o \in Nat
  BY <1>2, LineAssumption
<1>4. Longest = Fetch + Trigger + Trigger + o
  BY DEF Longest
<1>5. PICK h \in HMatches : \A n \in HMatches : n <= h
  BY LineAssumption
<1>6. LastMatch \in HMatches
  BY <1>5 DEF LastMatch
<1>7. LastMatch \in Nat
  BY <1>6, LineAssumption
<1>8. /\ HBlank \in Nat /\ LineLen \in Nat /\ Fetch \in Nat /\ Trigger \in Nat /\ 0 < Fetch
      /\ Longest <= HBlank /\ HBlank + Longest <= LineLen
  BY LineAssumption
<1> HIDE DEF o
<1>9. /\ Longest \in Nat /\ Fetch + Trigger + Trigger <= Longest /\ 0 < LineLen
      /\ HBlank # LineLen
  BY <1>3, <1>4, <1>8
<1>10. HalfEnd \in Nat /\ LineLen <= HalfEnd /\ HalfEnd <= LineLen + LastMatch
  BY <1>7, <1>8, <1>9 DEF HalfEnd
<1> QED
  BY <1>7, <1>8, <1>9, <1>10 DEF LineStart

LEMMA Cycles ==
  ASSUME NEW t \in OpCycles
  PROVE  t \in Nat /\ Fetch + Trigger + Trigger + t <= Longest
<1>1. PICK m \in OpCycles : \A n \in OpCycles : n <= m
  BY LineAssumption
<1> DEFINE o == CHOOSE k \in OpCycles : \A n \in OpCycles : n <= k
<1>2. o \in OpCycles /\ t <= o
  BY <1>1
<1>3. Longest = Fetch + Trigger + Trigger + o
  BY DEF Longest
<1>4. o \in Nat /\ t \in Nat
  BY <1>2, LineAssumption
<1> HIDE DEF o
<1> QED
  BY <1>2, <1>3, <1>4, Numbers

LEMMA Matches ==
  /\ \A h \in HMatches : h \in Nat /\ h <= LastMatch /\ h < HalfEnd /\ h < None
  /\ 0 \in HMatches /\ 0 \in VMatches
  /\ LineLen < None /\ None \in Nat
<1>1. PICK m \in HMatches : \A n \in HMatches : n <= m
  BY LineAssumption
<1>2. LastMatch \in HMatches /\ \A n \in HMatches : n <= LastMatch
  BY <1>1 DEF LastMatch
<1>3. LastMatch < HalfEnd
  BY Numbers DEF HalfEnd
<1>4. LineLen + LastMatch + Longest < None
  BY LineAssumption
<1>5. None \in Nat
  BY DEF None
<1>6. SUFFICES ASSUME NEW h \in HMatches
               PROVE  h \in Nat /\ h <= LastMatch /\ h < HalfEnd /\ h < None
  BY <1>4, <1>5, Numbers, LineAssumption
<1>7. h \in Nat /\ h <= LastMatch
  BY <1>2, LineAssumption
<1> QED
  BY <1>3, <1>4, <1>5, <1>7, Numbers

-----------------------------------------------------------------------------
(* The steps of the frame.                                                    *)

LEMMA InitInv == Init => LineInv
<1> SUFFICES ASSUME Init PROVE LineInv
  OBVIOUS
<1>1. 0 < LineStart /\ 0 < HalfEnd
  BY Numbers
<1>2. TypeOK
  <2>1. /\ line \in 0 .. TotalLines /\ vcount \in 0 .. TotalLines - 1
        /\ hcount \in Nat /\ latch \in Nat
    BY LineAssumption DEF Init
  <2>2. hcount < LineLen + LastMatch + Longest
    BY Numbers DEF Init
  <2>3. hmatch \in HMatches /\ vmatch \in VMatches
    BY Matches DEF Init
  <2>4. {nmiOn, w, i, nmi, irqAck, nmiAck, vblank, owed} \subseteq BOOLEAN
    BY DEF Init
  <2>5. goal \in {HBlank, LineLen} /\ curh = None /\ hv \in HV /\ taken \in 0 .. 2
    BY DEF Init, HV
  <2> QED
    BY <2>1, <2>2, <2>3, <2>4, <2>5 DEF Init, TypeOK
<1>3. CountInv
  BY <1>1, Numbers DEF Init, CountInv
<1>4. PlaceInv /\ MatchInv /\ PastInv /\ NmiInv
  BY DEF Init, PlaceInv, MatchInv, PastInv, NmiInv
<1> QED
  BY <1>2, <1>3, <1>4 DEF LineInv

LEMMA BeginFrameInv == LineInv /\ BeginFrame => LineInv'
<1> SUFFICES ASSUME LineInv, BeginFrame PROVE LineInv'
  OBVIOUS
<1> USE DEF LineInv, BeginFrame, regs, hist
<1>1. TypeOK'
  BY LineAssumption DEF TypeOK
<1>2. CountInv'
  BY DEF CountInv
<1>3. PlaceInv'
  BY LineAssumption DEF PlaceInv
<1>4. MatchInv' /\ PastInv' /\ NmiInv'
  BY LineAssumption DEF MatchInv, PastInv, NmiInv
<1> QED
  BY <1>1, <1>2, <1>3, <1>4

LEMMA StartLineInv == LineInv /\ StartLine => LineInv'
<1> SUFFICES ASSUME LineInv, StartLine PROVE LineInv'
  OBVIOUS
<1> USE DEF LineInv, StartLine, regs, hist
<1>1. line \in 0 .. TotalLines - 1
  BY LineAssumption DEF TypeOK, PlaceInv
<1>2. MatchOf(line) \in HMatches \cup {0, None}
  BY DEF TypeOK, MatchOf
<1>3. TypeOK'
  BY <1>1, <1>2 DEF TypeOK
<1>4. hcount < LineStart /\ hcount \in Nat /\ goal \in {HBlank, LineLen}
  BY DEF CountInv, TypeOK
<1>5. CountInv'
  BY <1>4, Numbers DEF CountInv
<1>6. PlaceInv'
  BY DEF PlaceInv
<1>7. MatchInv'
  BY DEF MatchInv, MatchOf, TypeOK, HV
<1>8. PastInv' /\ NmiInv'
  BY DEF PastInv, NmiInv
<1> QED
  BY <1>3, <1>5, <1>6, <1>7, <1>8

LEMMA HBlankInv == LineInv /\ HBlankOfLine => LineInv'
<1> SUFFICES ASSUME LineInv, HBlankOfLine PROVE LineInv'
  OBVIOUS
<1> USE DEF LineInv, HBlankOfLine, regs, hist
<1>1. TypeOK'
  BY DEF TypeOK
<1>2. hcount < HalfEnd /\ hcount \in Nat
  BY DEF CountInv, TypeOK
<1>3. CountInv'
  BY <1>2, Numbers DEF CountInv
<1>4. PlaceInv' /\ MatchInv' /\ PastInv' /\ NmiInv'
  BY DEF PlaceInv, MatchInv, PastInv, NmiInv
<1> QED
  BY <1>1, <1>3, <1>4

LEMMA EndLineInv == LineInv /\ EndLine => LineInv'
<1> SUFFICES ASSUME LineInv, EndLine PROVE LineInv'
  OBVIOUS
<1> USE DEF LineInv, EndLine, regs, hist
<1>1. line \in 0 .. TotalLines - 1
  BY LineAssumption DEF TypeOK, PlaceInv
<1>2. hcount \in Nat /\ LineLen <= hcount /\ hcount < HalfEnd + Longest
  BY DEF CountInv, TypeOK
<1>3. hcount' \in Nat /\ hcount' < LineStart
  BY <1>2, Numbers
<1>4. at' \in {"frame", "line", "vblank"} /\ goal' \in {HBlank, LineLen}
  BY DEF NextLine
<1>5. hcount' < LineLen + LastMatch + Longest /\ hcount' < HalfEnd + Longest
  BY <1>3, Numbers
<1>6. vblank' \in BOOLEAN /\ nmiAck' \in BOOLEAN
  BY DEF TypeOK
<1>7. TypeOK'
  BY <1>1, <1>3, <1>4, <1>5, <1>6, LineAssumption DEF TypeOK
<1>8. CountInv'
  BY <1>3, <1>4, <1>5 DEF CountInv
<1>9. PlaceInv'
  BY <1>1, LineAssumption DEF PlaceInv, NextLine
<1>10. MatchInv' /\ PastInv'
  BY <1>4 DEF MatchInv, PastInv
<1>11. NmiInv'
  <2>1. ~nmi /\ ~nmi'
    BY DEF NmiInv, TypeOK
  <2>2. line' > ScreenHeight /\ at' = "line" => line > ScreenHeight
    BY <1>1, LineAssumption DEF NextLine
  <2> QED
    BY <1>4, <2>1, <2>2 DEF NmiInv
<1> QED
  BY <1>7, <1>8, <1>9, <1>10, <1>11

LEMMA BeginVBlankInv == LineInv /\ BeginVBlank => LineInv'
<1> SUFFICES ASSUME LineInv, BeginVBlank PROVE LineInv'
  OBVIOUS
<1> USE DEF LineInv, BeginVBlank, regs
<1>1. TypeOK'
  BY DEF TypeOK
<1>2. CountInv'
  BY DEF CountInv
<1>3. PlaceInv'
  BY LineAssumption DEF PlaceInv
<1>4. MatchInv' /\ PastInv'
  BY DEF MatchInv, PastInv
<1>5. ~nmi /\ line > ScreenHeight /\ nmiOn \in BOOLEAN
  BY LineAssumption DEF NmiInv, PlaceInv, TypeOK
<1>6. NmiInv'
  BY <1>5 DEF NmiInv
<1> QED
  BY <1>1, <1>2, <1>3, <1>4, <1>6

LEMMA EnterInv == LineInv /\ Enter => LineInv'
<1> SUFFICES ASSUME LineInv, Enter PROVE LineInv'
  OBVIOUS
<1> USE DEF LineInv, Enter, regs, hist
<1>1. /\ at = "enter" /\ at' \in {"loop", "ran"} /\ w' \in BOOLEAN
      /\ UNCHANGED <<goal, line, vcount, latch, hv, nmiOn, hmatch, vmatch, curh, i, nmi>>
      /\ UNCHANGED <<irqAck, nmiAck, vblank, last, taken, owed>>
  BY DEF TypeOK
<1>2. /\ curh \in HMatches \cup {0, None} /\ goal \in {HBlank, LineLen}
      /\ hcount \in Nat /\ hcount < HalfEnd + Longest
  BY DEF TypeOK, CountInv
<1>3. curh # None => curh \in Nat /\ curh < HalfEnd
  BY <1>2, Matches
<1>4. \/ hcount' = hcount /\ at' = "loop"
      \/ hcount' = goal /\ at' = "ran" /\ curh = None
      \/ hcount' = curh /\ at' = "loop" /\ curh # None /\ curh < goal
      \/ hcount' = curh /\ at' = "ran" /\ curh # None /\ curh >= goal
  BY <1>2, <1>3, Numbers
<1> HIDE DEF Enter, LineInv
<1>12. goal \in Nat /\ goal <= HalfEnd /\ 0 < Longest
  BY <1>2, Numbers
<1>5. hcount' \in Nat /\ hcount' < HalfEnd + Longest
  <2>1. CASE hcount' = hcount
    BY <1>2, <2>1
  <2>2. CASE hcount' = goal
    BY <1>12, <2>2, Numbers
  <2>3. CASE hcount' = curh /\ curh # None
    BY <1>3, <1>12, <2>3, Numbers
  <2> QED
    BY <1>4, <2>1, <2>2, <2>3
<1>6. hcount' < LineLen + LastMatch + Longest
  BY <1>5, Numbers
<1>7. TypeOK'
  BY <1>1, <1>5, <1>6 DEF LineInv, TypeOK
<1>8. CountInv'
  <2>1. /\ goal = HBlank => hcount < LineStart
        /\ goal = LineLen => hcount < HalfEnd
    BY <1>1 DEF LineInv, CountInv
  <2>2. hcount' = hcount \/ hcount' <= goal \/ hcount' < HalfEnd
    BY <1>3, <1>4, <1>12
  <2>3. at' = "ran" => hcount' >= goal
    BY <1>3, <1>4, <1>12
  <2>6. at' = "ran" /\ goal = HBlank => hcount' < HalfEnd
    <3>1. HBlank < HalfEnd
      BY Numbers
    <3> QED
      BY <1>3, <1>4, <3>1
  <2>4. at' = "loop" /\ goal = HBlank => hcount' < LineStart \/ hcount' < HBlank
    BY <1>3, <1>4, <2>1
  <2>5. at' = "loop" /\ goal = LineLen => hcount' < HalfEnd
    BY <1>3, <1>4, <2>1, Numbers
  <2> QED
    BY <1>1, <1>5, <2>3, <2>4, <2>5, <2>6, Numbers DEF CountInv
<1>9. PlaceInv' /\ MatchInv'
  BY <1>1 DEF LineInv, PlaceInv, MatchInv
<1>10. PastInv'
  BY <1>1, <1>4 DEF PastInv
<1>11. NmiInv'
  <2>1. at' = "ran" => ~nmi
    BY DEF Enter
  <2> QED
    BY <1>1, <2>1 DEF LineInv, NmiInv
<1> QED
  BY <1>7, <1>8, <1>9, <1>10, <1>11 DEF LineInv

-----------------------------------------------------------------------------
(* One turn of the loop: how far it may go and what it leaves of the          *)
(* registers, whichever instruction it is.                                    *)

Moved ==
  /\ UNCHANGED <<goal, line, vcount, vblank, owed>>
  /\ latch' = CountAtOp /\ nmi' = FALSE
  /\ taken' = IF nmi THEN (IF taken = 0 THEN 1 ELSE 2) ELSE taken
  /\ at' = IF hcount' < goal THEN "loop" ELSE "ran"

Registers ==
  /\ hv' \in HV /\ hmatch' \in HMatches /\ vmatch' \in VMatches
  /\ curh' \in HMatches \cup {0, None}
  /\ {nmiOn', w', i', irqAck', nmiAck'} \subseteq BOOLEAN

LEMMA OpCount ==
  ASSUME TypeOK, NEW t \in OpCycles \cup {0}, NEW wait \in BOOLEAN, NEW disable, NEW acked,
         t \in OpCycles \/ wait, Op(t, wait, disable, acked)
  PROVE  /\ hcount' \in Nat
         /\ hcount' <= hcount + Longest \/ hcount' <= goal + Trigger
<1>1. /\ hcount \in Nat /\ goal \in Nat /\ Trigger \in Nat /\ Fetch \in Nat
      /\ Longest \in Nat
  BY Numbers DEF TypeOK
<1>2. t \in Nat /\ (t \in OpCycles => Fetch + Trigger + Trigger + t <= Longest)
  BY Cycles
<1>3. CountAtOp \in Nat /\ CountAtOp <= hcount + Trigger + Fetch
  BY <1>1 DEF CountAtOp
<1>4. hcount' = (IF wait THEN goal ELSE CountAtOp + t) + (IF nmi THEN Trigger ELSE 0)
  BY DEF Op
<1>5. CASE wait
  BY <1>1, <1>4, <1>5
<1>6. CASE ~wait
  <2>1. hcount' = CountAtOp + t + (IF nmi THEN Trigger ELSE 0)
    BY <1>4, <1>6
  <2>2. Fetch + Trigger + Trigger + t <= Longest
    BY <1>2, <1>6
  <2> QED
    BY <1>1, <1>2, <1>3, <2>1, <2>2
<1> QED
  BY <1>5, <1>6

LEMMA OpFlags ==
  ASSUME TypeOK, NEW t, NEW wait \in BOOLEAN, NEW disable \in BOOLEAN, NEW acked \in BOOLEAN,
         Op(t, wait, disable, acked)
  PROVE  w' \in BOOLEAN /\ i' \in BOOLEAN /\ irqAck' \in BOOLEAN
BY DEF Op

LEMMA RescheduleFits ==
  ASSUME NEW c \in HV, NEW h \in HMatches, NEW v \in VMatches
  PROVE  /\ Reschedule(c, h, v) \in HMatches \cup {0, None}
         /\ Reschedule(c, h, v) # None =>
              /\ c # "off"
              /\ Reschedule(c, h, v) = IF c = "v" THEN 0 ELSE h
              /\ c \in {"v", "hv"} => vcount = v
BY DEF Reschedule, HV

LEMMA CurFits ==
  ASSUME TypeOK, MatchInv
  PROVE  /\ CurAtOp \in HMatches \cup {0, None}
         /\ CurAtOp # None => CurAtOp = curh
BY DEF TypeOK, CurAtOp

LEMMA StepFits ==
  ASSUME LineInv, Step
  PROVE  /\ hcount' \in Nat
         /\ hcount' <= hcount + Longest \/ hcount' <= goal + Trigger
         /\ Registers /\ MatchInv' /\ Moved
<1>1. TypeOK /\ MatchInv
  BY DEF LineInv
<1>2. Moved
  BY DEF Step, AfterOp, Moved
<1>3. /\ CurAtOp \in HMatches \cup {0, None} /\ (CurAtOp # None => CurAtOp = curh)
      /\ hv \in HV /\ hmatch \in HMatches /\ vmatch \in VMatches
      /\ nmiOn \in BOOLEAN /\ nmiAck \in BOOLEAN
  BY <1>1, CurFits DEF TypeOK
<1>4. IAtOp \in BOOLEAN /\ TRUE \in BOOLEAN /\ FALSE \in BOOLEAN
  BY DEF IAtOp
<1> DEFINE Goes(t, wait, disable, acked) ==
      /\ t \in OpCycles \cup {0} /\ wait \in BOOLEAN /\ disable \in BOOLEAN /\ acked \in BOOLEAN
      /\ t \in OpCycles \/ wait
      /\ Op(t, wait, disable, acked)
<1>5. ASSUME NEW t, NEW wait, NEW disable, NEW acked, Goes(t, wait, disable, acked)
      PROVE  /\ hcount' \in Nat
             /\ hcount' <= hcount + Longest \/ hcount' <= goal + Trigger
             /\ w' \in BOOLEAN /\ i' \in BOOLEAN /\ irqAck' \in BOOLEAN
  BY <1>1, <1>5, OpCount, OpFlags
<1>6. CASE /\ curh' = CurAtOp /\ UNCHANGED regs
           /\ nmiAck' = nmiAck \/ nmiAck' = FALSE
           /\ \E t, wait, disable, acked : Goes(t, wait, disable, acked)
  <2>1. UNCHANGED <<hv, nmiOn, hmatch, vmatch, vcount>>
    BY <1>2, <1>6 DEF regs, Moved
  <2>2. MatchInv'
    BY <1>1, <1>3, <1>6, <2>1 DEF MatchInv
  <2> QED
    BY <1>2, <1>3, <1>5, <1>6, <2>1, <2>2 DEF Registers
<1>7. CASE Plain
  BY <1>4, <1>6, <1>7 DEF Plain
<1>8. CASE SetI
  BY <1>4, <1>6, <1>8 DEF SetI
<1>9. CASE WAI
  BY <1>4, <1>6, <1>9 DEF WAI
<1>10. CASE ReadIrq
  BY <1>4, <1>6, <1>10 DEF ReadIrq
<1>11. CASE ReadNmi
  BY <1>4, <1>6, <1>11 DEF ReadNmi
<1>12. CASE WriteCond
  <2>1. PICK t \in OpCycles, c \in HV, n \in BOOLEAN :
          /\ Op(t, FALSE, IAtOp, c = "off")
          /\ hv' = c /\ nmiOn' = n
          /\ curh' = IF c # hv THEN Reschedule(c, hmatch, vmatch) ELSE CurAtOp
          /\ UNCHANGED <<hmatch, vmatch, nmiAck>>
    BY <1>12 DEF WriteCond
  <2>2. Goes(t, FALSE, IAtOp, c = "off")
    BY <1>4, <2>1
  <2>3. /\ Reschedule(c, hmatch, vmatch) \in HMatches \cup {0, None}
        /\ Reschedule(c, hmatch, vmatch) # None =>
             /\ c # "off"
             /\ Reschedule(c, hmatch, vmatch) = IF c = "v" THEN 0 ELSE hmatch
             /\ c \in {"v", "hv"} => vcount = vmatch
    BY <1>3, RescheduleFits
  <2>4. MatchInv'
    BY <1>1, <1>2, <1>3, <2>1, <2>3 DEF MatchInv, Moved
  <2> QED
    BY <1>2, <1>3, <1>5, <2>1, <2>2, <2>3, <2>4 DEF Registers
<1>13. CASE WriteHMatch
  <2>1. PICK t \in OpCycles, h \in HMatches :
          /\ Op(t, FALSE, IAtOp, FALSE)
          /\ hmatch' = h
          /\ curh' = IF hv \in {"h", "hv"} THEN Reschedule(hv, h, vmatch) ELSE CurAtOp
          /\ UNCHANGED <<hv, nmiOn, vmatch, nmiAck>>
    BY <1>13 DEF WriteHMatch
  <2>2. Goes(t, FALSE, IAtOp, FALSE)
    BY <1>4, <2>1
  <2>3. /\ Reschedule(hv, h, vmatch) \in HMatches \cup {0, None}
        /\ Reschedule(hv, h, vmatch) # None =>
             /\ hv # "off"
             /\ Reschedule(hv, h, vmatch) = IF hv = "v" THEN 0 ELSE h
             /\ hv \in {"v", "hv"} => vcount = vmatch
    BY <1>3, RescheduleFits
  <2>4. MatchInv'
    BY <1>1, <1>2, <1>3, <2>1, <2>3 DEF MatchInv, Moved, HV
  <2> QED
    BY <1>2, <1>3, <1>5, <2>1, <2>2, <2>3, <2>4 DEF Registers
<1>14. CASE WriteVMatch
  <2>1. PICK t \in OpCycles, v \in VMatches :
          /\ Op(t, FALSE, IAtOp, FALSE)
          /\ vmatch' = v
          /\ curh' = IF hv \in {"v", "hv"} THEN Reschedule(hv, hmatch, v) ELSE CurAtOp
          /\ UNCHANGED <<hv, nmiOn, hmatch, nmiAck>>
    BY <1>14 DEF WriteVMatch
  <2>2. Goes(t, FALSE, IAtOp, FALSE)
    BY <1>4, <2>1
  <2>3. /\ Reschedule(hv, hmatch, v) \in HMatches \cup {0, None}
        /\ Reschedule(hv, hmatch, v) # None =>
             /\ hv # "off"
             /\ Reschedule(hv, hmatch, v) = IF hv = "v" THEN 0 ELSE hmatch
             /\ hv \in {"v", "hv"} => vcount = v
    BY <1>3, RescheduleFits
  <2>4. MatchInv'
    BY <1>1, <1>2, <1>3, <2>1, <2>3 DEF MatchInv, Moved, HV
  <2> QED
    BY <1>2, <1>3, <1>5, <2>1, <2>2, <2>3, <2>4 DEF Registers
<1> QED
  BY <1>7, <1>8, <1>9, <1>10, <1>11, <1>12, <1>13, <1>14 DEF Step

LEMMA StepInv == LineInv /\ Step => LineInv'
<1> SUFFICES ASSUME LineInv, Step PROVE LineInv'
  OBVIOUS
<1>1. /\ hcount' \in Nat
      /\ hcount' <= hcount + Longest \/ hcount' <= goal + Trigger
      /\ Registers /\ MatchInv' /\ Moved
  BY StepFits
<1>2. TypeOK /\ CountInv /\ PlaceInv /\ NmiInv /\ at = "loop"
  BY DEF LineInv, Step
<1>3. hcount \in Nat /\ goal \in {HBlank, LineLen} /\ goal' = goal
  BY <1>1, <1>2 DEF TypeOK, Moved
<1>4. /\ goal = HBlank => hcount' < HalfEnd
      /\ goal = LineLen => hcount' < HalfEnd + Longest
  <2>1. CASE goal = HBlank
    <3>1. hcount < LineStart \/ hcount < HBlank
      BY <1>2, <2>1 DEF CountInv
    <3>2. LineStart + Longest <= HalfEnd
      BY Numbers
    <3>3. HBlank + Longest <= HalfEnd /\ Trigger < Longest
      BY Numbers
    <3> QED
      BY <1>1, <1>3, <2>1, <3>1, <3>2, <3>3, Numbers
  <2>2. CASE goal = LineLen
    <3>1. hcount < HalfEnd /\ Trigger < Longest
      BY <1>2, <2>2, Numbers DEF CountInv
    <3> QED
      BY <1>1, <1>3, <2>2, <3>1, Numbers
  <2> QED
    BY <1>3, <2>1, <2>2, Numbers
<1>5. hcount' < HalfEnd + Longest /\ hcount' < LineLen + LastMatch + Longest
  BY <1>1, <1>3, <1>4, Numbers
<1>6. at' = IF hcount' < goal THEN "loop" ELSE "ran"
  BY <1>1 DEF Moved
<1>7. TypeOK'
  <2>1. latch' \in Nat
    BY <1>1, <1>3, Numbers DEF Moved, CountAtOp
  <2>2. taken' \in 0 .. 2 /\ last' \in {"slept", "scheduled", "other"}
    BY <1>1, <1>2 DEF Moved, TypeOK, Step, AfterOp
  <2>3. /\ line' = line /\ vcount' = vcount /\ vblank' = vblank /\ owed' = owed
        /\ nmi' = FALSE /\ at' \in {"loop", "ran"}
    BY <1>1, <1>6 DEF Moved
  <2> QED
    BY <1>1, <1>2, <1>3, <1>5, <2>1, <2>2, <2>3 DEF TypeOK, Registers
<1>8. CountInv'
  <2>1. at' = "ran" => hcount' >= goal
    BY <1>1, <1>3, <1>6, Numbers
  <2>2. at' = "loop" => hcount' < goal
    BY <1>6
  <2>3. LineLen <= HalfEnd
    BY Numbers
  <2>4. at' \in {"loop", "ran"}
    BY <1>6
  <2> QED
    BY <1>1, <1>3, <1>4, <1>5, <2>1, <2>2, <2>3, <2>4, Numbers DEF CountInv
<1>9. PlaceInv'
  BY <1>1, <1>2, <1>6 DEF PlaceInv, Moved
<1>10. NmiInv'
  BY <1>1, <1>2, <1>6 DEF NmiInv, Moved, TypeOK
<1>11. PastInv'
  <2> SUFFICES ASSUME curh' # None, last' \notin {"slept", "scheduled"}
               PROVE  curh' + Fetch + Trigger >= latch'
    BY DEF PastInv
  <2>1. curh' = CurAtOp
    BY DEF Step, AfterOp
  <2>2. curh' = curh /\ ~Due
    BY <2>1 DEF CurAtOp
  <2>3. curh \in Nat
    BY <1>2, <2>2, Matches DEF TypeOK
  <2>4. hcount < curh
    BY <1>3, <2>2, <2>3 DEF Due
  <2>5. latch' = hcount + (IF Taken THEN Trigger ELSE 0) + Fetch
    BY <1>1 DEF Moved, CountAtOp
  <2> QED
    BY <1>3, <2>2, <2>3, <2>4, <2>5, Numbers
<1> QED
  BY <1>1, <1>7, <1>8, <1>9, <1>10, <1>11 DEF LineInv

-----------------------------------------------------------------------------

LEMMA LineStep == LineInv /\ [Next]_vars => LineInv'
<1>1. LineInv /\ UNCHANGED vars => LineInv'
  BY DEF vars, LineInv, TypeOK, CountInv, PlaceInv, MatchInv, PastInv, NmiInv
<1> QED
  BY <1>1, BeginFrameInv, StartLineInv, HBlankInv, EndLineInv, BeginVBlankInv, EnterInv,
     StepInv DEF Next, Frame

(* The invariant holds of every frame, for any game and any length of lines.  *)
THEOREM LineInvariance == Spec => []LineInv
<1> QED BY InitInv, LineStep, PTL DEF Spec

(* The IRQ that is scheduled is the one the registers ask for, and the count  *)
(* of cycles stays within a turn of the loop of the line's end (cpu.s,        *)
(* CPU_MainLoop; memory.c, SNES_RescheduleIRQ).                               *)
THEOREM SchedulesAreRight == Spec => []ScheduleRight
<1>1. LineInv => ScheduleRight
  BY DEF LineInv, MatchInv, ScheduleRight
<1> QED
  BY <1>1, LineInvariance, PTL

(* No line passes its match unnoticed, and each vertical blank is seen by one *)
(* NMI if it was enabled, and by none otherwise (cpu.s, CPU_Run and           *)
(* CPU_TriggerNMI).                                                           *)
THEOREM InterruptsAreTaken == Spec => InterruptsTaken
<1>1. LineInv /\ [Next]_vars => [MatchTaken /\ NmiOnce]_vars
  <2> SUFFICES ASSUME LineInv, Next PROVE MatchTaken /\ NmiOnce
    OBVIOUS
  <2>1. MatchTaken
    BY DEF LineInv, PastInv, MatchTaken, EndLine
  <2>2. ASSUME at = "ran", at' = "frame" PROVE taken = IF owed THEN 1 ELSE 0
    <3>1. EndLine /\ NextLine = "frame"
      <4>1. ~Step /\ ~Enter /\ ~BeginFrame /\ ~StartLine /\ ~HBlankOfLine /\ ~BeginVBlank
        BY <2>2 DEF Step, Enter, BeginFrame, StartLine, HBlankOfLine, BeginVBlank
      <4> QED
        BY <2>2, <4>1 DEF Next, Frame, EndLine
    <3>2. line > ScreenHeight
      BY <3>1, LineAssumption DEF NextLine
    <3> QED
      BY <2>2, <3>2 DEF LineInv, NmiInv, TypeOK
  <2> QED
    BY <2>1, <2>2 DEF NmiOnce
<1> QED
  BY <1>1, LineInvariance, PTL DEF Spec, InterruptsTaken
=============================================================================
