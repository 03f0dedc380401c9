----------------------------- MODULE BoardProofs -----------------------------
(***************************************************************************)
(* Proofs about the drivers of the board. Each part has an inductive       *)
(* invariant of its own, which its steps preserve, and the steps of the    *)
(* others leave alone.                                                     *)
(***************************************************************************)
EXTENDS Board, SequenceTheorems, WellFoundedInduction, TLAPS

(* Input: of the scans that are whole, the data is that of the last, when  *)
(* no scan has begun to decode; what the reader has out is of one of them, *)
(* and of the last if nothing fresh is there.                              *)
Scanned(n) == IF n = 0 THEN {} ELSE log[n]
Edges(n)   == IF n <= 1 THEN {} ELSE log[n] \ log[n - 1]

PadOwners ==
  /\ owner = "scan" <=> scanAt \in {"buttons", "rest", "unlock"}
  /\ owner = "reader" <=> readAt \in {"down", "rest", "fresh", "unlock"}

PadData ==
  /\ rest = Len(log) /\ raw[2] = scans
  /\ first <=> Len(log) = 0
  /\ scans = IF scanAt \in {"lock", "buttons", "rest"} THEN Len(log) + 1 ELSE Len(log)
  /\ scanAt # "rest" => down = Scanned(Len(log)) /\ pressed = Edges(Len(log))
  /\ scanAt = "rest" => pressed = down \ Scanned(Len(log))

PadOut ==
  /\ readAt = "rest" => outDown = down /\ outPressed = pressed
  /\ readAt # "rest" =>
       outRest <= Len(log) /\ outDown = Scanned(outRest) /\ outPressed = Edges(outRest)
  /\ readAt \in {"fresh", "unlock"} => outRest = Len(log)
  /\ ~fresh => outRest = Len(log)
  /\ readAt \in {"lock", "down", "rest", "fresh"} => fresh
  /\ readAt # "out" => since <= Len(log)
  /\ readAt = "return" => since <= outRest

PadInv == Pad!TypeOK /\ PadOwners /\ PadData /\ PadOut

(* What has been scanned stays: a scan adds to the end of the log.         *)
LEMMA PadAppend ==
  ASSUME PadInv, NEW b \in SUBSET Buttons, log' = Append(log, b)
  PROVE  /\ log' \in Seq(SUBSET Buttons) /\ Len(log) \in Nat /\ Len(log)' = Len(log) + 1
         /\ \A n \in 0 .. Len(log) :
              Scanned(n) \in SUBSET Buttons /\ Scanned(n)' = Scanned(n) /\ Edges(n)' = Edges(n)
         /\ Scanned(Len(log))' = b
         /\ Edges(Len(log))' = IF Len(log) = 0 THEN {} ELSE b \ Scanned(Len(log))
<1>1. log \in Seq(SUBSET Buttons) /\ Len(log) \in Nat
  BY LenProperties DEF PadInv, Pad!TypeOK
<1>2. /\ log' \in Seq(SUBSET Buttons) /\ Len(log') = Len(log) + 1
      /\ log'[Len(log) + 1] = b
      /\ \A n \in 1 .. Len(log) : log[n] \in SUBSET Buttons /\ log'[n] = log[n]
  BY <1>1, AppendProperties, ElementOfSeq
<1>3. \A n \in 0 .. Len(log) : Scanned(n) \in SUBSET Buttons /\ Scanned(n)' = Scanned(n)
  BY <1>1, <1>2 DEF Scanned
<1>4. \A n \in 0 .. Len(log) : Edges(n)' = Edges(n)
  <2> TAKE n \in 0 .. Len(log)
  <2>1. CASE n <= 1
    BY <2>1 DEF Edges
  <2>2. CASE n > 1
    <3>1. n \in 1 .. Len(log) /\ n - 1 \in 1 .. Len(log)
      BY <1>1, <2>2
    <3> QED
      BY <1>2, <3>1 DEF Edges
  <2> QED
    BY <1>1, <2>1, <2>2
<1>5. Scanned(Len(log))' = b
  BY <1>1, <1>2 DEF Scanned
<1>6. Edges(Len(log))' = IF Len(log) = 0 THEN {} ELSE b \ Scanned(Len(log))
  <2>1. CASE Len(log) = 0
    BY <1>2, <2>1 DEF Edges
  <2>2. CASE Len(log) > 0
    <3>1. Len(log) \in 1 .. Len(log) /\ Len(log') - 1 = Len(log) /\ Len(log') > 1
      BY <1>1, <1>2, <2>2
    <3> QED
      BY <1>2, <2>2, <3>1 DEF Edges, Scanned
  <2> QED
    BY <1>1, <2>1, <2>2
<1> QED
  BY <1>1, <1>2, <1>3, <1>4, <1>5, <1>6

LEMMA PadInit == ASSUME Pad!Init PROVE PadInv
<1>1. Len(log) = 0 /\ log \in Seq(SUBSET Buttons)
  BY EmptySeq DEF Pad!Init
<1> QED
  <2> USE BoardAssumption DEF Pad!Init, Pad!None
  <2>1. Pad!TypeOK
    <3>1. MaxScans \in Nat
      OBVIOUS
    <3>2. raw \in (SUBSET Buttons) \X (0 .. MaxScans) /\ {} \in SUBSET Buttons
      BY <3>1
    <3> QED
      BY <1>1, <3>1, <3>2 DEF Pad!TypeOK
  <2>2. PadOwners
    BY DEF PadOwners
  <2>3. PadData
    BY <1>1 DEF PadData, Scanned, Edges
  <2>4. PadOut
    BY <1>1 DEF PadOut, Scanned, Edges
  <2> QED
    BY <2>1, <2>2, <2>3, <2>4 DEF PadInv

LEMMA PadStep == ASSUME PadInv, [Pad!Next]_padVars PROVE PadInv'
<1> USE BoardAssumption DEF Pad!None
<1>0. log \in Seq(SUBSET Buttons) /\ Len(log) \in Nat
  BY LenProperties DEF PadInv, Pad!TypeOK
<1>1. ASSUME UNCHANGED log
      PROVE  /\ Len(log)' = Len(log)
             /\ \A n : Scanned(n)' = Scanned(n) /\ Edges(n)' = Edges(n)
  BY <1>1 DEF Scanned, Edges
<1>2. CASE UNCHANGED padVars
  BY <1>2, <1>1 DEF padVars, PadInv, Pad!TypeOK, PadOwners, PadData, PadOut
<1>3. CASE Pad!UIC_GetInputData
  BY <1>3, <1>1, <1>0, SMTT(30)
  DEF Pad!UIC_GetInputData, Pad!data, Pad!out, PadInv, Pad!TypeOK, PadOwners, PadData, PadOut
<1>4. CASE Pad!ScanAcquire
  BY <1>4, <1>1, <1>0
  DEF Pad!ScanAcquire, Pad!data, Pad!out, PadInv, Pad!TypeOK, PadOwners, PadData, PadOut
<1>5. CASE Pad!DecodeButtons
  BY <1>5, <1>1, <1>0
  DEF Pad!DecodeButtons, Pad!data, Pad!out, PadInv, Pad!TypeOK, PadOwners, PadData, PadOut
<1>6. CASE Pad!DecodeRest
  <2>1. /\ log' \in Seq(SUBSET Buttons) /\ Len(log)' = Len(log) + 1
        /\ \A n \in 0 .. Len(log) :
             Scanned(n) \in SUBSET Buttons /\ Scanned(n)' = Scanned(n) /\ Edges(n)' = Edges(n)
        /\ Scanned(Len(log))' = down
        /\ Edges(Len(log))' = IF Len(log) = 0 THEN {} ELSE down \ Scanned(Len(log))
    BY <1>6, PadAppend DEF Pad!DecodeRest, PadInv, Pad!TypeOK
  <2> USE DEF Pad!DecodeRest, Pad!data, Pad!out
  <2>10. PadInv /\ Pad!DecodeRest
    BY <1>6
  <2>2. raw[2] \in 0 .. MaxScans /\ raw[2] = Len(log) + 1
    BY <2>10 DEF PadInv, Pad!TypeOK, PadData
  <2>11. Pad!TypeOK'
    <3>1. pressed' \in SUBSET Buttons /\ released' \in SUBSET Buttons
      BY <2>10 DEF PadInv, Pad!TypeOK
    <3>2. first' \in BOOLEAN /\ fresh' \in BOOLEAN /\ rest' \in 0 .. MaxScans
      BY <2>2, <2>10
    <3>3. scanAt' = "unlock"
          /\ UNCHANGED <<readAt, owner, raw, down, outDown, outPressed, outRest, scans, since>>
      BY <2>10
    <3> HIDE DEF Pad!DecodeRest
    <3> QED
      BY <2>1, <2>10, <3>1, <3>2, <3>3 DEF PadInv, Pad!TypeOK
  <2>12. PadOwners'
    BY <1>0, <2>1, <2>10 DEF PadInv, PadOwners
  <2>3. down = Scanned(Len(log))'
    BY <2>1
  <2>4. pressed' = Edges(Len(log))'
    BY <1>0, <2>1, <2>10 DEF PadInv, PadData
  <2>5. Len(log)' # 0 /\ ~first' /\ scanAt' = "unlock" /\ rest' = Len(log)'
        /\ scans' = Len(log)' /\ raw'[2] = scans' /\ down' = down
    BY <1>0, <2>1, <2>2, <2>10 DEF PadInv, PadData
  <2>13. PadData'
    BY <2>3, <2>4, <2>5 DEF PadData
  <2>14. PadOut'
    BY <1>0, <2>1, <2>10 DEF PadInv, Pad!TypeOK, PadOwners, PadData, PadOut
  <2> QED
    BY <2>11, <2>12, <2>13, <2>14 DEF PadInv
<1>7. CASE Pad!ScanRelease
  BY <1>7, <1>1, <1>0
  DEF Pad!ScanRelease, Pad!data, Pad!out, PadInv, Pad!TypeOK, PadOwners, PadData, PadOut
<1>8. CASE Pad!Input_GetData
  <2> USE DEF Pad!Input_GetData, Pad!data, Pad!out
  <2>10. PadInv /\ Pad!Input_GetData
    BY <1>8
  <2>11. Pad!TypeOK'
    BY <1>1, <1>0, <2>10 DEF PadInv, Pad!TypeOK, PadOwners, PadData, PadOut
  <2>12. PadOwners'
    BY <1>1, <1>0, <2>10 DEF PadInv, PadOwners
  <2>13. PadData'
    BY <1>1, <1>0, <2>10 DEF PadInv, Pad!TypeOK, PadOwners, PadData
  <2>14. PadOut'
    BY <1>1, <1>0, <2>10, SMTT(30) DEF PadInv, Pad!TypeOK, PadOwners, PadData, PadOut
  <2> QED
    BY <2>11, <2>12, <2>13, <2>14 DEF PadInv
<1>9. CASE Pad!ReadAcquire
  BY <1>9, <1>1, <1>0
  DEF Pad!ReadAcquire, Pad!data, Pad!out, PadInv, Pad!TypeOK, PadOwners, PadData, PadOut
<1>10. CASE Pad!CopyButtons
  BY <1>10, <1>1, <1>0
  DEF Pad!CopyButtons, Pad!data, Pad!out, PadInv, Pad!TypeOK, PadOwners, PadData, PadOut
<1>11. CASE Pad!CopyRest
  <2> USE DEF Pad!CopyRest, Pad!data, Pad!out
  <2>10. PadInv /\ Pad!CopyRest
    BY <1>11
  <2>11. Pad!TypeOK'
    BY <1>1, <1>0, <2>10 DEF PadInv, Pad!TypeOK, PadOwners, PadData, PadOut
  <2>12. PadOwners'
    BY <1>1, <1>0, <2>10 DEF PadInv, PadOwners
  <2>13. PadData'
    BY <1>1, <1>0, <2>10 DEF PadInv, Pad!TypeOK, PadOwners, PadData
  <2>14. PadOut'
    BY <1>1, <1>0, <2>10 DEF PadInv, Pad!TypeOK, PadOwners, PadData, PadOut
  <2> QED
    BY <2>11, <2>12, <2>13, <2>14 DEF PadInv
<1>12. CASE Pad!ClearFresh
  BY <1>12, <1>1, <1>0
  DEF Pad!ClearFresh, Pad!data, Pad!out, PadInv, Pad!TypeOK, PadOwners, PadData, PadOut
<1>13. CASE Pad!Return
  BY <1>13, <1>1, <1>0
  DEF Pad!Return, Pad!data, Pad!out, PadInv, Pad!TypeOK, PadOwners, PadData, PadOut
<1> QED
  BY <1>2, <1>3, <1>4, <1>5, <1>6, <1>7, <1>8, <1>9, <1>10, <1>11, <1>12, <1>13
  DEF Pad!Next, Pad!Input_Scan, Pad!Reading

LEMMA PadFollows == ASSUME PadInv PROVE Pad!TypeOK /\ Pad!OneScan /\ Pad!UpToDate
  BY DEF PadInv, Pad!TypeOK, PadOut, Pad!OneScan, Pad!UpToDate, Scanned, Edges
-----------------------------------------------------------------------------
(* Delay: while a delay has not been broken, the timer is its own: nobody  *)
(* more urgent is in a delay, and the timer is stopped, or counts to what  *)
(* it asked for, or has done so and set the flag.                          *)
TimerOwn(p) ==
  /\ \A q \in Timer!Prios : q < p => at[q] = "out"
  /\ at[p] \in {"target", "start"} => ~timer.on /\ ~flag
  /\ at[p] = "start" => timer.value = 0 /\ timer.target = us[p]
  /\ at[p] \in {"loop", "wfi"} =>
       \/ timer.on /\ ~flag /\ timer.target = us[p] /\ timer.value <= passed[p]
       \/ ~timer.on /\ flag /\ us[p] <= passed[p]
  /\ at[p] = "off" => us[p] <= passed[p]

TimerInv ==
  /\ Timer!TypeOK
  /\ timer.value <= timer.target
  /\ \A p \in Timer!Prios : at[p] # "out" /\ ~broken[p] => TimerOwn(p)

LEMMA LongestIsLongest ==
  Timer!Longest \in Times /\ \A m \in Times : m \in Nat \ {0} /\ m <= Timer!Longest
  BY BoardAssumption DEF Timer!Longest

LEMMA TimerTypes ==
  ASSUME TimerInv, NEW p \in Timer!Prios
  PROVE  /\ us \in [Timer!Prios -> Times]
         /\ us[p] \in Times /\ us[p] \in Nat /\ us[p] <= Timer!Longest
         /\ passed[p] \in 0 .. Timer!Longest /\ passed[p] \in Nat
         /\ timer \in [on : BOOLEAN, value : 0 .. Timer!Longest, target : {0} \cup Times]
         /\ timer.on \in BOOLEAN /\ timer.value \in Nat
<1>1. Timer!Longest \in Nat
  BY LongestIsLongest
<1>2. /\ us \in [Timer!Prios -> Times] /\ passed \in [Timer!Prios -> 0 .. Timer!Longest]
      /\ timer \in [on : BOOLEAN, value : 0 .. Timer!Longest, target : {0} \cup Times]
  BY DEF TimerInv, Timer!TypeOK
<1>3. us[p] \in Times /\ passed[p] \in 0 .. Timer!Longest
  BY <1>2
<1> QED
  <2>1. us[p] \in Nat /\ us[p] <= Timer!Longest
    BY <1>3, LongestIsLongest
  <2>2. passed[p] \in Nat
    BY <1>1, <1>3
  <2>3. timer.on \in BOOLEAN /\ timer.value \in 0 .. Timer!Longest
    BY <1>2
  <2> QED
    BY <1>1, <1>2, <1>3, <2>1, <2>2, <2>3

LEMMA TimerInit == ASSUME Timer!Init PROVE TimerInv
<1> USE DEF Timer!Init
<1>1. Timer!Longest \in Times /\ Timer!Longest \in Nat \ {0}
  BY LongestIsLongest
<1>2. Timer!TypeOK
  <2>1. timer \in [on : BOOLEAN, value : 0 .. Timer!Longest, target : {0} \cup Times]
    BY <1>1
  <2>2. us \in [Timer!Prios -> Times] /\ passed \in [Timer!Prios -> 0 .. Timer!Longest]
    BY <1>1
  <2>3. at \in [Timer!Prios -> {"out"}] /\ broken \in [Timer!Prios -> BOOLEAN]
    OBVIOUS
  <2> QED
    BY <2>1, <2>2, <2>3 DEF Timer!TypeOK
<1>3. ~timer.on /\ \A p \in Timer!Prios : at[p] = "out"
  OBVIOUS
<1> QED
  BY <1>2, <1>3 DEF TimerInv

(* A step that moves one delay, and keeps what it asked for, has only that *)
(* one to keep the timer for: all others in a delay are broken.            *)
LEMMA TimerAlone ==
  ASSUME TimerInv, NEW p \in Timer!Prios, Timer!Runs(p), at[p] # "out",
         NEW l, Timer!Goto(p, l), UNCHANGED <<us, passed, broken>>,
         l # "out" /\ ~broken[p] => TimerOwn(p)'
  PROVE  \A q \in Timer!Prios : (at[q] # "out" /\ ~broken[q])' => TimerOwn(q)'
<1> TAKE q \in Timer!Prios
<1> USE DEF Timer!Prios
<1>1. at' = [at EXCEPT ![p] = l] /\ DOMAIN at = Timer!Prios /\ Levels \in Nat
  BY BoardAssumption DEF Timer!Goto, TimerInv, Timer!TypeOK
<1>2. CASE q = p
  BY <1>1, <1>2
<1>3. CASE q # p
  <2>1. at[q] = "out" \/ broken[q]
    <3>1. CASE q < p
      BY <3>1 DEF Timer!Runs
    <3>2. CASE p < q
      BY <3>2 DEF TimerInv, TimerOwn
    <3> QED
      BY <1>1, <1>3, <3>1, <3>2
  <2> QED
    BY <1>1, <1>3, <2>1
<1> QED
  BY <1>2, <1>3

LEMMA TimerStep == ASSUME TimerInv, [Timer!Next]_timerVars PROVE TimerInv'
<1> USE BoardAssumption, LongestIsLongest DEF Timer!Prios
<1>1. CASE UNCHANGED timerVars
  BY <1>1 DEF timerVars, TimerInv, Timer!TypeOK, TimerOwn, Timer!Prios
<1>2. CASE Timer!Time
  <2>1. \A p \in Timer!Prios :
          /\ passed[p] \in 0 .. Timer!Longest /\ passed'[p] \in 0 .. Timer!Longest
          /\ passed'[p] = IF at[p] # "out" /\ passed[p] < Timer!Longest
                          THEN passed[p] + 1 ELSE passed[p]
    BY <1>2, SMTT(30) DEF Timer!Time, TimerInv, Timer!TypeOK
  <2>2. /\ timer.on \in BOOLEAN /\ timer.value \in 0 .. Timer!Longest
        /\ timer.target \in {0} \cup Times
        /\ timer'.on = timer.on /\ timer'.target = timer.target
        /\ timer'.value = IF timer.on THEN timer.value + 1 ELSE timer.value
        /\ timer' \in [on : {timer.on}, value : {timer'.value}, target : {timer.target}]
    <3>1. timer \in [on : BOOLEAN, value : 0 .. Timer!Longest, target : {0} \cup Times]
      BY DEF TimerInv, Timer!TypeOK
    <3> QED
      BY <1>2, <3>1 DEF Timer!Time
  <2>3. /\ timer.on => timer.value < timer.target /\ timer.target <= Timer!Longest
        /\ timer.value <= timer.target /\ Timer!Longest \in Nat /\ timer.target \in Nat
    BY <1>2, <2>2 DEF Timer!Time, Timer!Pending, TimerInv
  <2>4. timer'.value \in 0 .. Timer!Longest /\ timer'.value <= timer'.target
    BY <2>2, <2>3
  <2>5. Timer!TypeOK'
    BY <1>2, <2>1, <2>2, <2>4 DEF Timer!Time, TimerInv, Timer!TypeOK
  <2>6. ASSUME NEW p \in Timer!Prios, at'[p] # "out", ~broken'[p] PROVE TimerOwn(p)'
    <3>1. TimerOwn(p) /\ at' = at /\ flag' = flag /\ us' = us /\ us[p] \in Nat
          /\ us[p] <= Timer!Longest
      BY <1>2, <2>6 DEF Timer!Time, TimerInv, Timer!TypeOK
    <3>2. passed[p] <= passed'[p] /\ (passed[p] < Timer!Longest => passed'[p] = passed[p] + 1)
          /\ (passed[p] >= Timer!Longest => passed'[p] = Timer!Longest)
      BY <2>1, <2>6, <3>1
    <3> QED
      BY <2>1, <2>2, <2>3, <3>1, <3>2 DEF TimerOwn
  <2> QED
    BY <2>4, <2>5, <2>6 DEF TimerInv
<1>3. CASE Timer!Timer0IRQ
  <2>1. Timer!TypeOK' /\ ~timer'.on /\ timer'.value <= timer'.target
    BY <1>3 DEF Timer!Timer0IRQ, TimerInv, Timer!TypeOK
  <2>2. ASSUME NEW p \in Timer!Prios, at'[p] # "out", ~broken'[p] PROVE TimerOwn(p)'
    <3>1. TimerOwn(p) /\ us[p] \in Nat /\ passed[p] \in Nat /\ timer.value \in Nat
      BY <1>3, <2>2 DEF Timer!Timer0IRQ, TimerInv, Timer!TypeOK
    <3>2. timer.on /\ timer.value >= timer.target /\ flag' /\ UNCHANGED <<at, us, passed>>
      BY <1>3 DEF Timer!Timer0IRQ, Timer!Pending
    <3> QED
      BY <2>1, <3>1, <3>2 DEF TimerOwn
  <2> QED
    BY <2>1, <2>2 DEF TimerInv
<1>4. CASE Timer!Timer1IRQ
  BY <1>4 DEF Timer!Timer1IRQ, TimerInv, Timer!TypeOK, TimerOwn
<1>5. ASSUME NEW p \in Timer!Prios, Timer!Enter(p) PROVE TimerInv'
  <2>1. PICK n \in Times : us' = [us EXCEPT ![p] = n]
    BY <1>5 DEF Timer!Enter
  <2>2. Timer!TypeOK'
    <3> HIDE DEF Timer!Prios
    <3>0. at' \in [Timer!Prios -> {"out", "clear", "target", "start", "loop", "off", "wfi"}]
      BY <1>5 DEF Timer!Enter, Timer!Goto, TimerInv, Timer!TypeOK
    <3>1. us' \in [Timer!Prios -> Times]
      BY <2>1 DEF TimerInv, Timer!TypeOK
    <3>2. passed' \in [Timer!Prios -> 0 .. Timer!Longest]
      BY <1>5 DEF Timer!Enter, TimerInv, Timer!TypeOK
    <3>3. broken' \in [Timer!Prios -> BOOLEAN]
      BY <1>5 DEF Timer!Enter, TimerInv, Timer!TypeOK
    <3> QED
      BY <1>5, <3>0, <3>1, <3>2, <3>3 DEF Timer!Enter, TimerInv, Timer!TypeOK
  <2>3. timer' = timer /\ flag' = flag
    BY <1>5 DEF Timer!Enter
  <2>4. ASSUME NEW q \in Timer!Prios, at'[q] # "out", ~broken'[q] PROVE TimerOwn(q)'
    <3>0. /\ at' = [at EXCEPT ![p] = "clear"] /\ DOMAIN at = Timer!Prios
          /\ broken' = [r \in Timer!Prios |->
                          IF r = p THEN FALSE ELSE broken[r] \/ at[r] # "out"]
          /\ \A r \in Timer!Prios : r < p => at[r] = "out"
      BY <1>5 DEF Timer!Enter, Timer!Runs, Timer!Goto, TimerInv, Timer!TypeOK
    <3> HIDE DEF Timer!Prios
    <3>1. q = p
      BY <2>4, <3>0
    <3>2. at'[p] = "clear" /\ \A r \in Timer!Prios : r < p => at'[r] = "out"
      <4>1. \A r \in Timer!Prios : r < p => r # p
        BY DEF Timer!Prios
      <4> QED
        BY <3>0, <4>1
    <3> QED
      BY <3>1, <3>2 DEF TimerOwn
  <2> QED
    BY <2>2, <2>3, <2>4 DEF TimerInv
<1>6. ASSUME NEW p \in Timer!Prios, Timer!Clear(p) PROVE TimerInv'
  <2> DEFINE l == "target"
  <2>1. Timer!Runs(p) /\ at[p] # "out" /\ Timer!Goto(p, l) /\ UNCHANGED <<us, passed, broken>>
    BY <1>6 DEF Timer!Clear
  <2>2. Timer!TypeOK' /\ timer'.value <= timer'.target
    BY <1>6 DEF Timer!Clear, Timer!Goto, TimerInv, Timer!TypeOK
  <2>3. ASSUME l # "out" /\ ~broken[p] PROVE TimerOwn(p)'
    <3>1. TimerOwn(p) /\ at'[p] = l /\ \A q \in Timer!Prios : q < p => at'[q] = "out"
      BY <2>1, <2>3 DEF Timer!Goto, Timer!Runs, TimerInv, Timer!TypeOK
    <3>2. us[p] \in Nat /\ passed[p] \in Nat /\ timer.on \in BOOLEAN
      BY TimerTypes
    <3> QED
      BY <1>6, <3>1, <3>2 DEF Timer!Clear, TimerOwn
  <2> HIDE DEF l
  <2>4. \A q \in Timer!Prios : (at[q] # "out" /\ ~broken[q])' => TimerOwn(q)'
    BY <2>1, <2>3, TimerAlone
  <2> QED
    BY <2>2, <2>4 DEF TimerInv
<1>7. ASSUME NEW p \in Timer!Prios, Timer!SetTarget(p) PROVE TimerInv'
  <2> DEFINE l == "start"
  <2>1. Timer!Runs(p) /\ at[p] # "out" /\ Timer!Goto(p, l) /\ UNCHANGED <<us, passed, broken>>
    BY <1>7 DEF Timer!SetTarget
  <2>2. Timer!TypeOK' /\ timer'.value <= timer'.target
    <3>1. timer \in [on : BOOLEAN, value : 0 .. Timer!Longest, target : {0} \cup Times]
          /\ us \in [Timer!Prios -> Times] /\ us[p] \in Times /\ us[p] \in Nat
          /\ us[p] <= Timer!Longest /\ timer.value \in Nat
      BY TimerTypes
    <3>2. timer' \in [on : BOOLEAN, value : 0 .. Timer!Longest, target : {0} \cup Times]
      <4>1. timer' = [timer EXCEPT !.value = 0, !.target = us[p]] /\ 0 \in 0 .. Timer!Longest
        BY <1>7, <3>1 DEF Timer!SetTarget
      <4> QED
        BY <3>1, <4>1
    <3>3. timer'.value <= timer'.target
      <4>1. timer'.value = 0 /\ timer'.target = us[p]
        BY <1>7, <3>1 DEF Timer!SetTarget
      <4> QED
        BY <3>1, <4>1
    <3>4. at' \in [Timer!Prios -> {"out", "clear", "target", "start", "loop", "off", "wfi"}]
      BY <2>1 DEF Timer!Goto, TimerInv, Timer!TypeOK
    <3>5. UNCHANGED <<us, asleep, passed, broken>> /\ flag' = flag
      BY <1>7 DEF Timer!SetTarget
    <3> QED
      BY <3>2, <3>3, <3>4, <3>5 DEF TimerInv, Timer!TypeOK
  <2>3. ASSUME l # "out" /\ ~broken[p] PROVE TimerOwn(p)'
    <3>1. TimerOwn(p) /\ at'[p] = l /\ \A q \in Timer!Prios : q < p => at'[q] = "out"
      BY <2>1, <2>3 DEF Timer!Goto, Timer!Runs, TimerInv, Timer!TypeOK
    <3>2. us[p] \in Nat /\ passed[p] \in Nat /\ timer.on \in BOOLEAN
      BY TimerTypes
    <3> QED
      BY <1>7, <3>1, <3>2 DEF Timer!SetTarget, TimerOwn
  <2> HIDE DEF l
  <2>4. \A q \in Timer!Prios : (at[q] # "out" /\ ~broken[q])' => TimerOwn(q)'
    BY <2>1, <2>3, TimerAlone
  <2> QED
    BY <2>2, <2>4 DEF TimerInv
<1>8. ASSUME NEW p \in Timer!Prios, Timer!StartTimer(p) PROVE TimerInv'
  <2> DEFINE l == "loop"
  <2>1. Timer!Runs(p) /\ at[p] # "out" /\ Timer!Goto(p, l) /\ UNCHANGED <<us, passed, broken>>
    BY <1>8 DEF Timer!StartTimer
  <2>2. Timer!TypeOK' /\ timer'.value <= timer'.target
    <3>1. timer \in [on : BOOLEAN, value : 0 .. Timer!Longest, target : {0} \cup Times]
          /\ us \in [Timer!Prios -> Times] /\ us[p] \in Times /\ us[p] \in Nat
          /\ us[p] <= Timer!Longest /\ timer.value \in Nat
      BY TimerTypes
    <3>2. timer' \in [on : BOOLEAN, value : 0 .. Timer!Longest, target : {0} \cup Times]
      BY <1>8, <3>1 DEF Timer!StartTimer
    <3>3. timer'.value <= timer'.target
      BY <1>8, <3>1 DEF Timer!StartTimer, TimerInv
    <3>4. at' \in [Timer!Prios -> {"out", "clear", "target", "start", "loop", "off", "wfi"}]
      BY <2>1 DEF Timer!Goto, TimerInv, Timer!TypeOK
    <3>5. UNCHANGED <<us, asleep, passed, broken>> /\ flag' = flag
      BY <1>8 DEF Timer!StartTimer
    <3> QED
      BY <3>2, <3>3, <3>4, <3>5 DEF TimerInv, Timer!TypeOK
  <2>3. ASSUME l # "out" /\ ~broken[p] PROVE TimerOwn(p)'
    <3>1. TimerOwn(p) /\ at'[p] = l /\ \A q \in Timer!Prios : q < p => at'[q] = "out"
      BY <2>1, <2>3 DEF Timer!Goto, Timer!Runs, TimerInv, Timer!TypeOK
    <3>2. us[p] \in Nat /\ passed[p] \in Nat /\ timer.on \in BOOLEAN
      BY TimerTypes
    <3> QED
      BY <1>8, <3>1, <3>2 DEF Timer!StartTimer, TimerOwn
  <2> HIDE DEF l
  <2>4. \A q \in Timer!Prios : (at[q] # "out" /\ ~broken[q])' => TimerOwn(q)'
    BY <2>1, <2>3, TimerAlone
  <2> QED
    BY <2>2, <2>4 DEF TimerInv
<1>9. ASSUME NEW p \in Timer!Prios, Timer!Test(p) PROVE TimerInv'
  <2> DEFINE l == IF flag THEN "off" ELSE "wfi"
  <2>1. Timer!Runs(p) /\ at[p] # "out" /\ Timer!Goto(p, l) /\ UNCHANGED <<us, passed, broken>>
    BY <1>9 DEF Timer!Test
  <2>2. Timer!TypeOK' /\ timer'.value <= timer'.target
    BY <1>9 DEF Timer!Test, Timer!Goto, TimerInv, Timer!TypeOK
  <2>3. ASSUME l # "out" /\ ~broken[p] PROVE TimerOwn(p)'
    <3>1. TimerOwn(p) /\ at'[p] = l /\ \A q \in Timer!Prios : q < p => at'[q] = "out"
      BY <2>1, <2>3 DEF Timer!Goto, Timer!Runs, TimerInv, Timer!TypeOK
    <3>2. us[p] \in Nat /\ passed[p] \in Nat /\ timer.on \in BOOLEAN
      BY TimerTypes
    <3> QED
      BY <1>9, <3>1, <3>2 DEF Timer!Test, TimerOwn
  <2> HIDE DEF l
  <2>4. \A q \in Timer!Prios : (at[q] # "out" /\ ~broken[q])' => TimerOwn(q)'
    BY <2>1, <2>3, TimerAlone
  <2> QED
    BY <2>2, <2>4 DEF TimerInv
<1>10. ASSUME NEW p \in Timer!Prios, Timer!Sleep(p) PROVE TimerInv'
  <2> DEFINE l == "loop"
  <2>1. Timer!Runs(p) /\ at[p] # "out" /\ Timer!Goto(p, l) /\ UNCHANGED <<us, passed, broken>>
    BY <1>10 DEF Timer!Sleep
  <2>2. Timer!TypeOK' /\ timer'.value <= timer'.target
    BY <1>10 DEF Timer!Sleep, Timer!Goto, TimerInv, Timer!TypeOK
  <2>3. ASSUME l # "out" /\ ~broken[p] PROVE TimerOwn(p)'
    <3>1. TimerOwn(p) /\ at'[p] = l /\ \A q \in Timer!Prios : q < p => at'[q] = "out"
      BY <2>1, <2>3 DEF Timer!Goto, Timer!Runs, TimerInv, Timer!TypeOK
    <3>2. us[p] \in Nat /\ passed[p] \in Nat /\ timer.on \in BOOLEAN
      BY TimerTypes
    <3> QED
      BY <1>10, <3>1, <3>2 DEF Timer!Sleep, TimerOwn
  <2> HIDE DEF l
  <2>4. \A q \in Timer!Prios : (at[q] # "out" /\ ~broken[q])' => TimerOwn(q)'
    BY <2>1, <2>3, TimerAlone
  <2> QED
    BY <2>2, <2>4 DEF TimerInv
<1>11. ASSUME NEW p \in Timer!Prios, Timer!Leave(p) PROVE TimerInv'
  <2> DEFINE l == "out"
  <2>1. Timer!Runs(p) /\ at[p] # "out" /\ Timer!Goto(p, l) /\ UNCHANGED <<us, passed, broken>>
    BY <1>11 DEF Timer!Leave
  <2>2. Timer!TypeOK' /\ timer'.value <= timer'.target
    BY <1>11 DEF Timer!Leave, Timer!Goto, TimerInv, Timer!TypeOK
  <2>3. ASSUME l # "out" /\ ~broken[p] PROVE TimerOwn(p)'
    <3>1. TimerOwn(p) /\ at'[p] = l /\ \A q \in Timer!Prios : q < p => at'[q] = "out"
      BY <2>1, <2>3 DEF Timer!Goto, Timer!Runs, TimerInv, Timer!TypeOK
    <3>2. us[p] \in Nat /\ passed[p] \in Nat /\ timer.on \in BOOLEAN
      BY TimerTypes
    <3> QED
      BY <1>11, <3>1, <3>2 DEF Timer!Leave, TimerOwn
  <2> HIDE DEF l
  <2>4. \A q \in Timer!Prios : (at[q] # "out" /\ ~broken[q])' => TimerOwn(q)'
    BY <2>1, <2>3, TimerAlone
  <2> QED
    BY <2>2, <2>4 DEF TimerInv
<1> QED
  BY <1>1, <1>2, <1>3, <1>4, <1>5, <1>6, <1>7, <1>8, <1>9, <1>10, <1>11
  DEF Timer!Next, Timer!Interrupt, Timer!Delaying

LEMMA TimerFollows == ASSUME TimerInv PROVE Timer!TypeOK /\ Timer!NoneShort
  BY DEF TimerInv, Timer!TypeOK, TimerOwn, Timer!NoneShort
-----------------------------------------------------------------------------
(* Audio: the events the audio thread has or will have, and where its work *)
(* stands.                                                                 *)
Known == events \cup hand \cup {calling}

SoundThread ==
  /\ tpc = "wait" => hand = {}
  /\ tpc = "clear" => hand \subseteq events
  /\ tpc # "gone" => "stopThread" \notin hand
  /\ tpc = "call" <=> calling # "none"
  /\ "stopThread" \in events \/ tpc = "gone" => pc \in {"join", "end"}
  /\ pc = "end" <=> deleted
  /\ deleted => tpc = "gone"
  /\ pc \in {"micOff", "join", "end"} => ending
  /\ ending => pc \notin {"idle", "setup", "armed", "micSetup", "micArmed"}
  /\ ending /\ pc \in {"micOff", "micMask", "micClear", "join", "end"} => playing = 0
  /\ pc \in {"join", "end"} => recording = 0

(* The interrupts of a playback are those its stage needs: both while it   *)
(* plays, that of its end while it is stopped, none after.                 *)
Stopping == {"mask", "masked", "ask", "loop", "unmask", "unmasked", "mute"}

SoundPlay ==
  /\ dac # 0 => playing = dac
  /\ ("stop" \in dacStatus => dac = 0) /\ ("alert" \in dacStatus => dac # 1)
  /\ pc \in {"setup", "armed"} =>
       dac = 0 /\ ~dacStop /\ irqEnable = Sound!Irqs
  /\ pc = "setup" => playing = 0
  /\ pc = "armed" => playing = kind /\ dacStatus = {} /\ (kind = 2 => writePos = 0)
  /\ playing = 0 /\ pc \notin Stopping \cup {"setup", "armed"} => muted /\ irqEnable = {}
  /\ playing # 0 /\ pc \notin {"ask", "loop", "unmask", "unmasked", "mute"} =>
       irqEnable = Sound!Irqs /\ ~dacStop /\ "stop" \notin dacStatus
  /\ pc \in {"mask", "masked"} => irqEnable \in {{}, Sound!Irqs}
  /\ pc \in {"ask", "loop", "unmask", "unmasked"} => irqEnable \subseteq {"stop"}
  /\ pc = "unmasked" => held \subseteq {"stop"}
  /\ pc = "mute" => irqEnable = {}
  /\ pc \in {"unmask", "unmasked", "mute"} => playing = 0

SoundRecord ==
  /\ mic # 0 => recording = mic /\ micIrq
  /\ pc = "micSetup" => recording = 0 /\ ~micStatus /\ mic = 0 /\ micIrq
  /\ pc = "micArmed" => recording = kind /\ ~micStatus /\ mic = 0 /\ micIrq
                        /\ (kind = 2 => readPos = 0)
  /\ recording = 0 /\ pc # "micSetup" => mic = 0 /\ ~micIrq
  /\ pc \in {"micMask", "micClear"} => mic = 0
  /\ pc = "micClear" => ~micIrq

(* What is quiet has left nothing behind. An event that is known is one of *)
(* the playback or recording that goes on, or of the last if none does.    *)
SoundEvents ==
  /\ "play" \in quiet => playing = 0 /\ Known \cap {"playEnd", "playAlert"} = {}
  /\ "rec" \in quiet => recording = 0 /\ Known \cap {"recEnd", "recAlert"} = {}
  /\ "playEnd" \in Known => playing = 0
  /\ "playAlert" \in Known => playing # 1
  /\ "recEnd" \in Known => recording = 0 /\ "recAlert" \notin Known
  /\ "recAlert" \in Known => recording = 2

SoundOwed ==
  /\ owed \subseteq Sound!Serves \cap (events \cup hand)
  /\ \A e \in owed : Sound!Callback(e)
  /\ playing = 1 => sampleCB
  /\ playing = 2 => streamCB
  /\ recording # 0 => recordCB
  /\ calling = "playEnd" => "playEnd" \notin owed
  /\ calling = "recEnd" => "recEnd" \notin owed

SoundHalves ==
  /\ dac = 2 /\ "alert" \notin dacStatus => dacHalf = writePos
  /\ dac = 2 /\ "alert" \in dacStatus /\ "alert" \in irqEnable => dacHalf # writePos
  /\ "playAlert" \in Known /\ playing = 2 => streamBuf # writePos
  /\ mic = 2 => (micStatus <=> micHalf # readPos)
  /\ "recAlert" \in Known => recordBuf # readPos

SoundInv ==
  /\ Sound!TypeOK /\ SoundThread /\ SoundPlay /\ SoundRecord
  /\ SoundEvents /\ SoundOwed /\ SoundHalves

LEMMA SoundInit == ASSUME Sound!Init PROVE SoundInv
<1> USE DEF Sound!Init, Known
<1>1. Sound!TypeOK
  <2>1. /\ {ending, deleted, sampleCB, streamCB, recordCB} \subseteq BOOLEAN
        /\ {muted, dacStop, micIrq, micStatus} \subseteq BOOLEAN
    OBVIOUS
  <2>2. {writePos, streamBuf, readPos, recordBuf, dacHalf, micHalf} \subseteq 0 .. 1
    OBVIOUS
  <2> QED
    BY <2>1, <2>2 DEF Sound!TypeOK, Sound!Irqs, Sound!Serves, Sound!Halves
<1>2. SoundThread /\ SoundPlay /\ SoundRecord
  BY DEF SoundThread, SoundPlay, SoundRecord
<1>3. SoundEvents /\ SoundOwed /\ SoundHalves
  BY DEF SoundEvents, SoundOwed, SoundHalves
<1> QED
  BY <1>1, <1>2, <1>3 DEF SoundInv

(* The hardware. *)
LEMMA SoundHardware ==
  ASSUME SoundInv,
         \/ Sound!DacAlert
         \/ Sound!DacStops
         \/ Sound!MicAlert
  PROVE  SoundInv'
<1> USE DEF SoundInv, Sound!TypeOK, Sound!Irqs, Sound!Serves, Sound!Halves, Known, SoundThread, SoundPlay,
       Stopping, SoundRecord, SoundEvents, SoundOwed, Sound!Callback, SoundHalves,
       Sound!main, Sound!play, Sound!record, Sound!regs, Sound!sound,
       Sound!micr, Sound!thread, Sound!hist
<1>1. CASE Sound!DacAlert
  BY <1>1 DEF Sound!DacAlert, Sound!Hurry, Sound!AtRest
<1>2. CASE Sound!DacStops
  <2> USE <1>2 DEF Sound!DacStops
  <2>1. Sound!TypeOK'
    <3>1. dacStatus' \subseteq Sound!Irqs
      OBVIOUS
    <3>2. dac' \in 0 .. 2
      OBVIOUS
    <3>3. dacStop' \in BOOLEAN
      OBVIOUS
    <3> QED
      BY <3>1, <3>2, <3>3
  <2>2. SoundThread'
    OBVIOUS
  <2>3. SoundPlay'
    OBVIOUS
  <2>4. SoundRecord'
    OBVIOUS
  <2>5. SoundEvents'
    OBVIOUS
  <2>6. SoundOwed'
    OBVIOUS
  <2>7. SoundHalves'
    OBVIOUS
  <2> QED
    BY <2>1, <2>2, <2>3, <2>4, <2>5, <2>6, <2>7
<1>3. CASE Sound!MicAlert
  BY <1>3 DEF Sound!MicAlert, Sound!Hurry, Sound!AtRest
<1> QED
  BY <1>1, <1>2, <1>3

(* The interrupt handlers. *)
LEMMA SoundHandlers ==
  ASSUME SoundInv,
         \/ Sound!AudioIRQ
         \/ Sound!MicIRQ
  PROVE  SoundInv'
<1> USE DEF SoundInv, Sound!TypeOK, Sound!Irqs, Sound!Serves, Sound!Halves, Known, SoundThread, SoundPlay,
       Stopping, SoundRecord, SoundEvents, SoundOwed, Sound!Callback, SoundHalves,
       Sound!main, Sound!play, Sound!record, Sound!regs, Sound!sound,
       Sound!micr, Sound!thread, Sound!hist
<1>1. CASE Sound!AudioIRQ
  <2> USE <1>1 DEF Sound!AudioIRQ, Sound!AudioPending, Sound!OtherHalf
  <2>1. Sound!TypeOK'
    <3>1. dacStatus' \subseteq Sound!Irqs /\ playing' \in 0 .. 2 /\ irqEnable' \subseteq Sound!Irqs
      OBVIOUS
    <3>2. muted' \in BOOLEAN /\ sampleCB' \in BOOLEAN /\ streamCB' \in BOOLEAN
      OBVIOUS
    <3>3. events' \subseteq Sound!Serves \cup {"stopThread"}
      OBVIOUS
    <3>4. streamBuf' \in Sound!Halves /\ writePos' \in Sound!Halves
      OBVIOUS
    <3> QED
      BY <3>1, <3>2, <3>3, <3>4
  <2>2. SoundThread'
    OBVIOUS
  <2>3. SoundPlay'
    <3>1. CASE "alert" \in dacStatus /\ playing = 1
      BY <3>1
    <3>2. CASE ~("alert" \in dacStatus /\ playing = 1) /\ "stop" \in dacStatus
      BY <3>2
    <3>3. CASE "stop" \notin dacStatus /\ ~("alert" \in dacStatus /\ playing = 1)
      BY <3>3
    <3> QED
      BY <3>1, <3>2, <3>3
  <2>4. SoundRecord'
    OBVIOUS
  <2>5. SoundEvents'
    OBVIOUS
  <2>6. SoundOwed'
    OBVIOUS
  <2>7. SoundHalves'
    <3>1. dac = 2 => playing = 2 /\ "stop" \notin dacStatus /\ dacStatus' = {}
      OBVIOUS
    <3>2. dac = 2 /\ "alert" \in dacStatus => dacHalf' = writePos'
      BY <3>1
    <3>3. dac = 2 /\ "alert" \notin dacStatus => dacHalf' = writePos'
      BY <3>1
    <3>4. ("playAlert" \in Known /\ playing = 2 => streamBuf # writePos)'
      OBVIOUS
    <3>5. ("recAlert" \in Known)' => "recAlert" \in Known
      OBVIOUS
    <3> QED
      BY <3>1, <3>2, <3>3, <3>4, <3>5
  <2> QED
    BY <2>1, <2>2, <2>3, <2>4, <2>5, <2>6, <2>7
<1>2. CASE Sound!MicIRQ
  <2> USE <1>2 DEF Sound!MicIRQ, Sound!MicPending, Sound!OtherHalf
  <2>1. Sound!TypeOK'
    <3>1. recording' \in 0 .. 2 /\ mic' \in 0 .. 2
      OBVIOUS
    <3>4. micStatus' \in BOOLEAN /\ micIrq' \in BOOLEAN
      OBVIOUS
    <3>2. events' \subseteq Sound!Serves \cup {"stopThread"}
      OBVIOUS
    <3>3. recordBuf' \in Sound!Halves /\ readPos' \in Sound!Halves
      OBVIOUS
    <3> QED
      BY <3>1, <3>2, <3>3, <3>4
  <2>2. SoundThread'
    OBVIOUS
  <2>3. SoundPlay'
    OBVIOUS
  <2>4. SoundRecord'
    OBVIOUS
  <2>5. SoundEvents'
    OBVIOUS
  <2>6. SoundOwed'
    OBVIOUS
  <2>7. SoundHalves'
    OBVIOUS
  <2> QED
    BY <2>1, <2>2, <2>3, <2>4, <2>5, <2>6, <2>7
<1> QED
  BY <1>1, <1>2

(* The audio thread. *)
LEMMA SoundThreadSteps ==
  ASSUME SoundInv,
         \/ Sound!Wait
         \/ Sound!Clear
         \/ Sound!Serve
         \/ Sound!Return
         \/ Sound!Served
  PROVE  SoundInv'
<1> USE DEF SoundInv, Sound!TypeOK, Sound!Irqs, Sound!Serves, Sound!Halves, Known, SoundThread, SoundPlay,
       Stopping, SoundRecord, SoundEvents, SoundOwed, Sound!Callback, SoundHalves,
       Sound!main, Sound!play, Sound!record, Sound!regs, Sound!sound,
       Sound!micr, Sound!thread, Sound!hist
<1>1. CASE Sound!Wait
  BY <1>1 DEF Sound!Wait
<1>2. CASE Sound!Clear
  BY <1>2 DEF Sound!Clear
<1>3. CASE Sound!Serve
  BY <1>3 DEF Sound!Serve, Sound!First
<1>4. CASE Sound!Return
  BY <1>4 DEF Sound!Return
<1>5. CASE Sound!Served
  BY <1>5 DEF Sound!Served
<1> QED
  BY <1>1, <1>2, <1>3, <1>4, <1>5

(* Audio_PlaySample, Audio_StartStream and Audio_Stop. *)
LEMMA SoundPlays ==
  ASSUME SoundInv,
         \/ (\E k \in 1 .. 2 : Sound!Play(k))
         \/ Sound!Arm
         \/ Sound!Go
         \/ Sound!Stop
         \/ Sound!ReadEnable
         \/ Sound!MaskAlert
         \/ Sound!AskStop
         \/ Sound!Stopped
         \/ Sound!MaskStop
         \/ Sound!Mute
  PROVE  SoundInv'
<1> USE DEF SoundInv, Sound!TypeOK, Sound!Irqs, Sound!Serves, Sound!Halves, Known, SoundThread, SoundPlay,
       Stopping, SoundRecord, SoundEvents, SoundOwed, Sound!Callback, SoundHalves,
       Sound!main, Sound!play, Sound!record, Sound!regs, Sound!sound,
       Sound!micr, Sound!thread, Sound!hist,
       Sound!MainRuns, Sound!ThreadsRun, Sound!AudioPending, Sound!MicPending, Sound!AtRest, Sound!Goto
<1>1. ASSUME NEW k \in 1 .. 2, Sound!Play(k) PROVE SoundInv'
  <2> USE <1>1 DEF Sound!Play
  <2>1. Sound!TypeOK'
    OBVIOUS
  <2>2. SoundThread'
    OBVIOUS
  <2>3. SoundPlay'
    OBVIOUS
  <2>4. SoundRecord'
    OBVIOUS
  <2>5. SoundEvents'
    OBVIOUS
  <2>6. SoundOwed'
    OBVIOUS
  <2>7. SoundHalves'
    OBVIOUS
  <2> QED
    BY <2>1, <2>2, <2>3, <2>4, <2>5, <2>6, <2>7
<1>2. CASE Sound!Arm
  <2> USE <1>2 DEF Sound!Arm
  <2>1. Sound!TypeOK'
    <3>1. playing' \in 0 .. 2 /\ writePos' \in Sound!Halves
      OBVIOUS
    <3>2. sampleCB' \in BOOLEAN /\ streamCB' \in BOOLEAN
      OBVIOUS
    <3> QED
      BY <3>1, <3>2
  <2>2. SoundThread'
    OBVIOUS
  <2>3. SoundPlay'
    OBVIOUS
  <2>4. SoundRecord'
    OBVIOUS
  <2>5. SoundEvents'
    OBVIOUS
  <2>6. SoundOwed'
    OBVIOUS
  <2>7. SoundHalves'
    OBVIOUS
  <2> QED
    BY <2>1, <2>2, <2>3, <2>4, <2>5, <2>6, <2>7
<1>3. CASE Sound!Go
  BY <1>3 DEF Sound!Go
<1>4. CASE Sound!Stop
  BY <1>4 DEF Sound!Stop
<1>5. CASE Sound!ReadEnable
  BY <1>5 DEF Sound!ReadEnable
<1>6. CASE Sound!MaskAlert
  BY <1>6 DEF Sound!MaskAlert
<1>7. CASE Sound!AskStop
  BY <1>7 DEF Sound!AskStop
<1>8. CASE Sound!Stopped
  BY <1>8 DEF Sound!Stopped
<1>9. CASE Sound!MaskStop
  BY <1>9 DEF Sound!MaskStop
<1>10. CASE Sound!Mute
  BY <1>10 DEF Sound!Mute, Sound!AfterStop
<1> QED
  BY <1>1, <1>2, <1>3, <1>4, <1>5, <1>6, <1>7, <1>8, <1>9, <1>10

(* Mic_RecordSample, Mic_StartRecord, Mic_Stop and Audio_DeInit. *)
LEMMA SoundRecords ==
  ASSUME SoundInv,
         \/ (\E k \in 1 .. 2 : Sound!Record(k))
         \/ Sound!ArmMic
         \/ Sound!GoMic
         \/ Sound!MicStop
         \/ Sound!MaskMic
         \/ Sound!ClearMic
         \/ Sound!DeInit
         \/ Sound!Join
  PROVE  SoundInv'
<1> USE DEF SoundInv, Sound!TypeOK, Sound!Irqs, Sound!Serves, Sound!Halves, Known, SoundThread, SoundPlay,
       Stopping, SoundRecord, SoundEvents, SoundOwed, Sound!Callback, SoundHalves,
       Sound!main, Sound!play, Sound!record, Sound!regs, Sound!sound,
       Sound!micr, Sound!thread, Sound!hist,
       Sound!MainRuns, Sound!ThreadsRun, Sound!AudioPending, Sound!MicPending, Sound!AtRest, Sound!Goto
<1>1. ASSUME NEW k \in 1 .. 2, Sound!Record(k) PROVE SoundInv'
  <2> USE <1>1 DEF Sound!Record
  <2>1. Sound!TypeOK'
    OBVIOUS
  <2>2. SoundThread'
    OBVIOUS
  <2>3. SoundPlay'
    OBVIOUS
  <2>4. SoundRecord'
    OBVIOUS
  <2>5. SoundEvents'
    OBVIOUS
  <2>6. SoundOwed'
    OBVIOUS
  <2>7. SoundHalves'
    OBVIOUS
  <2> QED
    BY <2>1, <2>2, <2>3, <2>4, <2>5, <2>6, <2>7
<1>2. CASE Sound!ArmMic
  BY <1>2 DEF Sound!ArmMic
<1>3. CASE Sound!GoMic
  BY <1>3 DEF Sound!GoMic
<1>4. CASE Sound!MicStop
  BY <1>4 DEF Sound!MicStop, Sound!AfterMicStop
<1>5. CASE Sound!MaskMic
  <2> USE <1>5 DEF Sound!MaskMic
  <2>1. Sound!TypeOK'
    OBVIOUS
  <2>2. SoundThread'
    OBVIOUS
  <2>3. SoundPlay'
    OBVIOUS
  <2>4. SoundRecord'
    OBVIOUS
  <2>5. SoundEvents'
    OBVIOUS
  <2>6. SoundOwed'
    OBVIOUS
  <2>7. SoundHalves'
    OBVIOUS
  <2> QED
    BY <2>1, <2>2, <2>3, <2>4, <2>5, <2>6, <2>7
<1>6. CASE Sound!ClearMic
  <2> USE <1>6 DEF Sound!ClearMic, Sound!AfterMicStop
  <2>1. Sound!TypeOK'
    <3>1. recording' \in 0 .. 2 /\ recordCB' \in BOOLEAN
      OBVIOUS
    <3>2. pc' \in {"join", "idle"}
      OBVIOUS
    <3> QED
      BY <3>1, <3>2
  <2>2. SoundThread'
    OBVIOUS
  <2>3. SoundPlay'
    OBVIOUS
  <2>4. SoundRecord'
    OBVIOUS
  <2>5. SoundEvents'
    OBVIOUS
  <2>6. SoundOwed'
    OBVIOUS
  <2>7. SoundHalves'
    OBVIOUS
  <2> QED
    BY <2>1, <2>2, <2>3, <2>4, <2>5, <2>6, <2>7
<1>7. CASE Sound!DeInit
  BY <1>7 DEF Sound!DeInit
<1>8. CASE Sound!Join
  <2> USE <1>8 DEF Sound!Join
  <2>1. Sound!TypeOK'
    OBVIOUS
  <2>2. SoundThread'
    OBVIOUS
  <2>3. SoundPlay'
    OBVIOUS
  <2>4. SoundRecord'
    OBVIOUS
  <2>5. SoundEvents'
    OBVIOUS
  <2>6. SoundOwed'
    OBVIOUS
  <2>7. SoundHalves'
    OBVIOUS
  <2> QED
    BY <2>1, <2>2, <2>3, <2>4, <2>5, <2>6, <2>7
<1> QED
  BY <1>1, <1>2, <1>3, <1>4, <1>5, <1>6, <1>7, <1>8

LEMMA SoundStep == ASSUME SoundInv, [Sound!Next]_soundVars PROVE SoundInv'
<1>1. CASE UNCHANGED soundVars
  BY <1>1
  DEF soundVars, SoundInv, Sound!TypeOK, Known, SoundThread, SoundPlay, SoundRecord,
      SoundEvents, SoundOwed, Sound!Callback, SoundHalves
<1>2. CASE Sound!Next
  BY <1>2, SoundHardware, SoundHandlers, SoundThreadSteps, SoundPlays, SoundRecords
  DEF Sound!Next, Sound!Software, Sound!AudioThreadFunc, Sound!Main
<1> QED
  BY <1>1, <1>2

LEMMA SoundFollows ==
  ASSUME SoundInv
  PROVE  /\ Sound!QuietAfterStop /\ Sound!SilentWhenIdle /\ Sound!EventAlive
         /\ Sound!TypeOK /\ Sound!AlertsKept /\ Sound!RightHalf
<1> USE DEF SoundInv
<1>1. Sound!QuietAfterStop
  BY DEF SoundEvents, Known, Sound!QuietAfterStop
<1>2. Sound!SilentWhenIdle
  BY DEF SoundPlay, Stopping, Sound!SilentWhenIdle
<1>3. Sound!EventAlive
  BY DEF SoundThread, Sound!EventAlive
<1>4. Sound!AlertsKept
  BY DEF SoundOwed, Sound!AlertsKept
<1>5. Sound!RightHalf
  BY DEF Sound!TypeOK, Sound!Halves, SoundPlay, SoundRecord, SoundEvents, SoundHalves, Known,
         Sound!RightHalf
<1> QED
  BY <1>1, <1>2, <1>3, <1>4, <1>5
-----------------------------------------------------------------------------
(* SpiBus. A call is a sequence of steps the thread has still to take, of  *)
(* any number. What makes it right is where the thread stands: the steps   *)
(* it has left lead, each from a place where it may come, to the place     *)
(* where nothing is held and nothing is due. The invariant says so of      *)
(* every thread, and that the wires, the flash and the EEPROM are as the   *)
(* place of the thread that holds them tells. First the places and the     *)
(* steps between them, then the calls, then the program's actions.         *)
Nothing == Bus!Nothing

(* Where a thread is in its call, as the steps it has taken tell: its      *)
(* mutexes, the device it has selected and what it has told it, how far    *)
(* its transfer is, and, while it holds the flash, what it knows of the    *)
(* chip (nothing, that it is idle, that it also takes a write), the        *)
(* addressing it has set without saying so in AddrMode, and what of its    *)
(* effect is still due; and whether the EEPROM may be busy.                *)
Agreed == 2
Place(fl, bus, dev, ph, told, knows, mode, due, busy) ==
  [fl |-> fl, bus |-> bus, dev |-> dev, ph |-> ph, told |-> told,
   knows |-> knows, mode |-> mode, due |-> due, busy |-> busy]

IsSeq(p) == \E S : p \in Seq(S)
Widened(x) == Len(x) = 2 /\ x[1] # "mode" /\ x[1] # "data"
NoneDue == [x \in {} |-> Nothing]

PlaceOK(s) ==
  /\ s = Place(s.fl, s.bus, s.dev, s.ph, s.told, s.knows, s.mode, s.due, s.busy)
  /\ s.fl \in 0 .. 3 /\ s.bus \in 0 .. 3 /\ s.dev \in {"none", "flash", "uic"}
  /\ s.ph \in {"idle", "cleared", "armed", "sent", "handed", "landed", "receiving", "read"}
  /\ s.knows \in {"any", "idle", "ready"} /\ s.mode \in {0, 1, Agreed}
  /\ s.busy \in BOOLEAN
  /\ IsSeq(s.told)
  /\ s.dev # "none" => s.bus > 0
  /\ s.ph # "idle" => s.dev # "none"
  /\ s.ph \in {"sent", "handed"} => Len(s.told) > 0
  /\ s.dev # "none" => \A k \in 1 .. Len(s.told) : Widened(s.told[k]) => s.fl > 0 /\ s.mode = Agreed
  /\ s.fl > 0 => DOMAIN s.due \subseteq Bus!Addresses

Start == Place(0, 0, "none", "idle", <<>>, "any", Agreed, NoneDue, FALSE)

(* What t's call c writes, at the addresses it writes.                     *)
DueOf(t, c) ==
  IF c[1] = "write" THEN [x \in c[2] .. c[2] + c[3] - 1 |-> <<t, x - c[2] + 1>>]
  ELSE IF c[1] = "erase" THEN [x \in Bus!Addresses |-> Nothing]
  ELSE NoneDue

(* A place that differs in the mutexes held, in the transaction, in what   *)
(* is known of the flash and due to it, or in the EEPROM.                  *)
Holding(s, fl, bus) ==
  Place(fl, bus, s.dev, s.ph, s.told, s.knows, s.mode, s.due, s.busy)
Talking(s, dev, ph, told) ==
  Place(s.fl, s.bus, dev, ph, told, s.knows, s.mode, s.due, s.busy)
Knowing(s, knows, mode, due) ==
  Place(s.fl, s.bus, s.dev, s.ph, s.told, knows, mode, due, s.busy)
Writing(s, busy) ==
  Place(s.fl, s.bus, s.dev, s.ph, s.told, s.knows, s.mode, s.due, busy)

(* What the steps do, and when they may come.                              *)
Locks(t, c, s, p, u) ==
  \/ /\ p[1] = "acquire" /\ p[2] = "flash" /\ s.fl = 0 /\ s.dev = "none"
     /\ u = Knowing(Holding(s, 1, s.bus), "any", Agreed, DueOf(t, c))
  \/ /\ p[1] = "acquire" /\ p[2] = "flash" /\ s.fl \in 1 .. 2
     /\ u = Holding(s, s.fl + 1, s.bus)
  \/ /\ p[1] = "acquire" /\ p[2] = "bus" /\ s.bus \in 0 .. 2 /\ s.dev = "none"
     /\ u = Holding(s, s.fl, s.bus + 1)
  \/ /\ p[1] = "release" /\ p[2] = "flash" /\ s.fl \in 2 .. 3
     /\ u = Holding(s, s.fl - 1, s.bus)
  \/ /\ p[1] = "release" /\ p[2] = "flash" /\ s.fl = 1 /\ s.dev = "none"
     /\ s.due = NoneDue /\ s.mode = Agreed
     /\ u = Knowing(Holding(s, 0, s.bus), "any", s.mode, s.due)
  \/ /\ p[1] = "release" /\ p[2] = "bus" /\ s.bus > 0 /\ s.dev = "none"
     /\ s.bus = 1 => ~s.busy
     /\ u = Holding(s, s.fl, s.bus - 1)

Still(s) == s.ph \in {"idle", "read"}

Selects(s, p, u) ==
  /\ p[1] = "select" /\ p[2] \in {"flash", "uic"}
  /\ s.bus > 0 /\ s.dev = "none"
  /\ u = Talking(s, p[2], s.ph, <<>>)

(* The end of a transaction: what the device makes of it.                  *)
Away(s) == Talking(s, "none", "idle", <<>>)
Programs(s, a, n) ==
  /\ (a % Page) + n <= Page /\ a .. a + n - 1 \subseteq DOMAIN s.due
  /\ s.told = <<<<"program", a>>, <<"data">> \o [k \in 1 .. n |-> s.due[a + k - 1]]>>
Deselects(s, p, u) ==
  /\ p[1] = "deselect" /\ Still(s)
  /\ \/ /\ s.dev = "flash" /\ s.told \in {<<<<"status">>>>, <<<<"id">>>>}
        /\ u = Away(s)
     \/ /\ s.dev = "flash" /\ s.fl > 0
        /\ s.told = <<<<"wren">>>> /\ s.knows = "idle"
        /\ u = Knowing(Away(s), "ready", s.mode, s.due)
     \/ /\ s.dev = "flash" /\ s.fl > 0
        /\ s.told = <<<<"wrdi">>>> /\ s.knows \in {"idle", "ready"}
        /\ u = Knowing(Away(s), "idle", s.mode, s.due)
     \/ /\ s.dev = "flash" /\ s.fl > 0 /\ s.knows = "ready"
        /\ \E val \in 0 .. 1 : /\ s.told = <<<<"mode", val>>>>
                               /\ u = Knowing(Away(s), "ready", val, s.due)
     \/ /\ s.dev = "flash" /\ s.fl > 0 /\ s.mode = Agreed
        /\ \E a \in Nat : s.told = <<<<"read", a>>>>
        /\ u = Away(s)
     \/ /\ s.dev = "flash" /\ s.fl > 0 /\ s.mode = Agreed /\ s.knows = "ready"
        /\ \E a \in Nat : s.told = <<<<"erase", a>>>>
        /\ s.due = [x \in Bus!Addresses |-> Nothing]
        /\ u = Knowing(Away(s), "any", s.mode, NoneDue)
     \/ /\ s.dev = "flash" /\ s.fl > 0 /\ s.mode = Agreed /\ s.knows = "ready"
        /\ \E a \in Nat, n \in Nat \ {0} :
             /\ Programs(s, a, n)
             /\ u = Knowing(Away(s), "any", s.mode,
                      [x \in DOMAIN s.due \ (a .. a + n - 1) |-> s.due[x]])
     \/ /\ s.dev = "uic" /\ s.told # <<>> /\ ~Widened(s.told[1])
        /\ u = Writing(Away(s), s.busy \/ s.told[1] = <<"disable">>)

(* A transfer to the device, or from it.                                   *)
Transfers(s, p, u) ==
  \/ /\ p[1] = "clear" /\ s.dev # "none" /\ Still(s)
     /\ u = Talking(s, s.dev, "cleared", s.told)
  \/ /\ p[1] = "enable" /\ s.ph = "cleared"
     /\ u = Talking(s, s.dev, "armed", s.told)
  \/ /\ p[1] = "send" /\ s.ph = "armed" /\ IsSeq(p[2]) /\ p[2] # <<>>
     /\ s.dev = "uic" => ~s.busy
     /\ Widened(p[2]) => s.fl > 0 /\ s.mode = Agreed
     /\ u = Talking(s, s.dev, "sent", Append(s.told, p[2]))
  \/ /\ p[1] = "dmaWait" /\ s.ph = "sent"
     /\ u = Talking(s, s.dev, "handed", s.told)
  \/ /\ p[1] = "wait" /\ s.ph = "handed"
     /\ u = Talking(s, s.dev, "landed", s.told)
  \/ /\ p[1] = "disable" /\ s.ph = "landed"
     /\ u = Talking(s, s.dev, "idle", s.told)
  \/ /\ p[1] = "receive" /\ s.dev # "none" /\ Still(s)
     /\ u = Talking(s, s.dev, "receiving", s.told)
  \/ /\ p[1] = "dmaWait" /\ s.ph = "receiving"
     /\ u = Talking(s, s.dev, "read", s.told)

Learns(s, p, u) ==
  /\ s.dev = "flash" /\ s.fl > 0
  /\ \/ p[1] = "poll" /\ Still(s)
     \/ p[1] = "test" /\ s.ph = "read"
  /\ \E wel \in BOOLEAN :
       /\ p[2] = <<wel, FALSE>>
       /\ u = Knowing(Talking(s, s.dev, "read", s.told),
                      IF wel THEN "ready" ELSE "idle", s.mode, s.due)

Others(s, p, u) ==
  \/ /\ p[1] = "addrMode" /\ s.fl > 0 /\ s.dev = "none" /\ p[2] = s.mode /\ s.mode \in 0 .. 1
     /\ u = Knowing(s, s.knows, Agreed, s.due)
  \/ p[1] = "sleep" /\ s.bus > 0 /\ s.dev = "none" /\ u = Writing(s, FALSE)

Moves(t, c, s, p, u) ==
  \/ Locks(t, c, s, p, u) \/ Selects(s, p, u) \/ Deselects(s, p, u)
  \/ Transfers(s, p, u) \/ Learns(s, p, u) \/ Others(s, p, u)

(* A sequence of steps leads t, in its call c, from one place to another.  *)
Runs(t, c, p, x, y) ==
  /\ IsSeq(p)
  /\ \E F : /\ F[0] = x /\ F[Len(p)] = y
            /\ \A k \in 1 .. Len(p) : Moves(t, c, F[k - 1], p[k], F[k])

(* Sequences, of whatever elements.                                        *)
LEMMA SeqFacts ==
  ASSUME NEW p, IsSeq(p), NEW q, IsSeq(q)
  PROVE  /\ Len(p) \in Nat /\ IsSeq(p \o q) /\ Len(p \o q) = Len(p) + Len(q)
         /\ \A k \in 1 .. Len(p) : (p \o q)[k] = p[k]
         /\ \A k \in 1 .. Len(q) : (p \o q)[Len(p) + k] = q[k]
<1>1. PICK S : p \in Seq(S)
  BY DEF IsSeq
<1>2. PICK T : q \in Seq(T)
  BY DEF IsSeq
<1> DEFINE U == S \cup T
<1>3. p \in Seq(U) /\ q \in Seq(U)
  <2>1. S \subseteq U /\ T \subseteq U
    OBVIOUS
  <2> QED
    BY <1>1, <1>2, <2>1
<1> HIDE DEF U
<1>4. Len(p) \in Nat /\ Len(q) \in Nat
  BY <1>3, LenProperties
<1>5. p \o q \in Seq(U) /\ Len(p \o q) = Len(p) + Len(q)
      /\ \A k \in 1 .. Len(p) + Len(q) : (p \o q)[k] = IF k <= Len(p) THEN p[k] ELSE q[k - Len(p)]
  BY <1>3, ConcatProperties
<1>6. \A k \in 1 .. Len(p) : (p \o q)[k] = p[k]
  BY <1>4, <1>5
<1>7. \A k \in 1 .. Len(q) : (p \o q)[Len(p) + k] = q[k]
  <2> TAKE k \in 1 .. Len(q)
  <2>1. Len(p) + k \in 1 .. Len(p) + Len(q) /\ ~(Len(p) + k <= Len(p)) /\ (Len(p) + k) - Len(p) = k
    BY <1>4
  <2> QED
    BY <1>5, <2>1
<1>8. IsSeq(p \o q)
  BY <1>5 DEF IsSeq
<1> QED
  BY <1>4, <1>5, <1>6, <1>7, <1>8

LEMMA SeqTail ==
  ASSUME NEW p, IsSeq(p), p # <<>>
  PROVE  /\ IsSeq(Tail(p)) /\ Len(p) \in Nat /\ Len(p) > 0 /\ Len(Tail(p)) = Len(p) - 1
         /\ \A k \in 1 .. Len(p) - 1 : Tail(p)[k] = p[k + 1]
<1>1. PICK S : p \in Seq(S)
  BY DEF IsSeq
<1>2. /\ Tail(p) \in Seq(S) /\ Len(Tail(p)) = Len(p) - 1
      /\ \A k \in 1 .. Len(p) - 1 : Tail(p)[k] = p[k + 1]
  BY <1>1, HeadTailProperties
<1>3. Len(p) \in Nat /\ Len(p) > 0
  BY <1>1, EmptySeq, LenProperties
<1> QED
  BY <1>2, <1>3 DEF IsSeq

LEMMA SeqOne == ASSUME NEW x PROVE IsSeq(<<x>>) /\ Len(<<x>>) = 1 /\ <<x>>[1] = x
<1>1. <<x>> \in Seq({x})
  OBVIOUS
<1> QED
  BY <1>1 DEF IsSeq

LEMMA SeqTwo == ASSUME NEW x, NEW y PROVE IsSeq(<<x, y>>)
<1>1. <<x, y>> \in Seq({x, y})
  OBVIOUS
<1> QED
  BY <1>1 DEF IsSeq

LEMMA SeqNone == IsSeq(<<>>)
<1>1. <<>> \in Seq({})
  OBVIOUS
<1> QED
  BY <1>1 DEF IsSeq

LEMMA SeqAppend ==
  ASSUME NEW p, IsSeq(p), NEW x
  PROVE  /\ IsSeq(Append(p, x)) /\ Len(p) \in Nat /\ Len(Append(p, x)) = Len(p) + 1
         /\ \A k \in 1 .. Len(p) : Append(p, x)[k] = p[k]
         /\ Append(p, x)[Len(p) + 1] = x
<1>1. PICK S : p \in Seq(S)
  BY DEF IsSeq
<1> DEFINE T == S \cup {x}
<1>2. p \in Seq(T) /\ x \in T
  <2>1. S \subseteq T
    OBVIOUS
  <2> QED
    BY <1>1, <2>1
<1> HIDE DEF T
<1>3. Len(p) \in Nat
  BY <1>2, LenProperties
<1> QED
  BY <1>2, <1>3, AppendProperties DEF IsSeq

LEMMA AppendTwo == ASSUME NEW x, NEW d PROVE Append(<<x>>, d) = <<x, d>>
<1> DEFINE p == <<x>>
           q == <<x, d>>
<1>1. p \in Seq({x, d}) /\ q \in Seq({x, d}) /\ d \in {x, d}
  OBVIOUS
<1>2. Len(p) = 1 /\ Len(q) = 2 /\ p[1] = x /\ q[1] = x /\ q[2] = d
  OBVIOUS
<1> HIDE DEF p, q
<1>3. /\ Append(p, d) \in Seq({x, d}) /\ Len(Append(p, d)) = 2
      /\ Append(p, d)[1] = x /\ Append(p, d)[2] = d
  <2>1. /\ Append(p, d) \in Seq({x, d}) /\ Len(Append(p, d)) = Len(p) + 1
        /\ \A i \in 1 .. Len(p) : Append(p, d)[i] = p[i]
        /\ Append(p, d)[Len(p) + 1] = d
    BY <1>1, AppendProperties
  <2> QED
    BY <1>2, <2>1
<1>4. \A i \in 1 .. 2 : i = 1 \/ i = 2
  OBVIOUS
<1>5. Append(p, d) = q
  BY <1>1, <1>2, <1>3, <1>4, SeqEqual
<1> QED
  BY <1>5 DEF p, q

(* Sequences of steps, of none, of one, after one another.                 *)
LEMMA RunsNone == ASSUME NEW t, NEW c, NEW x PROVE Runs(t, c, <<>>, x, x)
<1> DEFINE F == [k \in 0 .. 0 |-> x]
<1>1. F[0] = x /\ Len(<<>>) = 0
  OBVIOUS
<1> HIDE DEF F
<1>2. \A k \in 1 .. 0 : Moves(t, c, F[k - 1], <<>>[k], F[k])
  OBVIOUS
<1> QED
  BY <1>1, <1>2, SeqNone DEF Runs

LEMMA RunsOne ==
  ASSUME NEW t, NEW c, NEW x, NEW y, NEW a, Moves(t, c, x, a, y)
  PROVE  Runs(t, c, <<a>>, x, y)
<1> DEFINE F == [k \in 0 .. 1 |-> IF k = 0 THEN x ELSE y]
<1>1. F[0] = x /\ F[1] = y
  OBVIOUS
<1> HIDE DEF F
<1>2. \A k \in 1 .. 1 : Moves(t, c, F[k - 1], <<a>>[k], F[k])
  BY <1>1
<1> QED
  BY <1>1, <1>2, SeqOne DEF Runs

LEMMA RunsJoin ==
  ASSUME NEW t, NEW c, NEW p, NEW q, NEW x, NEW y, NEW z,
         Runs(t, c, p, x, y), Runs(t, c, q, y, z)
  PROVE  Runs(t, c, p \o q, x, z)
<1>1. IsSeq(p) /\ IsSeq(q)
  BY DEF Runs
<1>2. PICK F : /\ F[0] = x /\ F[Len(p)] = y
               /\ \A k \in 1 .. Len(p) : Moves(t, c, F[k - 1], p[k], F[k])
  BY DEF Runs
<1>3. PICK G : /\ G[0] = y /\ G[Len(q)] = z
               /\ \A k \in 1 .. Len(q) : Moves(t, c, G[k - 1], q[k], G[k])
  BY DEF Runs
<1> DEFINE m == Len(p)
           n == Len(q)
           H == [k \in 0 .. m + n |-> IF k <= m THEN F[k] ELSE G[k - m]]
<1>4. /\ m \in Nat /\ n \in Nat /\ IsSeq(p \o q) /\ Len(p \o q) = m + n
      /\ \A k \in 1 .. m : (p \o q)[k] = p[k]
      /\ \A k \in 1 .. n : (p \o q)[m + k] = q[k]
  BY <1>1, SeqFacts
<1> HIDE DEF m, n
<1>5. H[0] = x
  BY <1>2, <1>4
<1>6. H[m + n] = z
  <2>1. CASE n = 0
    BY <1>2, <1>3, <1>4, <2>1 DEF m, n
  <2>2. CASE n > 0
    <3>1. m + n \in 0 .. m + n /\ ~(m + n <= m) /\ (m + n) - m = n
      BY <1>4, <2>2
    <3> QED
      BY <1>3, <3>1 DEF n
  <2> QED
    BY <1>4, <2>1, <2>2
<1>7. ASSUME NEW k \in 1 .. m + n
      PROVE  Moves(t, c, H[k - 1], (p \o q)[k], H[k])
  <2>1. CASE k <= m
    <3>1. H[k] = F[k] /\ H[k - 1] = F[k - 1] /\ k \in 1 .. m
      BY <1>4, <2>1
    <3> HIDE DEF H
    <3> QED
      BY <1>2, <1>4, <3>1 DEF m
  <2>2. CASE k > m
    <3> DEFINE j == k - m
    <3>1. j \in 1 .. n /\ k = m + j /\ j - 1 = k - 1 - m
      BY <1>4, <2>2
    <3>2. H[k] = G[j]
      BY <1>4, <2>2
    <3>3. H[k - 1] = G[j - 1]
      <4>1. CASE j = 1
        <5>1. k - 1 = m /\ j - 1 = 0
          BY <1>4, <4>1
        <5>2. H[m] = F[m]
          BY <1>4
        <5> HIDE DEF H, j
        <5> QED
          BY <1>2, <1>3, <5>1, <5>2 DEF m
      <4>2. CASE j > 1
        <5>1. k - 1 \in 0 .. m + n /\ ~(k - 1 <= m)
          BY <1>4, <2>2, <4>2
        <5>2. H[k - 1] = G[(k - 1) - m]
          BY <5>1
        <5> HIDE DEF H, j
        <5> QED
          BY <3>1, <5>2
      <4> QED
        BY <3>1, <4>1, <4>2
    <3>4. (p \o q)[k] = q[j]
      <4> HIDE DEF j
      <4> QED
        BY <1>4, <3>1
    <3>5. Moves(t, c, G[j - 1], q[j], G[j])
      <4> HIDE DEF j
      <4> QED
        BY <1>3, <3>1 DEF n
    <3> HIDE DEF H, j
    <3> QED
      BY <3>2, <3>3, <3>4, <3>5
  <2> QED
    BY <1>4, <2>1, <2>2
<1> HIDE DEF H
<1> QED
  BY <1>4, <1>5, <1>6, <1>7 DEF Runs

LEMMA RunsHead ==
  ASSUME NEW t, NEW c, NEW p, NEW x, NEW z, Runs(t, c, p, x, z), p # <<>>
  PROVE  \E y : Moves(t, c, x, p[1], y) /\ Runs(t, c, Tail(p), y, z)
<1>1. IsSeq(p)
  BY DEF Runs
<1>2. PICK F : /\ F[0] = x /\ F[Len(p)] = z
               /\ \A k \in 1 .. Len(p) : Moves(t, c, F[k - 1], p[k], F[k])
  BY DEF Runs
<1> DEFINE n == Len(p)
           G == [k \in 0 .. n - 1 |-> F[k + 1]]
<1>3. /\ IsSeq(Tail(p)) /\ n \in Nat /\ n > 0 /\ Len(Tail(p)) = n - 1
      /\ \A k \in 1 .. n - 1 : Tail(p)[k] = p[k + 1]
  BY <1>1, SeqTail
<1> HIDE DEF n
<1>4. Moves(t, c, x, p[1], F[1])
  <2>1. 1 \in 1 .. n /\ 1 - 1 = 0
    BY <1>3
  <2> QED
    BY <1>2, <2>1 DEF n
<1>5. G[0] = F[1] /\ G[n - 1] = z
  <2>1. 0 \in 0 .. n - 1 /\ n - 1 \in 0 .. n - 1 /\ (n - 1) + 1 = n /\ 0 + 1 = 1
    BY <1>3
  <2> QED
    BY <1>2, <2>1 DEF n
<1>6. ASSUME NEW k \in 1 .. n - 1 PROVE Moves(t, c, G[k - 1], Tail(p)[k], G[k])
  <2>1. k \in 0 .. n - 1 /\ k - 1 \in 0 .. n - 1 /\ (k - 1) + 1 = k /\ k + 1 \in 1 .. n /\ (k + 1) - 1 = k
    BY <1>3
  <2>2. G[k - 1] = F[k] /\ G[k] = F[k + 1]
    BY <2>1
  <2>3. Moves(t, c, F[(k + 1) - 1], p[k + 1], F[k + 1])
    BY <1>2, <2>1 DEF n
  <2> HIDE DEF G
  <2> QED
    BY <1>3, <2>1, <2>2, <2>3
<1> HIDE DEF G
<1>7. Runs(t, c, Tail(p), F[1], z)
  BY <1>3, <1>5, <1>6 DEF Runs
<1> QED
  BY <1>4, <1>7

LEMMA RunsThen ==
  ASSUME NEW t, NEW c, NEW p, NEW x, NEW y, NEW z, NEW a,
         Runs(t, c, p, x, y), Moves(t, c, y, a, z)
  PROVE  Runs(t, c, p \o <<a>>, x, z)
BY RunsOne, RunsJoin

LEMMA RunsThree ==
  ASSUME NEW t, NEW c, NEW p1, NEW p2, NEW p3, NEW x0, NEW x1, NEW x2, NEW x3,
         Runs(t, c, p1, x0, x1), Runs(t, c, p2, x1, x2), Runs(t, c, p3, x2, x3)
  PROVE  Runs(t, c, p1 \o p2 \o p3, x0, x3)
<1>1. Runs(t, c, p1 \o p2, x0, x2)
  BY RunsJoin
<1> QED
  BY <1>1, RunsJoin

LEMMA RunsFour ==
  ASSUME NEW t, NEW c, NEW p1, NEW p2, NEW p3, NEW p4, NEW x0, NEW x1, NEW x2, NEW x3, NEW x4,
         Runs(t, c, p1, x0, x1), Runs(t, c, p2, x1, x2), Runs(t, c, p3, x2, x3),
         Runs(t, c, p4, x3, x4)
  PROVE  Runs(t, c, p1 \o p2 \o p3 \o p4, x0, x4)
<1>1. Runs(t, c, p1 \o p2 \o p3, x0, x3)
  BY RunsThree
<1> QED
  BY <1>1, RunsJoin

-----------------------------------------------------------------------------
(* The fields of a place.                                                  *)
LEMMA Fields ==
  ASSUME NEW fl, NEW bus, NEW dev, NEW ph, NEW told, NEW knows, NEW mode, NEW due, NEW busy,
         NEW s, s = Place(fl, bus, dev, ph, told, knows, mode, due, busy)
  PROVE  /\ s.fl = fl /\ s.bus = bus /\ s.dev = dev /\ s.ph = ph /\ s.told = told
         /\ s.knows = knows /\ s.mode = mode /\ s.due = due /\ s.busy = busy
         /\ \A f, b : Holding(s, f, b) = Place(f, b, dev, ph, told, knows, mode, due, busy)
         /\ \A d, h, w : Talking(s, d, h, w) = Place(fl, bus, d, h, w, knows, mode, due, busy)
         /\ \A k, m, d : Knowing(s, k, m, d) = Place(fl, bus, dev, ph, told, k, m, d, busy)
         /\ \A b : Writing(s, b) = Place(fl, bus, dev, ph, told, knows, mode, due, b)
         /\ Away(s) = Place(fl, bus, "none", "idle", <<>>, knows, mode, due, busy)
<1>1. /\ s.fl = fl /\ s.bus = bus /\ s.dev = dev /\ s.ph = ph /\ s.told = told
      /\ s.knows = knows /\ s.mode = mode /\ s.due = due /\ s.busy = busy
  BY DEF Place
<1> QED
  BY <1>1 DEF Holding, Talking, Knowing, Writing, Away

(* The steps of a transfer, one by one.                                    *)
LEMMA MoveTransfer ==
  ASSUME NEW t, NEW c, NEW fl, NEW bus, NEW dev, NEW told, NEW told2,
         NEW knows, NEW mode, NEW due, NEW busy, NEW op, NEW x, NEW ph, NEW ph2,
         \/ op = "clear" /\ dev # "none" /\ ph \in {"idle", "read"} /\ ph2 = "cleared" /\ told2 = told
         \/ op = "enable" /\ ph = "cleared" /\ ph2 = "armed" /\ told2 = told
         \/ /\ op = "send" /\ ph = "armed" /\ IsSeq(x) /\ x # <<>> /\ (dev = "uic" => ~busy)
            /\ Widened(x) => fl > 0 /\ mode = Agreed
            /\ ph2 = "sent" /\ told2 = Append(told, x)
         \/ op = "dmaWait" /\ ph = "sent" /\ ph2 = "handed" /\ told2 = told
         \/ op = "wait" /\ ph = "handed" /\ ph2 = "landed" /\ told2 = told
         \/ op = "disable" /\ ph = "landed" /\ ph2 = "idle" /\ told2 = told
         \/ op = "receive" /\ dev # "none" /\ ph \in {"idle", "read"} /\ ph2 = "receiving" /\ told2 = told
         \/ op = "dmaWait" /\ ph = "receiving" /\ ph2 = "read" /\ told2 = told
  PROVE  Moves(t, c, Place(fl, bus, dev, ph, told, knows, mode, due, busy), <<op, x>>,
               Place(fl, bus, dev, ph2, told2, knows, mode, due, busy))
<1> DEFINE s == Place(fl, bus, dev, ph, told, knows, mode, due, busy)
           u == Place(fl, bus, dev, ph2, told2, knows, mode, due, busy)
           p == <<op, x>>
<1>1. s = Place(fl, bus, dev, ph, told, knows, mode, due, busy)
  OBVIOUS
<1>2. p[1] = op /\ p[2] = x
  OBVIOUS
<1> HIDE DEF s, p
<1>3. /\ s.fl = fl /\ s.dev = dev /\ s.ph = ph /\ s.told = told /\ s.mode = mode /\ s.busy = busy
  BY <1>1, Fields
<1>4. u = Talking(s, s.dev, ph2, told2)
  BY <1>1, <1>3, Fields
<1> HIDE DEF u
<1>6. Transfers(s, p, u)
  <2>1. CASE op = "clear" /\ dev # "none" /\ ph \in {"idle", "read"} /\ ph2 = "cleared" /\ told2 = told
    BY <1>2, <1>3, <1>4, <2>1 DEF Transfers, Still
  <2>2. CASE op = "enable" /\ ph = "cleared" /\ ph2 = "armed" /\ told2 = told
    BY <1>2, <1>3, <1>4, <2>2 DEF Transfers
  <2>3. CASE /\ op = "send" /\ ph = "armed" /\ IsSeq(x) /\ x # <<>> /\ (dev = "uic" => ~busy)
             /\ Widened(x) => fl > 0 /\ mode = Agreed
             /\ ph2 = "sent" /\ told2 = Append(told, x)
    <3>1. Widened(p[2]) => s.fl > 0 /\ s.mode = Agreed
      BY <1>2, <1>3, <2>3
    <3>2. told2 = Append(s.told, p[2])
      BY <1>2, <1>3, <2>3
    <3> QED
      BY <1>2, <1>3, <1>4, <2>3, <3>1, <3>2 DEF Transfers
  <2>4. CASE op = "dmaWait" /\ ph = "sent" /\ ph2 = "handed" /\ told2 = told
    BY <1>2, <1>3, <1>4, <2>4 DEF Transfers
  <2>5. CASE op = "wait" /\ ph = "handed" /\ ph2 = "landed" /\ told2 = told
    BY <1>2, <1>3, <1>4, <2>5 DEF Transfers
  <2>6. CASE op = "disable" /\ ph = "landed" /\ ph2 = "idle" /\ told2 = told
    BY <1>2, <1>3, <1>4, <2>6 DEF Transfers
  <2>7. CASE op = "receive" /\ dev # "none" /\ ph \in {"idle", "read"} /\ ph2 = "receiving" /\ told2 = told
    BY <1>2, <1>3, <1>4, <2>7 DEF Transfers, Still
  <2>8. CASE op = "dmaWait" /\ ph = "receiving" /\ ph2 = "read" /\ told2 = told
    BY <1>2, <1>3, <1>4, <2>8 DEF Transfers
  <2> QED
    BY <2>1, <2>2, <2>3, <2>4, <2>5, <2>6, <2>7, <2>8
<1> QED
  BY <1>6 DEF Moves, s, p, u

(* Between transactions.                                                   *)
Quiet(fl, bus, knows, mode, due, busy) ==
  Place(fl, bus, "none", "idle", <<>>, knows, mode, due, busy)

(* The mutexes, and the beginning of a transaction.                        *)
LEMMA MoveLock ==
  ASSUME NEW t, NEW c, NEW fl, NEW bus, NEW knows, NEW mode, NEW due, NEW busy,
         NEW op, NEW m, NEW fl2, NEW bus2,
         \/ op = "acquire" /\ m = "flash" /\ fl \in 1 .. 2 /\ fl2 = fl + 1 /\ bus2 = bus
         \/ op = "release" /\ m = "flash" /\ fl \in 2 .. 3 /\ fl2 = fl - 1 /\ bus2 = bus
         \/ op = "acquire" /\ m = "bus" /\ bus \in 0 .. 2 /\ bus2 = bus + 1 /\ fl2 = fl
         \/ /\ op = "release" /\ m = "bus" /\ bus \in 1 .. 3 /\ bus2 = bus - 1 /\ fl2 = fl
            /\ bus = 1 => ~busy
  PROVE  Moves(t, c, Quiet(fl, bus, knows, mode, due, busy), <<op, m>>,
               Quiet(fl2, bus2, knows, mode, due, busy))
<1> DEFINE s == Quiet(fl, bus, knows, mode, due, busy)
           u == Quiet(fl2, bus2, knows, mode, due, busy)
           p == <<op, m>>
<1>1. s = Place(fl, bus, "none", "idle", <<>>, knows, mode, due, busy)
  BY DEF Quiet
<1>2. p[1] = op /\ p[2] = m
  OBVIOUS
<1>3. u = Place(fl2, bus2, "none", "idle", <<>>, knows, mode, due, busy)
  BY DEF Quiet
<1> HIDE DEF s, p, u
<1>4. s.fl = fl /\ s.bus = bus /\ s.dev = "none" /\ s.busy = busy /\ u = Holding(s, fl2, bus2)
  BY <1>1, <1>3, Fields
<1>5. Locks(t, c, s, p, u)
  <2>1. CASE op = "acquire" /\ m = "flash" /\ fl \in 1 .. 2 /\ fl2 = fl + 1 /\ bus2 = bus
    BY <1>2, <1>4, <2>1 DEF Locks
  <2>2. CASE op = "release" /\ m = "flash" /\ fl \in 2 .. 3 /\ fl2 = fl - 1 /\ bus2 = bus
    BY <1>2, <1>4, <2>2 DEF Locks
  <2>3. CASE op = "acquire" /\ m = "bus" /\ bus \in 0 .. 2 /\ bus2 = bus + 1 /\ fl2 = fl
    BY <1>2, <1>4, <2>3 DEF Locks
  <2>4. CASE /\ op = "release" /\ m = "bus" /\ bus \in 1 .. 3 /\ bus2 = bus - 1 /\ fl2 = fl
             /\ bus = 1 => ~busy
    BY <1>2, <1>4, <2>4 DEF Locks
  <2> QED
    BY <2>1, <2>2, <2>3, <2>4
<1> QED
  BY <1>5 DEF Moves, s, p, u

(* The flash's mutex, when it was not held.                                *)
LEMMA MoveOutermost ==
  ASSUME NEW t, NEW c, NEW knows
  PROVE  /\ Moves(t, c, Start, <<"acquire", "flash">>, Quiet(1, 0, "any", Agreed, DueOf(t, c), FALSE))
         /\ Moves(t, c, Quiet(1, 0, knows, Agreed, NoneDue, FALSE), <<"release", "flash">>, Start)
<1> DEFINE p == <<"acquire", "flash">>
           r == <<"release", "flash">>
           due == DueOf(t, c)
           u == Quiet(1, 0, "any", Agreed, due, FALSE)
           s == Quiet(1, 0, knows, Agreed, NoneDue, FALSE)
<1>1. p[1] = "acquire" /\ p[2] = "flash" /\ r[1] = "release" /\ r[2] = "flash"
  OBVIOUS
<1>2. Start = Place(0, 0, "none", "idle", <<>>, "any", Agreed, NoneDue, FALSE)
  BY DEF Start
<1>3. u = Place(1, 0, "none", "idle", <<>>, "any", Agreed, due, FALSE)
  BY DEF Quiet
<1>4. s = Place(1, 0, "none", "idle", <<>>, knows, Agreed, NoneDue, FALSE)
  BY DEF Quiet
<1> HIDE DEF p, r, u, s
<1>5. Start.fl = 0 /\ Start.dev = "none"
      /\ Holding(Start, 1, Start.bus) = Place(1, 0, "none", "idle", <<>>, "any", Agreed, NoneDue, FALSE)
  BY <1>2 DEF Place, Holding
<1>6. u = Knowing(Holding(Start, 1, Start.bus), "any", Agreed, due)
  <2> DEFINE w == Holding(Start, 1, Start.bus)
  <2>1. w = Place(1, 0, "none", "idle", <<>>, "any", Agreed, NoneDue, FALSE)
    BY <1>5
  <2> HIDE DEF w
  <2>2. w.fl = 1 /\ w.bus = 0 /\ w.dev = "none" /\ w.ph = "idle" /\ w.told = <<>> /\ w.busy = FALSE
    BY <2>1 DEF Place
  <2>3. Knowing(w, "any", Agreed, due) = u
    BY <1>3, <2>2 DEF Knowing
  <2> QED
    BY <2>3 DEF w
<1>7. Locks(t, c, Start, p, u)
  BY <1>1, <1>5, <1>6 DEF Locks
<1>8. s.fl = 1 /\ s.dev = "none" /\ s.due = NoneDue /\ s.mode = Agreed
      /\ Holding(s, 0, s.bus) = Place(0, 0, "none", "idle", <<>>, knows, Agreed, NoneDue, FALSE)
  BY <1>4 DEF Place, Holding
<1>9. Start = Knowing(Holding(s, 0, s.bus), "any", s.mode, s.due)
  <2> DEFINE w == Holding(s, 0, s.bus)
  <2>1. w = Place(0, 0, "none", "idle", <<>>, knows, Agreed, NoneDue, FALSE)
    BY <1>8
  <2> HIDE DEF w
  <2>2. w.fl = 0 /\ w.bus = 0 /\ w.dev = "none" /\ w.ph = "idle" /\ w.told = <<>> /\ w.busy = FALSE
    BY <2>1 DEF Place
  <2>3. Knowing(w, "any", Agreed, NoneDue) = Start
    BY <1>2, <2>2 DEF Knowing
  <2> QED
    BY <1>8, <2>3 DEF w
<1>10. Locks(t, c, s, r, Start)
  BY <1>1, <1>8, <1>9 DEF Locks
<1> QED
  BY <1>7, <1>10 DEF Moves, u, s, p, r

(* The beginning of a transaction.                                         *)
LEMMA MoveSelect ==
  ASSUME NEW t, NEW c, NEW fl, NEW bus, NEW knows, NEW mode, NEW due, NEW busy,
         NEW d \in {"flash", "uic"}, bus > 0
  PROVE  Moves(t, c, Quiet(fl, bus, knows, mode, due, busy), <<"select", d>>,
               Place(fl, bus, d, "idle", <<>>, knows, mode, due, busy))
<1> DEFINE s == Quiet(fl, bus, knows, mode, due, busy)
           u == Place(fl, bus, d, "idle", <<>>, knows, mode, due, busy)
           p == <<"select", d>>
<1>1. s = Place(fl, bus, "none", "idle", <<>>, knows, mode, due, busy)
  BY DEF Quiet
<1>2. p[1] = "select" /\ p[2] = d
  OBVIOUS
<1> HIDE DEF s, p
<1>3. s.bus = bus /\ s.dev = "none" /\ s.ph = "idle" /\ u = Talking(s, d, s.ph, <<>>)
  BY <1>1, Fields
<1> HIDE DEF u
<1>4. Selects(s, p, u)
  BY <1>2, <1>3 DEF Selects
<1> QED
  BY <1>4 DEF Moves, s, p, u

(* What the functions do, from the place of their caller.                  *)

(* SPI_Write and SPI_Read, inside a transaction.                           *)
LEMMA RunWrite ==
  ASSUME NEW t, NEW c, NEW fl, NEW bus, NEW dev, NEW ph \in {"idle", "read"}, NEW told,
         NEW knows, NEW mode, NEW due, NEW busy, NEW x,
         dev # "none", IsSeq(x), x # <<>>, dev = "uic" => ~busy, Widened(x) => fl > 0 /\ mode = Agreed
  PROVE  Runs(t, c, Bus!SPI_Write(x), Place(fl, bus, dev, ph, told, knows, mode, due, busy),
              Place(fl, bus, dev, "idle", Append(told, x), knows, mode, due, busy))
<1> DEFINE pl(f, w) == Place(fl, bus, dev, f, w, knows, mode, due, busy)
           new == Append(told, x)
<1>1. Moves(t, c, pl(ph, told), <<"clear", <<>>>>, pl("cleared", told))
  BY MoveTransfer
<1>2. Moves(t, c, pl("cleared", told), <<"enable", <<>>>>, pl("armed", told))
  BY MoveTransfer
<1>3. Moves(t, c, pl("armed", told), <<"send", x>>, pl("sent", new))
  BY MoveTransfer
<1>4. Moves(t, c, pl("sent", new), <<"dmaWait", <<>>>>, pl("handed", new))
  BY MoveTransfer
<1>5. Moves(t, c, pl("handed", new), <<"wait", <<>>>>, pl("landed", new))
  BY MoveTransfer
<1>6. Moves(t, c, pl("landed", new), <<"disable", <<>>>>, pl("idle", new))
  BY MoveTransfer
<1> DEFINE p1 == <<<<"clear", <<>>>>>>
           p2 == p1 \o <<<<"enable", <<>>>>>>
           p3 == p2 \o <<<<"send", x>>>>
           p4 == p3 \o <<<<"dmaWait", <<>>>>>>
           p5 == p4 \o <<<<"wait", <<>>>>>>
           p6 == p5 \o <<<<"disable", <<>>>>>>
<1>7. Bus!SPI_Write(x) = p6
  BY DEF Bus!SPI_Write, Bus!Step, Bus!Nothing
<1> HIDE DEF pl, new
<1>8. Runs(t, c, p1, pl(ph, told), pl("cleared", told))
  BY <1>1, RunsOne
<1> HIDE DEF p1
<1>9. Runs(t, c, p2, pl(ph, told), pl("armed", told))
  BY <1>2, <1>8, RunsThen
<1> HIDE DEF p2
<1>10. Runs(t, c, p3, pl(ph, told), pl("sent", new))
  BY <1>3, <1>9, RunsThen
<1> HIDE DEF p3
<1>11. Runs(t, c, p4, pl(ph, told), pl("handed", new))
  BY <1>4, <1>10, RunsThen
<1> HIDE DEF p4
<1>12. Runs(t, c, p5, pl(ph, told), pl("landed", new))
  BY <1>5, <1>11, RunsThen
<1> HIDE DEF p5
<1>13. Runs(t, c, p6, pl(ph, told), pl("idle", new))
  BY <1>6, <1>12, RunsThen
<1> QED
  BY <1>7, <1>13 DEF pl, new

(* What is received.                                                       *)
LEMMA RunRead ==
  ASSUME NEW t, NEW c, NEW fl, NEW bus, NEW dev, NEW ph \in {"idle", "read"}, NEW told,
         NEW knows, NEW mode, NEW due, NEW busy, dev # "none"
  PROVE  Runs(t, c, Bus!SPI_Read, Place(fl, bus, dev, ph, told, knows, mode, due, busy),
              Place(fl, bus, dev, "read", told, knows, mode, due, busy))
<1> DEFINE pl(f) == Place(fl, bus, dev, f, told, knows, mode, due, busy)
<1>1. Moves(t, c, pl(ph), <<"receive", <<>>>>, pl("receiving"))
  BY MoveTransfer
<1>2. Moves(t, c, pl("receiving"), <<"dmaWait", <<>>>>, pl("read"))
  BY MoveTransfer
<1>3. Bus!SPI_Read = <<<<"receive", <<>>>>>> \o <<<<"dmaWait", <<>>>>>>
  BY DEF Bus!SPI_Read, Bus!Step, Bus!Nothing
<1> HIDE DEF pl
<1> QED
  BY <1>1, <1>2, <1>3, RunsOne, RunsThen DEF pl

(* A transaction whose body leads to y.                                    *)
LEMMA RunTransaction ==
  ASSUME NEW t, NEW c, NEW fl, NEW bus \in 0 .. 2, NEW dev \in {"flash", "uic"},
         NEW knows, NEW mode, NEW due, NEW busy, NEW body, NEW y,
         NEW knows2, NEW mode2, NEW due2, NEW busy2, bus = 0 => ~busy2,
         Runs(t, c, body, Place(fl, bus + 1, dev, "idle", <<>>, knows, mode, due, busy), y),
         Deselects(y, <<"deselect", <<>>>>, Quiet(fl, bus + 1, knows2, mode2, due2, busy2))
  PROVE  Runs(t, c, Bus!Transaction(dev, body), Quiet(fl, bus, knows, mode, due, busy),
              Quiet(fl, bus, knows2, mode2, due2, busy2))
<1> DEFINE x0 == Quiet(fl, bus, knows, mode, due, busy)
           x1 == Quiet(fl, bus + 1, knows, mode, due, busy)
           x2 == Place(fl, bus + 1, dev, "idle", <<>>, knows, mode, due, busy)
           z1 == Quiet(fl, bus + 1, knows2, mode2, due2, busy2)
           z0 == Quiet(fl, bus, knows2, mode2, due2, busy2)
<1>1. Moves(t, c, x0, <<"acquire", "bus">>, x1)
  BY MoveLock
<1>2. Moves(t, c, x1, <<"select", dev>>, x2)
  BY MoveSelect
<1>3. Moves(t, c, y, <<"deselect", <<>>>>, z1)
  BY DEF Moves
<1>4. Moves(t, c, z1, <<"release", "bus">>, z0)
  <2>1. (bus + 1) - 1 = bus /\ bus + 1 > 0 /\ (bus + 1 = 1 => ~busy2)
    OBVIOUS
  <2> QED
    BY <2>1, MoveLock
<1> DEFINE start == <<<<"acquire", "bus">>>> \o <<<<"select", dev>>>>
           finish == <<<<"deselect", <<>>>>>> \o <<<<"release", "bus">>>>
<1>5. Bus!Transaction(dev, body) = start \o body \o finish
  BY DEF Bus!Transaction, Bus!SPI_Start, Bus!SPI_Finish, Bus!Acquire, Bus!Release,
         Bus!Step, Bus!Nothing
<1> HIDE DEF x0, x1, x2, z1, z0
<1>6. Runs(t, c, start, x0, x2)
  BY <1>1, <1>2, RunsOne, RunsThen
<1>7. Runs(t, c, finish, y, z0)
  BY <1>3, <1>4, RunsOne, RunsThen
<1> HIDE DEF start, finish
<1>8. Runs(t, c, body, x2, y)
  BY DEF x2
<1>9. Runs(t, c, start \o body, x0, y)
  BY <1>6, <1>8, RunsJoin
<1>10. Runs(t, c, start \o body \o finish, x0, z0)
  BY <1>7, <1>9, RunsJoin
<1> QED
  BY <1>5, <1>10 DEF x0, z0

(* The flash's mutex is taken again, and given back, inside of itself.     *)
LEMMA RunInside ==
  ASSUME NEW t, NEW c, NEW fl \in 1 .. 2, NEW knows, NEW mode, NEW due
  PROVE  /\ Runs(t, c, Bus!Acquire("flash"), Quiet(fl, 0, knows, mode, due, FALSE),
                 Quiet(fl + 1, 0, knows, mode, due, FALSE))
         /\ Runs(t, c, Bus!Release("flash"), Quiet(fl + 1, 0, knows, mode, due, FALSE),
                 Quiet(fl, 0, knows, mode, due, FALSE))
<1> DEFINE x0 == Quiet(fl, 0, knows, mode, due, FALSE)
           x1 == Quiet(fl + 1, 0, knows, mode, due, FALSE)
<1>1. Moves(t, c, x0, <<"acquire", "flash">>, x1)
  <2> DEFINE f == fl + 1
  <2>1. fl \in 1 .. 2 /\ f = fl + 1
    OBVIOUS
  <2> HIDE DEF f
  <2> QED
    BY <2>1, MoveLock
<1>2. Moves(t, c, x1, <<"release", "flash">>, x0)
  <2>1. (fl + 1) - 1 = fl /\ fl + 1 \in 2 .. 3
    OBVIOUS
  <2> QED
    BY <2>1, MoveLock
<1> HIDE DEF x0, x1
<1>3. Runs(t, c, Bus!Acquire("flash"), x0, x1)
  BY <1>1, RunsOne DEF Bus!Acquire
<1>4. Runs(t, c, Bus!Release("flash"), x1, x0)
  BY <1>2, RunsOne DEF Bus!Release
<1> QED
  BY <1>3, <1>4 DEF x0, x1

(* The outermost one: the effect of the call is due, until it is done.     *)
LEMMA RunOutside ==
  ASSUME NEW t, NEW c, NEW knows
  PROVE  /\ Runs(t, c, Bus!Acquire("flash"), Start, Quiet(1, 0, "any", Agreed, DueOf(t, c), FALSE))
         /\ Runs(t, c, Bus!Release("flash"), Quiet(1, 0, knows, Agreed, NoneDue, FALSE), Start)
<1> DEFINE x1 == Quiet(1, 0, "any", Agreed, DueOf(t, c), FALSE)
           z1 == Quiet(1, 0, knows, Agreed, NoneDue, FALSE)
<1>1. Moves(t, c, Start, <<"acquire", "flash">>, x1)
  BY MoveOutermost
<1>2. Moves(t, c, z1, <<"release", "flash">>, Start)
  BY MoveOutermost
<1> HIDE DEF x1, z1
<1>3. Runs(t, c, Bus!Acquire("flash"), Start, x1)
  BY <1>1, RunsOne DEF Bus!Acquire
<1>4. Runs(t, c, Bus!Release("flash"), z1, Start)
  BY <1>2, RunsOne DEF Bus!Release
<1> QED
  BY <1>3, <1>4 DEF x1, z1

(* The end of a transaction.                                               *)
LEMMA MoveDeselect ==
  ASSUME NEW fl, NEW bus, NEW dev, NEW ph \in {"idle", "read"}, NEW told, NEW knows, NEW mode,
         NEW due, NEW busy, NEW knows2, NEW mode2, NEW due2, NEW busy2, NEW a, NEW n,
         \/ /\ dev = "flash" /\ told \in {<<<<"status">>>>, <<<<"id">>>>}
            /\ knows2 = knows /\ mode2 = mode /\ due2 = due /\ busy2 = busy
         \/ /\ dev = "flash" /\ fl > 0 /\ told = <<<<"wren">>>> /\ knows = "idle"
            /\ knows2 = "ready" /\ mode2 = mode /\ due2 = due /\ busy2 = busy
         \/ /\ dev = "flash" /\ fl > 0 /\ told = <<<<"wrdi">>>> /\ knows \in {"idle", "ready"}
            /\ knows2 = "idle" /\ mode2 = mode /\ due2 = due /\ busy2 = busy
         \/ /\ dev = "flash" /\ fl > 0 /\ knows = "ready"
            /\ mode2 \in 0 .. 1 /\ told = <<<<"mode", mode2>>>>
            /\ knows2 = knows /\ due2 = due /\ busy2 = busy
         \/ /\ dev = "flash" /\ fl > 0 /\ mode = Agreed /\ a \in Nat /\ told = <<<<"read", a>>>>
            /\ knows2 = knows /\ mode2 = mode /\ due2 = due /\ busy2 = busy
         \/ /\ dev = "flash" /\ fl > 0 /\ mode = Agreed /\ knows = "ready" /\ a \in Nat
            /\ told = <<<<"erase", a>>>> /\ due = [x \in Bus!Addresses |-> Nothing]
            /\ knows2 = "any" /\ mode2 = mode /\ due2 = NoneDue /\ busy2 = busy
         \/ /\ dev = "flash" /\ fl > 0 /\ mode = Agreed /\ knows = "ready" /\ a \in Nat /\ n \in Nat \ {0}
            /\ (a % Page) + n <= Page /\ a .. a + n - 1 \subseteq DOMAIN due
            /\ told = <<<<"program", a>>, <<"data">> \o [k \in 1 .. n |-> due[a + k - 1]]>>
            /\ knows2 = "any" /\ mode2 = mode /\ busy2 = busy
            /\ due2 = [x \in DOMAIN due \ (a .. a + n - 1) |-> due[x]]
         \/ /\ dev = "uic" /\ told # <<>> /\ ~Widened(told[1]) /\ knows2 = knows /\ mode2 = mode /\ due2 = due
            /\ busy2 = (busy \/ told[1] = <<"disable">>)
  PROVE  Deselects(Place(fl, bus, dev, ph, told, knows, mode, due, busy), <<"deselect", <<>>>>,
                   Quiet(fl, bus, knows2, mode2, due2, busy2))
<1> DEFINE s == Place(fl, bus, dev, ph, told, knows, mode, due, busy)
           u == Quiet(fl, bus, knows2, mode2, due2, busy2)
           p == <<"deselect", <<>>>>
           v == Away(s)
<1>1. s = Place(fl, bus, dev, ph, told, knows, mode, due, busy)
  OBVIOUS
<1>2. p[1] = "deselect"
  OBVIOUS
<1>9. u = Place(fl, bus, "none", "idle", <<>>, knows2, mode2, due2, busy2)
  BY DEF Quiet
<1> HIDE DEF s, u, p
<1>3. /\ s.fl = fl /\ s.bus = bus /\ s.dev = dev /\ s.ph = ph /\ s.told = told
      /\ s.knows = knows /\ s.mode = mode /\ s.due = due /\ s.busy = busy
  BY <1>1, Fields
<1>4. Still(s)
  BY <1>3 DEF Still
<1>8. v = Place(fl, bus, "none", "idle", <<>>, knows, mode, due, busy)
  BY <1>1, Fields
<1> HIDE DEF v
<1>5. busy2 = busy => u = Knowing(v, knows2, mode2, due2)
  <2>1. /\ v.fl = fl /\ v.bus = bus /\ v.dev = "none" /\ v.ph = "idle" /\ v.told = <<>> /\ v.busy = busy
    BY <1>8 DEF Place
  <2> QED
    BY <1>9, <2>1 DEF Knowing
<1>6. (knows2 = knows /\ mode2 = mode /\ due2 = due) => u = Writing(v, busy2)
  <2>1. /\ v.fl = fl /\ v.bus = bus /\ v.dev = "none" /\ v.ph = "idle" /\ v.told = <<>>
        /\ v.knows = knows /\ v.mode = mode /\ v.due = due
    BY <1>8 DEF Place
  <2> QED
    BY <1>9, <2>1 DEF Writing
<1>7. (knows2 = knows /\ mode2 = mode /\ due2 = due /\ busy2 = busy) => u = v
  BY <1>8, <1>9
<1>10. Deselects(s, p, u)
  <2>1. CASE /\ dev = "flash" /\ told \in {<<<<"status">>>>, <<<<"id">>>>}
             /\ knows2 = knows /\ mode2 = mode /\ due2 = due /\ busy2 = busy
    <3>1. u = v
      BY <1>7, <1>8, <2>1
    <3> QED
      BY <1>2, <1>3, <1>4, <2>1, <3>1 DEF Deselects, v
  <2>2. CASE /\ dev = "flash" /\ fl > 0 /\ told = <<<<"wren">>>> /\ knows = "idle"
             /\ knows2 = "ready" /\ mode2 = mode /\ due2 = due /\ busy2 = busy
    <3>1. u = Knowing(v, knows2, s.mode, s.due)
      BY <1>3, <1>5, <1>7, <2>2
    <3> QED
      BY <1>2, <1>3, <1>4, <2>2, <3>1 DEF Deselects, v
  <2>3. CASE /\ dev = "flash" /\ fl > 0 /\ told = <<<<"wrdi">>>> /\ knows \in {"idle", "ready"}
             /\ knows2 = "idle" /\ mode2 = mode /\ due2 = due /\ busy2 = busy
    <3>1. u = Knowing(v, knows2, s.mode, s.due)
      BY <1>3, <1>5, <1>7, <2>3
    <3> QED
      BY <1>2, <1>3, <1>4, <2>3, <3>1 DEF Deselects, v
  <2>4. CASE /\ dev = "flash" /\ fl > 0 /\ knows = "ready"
             /\ mode2 \in 0 .. 1 /\ told = <<<<"mode", mode2>>>>
             /\ knows2 = knows /\ due2 = due /\ busy2 = busy
    <3>1. s.dev = "flash" /\ s.fl > 0 /\ s.knows = "ready" /\ mode2 \in 0 .. 1
          /\ s.told = <<<<"mode", mode2>>>> /\ u = Knowing(v, "ready", mode2, s.due)
      BY <1>3, <1>5, <1>7, <2>4
    <3> QED
      BY <1>2, <1>4, <3>1 DEF Deselects, v
  <2>5. CASE /\ dev = "flash" /\ fl > 0 /\ mode = Agreed /\ a \in Nat /\ told = <<<<"read", a>>>>
             /\ knows2 = knows /\ mode2 = mode /\ due2 = due /\ busy2 = busy
    <3>1. u = v
      BY <1>7, <1>8, <2>5
    <3> QED
      BY <1>2, <1>3, <1>4, <2>5, <3>1 DEF Deselects, v
  <2>6. CASE /\ dev = "flash" /\ fl > 0 /\ mode = Agreed /\ knows = "ready" /\ a \in Nat
             /\ told = <<<<"erase", a>>>> /\ due = [x \in Bus!Addresses |-> Nothing]
             /\ knows2 = "any" /\ mode2 = mode /\ due2 = NoneDue /\ busy2 = busy
    <3>1. s.dev = "flash" /\ s.fl > 0 /\ s.mode = Agreed /\ s.knows = "ready" /\ s.told = <<<<"erase", a>>>>
      BY <1>3, <2>6
    <3>2. s.due = [x \in Bus!Addresses |-> Nothing]
      BY <1>3, <2>6
    <3>3. u = Knowing(v, "any", s.mode, NoneDue)
      BY <1>3, <1>5, <1>7, <2>6
    <3> QED
      BY <1>2, <1>4, <2>6, <3>1, <3>2, <3>3 DEF Deselects, v
  <2>7. CASE /\ dev = "flash" /\ fl > 0 /\ mode = Agreed /\ knows = "ready" /\ a \in Nat /\ n \in Nat \ {0}
             /\ (a % Page) + n <= Page /\ a .. a + n - 1 \subseteq DOMAIN due
             /\ told = <<<<"program", a>>, <<"data">> \o [k \in 1 .. n |-> due[a + k - 1]]>>
             /\ knows2 = "any" /\ mode2 = mode /\ busy2 = busy
             /\ due2 = [x \in DOMAIN due \ (a .. a + n - 1) |-> due[x]]
    <3>1. s.dev = "flash" /\ s.fl > 0 /\ s.mode = Agreed /\ s.knows = "ready" /\ a \in Nat /\ n \in Nat \ {0}
      BY <1>3, <2>7
    <3>2. Programs(s, a, n)
      BY <1>3, <2>7 DEF Programs
    <3>3. u = Knowing(v, "any", s.mode, [x \in DOMAIN s.due \ (a .. a + n - 1) |-> s.due[x]])
      <4>1. due2 = [x \in DOMAIN s.due \ (a .. a + n - 1) |-> s.due[x]]
        BY <1>3, <2>7
      <4> QED
        BY <1>3, <1>5, <1>7, <2>7, <4>1
    <3> QED
      BY <1>2, <1>4, <3>1, <3>2, <3>3 DEF Deselects, v
  <2>8. CASE /\ dev = "uic" /\ told # <<>> /\ ~Widened(told[1]) /\ knows2 = knows /\ mode2 = mode /\ due2 = due
             /\ busy2 = (busy \/ told[1] = <<"disable">>)
    <3>1. s.dev = "uic" /\ s.told # <<>> /\ ~Widened(s.told[1])
      BY <1>3, <2>8
    <3>2. u = Writing(v, s.busy \/ s.told[1] = <<"disable">>)
      <4>1. busy2 = (s.busy \/ s.told[1] = <<"disable">>)
        BY <1>3, <2>8
      <4>2. u = Writing(v, busy2)
        BY <1>6, <1>7, <2>8
      <4> QED
        BY <4>1, <4>2
    <3> QED
      BY <1>2, <1>4, <3>1, <3>2 DEF Deselects, v
  <2> QED
    BY <2>1, <2>2, <2>3, <2>4, <2>5, <2>6, <2>7, <2>8
<1> QED
  BY <1>10 DEF s, p, u

(* A transaction of one command.                                           *)
LEMMA RunCommand ==
  ASSUME NEW t, NEW c, NEW fl, NEW bus \in 0 .. 2, NEW dev \in {"flash", "uic"}, NEW x,
         NEW knows, NEW mode, NEW due, NEW busy, NEW knows2, NEW mode2, NEW due2,
         IsSeq(x), x # <<>>, dev = "uic" => ~busy, Widened(x) => fl > 0 /\ mode = Agreed, bus = 0 => ~busy,
         Deselects(Place(fl, bus + 1, dev, "idle", <<x>>, knows, mode, due, busy),
                   <<"deselect", <<>>>>, Quiet(fl, bus + 1, knows2, mode2, due2, busy))
  PROVE  Runs(t, c, Bus!Transaction(dev, Bus!SPI_Write(x)), Quiet(fl, bus, knows, mode, due, busy),
              Quiet(fl, bus, knows2, mode2, due2, busy))
<1> DEFINE b == bus + 1
           y == Place(fl, b, dev, "idle", <<x>>, knows, mode, due, busy)
           body == Bus!SPI_Write(x)
<1>1. Append(<<>>, x) = <<x>>
  OBVIOUS
<1>2. dev # "none" /\ "idle" \in {"idle", "read"}
  OBVIOUS
<1>3. Runs(t, c, body, Place(fl, b, dev, "idle", <<>>, knows, mode, due, busy), y)
  <2> HIDE DEF b
  <2> DEFINE ph == "idle"
             told == <<>>
  <2>1. ph \in {"idle", "read"} /\ Append(told, x) = <<x>>
    BY <1>1
  <2> HIDE DEF ph, told
  <2>2. Runs(t, c, Bus!SPI_Write(x), Place(fl, b, dev, ph, told, knows, mode, due, busy),
             Place(fl, b, dev, "idle", Append(told, x), knows, mode, due, busy))
    BY <1>2, <2>1, RunWrite
  <2> QED
    BY <2>1, <2>2 DEF ph, told
<1> HIDE DEF body
<1>4. Runs(t, c, body, Place(fl, bus + 1, dev, "idle", <<>>, knows, mode, due, busy), y)
  BY <1>3
<1>5. Deselects(y, <<"deselect", <<>>>>, Quiet(fl, bus + 1, knows2, mode2, due2, busy))
  OBVIOUS
<1> HIDE DEF y, b
<1>6. Runs(t, c, Bus!Transaction(dev, body), Quiet(fl, bus, knows, mode, due, busy),
           Quiet(fl, bus, knows2, mode2, due2, busy))
  BY <1>4, <1>5, RunTransaction
<1> QED
  BY <1>6 DEF body

StatusKnown(wel) == IF wel THEN "ready" ELSE "idle"

(* Flash_WaitForStatus: afterwards the caller knows that the flash is idle. *)
LEMMA RunWait ==
  ASSUME NEW t, NEW c, NEW fl, fl > 0, NEW wel \in BOOLEAN, NEW knows, NEW mode, NEW due
  PROVE  Runs(t, c, Bus!Flash_WaitForStatus(wel, FALSE), Quiet(fl, 0, knows, mode, due, FALSE),
              Quiet(fl, 0, StatusKnown(wel), mode, due, FALSE))
<1> DEFINE x == <<"status">>
           bus == 0
           b == bus + 1
           busy == FALSE
           x1 == Place(fl, b, "flash", "idle", <<>>, knows, mode, due, busy)
           x2 == Place(fl, b, "flash", "idle", <<x>>, knows, mode, due, busy)
           x3 == Place(fl, b, "flash", "read", <<x>>, StatusKnown(wel), mode, due, busy)
           p == <<"poll", <<wel, FALSE>>>>
           body == Bus!SPI_Write(x) \o <<p>>
<1>1. Append(<<>>, x) = <<x>> /\ IsSeq(x) /\ x # <<>> /\ ~Widened(x)
  BY SeqOne DEF Widened
<1>2. p[1] = "poll" /\ p[2] = <<wel, FALSE>>
  OBVIOUS
<1>3. Bus!Flash_WaitForStatus(wel, FALSE) = Bus!Transaction("flash", body)
  BY DEF Bus!Flash_WaitForStatus, Bus!Command
<1>4. bus = 0 /\ bus \in 0 .. 2 /\ ~busy /\ busy = FALSE
  OBVIOUS
<1>5. <<x>> \in {<<<<"status">>>>, <<<<"id">>>>}
  OBVIOUS
<1> HIDE DEF x, p, bus, busy
<1>6. Runs(t, c, Bus!SPI_Write(x), x1, x2)
  <2> DEFINE told == <<>>
             ph == "idle"
             dev == "flash"
  <2>1. Append(told, x) = <<x>> /\ ph \in {"idle", "read"} /\ dev # "none" /\ dev # "uic"
    BY <1>1
  <2> HIDE DEF told, ph, dev, b
  <2>2. Runs(t, c, Bus!SPI_Write(x), Place(fl, b, dev, ph, told, knows, mode, due, busy),
             Place(fl, b, dev, "idle", Append(told, x), knows, mode, due, busy))
    BY <1>1, <2>1, RunWrite
  <2> QED
    BY <2>1, <2>2 DEF told, ph, dev
<1>7. Moves(t, c, x2, p, x3)
  <2>1. x2 = Place(fl, b, "flash", "idle", <<x>>, knows, mode, due, busy)
    OBVIOUS
  <2> HIDE DEF x2, b
  <2>2. /\ x2.fl = fl /\ x2.bus = b /\ x2.dev = "flash" /\ x2.ph = "idle" /\ x2.told = <<x>>
        /\ x2.mode = mode /\ x2.due = due /\ x2.busy = busy
    BY <2>1 DEF Place
  <2> DEFINE w == Talking(x2, x2.dev, "read", x2.told)
  <2>3. w = Place(fl, b, "flash", "read", <<x>>, knows, mode, due, busy)
    BY <2>1 DEF Talking, Place
  <2> HIDE DEF w
  <2>4. /\ w.fl = fl /\ w.bus = b /\ w.dev = "flash" /\ w.ph = "read" /\ w.told = <<x>> /\ w.busy = busy
    BY <2>3 DEF Place
  <2>5. x3 = Knowing(w, IF wel THEN "ready" ELSE "idle", x2.mode, x2.due)
    BY <2>2, <2>4 DEF Knowing, StatusKnown
  <2> HIDE DEF x3
  <2>6. Learns(x2, p, x3)
    BY <1>2, <2>2, <2>5 DEF Learns, Still, w
  <2> QED
    BY <2>6 DEF Moves
<1>8. Deselects(x3, <<"deselect", <<>>>>, Quiet(fl, bus + 1, StatusKnown(wel), mode, due, busy))
  <2> DEFINE dev == "flash"
             ph == "read"
             told == <<x>>
             k == StatusKnown(wel)
  <2>1. dev = "flash" /\ told \in {<<<<"status">>>>, <<<<"id">>>>} /\ ph \in {"idle", "read"}
    BY <1>5
  <2> HIDE DEF dev, ph, told, b, k
  <2>2. Deselects(Place(fl, b, dev, ph, told, k, mode, due, busy), <<"deselect", <<>>>>,
                  Quiet(fl, b, k, mode, due, busy))
    BY <2>1, MoveDeselect
  <2> QED
    BY <2>2 DEF dev, ph, told, b, k
<1>9. Runs(t, c, Bus!SPI_Write(x) \o <<p>>, x1, x3)
  <2> HIDE DEF x1, x2, x3
  <2> QED
    BY <1>6, <1>7, RunsThen
<1> HIDE DEF x3
<1>10. Runs(t, c, body, Place(fl, bus + 1, "flash", "idle", <<>>, knows, mode, due, busy), x3)
  BY <1>9
<1> HIDE DEF x1, b, body
<1>11. Runs(t, c, Bus!Transaction("flash", body), Quiet(fl, bus, knows, mode, due, busy),
            Quiet(fl, bus, StatusKnown(wel), mode, due, busy))
  <2> DEFINE dev == "flash"
             k == StatusKnown(wel)
  <2>1. dev \in {"flash", "uic"}
    OBVIOUS
  <2> HIDE DEF dev, k
  <2> QED
    BY <1>4, <1>8, <1>10, <2>1, RunTransaction DEF dev, k
<1> QED
  BY <1>3, <1>11 DEF bus, busy

(* Flash_WriteEnable and Flash_WriteDisable.                               *)
LEMMA RunWriteEnable ==
  ASSUME NEW t, NEW c, NEW fl \in 1 .. 2, NEW knows, NEW mode, NEW due, knows = "idle"
  PROVE  Runs(t, c, Bus!Flash_WriteEnable, Quiet(fl, 0, knows, mode, due, FALSE),
              Quiet(fl, 0, "ready", mode, due, FALSE))
<1> DEFINE x == <<"wren">>
           f == fl + 1
           bus == 0
           b == bus + 1
           busy == FALSE
           dev == "flash"
           told == <<x>>
           ph == "idle"
           k == "ready"
<1>1. IsSeq(x) /\ x # <<>> /\ ~Widened(x) /\ told = <<<<"wren">>>>
  BY SeqOne DEF Widened
<1>2. f > 0 /\ bus \in 0 .. 2 /\ dev \in {"flash", "uic"} /\ dev # "uic" /\ dev = "flash" /\ ~busy
      /\ ph \in {"idle", "read"} /\ b = bus + 1 /\ k = "ready" /\ busy = FALSE
  OBVIOUS
<1>3. Bus!Flash_WriteEnable = Bus!Acquire("flash")
        \o Bus!Transaction(dev, Bus!SPI_Write(x)) \o Bus!Flash_WaitForStatus(TRUE, FALSE)
        \o Bus!Release("flash")
  BY DEF Bus!Flash_WriteEnable, Bus!Command
<1> HIDE DEF x, f, bus, b, busy, dev, told, ph, k
<1>4. Deselects(Place(f, b, dev, ph, told, knows, mode, due, busy), <<"deselect", <<>>>>,
                Quiet(f, b, k, mode, due, busy))
  BY <1>1, <1>2, MoveDeselect
<1>5. Runs(t, c, Bus!Transaction(dev, Bus!SPI_Write(x)), Quiet(f, bus, knows, mode, due, busy),
           Quiet(f, bus, k, mode, due, busy))
  <2>1. Deselects(Place(f, bus + 1, dev, "idle", <<x>>, knows, mode, due, busy), <<"deselect", <<>>>>,
                  Quiet(f, bus + 1, k, mode, due, busy))
    BY <1>4, <1>2 DEF told, ph
  <2> QED
    BY <1>1, <1>2, <2>1, RunCommand
<1>6. Runs(t, c, Bus!Flash_WaitForStatus(TRUE, FALSE), Quiet(f, bus, k, mode, due, busy),
           Quiet(f, bus, k, mode, due, busy))
  <2>1. StatusKnown(TRUE) = k
    BY DEF StatusKnown, k
  <2> DEFINE w == TRUE
  <2>2. w \in BOOLEAN /\ StatusKnown(w) = k
    BY <2>1
  <2> HIDE DEF w
  <2>3. Runs(t, c, Bus!Flash_WaitForStatus(w, FALSE), Quiet(f, 0, k, mode, due, FALSE),
             Quiet(f, 0, StatusKnown(w), mode, due, FALSE))
    BY <1>2, <2>2, RunWait
  <2> QED
    BY <2>2, <2>3 DEF w, bus, busy
<1>7. /\ Runs(t, c, Bus!Acquire("flash"), Quiet(fl, 0, knows, mode, due, FALSE),
              Quiet(f, bus, knows, mode, due, busy))
      /\ Runs(t, c, Bus!Release("flash"), Quiet(f, bus, k, mode, due, busy),
              Quiet(fl, 0, k, mode, due, FALSE))
  BY RunInside DEF f, bus, busy
<1>8. Runs(t, c, Bus!Flash_WriteEnable, Quiet(fl, 0, knows, mode, due, FALSE),
           Quiet(fl, 0, k, mode, due, FALSE))
  BY <1>3, <1>5, <1>6, <1>7, RunsFour
<1> QED
  BY <1>8 DEF k

(* Flash_WriteDisable.                                                     *)
LEMMA RunWriteDisable ==
  ASSUME NEW t, NEW c, NEW fl \in 1 .. 2, NEW knows \in {"idle", "ready"}, NEW mode, NEW due
  PROVE  Runs(t, c, Bus!Flash_WriteDisable, Quiet(fl, 0, knows, mode, due, FALSE),
              Quiet(fl, 0, "idle", mode, due, FALSE))
<1> DEFINE x == <<"wrdi">>
           f == fl + 1
           bus == 0
           b == bus + 1
           busy == FALSE
           dev == "flash"
           told == <<x>>
           ph == "idle"
           k == "idle"
<1>1. IsSeq(x) /\ x # <<>> /\ ~Widened(x) /\ told = <<<<"wrdi">>>>
  BY SeqOne DEF Widened
<1>2. f > 0 /\ bus \in 0 .. 2 /\ dev \in {"flash", "uic"} /\ dev # "uic" /\ dev = "flash" /\ ~busy
      /\ ph \in {"idle", "read"} /\ b = bus + 1 /\ k = "idle" /\ busy = FALSE
  OBVIOUS
<1>3. Bus!Flash_WriteDisable = Bus!Acquire("flash")
        \o Bus!Transaction(dev, Bus!SPI_Write(x)) \o Bus!Flash_WaitForStatus(FALSE, FALSE)
        \o Bus!Release("flash")
  BY DEF Bus!Flash_WriteDisable, Bus!Command
<1> HIDE DEF x, f, bus, b, busy, dev, told, ph, k
<1>4. Deselects(Place(f, b, dev, ph, told, knows, mode, due, busy), <<"deselect", <<>>>>,
                Quiet(f, b, k, mode, due, busy))
  BY <1>1, <1>2, MoveDeselect
<1>5. Runs(t, c, Bus!Transaction(dev, Bus!SPI_Write(x)), Quiet(f, bus, knows, mode, due, busy),
           Quiet(f, bus, k, mode, due, busy))
  <2>1. Deselects(Place(f, bus + 1, dev, "idle", <<x>>, knows, mode, due, busy), <<"deselect", <<>>>>,
                  Quiet(f, bus + 1, k, mode, due, busy))
    BY <1>4, <1>2 DEF told, ph
  <2> QED
    BY <1>1, <1>2, <2>1, RunCommand
<1>6. Runs(t, c, Bus!Flash_WaitForStatus(FALSE, FALSE), Quiet(f, bus, k, mode, due, busy),
           Quiet(f, bus, k, mode, due, busy))
  <2>1. StatusKnown(FALSE) = k
    BY DEF StatusKnown, k
  <2> DEFINE w == FALSE
  <2>2. w \in BOOLEAN /\ StatusKnown(w) = k
    BY <2>1
  <2> HIDE DEF w
  <2>3. Runs(t, c, Bus!Flash_WaitForStatus(w, FALSE), Quiet(f, 0, k, mode, due, FALSE),
             Quiet(f, 0, StatusKnown(w), mode, due, FALSE))
    BY <1>2, <2>2, RunWait
  <2> QED
    BY <2>2, <2>3 DEF w, bus, busy
<1>7. /\ Runs(t, c, Bus!Acquire("flash"), Quiet(fl, 0, knows, mode, due, FALSE),
              Quiet(f, bus, knows, mode, due, busy))
      /\ Runs(t, c, Bus!Release("flash"), Quiet(f, bus, k, mode, due, busy),
              Quiet(fl, 0, k, mode, due, FALSE))
  BY RunInside DEF f, bus, busy
<1>8. Runs(t, c, Bus!Flash_WriteDisable, Quiet(fl, 0, knows, mode, due, FALSE),
           Quiet(fl, 0, k, mode, due, FALSE))
  BY <1>3, <1>5, <1>6, <1>7, RunsFour
<1> QED
  BY <1>8 DEF k

(* What goes before a command that needs the write enable.                 *)
LEMMA RunPrepare ==
  ASSUME NEW t, NEW c, NEW fl \in 1 .. 2, NEW p, NEW x, NEW knows, NEW mode, NEW due,
         Runs(t, c, p, x, Quiet(fl, 0, knows, mode, due, FALSE))
  PROVE  Runs(t, c, p \o Bus!Flash_WaitForStatus(FALSE, FALSE) \o Bus!Flash_WriteEnable, x,
              Quiet(fl, 0, "ready", mode, due, FALSE))
<1> DEFINE w == FALSE
           k == "idle"
<1>1. w \in BOOLEAN /\ StatusKnown(w) = k /\ k = "idle" /\ fl > 0
  BY DEF StatusKnown
<1> HIDE DEF w, k
<1>2. Runs(t, c, Bus!Flash_WaitForStatus(w, FALSE), Quiet(fl, 0, knows, mode, due, FALSE),
           Quiet(fl, 0, k, mode, due, FALSE))
  BY <1>1, RunWait
<1>3. Runs(t, c, Bus!Flash_WriteEnable, Quiet(fl, 0, k, mode, due, FALSE),
           Quiet(fl, 0, "ready", mode, due, FALSE))
  BY <1>1, RunWriteEnable
<1> QED
  BY <1>2, <1>3, RunsThree DEF w

(* A command, alone or with an address, while the flash is held.           *)
LEMMA RunFlashCommand ==
  ASSUME NEW t, NEW c, NEW fl \in 1 .. 3, NEW x, NEW knows, NEW mode, NEW due,
         NEW knows2, NEW mode2, NEW due2, NEW a, IsSeq(x), x # <<>>, Widened(x) => mode = Agreed,
         \/ /\ knows = "ready" /\ mode2 \in 0 .. 1 /\ x = <<"mode", mode2>>
            /\ knows2 = knows /\ due2 = due
         \/ /\ mode = Agreed /\ a \in Nat /\ x = <<"read", a>>
            /\ knows2 = knows /\ mode2 = mode /\ due2 = due
         \/ /\ mode = Agreed /\ knows = "ready" /\ a \in Nat /\ x = <<"erase", a>>
            /\ due = [y \in Bus!Addresses |-> Nothing]
            /\ knows2 = "any" /\ mode2 = mode /\ due2 = NoneDue
  PROVE  Runs(t, c, Bus!Transaction("flash", Bus!SPI_Write(x)), Quiet(fl, 0, knows, mode, due, FALSE),
              Quiet(fl, 0, knows2, mode2, due2, FALSE))
<1> DEFINE bus == 0
           b == bus + 1
           busy == FALSE
           dev == "flash"
           told == <<x>>
           ph == "idle"
<1>1. /\ fl > 0 /\ bus \in 0 .. 2 /\ dev \in {"flash", "uic"} /\ dev # "uic" /\ dev = "flash" /\ ~busy
      /\ ph \in {"idle", "read"} /\ b = bus + 1 /\ busy = FALSE
  OBVIOUS
<1> HIDE DEF bus, b, busy, dev, told, ph
<1>2. Deselects(Place(fl, b, dev, ph, told, knows, mode, due, busy), <<"deselect", <<>>>>,
                Quiet(fl, b, knows2, mode2, due2, busy))
  <2>1. CASE /\ knows = "ready" /\ mode2 \in 0 .. 1 /\ x = <<"mode", mode2>>
             /\ knows2 = knows /\ due2 = due
    <3>1. told = <<<<"mode", mode2>>>>
      BY <2>1 DEF told
    <3> QED
      BY <1>1, <2>1, <3>1, MoveDeselect
  <2>2. CASE /\ mode = Agreed /\ a \in Nat /\ x = <<"read", a>>
             /\ knows2 = knows /\ mode2 = mode /\ due2 = due
    <3>1. told = <<<<"read", a>>>>
      BY <2>2 DEF told
    <3> QED
      BY <1>1, <2>2, <3>1, MoveDeselect
  <2>3. CASE /\ mode = Agreed /\ knows = "ready" /\ a \in Nat /\ x = <<"erase", a>>
             /\ due = [y \in Bus!Addresses |-> Nothing]
             /\ knows2 = "any" /\ mode2 = mode /\ due2 = NoneDue
    <3>1. told = <<<<"erase", a>>>>
      BY <2>3 DEF told
    <3>2. due = [y \in Bus!Addresses |-> Nothing]
      BY <2>3
    <3> QED
      BY <1>1, <2>3, <3>1, <3>2, MoveDeselect
  <2> QED
    BY <2>1, <2>2, <2>3
<1>3. Deselects(Place(fl, bus + 1, dev, "idle", <<x>>, knows, mode, due, busy), <<"deselect", <<>>>>,
                Quiet(fl, bus + 1, knows2, mode2, due2, busy))
  BY <1>1, <1>2 DEF told, ph
<1>4. Widened(x) => fl > 0 /\ mode = Agreed
  BY <1>1
<1>5. Runs(t, c, Bus!Transaction(dev, Bus!SPI_Write(x)), Quiet(fl, bus, knows, mode, due, busy),
           Quiet(fl, bus, knows2, mode2, due2, busy))
  BY <1>1, <1>3, <1>4, RunCommand
<1> QED
  BY <1>5 DEF dev, bus, busy

(* Flash_Set4ByteAddr: AddrMode follows the chip before the mutex is free. *)
LEMMA RunMode ==
  ASSUME NEW t, NEW c, NEW val \in 0 .. 1, DueOf(t, c) = NoneDue
  PROVE  Runs(t, c, Bus!Flash_Set4ByteAddr(val), Start, Start)
<1> DEFINE fl == 1
           x == <<"mode", val>>
           q(k, m) == Quiet(fl, 0, k, m, NoneDue, FALSE)
           p1 == Bus!Acquire("flash")
           p2 == p1 \o Bus!Flash_WaitForStatus(FALSE, FALSE) \o Bus!Flash_WriteEnable
           p3 == p2 \o Bus!Transaction("flash", Bus!SPI_Write(x))
           p4 == p3 \o Bus!Flash_WriteDisable
           p5 == p4 \o <<<<"addrMode", val>>>>
           p6 == p5 \o Bus!Release("flash")
<1>1. Bus!Flash_Set4ByteAddr(val) = p6
  BY DEF Bus!Flash_Set4ByteAddr
<1>2. fl \in 1 .. 2 /\ fl \in 1 .. 3 /\ IsSeq(x) /\ x # <<>> /\ ~Widened(x) /\ x = <<"mode", val>>
  BY SeqTwo DEF Widened
<1>3. Runs(t, c, p1, Start, q("any", Agreed))
  BY RunOutside
<1>4. Runs(t, c, Bus!Release("flash"), q("idle", Agreed), Start)
  BY RunOutside
<1> HIDE DEF fl, x, p1
<1>5. Runs(t, c, p2, Start, q("ready", Agreed))
  BY <1>2, <1>3, RunPrepare
<1> HIDE DEF p2
<1>6. Runs(t, c, Bus!Transaction("flash", Bus!SPI_Write(x)), q("ready", Agreed), q("ready", val))
  <2> DEFINE k == "ready"
             due == NoneDue
  <2>1. k = "ready"
    OBVIOUS
  <2> HIDE DEF k, due
  <2>2. Runs(t, c, Bus!Transaction("flash", Bus!SPI_Write(x)), Quiet(fl, 0, k, Agreed, due, FALSE),
             Quiet(fl, 0, k, val, due, FALSE))
    BY <1>2, <2>1, RunFlashCommand
  <2> QED
    BY <2>2 DEF k, due
<1>7. Runs(t, c, Bus!Flash_WriteDisable, q("ready", val), q("idle", val))
  <2> DEFINE k == "ready"
  <2>1. k \in {"idle", "ready"}
    OBVIOUS
  <2> HIDE DEF k, q, p3
  <2>2. fl \in 1 .. 2
    BY <1>2
  <2>3. Runs(t, c, Bus!Flash_WriteDisable, Quiet(fl, 0, k, val, NoneDue, FALSE),
             Quiet(fl, 0, "idle", val, NoneDue, FALSE))
    BY <2>1, <2>2, RunWriteDisable
  <2> QED
    BY <2>3 DEF k, q
<1>8. Moves(t, c, q("idle", val), <<"addrMode", val>>, q("idle", Agreed))
  <2> DEFINE s == q("idle", val)
             u == q("idle", Agreed)
             p == <<"addrMode", val>>
  <2>1. s = Place(fl, 0, "none", "idle", <<>>, "idle", val, NoneDue, FALSE)
        /\ u = Place(fl, 0, "none", "idle", <<>>, "idle", Agreed, NoneDue, FALSE)
    BY DEF Quiet
  <2>2. p[1] = "addrMode" /\ p[2] = val /\ fl > 0
    BY <1>2
  <2> HIDE DEF s, u, p
  <2>3. /\ s.fl = fl /\ s.bus = 0 /\ s.dev = "none" /\ s.ph = "idle" /\ s.told = <<>>
        /\ s.knows = "idle" /\ s.mode = val /\ s.due = NoneDue /\ s.busy = FALSE
    BY <2>1 DEF Place
  <2>4. u = Knowing(s, s.knows, Agreed, s.due)
    BY <2>1, <2>3 DEF Knowing
  <2>5. Others(s, p, u)
    BY <2>2, <2>3, <2>4 DEF Others
  <2> QED
    BY <2>5 DEF Moves, s, u, p
<1> HIDE DEF q
<1>9. Runs(t, c, p3, Start, q("ready", val))
  BY <1>5, <1>6, RunsJoin
<1> HIDE DEF p3
<1>10. Runs(t, c, p4, Start, q("idle", val))
  BY <1>7, <1>9, RunsJoin
<1> HIDE DEF p4
<1>11. Runs(t, c, p5, Start, q("idle", Agreed))
  BY <1>8, <1>10, RunsThen
<1> HIDE DEF p5
<1>12. Runs(t, c, p6, Start, Start)
  BY <1>4, <1>11, RunsJoin
<1> QED
  BY <1>1, <1>12

(* Flash_Erase leaves nothing due.                                         *)
LEMMA RunErase ==
  ASSUME NEW t, NEW c, NEW a \in Nat, DueOf(t, c) = [y \in Bus!Addresses |-> Nothing]
  PROVE  Runs(t, c, Bus!Flash_Erase(a), Start, Start)
<1> DEFINE fl == 1
           x == <<"erase", a>>
           due == DueOf(t, c)
           q(k, d) == Quiet(fl, 0, k, Agreed, d, FALSE)
           p1 == Bus!Acquire("flash")
           p2 == p1 \o Bus!Flash_WaitForStatus(FALSE, FALSE) \o Bus!Flash_WriteEnable
           p3 == p2 \o Bus!Transaction("flash", Bus!SPI_Write(x))
           p4 == p3 \o Bus!Flash_WaitForStatus(FALSE, FALSE)
           p5 == p4 \o Bus!Release("flash")
<1>1. Bus!Flash_Erase(a) = p5
  BY DEF Bus!Flash_Erase, Bus!Addressed
<1>2. fl \in 1 .. 2 /\ fl \in 1 .. 3 /\ IsSeq(x) /\ x # <<>> /\ x = <<"erase", a>> /\ fl > 0
  BY SeqTwo
<1>3. Runs(t, c, p1, Start, q("any", due))
  BY RunOutside
<1>4. Runs(t, c, Bus!Release("flash"), q("idle", NoneDue), Start)
  BY RunOutside
<1> HIDE DEF fl, x, p1, due
<1>5. Runs(t, c, p2, Start, q("ready", due))
  BY <1>2, <1>3, RunPrepare
<1> HIDE DEF p2
<1>6. Runs(t, c, Bus!Transaction("flash", Bus!SPI_Write(x)), q("ready", due), q("any", NoneDue))
  <2> DEFINE k == "ready"
             k2 == "any"
             d2 == NoneDue
  <2>1. k = "ready" /\ k2 = "any" /\ d2 = NoneDue /\ due = [y \in Bus!Addresses |-> Nothing]
    BY DEF due
  <2> HIDE DEF k, k2, d2
  <2>2. Runs(t, c, Bus!Transaction("flash", Bus!SPI_Write(x)), Quiet(fl, 0, k, Agreed, due, FALSE),
             Quiet(fl, 0, k2, Agreed, d2, FALSE))
    BY <1>2, <2>1, RunFlashCommand
  <2> QED
    BY <2>2 DEF k, k2, d2
<1>7. Runs(t, c, Bus!Flash_WaitForStatus(FALSE, FALSE), q("any", NoneDue), q("idle", NoneDue))
  <2> DEFINE w == FALSE
  <2>1. w \in BOOLEAN /\ StatusKnown(w) = "idle"
    BY DEF StatusKnown
  <2> HIDE DEF w
  <2>2. Runs(t, c, Bus!Flash_WaitForStatus(w, FALSE), q("any", NoneDue), q(StatusKnown(w), NoneDue))
    BY <1>2, <2>1, RunWait
  <2> QED
    BY <2>1, <2>2 DEF w
<1> HIDE DEF q
<1>8. Runs(t, c, p3, Start, q("any", NoneDue))
  BY <1>5, <1>6, RunsJoin
<1> HIDE DEF p3
<1>9. Runs(t, c, p4, Start, q("idle", NoneDue))
  BY <1>7, <1>8, RunsJoin
<1> HIDE DEF p4
<1>10. Runs(t, c, p5, Start, Start)
  BY <1>4, <1>9, RunsJoin
<1> QED
  BY <1>1, <1>10

(* A transaction that sends one command and receives.                      *)
LEMMA RunFlashRead ==
  ASSUME NEW t, NEW c, NEW a \in Nat, DueOf(t, c) = NoneDue
  PROVE  Runs(t, c, Bus!Flash_Read(a), Start, Start)
<1> DEFINE fl == 1
           x == <<"read", a>>
           bus == 0
           b == bus + 1
           busy == FALSE
           dev == "flash"
           ph == "idle"
           rd == "read"
           none == <<>>
           told == <<x>>
           k == "any"
           due == NoneDue
           body == Bus!SPI_Write(x) \o Bus!SPI_Read
           y1 == Place(fl, b, dev, ph, none, k, Agreed, due, busy)
           y2 == Place(fl, b, dev, ph, told, k, Agreed, due, busy)
           y3 == Place(fl, b, dev, rd, told, k, Agreed, due, busy)
           x1 == Quiet(fl, bus, k, Agreed, due, busy)
<1>1. Bus!Flash_Read(a) = Bus!Acquire("flash") \o Bus!Transaction(dev, body) \o Bus!Release("flash")
  BY DEF Bus!Flash_Read, Bus!Addressed
<1>2. /\ fl > 0 /\ IsSeq(x) /\ x # <<>> /\ told = <<<<"read", a>>>> /\ Append(none, x) = told
      /\ bus \in 0 .. 2 /\ b = bus + 1 /\ ~busy /\ bus = 0 /\ dev = "flash" /\ dev # "none" /\ dev # "uic"
      /\ ph \in {"idle", "read"} /\ ph = "idle" /\ rd \in {"idle", "read"} /\ rd = "read"
      /\ dev \in {"flash", "uic"}
  BY SeqTwo
<1>3. Runs(t, c, Bus!Acquire("flash"), Start, x1)
  BY RunOutside
<1>4. Runs(t, c, Bus!Release("flash"), x1, Start)
  BY RunOutside
<1> HIDE DEF fl, x, bus, b, busy, dev, ph, rd, told, k, due, none
<1>5. Runs(t, c, Bus!SPI_Write(x), y1, y2)
  <2>1. Widened(x) => fl > 0 /\ Agreed = Agreed
    BY <1>2
  <2>2. Runs(t, c, Bus!SPI_Write(x), Place(fl, b, dev, ph, none, k, Agreed, due, busy),
             Place(fl, b, dev, "idle", Append(none, x), k, Agreed, due, busy))
    BY <1>2, <2>1, RunWrite
  <2> QED
    BY <1>2, <2>2
<1>6. Runs(t, c, Bus!SPI_Read, y2, y3)
  <2>1. Runs(t, c, Bus!SPI_Read, Place(fl, b, dev, ph, told, k, Agreed, due, busy),
             Place(fl, b, dev, "read", told, k, Agreed, due, busy))
    BY <1>2, RunRead
  <2> QED
    BY <1>2, <2>1
<1>7. Deselects(y3, <<"deselect", <<>>>>, Quiet(fl, b, k, Agreed, due, busy))
  BY <1>2, MoveDeselect
<1>8. Runs(t, c, body, y1, y3)
  <2> HIDE DEF y1, y2, y3
  <2> QED
    BY <1>5, <1>6, RunsJoin
<1>9. Runs(t, c, body, Place(fl, bus + 1, dev, "idle", <<>>, k, Agreed, due, busy), y3)
  BY <1>2, <1>8 DEF none
<1>10. Deselects(y3, <<"deselect", <<>>>>, Quiet(fl, bus + 1, k, Agreed, due, busy))
  BY <1>2, <1>7
<1> HIDE DEF body, y1, y2, y3
<1>11. Runs(t, c, Bus!Transaction(dev, body), x1, x1)
  BY <1>2, <1>9, <1>10, RunTransaction
<1> HIDE DEF x1
<1> QED
  BY <1>1, <1>3, <1>4, <1>11, RunsThree

(* The call of Flash_Init that takes no mutex but that of the bus.         *)
LEMMA RunID ==
  ASSUME NEW t, NEW c
  PROVE  Runs(t, c, Bus!Flash_ReadID, Start, Start)
<1> DEFINE fl == 0
           x == <<"id">>
           bus == 0
           b == bus + 1
           busy == FALSE
           dev == "flash"
           ph == "idle"
           rd == "read"
           none == <<>>
           told == <<x>>
           k == "any"
           due == NoneDue
           body == Bus!SPI_Write(x) \o Bus!SPI_Read
           y1 == Place(fl, b, dev, ph, none, k, Agreed, due, busy)
           y2 == Place(fl, b, dev, ph, told, k, Agreed, due, busy)
           y3 == Place(fl, b, dev, rd, told, k, Agreed, due, busy)
           x1 == Quiet(fl, bus, k, Agreed, due, busy)
<1>1. Bus!Flash_ReadID = Bus!Transaction(dev, body)
  BY DEF Bus!Flash_ReadID, Bus!Command
<1>2. /\ IsSeq(x) /\ x # <<>> /\ ~Widened(x) /\ told \in {<<<<"status">>>>, <<<<"id">>>>} /\ Append(none, x) = told
      /\ bus \in 0 .. 2 /\ b = bus + 1 /\ ~busy /\ bus = 0 /\ dev = "flash" /\ dev # "none" /\ dev # "uic"
      /\ ph \in {"idle", "read"} /\ ph = "idle" /\ rd \in {"idle", "read"} /\ rd = "read"
      /\ dev \in {"flash", "uic"}
  BY SeqOne DEF Widened
<1>3. x1 = Start
  BY DEF Start, Quiet
<1> HIDE DEF fl, x, bus, b, busy, dev, ph, rd, told, k, due, none
<1>5. Runs(t, c, Bus!SPI_Write(x), y1, y2)
  <2>1. Widened(x) => fl > 0 /\ Agreed = Agreed
    BY <1>2
  <2>2. Runs(t, c, Bus!SPI_Write(x), Place(fl, b, dev, ph, none, k, Agreed, due, busy),
             Place(fl, b, dev, "idle", Append(none, x), k, Agreed, due, busy))
    BY <1>2, <2>1, RunWrite
  <2> QED
    BY <1>2, <2>2
<1>6. Runs(t, c, Bus!SPI_Read, y2, y3)
  <2>1. Runs(t, c, Bus!SPI_Read, Place(fl, b, dev, ph, told, k, Agreed, due, busy),
             Place(fl, b, dev, "read", told, k, Agreed, due, busy))
    BY <1>2, RunRead
  <2> QED
    BY <1>2, <2>1
<1>7. Deselects(y3, <<"deselect", <<>>>>, Quiet(fl, b, k, Agreed, due, busy))
  BY <1>2, MoveDeselect
<1>8. Runs(t, c, body, y1, y3)
  <2> HIDE DEF y1, y2, y3
  <2> QED
    BY <1>5, <1>6, RunsJoin
<1>9. Runs(t, c, body, Place(fl, bus + 1, dev, "idle", <<>>, k, Agreed, due, busy), y3)
  BY <1>2, <1>8 DEF none
<1>10. Deselects(y3, <<"deselect", <<>>>>, Quiet(fl, bus + 1, k, Agreed, due, busy))
  BY <1>2, <1>7
<1> HIDE DEF body, y1, y2, y3
<1>11. Runs(t, c, Bus!Transaction(dev, body), x1, x1)
  BY <1>2, <1>9, <1>10, RunTransaction
<1> QED
  BY <1>1, <1>3, <1>11

(* UIC_SendCommand, inside of a transaction of the caller or not.          *)
LEMMA RunUic ==
  ASSUME NEW t, NEW c, NEW bus \in 0 .. 1, NEW cmd, NEW busy \in BOOLEAN,
         busy = (cmd = "disable"), bus = 0 => ~busy
  PROVE  Runs(t, c, Bus!UIC_SendCommand(cmd), Quiet(0, bus, "any", Agreed, NoneDue, FALSE),
              Quiet(0, bus, "any", Agreed, NoneDue, busy))
<1> DEFINE fl == 0
           x == <<cmd>>
           d == <<"data">>
           b == bus + 1
           off == FALSE
           dev == "uic"
           ph == "idle"
           rd == "read"
           none == <<>>
           told == <<x>>
           both == <<x, d>>
           k == "any"
           due == NoneDue
           body == Bus!SPI_Write(x) \o Bus!SPI_Write(d) \o Bus!SPI_Read
           y1 == Place(fl, b, dev, ph, none, k, Agreed, due, off)
           y2 == Place(fl, b, dev, ph, told, k, Agreed, due, off)
           y3 == Place(fl, b, dev, ph, both, k, Agreed, due, off)
           y4 == Place(fl, b, dev, rd, both, k, Agreed, due, off)
<1>1. Bus!UIC_SendCommand(cmd) = Bus!Transaction(dev, body)
  BY DEF Bus!UIC_SendCommand, Bus!Command
<1>2. /\ IsSeq(x) /\ x # <<>> /\ IsSeq(d) /\ ~Widened(x) /\ d # <<>> /\ ~Widened(d) /\ both # <<>> /\ both[1] = <<cmd>> /\ ~Widened(both[1])
      /\ Append(none, x) = told /\ Append(told, d) = both
      /\ bus \in 0 .. 2 /\ b = bus + 1 /\ ~off /\ dev = "uic" /\ dev # "none"
      /\ ph \in {"idle", "read"} /\ ph = "idle" /\ rd \in {"idle", "read"} /\ rd = "read"
      /\ dev \in {"flash", "uic"} /\ off = FALSE
  <2>1. IsSeq(x) /\ IsSeq(d) /\ x # <<>> /\ d # <<>> /\ both # <<>> /\ both[1] = <<cmd>> /\ both[1] = x
    BY SeqOne
  <2>2. Append(none, x) = told
    OBVIOUS
  <2>3. Append(told, d) = both
    <3> HIDE DEF x, d
    <3> QED
      BY AppendTwo
  <2>4. Len(x) = 1 /\ Len(d) = 1
    OBVIOUS
  <2>5. ~Widened(x) /\ ~Widened(d)
    BY <2>4 DEF Widened
  <2> HIDE DEF x, d, both, told
  <2> QED
    BY <2>1, <2>2, <2>3, <2>5
<1>3. busy = (off \/ both[1] = <<"disable">>)
  <2>1. <<cmd>> = <<"disable">> <=> cmd = "disable"
    OBVIOUS
  <2> HIDE DEF both
  <2> QED
    BY <1>2, <2>1
<1> HIDE DEF fl, x, d, b, off, dev, ph, rd, told, k, due, none, both
<1>4. Runs(t, c, Bus!SPI_Write(x), y1, y2)
  <2>1. Runs(t, c, Bus!SPI_Write(x), Place(fl, b, dev, ph, none, k, Agreed, due, off),
             Place(fl, b, dev, "idle", Append(none, x), k, Agreed, due, off))
    BY <1>2, RunWrite
  <2> QED
    BY <1>2, <2>1
<1>5. Runs(t, c, Bus!SPI_Write(d), y2, y3)
  <2>1. Runs(t, c, Bus!SPI_Write(d), Place(fl, b, dev, ph, told, k, Agreed, due, off),
             Place(fl, b, dev, "idle", Append(told, d), k, Agreed, due, off))
    BY <1>2, RunWrite
  <2> QED
    BY <1>2, <2>1
<1>6. Runs(t, c, Bus!SPI_Read, y3, y4)
  <2>1. Runs(t, c, Bus!SPI_Read, Place(fl, b, dev, ph, both, k, Agreed, due, off),
             Place(fl, b, dev, "read", both, k, Agreed, due, off))
    BY <1>2, RunRead
  <2> QED
    BY <1>2, <2>1
<1>7. Deselects(y4, <<"deselect", <<>>>>, Quiet(fl, b, k, Agreed, due, busy))
  BY <1>2, <1>3, MoveDeselect
<1>8. Runs(t, c, body, y1, y4)
  <2> HIDE DEF y1, y2, y3, y4
  <2> QED
    BY <1>4, <1>5, <1>6, RunsThree
<1>9. Runs(t, c, body, Place(fl, bus + 1, dev, "idle", <<>>, k, Agreed, due, off), y4)
  BY <1>2, <1>8 DEF none
<1>10. Deselects(y4, <<"deselect", <<>>>>, Quiet(fl, bus + 1, k, Agreed, due, busy))
  BY <1>2, <1>7
<1> HIDE DEF body, y1, y2, y3, y4
<1>11. Runs(t, c, Bus!Transaction(dev, body), Quiet(fl, bus, k, Agreed, due, off),
            Quiet(fl, bus, k, Agreed, due, busy))
  BY <1>2, <1>9, <1>10, RunTransaction
<1> QED
  BY <1>1, <1>11 DEF fl, k, due, off

(* UIC_WriteDisable keeps the bus until the EEPROM is done.                *)
LEMMA RunUicEnd ==
  ASSUME NEW t, NEW c
  PROVE  Runs(t, c, Bus!UIC_WriteDisable, Start, Start)
<1> DEFINE q(bus, busy) == Quiet(0, bus, "any", Agreed, NoneDue, busy)
           p1 == Bus!Acquire("bus")
           p2 == p1 \o Bus!UIC_SendCommand("disable")
           p3 == p2 \o <<<<"sleep", <<>>>>>>
           p4 == p3 \o <<<<"release", "bus">>>>
<1>1. Bus!UIC_WriteDisable = p4
  BY DEF Bus!UIC_WriteDisable, Bus!Step, Bus!Release, Bus!Nothing
<1>2. q(0, FALSE) = Start
  BY DEF Quiet, Start
<1>3. Moves(t, c, q(0, FALSE), <<"acquire", "bus">>, q(1, FALSE))
  <2> DEFINE f == 0
             g == 1
  <2>1. f \in 0 .. 2 /\ g = f + 1
    OBVIOUS
  <2> HIDE DEF f, g
  <2>2. Moves(t, c, Quiet(0, f, "any", Agreed, NoneDue, FALSE), <<"acquire", "bus">>,
              Quiet(0, g, "any", Agreed, NoneDue, FALSE))
    BY <2>1, MoveLock
  <2> QED
    BY <2>2 DEF f, g
<1>4. Moves(t, c, q(1, FALSE), <<"release", "bus">>, q(0, FALSE))
  <2> DEFINE f == 1
             g == 0
             off == FALSE
  <2>1. f \in 1 .. 3 /\ g = f - 1 /\ ~off
    OBVIOUS
  <2> HIDE DEF f, g, off
  <2>2. Moves(t, c, Quiet(0, f, "any", Agreed, NoneDue, off), <<"release", "bus">>,
              Quiet(0, g, "any", Agreed, NoneDue, off))
    BY <2>1, MoveLock
  <2> QED
    BY <2>2 DEF f, g, off
<1>5. Runs(t, c, Bus!UIC_SendCommand("disable"), q(1, FALSE), q(1, TRUE))
  <2> DEFINE f == 1
             cmd == "disable"
             on == TRUE
  <2>1. f \in 0 .. 1 /\ on \in BOOLEAN /\ on = (cmd = "disable") /\ (f = 0 => ~on)
    OBVIOUS
  <2> HIDE DEF f, cmd, on
  <2>2. Runs(t, c, Bus!UIC_SendCommand(cmd), Quiet(0, f, "any", Agreed, NoneDue, FALSE),
             Quiet(0, f, "any", Agreed, NoneDue, on))
    BY <2>1, RunUic
  <2> QED
    BY <2>2 DEF f, cmd, on
<1>6. Moves(t, c, q(1, TRUE), <<"sleep", <<>>>>, q(1, FALSE))
  <2> DEFINE s == q(1, TRUE)
             u == q(1, FALSE)
             p == <<"sleep", <<>>>>
  <2>1. s = Place(0, 1, "none", "idle", <<>>, "any", Agreed, NoneDue, TRUE)
        /\ u = Place(0, 1, "none", "idle", <<>>, "any", Agreed, NoneDue, FALSE)
    BY DEF Quiet
  <2>2. p[1] = "sleep"
    OBVIOUS
  <2> HIDE DEF s, u, p
  <2>3. /\ s.fl = 0 /\ s.bus = 1 /\ s.dev = "none" /\ s.ph = "idle" /\ s.told = <<>>
        /\ s.knows = "any" /\ s.mode = Agreed /\ s.due = NoneDue
    BY <2>1 DEF Place
  <2>4. u = Writing(s, FALSE)
    BY <2>1, <2>3 DEF Writing
  <2>5. Others(s, p, u)
    BY <2>2, <2>3, <2>4 DEF Others
  <2> QED
    BY <2>5 DEF Moves, s, u, p
<1> HIDE DEF q
<1>7. Runs(t, c, p1, q(0, FALSE), q(1, FALSE))
  BY <1>3, RunsOne DEF Bus!Acquire
<1> HIDE DEF p1
<1>8. Runs(t, c, p2, q(0, FALSE), q(1, TRUE))
  BY <1>5, <1>7, RunsJoin
<1> HIDE DEF p2
<1>9. Runs(t, c, p3, q(0, FALSE), q(1, FALSE))
  BY <1>6, <1>8, RunsThen
<1> HIDE DEF p3
<1>10. Runs(t, c, p4, q(0, FALSE), q(0, FALSE))
  BY <1>4, <1>9, RunsThen
<1> QED
  BY <1>1, <1>2, <1>10

(* Flash_PageProgram takes what is due in the page out of it.              *)
LEMMA RunProgram ==
  ASSUME NEW t, NEW c, NEW a \in Nat, NEW n \in Nat \ {0}, NEW knows, NEW due, NEW data, NEW due2,
         due2 = [y \in DOMAIN due \ (a .. a + n - 1) |-> due[y]],
         (a % Page) + n <= Page, a .. a + n - 1 \subseteq DOMAIN due,
         data = [k \in 1 .. n |-> due[a + k - 1]]
  PROVE  Runs(t, c, Bus!Flash_PageProgram(a, data), Quiet(1, 0, knows, Agreed, due, FALSE),
              Quiet(1, 0, "any", Agreed, due2, FALSE))
<1> DEFINE one == 1
           fl == one + 1
           x == <<"program", a>>
           d == <<"data">> \o data
           bus == 0
           b == bus + 1
           off == FALSE
           dev == "flash"
           ph == "idle"
           none == <<>>
           told == <<x>>
           both == <<x, d>>
           k == "ready"
           k2 == "any"
           body == Bus!SPI_Write(x) \o Bus!SPI_Write(d)
           y1 == Place(fl, b, dev, ph, none, k, Agreed, due, off)
           y2 == Place(fl, b, dev, ph, told, k, Agreed, due, off)
           y3 == Place(fl, b, dev, ph, both, k, Agreed, due, off)
           p1 == Bus!Acquire("flash")
           p2 == p1 \o Bus!Flash_WaitForStatus(FALSE, FALSE) \o Bus!Flash_WriteEnable
           p3 == p2 \o Bus!Transaction(dev, body)
           p4 == p3 \o Bus!Release("flash")
<1>1. Bus!Flash_PageProgram(a, data) = p4
  BY DEF Bus!Flash_PageProgram, Bus!Addressed
<1>2. /\ one \in 1 .. 2 /\ fl \in 1 .. 2 /\ fl = one + 1 /\ fl > 0
      /\ bus \in 0 .. 2 /\ b = bus + 1 /\ ~off /\ dev = "flash" /\ dev # "none" /\ dev # "uic"
      /\ ph \in {"idle", "read"} /\ ph = "idle" /\ dev \in {"flash", "uic"} /\ off = FALSE
      /\ k = "ready" /\ k2 = "any"
  OBVIOUS
<1>3. IsSeq(x) /\ x # <<>> /\ Append(none, x) = told
  BY SeqTwo
<1>4. IsSeq(d) /\ d # <<>> /\ ~Widened(d)
  <2> DEFINE e == <<"data">>
  <2>1. IsSeq(data)
    <3> DEFINE S == {data[j] : j \in 1 .. n}
    <3>1. data \in [1 .. n -> S]
      OBVIOUS
    <3> HIDE DEF S
    <3>2. data \in Seq(S)
      BY <3>1, SeqDef
    <3> QED
      BY <3>2 DEF IsSeq
  <2>2. IsSeq(e) /\ Len(e) = 1 /\ e[1] = "data"
    BY SeqOne
  <2> HIDE DEF e
  <2>3. IsSeq(e \o data) /\ Len(data) \in Nat /\ Len(e \o data) = 1 + Len(data) /\ (e \o data)[1] = "data"
    <3>1. /\ IsSeq(e \o data) /\ Len(e) \in Nat /\ Len(e \o data) = Len(e) + Len(data)
          /\ \A i \in 1 .. Len(e) : (e \o data)[i] = e[i]
      BY <2>1, <2>2, SeqFacts
    <3>2. Len(data) \in Nat
      BY <2>1, SeqFacts
    <3> QED
      <4>1. 1 \in 1 .. Len(e)
        BY <2>2
      <4>2. (e \o data)[1] = "data"
        BY <2>2, <3>1, <4>1
      <4> QED
        BY <2>2, <3>1, <3>2, <4>2
  <2>4. e \o data # <<>>
    BY <2>3
  <2> QED
    BY <2>3, <2>4 DEF e, Widened
<1>5. both = <<<<"program", a>>, <<"data">> \o [j \in 1 .. n |-> due[a + j - 1]]>>
  OBVIOUS
<1>6. Append(told, d) = both
  <2> HIDE DEF x, d
  <2> QED
    BY AppendTwo
<1>7. Runs(t, c, p1, Quiet(one, 0, knows, Agreed, due, FALSE), Quiet(fl, 0, knows, Agreed, due, FALSE))
  <2> HIDE DEF one
  <2> QED
    BY <1>2, RunInside
<1>8. Runs(t, c, Bus!Release("flash"), Quiet(fl, 0, k2, Agreed, due2, FALSE),
           Quiet(one, 0, k2, Agreed, due2, FALSE))
  <2> HIDE DEF one
  <2> QED
    BY <1>2, RunInside
<1> HIDE DEF one, fl, x, d, bus, b, off, dev, ph, none, told, both, k, k2, p1
<1>9. Runs(t, c, p2, Quiet(one, 0, knows, Agreed, due, FALSE), Quiet(fl, 0, k, Agreed, due, FALSE))
  BY <1>2, <1>7, RunPrepare
<1> HIDE DEF p2
<1>10. Runs(t, c, Bus!SPI_Write(x), y1, y2)
  <2>1. Widened(x) => fl > 0 /\ Agreed = Agreed
    BY <1>2
  <2>2. Runs(t, c, Bus!SPI_Write(x), Place(fl, b, dev, ph, none, k, Agreed, due, off),
             Place(fl, b, dev, "idle", Append(none, x), k, Agreed, due, off))
    BY <1>2, <1>3, <2>1, RunWrite
  <2> QED
    BY <1>2, <1>3, <2>2
<1>11. Runs(t, c, Bus!SPI_Write(d), y2, y3)
  <2>1. Runs(t, c, Bus!SPI_Write(d), Place(fl, b, dev, ph, told, k, Agreed, due, off),
             Place(fl, b, dev, "idle", Append(told, d), k, Agreed, due, off))
    BY <1>2, <1>4, RunWrite
  <2> QED
    BY <1>2, <1>6, <2>1
<1>12. Deselects(y3, <<"deselect", <<>>>>, Quiet(fl, b, k2, Agreed, due2, off))
  BY <1>2, <1>5, MoveDeselect
<1>13. Runs(t, c, body, y1, y3)
  <2> HIDE DEF y1, y2, y3
  <2> QED
    BY <1>10, <1>11, RunsJoin
<1>14. Runs(t, c, body, Place(fl, bus + 1, dev, "idle", <<>>, k, Agreed, due, off), y3)
  BY <1>2, <1>13 DEF none
<1>15. Deselects(y3, <<"deselect", <<>>>>, Quiet(fl, bus + 1, k2, Agreed, due2, off))
  BY <1>2, <1>12
<1> HIDE DEF body, y1, y2, y3
<1>16. Runs(t, c, Bus!Transaction(dev, body), Quiet(fl, bus, k, Agreed, due, off),
            Quiet(fl, bus, k2, Agreed, due2, off))
  BY <1>2, <1>14, <1>15, RunTransaction
<1>17. Runs(t, c, p3, Quiet(one, 0, knows, Agreed, due, FALSE), Quiet(fl, 0, k2, Agreed, due2, FALSE))
  BY <1>9, <1>16, RunsJoin DEF bus, off
<1> HIDE DEF p3
<1>18. Runs(t, c, p4, Quiet(one, 0, knows, Agreed, due, FALSE), Quiet(one, 0, k2, Agreed, due2, FALSE))
  BY <1>8, <1>17, RunsJoin
<1> QED
  BY <1>1, <1>18 DEF one, k2

(* The library's induction, for a set of numbers.                          *)
LEMMA AllNumbers ==
  ASSUME NEW S, 0 \in S, \A k \in Nat : k \in S => k + 1 \in S
  PROVE  Nat \subseteq S
<1> DEFINE T == Nat \ S
<1>1. CASE T = {}
  BY <1>1
<1>2. CASE T # {}
  <2>1. PICK m \in T : \A k \in T : ~(<<k, m>> \in OpToRel(<, Nat))
    BY <1>2, NatLessThanWellFounded, WFMin
  <2>2. \A k \in T : ~(k < m)
    BY <2>1 DEF OpToRel
  <2>3. m # 0 /\ m \in Nat
    BY <2>1
  <2>4. m - 1 \in Nat /\ m - 1 < m /\ (m - 1) + 1 = m
    BY <2>3
  <2>5. m - 1 \in S
    BY <2>2, <2>4
  <2> QED
    BY <2>1, <2>4, <2>5
<1> QED
  BY <1>1, <1>2

(* The chunks of a write: there are such sequences of steps.               *)
Chunks(f, len, N, P) ==
  /\ f = [pos \in 0 .. len |-> f[pos]]
  /\ f[len] = <<>>
  /\ \A pos \in 0 .. len - 1 : f[pos] = P[pos] \o f[pos + N[pos]]

(* A write is cut into chunks, from its end to its beginning.              *)
LEMMA ChunksExist ==
  ASSUME NEW len \in Nat, NEW N, NEW P,
         \A pos \in 0 .. len - 1 : N[pos] \in Nat \ {0} /\ pos + N[pos] <= len
  PROVE  \E f : Chunks(f, len, N, P)
<1> DEFINE E(f, pos) == IF pos = len THEN <<>> ELSE P[pos] \o f[pos + N[pos]]
           Upto(f, j) == /\ f = [pos \in 0 .. len |-> f[pos]]
                         /\ \A pos \in 0 .. len : len - j <= pos => f[pos] = E(f, pos)
           S == {j \in Nat : j <= len => \E f : Upto(f, j)}
<1>1. 0 \in S
  <2> DEFINE f == [pos \in 0 .. len |-> <<>>]
  <2>1. Upto(f, 0)
    <3>1. f = [pos \in 0 .. len |-> f[pos]]
      OBVIOUS
    <3>2. ASSUME NEW pos \in 0 .. len, len - 0 <= pos PROVE f[pos] = E(f, pos)
      <4>1. pos = len /\ f[len] = <<>>
        BY <3>2
      <4> QED
        BY <4>1
    <3> HIDE DEF f, E
    <3> QED
      BY <3>1, <3>2
  <2> QED
    BY <2>1
<1>2. ASSUME NEW j \in Nat, j \in S PROVE j + 1 \in S
  <2> SUFFICES ASSUME j + 1 <= len PROVE \E g : Upto(g, j + 1)
    OBVIOUS
  <2>1. PICK f : Upto(f, j)
    BY <1>2
  <2> DEFINE m == len - (j + 1)
             g == [pos \in 0 .. len |-> IF pos = m THEN E(f, m) ELSE f[pos]]
  <2>2. m \in 0 .. len - 1 /\ m \in 0 .. len
    OBVIOUS
  <2> HIDE DEF E
  <2>3. g = [pos \in 0 .. len |-> g[pos]]
    OBVIOUS
  <2>4. ASSUME NEW pos \in 0 .. len, m <= pos PROVE E(g, pos) = E(f, pos)
    <3>1. CASE pos = len
      BY <3>1 DEF E
    <3>2. CASE pos # len
      <4>1. pos \in 0 .. len - 1
        BY <3>2
      <4> DEFINE q == pos + N[pos]
      <4>2. q \in 0 .. len /\ q # m
        BY <2>2, <2>4, <4>1
      <4>3. g[q] = f[q]
        BY <4>2
      <4> HIDE DEF g
      <4> QED
        BY <3>2, <4>3 DEF E
    <3> QED
      BY <3>1, <3>2
  <2>5. ASSUME NEW pos \in 0 .. len, m <= pos PROVE g[pos] = E(g, pos)
    <3>1. CASE pos = m
      <4>1. g[m] = E(f, m)
        BY <2>2
      <4> HIDE DEF g, m
      <4> QED
        BY <2>4, <2>5, <3>1, <4>1
    <3>2. CASE pos # m
      <4>1. g[pos] = f[pos] /\ len - j <= pos
        BY <2>5, <3>2
      <4>2. f[pos] = E(f, pos)
        BY <2>1, <4>1
      <4> HIDE DEF g, m
      <4> QED
        BY <2>4, <2>5, <4>1, <4>2
    <3> QED
      BY <3>1, <3>2
  <2> HIDE DEF g
  <2> QED
    BY <2>3, <2>5
<1>3. len \in S
  <2> HIDE DEF S
  <2> QED
    BY <1>1, <1>2, AllNumbers
<1>4. PICK f : Upto(f, len)
  BY <1>3
<1>5. f[len] = <<>>
  <2>1. len \in 0 .. len /\ len - len <= len
    OBVIOUS
  <2> QED
    BY <1>4, <2>1
<1>6. ASSUME NEW pos \in 0 .. len - 1 PROVE f[pos] = P[pos] \o f[pos + N[pos]]
  <2>1. pos \in 0 .. len /\ len - len <= pos /\ pos # len
    OBVIOUS
  <2> QED
    BY <1>4, <2>1
<1> HIDE DEF E
<1> QED
  BY <1>4, <1>5, <1>6 DEF Chunks

(* Each chunk is of the page it begins in, and of what is left.            *)
LEMMA ChunkRight ==
  ASSUME NEW a \in Nat, NEW left \in Nat \ {0}
  PROVE  /\ Bus!Chunk(a, left) \in Nat \ {0} /\ Bus!Chunk(a, left) <= left
         /\ (a % Page) + Bus!Chunk(a, left) <= Page
<1>1. Page \in Nat \ {0} /\ a % Page \in Nat /\ a % Page < Page
  BY BoardAssumption
<1> DEFINE r == a % Page
<1> HIDE DEF r
<1>2. r \in Nat /\ r < Page
  BY <1>1 DEF r
<1>3. Bus!Chunk(a, left) = IF Page - r > left THEN left ELSE Page - r
  BY DEF Bus!Chunk, r
<1> QED
  BY <1>1, <1>2, <1>3 DEF r

(* Flash_Write puts every byte that is due, page by page.                  *)
LEMMA RunFlashWrite ==
  ASSUME NEW t, NEW c, NEW a \in Nat, NEW len \in Nat,
         DueOf(t, c) = [x \in a .. a + len - 1 |-> <<t, x - a + 1>>]
  PROVE  Runs(t, c, Bus!Flash_Write(t, a, len), Start, Start)
<1> DEFINE Right(f) == f = [pos \in 0 .. len |->
             IF pos = len THEN <<>>
             ELSE LET n == Bus!Chunk(a + pos, len - pos)
                  IN Bus!Flash_PageProgram(a + pos, [k \in 1 .. n |-> <<t, pos + k>>])
                       \o f[pos + n]]
           from == CHOOSE f : Right(f)
           N == [pos \in 0 .. len - 1 |-> Bus!Chunk(a + pos, len - pos)]
           P == [pos \in 0 .. len - 1 |->
                   Bus!Flash_PageProgram(a + pos, [k \in 1 .. N[pos] |-> <<t, pos + k>>])]
           due(pos) == [x \in a + pos .. a + len - 1 |-> <<t, x - a + 1>>]
           W(pos) == Quiet(1, 0, "any", Agreed, due(pos), FALSE)
<1>1. Bus!Flash_Write(t, a, len) = Bus!Acquire("flash") \o from[0] \o Bus!Release("flash")
  BY DEF Bus!Flash_Write
<1>2. ASSUME NEW pos \in 0 .. len - 1
      PROVE  /\ N[pos] \in Nat \ {0} /\ pos + N[pos] <= len
             /\ ((a + pos) % Page) + N[pos] <= Page
  <2> DEFINE b == a + pos
             left == len - pos
  <2>1. b \in Nat /\ left \in Nat \ {0} /\ N[pos] = Bus!Chunk(b, left)
    OBVIOUS
  <2> HIDE DEF N, b, left
  <2>2. N[pos] \in Nat \ {0} /\ N[pos] <= left /\ (b % Page) + N[pos] <= Page
    BY <2>1, ChunkRight
  <2> QED
    BY <2>2 DEF b, left
<1>3. \E f : Right(f)
  <2> DEFINE E(f, pos) ==
               IF pos = len THEN <<>>
               ELSE LET n == Bus!Chunk(a + pos, len - pos)
                    IN Bus!Flash_PageProgram(a + pos, [k \in 1 .. n |-> <<t, pos + k>>])
                         \o f[pos + n]
  <2>9. PICK f : Chunks(f, len, N, P)
    <3>1. \A pos \in 0 .. len - 1 : N[pos] \in Nat \ {0} /\ pos + N[pos] <= len
      BY <1>2
    <3> HIDE DEF N, P
    <3> QED
      BY <3>1, ChunksExist
  <2>1. /\ f = [pos \in 0 .. len |-> f[pos]]
        /\ f[len] = <<>>
        /\ \A pos \in 0 .. len - 1 : f[pos] = P[pos] \o f[pos + N[pos]]
    <3> HIDE DEF N, P
    <3> QED
      BY <2>9 DEF Chunks
  <2>2. ASSUME NEW pos \in 0 .. len PROVE f[pos] = E(f, pos)
    <3>1. CASE pos = len
      <4> HIDE DEF N, P
      <4> QED
        BY <2>1, <3>1
    <3>2. CASE pos # len
      <4>1. pos \in 0 .. len - 1
        BY <3>2
      <4> DEFINE n == Bus!Chunk(a + pos, len - pos)
      <4>2. N[pos] = n
        BY <4>1
      <4>3. P[pos] = Bus!Flash_PageProgram(a + pos, [k \in 1 .. N[pos] |-> <<t, pos + k>>])
        BY <4>1
      <4>4. f[pos] = P[pos] \o f[pos + N[pos]]
        <5> HIDE DEF N, P
        <5> QED
          BY <2>1, <4>1
      <4>5. E(f, pos) = Bus!Flash_PageProgram(a + pos, [k \in 1 .. n |-> <<t, pos + k>>]) \o f[pos + n]
        <5> HIDE DEF N, P
        <5> QED
          BY <3>2
      <4> HIDE DEF N, P, n, E
      <4> QED
        BY <4>2, <4>3, <4>4, <4>5
    <3> QED
      BY <3>1, <3>2
  <2>3. Right(f)
    <3> HIDE DEF N, P, E
    <3>1. [pos \in 0 .. len |-> f[pos]] = [pos \in 0 .. len |-> E(f, pos)]
      BY <2>2
    <3>2. f = [pos \in 0 .. len |-> E(f, pos)]
      BY <2>1, <3>1
    <3> QED
      BY <3>2 DEF E
  <2> QED
    BY <2>3
<1>4. Right(from)
  <2> HIDE DEF Right
  <2> QED
    BY <1>3
<1>5. /\ from[len] = <<>>
      /\ \A pos \in 0 .. len - 1 : from[pos] = P[pos] \o from[pos + N[pos]]
  <2> HIDE DEF from
  <2>1. from[len] = <<>>
    BY <1>4
  <2>2. ASSUME NEW pos \in 0 .. len - 1 PROVE from[pos] = P[pos] \o from[pos + N[pos]]
    <3> DEFINE n == Bus!Chunk(a + pos, len - pos)
    <3>1. pos # len /\ pos \in 0 .. len
      OBVIOUS
    <3>2. N[pos] = n
      OBVIOUS
    <3>3. P[pos] = Bus!Flash_PageProgram(a + pos, [k \in 1 .. N[pos] |-> <<t, pos + k>>])
      OBVIOUS
    <3>4. from[pos] = Bus!Flash_PageProgram(a + pos, [k \in 1 .. n |-> <<t, pos + k>>]) \o from[pos + n]
      <4> HIDE DEF N, P
      <4> QED
        BY <1>4, <3>1
    <3> HIDE DEF N, P, n
    <3> QED
      BY <3>2, <3>3, <3>4
  <2> HIDE DEF N, P
  <2> QED
    BY <2>1, <2>2
<1> HIDE DEF Right, from
<1>6. ASSUME NEW pos \in 0 .. len - 1 PROVE Runs(t, c, P[pos], W(pos), W(pos + N[pos]))
  <2> DEFINE n == N[pos]
             b == a + pos
             d == due(pos)
             data == [k \in 1 .. n |-> <<t, pos + k>>]
             k0 == "any"
  <2>1. n \in Nat \ {0} /\ pos + n <= len /\ (b % Page) + n <= Page /\ b \in Nat
    <3>1. b \in Nat
      OBVIOUS
    <3> HIDE DEF N
    <3> QED
      BY <1>2, <3>1
  <2>2. P[pos] = Bus!Flash_PageProgram(b, data)
    OBVIOUS
  <2> HIDE DEF N, P, n
  <2>3. b .. b + n - 1 \subseteq DOMAIN d
    BY <2>1
  <2>4. data = [k \in 1 .. n |-> d[b + k - 1]]
    <3>1. \A k \in 1 .. n : d[b + k - 1] = <<t, pos + k>>
      <4> TAKE k \in 1 .. n
      <4> DEFINE x == b + k - 1
      <4>1. x \in a + pos .. a + len - 1 /\ x - a + 1 = pos + k
        BY <2>1
      <4> HIDE DEF x
      <4> QED
        BY <4>1 DEF x
    <3> HIDE DEF d, b
    <3> QED
      BY <3>1
  <2>5. [y \in DOMAIN d \ (b .. b + n - 1) |-> d[y]] = due(pos + n)
    <3>1. DOMAIN d \ (b .. b + n - 1) = a + (pos + n) .. a + len - 1
      BY <2>1
    <3>2. \A y \in a + (pos + n) .. a + len - 1 : d[y] = <<t, y - a + 1>>
      BY <2>1
    <3> HIDE DEF d
    <3> QED
      BY <3>1, <3>2
  <2> DEFINE e == due(pos + n)
  <2> HIDE DEF d, data, b, e, k0
  <2>6. e = [y \in DOMAIN d \ (b .. b + n - 1) |-> d[y]]
    BY <2>5 DEF e
  <2>7. Runs(t, c, Bus!Flash_PageProgram(b, data), Quiet(1, 0, k0, Agreed, d, FALSE),
             Quiet(1, 0, "any", Agreed, e, FALSE))
    BY <2>1, <2>3, <2>4, <2>6, RunProgram
  <2> QED
    BY <2>2, <2>7 DEF d, n, e, k0
<1> HIDE DEF P
<1>7. W(len) = Quiet(1, 0, "any", Agreed, NoneDue, FALSE)
  <2>1. due(len) = NoneDue
    <3>1. a + len .. a + len - 1 = {}
      OBVIOUS
    <3> QED
      BY <3>1 DEF NoneDue
  <2> HIDE DEF due
  <2> QED
    BY <2>1
<1>8. W(0) = Quiet(1, 0, "any", Agreed, DueOf(t, c), FALSE)
  <2>1. a + 0 = a
    OBVIOUS
  <2> QED
    BY <2>1
<1> HIDE DEF W
<1> DEFINE S == {j \in Nat : \A pos \in 0 .. len : len - j <= pos => Runs(t, c, from[pos], W(pos), W(len))}
<1>9. 0 \in S
  <2>1. ASSUME NEW pos \in 0 .. len, len - 0 <= pos PROVE Runs(t, c, from[pos], W(pos), W(len))
    <3>1. pos = len
      BY <2>1
    <3> QED
      BY <1>5, <3>1, RunsNone
  <2> QED
    BY <2>1
<1>10. ASSUME NEW j \in Nat, j \in S PROVE j + 1 \in S
  <2>1. ASSUME NEW pos \in 0 .. len, len - (j + 1) <= pos PROVE Runs(t, c, from[pos], W(pos), W(len))
    <3>1. CASE len - j <= pos
      BY <1>10, <3>1
    <3>2. CASE pos < len - j
      <4> DEFINE q == pos + N[pos]
      <4>1. pos \in 0 .. len - 1 /\ N[pos] \in Nat \ {0} /\ pos + N[pos] <= len
        <5>1. pos \in 0 .. len - 1
          BY <3>2
        <5> HIDE DEF N
        <5> QED
          BY <1>2, <5>1
      <4> HIDE DEF N
      <4>2. q \in 0 .. len /\ len - j <= q
        BY <2>1, <4>1
      <4> HIDE DEF q
      <4>3. Runs(t, c, from[q], W(q), W(len))
        BY <1>10, <4>2
      <4>4. Runs(t, c, P[pos], W(pos), W(q)) /\ from[pos] = P[pos] \o from[q]
        BY <1>5, <1>6, <4>1 DEF q
      <4> QED
        BY <4>3, <4>4, RunsJoin
    <3> QED
      BY <3>1, <3>2
  <2> QED
    BY <2>1
<1>11. Runs(t, c, from[0], W(0), W(len))
  <2>1. len \in S
    <3> HIDE DEF S
    <3> QED
      BY <1>9, <1>10, AllNumbers
  <2>2. 0 \in 0 .. len /\ len - len <= 0
    OBVIOUS
  <2> QED
    BY <2>1, <2>2
<1>12. Runs(t, c, Bus!Acquire("flash"), Start, W(0))
  BY <1>8, RunOutside
<1>13. Runs(t, c, Bus!Release("flash"), W(len), Start)
  BY <1>7, RunOutside
<1> QED
  BY <1>1, <1>11, <1>12, <1>13, RunsThree

(* Every call begins and ends with nothing held and nothing owed.          *)
LEMMA StepsRun ==
  ASSUME NEW t, NEW c \in Calls
  PROVE  Runs(t, c, Bus!Steps(t, c), Start, Start)
<1>1. /\ c[1] \in {"write", "erase", "read", "id", "mode", "uic", "uicEnd"}
      /\ c[2] \in Nat /\ c[3] \in Nat /\ (c[1] = "mode" => c[2] \in 0 .. 1)
  <2>1. Size \in Nat
    BY BoardAssumption
  <2> QED
    BY <2>1, CallsAssumption
<1>2. CASE c[1] = "write"
  <2>1. DueOf(t, c) = [x \in c[2] .. c[2] + c[3] - 1 |-> <<t, x - c[2] + 1>>]
    BY <1>2 DEF DueOf
  <2>2. Bus!Steps(t, c) = Bus!Flash_Write(t, c[2], c[3])
    BY <1>2 DEF Bus!Steps
  <2> QED
    BY <1>1, <2>1, <2>2, RunFlashWrite
<1>3. CASE c[1] = "erase"
  <2>1. DueOf(t, c) = [y \in Bus!Addresses |-> Nothing]
    BY <1>3 DEF DueOf
  <2>2. Bus!Steps(t, c) = Bus!Flash_Erase(c[2])
    BY <1>3 DEF Bus!Steps
  <2> QED
    BY <1>1, <2>1, <2>2, RunErase
<1>4. CASE c[1] = "read"
  <2>1. DueOf(t, c) = NoneDue
    BY <1>4 DEF DueOf
  <2>2. Bus!Steps(t, c) = Bus!Flash_Read(c[2])
    BY <1>4 DEF Bus!Steps
  <2> QED
    BY <1>1, <2>1, <2>2, RunFlashRead
<1>5. CASE c[1] = "id"
  <2>2. Bus!Steps(t, c) = Bus!Flash_ReadID
    BY <1>5 DEF Bus!Steps
  <2> QED
    BY <2>2, RunID
<1>6. CASE c[1] = "mode"
  <2>1. DueOf(t, c) = NoneDue
    BY <1>6 DEF DueOf
  <2>2. Bus!Steps(t, c) = Bus!Flash_Set4ByteAddr(c[2])
    BY <1>6 DEF Bus!Steps
  <2> QED
    BY <1>1, <1>6, <2>1, <2>2, RunMode
<1>7. CASE c[1] = "uic"
  <2>2. Bus!Steps(t, c) = Bus!UIC_SendCommand("state")
    BY <1>7 DEF Bus!Steps
  <2>3. Start = Quiet(0, 0, "any", Agreed, NoneDue, FALSE)
    BY DEF Start, Quiet
  <2> DEFINE z == 0
             cmd == "state"
             off == FALSE
  <2>4. z \in 0 .. 1 /\ off \in BOOLEAN /\ off = (cmd = "disable") /\ (z = 0 => ~off)
    OBVIOUS
  <2> HIDE DEF z, cmd, off
  <2>5. Runs(t, c, Bus!UIC_SendCommand(cmd), Quiet(0, z, "any", Agreed, NoneDue, FALSE),
             Quiet(0, z, "any", Agreed, NoneDue, off))
    BY <2>4, RunUic
  <2> QED
    BY <2>2, <2>3, <2>5 DEF z, cmd, off
<1>8. CASE c[1] = "uicEnd"
  <2>2. Bus!Steps(t, c) = Bus!UIC_WriteDisable
    BY <1>8 DEF Bus!Steps
  <2> QED
    BY <2>2, RunUicEnd
<1> QED
  BY <1>1, <1>2, <1>3, <1>4, <1>5, <1>6, <1>7, <1>8

(* The fields of a place that a step leads to.                             *)
LEMMA FieldsOf ==
  ASSUME NEW s
  PROVE  /\ \A f, b : LET u == Holding(s, f, b) IN
              /\ u = Place(f, b, s.dev, s.ph, s.told, s.knows, s.mode, s.due, s.busy)
              /\ u.fl = f /\ u.bus = b /\ u.dev = s.dev /\ u.ph = s.ph /\ u.told = s.told
              /\ u.knows = s.knows /\ u.mode = s.mode /\ u.due = s.due /\ u.busy = s.busy
         /\ \A d, h, w : LET u == Talking(s, d, h, w) IN
              /\ u = Place(s.fl, s.bus, d, h, w, s.knows, s.mode, s.due, s.busy)
              /\ u.fl = s.fl /\ u.bus = s.bus /\ u.dev = d /\ u.ph = h /\ u.told = w
              /\ u.knows = s.knows /\ u.mode = s.mode /\ u.due = s.due /\ u.busy = s.busy
         /\ \A k, m, d : LET u == Knowing(s, k, m, d) IN
              /\ u = Place(s.fl, s.bus, s.dev, s.ph, s.told, k, m, d, s.busy)
              /\ u.fl = s.fl /\ u.bus = s.bus /\ u.dev = s.dev /\ u.ph = s.ph /\ u.told = s.told
              /\ u.knows = k /\ u.mode = m /\ u.due = d /\ u.busy = s.busy
         /\ \A b : LET u == Writing(s, b) IN
              /\ u = Place(s.fl, s.bus, s.dev, s.ph, s.told, s.knows, s.mode, s.due, b)
              /\ u.fl = s.fl /\ u.bus = s.bus /\ u.dev = s.dev /\ u.ph = s.ph /\ u.told = s.told
              /\ u.knows = s.knows /\ u.mode = s.mode /\ u.due = s.due /\ u.busy = b
<1>1. ASSUME NEW f, NEW b
      PROVE  LET u == Holding(s, f, b) IN
              /\ u = Place(f, b, s.dev, s.ph, s.told, s.knows, s.mode, s.due, s.busy)
              /\ u.fl = f /\ u.bus = b /\ u.dev = s.dev /\ u.ph = s.ph /\ u.told = s.told
              /\ u.knows = s.knows /\ u.mode = s.mode /\ u.due = s.due /\ u.busy = s.busy
  BY DEF Holding, Place
<1>2. ASSUME NEW d, NEW h, NEW w
      PROVE  LET u == Talking(s, d, h, w) IN
              /\ u = Place(s.fl, s.bus, d, h, w, s.knows, s.mode, s.due, s.busy)
              /\ u.fl = s.fl /\ u.bus = s.bus /\ u.dev = d /\ u.ph = h /\ u.told = w
              /\ u.knows = s.knows /\ u.mode = s.mode /\ u.due = s.due /\ u.busy = s.busy
  BY DEF Talking, Place
<1>3. ASSUME NEW k, NEW m, NEW d
      PROVE  LET u == Knowing(s, k, m, d) IN
              /\ u = Place(s.fl, s.bus, s.dev, s.ph, s.told, k, m, d, s.busy)
              /\ u.fl = s.fl /\ u.bus = s.bus /\ u.dev = s.dev /\ u.ph = s.ph /\ u.told = s.told
              /\ u.knows = k /\ u.mode = m /\ u.due = d /\ u.busy = s.busy
  BY DEF Knowing, Place
<1>4. ASSUME NEW b
      PROVE  LET u == Writing(s, b) IN
              /\ u = Place(s.fl, s.bus, s.dev, s.ph, s.told, s.knows, s.mode, s.due, b)
              /\ u.fl = s.fl /\ u.bus = s.bus /\ u.dev = s.dev /\ u.ph = s.ph /\ u.told = s.told
              /\ u.knows = s.knows /\ u.mode = s.mode /\ u.due = s.due /\ u.busy = b
  BY DEF Writing, Place
<1> QED
  BY <1>1, <1>2, <1>3, <1>4

(* What a call writes lies inside the flash.                               *)
LEMMA DueInside ==
  ASSUME NEW t, NEW c \in Calls
  PROVE  DOMAIN DueOf(t, c) \subseteq Bus!Addresses
<1>1. /\ Size \in Nat /\ c[2] \in Nat /\ c[3] \in Nat
      /\ (c[1] = "write" => c[2] + c[3] <= Size)
  BY BoardAssumption, CallsAssumption
<1>2. CASE c[1] = "write"
  <2>1. DOMAIN DueOf(t, c) = c[2] .. c[2] + c[3] - 1
    BY <1>2 DEF DueOf
  <2> QED
    BY <1>1, <1>2, <2>1 DEF Bus!Addresses
<1>3. CASE c[1] = "erase"
  BY <1>3 DEF DueOf
<1>4. CASE c[1] # "write" /\ c[1] # "erase"
  BY <1>4 DEF DueOf, NoneDue
<1> QED
  BY <1>2, <1>3, <1>4

(* A step leads to a place.                                                *)
LEMMA MovesPlace ==
  ASSUME NEW t, NEW c \in Calls, NEW s, NEW p, NEW u, PlaceOK(s), Moves(t, c, s, p, u)
  PROVE  PlaceOK(u)
<1>1. /\ s.fl \in 0 .. 3 /\ s.bus \in 0 .. 3 /\ s.dev \in {"none", "flash", "uic"}
      /\ s.ph \in {"idle", "cleared", "armed", "sent", "handed", "landed", "receiving", "read"}
      /\ s.knows \in {"any", "idle", "ready"} /\ s.mode \in {0, 1, Agreed}
      /\ s.busy \in BOOLEAN /\ IsSeq(s.told)
      /\ s.dev # "none" => s.bus > 0
      /\ s.ph # "idle" => s.dev # "none"
      /\ s.ph \in {"sent", "handed"} => Len(s.told) > 0
      /\ s.fl > 0 => DOMAIN s.due \subseteq Bus!Addresses
  BY DEF PlaceOK
<1>2. s.dev # "none" => \A k \in 1 .. Len(s.told) : Widened(s.told[k]) => s.fl > 0 /\ s.mode = Agreed
  BY DEF PlaceOK
<1>3. IsSeq(<<>>) /\ Len(<<>>) = 0 /\ \A k \in 1 .. 0 : FALSE
  BY SeqNone
<1>4. DOMAIN DueOf(t, c) \subseteq Bus!Addresses /\ DOMAIN NoneDue \subseteq Bus!Addresses
  BY DueInside DEF NoneDue
<1> DEFINE Tells(w) == \A k \in 1 .. Len(w.told) : Widened(w.told[k]) => w.fl > 0 /\ w.mode = Agreed
<1>5. CASE Locks(t, c, s, p, u)
  <2> DEFINE h == Holding(s, 1, s.bus)
             h0 == Holding(s, 0, s.bus)
  <2>1. CASE s.fl = 0 /\ u = Knowing(h, "any", Agreed, DueOf(t, c))
    <3>1. /\ u = Place(u.fl, u.bus, u.dev, u.ph, u.told, u.knows, u.mode, u.due, u.busy)
          /\ u.fl = 1 /\ u.bus = s.bus /\ u.dev = s.dev /\ u.ph = s.ph /\ u.told = s.told
          /\ u.knows = "any" /\ u.mode = Agreed /\ u.due = DueOf(t, c) /\ u.busy = s.busy
      BY <2>1, FieldsOf
    <3>2. Tells(u)
      BY <3>1
    <3> QED
      BY <1>1, <1>4, <3>1, <3>2 DEF PlaceOK
  <2>2. ASSUME NEW f, NEW b, u = Holding(s, f, b), f \in 0 .. 3, b \in 0 .. 3,
               s.dev # "none" => b > 0, f > 0 <=> s.fl > 0
        PROVE  PlaceOK(u)
    <3>1. /\ u = Place(u.fl, u.bus, u.dev, u.ph, u.told, u.knows, u.mode, u.due, u.busy)
          /\ u.fl = f /\ u.bus = b /\ u.dev = s.dev /\ u.ph = s.ph /\ u.told = s.told
          /\ u.knows = s.knows /\ u.mode = s.mode /\ u.due = s.due /\ u.busy = s.busy
      BY <2>2, FieldsOf
    <3>2. u.dev # "none" => Tells(u)
      BY <1>2, <2>2, <3>1
    <3> QED
      BY <1>1, <2>2, <3>1, <3>2 DEF PlaceOK
  <2>3. CASE s.fl = 1 /\ s.dev = "none" /\ u = Knowing(h0, "any", s.mode, s.due)
    <3>1. /\ u = Place(u.fl, u.bus, u.dev, u.ph, u.told, u.knows, u.mode, u.due, u.busy)
          /\ u.fl = 0 /\ u.bus = s.bus /\ u.dev = s.dev /\ u.ph = s.ph /\ u.told = s.told
          /\ u.knows = "any" /\ u.mode = s.mode /\ u.due = s.due /\ u.busy = s.busy
      BY <2>3, FieldsOf
    <3> QED
      BY <1>1, <2>3, <3>1 DEF PlaceOK
  <2>4. CASE s.fl \in 1 .. 2 /\ u = Holding(s, s.fl + 1, s.bus)
    <3> DEFINE f == s.fl + 1
    <3>1. f \in 0 .. 3 /\ (f > 0 <=> s.fl > 0)
      BY <2>4
    <3> HIDE DEF f
    <3> QED
      BY <1>1, <2>2, <2>4, <3>1 DEF f
  <2>5. CASE s.bus \in 0 .. 2 /\ u = Holding(s, s.fl, s.bus + 1)
    <3> DEFINE b == s.bus + 1
    <3>1. b \in 0 .. 3 /\ b > 0
      BY <2>5
    <3> HIDE DEF b
    <3> QED
      BY <1>1, <2>2, <2>5, <3>1 DEF b
  <2>6. CASE s.fl \in 2 .. 3 /\ u = Holding(s, s.fl - 1, s.bus)
    <3> DEFINE f == s.fl - 1
    <3>1. f \in 0 .. 3 /\ (f > 0 <=> s.fl > 0)
      BY <2>6
    <3> HIDE DEF f
    <3> QED
      BY <1>1, <2>2, <2>6, <3>1 DEF f
  <2>7. CASE s.bus > 0 /\ s.dev = "none" /\ u = Holding(s, s.fl, s.bus - 1)
    <3> DEFINE b == s.bus - 1
    <3>1. b \in 0 .. 3
      BY <1>1, <2>7
    <3> HIDE DEF b
    <3> QED
      BY <1>1, <2>2, <2>7, <3>1 DEF b
  <2> HIDE DEF h, h0
  <2> QED
    BY <1>5, <2>1, <2>3, <2>4, <2>5, <2>6, <2>7 DEF Locks, h, h0
<1>6. ASSUME NEW d, NEW ph, NEW told, u = Talking(s, d, ph, told), IsSeq(told),
             d \in {"none", "flash", "uic"},
             ph \in {"idle", "cleared", "armed", "sent", "handed", "landed", "receiving", "read"},
             d # "none" => s.bus > 0, ph # "idle" => d # "none",
             ph \in {"sent", "handed"} => Len(told) > 0,
             d # "none" => \A k \in 1 .. Len(told) : Widened(told[k]) => s.fl > 0 /\ s.mode = Agreed
      PROVE  PlaceOK(u)
  <2>1. /\ u = Place(u.fl, u.bus, u.dev, u.ph, u.told, u.knows, u.mode, u.due, u.busy)
        /\ u.fl = s.fl /\ u.bus = s.bus /\ u.dev = d /\ u.ph = ph /\ u.told = told
        /\ u.knows = s.knows /\ u.mode = s.mode /\ u.due = s.due /\ u.busy = s.busy
    BY <1>6, FieldsOf
  <2>2. u.dev # "none" => Tells(u)
    BY <1>6, <2>1
  <2> QED
    BY <1>1, <1>6, <2>1, <2>2 DEF PlaceOK
<1>7. CASE Selects(s, p, u)
  <2> DEFINE d == p[2]
             none == <<>>
  <2>1. d \in {"flash", "uic"} /\ s.bus > 0 /\ u = Talking(s, d, s.ph, none) /\ s.ph = "idle"
    BY <1>1, <1>7 DEF Selects
  <2>2. IsSeq(none) /\ \A k \in 1 .. Len(none) : FALSE
    BY <1>3
  <2> HIDE DEF d, none
  <2> QED
    BY <1>1, <1>6, <2>1, <2>2
<1>8. CASE Transfers(s, p, u)
  <2>1. ASSUME NEW ph, u = Talking(s, s.dev, ph, s.told), s.dev # "none",
               ph \in {"idle", "cleared", "armed", "sent", "handed", "landed", "receiving", "read"},
               ph \in {"sent", "handed"} => Len(s.told) > 0
        PROVE  PlaceOK(u)
    BY <1>1, <1>2, <1>6, <2>1
  <2>2. CASE /\ p[1] = "send" /\ s.ph = "armed" /\ (Widened(p[2]) => s.fl > 0 /\ s.mode = Agreed)
             /\ u = Talking(s, s.dev, "sent", Append(s.told, p[2]))
    <3> DEFINE w == Append(s.told, p[2])
               ph == "sent"
               n == Len(s.told)
    <3>1. /\ IsSeq(w) /\ n \in Nat /\ Len(w) = n + 1
          /\ \A k \in 1 .. n : w[k] = s.told[k]
          /\ w[n + 1] = p[2]
      BY <1>1, SeqAppend
    <3>2. s.dev # "none"
      BY <1>1, <2>2
    <3> HIDE DEF w, n
    <3>3. ASSUME NEW k \in 1 .. Len(w), Widened(w[k]) PROVE s.fl > 0 /\ s.mode = Agreed
      <4>1. CASE k \in 1 .. n
        BY <1>2, <3>1, <3>2, <3>3, <4>1 DEF n
      <4>2. CASE k = n + 1
        BY <2>2, <3>1, <3>3, <4>2
      <4> QED
        BY <3>1, <4>1, <4>2
    <3>4. u = Talking(s, s.dev, ph, w) /\ Len(w) > 0 /\ ph = "sent"
      BY <2>2, <3>1 DEF w
    <3> HIDE DEF ph
    <3> QED
      BY <1>1, <1>6, <3>1, <3>2, <3>3, <3>4
  <2>3. CASE s.ph # "idle" /\ \E ph \in {"armed", "landed", "idle", "read"} : u = Talking(s, s.dev, ph, s.told)
    <3>1. PICK ph \in {"armed", "landed", "idle", "read"} : u = Talking(s, s.dev, ph, s.told)
      BY <2>3
    <3> QED
      BY <1>1, <2>1, <2>3, <3>1
  <2>4. CASE s.dev # "none" /\ \E ph \in {"cleared", "receiving"} : u = Talking(s, s.dev, ph, s.told)
    <3>1. PICK ph \in {"cleared", "receiving"} : u = Talking(s, s.dev, ph, s.told)
      BY <2>4
    <3> QED
      BY <2>1, <2>4, <3>1
  <2>5. CASE s.ph = "sent" /\ u = Talking(s, s.dev, "handed", s.told)
    <3> DEFINE ph == "handed"
    <3>1. ph \in {"sent", "handed"} /\ u = Talking(s, s.dev, ph, s.told)
      BY <2>5
    <3> HIDE DEF ph
    <3> QED
      BY <1>1, <2>1, <2>5, <3>1
  <2> QED
    BY <1>8, <2>2, <2>3, <2>4, <2>5 DEF Transfers
<1>9. Away(s) = Talking(s, "none", "idle", <<>>) /\ PlaceOK(Away(s))
  <2> DEFINE w == Away(s)
  <2>1. w = Talking(s, "none", "idle", <<>>)
    BY DEF Away
  <2>2. /\ w = Place(w.fl, w.bus, w.dev, w.ph, w.told, w.knows, w.mode, w.due, w.busy)
        /\ w.fl = s.fl /\ w.bus = s.bus /\ w.dev = "none" /\ w.ph = "idle" /\ w.told = <<>>
        /\ w.knows = s.knows /\ w.mode = s.mode /\ w.due = s.due /\ w.busy = s.busy
    BY <2>1, FieldsOf
  <2> HIDE DEF w
  <2>3. PlaceOK(w)
    BY <1>1, <1>3, <2>2 DEF PlaceOK
  <2> QED
    BY <2>1, <2>3 DEF w
<1>10. ASSUME NEW w, PlaceOK(w), NEW k \in {"any", "idle", "ready"}, NEW m \in {0, 1, Agreed},
              NEW d, w.fl > 0 => DOMAIN d \subseteq Bus!Addresses, u = Knowing(w, k, m, d),
              w.dev # "none" => m = w.mode
       PROVE  PlaceOK(u)
  <2>1. /\ u = Place(u.fl, u.bus, u.dev, u.ph, u.told, u.knows, u.mode, u.due, u.busy)
        /\ u.fl = w.fl /\ u.bus = w.bus /\ u.dev = w.dev /\ u.ph = w.ph /\ u.told = w.told
        /\ u.knows = k /\ u.mode = m /\ u.due = d /\ u.busy = w.busy
    BY <1>10, FieldsOf
  <2>2. u.dev # "none" => Tells(u)
    BY <1>10, <2>1 DEF PlaceOK
  <2> QED
    BY <1>10, <2>1, <2>2 DEF PlaceOK
<1>11. ASSUME NEW w, PlaceOK(w), NEW b \in BOOLEAN, u = Writing(w, b)
       PROVE  PlaceOK(u)
  <2>1. /\ u = Place(u.fl, u.bus, u.dev, u.ph, u.told, u.knows, u.mode, u.due, u.busy)
        /\ u.fl = w.fl /\ u.bus = w.bus /\ u.dev = w.dev /\ u.ph = w.ph /\ u.told = w.told
        /\ u.knows = w.knows /\ u.mode = w.mode /\ u.due = w.due /\ u.busy = b
    BY <1>11, FieldsOf
  <2>2. u.dev # "none" => Tells(u)
    BY <1>11, <2>1 DEF PlaceOK
  <2> QED
    BY <1>11, <2>1, <2>2 DEF PlaceOK
<1>12. CASE Deselects(s, p, u)
  <2> DEFINE w == Away(s)
  <2>1. w.fl = s.fl /\ w.mode = s.mode /\ w.dev = "none" /\ PlaceOK(w)
    BY <1>9, FieldsOf
  <2> HIDE DEF w
  <2>2. CASE u = w
    BY <2>1, <2>2
  <2>3. ASSUME NEW k \in {"any", "idle", "ready"}, NEW m \in {0, 1, Agreed}, NEW d,
               DOMAIN d \subseteq DOMAIN s.due \/ d = NoneDue, u = Knowing(w, k, m, d)
        PROVE  PlaceOK(u)
    <3>1. w.fl > 0 => DOMAIN d \subseteq Bus!Addresses
      BY <1>1, <1>4, <2>1, <2>3
    <3> QED
      BY <1>10, <2>1, <2>3, <3>1
  <2>4. CASE u = Knowing(w, "ready", s.mode, s.due) \/ u = Knowing(w, "idle", s.mode, s.due)
             \/ u = Knowing(w, "any", s.mode, NoneDue)
    BY <1>1, <2>3, <2>4
  <2>5. CASE \E val \in 0 .. 1 : u = Knowing(w, "ready", val, s.due)
    <3>1. PICK val \in 0 .. 1 : u = Knowing(w, "ready", val, s.due)
      BY <2>5
    <3>2. val \in {0, 1, Agreed}
      OBVIOUS
    <3> QED
      BY <2>3, <3>1, <3>2
  <2>6. ASSUME NEW a, NEW n, u = Knowing(w, "any", s.mode, [x \in DOMAIN s.due \ (a .. a + n - 1) |-> s.due[x]])
        PROVE  PlaceOK(u)
    <3> DEFINE d == [x \in DOMAIN s.due \ (a .. a + n - 1) |-> s.due[x]]
    <3>1. DOMAIN d \subseteq DOMAIN s.due /\ u = Knowing(w, "any", s.mode, d)
      BY <2>6
    <3> HIDE DEF d
    <3> QED
      BY <1>1, <2>3, <3>1
  <2>7. CASE u = Writing(w, s.busy \/ s.told[1] = <<"disable">>)
    <3> DEFINE b == s.busy \/ s.told[1] = <<"disable">>
    <3>1. b \in BOOLEAN
      BY <1>1
    <3> HIDE DEF b
    <3> QED
      BY <1>11, <2>1, <2>7, <3>1 DEF b
  <2> QED
    BY <1>12, <2>2, <2>4, <2>5, <2>6, <2>7 DEF Deselects, w
<1>13. CASE Learns(s, p, u)
  <2> DEFINE w == Talking(s, s.dev, "read", s.told)
  <2>1. PICK wel \in BOOLEAN : u = Knowing(w, IF wel THEN "ready" ELSE "idle", s.mode, s.due)
    BY <1>13 DEF Learns
  <2>2. /\ w = Place(w.fl, w.bus, w.dev, w.ph, w.told, w.knows, w.mode, w.due, w.busy)
        /\ w.fl = s.fl /\ w.bus = s.bus /\ w.dev = s.dev /\ w.ph = "read" /\ w.told = s.told
        /\ w.knows = s.knows /\ w.mode = s.mode /\ w.due = s.due /\ w.busy = s.busy
    BY FieldsOf
  <2> HIDE DEF w
  <2>3. s.dev # "none"
    BY <1>13 DEF Learns
  <2>4. Tells(w)
    BY <1>2, <2>2, <2>3
  <2>5. PlaceOK(w)
    BY <1>1, <2>2, <2>3, <2>4 DEF PlaceOK
  <2> DEFINE k == IF wel THEN "ready" ELSE "idle"
  <2>6. k \in {"any", "idle", "ready"}
    OBVIOUS
  <2> HIDE DEF k
  <2> QED
    BY <1>1, <1>10, <2>1, <2>2, <2>5, <2>6 DEF k
<1>14. CASE Others(s, p, u)
  <2>1. CASE s.dev = "none" /\ u = Knowing(s, s.knows, Agreed, s.due)
    <3> DEFINE m == Agreed
    <3>1. m \in {0, 1, Agreed}
      OBVIOUS
    <3> HIDE DEF m
    <3> QED
      BY <1>1, <1>10, <2>1, <3>1 DEF m
  <2>2. CASE u = Writing(s, FALSE)
    BY <1>11, <2>2
  <2> QED
    BY <1>14, <2>1, <2>2 DEF Others
<1> QED
  BY <1>5, <1>7, <1>8, <1>12, <1>13, <1>14 DEF Moves

-----------------------------------------------------------------------------
(* What is so while a thread is at s. A command with an address is sent    *)
(* with the width of addresses in AddrMode.                                *)
Sent(x) == IF Widened(x) THEN Append(x, addrMode) ELSE x
Said(s, n) == IsSeq(got) /\ Len(got) = n /\ \A k \in 1 .. n : got[k] = Sent(s.told[k])
Heard(s) == IF s.ph \in {"sent", "handed"} /\ shift # Nothing THEN Len(s.told) - 1 ELSE Len(s.told)

(* The wires while it holds the bus: what its transfer has got to, ...     *)
Signals(s) ==
  /\ s.ph \in {"idle", "read", "cleared"} =>
       dma = "idle" /\ shift = Nothing /\ ~writeIrq /\ ~spiEnable
  /\ s.ph = "cleared" => ~event
  /\ s.ph = "armed" => dma = "idle" /\ shift = Nothing /\ ~writeIrq /\ ~event /\ spiEnable
  /\ s.ph \in {"sent", "handed"} =>
       /\ spiEnable /\ dma \in {"send", "done", "idle"}
       /\ shift = Nothing => dma # "send" /\ (writeIrq <=> ~event)
       /\ shift # Nothing => ~writeIrq /\ ~event /\ shift = Sent(s.told[Len(s.told)])
  /\ s.ph = "handed" => dma = "idle"
  /\ s.ph = "landed" => dma = "idle" /\ shift = Nothing /\ ~writeIrq /\ event /\ spiEnable
  /\ s.ph = "receiving" =>
       dma \in {"receive", "done", "idle"} /\ shift = Nothing /\ ~writeIrq /\ ~spiEnable

(* ... that the device has got what it was sent, the status as it is, and  *)
(* nothing while it writes.                                                *)
Wires(s) ==
  /\ device = s.dev
  /\ Signals(s)
  /\ s.dev # "none" => Said(s, Heard(s))
  /\ s.ph \in {"receiving", "read"} /\ s.fl > 0 /\ s.dev = "flash" /\ ~status[2] =>
       ~chip.wip /\ chip.wel = status[1]
  /\ uicBusy => s.busy
  /\ s.ph \in {"sent", "handed"} /\ s.dev = "uic" => ~s.busy

(* The flash while it holds that: what it knows of it, its addressing, and *)
(* that it holds all but what is due.                                      *)
Flash(s) ==
  /\ s.knows \in {"idle", "ready"} => ~chip.wip
  /\ s.knows = "ready" => chip.wel
  /\ chip.mode = IF s.mode = Agreed THEN addrMode ELSE s.mode
  /\ \A x \in Bus!Addresses : want[x] = IF x \in DOMAIN s.due THEN s.due[x] ELSE mem[x]

(* The types; a mutex is held by one thread at a time.                     *)
BusTypes ==
  /\ DOMAIN todo = Threads
  /\ called \in [Threads -> Calls \cup {Nothing}] /\ calls \in 0 .. MaxCalls
  /\ lock \in [Bus!Mutexes -> [Threads -> 0 .. 3]]
  /\ \A m \in Bus!Mutexes : \A t, u \in Threads : lock[m][t] = 0 \/ lock[m][u] = 0 \/ t = u
  /\ addrMode \in 0 .. 1 /\ device \in {"none", "flash", "uic"}
  /\ dma \in {"idle", "send", "receive", "done"}
  /\ {dmaEvent, writeIrq, spiEnable, event, uicBusy, refused} \subseteq BOOLEAN
  /\ status \in BOOLEAN \X BOOLEAN
  /\ chip \in [wel : BOOLEAN, wip : BOOLEAN, mode : 0 .. 1]
  /\ DOMAIN mem = Bus!Addresses /\ DOMAIN want = Bus!Addresses
  /\ mem = [x \in Bus!Addresses |-> mem[x]] /\ want = [x \in Bus!Addresses |-> want[x]]

(* Each thread is somewhere on its way through its call, ...               *)
ThreadAt(t, s) ==
  /\ PlaceOK(s)
  /\ Runs(t, called[t], todo[t], s, Start)
  /\ todo[t] # Nothing => called[t] \in Calls
  /\ lock["flash"][t] = s.fl /\ lock["bus"][t] = s.bus

(* ... and what it holds is as its place says, or as it was at the         *)
(* beginning, when nobody holds it.                                        *)
BusAt(st) ==
  /\ \A t \in Threads : ThreadAt(t, st[t])
  /\ \A t \in Threads : st[t].bus > 0 => Wires(st[t])
  /\ \A t \in Threads : st[t].fl > 0 => Flash(st[t])
  /\ (\A t \in Threads : st[t].bus = 0) => Wires(Start)
  /\ (\A t \in Threads : st[t].fl = 0) => Flash(Start)

(* The invariant: the flash refused nothing, and each thread has a place.  *)
BusInv ==
  /\ BusTypes
  /\ ~refused
  /\ dma \in {"send", "receive"} => ~dmaEvent
  /\ \E st : BusAt(st)

(* The places of the threads tell what the properties say.                 *)
LEMMA StartPlace ==
  /\ Start.fl = 0 /\ Start.bus = 0 /\ Start.dev = "none" /\ Start.ph = "idle"
  /\ Start.told = <<>> /\ Start.knows = "any" /\ Start.mode = Agreed
  /\ Start.due = NoneDue /\ Start.busy = FALSE /\ PlaceOK(Start)
<1>1. /\ Start.fl = 0 /\ Start.bus = 0 /\ Start.dev = "none" /\ Start.ph = "idle"
      /\ Start.told = <<>> /\ Start.knows = "any" /\ Start.mode = Agreed
      /\ Start.due = NoneDue /\ Start.busy = FALSE
  BY DEF Start, Place
<1>2. Start = Place(Start.fl, Start.bus, Start.dev, Start.ph, Start.told, Start.knows,
                    Start.mode, Start.due, Start.busy)
  BY <1>1 DEF Start
<1> HIDE DEF Start
<1>3. PlaceOK(Start)
  <2> DEFINE w == Start
  <2>1. /\ w.fl = 0 /\ w.bus = 0 /\ w.dev = "none" /\ w.ph = "idle" /\ w.told = <<>>
        /\ w.knows = "any" /\ w.mode = Agreed /\ w.busy = FALSE
    BY <1>1
  <2>2. w = Place(w.fl, w.bus, w.dev, w.ph, w.told, w.knows, w.mode, w.due, w.busy)
    BY <1>2
  <2> HIDE DEF w
  <2>3. /\ IsSeq(w.told) /\ w.fl \in 0 .. 3 /\ w.bus \in 0 .. 3 /\ ~(w.fl > 0)
        /\ w.mode \in {0, 1, Agreed} /\ w.busy \in BOOLEAN
    <3>1. IsSeq(w.told)
      BY <2>1, SeqNone
    <3>2. w.mode \in {0, 1, Agreed} /\ w.busy \in BOOLEAN
      BY <2>1
    <3>3. w.fl \in 0 .. 3 /\ w.bus \in 0 .. 3 /\ ~(w.fl > 0)
      BY <2>1
    <3> QED
      BY <3>1, <3>2, <3>3
  <2>4. PlaceOK(w)
    BY <2>1, <2>2, <2>3 DEF PlaceOK
  <2> QED
    BY <2>4 DEF w
<1> QED
  BY <1>1, <1>3

(* It has the properties of SpiBus.                                        *)
LEMMA BusInvRight == ASSUME BusInv PROVE Bus!TypeOK /\ Bus!WritesLand /\ Bus!NothingInFlight /\ Bus!CommandsTaken
<1>1. PICK st : BusAt(st)
  BY DEF BusInv
<1>2. BusTypes /\ ~refused
  BY DEF BusInv
<1>3. ASSUME NEW t \in Threads, todo[t] # Nothing
      PROVE  \E u : Moves(t, called[t], st[t], todo[t][1], u)
  <2>1. Runs(t, called[t], todo[t], st[t], Start)
    BY <1>1 DEF BusAt, ThreadAt
  <2>2. todo[t] # <<>>
    BY <1>3 DEF Nothing, Bus!Nothing
  <2> QED
    BY <2>1, <2>2, RunsHead
<1>4. Bus!TypeOK
  <2>1. ASSUME NEW t \in Threads PROVE todo[t] = Nothing \/ todo[t][1][1] # "none"
    <3> SUFFICES ASSUME todo[t] # Nothing PROVE todo[t][1][1] # "none"
      OBVIOUS
    <3> DEFINE p == todo[t][1]
    <3>1. PICK u : Moves(t, called[t], st[t], p, u)
      BY <1>3
    <3> HIDE DEF p
    <3>2. p[1] # "none"
      BY <3>1 DEF Moves, Locks, Selects, Deselects, Transfers, Learns, Others
    <3> QED
      BY <3>2 DEF p
  <2> QED
    BY <1>2, <2>1 DEF Bus!TypeOK, BusTypes, Nothing
<1>5. Bus!WritesLand
  <2> SUFFICES ASSUME \A t \in Threads : lock["flash"][t] = 0 PROVE mem = want
    BY DEF Bus!WritesLand
  <2>1. Flash(Start)
    BY <1>1 DEF BusAt, ThreadAt
  <2>2. \A x \in Bus!Addresses : want[x] = mem[x]
    BY <2>1, StartPlace DEF Flash, NoneDue
  <2> QED
    BY <1>2, <2>2 DEF BusTypes
<1>6. Bus!NothingInFlight
  <2> SUFFICES ASSUME NEW t \in Threads, todo[t] # Nothing,
                      todo[t][1][1] \in {"select", "deselect", "receive", "enable"}
               PROVE  shift = Nothing /\ dma \notin {"send", "receive"}
    BY DEF Bus!NothingInFlight, Nothing
  <2> DEFINE p == todo[t][1]
             s == st[t]
  <2>1. PICK u : Moves(t, called[t], s, p, u)
    BY <1>3
  <2>2. p[1] \in {"select", "deselect", "receive", "enable"} /\ PlaceOK(s) /\ (s.bus > 0 => Wires(s))
    BY <1>1 DEF BusAt, ThreadAt
  <2> HIDE DEF p, s
  <2>3. s.bus > 0 /\ s.ph \in {"idle", "read", "cleared"}
    <3>1. CASE p[1] = "select"
      BY <2>1, <2>2, <3>1 DEF Moves, Locks, Selects, Deselects, Transfers, Learns, Others, PlaceOK
    <3>2. CASE p[1] = "deselect"
      BY <2>1, <2>2, <3>2
      DEF Moves, Locks, Selects, Deselects, Transfers, Learns, Others, PlaceOK, Still
    <3>3. CASE p[1] \in {"receive", "enable"}
      BY <2>1, <2>2, <3>3
      DEF Moves, Locks, Selects, Deselects, Transfers, Learns, Others, PlaceOK, Still
    <3> QED
      BY <2>2, <3>1, <3>2, <3>3
  <2> QED
    BY <2>2, <2>3 DEF Wires, Signals
<1>7. Bus!CommandsTaken
  BY <1>2 DEF Bus!CommandsTaken
<1> QED
  BY <1>4, <1>5, <1>6, <1>7

(* Where nothing of it changes, the places stay.                           *)
LEMMA SamePlaces ==
  ASSUME NEW st, BusAt(st), UNCHANGED <<todo, called, lock>>,
         \A s : PlaceOK(s) /\ Wires(s) => Wires(s)',
         \A s : PlaceOK(s) /\ Flash(s) => Flash(s)'
  PROVE  BusAt(st)'
<1>1. ASSUME NEW t \in Threads PROVE PlaceOK(st[t]) /\ ThreadAt(t, st[t])'
  BY DEF BusAt, ThreadAt
<1>2. PlaceOK(Start)
  BY StartPlace
<1> HIDE DEF Start
<1> QED
  BY <1>1, <1>2 DEF BusAt

(* Somebody is in control of the wires, or nobody uses them.               *)
LEMMA Control == ASSUME NEW st, BusAt(st) PROVE \E s : PlaceOK(s) /\ Wires(s)
<1>1. CASE \E t \in Threads : st[t].bus > 0
  BY <1>1 DEF BusAt, ThreadAt
<1>2. CASE \A t \in Threads : st[t].bus = 0
  BY <1>2, StartPlace DEF BusAt
<1>3. ASSUME NEW t \in Threads PROVE st[t].bus \in 0 .. 3
  BY DEF BusAt, ThreadAt, PlaceOK
<1> QED
  BY <1>1, <1>2, <1>3

(* The hardware and the handlers.                                          *)
LEMMA WiresHardware ==
  ASSUME BusTypes, dma \in {"send", "receive"} => ~dmaEvent,
         Bus!Transfer \/ Bus!DeviceDone, NEW s, PlaceOK(s), Wires(s)
  PROVE  Wires(s)' /\ (device = "uic" /\ uicBusy => shift = Nothing)
<1>1. /\ device = s.dev /\ Signals(s) /\ (s.dev # "none" => Said(s, Heard(s)))
      /\ uicBusy => s.busy
      /\ s.ph \in {"sent", "handed"} /\ s.dev = "uic" => ~s.busy
  BY DEF Wires
<1>2. s.ph \in {"receiving", "read"} /\ s.fl > 0 /\ s.dev = "flash" /\ ~status[2] =>
       ~chip.wip /\ chip.wel = status[1]
  BY DEF Wires
<1>3. /\ s.ph \in {"idle", "cleared", "armed", "sent", "handed", "landed", "receiving", "read"}
      /\ s.ph # "idle" => s.dev # "none"
      /\ s.ph \in {"sent", "handed"} => Len(s.told) > 0
      /\ IsSeq(s.told)
  BY DEF PlaceOK
<1>4. shift # Nothing => s.ph \in {"sent", "handed"}
  BY <1>1, <1>3 DEF Signals
<1>5. device = "uic" /\ uicBusy => shift = Nothing
  BY <1>1, <1>4
<1>6. Len(s.told) \in Nat
  BY <1>3, SeqFacts
<1>7. ASSUME UNCHANGED <<device, got, shift, addrMode>>, Signals(s)',
             uicBusy' => uicBusy, UNCHANGED status, UNCHANGED chip \/ chip.wip
      PROVE  Wires(s)'
  <2>1. s.dev # "none" => Said(s, Heard(s))'
    BY <1>1, <1>7 DEF Said, Heard, Sent
  <2>2. s.ph \in {"receiving", "read"} /\ s.fl > 0 /\ s.dev = "flash" /\ ~status'[2] =>
          ~chip'.wip /\ chip'.wel = status'[1]
    <3> SUFFICES ASSUME s.ph \in {"receiving", "read"}, s.fl > 0, s.dev = "flash", ~status'[2]
                 PROVE  ~chip'.wip /\ chip'.wel = status'[1]
      OBVIOUS
    <3>1. status' = status
      BY <1>7
    <3>2. ~chip.wip /\ chip.wel = status[1]
      BY <1>2, <3>1
    <3>3. chip' = chip
      BY <1>7, <3>2
    <3> QED
      BY <3>1, <3>2, <3>3
  <2> QED
    BY <1>1, <1>7, <2>1, <2>2 DEF Wires
<1>8. CASE Bus!DmaDone
  <2>1. UNCHANGED <<device, got, shift, addrMode, chip, status, uicBusy, writeIrq, event, spiEnable>>
        /\ dma \in {"send", "receive"} /\ dma' = "done"
    BY <1>8 DEF Bus!DmaDone, Bus!soft, Bus!ext
  <2>2. Signals(s)'
    BY <1>1, <1>3, <2>1 DEF Signals, Sent
  <2> QED
    BY <1>5, <1>7, <2>1, <2>2
<1>9. CASE Bus!ShiftDone
  <2>1. /\ shift # Nothing /\ dma # "send" /\ got' = Append(got, shift) /\ shift' = Nothing
        /\ writeIrq' = TRUE
        /\ UNCHANGED <<addrMode, device, dma, dmaEvent, spiEnable, event, status, chip, uicBusy>>
    BY <1>9 DEF Bus!ShiftDone, Bus!soft, Nothing
  <2>2. s.ph \in {"sent", "handed"} /\ s.dev # "none" /\ ~event /\ shift = Sent(s.told[Len(s.told)])
    BY <1>1, <1>3, <1>4, <2>1 DEF Signals
  <2>3. Signals(s)'
    BY <1>1, <2>1, <2>2 DEF Signals
  <2> DEFINE n == Len(s.told) - 1
  <2>4. Said(s, n) /\ n \in Nat /\ Len(s.told) = n + 1 /\ Heard(s)' = n + 1
    BY <1>1, <1>3, <1>6, <2>1, <2>2 DEF Heard
  <2> HIDE DEF n
  <2>5. /\ IsSeq(got) /\ Len(got) = n
        /\ \A k \in 1 .. n : got[k] = Sent(s.told[k])
    BY <2>4 DEF Said
  <2>6. /\ IsSeq(got') /\ Len(got') = n + 1
        /\ \A k \in 1 .. n : got'[k] = got[k]
        /\ got'[n + 1] = shift
    BY <2>1, <2>5, SeqAppend
  <2>7. \A k : Sent(s.told[k])' = Sent(s.told[k])
    BY <2>1 DEF Sent
  <2>8. \A k \in 1 .. n + 1 : got'[k] = Sent(s.told[k])'
    BY <2>2, <2>4, <2>5, <2>6, <2>7
  <2>9. Said(s, Heard(s))'
    BY <2>4, <2>6, <2>8 DEF Said
  <2> QED
    BY <1>1, <1>2, <1>5, <2>1, <2>3, <2>9 DEF Wires
<1>10. CASE Bus!SPDMA0_IRQHandler
  <2>1. UNCHANGED <<device, got, shift, addrMode, chip, status, uicBusy, writeIrq, event, spiEnable>>
        /\ dma = "done" /\ dma' = "idle"
    BY <1>10 DEF Bus!SPDMA0_IRQHandler, Bus!soft, Bus!ext
  <2>2. Signals(s)'
    BY <1>1, <1>3, <2>1 DEF Signals, Sent
  <2> QED
    BY <1>5, <1>7, <2>1, <2>2
<1>11. CASE Bus!SPI_IRQHandler
  <2>1. UNCHANGED <<device, got, shift, addrMode, chip, status, uicBusy, dma, spiEnable>>
        /\ writeIrq /\ spiEnable /\ ~writeIrq' /\ event'
    BY <1>11 DEF Bus!SPI_IRQHandler, Bus!soft, Bus!ext
  <2>2. Signals(s)'
    BY <1>1, <1>3, <2>1 DEF Signals, Sent
  <2> QED
    BY <1>5, <1>7, <2>1, <2>2
<1>12. CASE Bus!FlashDone
  <2>1. UNCHANGED <<device, got, shift, addrMode, uicBusy, dma, spiEnable, writeIrq, event>> /\ chip.wip
    BY <1>12 DEF Bus!FlashDone, Bus!soft, Bus!hard
  <2>2. Signals(s)'
    BY <1>1, <2>1 DEF Signals, Sent
  <2>3. UNCHANGED status
    BY <1>12 DEF Bus!FlashDone, Bus!hard
  <2> QED
    BY <1>5, <1>7, <2>1, <2>2, <2>3
<1>13. CASE Bus!EepromDone
  <2>1. UNCHANGED <<device, got, shift, addrMode, chip, status, dma, spiEnable, writeIrq, event>> /\ ~uicBusy'
    BY <1>13 DEF Bus!EepromDone, Bus!soft, Bus!hard
  <2>2. Signals(s)'
    BY <1>1, <2>1 DEF Signals, Sent
  <2> QED
    BY <1>5, <1>7, <2>1, <2>2
<1> QED
  BY <1>8, <1>9, <1>10, <1>11, <1>12, <1>13 DEF Bus!Transfer, Bus!DeviceDone

(* The flash, when it is done with what it was told.                       *)
LEMMA FlashHardware ==
  ASSUME BusTypes, Bus!Transfer \/ Bus!DeviceDone, NEW s, PlaceOK(s), Flash(s)
  PROVE  Flash(s)'
<1>1. UNCHANGED <<addrMode, want, mem>>
  BY DEF Bus!Transfer, Bus!DeviceDone, Bus!DmaDone, Bus!ShiftDone, Bus!SPDMA0_IRQHandler,
         Bus!SPI_IRQHandler, Bus!FlashDone, Bus!EepromDone, Bus!soft, Bus!ext
<1>2. UNCHANGED chip \/ (chip.wip /\ chip'.mode = chip.mode)
  <2>1. CASE Bus!FlashDone
    BY <2>1 DEF Bus!FlashDone, BusTypes
  <2>2. CASE ~Bus!FlashDone
    BY <2>2 DEF Bus!Transfer, Bus!DeviceDone, Bus!DmaDone, Bus!ShiftDone, Bus!SPDMA0_IRQHandler,
         Bus!SPI_IRQHandler, Bus!EepromDone, Bus!soft, Bus!ext
  <2> QED
    BY <2>1, <2>2
<1> QED
  BY <1>1, <1>2 DEF Flash

(* The hardware keeps the invariant.                                       *)
LEMMA BusHardware == ASSUME BusInv, Bus!Transfer \/ Bus!DeviceDone PROVE BusInv'
<1>1. PICK st : BusAt(st)
  BY DEF BusInv
<1>2. BusTypes /\ ~refused /\ (dma \in {"send", "receive"} => ~dmaEvent)
  BY DEF BusInv
<1>3. UNCHANGED <<todo, called, calls, lock, addrMode, want, mem>>
  BY DEF Bus!Transfer, Bus!DeviceDone, Bus!DmaDone, Bus!ShiftDone, Bus!SPDMA0_IRQHandler,
         Bus!SPI_IRQHandler, Bus!FlashDone, Bus!EepromDone, Bus!soft, Bus!ext
<1>4. \A s : PlaceOK(s) /\ Wires(s) => Wires(s)'
  BY <1>2, WiresHardware
<1>5. \A s : PlaceOK(s) /\ Flash(s) => Flash(s)'
  BY <1>2, FlashHardware
<1>6. BusAt(st)'
  BY <1>1, <1>3, <1>4, <1>5, SamePlaces
<1>7. device = "uic" /\ uicBusy => shift = Nothing
  <2>1. PICK s : PlaceOK(s) /\ Wires(s)
    BY <1>1, Control
  <2> QED
    BY <1>2, <2>1, WiresHardware
<1>8. ~refused' /\ (dma' \in {"send", "receive"} => ~dmaEvent')
  <2>1. CASE Bus!ShiftDone
    BY <1>2, <1>7, <2>1 DEF Bus!ShiftDone, Nothing
  <2>2. CASE ~Bus!ShiftDone
    <3>1. UNCHANGED refused
      BY <2>2 DEF Bus!Transfer, Bus!DeviceDone, Bus!DmaDone, Bus!SPDMA0_IRQHandler,
         Bus!SPI_IRQHandler, Bus!FlashDone, Bus!EepromDone, Bus!ext
    <3>2. dma' \in {"send", "receive"} => ~dmaEvent'
      BY <1>2, <2>2 DEF Bus!Transfer, Bus!DeviceDone, Bus!DmaDone, Bus!SPDMA0_IRQHandler,
         Bus!SPI_IRQHandler, Bus!FlashDone, Bus!EepromDone, Bus!hard
    <3> QED
      BY <1>2, <3>1, <3>2
  <2> QED
    BY <2>1, <2>2
<1>9. BusTypes'
  <2>1. /\ dma' \in {"idle", "send", "receive", "done"} /\ device' = device
        /\ {dmaEvent, writeIrq, spiEnable, event, uicBusy, refused}' \subseteq BOOLEAN
        /\ status' = status
    BY <1>2 DEF Bus!Transfer, Bus!DeviceDone, Bus!DmaDone, Bus!ShiftDone, Bus!SPDMA0_IRQHandler,
         Bus!SPI_IRQHandler, Bus!FlashDone, Bus!EepromDone, Bus!soft, Bus!hard, Bus!ext, BusTypes
  <2>2. chip' \in [wel : BOOLEAN, wip : BOOLEAN, mode : 0 .. 1]
    BY <1>2 DEF Bus!Transfer, Bus!DeviceDone, Bus!DmaDone, Bus!ShiftDone, Bus!SPDMA0_IRQHandler,
         Bus!SPI_IRQHandler, Bus!FlashDone, Bus!EepromDone, Bus!soft, Bus!hard, Bus!ext, BusTypes
  <2> QED
    BY <1>2, <1>3, <2>1, <2>2 DEF BusTypes
<1> QED
  BY <1>6, <1>8, <1>9 DEF BusInv

(* A step of t's finds it where its place says, and takes it to the next.  *)
LEMMA StepTaken ==
  ASSUME NEW st, BusAt(st), NEW t \in Threads, NEW op, Bus!Takes(t, op)
  PROVE  \E u : /\ Moves(t, called[t], st[t], todo[t][1], u) /\ todo[t][1][1] = op
                /\ Runs(t, called[t], Tail(todo[t]), u, Start)
                /\ called[t] \in Calls /\ ThreadAt(t, st[t]) /\ PlaceOK(st[t]) /\ PlaceOK(u)
                /\ (st[t].bus > 0 => Wires(st[t])) /\ (st[t].fl > 0 => Flash(st[t]))
<1>1. todo[t] # Nothing /\ todo[t] # <<>> /\ todo[t][1][1] = op
  BY DEF Bus!Takes, Nothing, Bus!Nothing
<1>2. /\ Runs(t, called[t], todo[t], st[t], Start) /\ called[t] \in Calls
      /\ PlaceOK(st[t]) /\ ThreadAt(t, st[t])
      /\ (st[t].bus > 0 => Wires(st[t])) /\ (st[t].fl > 0 => Flash(st[t]))
  BY <1>1 DEF BusAt, ThreadAt
<1>3. PICK u : Moves(t, called[t], st[t], todo[t][1], u) /\ Runs(t, called[t], Tail(todo[t]), u, Start)
  BY <1>1, <1>2, RunsHead
<1>4. PlaceOK(u)
  BY <1>2, <1>3, MovesPlace
<1> QED
  BY <1>1, <1>2, <1>3, <1>4

(* One thread goes on, the others stay where they are.                     *)
LEMMA OneMoves ==
  ASSUME NEW st, BusAt(st), NEW t \in Threads, NEW u, PlaceOK(u),
         Runs(t, called'[t], todo'[t], u, Start), todo'[t] # Nothing => called'[t] \in Calls,
         lock'["flash"][t] = u.fl, lock'["bus"][t] = u.bus,
         \A v \in Threads \ {t} :
           /\ todo'[v] = todo[v] /\ called'[v] = called[v]
           /\ lock'["flash"][v] = lock["flash"][v] /\ lock'["bus"][v] = lock["bus"][v],
         u.bus > 0 => Wires(u)', u.fl > 0 => Flash(u)',
         \A v \in Threads \ {t} : st[v].bus > 0 => Wires(st[v])',
         \A v \in Threads \ {t} : st[v].fl > 0 => Flash(st[v])',
         u.bus = 0 /\ (\A v \in Threads \ {t} : st[v].bus = 0) => Wires(Start)',
         u.fl = 0 /\ (\A v \in Threads \ {t} : st[v].fl = 0) => Flash(Start)'
  PROVE  \E w : BusAt(w)'
<1> DEFINE w == [v \in Threads |-> IF v = t THEN u ELSE st[v]]
<1>1. w[t] = u /\ \A v \in Threads \ {t} : w[v] = st[v]
  OBVIOUS
<1> HIDE DEF w
<1>2. ASSUME NEW v \in Threads PROVE ThreadAt(v, w[v])'
  <2>1. CASE v = t
    BY <1>1, <2>1 DEF ThreadAt
  <2>2. CASE v # t
    BY <1>1, <2>2 DEF BusAt, ThreadAt
  <2> QED
    BY <2>1, <2>2
<1>3. \A v \in Threads : (w[v].bus > 0 => Wires(w[v])') /\ (w[v].fl > 0 => Flash(w[v])')
  BY <1>1
<1>4. (\A v \in Threads : w[v].bus = 0) => Wires(Start)'
  BY <1>1
<1>5. (\A v \in Threads : w[v].fl = 0) => Flash(Start)'
  BY <1>1
<1>6. BusAt(w)'
  BY <1>2, <1>3, <1>4, <1>5 DEF BusAt
<1> QED
  BY <1>6

(* What is said of the wires holds on while nothing of them changes; the   *)
(* commands that were sent have no address when AddrMode changes.          *)
LEMMA WiresStay ==
  ASSUME NEW s, PlaceOK(s), Wires(s), NEW u,
         u.dev = s.dev, u.ph = s.ph, u.told = s.told, u.busy = s.busy,
         u.fl > 0 => s.fl > 0 \/ s.dev = "none",
         UNCHANGED <<device, dma, shift, writeIrq, spiEnable, event, got, status, chip, uicBusy>>,
         UNCHANGED addrMode \/ ~(s.fl > 0) \/ s.dev = "none"
  PROVE  Wires(u)'
<1>1. /\ device = s.dev /\ Signals(s) /\ (s.dev # "none" => Said(s, Heard(s)))
      /\ uicBusy => s.busy
      /\ s.ph \in {"sent", "handed"} /\ s.dev = "uic" => ~s.busy
  BY DEF Wires
<1>2. s.ph \in {"receiving", "read"} /\ s.fl > 0 /\ s.dev = "flash" /\ ~status[2] =>
       ~chip.wip /\ chip.wel = status[1]
  BY DEF Wires
<1>3. /\ s.ph # "idle" => s.dev # "none"
      /\ s.ph \in {"sent", "handed"} => Len(s.told) > 0
      /\ IsSeq(s.told)
      /\ s.dev # "none" => \A k \in 1 .. Len(s.told) : Widened(s.told[k]) => s.fl > 0
  BY DEF PlaceOK
<1>4. Len(s.told) \in Nat
  BY <1>3, SeqFacts
<1>5. s.dev # "none" => \A k \in 1 .. Len(s.told) : Sent(u.told[k])' = Sent(s.told[k])
  BY <1>3 DEF Sent
<1>6. Signals(u)'
  <2> DEFINE n == Len(s.told)
  <2>1. s.ph \in {"sent", "handed"} => Sent(u.told[n])' = Sent(s.told[n])
    BY <1>3, <1>4, <1>5
  <2>2. s.ph \in {"sent", "handed"} /\ shift # Nothing => shift = Sent(s.told[n])
    BY <1>1 DEF Signals
  <2> HIDE DEF n
  <2> QED
    BY <1>1, <2>1, <2>2 DEF Signals, n
<1>7. s.dev # "none" => Said(u, Heard(u))'
  <2> SUFFICES ASSUME s.dev # "none" PROVE Said(u, Heard(u))'
    OBVIOUS
  <2>1. Heard(u)' = Heard(s) /\ Heard(s) <= Len(s.told)
    BY <1>4 DEF Heard
  <2>2. PICK n : n = Heard(s)
    OBVIOUS
  <2>3. Said(s, n) /\ n <= Len(s.told) /\ n \in Int /\ Heard(u)' = n
    BY <1>1, <1>4, <2>1, <2>2 DEF Heard
  <2>4. \A k \in 1 .. n : got'[k] = Sent(u.told[k])'
    BY <1>4, <1>5, <2>3 DEF Said
  <2>5. Said(u, n)'
    BY <2>3, <2>4 DEF Said
  <2> QED
    BY <2>3, <2>5
<1>8. u.ph \in {"receiving", "read"} /\ u.fl > 0 /\ u.dev = "flash" /\ ~status'[2] =>
       ~chip'.wip /\ chip'.wel = status'[1]
  BY <1>2
<1> QED
  BY <1>1, <1>6, <1>7, <1>8 DEF Wires

(* And what is said of the flash.                                          *)
LEMMA FlashStays ==
  ASSUME NEW s, Flash(s), NEW u, u.knows = s.knows, u.mode = s.mode, u.due = s.due,
         UNCHANGED <<chip, addrMode, want, mem>>
  PROVE  Flash(u)'
BY DEF Flash

(* Nobody else holds what t holds.                                         *)
LEMMA Alone ==
  ASSUME BusTypes, NEW st, BusAt(st), NEW t \in Threads
  PROVE  /\ \A v \in Threads \ {t} : PlaceOK(st[v]) /\ (st[t].bus > 0 => st[v].bus = 0)
                                                  /\ (st[t].fl > 0 => st[v].fl = 0)
         /\ \A v \in Threads : /\ st[v].fl = lock["flash"][v] /\ st[v].bus = lock["bus"][v]
                               /\ st[v].fl \in 0 .. 3 /\ st[v].bus \in 0 .. 3
<1>1. \A v \in Threads : /\ st[v].fl = lock["flash"][v] /\ st[v].bus = lock["bus"][v]
                         /\ st[v].fl \in 0 .. 3 /\ st[v].bus \in 0 .. 3 /\ PlaceOK(st[v])
  BY DEF BusAt, ThreadAt, PlaceOK
<1>2. \A v \in Threads \ {t} : /\ lock["bus"][t] = 0 \/ lock["bus"][v] = 0
                               /\ lock["flash"][t] = 0 \/ lock["flash"][v] = 0
  BY DEF BusTypes, Bus!Mutexes
<1> QED
  BY <1>1, <1>2

(* While it holds the bus, a thread has the wires and the devices for      *)
(* itself.                                                                 *)
LEMMA Working ==
  ASSUME BusTypes, NEW st, BusAt(st), NEW t \in Threads, NEW u, PlaceOK(u),
         st[t].bus > 0, u.bus = st[t].bus, u.fl = st[t].fl,
         NEW q, todo' = [todo EXCEPT ![t] = q], Runs(t, called[t], q, u, Start),
         called[t] \in Calls, UNCHANGED <<called, lock>>,
         UNCHANGED <<chip, addrMode, want, mem>> \/ st[t].fl > 0,
         Wires(u)', u.fl > 0 => Flash(u)'
  PROVE  \E w : BusAt(w)'
<1>1. todo'[t] = q /\ \A v \in Threads \ {t} : todo'[v] = todo[v]
  BY DEF BusTypes
<1>2. /\ \A v \in Threads \ {t} : PlaceOK(st[v]) /\ st[v].bus = 0 /\ (st[t].fl > 0 => st[v].fl = 0)
      /\ \A v \in Threads : /\ st[v].fl = lock["flash"][v] /\ st[v].bus = lock["bus"][v]
                            /\ st[v].fl \in 0 .. 3 /\ st[v].bus \in 0 .. 3
  BY Alone
<1>3. \A v \in Threads \ {t} : st[v].bus > 0 => Wires(st[v])'
  BY <1>2
<1> HIDE DEF Start
<1>4. \A v \in Threads \ {t} : st[v].fl > 0 => Flash(st[v])'
  <2> SUFFICES ASSUME NEW v \in Threads \ {t}, st[v].fl > 0 PROVE Flash(st[v])'
    OBVIOUS
  <2>1. Flash(st[v]) /\ ~(st[t].fl > 0)
    BY <1>2 DEF BusAt
  <2> QED
    BY <2>1, FlashStays
<1>5. u.fl = 0 /\ (\A v \in Threads \ {t} : st[v].fl = 0) => Flash(Start)'
  <2> SUFFICES ASSUME u.fl = 0, \A v \in Threads \ {t} : st[v].fl = 0 PROVE Flash(Start)'
    OBVIOUS
  <2>1. st[t].fl = 0 /\ ~(st[t].fl > 0)
    OBVIOUS
  <2>2. \A v \in Threads : st[v].fl = 0
    BY <2>1
  <2>3. Flash(Start)
    BY <2>2 DEF BusAt
  <2> QED
    BY <2>1, <2>3, FlashStays
<1>6. /\ lock'["flash"][t] = u.fl /\ lock'["bus"][t] = u.bus
      /\ \A v \in Threads \ {t} :
           /\ todo'[v] = todo[v] /\ called'[v] = called[v]
           /\ lock'["flash"][v] = lock["flash"][v] /\ lock'["bus"][v] = lock["bus"][v]
  BY <1>1, <1>2
<1>7. Runs(t, called'[t], todo'[t], u, Start) /\ (todo'[t] # Nothing => called'[t] \in Calls)
  BY <1>1
<1>8. ~(u.bus = 0)
  OBVIOUS
<1> QED
  BY <1>3, <1>4, <1>5, <1>6, <1>7, <1>8, OneMoves

(* The types while the software's variables stay.                          *)
LEMMA TypesStay ==
  ASSUME BusTypes, NEW t \in Threads, NEW q, todo' = [todo EXCEPT ![t] = q],
         UNCHANGED <<called, calls, lock, addrMode, want, mem, chip, refused>>,
         device' \in {"none", "flash", "uic"}, dma' \in {"idle", "send", "receive", "done"},
         {dmaEvent, writeIrq, spiEnable, event, uicBusy}' \subseteq BOOLEAN,
         status' \in BOOLEAN \X BOOLEAN
  PROVE  BusTypes'
<1>1. DOMAIN todo' = Threads
  BY DEF BusTypes
<1> QED
  BY <1>1 DEF BusTypes

(* A step on the wires keeps the invariant when it leaves them right.      *)
LEMMA WorkDone ==
  ASSUME BusInv, NEW st, BusAt(st), NEW t \in Threads, NEW u, PlaceOK(u),
         st[t].bus > 0, u.bus = st[t].bus, u.fl = st[t].fl,
         NEW q, todo' = [todo EXCEPT ![t] = q], Runs(t, called[t], q, u, Start),
         called[t] \in Calls,
         UNCHANGED <<called, calls, lock, addrMode, want, mem, chip, refused>>,
         device' \in {"none", "flash", "uic"}, dma' \in {"idle", "send", "receive", "done"},
         {dmaEvent, writeIrq, spiEnable, event, uicBusy}' \subseteq BOOLEAN,
         status' \in BOOLEAN \X BOOLEAN,
         dma' \in {"send", "receive"} => ~dmaEvent',
         Wires(u)', u.fl > 0 => Flash(u)'
  PROVE  BusInv'
<1>1. BusTypes /\ ~refused
  BY DEF BusInv
<1>2. UNCHANGED <<called, lock>>
  OBVIOUS
<1>3. UNCHANGED <<chip, addrMode, want, mem>> \/ st[t].fl > 0
  OBVIOUS
<1>4. \E w : BusAt(w)'
  BY <1>1, <1>2, <1>3, Working
<1>5. BusTypes'
  BY <1>1, TypesStay
<1> QED
  BY <1>1, <1>4, <1>5 DEF BusInv

(* The steps of a transfer.                                                *)
LEMMA SelectStep == ASSUME BusInv, NEW t \in Threads, Bus!Select(t) PROVE BusInv'
<1>1. PICK st : BusAt(st)
  BY DEF BusInv
<1>2. BusTypes /\ ~refused /\ (dma \in {"send", "receive"} => ~dmaEvent)
  BY DEF BusInv
<1> DEFINE s == st[t]
           p == todo[t][1]
           c == called[t]
           q == Tail(todo[t])
<1>3. /\ Bus!Takes(t, "select") /\ device' = p[2] /\ got' = Nothing
      /\ todo' = [todo EXCEPT ![t] = q]
      /\ UNCHANGED <<called, calls, addrMode, want, lock, dma, dmaEvent, shift, writeIrq,
                     spiEnable, event, status, chip, mem, uicBusy, refused>>
  BY DEF Bus!Select, Bus!Done, Bus!Arg, Bus!Same, Bus!ext, Nothing
<1>4. PICK u : /\ Moves(t, c, s, p, u) /\ p[1] = "select" /\ Runs(t, c, q, u, Start)
               /\ c \in Calls /\ PlaceOK(s) /\ PlaceOK(u)
               /\ (s.bus > 0 => Wires(s)) /\ (s.fl > 0 => Flash(s))
  BY <1>1, <1>3, StepTaken
<1> HIDE DEF p, c, q
<1>5. p[2] \in {"flash", "uic"} /\ s.bus > 0 /\ s.dev = "none" /\ u = Talking(s, p[2], s.ph, <<>>)
  BY <1>4 DEF Moves, Locks, Selects, Deselects, Transfers, Learns, Others
<1>6. /\ u.fl = s.fl /\ u.bus = s.bus /\ u.dev = p[2] /\ u.ph = s.ph /\ u.told = <<>>
      /\ u.knows = s.knows /\ u.mode = s.mode /\ u.due = s.due /\ u.busy = s.busy
  BY <1>5, FieldsOf
<1>7. Wires(u)'
  <2>1. s.ph = "idle" /\ Signals(s) /\ (uicBusy => s.busy)
    BY <1>4, <1>5 DEF PlaceOK, Wires
  <2>2. Signals(u)'
    BY <1>3, <1>6, <2>1 DEF Signals
  <2>3. Said(u, Heard(u))'
    BY <1>3, <1>6, <2>1, SeqNone DEF Said, Heard, Nothing, Bus!Nothing
  <2> QED
    BY <1>3, <1>5, <1>6, <2>1, <2>2, <2>3 DEF Wires
<1>8. u.fl > 0 => Flash(u)'
  BY <1>3, <1>4, <1>6, FlashStays
<1>9. /\ device' \in {"none", "flash", "uic"} /\ dma' \in {"idle", "send", "receive", "done"}
      /\ {dmaEvent, writeIrq, spiEnable, event, uicBusy}' \subseteq BOOLEAN
      /\ status' \in BOOLEAN \X BOOLEAN
  BY <1>2, <1>3, <1>5 DEF BusTypes
<1>10. UNCHANGED <<called, calls, lock, addrMode, want, mem, chip, refused>>
       /\ (dma' \in {"send", "receive"} => ~dmaEvent')
  BY <1>2, <1>3
<1> HIDE DEF s
<1>11. Runs(t, called[t], q, u, Start) /\ called[t] \in Calls
  BY <1>4 DEF c
<1>12. st[t].bus > 0 /\ u.bus = st[t].bus /\ u.fl = st[t].fl
  BY <1>5, <1>6 DEF s
<1> QED
  BY <1>1, <1>3, <1>4, <1>7, <1>8, <1>9, <1>10, <1>11, <1>12, WorkDone

(* Sending and receiving.                                                  *)
LEMMA TransferStep ==
  ASSUME BusInv, NEW t \in Threads,
         \/ Bus!Clear(t) \/ Bus!Enable(t) \/ Bus!Send(t) \/ Bus!Receive(t) \/ Bus!DmaWait(t)
         \/ Bus!EventWait(t)
  PROVE  BusInv'
<1>1. PICK st : BusAt(st)
  BY DEF BusInv
<1>2. BusTypes /\ ~refused /\ (dma \in {"send", "receive"} => ~dmaEvent)
  BY DEF BusInv
<1> DEFINE s == st[t]
           p == todo[t][1]
           c == called[t]
           q == Tail(todo[t])
           ops == {"clear", "enable", "disable", "send", "receive", "dmaWait", "wait"}
<1>3. /\ todo' = [todo EXCEPT ![t] = q]
      /\ UNCHANGED <<called, calls, addrMode, want, lock, device, writeIrq, got, chip, mem,
                     uicBusy, refused>>
  BY DEF Bus!Clear, Bus!Enable, Bus!Send, Bus!Receive, Bus!DmaWait, Bus!EventWait,
         Bus!Done, Bus!Arg, Bus!Same, Bus!ext, Bus!hard
<1>4. PICK op \in ops : Bus!Takes(t, op)
  BY DEF Bus!Clear, Bus!Enable, Bus!Send, Bus!Receive, Bus!DmaWait, Bus!EventWait
<1>5. PICK u : /\ Moves(t, c, s, p, u) /\ p[1] = op /\ Runs(t, c, q, u, Start)
               /\ c \in Calls /\ PlaceOK(s) /\ PlaceOK(u)
               /\ (s.bus > 0 => Wires(s)) /\ (s.fl > 0 => Flash(s))
  BY <1>1, <1>4, StepTaken
<1>6. dma # "done" /\ ~(writeIrq /\ spiEnable)
  BY <1>4 DEF Bus!Takes
<1> HIDE DEF p, c, q
<1>7. Transfers(s, p, u)
  BY <1>5 DEF Moves, Locks, Selects, Deselects, Learns, Others
<1>8. /\ s.dev # "none" /\ s.bus > 0 /\ IsSeq(s.told)
      /\ s.ph \in {"idle", "cleared", "armed", "sent", "handed", "landed", "receiving", "read"}
  BY <1>5, <1>7 DEF Transfers, PlaceOK
<1>9. Wires(s)
  BY <1>5, <1>8
<1>10. /\ device = s.dev /\ Signals(s) /\ Said(s, Heard(s)) /\ (uicBusy => s.busy)
       /\ s.ph \in {"sent", "handed"} /\ s.dev = "uic" => ~s.busy
  BY <1>8, <1>9 DEF Wires
<1>11. Len(s.told) \in Nat
  BY <1>8, SeqFacts
<1>12. /\ u.fl = s.fl /\ u.bus = s.bus /\ u.dev = s.dev
       /\ u.knows = s.knows /\ u.mode = s.mode /\ u.due = s.due /\ u.busy = s.busy
  BY <1>7, FieldsOf DEF Transfers
<1>13. ASSUME NEW ph, u = Talking(s, s.dev, ph, s.told), Signals(u)', Heard(u)' = Heard(s),
              ph \in {"sent", "handed"} => s.ph \in {"sent", "handed"},
              ph \in {"receiving", "read"} /\ s.fl > 0 /\ s.dev = "flash" /\ ~status'[2] =>
                ~chip.wip /\ chip.wel = status'[1]
       PROVE  Wires(u)'
  <2>1. u.ph = ph /\ u.told = s.told
    BY <1>13, FieldsOf
  <2>2. PICK n : n = Heard(s)
    OBVIOUS
  <2>3. Said(s, n) /\ Heard(u)' = n
    BY <1>10, <1>13, <2>2
  <2>4. \A k : Sent(u.told[k])' = Sent(s.told[k])
    BY <1>3, <2>1 DEF Sent
  <2>5. Said(u, n)'
    BY <1>3, <2>3, <2>4 DEF Said
  <2> QED
    BY <1>3, <1>10, <1>12, <1>13, <2>1, <2>3, <2>5 DEF Wires
<1>14. Wires(u)' /\ dma' \in {"idle", "send", "receive", "done"}
       /\ {dmaEvent, writeIrq, spiEnable, event, uicBusy}' \subseteq BOOLEAN
       /\ status' \in BOOLEAN \X BOOLEAN /\ (dma' \in {"send", "receive"} => ~dmaEvent')
  <2>1. CASE Bus!Clear(t)
    <3>1. p[1] = "clear" /\ event' = FALSE
          /\ UNCHANGED <<dma, dmaEvent, shift, spiEnable, status>>
      BY <2>1 DEF Bus!Clear, Bus!Takes, p
    <3>2. u = Talking(s, s.dev, "cleared", s.told) /\ Still(s)
      BY <1>7, <3>1 DEF Transfers
    <3>3. u.ph = "cleared" /\ u.told = s.told
      BY <3>2, FieldsOf
    <3>4. Signals(u)'
      BY <1>3, <1>10, <3>1, <3>2, <3>3 DEF Signals, Still
    <3>5. Heard(u)' = Heard(s)
      BY <3>2, <3>3 DEF Heard, Still
    <3>6. Wires(u)'
      BY <1>13, <3>2, <3>4, <3>5
    <3> QED
      BY <1>2, <1>3, <3>1, <3>6 DEF BusTypes
  <2>2. CASE Bus!Enable(t)
    <3>1. /\ UNCHANGED <<dma, dmaEvent, shift, event, status>> /\ spiEnable' \in BOOLEAN
          /\ \/ p[1] = "enable" /\ spiEnable'
             \/ p[1] = "disable" /\ ~spiEnable'
      BY <2>2 DEF Bus!Enable, Bus!Takes, p
    <3>2. \/ u = Talking(s, s.dev, "armed", s.told) /\ s.ph = "cleared" /\ spiEnable'
          \/ u = Talking(s, s.dev, "idle", s.told) /\ s.ph = "landed" /\ ~spiEnable'
      BY <1>7, <3>1 DEF Transfers
    <3>3. u.ph = (IF s.ph = "cleared" THEN "armed" ELSE "idle") /\ u.told = s.told
      BY <3>2, FieldsOf
    <3>4. Signals(u)'
      BY <1>3, <1>10, <3>1, <3>2, <3>3 DEF Signals
    <3>5. Heard(u)' = Heard(s)
      BY <3>2, <3>3 DEF Heard
    <3>6. Wires(u)'
      BY <1>13, <3>2, <3>4, <3>5
    <3> QED
      BY <1>2, <1>3, <3>1, <3>6 DEF BusTypes
  <2>3. CASE Bus!Send(t)
    <3>1. /\ p[1] = "send" /\ dma' = "send" /\ dmaEvent' = FALSE /\ shift' = Sent(p[2])
          /\ UNCHANGED <<spiEnable, event, status>>
      BY <2>3 DEF Bus!Send, Bus!Takes, Bus!Arg, Sent, Widened, p
    <3>2. /\ u = Talking(s, s.dev, "sent", Append(s.told, p[2])) /\ s.ph = "armed"
          /\ (s.dev = "uic" => ~s.busy) /\ IsSeq(p[2]) /\ p[2] # <<>>
      BY <1>7, <3>1 DEF Transfers
    <3>3. u.ph = "sent" /\ u.told = Append(s.told, p[2])
      <4> DEFINE w == Append(s.told, p[2])
      <4>1. u = Talking(s, s.dev, "sent", w)
        BY <3>2
      <4> HIDE DEF w
      <4>2. u.ph = "sent" /\ u.told = w
        BY <4>1, FieldsOf
      <4> QED
        BY <4>2 DEF w
    <3>4. PICK n : n = Len(s.told)
      OBVIOUS
    <3>5. /\ n \in Nat /\ Len(u.told) = n + 1 /\ (n + 1) - 1 = n
          /\ \A k \in 1 .. n : u.told[k] = s.told[k]
          /\ u.told[n + 1] = p[2]
      BY <1>8, <3>3, <3>4, SeqAppend
    <3>6. shift' # Nothing
      <4> DEFINE x == p[2]
      <4>1. IsSeq(x) /\ x # <<>> /\ shift' = Sent(x)
        BY <3>1, <3>2
      <4> HIDE DEF x
      <4>2. Append(x, addrMode) # <<>>
        <5>1. Len(x) \in Nat /\ Len(Append(x, addrMode)) = Len(x) + 1
          BY <4>1, SeqAppend
        <5> QED
          BY <5>1
      <4> QED
        BY <4>1, <4>2 DEF Sent, Nothing, Bus!Nothing
    <3>7. \A x : Sent(x)' = Sent(x)
      BY <1>3 DEF Sent
    <3>8. Signals(u)'
      <4>1. shift' = Sent(u.told[Len(u.told)])'
        BY <3>1, <3>5, <3>7
      <4>2. spiEnable' /\ ~writeIrq' /\ ~event'
        BY <1>3, <1>10, <3>1, <3>2 DEF Signals
      <4> QED
        BY <3>1, <3>3, <3>6, <4>1, <4>2 DEF Signals
    <3>9. Said(u, Heard(u))'
      <4>1. Heard(u)' = n /\ Heard(s) = n
        BY <3>2, <3>3, <3>4, <3>5, <3>6 DEF Heard
      <4>2. Said(s, n)
        BY <1>10, <4>1
      <4>3. Said(u, n)'
        BY <1>3, <3>5, <3>7, <4>2 DEF Said
      <4> QED
        BY <4>1, <4>3
    <3>10. Wires(u)'
      BY <1>3, <1>10, <1>12, <3>2, <3>3, <3>8, <3>9 DEF Wires
    <3> QED
      BY <1>2, <1>3, <3>1, <3>10 DEF BusTypes
  <2>4. CASE Bus!Receive(t)
    <3>1. /\ p[1] = "receive" /\ dma' = "receive" /\ dmaEvent' = FALSE
          /\ status' = <<chip.wel, chip.wip>> /\ UNCHANGED <<shift, spiEnable, event>>
      BY <2>4 DEF Bus!Receive, Bus!Takes, p
    <3>2. u = Talking(s, s.dev, "receiving", s.told) /\ Still(s)
      BY <1>7, <3>1 DEF Transfers
    <3>3. u.ph = "receiving" /\ u.told = s.told
      BY <3>2, FieldsOf
    <3>4. Signals(u)'
      BY <1>3, <1>10, <3>1, <3>2, <3>3 DEF Signals, Still
    <3>5. Heard(u)' = Heard(s)
      BY <3>2, <3>3 DEF Heard, Still
    <3>6. chip.wel \in BOOLEAN /\ chip.wip \in BOOLEAN
      BY <1>2 DEF BusTypes
    <3>7. status'[1] = chip.wel /\ status'[2] = chip.wip /\ status' \in BOOLEAN \X BOOLEAN
      BY <3>1, <3>6
    <3>8. Wires(u)'
      BY <1>13, <3>2, <3>4, <3>5, <3>7
    <3> QED
      BY <1>2, <1>3, <3>1, <3>7, <3>8 DEF BusTypes
  <2>5. CASE Bus!DmaWait(t)
    <3>1. /\ p[1] = "dmaWait" /\ dma = "idle"
          /\ UNCHANGED <<dma, dmaEvent, shift, spiEnable, event, status>>
      BY <1>2, <1>6, <2>5 DEF Bus!DmaWait, Bus!Takes, Bus!hard, p, BusTypes
    <3>2. \/ u = Talking(s, s.dev, "handed", s.told) /\ s.ph = "sent"
          \/ u = Talking(s, s.dev, "read", s.told) /\ s.ph = "receiving"
      BY <1>7, <3>1 DEF Transfers
    <3>3. u.ph = (IF s.ph = "sent" THEN "handed" ELSE "read") /\ u.told = s.told
      BY <3>2, FieldsOf
    <3>4. \A x : Sent(x)' = Sent(x)
      BY <1>3 DEF Sent
    <3>5. Signals(u)'
      BY <1>3, <1>10, <3>1, <3>2, <3>3, <3>4 DEF Signals
    <3>6. Heard(u)' = Heard(s)
      BY <3>1, <3>2, <3>3 DEF Heard
    <3>7. u.ph \in {"receiving", "read"} /\ s.fl > 0 /\ s.dev = "flash" /\ ~status'[2] =>
            ~chip.wip /\ chip.wel = status'[1]
      BY <1>9, <3>1, <3>2, <3>3 DEF Wires
    <3>8. Wires(u)'
      BY <1>13, <3>2, <3>3, <3>5, <3>6, <3>7
    <3> QED
      BY <1>2, <1>3, <3>1, <3>8 DEF BusTypes
  <2>6. CASE Bus!EventWait(t)
    <3>1. /\ p[1] = "wait" /\ event
          /\ UNCHANGED <<dma, dmaEvent, shift, spiEnable, event, status>>
      BY <2>6 DEF Bus!EventWait, Bus!Takes, Bus!hard, p
    <3>2. u = Talking(s, s.dev, "landed", s.told) /\ s.ph = "handed"
      BY <1>7, <3>1 DEF Transfers
    <3>3. u.ph = "landed" /\ u.told = s.told
      BY <3>2, FieldsOf
    <3>4. shift = Nothing /\ ~writeIrq /\ dma = "idle" /\ spiEnable
      BY <1>10, <3>1, <3>2 DEF Signals
    <3>5. Signals(u)'
      BY <1>3, <3>1, <3>3, <3>4 DEF Signals
    <3>6. Heard(u)' = Heard(s)
      BY <3>2, <3>3, <3>4 DEF Heard
    <3>7. Wires(u)'
      BY <1>13, <3>2, <3>5, <3>6
    <3> QED
      BY <1>2, <1>3, <3>1, <3>7 DEF BusTypes
  <2> QED
    BY <2>1, <2>2, <2>3, <2>4, <2>5, <2>6
<1>15. u.fl > 0 => Flash(u)'
  BY <1>3, <1>5, <1>12, FlashStays
<1>16. device' \in {"none", "flash", "uic"}
  BY <1>2, <1>3 DEF BusTypes
<1>17. UNCHANGED <<called, calls, lock, addrMode, want, mem, chip, refused>>
  BY <1>3
<1>18. st[t].bus > 0 /\ u.bus = st[t].bus /\ u.fl = st[t].fl
  BY <1>8, <1>12
<1> HIDE DEF s
<1>19. Runs(t, called[t], q, u, Start) /\ called[t] \in Calls
  BY <1>5 DEF c
<1> QED
  BY <1>1, <1>3, <1>5, <1>14, <1>15, <1>16, <1>17, <1>18, <1>19, WorkDone

(* Reading the status until it is as it should be.                         *)
LEMMA PollStep == ASSUME BusInv, NEW t \in Threads, Bus!Poll(t) PROVE BusInv'
<1>1. PICK st : BusAt(st)
  BY DEF BusInv
<1>2. BusTypes /\ (dma \in {"send", "receive"} => ~dmaEvent)
  BY DEF BusInv
<1> DEFINE s == st[t]
           p == todo[t][1]
           c == called[t]
           r == Tail(todo[t])
           e == <<"test", p[2]>>
           q == Bus!SPI_Read \o <<e>> \o r
<1>3. /\ Bus!Takes(t, "poll") /\ todo' = [todo EXCEPT ![t] = q]
      /\ UNCHANGED <<called, calls, addrMode, want, lock, device, dma, dmaEvent, shift, writeIrq,
                     spiEnable, event, got, status, chip, mem, uicBusy, refused>>
  BY DEF Bus!Poll, Bus!Arg, Bus!Same, Bus!hard, Bus!ext
<1>4. PICK u : /\ Moves(t, c, s, p, u) /\ p[1] = "poll" /\ Runs(t, c, r, u, Start)
               /\ c \in Calls /\ PlaceOK(s) /\ PlaceOK(u)
               /\ (s.bus > 0 => Wires(s)) /\ (s.fl > 0 => Flash(s))
  BY <1>1, <1>3, StepTaken
<1> HIDE DEF p, c, r
<1>5. Learns(s, p, u)
  BY <1>4 DEF Moves, Locks, Selects, Deselects, Transfers, Others
<1>6. s.dev = "flash" /\ s.fl > 0 /\ s.ph \in {"idle", "read"} /\ s.bus > 0
  BY <1>4, <1>5 DEF Learns, Still, PlaceOK
<1> DEFINE m == Talking(s, s.dev, "read", s.told)
<1>7. Runs(t, c, Bus!SPI_Read, s, m)
  <2>1. s = Place(s.fl, s.bus, s.dev, s.ph, s.told, s.knows, s.mode, s.due, s.busy)
    BY <1>4 DEF PlaceOK
  <2>2. m = Place(s.fl, s.bus, s.dev, "read", s.told, s.knows, s.mode, s.due, s.busy)
    BY DEF Talking
  <2> DEFINE d == s.dev
  <2>3. d # "none"
    BY <1>6
  <2> HIDE DEF d, m
  <2>4. Runs(t, c, Bus!SPI_Read, Place(s.fl, s.bus, d, s.ph, s.told, s.knows, s.mode, s.due, s.busy),
             Place(s.fl, s.bus, d, "read", s.told, s.knows, s.mode, s.due, s.busy))
    BY <1>6, <2>3, RunRead
  <2> QED
    BY <2>1, <2>2, <2>4 DEF d
<1>8. Moves(t, c, m, e, u)
  <2>1. /\ m = Place(m.fl, m.bus, m.dev, m.ph, m.told, m.knows, m.mode, m.due, m.busy)
        /\ m.fl = s.fl /\ m.bus = s.bus /\ m.dev = s.dev /\ m.ph = "read" /\ m.told = s.told
        /\ m.knows = s.knows /\ m.mode = s.mode /\ m.due = s.due /\ m.busy = s.busy
    BY FieldsOf
  <2>2. e[1] = "test" /\ e[2] = p[2]
    OBVIOUS
  <2>3. PICK wel \in BOOLEAN : /\ p[2] = <<wel, FALSE>>
                               /\ u = Knowing(m, IF wel THEN "ready" ELSE "idle", s.mode, s.due)
    BY <1>5 DEF Learns
  <2> HIDE DEF m, e
  <2>4. Talking(m, m.dev, "read", m.told) = m
    BY <2>1 DEF Talking
  <2>5. Learns(m, e, u)
    BY <1>6, <2>1, <2>2, <2>3, <2>4 DEF Learns
  <2> QED
    BY <2>5 DEF Moves
<1>9. Runs(t, c, q, s, Start)
  <2> HIDE DEF m, e
  <2>1. Runs(t, c, <<e>>, m, u)
    BY <1>8, RunsOne
  <2> QED
    BY <1>4, <1>7, <2>1, RunsThree
<1> HIDE DEF q, m
<1>10. Wires(s)'
  BY <1>3, <1>4, <1>6, WiresStay
<1>11. s.fl > 0 => Flash(s)'
  BY <1>3, <1>4, FlashStays
<1>12. /\ device' \in {"none", "flash", "uic"} /\ dma' \in {"idle", "send", "receive", "done"}
       /\ {dmaEvent, writeIrq, spiEnable, event, uicBusy}' \subseteq BOOLEAN
       /\ status' \in BOOLEAN \X BOOLEAN
  BY <1>2, <1>3 DEF BusTypes
<1>13. UNCHANGED <<called, calls, lock, addrMode, want, mem, chip, refused>>
       /\ (dma' \in {"send", "receive"} => ~dmaEvent')
  BY <1>2, <1>3
<1>14. Runs(t, called[t], q, st[t], Start) /\ called[t] \in Calls
  BY <1>4, <1>9 DEF c
<1>15. st[t].bus > 0 /\ PlaceOK(st[t]) /\ Wires(st[t])' /\ (st[t].fl > 0 => Flash(st[t])')
  BY <1>4, <1>6, <1>10, <1>11
<1> HIDE DEF s
<1> QED
  BY <1>1, <1>3, <1>12, <1>13, <1>14, <1>15, WorkDone

(* Reading the status once.                                                *)
LEMMA TestStep == ASSUME BusInv, NEW t \in Threads, Bus!Test(t) PROVE BusInv'
<1>1. PICK st : BusAt(st)
  BY DEF BusInv
<1>2. BusTypes /\ (dma \in {"send", "receive"} => ~dmaEvent)
  BY DEF BusInv
<1> DEFINE s == st[t]
           p == todo[t][1]
           c == called[t]
           r == Tail(todo[t])
           e == <<"poll", p[2]>>
           q == (IF status = p[2] THEN <<>> ELSE <<e>>) \o r
<1>3. /\ Bus!Takes(t, "test") /\ todo' = [todo EXCEPT ![t] = q]
      /\ UNCHANGED <<called, calls, addrMode, want, lock, device, dma, dmaEvent, shift, writeIrq,
                     spiEnable, event, got, status, chip, mem, uicBusy, refused>>
  BY DEF Bus!Test, Bus!Arg, Bus!Same, Bus!hard, Bus!ext
<1>4. PICK u : /\ Moves(t, c, s, p, u) /\ p[1] = "test" /\ Runs(t, c, r, u, Start)
               /\ c \in Calls /\ PlaceOK(s) /\ PlaceOK(u)
               /\ (s.bus > 0 => Wires(s)) /\ (s.fl > 0 => Flash(s))
  BY <1>1, <1>3, StepTaken
<1> HIDE DEF p, c, r
<1>5. Learns(s, p, u)
  BY <1>4 DEF Moves, Locks, Selects, Deselects, Transfers, Others
<1>6. s.dev = "flash" /\ s.fl > 0 /\ s.ph = "read" /\ s.bus > 0 /\ Wires(s) /\ Flash(s)
  BY <1>4, <1>5 DEF Learns, PlaceOK
<1>7. PICK wel \in BOOLEAN :
        /\ p[2] = <<wel, FALSE>>
        /\ u = Knowing(Talking(s, s.dev, "read", s.told), IF wel THEN "ready" ELSE "idle", s.mode, s.due)
  BY <1>5 DEF Learns
<1>8. ASSUME NEW w, PlaceOK(w), w.bus = s.bus, w.fl = s.fl, w.dev = s.dev, w.ph = s.ph,
             w.told = s.told, w.busy = s.busy, Runs(t, c, q, w, Start), Flash(w)'
      PROVE  BusInv'
  <2> HIDE DEF q
  <2>1. w.fl > 0 => s.fl > 0 \/ s.dev = "none"
    BY <1>8
  <2>2. Wires(w)'
    BY <1>3, <1>4, <1>6, <1>8, <2>1, WiresStay
  <2>3. /\ device' \in {"none", "flash", "uic"} /\ dma' \in {"idle", "send", "receive", "done"}
        /\ {dmaEvent, writeIrq, spiEnable, event, uicBusy}' \subseteq BOOLEAN
        /\ status' \in BOOLEAN \X BOOLEAN
    BY <1>2, <1>3 DEF BusTypes
  <2>4. UNCHANGED <<called, calls, lock, addrMode, want, mem, chip, refused>>
        /\ (dma' \in {"send", "receive"} => ~dmaEvent')
    BY <1>2, <1>3
  <2>5. Runs(t, called[t], q, w, Start) /\ called[t] \in Calls
    BY <1>4, <1>8 DEF c
  <2>6. st[t].bus > 0 /\ w.bus = st[t].bus /\ w.fl = st[t].fl /\ (w.fl > 0 => Flash(w)')
    BY <1>6, <1>8
  <2> HIDE DEF s
  <2> QED
    BY <1>1, <1>3, <1>8, <2>2, <2>3, <2>4, <2>5, <2>6, WorkDone
<1>9. CASE status = p[2]
  <2>1. IsSeq(r)
    BY <1>4 DEF Runs
  <2>2. q = r
    <3>1. PICK S : r \in Seq(S)
      BY <2>1 DEF IsSeq
    <3>2. <<>> \o r = r
      BY <3>1, ConcatEmptySeq
    <3> QED
      BY <1>9, <3>2
  <2> DEFINE h == Talking(s, s.dev, "read", s.told)
             k == IF wel THEN "ready" ELSE "idle"
  <2>3. /\ h.fl = s.fl /\ h.bus = s.bus /\ h.dev = s.dev /\ h.ph = "read" /\ h.told = s.told
        /\ h.busy = s.busy
    BY FieldsOf
  <2>4. u = Knowing(h, k, s.mode, s.due)
    BY <1>7
  <2> HIDE DEF h, k
  <2>5. /\ u.fl = s.fl /\ u.bus = s.bus /\ u.dev = s.dev /\ u.ph = s.ph /\ u.told = s.told
        /\ u.busy = s.busy /\ u.knows = k /\ u.mode = s.mode /\ u.due = s.due
    BY <1>6, <2>3, <2>4, FieldsOf
  <2>6. status[1] = wel /\ ~status[2]
    BY <1>7, <1>9
  <2>7. ~chip.wip /\ chip.wel = wel
    BY <1>6, <2>6 DEF Wires
  <2>8. Flash(u)'
    <3>1. (k \in {"idle", "ready"} => ~chip.wip) /\ (k = "ready" => chip.wel)
      BY <2>7 DEF k
    <3> QED
      BY <1>3, <1>6, <2>5, <3>1 DEF Flash
  <2> HIDE DEF q
  <2> QED
    BY <1>4, <1>8, <2>2, <2>5, <2>8
<1>10. CASE status # p[2]
  <2>1. q = <<e>> \o r
    BY <1>10
  <2>2. Learns(s, e, u)
    <3>1. e[1] = "poll" /\ e[2] = p[2]
      OBVIOUS
    <3> HIDE DEF e
    <3> QED
      BY <1>5, <1>6, <3>1 DEF Learns, Still
  <2> HIDE DEF q, e
  <2>3. Runs(t, c, <<e>>, s, u)
    BY <2>2, RunsOne DEF Moves
  <2>4. Runs(t, c, q, s, Start)
    BY <1>4, <2>1, <2>3, RunsJoin
  <2>5. Flash(s)'
    BY <1>3, <1>6, FlashStays
  <2> QED
    BY <1>4, <1>8, <2>4, <2>5
<1> QED
  BY <1>9, <1>10

(* Sleeping until the EEPROM is done.                                      *)
LEMMA SleepStep == ASSUME BusInv, NEW t \in Threads, Bus!Sleep(t) PROVE BusInv'
<1>1. PICK st : BusAt(st)
  BY DEF BusInv
<1>2. BusTypes /\ (dma \in {"send", "receive"} => ~dmaEvent)
  BY DEF BusInv
<1> DEFINE s == st[t]
           p == todo[t][1]
           c == called[t]
           q == Tail(todo[t])
<1>3. /\ Bus!Takes(t, "sleep") /\ ~uicBusy /\ todo' = [todo EXCEPT ![t] = q]
      /\ UNCHANGED <<called, calls, addrMode, want, lock, device, dma, dmaEvent, shift, writeIrq,
                     spiEnable, event, got, status, chip, mem, uicBusy, refused>>
  BY DEF Bus!Sleep, Bus!Done, Bus!Same, Bus!hard, Bus!ext
<1>4. PICK u : /\ Moves(t, c, s, p, u) /\ p[1] = "sleep" /\ Runs(t, c, q, u, Start)
               /\ c \in Calls /\ PlaceOK(s) /\ PlaceOK(u)
               /\ (s.bus > 0 => Wires(s)) /\ (s.fl > 0 => Flash(s))
  BY <1>1, <1>3, StepTaken
<1> HIDE DEF p, c, q
<1>5. s.bus > 0 /\ s.dev = "none" /\ u = Writing(s, FALSE)
  BY <1>4 DEF Moves, Locks, Selects, Deselects, Transfers, Learns, Others
<1>6. /\ u.fl = s.fl /\ u.bus = s.bus /\ u.dev = s.dev /\ u.ph = s.ph /\ u.told = s.told
      /\ u.knows = s.knows /\ u.mode = s.mode /\ u.due = s.due
  <2> DEFINE b == FALSE
  <2>1. u = Writing(s, b)
    BY <1>5
  <2> HIDE DEF b
  <2> QED
    BY <2>1, FieldsOf
<1>7. Wires(u)'
  <2>1. s.ph = "idle" /\ Signals(s) /\ device = s.dev
    BY <1>4, <1>5 DEF PlaceOK, Wires
  <2>2. Signals(u)'
    BY <1>3, <1>6, <2>1 DEF Signals
  <2> QED
    BY <1>3, <1>5, <1>6, <2>1, <2>2 DEF Wires
<1>8. u.fl > 0 => Flash(u)'
  BY <1>3, <1>4, <1>6, FlashStays
<1>9. /\ device' \in {"none", "flash", "uic"} /\ dma' \in {"idle", "send", "receive", "done"}
      /\ {dmaEvent, writeIrq, spiEnable, event, uicBusy}' \subseteq BOOLEAN
      /\ status' \in BOOLEAN \X BOOLEAN
  BY <1>2, <1>3 DEF BusTypes
<1>10. UNCHANGED <<called, calls, lock, addrMode, want, mem, chip, refused>>
       /\ (dma' \in {"send", "receive"} => ~dmaEvent')
  BY <1>2, <1>3
<1>11. st[t].bus > 0 /\ u.bus = st[t].bus /\ u.fl = st[t].fl
  BY <1>5, <1>6
<1> HIDE DEF s
<1>12. Runs(t, called[t], q, u, Start) /\ called[t] \in Calls
  BY <1>4 DEF c
<1> QED
  BY <1>1, <1>3, <1>4, <1>7, <1>8, <1>9, <1>10, <1>11, <1>12, WorkDone

(* What a call writes, put over what was there.                            *)
LEMMA EffectRight ==
  ASSUME BusTypes, NEW t \in Threads, called[t] \in Calls
  PROVE  /\ DOMAIN Bus!Effect(t) = Bus!Addresses
         /\ Bus!Effect(t) = [x \in Bus!Addresses |-> Bus!Effect(t)[x]]
         /\ \A x \in Bus!Addresses :
              Bus!Effect(t)[x] = IF x \in DOMAIN DueOf(t, called[t]) THEN DueOf(t, called[t])[x]
                                 ELSE want[x]
<1> DEFINE c == called[t]
<1>1. CASE c[1] = "write"
  <2>1. Bus!Effect(t) = [a \in Bus!Addresses |-> IF a \in c[2] .. c[2] + c[3] - 1
                                              THEN <<t, a - c[2] + 1>> ELSE want[a]]
    BY <1>1 DEF Bus!Effect
  <2>2. DueOf(t, c) = [x \in c[2] .. c[2] + c[3] - 1 |-> <<t, x - c[2] + 1>>]
    BY <1>1 DEF DueOf
  <2> HIDE DEF c
  <2> DEFINE e == Bus!Effect(t)
             d == DueOf(t, c)
  <2>3. e = [a \in Bus!Addresses |-> IF a \in c[2] .. c[2] + c[3] - 1
                                              THEN <<t, a - c[2] + 1>> ELSE want[a]]
    BY <2>1
  <2>4. d = [x \in c[2] .. c[2] + c[3] - 1 |-> <<t, x - c[2] + 1>>]
    BY <2>2
  <2> HIDE DEF e, d
  <2>5. DOMAIN e = Bus!Addresses /\ e = [x \in Bus!Addresses |-> e[x]]
    BY <2>3
  <2>6. \A x \in Bus!Addresses : e[x] = IF x \in DOMAIN d THEN d[x] ELSE want[x]
    BY <2>3, <2>4
  <2> QED
    BY <2>5, <2>6 DEF e, d, c
<1>2. CASE c[1] = "erase"
  <2> DEFINE e == Bus!Effect(t)
             d == DueOf(t, c)
  <2>1. e = [a \in Bus!Addresses |-> Nothing]
    BY <1>2 DEF Bus!Effect, Nothing
  <2>2. d = [x \in Bus!Addresses |-> Nothing]
    BY <1>2 DEF DueOf
  <2> HIDE DEF e, d, c
  <2>3. DOMAIN e = Bus!Addresses /\ e = [x \in Bus!Addresses |-> e[x]]
    BY <2>1
  <2>4. \A x \in Bus!Addresses : e[x] = IF x \in DOMAIN d THEN d[x] ELSE want[x]
    BY <2>1, <2>2
  <2> QED
    BY <2>3, <2>4 DEF e, d, c
<1>3. CASE c[1] # "write" /\ c[1] # "erase"
  <2>1. Bus!Effect(t) = want
    BY <1>3 DEF Bus!Effect
  <2>2. DOMAIN DueOf(t, c) = {}
    BY <1>3 DEF DueOf, NoneDue
  <2> HIDE DEF c
  <2> QED
    BY <2>1, <2>2 DEF BusTypes, c
<1> QED
  BY <1>1, <1>2, <1>3

(* Taking or giving back a mutex: t holds m n times after it, and is at u.  *)
Relocks(st, t, u, q, m, n) ==
  /\ BusAt(st) /\ t \in Threads /\ PlaceOK(u) /\ called[t] \in Calls
  /\ todo' = [todo EXCEPT ![t] = q] /\ Runs(t, called[t], q, u, Start)
  /\ m \in {"flash", "bus"} /\ n \in 0 .. 3 /\ lock' = [lock EXCEPT ![m][t] = n]
  /\ n > lock[m][t] => \A v \in Threads \ {t} : lock[m][v] = 0
  /\ u.fl = IF m = "flash" THEN n ELSE st[t].fl
  /\ u.bus = IF m = "bus" THEN n ELSE st[t].bus
  /\ UNCHANGED <<called, calls, addrMode, device, dma, dmaEvent, shift, writeIrq, spiEnable,
                 event, got, status, chip, mem, uicBusy, refused>>
  /\ UNCHANGED want \/ (m = "flash" /\ n > lock[m][t])
  /\ DOMAIN want' = Bus!Addresses /\ want' = [x \in Bus!Addresses |-> want'[x]]
  /\ u.bus > 0 => Wires(u)'
  /\ u.fl > 0 => Flash(u)'
  /\ m = "bus" /\ n = 0 => Wires(Start)'
  /\ m = "flash" /\ n = 0 => Flash(Start)'

(* Such a step keeps the invariant.                                        *)
LEMMA LockDone ==
  ASSUME BusInv, NEW st, NEW t, NEW u, NEW q, NEW m, NEW n, Relocks(st, t, u, q, m, n)
  PROVE  BusInv'
<1> USE DEF Relocks
<1>1. BusTypes /\ ~refused /\ (dma \in {"send", "receive"} => ~dmaEvent)
  BY DEF BusInv
<1>2. todo'[t] = q /\ DOMAIN todo' = Threads /\ \A v \in Threads \ {t} : todo'[v] = todo[v]
  BY <1>1 DEF BusTypes
<1>3. /\ \A v \in Threads \ {t} : PlaceOK(st[v])
      /\ \A v \in Threads : /\ st[v].fl = lock["flash"][v] /\ st[v].bus = lock["bus"][v]
                            /\ st[v].fl \in 0 .. 3 /\ st[v].bus \in 0 .. 3
  BY <1>1, Alone
<1>4. lock \in [{"flash", "bus"} -> [Threads -> 0 .. 3]]
      /\ \A k \in {"flash", "bus"} : \A v, w \in Threads : lock[k][v] = 0 \/ lock[k][w] = 0 \/ v = w
  BY <1>1 DEF BusTypes, Bus!Mutexes
<1>5. /\ lock' \in [{"flash", "bus"} -> [Threads -> 0 .. 3]]
      /\ lock'[m][t] = n
      /\ \A v \in Threads \ {t} : lock'[m][v] = lock[m][v]
      /\ \A k \in {"flash", "bus"} \ {m} : \A v \in Threads : lock'[k][v] = lock[k][v]
  BY <1>4
<1>6. \A k \in {"flash", "bus"} : \A v, w \in Threads : lock'[k][v] = 0 \/ lock'[k][w] = 0 \/ v = w
  <2> SUFFICES ASSUME NEW k \in {"flash", "bus"}, NEW v \in Threads, NEW w \in Threads, v # w
               PROVE  lock'[k][v] = 0 \/ lock'[k][w] = 0
    OBVIOUS
  <2>1. CASE k # m
    BY <1>4, <1>5, <2>1
  <2>2. CASE k = m /\ n > lock[m][t]
    BY <1>5, <2>2
  <2>3. CASE k = m /\ ~(n > lock[m][t])
    <3>1. lock[m][t] \in 0 .. 3 /\ (lock[m][t] = 0 => n = 0)
      BY <1>4, <2>3
    <3> QED
      BY <1>4, <1>5, <2>3, <3>1
  <2> QED
    BY <2>1, <2>2, <2>3
<1>7. BusTypes'
  BY <1>1, <1>2, <1>5, <1>6 DEF BusTypes, Bus!Mutexes
<1>8. /\ lock'["flash"][t] = u.fl /\ lock'["bus"][t] = u.bus
      /\ \A v \in Threads \ {t} :
           /\ todo'[v] = todo[v] /\ called'[v] = called[v]
           /\ lock'["flash"][v] = lock["flash"][v] /\ lock'["bus"][v] = lock["bus"][v]
  <2>1. CASE m = "flash"
    BY <1>2, <1>3, <1>5, <2>1
  <2>2. CASE m = "bus"
    BY <1>2, <1>3, <1>5, <2>2
  <2> QED
    BY <2>1, <2>2
<1> HIDE DEF Start
<1>9. ASSUME NEW v \in Threads \ {t}, st[v].bus > 0 PROVE Wires(st[v])'
  <2>1. Wires(st[v]) /\ PlaceOK(st[v])
    BY <1>3, <1>9 DEF BusAt
  <2> DEFINE w == st[v]
  <2>2. UNCHANGED addrMode
    OBVIOUS
  <2> HIDE DEF w
  <2>3. Wires(w) /\ PlaceOK(w)
    BY <2>1 DEF w
  <2>4. Wires(w)'
    BY <2>2, <2>3, WiresStay
  <2> QED
    BY <2>4 DEF w
<1>10. ASSUME NEW v \in Threads \ {t}, st[v].fl > 0 PROVE Flash(st[v])'
  <2>1. Flash(st[v])
    BY <1>10 DEF BusAt
  <2>2. ~(m = "flash" /\ n > lock[m][t])
    BY <1>3, <1>10
  <2> QED
    BY <2>1, <2>2, FlashStays
<1>11. u.bus = 0 /\ (\A v \in Threads \ {t} : st[v].bus = 0) => Wires(Start)'
  <2> SUFFICES ASSUME u.bus = 0, \A v \in Threads \ {t} : st[v].bus = 0, m = "flash" PROVE Wires(Start)'
    OBVIOUS
  <2>1. \A v \in Threads : st[v].bus = 0
    OBVIOUS
  <2>2. Wires(Start) /\ PlaceOK(Start)
    BY <2>1, StartPlace DEF BusAt
  <2>3. UNCHANGED addrMode
    OBVIOUS
  <2> QED
    BY <2>2, <2>3, WiresStay
<1>12. u.fl = 0 /\ (\A v \in Threads \ {t} : st[v].fl = 0) => Flash(Start)'
  <2> SUFFICES ASSUME u.fl = 0, \A v \in Threads \ {t} : st[v].fl = 0, m = "bus" PROVE Flash(Start)'
    OBVIOUS
  <2>1. \A v \in Threads : st[v].fl = 0
    OBVIOUS
  <2>2. Flash(Start)
    BY <2>1 DEF BusAt
  <2> QED
    BY <2>2, FlashStays
<1>13. Runs(t, called'[t], todo'[t], u, Start) /\ (todo'[t] # Nothing => called'[t] \in Calls)
  BY <1>2
<1>14. \E w : BusAt(w)'
  BY <1>8, <1>9, <1>10, <1>11, <1>12, <1>13, OneMoves
<1> QED
  BY <1>1, <1>7, <1>14 DEF BusInv

(* The mutexes.                                                            *)
LEMMA AcquireStep == ASSUME BusInv, NEW t \in Threads, Bus!AcquireMutex(t) PROVE BusInv'
<1>1. PICK st : BusAt(st)
  BY DEF BusInv
<1>2. BusTypes
  BY DEF BusInv
<1> DEFINE s == st[t]
           p == todo[t][1]
           c == called[t]
           q == Tail(todo[t])
<1>3. /\ Bus!Takes(t, "acquire") /\ todo' = [todo EXCEPT ![t] = q]
      /\ \A v \in Threads \ {t} : lock[p[2]][v] = 0
      /\ lock' = [lock EXCEPT ![p[2]][t] = @ + 1]
      /\ want' = IF p[2] = "flash" /\ lock["flash"][t] = 0 THEN Bus!Effect(t) ELSE want
      /\ UNCHANGED <<called, calls, addrMode, device, dma, dmaEvent, shift, writeIrq, spiEnable,
                     event, got, status, chip, mem, uicBusy, refused>>
  BY DEF Bus!AcquireMutex, Bus!Arg, Bus!Done, Bus!hard, Bus!ext
<1>4. PICK u : /\ Moves(t, c, s, p, u) /\ p[1] = "acquire" /\ Runs(t, c, q, u, Start)
               /\ c \in Calls /\ PlaceOK(s) /\ PlaceOK(u)
               /\ (s.bus > 0 => Wires(s)) /\ (s.fl > 0 => Flash(s))
  BY <1>1, <1>3, StepTaken
<1>5. Bus!Effect(t) = [x \in Bus!Addresses |-> Bus!Effect(t)[x]] /\ DOMAIN Bus!Effect(t) = Bus!Addresses
  BY <1>2, <1>4, EffectRight
<1>6. \A x \in Bus!Addresses :
        Bus!Effect(t)[x] = IF x \in DOMAIN DueOf(t, c) THEN DueOf(t, c)[x] ELSE want[x]
  BY <1>2, <1>4, EffectRight
<1> HIDE DEF p, c, q
<1>7. Locks(t, c, s, p, u)
  BY <1>4 DEF Moves, Selects, Deselects, Transfers, Learns, Others
<1>8. /\ s.fl = lock["flash"][t] /\ s.bus = lock["bus"][t] /\ s.fl \in 0 .. 3 /\ s.bus \in 0 .. 3
  BY <1>1, <1>2, Alone
<1>9. DOMAIN want = Bus!Addresses /\ want = [x \in Bus!Addresses |-> want[x]]
      /\ lock \in [{"flash", "bus"} -> [Threads -> 0 .. 3]]
  BY <1>2 DEF BusTypes, Bus!Mutexes
<1>10. Runs(t, called[t], q, u, Start) /\ called[t] \in Calls
  BY <1>4 DEF c
<1>11. CASE p[2] = "flash" /\ s.fl = 0
  <2>1. u = Knowing(Holding(s, 1, s.bus), "any", Agreed, DueOf(t, c)) /\ s.dev = "none"
    BY <1>4, <1>7, <1>11 DEF Locks
  <2>2. /\ u.fl = 1 /\ u.bus = s.bus /\ u.dev = s.dev /\ u.ph = s.ph /\ u.told = s.told
        /\ u.knows = "any" /\ u.mode = Agreed /\ u.due = DueOf(t, c) /\ u.busy = s.busy
    <3> DEFINE h == Holding(s, 1, s.bus)
               d == DueOf(t, c)
               k == "any"
               a == Agreed
    <3>1. h.fl = 1 /\ h.bus = s.bus /\ h.dev = s.dev /\ h.ph = s.ph /\ h.told = s.told
          /\ h.busy = s.busy
      <4> DEFINE n == 1
      <4> HIDE DEF n
      <4>1. LET w == Holding(s, n, s.bus) IN
              w.fl = n /\ w.bus = s.bus /\ w.dev = s.dev /\ w.ph = s.ph /\ w.told = s.told
              /\ w.busy = s.busy
        BY FieldsOf
      <4> QED
        BY <4>1 DEF n
    <3>2. u = Knowing(h, k, a, d)
      BY <2>1
    <3> HIDE DEF h, d, k, a
    <3>3. u.fl = h.fl /\ u.bus = h.bus /\ u.dev = h.dev /\ u.ph = h.ph /\ u.told = h.told
          /\ u.busy = h.busy /\ u.knows = k /\ u.mode = a /\ u.due = d
      BY <3>2, FieldsOf
    <3> QED
      BY <3>1, <3>3 DEF d, k, a
  <2>3. Flash(Start)
    <3>1. \A v \in Threads : st[v].fl = 0
      <4>1. \A v \in Threads : st[v].fl = lock["flash"][v]
        BY <1>1, <1>2, Alone
      <4> QED
        BY <1>3, <1>8, <1>11, <4>1
    <3> QED
      BY <1>1, <3>1 DEF BusAt
  <2>4. want' = Bus!Effect(t)
    BY <1>3, <1>8, <1>11
  <2>5. Flash(u)'
    <3>1. \A x \in Bus!Addresses : want[x] = mem[x]
      BY <2>3, StartPlace DEF Flash, NoneDue
    <3>2. chip.mode = addrMode
      BY <2>3, StartPlace DEF Flash
    <3>3. \A x \in Bus!Addresses : want'[x] = IF x \in DOMAIN u.due THEN u.due[x] ELSE mem'[x]
      BY <1>3, <1>6, <2>2, <2>4, <3>1
    <3> QED
      BY <1>3, <2>2, <3>2, <3>3 DEF Flash
  <2>6. u.bus > 0 => Wires(u)'
    <3> SUFFICES ASSUME u.bus > 0 PROVE Wires(u)'
      OBVIOUS
    <3>1. Wires(s) /\ UNCHANGED addrMode
      BY <1>3, <1>4, <2>2
    <3> HIDE DEF s
    <3> QED
      BY <1>3, <1>4, <2>1, <2>2, <3>1, WiresStay
  <2> DEFINE m == "flash"
             n == 1
  <2>7. /\ m \in {"flash", "bus"} /\ n \in 0 .. 3 /\ lock' = [lock EXCEPT ![m][t] = n]
        /\ (n > lock[m][t] => \A v \in Threads \ {t} : lock[m][v] = 0)
        /\ u.fl = (IF m = "flash" THEN n ELSE st[t].fl)
        /\ u.bus = (IF m = "bus" THEN n ELSE st[t].bus)
        /\ (UNCHANGED want \/ (m = "flash" /\ n > lock[m][t]))
        /\ ~(n = 0)
    <3>1. lock' = [lock EXCEPT !["flash"][t] = 1] /\ lock["flash"][t] = 0
      BY <1>3, <1>8, <1>11
    <3>2. \A v \in Threads \ {t} : lock["flash"][v] = 0
      BY <1>3, <1>11
    <3> QED
      BY <1>8, <2>2, <3>1, <3>2
  <2>8. DOMAIN want' = Bus!Addresses /\ want' = [x \in Bus!Addresses |-> want'[x]]
    BY <1>5, <2>4
  <2> HIDE DEF m, n, s
  <2>9. (m = "bus" /\ n = 0 => Wires(Start)') /\ (m = "flash" /\ n = 0 => Flash(Start)')
    BY <2>7
  <2>10. u.fl > 0 => Flash(u)'
    BY <2>5
  <2>12. Relocks(st, t, u, q, m, n)
    BY <1>1, <1>3, <1>4, <1>10, <2>6, <2>7, <2>8, <2>9, <2>10 DEF Relocks
  <2> QED
    BY <2>12, LockDone
<1>12. CASE ~(p[2] = "flash" /\ s.fl = 0)
  <2>1. UNCHANGED want
    BY <1>3, <1>8, <1>12
  <2> DEFINE m == p[2]
             n == lock[m][t] + 1
  <2>2. \/ m = "flash" /\ s.fl \in 1 .. 2 /\ u = Holding(s, s.fl + 1, s.bus)
        \/ m = "bus" /\ s.bus \in 0 .. 2 /\ s.dev = "none" /\ u = Holding(s, s.fl, s.bus + 1)
    BY <1>4, <1>7, <1>12 DEF Locks
  <2>3. /\ u.fl = (IF m = "flash" THEN s.fl + 1 ELSE s.fl)
        /\ u.bus = (IF m = "bus" THEN s.bus + 1 ELSE s.bus)
        /\ u.dev = s.dev /\ u.ph = s.ph /\ u.told = s.told
        /\ u.knows = s.knows /\ u.mode = s.mode /\ u.due = s.due /\ u.busy = s.busy
    BY <2>2, FieldsOf
  <2>4. m \in {"flash", "bus"} /\ n \in 0 .. 3 /\ n > 0 /\ lock' = [lock EXCEPT ![m][t] = n]
    BY <1>3, <1>8, <2>2
  <2>5. /\ u.fl = (IF m = "flash" THEN n ELSE st[t].fl)
        /\ u.bus = (IF m = "bus" THEN n ELSE st[t].bus)
    BY <1>8, <2>2, <2>3
  <2>6. u.fl > 0 => Flash(u)'
    <3> SUFFICES ASSUME u.fl > 0 PROVE Flash(u)'
      OBVIOUS
    <3>1. s.fl > 0
      BY <1>8, <2>2, <2>3
    <3> QED
      BY <1>3, <1>4, <2>1, <2>3, <3>1, FlashStays
  <2>7. Wires(u)' \/ ~(u.bus > 0)
    <3> SUFFICES ASSUME u.bus > 0 PROVE Wires(u)'
      OBVIOUS
    <3>1. CASE s.bus > 0
      <4>1. Wires(s) /\ PlaceOK(s)
        BY <1>4, <3>1
      <4>2. u.fl > 0 => s.fl > 0 \/ s.dev = "none"
        BY <1>8, <2>2, <2>3
      <4>3. UNCHANGED addrMode
        BY <1>3
      <4> HIDE DEF s
      <4> QED
        BY <1>3, <2>3, <4>1, <4>2, <4>3, WiresStay
    <3>2. CASE s.bus = 0
      <4>1. m = "bus" /\ s.dev = "none"
        BY <2>2, <2>3, <3>2
      <4>2. \A v \in Threads : st[v].bus = 0
        <5>1. \A v \in Threads : st[v].bus = lock["bus"][v]
          BY <1>1, <1>2, Alone
        <5> QED
          BY <1>3, <3>2, <4>1, <5>1
      <4>3. Wires(Start)
        BY <1>1, <4>2 DEF BusAt
      <4>4. s.ph = "idle"
        BY <1>4, <4>1 DEF PlaceOK
      <4>5. ~uicBusy /\ device = "none" /\ Signals(Start)
        BY <4>3, StartPlace DEF Wires
      <4>6. Signals(u)'
        BY <1>3, <2>3, <4>4, <4>5, StartPlace DEF Signals
      <4> QED
        BY <1>3, <2>3, <4>1, <4>4, <4>5, <4>6 DEF Wires
    <3> QED
      BY <1>8, <3>1, <3>2
  <2>8. n > lock[m][t] => \A v \in Threads \ {t} : lock[m][v] = 0
    BY <1>3
  <2>9. DOMAIN want' = Bus!Addresses /\ want' = [x \in Bus!Addresses |-> want'[x]]
    BY <1>9, <2>1
  <2> HIDE DEF m, n, s
  <2>10. (m = "bus" /\ n = 0 => Wires(Start)') /\ (m = "flash" /\ n = 0 => Flash(Start)')
    BY <2>4
  <2>11. (u.bus > 0 => Wires(u)') /\ (UNCHANGED want \/ (m = "flash" /\ n > lock[m][t]))
    BY <2>1, <2>7
  <2>12. Relocks(st, t, u, q, m, n)
    BY <1>1, <1>3, <1>4, <1>10, <2>4, <2>5, <2>6, <2>8, <2>9, <2>10, <2>11 DEF Relocks
  <2> QED
    BY <2>12, LockDone
<1> QED
  BY <1>11, <1>12

(* Giving a mutex back.                                                    *)
LEMMA ReleaseStep == ASSUME BusInv, NEW t \in Threads, Bus!ReleaseMutex(t) PROVE BusInv'
<1>1. PICK st : BusAt(st)
  BY DEF BusInv
<1>2. BusTypes
  BY DEF BusInv
<1> DEFINE s == st[t]
           p == todo[t][1]
           c == called[t]
           q == Tail(todo[t])
           m == p[2]
           n == lock[m][t] - 1
<1>3. /\ Bus!Takes(t, "release") /\ todo' = [todo EXCEPT ![t] = q]
      /\ lock' = [lock EXCEPT ![m][t] = n]
      /\ UNCHANGED <<called, calls, addrMode, device, dma, dmaEvent, shift, writeIrq, spiEnable,
                     event, got, status, chip, mem, uicBusy, refused>>
      /\ UNCHANGED want
  BY DEF Bus!ReleaseMutex, Bus!Arg, Bus!Done, Bus!Same, Bus!hard, Bus!ext
<1>4. PICK u : /\ Moves(t, c, s, p, u) /\ p[1] = "release" /\ Runs(t, c, q, u, Start)
               /\ c \in Calls /\ PlaceOK(s) /\ PlaceOK(u)
               /\ (s.bus > 0 => Wires(s)) /\ (s.fl > 0 => Flash(s))
  BY <1>1, <1>3, StepTaken
<1> HIDE DEF p, c, q
<1>5. Locks(t, c, s, p, u)
  BY <1>4 DEF Moves, Selects, Deselects, Transfers, Learns, Others
<1>6. /\ s.fl = lock["flash"][t] /\ s.bus = lock["bus"][t] /\ s.fl \in 0 .. 3 /\ s.bus \in 0 .. 3
  BY <1>1, <1>2, Alone
<1>7. \/ m = "flash" /\ s.fl \in 2 .. 3 /\ u = Holding(s, s.fl - 1, s.bus)
      \/ /\ m = "flash" /\ s.fl = 1 /\ s.dev = "none" /\ s.due = NoneDue /\ s.mode = Agreed
         /\ u = Knowing(Holding(s, 0, s.bus), "any", s.mode, s.due)
      \/ /\ m = "bus" /\ s.bus > 0 /\ s.dev = "none" /\ (s.bus = 1 => ~s.busy)
         /\ u = Holding(s, s.fl, s.bus - 1)
  BY <1>4, <1>5 DEF Locks
<1>8. /\ u.fl = (IF m = "flash" THEN s.fl - 1 ELSE s.fl)
      /\ u.bus = (IF m = "bus" THEN s.bus - 1 ELSE s.bus)
      /\ u.dev = s.dev /\ u.ph = s.ph /\ u.told = s.told /\ u.busy = s.busy
      /\ u.mode = s.mode /\ u.due = s.due
      /\ u.fl > 0 => u.knows = s.knows
  <2>1. CASE m = "flash" /\ s.fl = 1
    <3> DEFINE z == 0
               h == Holding(s, z, s.bus)
               k == "any"
    <3>1. h.fl = z /\ h.bus = s.bus /\ h.dev = s.dev /\ h.ph = s.ph /\ h.told = s.told
          /\ h.busy = s.busy
      <4> HIDE DEF z
      <4> QED
        BY FieldsOf
    <3>2. u = Knowing(h, k, s.mode, s.due) /\ z = s.fl - 1 /\ ~(z > 0)
      BY <1>7, <2>1
    <3> HIDE DEF h, k, z
    <3>3. u.fl = h.fl /\ u.bus = h.bus /\ u.dev = h.dev /\ u.ph = h.ph /\ u.told = h.told
          /\ u.busy = h.busy /\ u.mode = s.mode /\ u.due = s.due
      BY <3>2, FieldsOf
    <3> QED
      BY <2>1, <3>1, <3>2, <3>3
  <2>2. CASE ~(m = "flash" /\ s.fl = 1)
    <3>1. \/ m = "flash" /\ u = Holding(s, s.fl - 1, s.bus)
          \/ m = "bus" /\ u = Holding(s, s.fl, s.bus - 1)
      BY <1>7, <2>2
    <3> HIDE DEF m
    <3> QED
      BY <3>1, FieldsOf
  <2> QED
    BY <2>1, <2>2
<1>9. m \in {"flash", "bus"} /\ n \in 0 .. 3 /\ ~(n > lock[m][t])
      /\ u.fl = (IF m = "flash" THEN n ELSE st[t].fl)
      /\ u.bus = (IF m = "bus" THEN n ELSE st[t].bus)
  <2>1. CASE m = "flash"
    BY <1>6, <1>7, <1>8, <2>1
  <2>2. CASE m = "bus"
    BY <1>6, <1>7, <1>8, <2>2
  <2> QED
    BY <1>7, <2>1, <2>2
<1>10. u.fl > 0 => Flash(u)'
  <2> SUFFICES ASSUME u.fl > 0 PROVE Flash(u)'
    OBVIOUS
  <2>1. s.fl > 0
    BY <1>6, <1>8
  <2> QED
    BY <1>3, <1>4, <1>8, <2>1, FlashStays
<1>11. u.bus > 0 => Wires(u)'
  <2> SUFFICES ASSUME u.bus > 0 PROVE Wires(u)'
    OBVIOUS
  <2>1. s.bus > 0 /\ (u.fl > 0 => s.fl > 0)
    BY <1>6, <1>8
  <2>2. Wires(s) /\ PlaceOK(s) /\ UNCHANGED addrMode
    BY <1>3, <1>4, <2>1
  <2> HIDE DEF s
  <2> QED
    BY <1>3, <1>8, <2>1, <2>2, WiresStay
<1>12. m = "bus" /\ n = 0 => Wires(Start)'
  <2> SUFFICES ASSUME m = "bus", n = 0 PROVE Wires(Start)'
    OBVIOUS
  <2>1. s.bus = 1 /\ s.dev = "none" /\ ~s.busy
    BY <1>6, <1>7
  <2>2. s.ph = "idle" /\ Wires(s)
    BY <1>4, <2>1 DEF PlaceOK
  <2>3. ~uicBusy /\ device = "none" /\ Signals(s)
    BY <2>1, <2>2 DEF Wires
  <2>4. Signals(Start)'
    BY <1>3, <2>2, <2>3, StartPlace DEF Signals
  <2> QED
    BY <1>3, <2>3, <2>4, StartPlace DEF Wires
<1>13. m = "flash" /\ n = 0 => Flash(Start)'
  <2> SUFFICES ASSUME m = "flash", n = 0 PROVE Flash(Start)'
    OBVIOUS
  <2>1. s.fl = 1 /\ s.due = NoneDue /\ s.mode = Agreed /\ Flash(s)
    <3>1. s.fl = 1
      BY <1>6
    <3> QED
      BY <1>4, <1>7, <3>1
  <2>2. chip.mode = addrMode /\ \A x \in Bus!Addresses : want[x] = mem[x]
    BY <2>1 DEF Flash, NoneDue
  <2>3. DOMAIN Start.due = {}
    BY StartPlace DEF NoneDue
  <2> HIDE DEF Start
  <2> QED
    BY <1>3, <2>2, <2>3, StartPlace DEF Flash
<1>14. DOMAIN want' = Bus!Addresses /\ want' = [x \in Bus!Addresses |-> want'[x]]
  BY <1>2, <1>3 DEF BusTypes
<1>15. Runs(t, called[t], q, u, Start) /\ called[t] \in Calls
  BY <1>4 DEF c
<1> HIDE DEF m, n, s
<1>16. Relocks(st, t, u, q, m, n)
  BY <1>1, <1>3, <1>4, <1>9, <1>10, <1>11, <1>12, <1>13, <1>14, <1>15 DEF Relocks
<1> QED
  BY <1>16, LockDone

(* AddrMode follows the addressing of the chip.                            *)
LEMMA SetAddrModeStep == ASSUME BusInv, NEW t \in Threads, Bus!SetAddrMode(t) PROVE BusInv'
<1>1. PICK st : BusAt(st)
  BY DEF BusInv
<1>2. BusTypes /\ ~refused /\ (dma \in {"send", "receive"} => ~dmaEvent)
  BY DEF BusInv
<1> DEFINE s == st[t]
           p == todo[t][1]
           c == called[t]
           q == Tail(todo[t])
<1>3. /\ Bus!Takes(t, "addrMode") /\ addrMode' = p[2] /\ todo' = [todo EXCEPT ![t] = q]
      /\ UNCHANGED <<called, calls, want, lock, device, dma, dmaEvent, shift, writeIrq,
                     spiEnable, event, got, status, chip, mem, uicBusy, refused>>
  BY DEF Bus!SetAddrMode, Bus!Arg, Bus!Done, Bus!hard, Bus!ext
<1>4. PICK u : /\ Moves(t, c, s, p, u) /\ p[1] = "addrMode" /\ Runs(t, c, q, u, Start)
               /\ c \in Calls /\ PlaceOK(s) /\ PlaceOK(u)
               /\ (s.bus > 0 => Wires(s)) /\ (s.fl > 0 => Flash(s))
  BY <1>1, <1>3, StepTaken
<1> HIDE DEF p, c, q
<1>5. /\ s.fl > 0 /\ s.dev = "none" /\ p[2] = s.mode /\ s.mode \in 0 .. 1
      /\ u = Knowing(s, s.knows, Agreed, s.due)
  BY <1>4 DEF Moves, Locks, Selects, Deselects, Transfers, Learns, Others
<1>6. /\ u.fl = s.fl /\ u.bus = s.bus /\ u.dev = s.dev /\ u.ph = s.ph /\ u.told = s.told
      /\ u.knows = s.knows /\ u.mode = Agreed /\ u.due = s.due /\ u.busy = s.busy
  <2> DEFINE a == Agreed
  <2>1. u = Knowing(s, s.knows, a, s.due)
    BY <1>5
  <2> HIDE DEF a
  <2>2. /\ u.fl = s.fl /\ u.bus = s.bus /\ u.dev = s.dev /\ u.ph = s.ph /\ u.told = s.told
        /\ u.knows = s.knows /\ u.mode = a /\ u.due = s.due /\ u.busy = s.busy
    BY <2>1, FieldsOf
  <2> QED
    BY <2>2 DEF a
<1>7. Flash(u)'
  <2>1. chip.mode = s.mode
    BY <1>4, <1>5 DEF Flash, Agreed
  <2>2. addrMode' = chip.mode
    BY <1>3, <1>5, <2>1
  <2> QED
    BY <1>3, <1>4, <1>5, <1>6, <2>2 DEF Flash
<1>8. u.bus > 0 => Wires(u)'
  <2> SUFFICES ASSUME u.bus > 0 PROVE Wires(u)'
    OBVIOUS
  <2>1. Wires(s) /\ PlaceOK(s) /\ s.dev = "none" /\ (u.fl > 0 => s.fl > 0 \/ s.dev = "none")
    BY <1>4, <1>5, <1>6
  <2> HIDE DEF s
  <2> QED
    BY <1>3, <1>6, <2>1, WiresStay
<1>9. /\ \A v \in Threads \ {t} : PlaceOK(st[v]) /\ st[v].fl = 0
      /\ \A v \in Threads : /\ st[v].fl = lock["flash"][v] /\ st[v].bus = lock["bus"][v]
                            /\ st[v].fl \in 0 .. 3 /\ st[v].bus \in 0 .. 3
  BY <1>1, <1>2, <1>5, Alone
<1>10. ASSUME NEW v \in Threads \ {t}, st[v].bus > 0 PROVE Wires(st[v])'
  <2> DEFINE w == st[v]
  <2>1. Wires(w) /\ PlaceOK(w) /\ w.fl = 0 /\ ~(w.fl > 0)
    BY <1>1, <1>9, <1>10 DEF BusAt
  <2> HIDE DEF w
  <2>2. Wires(w)'
    BY <1>3, <2>1, WiresStay
  <2> QED
    BY <2>2 DEF w
<1>11. \A v \in Threads \ {t} : st[v].fl > 0 => Flash(st[v])'
  BY <1>9
<1>12. u.bus = 0 /\ (\A v \in Threads \ {t} : st[v].bus = 0) => Wires(Start)'
  <2> SUFFICES ASSUME u.bus = 0, \A v \in Threads \ {t} : st[v].bus = 0 PROVE Wires(Start)'
    OBVIOUS
  <2>1. \A v \in Threads : st[v].bus = 0
    BY <1>6
  <2>2. Wires(Start) /\ PlaceOK(Start) /\ Start.dev = "none"
    BY <1>1, <2>1, StartPlace DEF BusAt
  <2> HIDE DEF Start
  <2> QED
    BY <1>3, <2>2, WiresStay
<1>13. ~(u.fl = 0)
  BY <1>5, <1>6
<1>14. todo'[t] = q /\ DOMAIN todo' = Threads /\ \A v \in Threads \ {t} : todo'[v] = todo[v]
  BY <1>2, <1>3 DEF BusTypes
<1>15. Runs(t, called'[t], todo'[t], u, Start) /\ (todo'[t] # Nothing => called'[t] \in Calls)
  BY <1>3, <1>4, <1>14 DEF c
<1>16. lock'["flash"][t] = u.fl /\ lock'["bus"][t] = u.bus
  BY <1>3, <1>6, <1>9
<1>17. \A v \in Threads \ {t} :
         /\ todo'[v] = todo[v] /\ called'[v] = called[v]
         /\ lock'["flash"][v] = lock["flash"][v] /\ lock'["bus"][v] = lock["bus"][v]
  BY <1>3, <1>14
<1> HIDE DEF s, Start
<1>18. \E w : BusAt(w)'
  BY <1>1, <1>4, <1>7, <1>8, <1>10, <1>11, <1>12, <1>13, <1>15, <1>16, <1>17, OneMoves
<1>19. BusTypes'
  BY <1>2, <1>3, <1>5, <1>14 DEF BusTypes
<1> QED
  BY <1>2, <1>3, <1>18, <1>19 DEF BusInv

(* A call begins at the beginning.                                         *)
LEMMA CallStep == ASSUME BusInv, NEW t \in Threads, Bus!Call(t) PROVE BusInv'
<1>1. PICK st : BusAt(st)
  BY DEF BusInv
<1>2. BusTypes /\ ~refused /\ (dma \in {"send", "receive"} => ~dmaEvent)
  BY DEF BusInv
<1>3. PICK c \in Calls :
        /\ todo[t] = Nothing /\ calls < MaxCalls /\ calls' = calls + 1
        /\ called' = [called EXCEPT ![t] = c] /\ todo' = [todo EXCEPT ![t] = Bus!Steps(t, c)]
        /\ UNCHANGED <<lock, addrMode, want, device, dma, dmaEvent, shift, writeIrq,
                       spiEnable, event, got, status, chip, mem, uicBusy, refused>>
  BY DEF Bus!Call, Bus!hard, Bus!ext, Nothing
<1>4. st[t] = Start
  <2>1. Runs(t, called[t], <<>>, st[t], Start)
    BY <1>1, <1>3 DEF BusAt, ThreadAt, Nothing, Bus!Nothing
  <2>2. Len(<<>>) = 0
    OBVIOUS
  <2> HIDE DEF Start
  <2> QED
    BY <2>1, <2>2 DEF Runs
<1>5. /\ todo'[t] = Bus!Steps(t, c) /\ called'[t] = c
      /\ DOMAIN todo' = Threads /\ called' \in [Threads -> Calls \cup {Nothing}]
      /\ \A v \in Threads \ {t} : todo'[v] = todo[v] /\ called'[v] = called[v]
  BY <1>2, <1>3 DEF BusTypes
<1>6. Runs(t, called'[t], todo'[t], Start, Start)
  BY <1>5, StepsRun
<1>7. calls' \in 0 .. MaxCalls
  <2>1. calls \in 0 .. MaxCalls /\ MaxCalls \in Nat
    BY <1>2, BoardAssumption DEF BusTypes
  <2> QED
    BY <1>3, <2>1
<1>8. BusTypes'
  BY <1>2, <1>3, <1>5, <1>7 DEF BusTypes
<1>9. BusAt(st)'
  <2> HIDE DEF Start
  <2>1. ASSUME NEW v \in Threads PROVE ThreadAt(v, st[v])'
    <3>1. CASE v = t
      BY <1>1, <1>3, <1>4, <1>5, <1>6, <3>1 DEF BusAt, ThreadAt
    <3>2. CASE v # t
      BY <1>1, <1>3, <1>5, <3>2 DEF BusAt, ThreadAt
    <3> QED
      BY <3>1, <3>2
  <2>2. UNCHANGED <<device, dma, shift, writeIrq, spiEnable, event, got, status, chip, uicBusy>>
        /\ UNCHANGED <<addrMode, want, mem>>
    BY <1>3
  <2>3. ASSUME NEW s, PlaceOK(s), Wires(s) PROVE Wires(s)'
    BY <2>2, <2>3, WiresStay
  <2>4. ASSUME NEW s, Flash(s) PROVE Flash(s)'
    BY <2>2, <2>4, FlashStays
  <2>5. PlaceOK(Start) /\ \A v \in Threads : PlaceOK(st[v])
    BY <1>1, StartPlace DEF BusAt, ThreadAt
  <2> QED
    BY <1>1, <2>1, <2>3, <2>4, <2>5 DEF BusAt
<1> QED
  BY <1>2, <1>3, <1>8, <1>9 DEF BusInv

(* What the flash does at the end of a transaction, command by command.    *)
LEMMA ExecuteIs ==
  ASSUME Bus!Execute, NEW cmd, cmd = got[1][1], NEW ok, ok = (chip.wel /\ ~chip.wip),
         NEW wide, wide = (got[1][3] = chip.mode)
  PROVE  /\ cmd \in {"status", "id"} => UNCHANGED <<chip, mem, refused>>
         /\ cmd = "wren" =>
              chip' = [chip EXCEPT !.wel = ~chip.wip \/ @] /\ UNCHANGED <<mem, refused>>
         /\ cmd = "wrdi" =>
              chip' = [chip EXCEPT !.wel = chip.wip /\ @] /\ UNCHANGED <<mem, refused>>
         /\ cmd = "mode" =>
              /\ chip' = [chip EXCEPT !.mode = got[1][2]] /\ refused' = (refused \/ ~ok)
              /\ UNCHANGED mem
         /\ cmd = "read" => refused' = (refused \/ ~wide) /\ UNCHANGED <<chip, mem>>
         /\ cmd = "erase" =>
              /\ chip' = [chip EXCEPT !.wip = TRUE] /\ refused' = (refused \/ ~ok \/ ~wide)
              /\ mem' = [x \in Bus!Addresses |-> Nothing]
         /\ cmd = "program" =>
              /\ chip' = [chip EXCEPT !.wip = TRUE] /\ refused' = (refused \/ ~ok \/ ~wide)
              /\ LET a    == got[1][2]
                     from == a - (a % Page)
                     n    == Len(got[2]) - 1
                 IN  mem' = [x \in Bus!Addresses |->
                               IF \E k \in 1 .. n : x = from + ((a + k - 1) % Page)
                               THEN got[2][1 + (CHOOSE k \in 1 .. n : x = from + ((a + k - 1) % Page))]
                               ELSE mem[x]]
<1>1. CASE cmd \in {"status", "id"}
  BY <1>1 DEF Bus!Execute
<1>2. CASE cmd = "wren"
  BY <1>2 DEF Bus!Execute
<1>3. CASE cmd = "wrdi"
  BY <1>3 DEF Bus!Execute
<1>4. CASE cmd = "mode"
  BY <1>4 DEF Bus!Execute
<1>5. CASE cmd = "read"
  BY <1>5 DEF Bus!Execute
<1>6. CASE cmd = "erase"
  BY <1>6 DEF Bus!Execute, Nothing
<1>7. CASE cmd = "program"
  BY <1>7 DEF Bus!Execute
<1> QED
  BY <1>1, <1>2, <1>3, <1>4, <1>5, <1>6, <1>7

(* Quotients and remainders.                                               *)
LEMMA DivisionBy ==
  ASSUME NEW v \in Nat, 0 < v, NEW a \in Nat
  PROVE  /\ a \div v \in Nat /\ a % v \in Nat /\ a % v < v
         /\ a = (v * (a \div v)) + (a % v)
  OBVIOUS

(* There is one quotient and one remainder.                                *)
LEMMA RemainderUnique ==
  ASSUME NEW v \in Nat, 0 < v, NEW q \in Nat, NEW r \in Nat, r < v
  PROVE  ((v * q) + r) % v = r
<1> DEFINE a == (v * q) + r
           d == a \div v
           e == a % v
<1>1. a \in Nat
  OBVIOUS
<1>2. d \in Nat /\ e \in Nat /\ e < v /\ a = (v * d) + e
  BY <1>1, DivisionBy
<1>3. (v * q) + r = (v * d) + e
  BY <1>2
<1> HIDE DEF a, d, e
<1>4. ASSUME d < q PROVE FALSE
  <2>1. PICK k \in Nat : q = d + 1 + k
    <3>1. q - d - 1 \in Nat /\ q = d + 1 + (q - d - 1)
      BY <1>2, <1>4
    <3> QED
      BY <3>1
  <2>2. v * q = (v * d) + v + (v * k) /\ v * k \in Nat /\ v * d \in Nat
    BY <1>2, <2>1
  <2> QED
    BY <1>2, <1>3, <2>2
<1>5. ASSUME q < d PROVE FALSE
  <2>1. PICK k \in Nat : d = q + 1 + k
    <3>1. d - q - 1 \in Nat /\ d = q + 1 + (d - q - 1)
      BY <1>2, <1>5
    <3> QED
      BY <3>1
  <2>2. v * d = (v * q) + v + (v * k) /\ v * k \in Nat /\ v * q \in Nat
    BY <1>2, <2>1
  <2> QED
    BY <1>2, <1>3, <2>2
<1>6. d = q
  BY <1>2, <1>4, <1>5
<1>7. e = r
  BY <1>2, <1>3, <1>6
<1> QED
  BY <1>7 DEF a, e

(* What does not leave its page is not wrapped to the page's beginning.    *)
LEMMA InsidePage ==
  ASSUME NEW a \in Nat, NEW n \in Nat \ {0}, (a % Page) + n <= Page, NEW k \in 1 .. n
  PROVE  (a - (a % Page)) + ((a + k - 1) % Page) = a + k - 1
<1> DEFINE q == a \div Page
           r == a % Page
           w == Page * q
           j == r + (k - 1)
<1>1. Page \in Nat /\ 0 < Page
  BY BoardAssumption
<1>2. q \in Nat /\ r \in Nat /\ r < Page /\ a = w + r /\ r + n <= Page
  BY <1>1, DivisionBy
<1>3. w \in Nat
  BY <1>1, <1>2
<1> HIDE DEF r, q
<1>4. j \in Nat /\ j < Page
  BY <1>1, <1>2
<1> HIDE DEF j
<1>5. (w + j) % Page = j
  BY <1>1, <1>2, <1>4, RemainderUnique
<1> HIDE DEF w
<1>6. a + k - 1 = w + j
  BY <1>2, <1>3 DEF j
<1> DEFINE z == a + k - 1
<1>7. z = w + j /\ z % Page = j
  BY <1>5, <1>6
<1>8. (a - r) + j = z
  BY <1>2, <1>3, <1>4, <1>7 DEF j
<1> HIDE DEF z
<1>9. (a - r) + (z % Page) = z
  BY <1>7, <1>8
<1> QED
  BY <1>9 DEF z, r

(* So a program puts the bytes sent where the code meant them.             *)
Programmed(a, n, d, x) ==
  IF \E k \in 1 .. n : x = (a - (a % Page)) + ((a + k - 1) % Page)
  THEN d[1 + (CHOOSE k \in 1 .. n : x = (a - (a % Page)) + ((a + k - 1) % Page))]
  ELSE mem[x]

(* What is programmed, byte by byte.                                       *)
LEMMA ProgramPuts ==
  ASSUME BusTypes, NEW a \in Nat, NEW n \in Nat \ {0}, (a % Page) + n <= Page,
         NEW d, \A k \in 1 .. n : d[1 + k] = want[a + k - 1],
         NEW put, put = [x \in Bus!Addresses |-> Programmed(a, n, d, x)]
  PROVE  \A x \in Bus!Addresses : put[x] = IF x \in a .. a + n - 1 THEN want[x] ELSE mem[x]
<1> SUFFICES ASSUME NEW x \in Bus!Addresses
             PROVE  put[x] = IF x \in a .. a + n - 1 THEN want[x] ELSE mem[x]
  OBVIOUS
<1> DEFINE Here(k) == x = (a - (a % Page)) + ((a + k - 1) % Page)
<1>1. \A k \in 1 .. n : Here(k) <=> x = a + k - 1
  BY InsidePage
<1>2. put[x] = IF \E k \in 1 .. n : Here(k) THEN d[1 + (CHOOSE k \in 1 .. n : Here(k))] ELSE mem[x]
  BY DEF Programmed
<1>3. x \in Int
  BY BoardAssumption DEF Bus!Addresses
<1> HIDE DEF Here
<1>4. CASE x \in a .. a + n - 1
  <2>1. x - a + 1 \in 1 .. n /\ x = a + (x - a + 1) - 1
    BY <1>3, <1>4
  <2>2. \E k \in 1 .. n : Here(k)
    BY <1>1, <2>1
  <2> DEFINE k == CHOOSE i \in 1 .. n : Here(i)
  <2>3. k \in 1 .. n /\ Here(k)
    BY <2>2
  <2>4. put[x] = d[1 + k]
    BY <1>2, <2>2
  <2> HIDE DEF k
  <2>5. a + k - 1 = x
    BY <1>1, <2>3
  <2> QED
    BY <1>4, <2>3, <2>4, <2>5
<1>5. CASE x \notin a .. a + n - 1
  <2>1. ~ \E k \in 1 .. n : Here(k)
    <3> SUFFICES ASSUME NEW k \in 1 .. n, Here(k) PROVE FALSE
      OBVIOUS
    <3>1. x = a + k - 1
      BY <1>1
    <3> QED
      BY <1>5, <3>1
  <2> QED
    BY <1>2, <1>5, <2>1
<1> QED
  BY <1>4, <1>5

(* What the end of t's transaction leaves of the devices, when it is at u  *)
(* after it.                                                               *)
Ends(s, u) ==
  /\ u.fl = s.fl /\ u.bus = s.bus /\ u.dev = "none" /\ u.ph = "idle"
  /\ uicBusy' => u.busy
  /\ u.fl > 0 => Flash(u)'
  /\ ~refused' /\ refused' \in BOOLEAN /\ uicBusy' \in BOOLEAN
  /\ chip' \in [wel : BOOLEAN, wip : BOOLEAN, mode : 0 .. 1]
  /\ DOMAIN mem' = Bus!Addresses /\ mem' = [x \in Bus!Addresses |-> mem'[x]]
  /\ UNCHANGED <<chip, mem>> \/ s.fl > 0

(* A command of one part, and what the flash gets of it.                   *)
LEMMA CommandAlone ==
  ASSUME NEW x, NEW s, s.told = <<x>>, Said(s, Len(s.told))
  PROVE  s.told[1] = x /\ Len(got) = 1 /\ got[1] = Sent(x) /\ got # Nothing
<1>1. Len(s.told) = 1 /\ s.told[1] = x
  OBVIOUS
<1>2. Len(got) = 1 /\ got[1] = Sent(x)
  BY <1>1 DEF Said
<1>3. Len(<<>>) = 0
  OBVIOUS
<1> QED
  BY <1>1, <1>2, <1>3 DEF Nothing, Bus!Nothing

(* A command with an address goes out with the width in AddrMode.          *)
LEMMA CommandWidened ==
  ASSUME NEW op, op # "mode", op # "data", NEW a
  PROVE  Sent(<<op, a>>)[1] = op /\ Sent(<<op, a>>)[2] = a /\ Sent(<<op, a>>)[3] = addrMode
<1> DEFINE x == <<op, a>>
<1>1. Len(x) = 2 /\ x[1] = op /\ x[2] = a
  OBVIOUS
<1>2. IsSeq(x)
  BY SeqTwo
<1> HIDE DEF x
<1>3. Sent(x) = Append(x, addrMode)
  BY <1>1 DEF Sent, Widened
<1> DEFINE y == Append(x, addrMode)
<1>4. /\ \A k \in 1 .. Len(x) : y[k] = x[k]
      /\ y[Len(x) + 1] = addrMode
  BY <1>2, SeqAppend
<1> HIDE DEF y
<1>5. y[1] = op /\ y[2] = a /\ y[3] = addrMode
  BY <1>1, <1>4
<1> QED
  BY <1>3, <1>5 DEF x, y

(* How the transaction of the flash ends.                                  *)
LEMMA FlashEnds ==
  ASSUME BusTypes, ~refused, NEW s, NEW p, NEW u, PlaceOK(s), Deselects(s, p, u),
         s.dev = "flash", s.fl > 0 => Flash(s), Said(s, Len(s.told)), uicBusy => s.busy,
         got # Nothing => Bus!Execute, UNCHANGED <<addrMode, want, uicBusy>>
  PROVE  Ends(s, u)
<1> DEFINE w == Away(s)
<1>1. /\ w.fl = s.fl /\ w.bus = s.bus /\ w.dev = "none" /\ w.ph = "idle"
      /\ w.knows = s.knows /\ w.mode = s.mode /\ w.due = s.due /\ w.busy = s.busy
  BY FieldsOf DEF Away
<1> HIDE DEF w
<1>2. /\ chip \in [wel : BOOLEAN, wip : BOOLEAN, mode : 0 .. 1] /\ uicBusy \in BOOLEAN
      /\ refused \in BOOLEAN /\ DOMAIN mem = Bus!Addresses /\ mem = [x \in Bus!Addresses |-> mem[x]]
      /\ DOMAIN want = Bus!Addresses /\ want = [x \in Bus!Addresses |-> want[x]]
  BY DEF BusTypes
<1>3. /\ chip.wel \in BOOLEAN /\ chip.wip \in BOOLEAN /\ chip.mode \in 0 .. 1
      /\ chip = [wel |-> chip.wel, wip |-> chip.wip, mode |-> chip.mode]
  BY <1>2
<1>4. s.fl \in 0 .. 3 /\ (s.fl > 0 => DOMAIN s.due \subseteq Bus!Addresses)
  BY DEF PlaceOK
<1>5. ASSUME NEW k, NEW m, NEW d, u = Knowing(w, k, m, d)
      PROVE  /\ u.fl = s.fl /\ u.bus = s.bus /\ u.dev = "none" /\ u.ph = "idle" /\ u.busy = s.busy
             /\ u.knows = k /\ u.mode = m /\ u.due = d
  BY <1>1, <1>5, FieldsOf
<1>6. ASSUME s.fl > 0, s.knows \in {"idle", "ready"} PROVE ~chip.wip /\ (s.knows = "ready" => chip.wel)
  BY <1>6 DEF Flash
<1>7. ASSUME s.fl > 0 PROVE /\ chip.mode = IF s.mode = Agreed THEN addrMode ELSE s.mode
                            /\ \A x \in Bus!Addresses : want[x] = IF x \in DOMAIN s.due THEN s.due[x] ELSE mem[x]
  BY <1>7 DEF Flash
<1> DEFINE cmd == got[1][1]
           ok == chip.wel /\ ~chip.wip
           wide == got[1][3] = chip.mode
<1>8. ASSUME s.told \in {<<<<"status">>>>, <<<<"id">>>>}, u = w
      PROVE  Ends(s, u)
  <2>1. got # Nothing /\ cmd \in {"status", "id"}
    <3>1. PICK y \in {"status", "id"} : s.told = <<<<y>>>>
      BY <1>8
    <3>2. got # Nothing /\ got[1] = Sent(<<y>>)
      BY <3>1, CommandAlone
    <3>3. Len(<<y>>) = 1 /\ <<y>>[1] = y
      OBVIOUS
    <3> QED
      BY <3>2, <3>3 DEF Sent, Widened
  <2>2. UNCHANGED <<chip, mem, refused>>
    <3> HIDE DEF cmd
    <3>1. cmd = got[1][1]
      BY DEF cmd
    <3> QED
      BY <2>1, <3>1, ExecuteIs
  <2>3. u.fl > 0 => Flash(u)'
    BY <1>1, <1>8, <2>2, FlashStays
  <2> QED
    BY <1>1, <1>2, <1>8, <2>2, <2>3 DEF Ends
<1>9. ASSUME s.fl > 0, s.told = <<<<"wren">>>>, s.knows = "idle", u = Knowing(w, "ready", s.mode, s.due)
      PROVE  Ends(s, u)
  <2>1. got # Nothing /\ cmd = "wren"
    <3> DEFINE x == <<"wren">>
    <3>1. Len(x) = 1 /\ x[1] = "wren" /\ s.told = <<x>>
      BY <1>9
    <3> HIDE DEF x
    <3>2. got # Nothing /\ got[1] = Sent(x)
      BY <3>1, CommandAlone
    <3>3. Sent(x) = x
      BY <3>1 DEF Sent, Widened
    <3> QED
      BY <3>1, <3>2, <3>3
  <2>2. chip' = [chip EXCEPT !.wel = ~chip.wip \/ @] /\ UNCHANGED <<mem, refused>>
    <3> HIDE DEF cmd
    <3>1. cmd = got[1][1]
      BY DEF cmd
    <3> QED
      BY <2>1, <3>1, ExecuteIs
  <2>3. chip'.wel = TRUE /\ chip'.wip = FALSE /\ chip'.mode = chip.mode
        /\ chip' \in [wel : BOOLEAN, wip : BOOLEAN, mode : 0 .. 1]
    BY <1>3, <1>6, <1>9, <2>2
  <2> DEFINE k == "ready"
  <2>4. u = Knowing(w, k, s.mode, s.due) /\ (k = "ready")
    BY <1>9
  <2> HIDE DEF k
  <2>5. /\ u.fl = s.fl /\ u.bus = s.bus /\ u.dev = "none" /\ u.ph = "idle" /\ u.busy = s.busy
        /\ u.knows = k /\ u.mode = s.mode /\ u.due = s.due
    BY <1>5, <2>4
  <2>6. Flash(u)'
    BY <1>7, <1>9, <2>2, <2>3, <2>5 DEF Flash
  <2> QED
    BY <1>2, <1>9, <2>2, <2>3, <2>5, <2>6 DEF Ends
<1>10. ASSUME s.fl > 0, s.told = <<<<"wrdi">>>>, s.knows \in {"idle", "ready"},
              u = Knowing(w, "idle", s.mode, s.due)
       PROVE  Ends(s, u)
  <2>1. got # Nothing /\ cmd = "wrdi"
    <3> DEFINE x == <<"wrdi">>
    <3>1. Len(x) = 1 /\ x[1] = "wrdi" /\ s.told = <<x>>
      BY <1>10
    <3> HIDE DEF x
    <3>2. got # Nothing /\ got[1] = Sent(x)
      BY <3>1, CommandAlone
    <3>3. Sent(x) = x
      BY <3>1 DEF Sent, Widened
    <3> QED
      BY <3>1, <3>2, <3>3
  <2>2. chip' = [chip EXCEPT !.wel = chip.wip /\ @] /\ UNCHANGED <<mem, refused>>
    <3> HIDE DEF cmd
    <3>1. cmd = got[1][1]
      BY DEF cmd
    <3> QED
      BY <2>1, <3>1, ExecuteIs
  <2>3. chip'.wip = FALSE /\ chip'.mode = chip.mode
        /\ chip' \in [wel : BOOLEAN, wip : BOOLEAN, mode : 0 .. 1]
    BY <1>3, <1>6, <1>10, <2>2
  <2> DEFINE k == "idle"
  <2>4. u = Knowing(w, k, s.mode, s.due) /\ k # "ready"
    BY <1>10
  <2> HIDE DEF k
  <2>5. /\ u.fl = s.fl /\ u.bus = s.bus /\ u.dev = "none" /\ u.ph = "idle" /\ u.busy = s.busy
        /\ u.knows = k /\ u.mode = s.mode /\ u.due = s.due
    BY <1>5, <2>4
  <2>6. Flash(u)'
    BY <1>7, <1>10, <2>2, <2>3, <2>4, <2>5 DEF Flash
  <2> QED
    BY <1>2, <1>10, <2>2, <2>3, <2>5, <2>6 DEF Ends
<1>11. ASSUME s.fl > 0, s.knows = "ready", NEW val \in 0 .. 1, s.told = <<<<"mode", val>>>>,
              u = Knowing(w, "ready", val, s.due)
       PROVE  Ends(s, u)
  <2> DEFINE x == <<"mode", val>>
  <2>1. x[1] = "mode" /\ x[2] = val /\ s.told = <<x>>
    BY <1>11
  <2> HIDE DEF x
  <2>2. got # Nothing /\ got[1] = x
    BY <2>1, CommandAlone DEF Sent, Widened
  <2>3. /\ chip' = [chip EXCEPT !.mode = got[1][2]] /\ refused' = (refused \/ ~ok)
        /\ UNCHANGED mem
    <3>1. cmd = "mode"
      BY <2>1, <2>2
    <3> HIDE DEF cmd, ok
    <3>2. cmd = got[1][1] /\ ok = (chip.wel /\ ~chip.wip)
      BY DEF cmd, ok
    <3> QED
      BY <2>2, <3>1, <3>2, ExecuteIs
  <2>4. ok
    BY <1>6, <1>11
  <2>5. chip'.wel = chip.wel /\ chip'.wip = chip.wip /\ chip'.mode = val
        /\ chip' \in [wel : BOOLEAN, wip : BOOLEAN, mode : 0 .. 1]
    BY <1>3, <1>11, <2>1, <2>2, <2>3
  <2> DEFINE k == "ready"
  <2>6. u = Knowing(w, k, val, s.due)
    BY <1>11
  <2> HIDE DEF k
  <2>7. /\ u.fl = s.fl /\ u.bus = s.bus /\ u.dev = "none" /\ u.ph = "idle" /\ u.busy = s.busy
        /\ u.knows = k /\ u.mode = val /\ u.due = s.due
    BY <1>5, <2>6
  <2>8. val # Agreed
    BY <1>11 DEF Agreed
  <2>9. Flash(u)'
    BY <1>7, <1>11, <2>3, <2>4, <2>5, <2>7, <2>8 DEF Flash
  <2> QED
    BY <1>2, <1>11, <2>3, <2>4, <2>5, <2>7, <2>9 DEF Ends
<1>12. ASSUME s.fl > 0, s.mode = Agreed, NEW a \in Nat, s.told = <<<<"read", a>>>>, u = w
       PROVE  Ends(s, u)
  <2> DEFINE x == <<"read", a>>
  <2>1. s.told = <<x>> /\ Sent(x)[1] = "read" /\ Sent(x)[3] = addrMode
    BY <1>12, CommandWidened
  <2> HIDE DEF x
  <2>2. got # Nothing /\ got[1] = Sent(x)
    BY <2>1, CommandAlone
  <2>3. cmd = "read" /\ wide
    BY <1>7, <1>12, <2>1, <2>2
  <2>4. refused' = (refused \/ ~wide) /\ UNCHANGED <<chip, mem>>
    <3> HIDE DEF cmd, wide
    <3>1. cmd = got[1][1] /\ wide = (got[1][3] = chip.mode)
      BY DEF cmd, wide
    <3> QED
      BY <2>2, <2>3, <3>1, ExecuteIs
  <2>5. u.fl > 0 => Flash(u)'
    BY <1>1, <1>12, <2>4, FlashStays
  <2> HIDE DEF wide
  <2> QED
    BY <1>1, <1>2, <1>12, <2>3, <2>4, <2>5 DEF Ends
<1>13. ASSUME s.fl > 0, s.mode = Agreed, s.knows = "ready", NEW a \in Nat, s.told = <<<<"erase", a>>>>,
              s.due = [x \in Bus!Addresses |-> Nothing], u = Knowing(w, "any", s.mode, NoneDue)
       PROVE  Ends(s, u)
  <2> DEFINE x == <<"erase", a>>
  <2>1. s.told = <<x>> /\ Sent(x)[1] = "erase" /\ Sent(x)[3] = addrMode
    BY <1>13, CommandWidened
  <2> HIDE DEF x
  <2>2. got # Nothing /\ got[1] = Sent(x)
    BY <2>1, CommandAlone
  <2>3. cmd = "erase" /\ wide /\ ok
    BY <1>6, <1>7, <1>13, <2>1, <2>2
  <2>4. /\ chip' = [chip EXCEPT !.wip = TRUE] /\ refused' = (refused \/ ~ok \/ ~wide)
        /\ mem' = [y \in Bus!Addresses |-> Nothing]
    <3> HIDE DEF cmd, wide, ok
    <3>1. cmd = got[1][1] /\ wide = (got[1][3] = chip.mode) /\ ok = (chip.wel /\ ~chip.wip)
      BY DEF cmd, wide, ok
    <3> QED
      BY <2>2, <2>3, <3>1, ExecuteIs
  <2>5. chip'.mode = chip.mode /\ chip' \in [wel : BOOLEAN, wip : BOOLEAN, mode : 0 .. 1]
    BY <1>3, <2>4
  <2> DEFINE k == "any"
             d == NoneDue
  <2>6. u = Knowing(w, k, s.mode, d) /\ k \notin {"idle", "ready"} /\ DOMAIN d = {}
    BY <1>13 DEF NoneDue
  <2> HIDE DEF k, d
  <2>7. /\ u.fl = s.fl /\ u.bus = s.bus /\ u.dev = "none" /\ u.ph = "idle" /\ u.busy = s.busy
        /\ u.knows = k /\ u.mode = s.mode /\ u.due = d
    BY <1>5, <2>6
  <2>8. \A y \in Bus!Addresses : want'[y] = mem'[y]
    BY <1>7, <1>13, <2>4
  <2>9. Flash(u)'
    BY <1>7, <1>13, <2>5, <2>6, <2>7, <2>8 DEF Flash
  <2>10. DOMAIN mem' = Bus!Addresses /\ mem' = [y \in Bus!Addresses |-> mem'[y]]
    BY <2>4
  <2>11. ~refused' /\ refused' \in BOOLEAN
    BY <2>3, <2>4
  <2> HIDE DEF wide, ok
  <2> QED
    BY <1>2, <1>13, <2>5, <2>7, <2>9, <2>10, <2>11 DEF Ends
<1>14. ASSUME s.fl > 0, s.mode = Agreed, s.knows = "ready", NEW a \in Nat, NEW n \in Nat \ {0},
              Programs(s, a, n),
              u = Knowing(w, "any", s.mode, [x \in DOMAIN s.due \ (a .. a + n - 1) |-> s.due[x]])
       PROVE  Ends(s, u)
  <2> DEFINE D == [k \in 1 .. n |-> s.due[a + k - 1]]
             x == <<"program", a>>
             y == <<"data">> \o D
  <2>1. s.told = <<x, y>> /\ (a % Page) + n <= Page /\ a .. a + n - 1 \subseteq DOMAIN s.due
    BY <1>14 DEF Programs
  <2>2. Sent(x)[1] = "program" /\ Sent(x)[2] = a /\ Sent(x)[3] = addrMode
    <3> DEFINE op == "program"
    <3>1. op # "mode" /\ op # "data" /\ x = <<op, a>>
      OBVIOUS
    <3> HIDE DEF op, x, y, D
    <3>2. Sent(x)[1] = op /\ Sent(x)[2] = a /\ Sent(x)[3] = addrMode
      BY <3>1, CommandWidened
    <3> QED
      BY <3>2 DEF op
  <2>3. Len(y) = 1 + n /\ y[1] = "data" /\ \A k \in 1 .. n : y[1 + k] = D[k]
    <3> DEFINE z == <<"data">>
    <3>1. IsSeq(z) /\ Len(z) = 1 /\ z[1] = "data"
      BY SeqOne
    <3>2. IsSeq(D) /\ Len(D) = n
      <4> DEFINE S == {s.due[a + k - 1] : k \in 1 .. n}
      <4>1. D \in [1 .. n -> S] /\ DOMAIN D = 1 .. n
        OBVIOUS
      <4> HIDE DEF D, S
      <4>2. D \in Seq(S) /\ Len(D) = n
        BY <4>1
      <4> QED
        BY <4>2 DEF IsSeq
    <3> HIDE DEF z, D
    <3>3. IsSeq(z) /\ IsSeq(D)
      BY <3>1, <3>2
    <3>4. Len(z \o D) = Len(z) + Len(D)
      BY <3>3, SeqFacts
    <3>5. \A k \in 1 .. Len(z) : (z \o D)[k] = z[k]
      BY <3>3, SeqFacts
    <3>6. \A k \in 1 .. Len(D) : (z \o D)[Len(z) + k] = D[k]
      BY <3>3, SeqFacts
    <3>7. y = z \o D
      BY DEF z
    <3> HIDE DEF y
    <3> QED
      BY <3>1, <3>2, <3>4, <3>5, <3>6, <3>7
  <2>4. \A k \in 1 .. n : D[k] = want[a + k - 1]
    <3> SUFFICES ASSUME NEW k \in 1 .. n PROVE D[k] = want[a + k - 1]
      OBVIOUS
    <3>1. a + k - 1 \in a .. a + n - 1
      OBVIOUS
    <3>2. a + k - 1 \in DOMAIN s.due /\ a + k - 1 \in Bus!Addresses
      BY <1>4, <1>14, <2>1, <3>1
    <3> QED
      BY <1>7, <1>14, <3>2
  <2> HIDE DEF D, x, y
  <2>5. got # Nothing /\ got[1] = Sent(x) /\ got[2] = y
    <3>1. Len(s.told) = 2 /\ s.told[1] = x /\ s.told[2] = y
      BY <2>1
    <3>2. Len(got) = 2 /\ got[1] = Sent(x) /\ got[2] = Sent(y)
      BY <3>1 DEF Said
    <3>3. Len(<<>>) = 0
      OBVIOUS
    <3>4. Sent(y) = y
      BY <2>3 DEF Sent, Widened
    <3>5. got # <<>>
      BY <3>2, <3>3
    <3> QED
      BY <3>2, <3>4, <3>5 DEF Nothing, Bus!Nothing
  <2>6. cmd = "program" /\ wide /\ ok
    BY <1>6, <1>7, <1>14, <2>2, <2>5
  <2>7. /\ chip' = [chip EXCEPT !.wip = TRUE] /\ refused' = (refused \/ ~ok \/ ~wide)
        /\ LET b    == got[1][2]
               from == b - (b % Page)
               m    == Len(got[2]) - 1
           IN  mem' = [z \in Bus!Addresses |->
                         IF \E k \in 1 .. m : z = from + ((b + k - 1) % Page)
                         THEN got[2][1 + (CHOOSE k \in 1 .. m : z = from + ((b + k - 1) % Page))]
                         ELSE mem[z]]
    <3> HIDE DEF cmd, wide, ok
    <3>1. cmd = got[1][1] /\ wide = (got[1][3] = chip.mode) /\ ok = (chip.wel /\ ~chip.wip)
      BY DEF cmd, wide, ok
    <3> QED
      BY <2>5, <2>6, <3>1, ExecuteIs
  <2>8. got[1][2] = a /\ Len(got[2]) - 1 = n /\ got[2] = y
    BY <2>2, <2>3, <2>5
  <2>9. mem' = [z \in Bus!Addresses |-> Programmed(a, n, y, z)]
    BY <2>7, <2>8 DEF Programmed
  <2>10. DOMAIN mem' = Bus!Addresses /\ mem' = [z \in Bus!Addresses |-> mem'[z]]
    BY <2>9
  <2>11. \A z \in Bus!Addresses : mem'[z] = IF z \in a .. a + n - 1 THEN want[z] ELSE mem[z]
    <3>1. \A k \in 1 .. n : y[1 + k] = want[a + k - 1]
      BY <2>3, <2>4
    <3> QED
      BY <2>1, <2>9, <3>1, ProgramPuts
  <2>12. chip'.mode = chip.mode /\ chip' \in [wel : BOOLEAN, wip : BOOLEAN, mode : 0 .. 1]
    BY <1>3, <2>7
  <2> DEFINE k == "any"
             d == [z \in DOMAIN s.due \ (a .. a + n - 1) |-> s.due[z]]
  <2>13. /\ u = Knowing(w, k, s.mode, d) /\ k \notin {"idle", "ready"}
         /\ DOMAIN d = DOMAIN s.due \ (a .. a + n - 1)
         /\ \A z \in DOMAIN d : d[z] = s.due[z]
    BY <1>14
  <2> HIDE DEF k, d
  <2>14. /\ u.fl = s.fl /\ u.bus = s.bus /\ u.dev = "none" /\ u.ph = "idle" /\ u.busy = s.busy
         /\ u.knows = k /\ u.mode = s.mode /\ u.due = d
    BY <1>5, <2>13
  <2>15. \A z \in Bus!Addresses : want'[z] = IF z \in DOMAIN d THEN d[z] ELSE mem'[z]
    BY <1>7, <1>14, <2>1, <2>11, <2>13
  <2>16. Flash(u)'
    BY <1>7, <1>14, <2>12, <2>13, <2>14, <2>15 DEF Flash
  <2>17. ~refused' /\ refused' \in BOOLEAN
    BY <2>6, <2>7
  <2> HIDE DEF wide, ok
  <2> QED
    BY <1>2, <1>14, <2>10, <2>12, <2>14, <2>16, <2>17 DEF Ends
<1> HIDE DEF cmd, ok, wide
<1> QED
  BY <1>8, <1>9, <1>10, <1>11, <1>12, <1>13, <1>14 DEF Deselects, w

(* The end of a transaction.                                               *)
LEMMA DeselectStep == ASSUME BusInv, NEW t \in Threads, Bus!Deselect(t) PROVE BusInv'
<1>1. PICK st : BusAt(st)
  BY DEF BusInv
<1>2. BusTypes /\ ~refused /\ (dma \in {"send", "receive"} => ~dmaEvent)
  BY DEF BusInv
<1> DEFINE s == st[t]
           p == todo[t][1]
           c == called[t]
           q == Tail(todo[t])
<1>3. /\ Bus!Takes(t, "deselect") /\ device' = "none" /\ todo' = [todo EXCEPT ![t] = q]
      /\ IF device = "flash" /\ got # Nothing THEN Bus!Execute ELSE UNCHANGED <<chip, mem, refused>>
      /\ uicBusy' = (uicBusy \/ (device = "uic" /\ got # Nothing /\ got[1] = <<"disable">>))
      /\ UNCHANGED <<called, calls, addrMode, want, lock, dma, dmaEvent, shift, writeIrq,
                     spiEnable, event, got, status>>
  BY DEF Bus!Deselect, Bus!Done, Bus!Same, Nothing
<1>4. PICK u : /\ Moves(t, c, s, p, u) /\ p[1] = "deselect" /\ Runs(t, c, q, u, Start)
               /\ c \in Calls /\ PlaceOK(s) /\ PlaceOK(u)
               /\ (s.bus > 0 => Wires(s)) /\ (s.fl > 0 => Flash(s))
  BY <1>1, <1>3, StepTaken
<1> HIDE DEF p, c, q
<1>5. Deselects(s, p, u)
  BY <1>4 DEF Moves, Locks, Selects, Transfers, Learns, Others
<1>6. s.dev \in {"flash", "uic"} /\ s.bus > 0 /\ s.ph \in {"idle", "read"}
  BY <1>4, <1>5 DEF Deselects, PlaceOK, Still
<1>7. Wires(s)
  BY <1>4, <1>6
<1>8. device = s.dev /\ Said(s, Len(s.told)) /\ Signals(s) /\ (uicBusy => s.busy)
  BY <1>6, <1>7 DEF Wires, Heard
<1>9. dma = "idle" /\ shift = Nothing /\ ~writeIrq /\ ~spiEnable
  BY <1>6, <1>8 DEF Signals
<1>10. Ends(s, u)
  <2>1. CASE s.dev = "flash"
    <3>1. UNCHANGED <<addrMode, want, uicBusy>>
      <4>1. uicBusy \in BOOLEAN
        BY <1>2 DEF BusTypes
      <4>2. device = "flash"
        BY <1>8, <2>1
      <4>3. uicBusy' = (uicBusy \/ FALSE)
        BY <1>3, <4>2
      <4>4. uicBusy' = uicBusy
        BY <4>1, <4>3
      <4> QED
        BY <1>3, <4>4
    <3>2. got # Nothing => Bus!Execute
      <4>1. device = "flash"
        BY <1>8, <2>1
      <4> QED
        BY <1>3, <4>1
    <3> HIDE DEF s
    <3> QED
      BY <1>2, <1>4, <1>5, <1>8, <2>1, <3>1, <3>2, FlashEnds
  <2>2. CASE s.dev = "uic"
    <3> DEFINE w == Away(s)
               b == s.busy \/ s.told[1] = <<"disable">>
    <3>1. s.told # <<>> /\ ~Widened(s.told[1]) /\ u = Writing(w, b)
      BY <1>5, <2>2 DEF Deselects
    <3>2. /\ w.fl = s.fl /\ w.bus = s.bus /\ w.dev = "none" /\ w.ph = "idle"
          /\ w.knows = s.knows /\ w.mode = s.mode /\ w.due = s.due /\ w.busy = s.busy
      BY FieldsOf DEF Away
    <3> HIDE DEF w, b
    <3>3. /\ u.fl = s.fl /\ u.bus = s.bus /\ u.dev = "none" /\ u.ph = "idle"
          /\ u.knows = s.knows /\ u.mode = s.mode /\ u.due = s.due /\ u.busy = b
      BY <3>1, <3>2, FieldsOf
    <3>4. UNCHANGED <<chip, mem, refused>>
      BY <1>3, <1>8, <2>2
    <3>5. u.fl > 0 => Flash(u)'
      BY <1>3, <1>4, <3>3, <3>4, FlashStays
    <3>6. uicBusy' => b
      <4>1. IsSeq(s.told)
        BY <1>4 DEF PlaceOK
      <4> DEFINE z == s.told
      <4> HIDE DEF z
      <4>2. Len(z) \in Nat /\ Len(z) > 0
        BY <3>1, <4>1, SeqTail DEF z
      <4>3. got[1] = Sent(s.told[1])
        BY <1>8, <4>2 DEF Said, z
      <4>4. got[1] = s.told[1]
        BY <3>1, <4>3 DEF Sent
      <4> QED
        BY <1>3, <1>8, <4>4 DEF b
    <3>7. chip \in [wel : BOOLEAN, wip : BOOLEAN, mode : 0 .. 1] /\ uicBusy \in BOOLEAN
          /\ refused \in BOOLEAN /\ DOMAIN mem = Bus!Addresses
          /\ mem = [x \in Bus!Addresses |-> mem[x]]
      BY <1>2 DEF BusTypes
    <3>8. uicBusy' \in BOOLEAN
      BY <1>3, <3>7
    <3> HIDE DEF s
    <3> QED
      BY <1>2, <3>3, <3>4, <3>5, <3>6, <3>7, <3>8 DEF Ends
  <2> QED
    BY <1>6, <2>1, <2>2
<1>11. Wires(u)'
  <2>1. u.dev = "none" /\ u.ph = "idle" /\ (uicBusy' => u.busy)
    BY <1>10 DEF Ends
  <2>2. Signals(u)'
    BY <1>3, <1>9, <2>1 DEF Signals
  <2> QED
    BY <1>3, <2>1, <2>2 DEF Wires
<1>12. UNCHANGED <<chip, addrMode, want, mem>> \/ st[t].fl > 0
  BY <1>3, <1>10 DEF Ends
<1>13. st[t].bus > 0 /\ u.bus = st[t].bus /\ u.fl = st[t].fl /\ (u.fl > 0 => Flash(u)')
  BY <1>6, <1>10 DEF Ends
<1>14. Runs(t, called[t], q, u, Start) /\ called[t] \in Calls /\ UNCHANGED <<called, lock>>
  BY <1>3, <1>4 DEF c
<1>15. BusTypes'
  <2>1. DOMAIN todo' = Threads
    BY <1>2, <1>3 DEF BusTypes
  <2>2. /\ refused' \in BOOLEAN /\ uicBusy' \in BOOLEAN
        /\ chip' \in [wel : BOOLEAN, wip : BOOLEAN, mode : 0 .. 1]
        /\ DOMAIN mem' = Bus!Addresses /\ mem' = [x \in Bus!Addresses |-> mem'[x]]
    BY <1>10 DEF Ends
  <2> QED
    BY <1>2, <1>3, <2>1, <2>2 DEF BusTypes
<1>16. ~refused'
  BY <1>10 DEF Ends
<1> HIDE DEF s
<1>17. \E w : BusAt(w)'
  BY <1>1, <1>2, <1>3, <1>4, <1>11, <1>12, <1>13, <1>14, Working
<1> QED
  BY <1>2, <1>3, <1>15, <1>16, <1>17 DEF BusInv

(* At the beginning nobody is in a call.                                   *)
LEMMA BusInit == ASSUME Bus!Init PROVE BusInv
<1> DEFINE st == [t \in Threads |-> Start]
<1>1. \A t \in Threads : st[t] = Start
  OBVIOUS
<1> HIDE DEF st
<1>2. BusTypes
  <2>1. /\ DOMAIN todo = Threads /\ called \in [Threads -> Calls \cup {Nothing}]
        /\ lock \in [Bus!Mutexes -> [Threads -> 0 .. 3]]
        /\ \A m \in Bus!Mutexes : \A t \in Threads : lock[m][t] = 0
    BY DEF Bus!Init, Nothing
  <2>2. calls \in 0 .. MaxCalls
    BY BoardAssumption DEF Bus!Init
  <2>3. /\ addrMode = 1 /\ device = "none" /\ dma = "idle" /\ status = <<FALSE, FALSE>>
        /\ chip = [wel |-> FALSE, wip |-> FALSE, mode |-> 1]
        /\ ~dmaEvent /\ ~writeIrq /\ ~spiEnable /\ ~event /\ ~uicBusy /\ ~refused
    BY DEF Bus!Init
  <2>4. {dmaEvent, writeIrq, spiEnable, event, uicBusy, refused} \subseteq BOOLEAN
    BY DEF Bus!Init
  <2>5. chip \in [wel : BOOLEAN, wip : BOOLEAN, mode : 0 .. 1] /\ status \in BOOLEAN \X BOOLEAN
    <3>1. FALSE \in BOOLEAN /\ 1 \in 0 .. 1
      OBVIOUS
    <3>2. <<FALSE, FALSE>> \in BOOLEAN \X BOOLEAN
      OBVIOUS
    <3>3. [wel |-> FALSE, wip |-> FALSE, mode |-> 1] \in [wel : BOOLEAN, wip : BOOLEAN, mode : 0 .. 1]
      BY <3>1
    <3> QED
      BY <2>3, <3>2, <3>3
  <2>6. mem = [x \in Bus!Addresses |-> Bus!Nothing] /\ want = mem
    BY DEF Bus!Init
  <2>7. DOMAIN mem = Bus!Addresses /\ mem = [x \in Bus!Addresses |-> mem[x]]
    BY <2>6
  <2> QED
    BY <2>1, <2>2, <2>3, <2>4, <2>5, <2>6, <2>7 DEF BusTypes
<1>3. Wires(Start)
  <2>1. device = "none" /\ dma = "idle" /\ shift = Nothing /\ ~writeIrq /\ ~spiEnable /\ ~uicBusy
    BY DEF Bus!Init, Nothing
  <2>2. Signals(Start)
    BY <2>1, StartPlace DEF Signals
  <2> HIDE DEF Start
  <2> QED
    BY <2>1, <2>2, StartPlace DEF Wires
<1>4. Flash(Start)
  <2>1. chip.mode = addrMode /\ \A x \in Bus!Addresses : want[x] = mem[x]
    BY DEF Bus!Init
  <2>2. DOMAIN Start.due = {}
    BY StartPlace DEF NoneDue
  <2> HIDE DEF Start
  <2> QED
    BY <2>1, <2>2, StartPlace DEF Flash
<1>5. ASSUME NEW t \in Threads PROVE ThreadAt(t, Start)
  <2>1. todo[t] = Nothing /\ lock["flash"][t] = 0 /\ lock["bus"][t] = 0
    BY DEF Bus!Init, Bus!Mutexes, Nothing
  <2> HIDE DEF Start
  <2>2. Runs(t, called[t], <<>>, Start, Start)
    BY RunsNone
  <2> QED
    BY <2>1, <2>2, StartPlace DEF ThreadAt, Nothing, Bus!Nothing
<1>6. BusAt(st)
  <2>1. ~(Start.bus > 0) /\ ~(Start.fl > 0)
    BY StartPlace
  <2> HIDE DEF Start
  <2> QED
    BY <1>1, <1>3, <1>4, <1>5, <2>1 DEF BusAt
<1>7. ~refused /\ dma = "idle"
  BY DEF Bus!Init
<1> QED
  BY <1>2, <1>6, <1>7 DEF BusInv

(* Every action keeps the invariant.                                       *)
LEMMA BusNext == ASSUME BusInv, Bus!Next PROVE BusInv'
<1>1. CASE Bus!Transfer \/ Bus!DeviceDone
  BY <1>1, BusHardware
<1>2. ASSUME NEW t \in Threads, Bus!Thread(t) PROVE BusInv'
  BY <1>2, CallStep, AcquireStep, ReleaseStep, SelectStep, DeselectStep, TransferStep, PollStep,
     TestStep, SetAddrModeStep, SleepStep DEF Bus!Thread
<1> QED
  BY <1>1, <1>2 DEF Bus!Next

(* And so do the steps of the other parts.                                 *)
LEMMA BusStutter == ASSUME BusInv, UNCHANGED busVars PROVE BusInv'
<1>1. PICK st : BusAt(st)
  BY DEF BusInv
<1>2. UNCHANGED <<todo, called, calls, lock, addrMode, want, mem, chip, device, dma, dmaEvent, shift,
                  writeIrq, spiEnable, event, got, status, uicBusy, refused>>
  BY DEF busVars
<1>3. ASSUME NEW s, PlaceOK(s), Wires(s) PROVE Wires(s)'
  BY <1>2, <1>3, WiresStay
<1>4. ASSUME NEW s, Flash(s) PROVE Flash(s)'
  BY <1>2, <1>4, FlashStays
<1>5. BusAt(st)'
  BY <1>1, <1>2, <1>3, <1>4, SamePlaces
<1>6. BusTypes'
  BY <1>2 DEF BusInv, BusTypes
<1> QED
  BY <1>2, <1>5, <1>6 DEF BusInv

(* A step of any of its parts, or none.                                    *)
LEMMA BusStep == ASSUME BusInv, [Bus!Next]_busVars PROVE BusInv'
<1>1. CASE UNCHANGED busVars
  BY <1>1, BusStutter
<1>2. CASE Bus!Next
  BY <1>2, BusNext
<1> QED
  BY <1>1, <1>2
-----------------------------------------------------------------------------
(* The board: its parts beside each other.                                 *)
BoardInv == SoundInv /\ BusInv /\ TimerInv /\ PadInv

LEMMA BoardStep == ASSUME BoardInv, [Next]_vars PROVE BoardInv'
<1>1. [Sound!Next]_soundVars
  BY DEF Next, vars, SoundMoves, BusMoves, TimerMoves, PadMoves, CardMoves
<1>2. [Bus!Next]_busVars
  BY DEF Next, vars, SoundMoves, BusMoves, TimerMoves, PadMoves, CardMoves
<1>3. [Timer!Next]_timerVars
  BY DEF Next, vars, SoundMoves, BusMoves, TimerMoves, PadMoves, CardMoves
<1>4. [Pad!Next]_padVars
  BY DEF Next, vars, SoundMoves, BusMoves, TimerMoves, PadMoves, CardMoves
<1> QED
  BY <1>1, <1>2, <1>3, <1>4, SoundStep, BusStep, TimerStep, PadStep DEF BoardInv

THEOREM BoardInvariance == Spec => []BoardInv
<1>1. Init => BoardInv
  BY SoundInit, BusInit, TimerInit, PadInit DEF Init, BoardInv
<1>2. BoardInv /\ [Next]_vars => BoardInv'
  BY BoardStep
<1> QED
  BY <1>1, <1>2, PTL DEF Spec

(* Audio_Stop, Mic_Stop and Audio_DeInit leave nothing behind: no callback, *)
(* no sound, no interrupt, no use of the deleted event mask (wup/audio.c).  *)
THEOREM StopsAreFinal == Spec => []StopIsFinal
<1>1. BoardInv => StopIsFinal
  BY SoundFollows DEF BoardInv, StopIsFinal
<1> QED
  BY <1>1, BoardInvariance, PTL

(* No alert is lost between the handlers and the audio thread's callbacks,  *)
(* and these get the free half of the buffer (AudioIRQ, MicIRQ,             *)
(* AudioThreadFunc).                                                        *)
THEOREM AlertsAreServed == Spec => []AlertsServed
<1>1. BoardInv => AlertsServed
  BY SoundFollows DEF BoardInv, AlertsServed
<1> QED
  BY <1>1, BoardInvariance, PTL

(* A delay that no other is begun in the middle of is not short             *)
(* (WUP_DelayUS, WUP_DelayMS, Timer0IRQ), for any number of priorities.     *)
THEOREM DelaysAreFull == Spec => []FullDelay
<1>1. BoardInv => FullDelay
  BY TimerFollows DEF BoardInv, FullDelay
<1> QED
  BY <1>1, BoardInvariance, PTL

(* Input_GetData returns the data of one scan, with its edges, and none     *)
(* older than the last that was whole when it was called.                   *)
THEOREM FetchesAreRight == Spec => []FetchRight
<1>1. BoardInv => FetchRight
  BY PadFollows DEF BoardInv, FetchRight
<1> QED
  BY <1>1, BoardInvariance, PTL

(* The flash's bus: what is written lands where the code meant it, whoever *)
(* else uses the bus in between, and is in the flash when its mutex is     *)
(* free; no transaction begins, ends or changes direction while bytes are  *)
(* on the wires; and the flash takes every command, being idle and enabled *)
(* for it and in the addressing the command was sent in (flash.c, spi.c,   *)
(* uic.c, dma.c), for any threads, calls and sizes.                        *)
THEOREM BusIsRight == Spec => []BusRight
<1>1. BoardInv => BusRight
  BY BusInvRight DEF BoardInv, BusRight
<1> QED
  BY <1>1, BoardInvariance, PTL
=============================================================================
