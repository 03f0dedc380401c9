---------------------------- MODULE ConsoleProofs ----------------------------
(***************************************************************************)
(* Proofs about the parts of the console. Each part has an inductive       *)
(* invariant of its own, which its steps preserve, and the steps of the    *)
(* others leave alone.                                                     *)
(***************************************************************************)
EXTENDS Console, SequenceTheorems, FiniteSetTheorems, WellFoundedInduction, TLAPS

-----------------------------------------------------------------------------
(* The voice. The speeds kept for the next state of the envelope are those *)
(* of the registers, as long as register writes reach the envelope.        *)
VoiceInv ==
  /\ Voice!TypeOK
  /\ Voice!EnvelopeFollows
  /\ Voice!CalcVolumeRight
  /\ Voice!Follows => decaySpeed = adsr1.decay /\ sustainSpeed = adsr2.rate

LEMMA VoiceConstants ==
  /\ Full \in Nat /\ 0 < Full /\ Rise \in Nat /\ 0 < Rise /\ Fall \in Nat /\ 0 < Fall
  /\ EnvStart \in Nat /\ 0 < EnvStart /\ ReleaseRate \in Nat /\ MaxRewrites \in Nat
  /\ \A r \in Rates : r \in Nat /\ r <= Full
  /\ 0 \in Rates /\ 0 \in Volumes
  BY VoiceAssumption

(* The types of the registers, taken apart.                                *)
LEMMA VoiceTypes ==
  ASSUME Voice!TypeOK
  PROVE  /\ adsr1.on \in BOOLEAN /\ adsr1.attack \in Rates /\ adsr1.decay \in Rates
         /\ adsr2.level \in Levels /\ adsr2.rate \in Rates
         /\ gain.how \in Voice!GainStates /\ gain.val \in Rates
         /\ envx \in Int /\ 0 <= envx /\ envx <= Full
         /\ envSpeed \in Nat /\ envCount \in Int /\ 0 <= envCount /\ envCount <= EnvStart
  BY VoiceConstants DEF Voice!TypeOK, Voice!Adsr1, Voice!Adsr2, Voice!Gain

LEMMA VoiceInit == ASSUME Voice!Init PROVE VoiceInv
<1>1. Voice!TypeOK
  <2>1. adsr1 \in Voice!Adsr1 /\ adsr2 \in Voice!Adsr2 /\ gain \in Voice!Gain
    BY VoiceConstants DEF Voice!Init, Voice!Adsr1, Voice!Adsr2, Voice!Gain, Voice!GainStates
  <2>2. envxReg \in 0 .. Full /\ envx \in 0 .. Full /\ envCount \in 0 .. EnvStart
        /\ rewrites \in 0 .. MaxRewrites /\ volume \in Volumes
    BY VoiceConstants DEF Voice!Init
  <2>3. env \in Voice!States /\ header \in Voice!Headers
    BY DEF Voice!Init, Voice!States, Voice!Headers
  <2> QED
    BY <2>1, <2>2, <2>3 DEF Voice!Init, Voice!TypeOK
<1> QED
  BY <1>1 DEF VoiceInv, Voice!Init, Voice!EnvelopeFollows, Voice!CalcVolumeRight, Voice!Follows

(* A step of the envelope stays within its levels, and goes to a state of  *)
(* the same mode.                                                          *)
LEMMA StepsWithin ==
  ASSUME Voice!TypeOK, NEW e, e = Voice!Stepped
  PROVE  /\ e[1] \in Int /\ e[1] <= Full
         /\ e[2] \in Voice!States
         /\ e[2] # env => \/ env = "attack" /\ e[2] = "decay"
                          \/ env = "decay" /\ e[2] = "sustain"
                          \/ env \in {"increase", "bentline"} /\ e[2] = "direct"
<1>1. /\ Full \in Nat /\ Rise \in Nat /\ Fall \in Nat /\ 0 < Rise /\ 0 < Fall
      /\ envx \in Int /\ 0 <= envx /\ envx <= Full /\ env \in Voice!States
  BY VoiceConstants, VoiceTypes DEF Voice!TypeOK
<1>2. Voice!Lower \in Int /\ Voice!Lower <= Full
  BY <1>1 DEF Voice!Lower
<1>3. Voice!Bent \in Int
  BY <1>1 DEF Voice!Bent
<1> QED
  BY <1>1, <1>2, <1>3 DEF Voice!Stepped, Voice!States, Voice!GainStates

LEMMA VoiceStep == ASSUME VoiceInv, [Voice!Next]_voiceVars PROVE VoiceInv'
<1> DEFINE Kept == Voice!Follows => decaySpeed = adsr1.decay /\ sustainSpeed = adsr2.rate
<1> USE VoiceConstants
<1>t. /\ Voice!TypeOK /\ Voice!EnvelopeFollows /\ Voice!CalcVolumeRight /\ Kept
  BY DEF VoiceInv
<1>v. /\ adsr1.on \in BOOLEAN /\ adsr1.attack \in Rates /\ adsr1.decay \in Rates
      /\ adsr2.level \in Levels /\ adsr2.rate \in Rates
      /\ gain.how \in Voice!GainStates /\ gain.val \in Rates
      /\ envx \in Int /\ 0 <= envx /\ envx <= Full
      /\ envSpeed \in Nat /\ envCount \in Int /\ 0 <= envCount /\ envCount <= EnvStart
  BY <1>t, VoiceTypes
<1>0. CASE UNCHANGED voiceVars
  BY <1>0, <1>t DEF voiceVars, VoiceInv, Voice!TypeOK, Voice!EnvelopeFollows,
     Voice!CalcVolumeRight, Voice!Follows
<1>1. CASE Voice!DspWriteByte
  <2>0. rewrites' \in 0 .. MaxRewrites
    BY <1>1, <1>t DEF Voice!DspWriteByte, Voice!TypeOK
  <2>1. CASE Voice!WriteVolume
    <3> USE <1>t, <1>v, <2>1 DEF Voice!WriteVolume, Voice!speeds
    <3>1. Voice!TypeOK'
      BY <2>0 DEF Voice!TypeOK
    <3>2. Voice!EnvelopeFollows'
      BY DEF Voice!EnvelopeFollows, Voice!Follows, Voice!Adsr1, Voice!Adsr2, Voice!Gain, Voice!GainStates
    <3>3. Voice!CalcVolumeRight'
      BY DEF Voice!CalcVolumeRight
    <3>4. Kept'
      BY DEF Voice!Follows
    <3> QED
      BY <3>1, <3>2, <3>3, <3>4 DEF VoiceInv
  <2>2. CASE Voice!WriteGain
    <3> USE <1>t, <1>v, <2>2 DEF Voice!WriteGain, Voice!speeds, Voice!ChangeGain, Voice!SetHeight
    <3>1. Voice!TypeOK'
      <4>1. PICK g \in Voice!Gain : gain' = g /\ Voice!ChangeGain(g, adsr1.on)
        OBVIOUS
      <4>2. g.how \in Voice!GainStates /\ g.val \in Rates
        BY DEF Voice!Gain
      <4>3. env' \in Voice!States
        BY <4>1, <4>2 DEF Voice!TypeOK, Voice!States
      <4>4. envx' \in 0 .. Full
        BY <4>1, <4>2
      <4>5. envSpeed' \in Rates \cup {0, ReleaseRate}
        BY <4>1, <4>2 DEF Voice!TypeOK
      <4> QED
        BY <2>0, <4>1, <4>3, <4>4, <4>5 DEF Voice!TypeOK
    <3>2. Voice!EnvelopeFollows'
      BY DEF Voice!EnvelopeFollows, Voice!Follows, Voice!Adsr1, Voice!Adsr2, Voice!Gain, Voice!GainStates
    <3>3. Voice!CalcVolumeRight'
      BY DEF Voice!CalcVolumeRight
    <3>4. Kept'
      BY DEF Voice!Follows
    <3> QED
      BY <3>1, <3>2, <3>3, <3>4 DEF VoiceInv
  <2>3. CASE Voice!WriteAdsr1
    <3> USE <1>t, <1>v, <2>3 DEF Voice!WriteAdsr1, Voice!ChangeGain, Voice!SetHeight
    <3>1. Voice!TypeOK'
      <4>1. adsr1' \in Voice!Adsr1 /\ decaySpeed' \in Rates \cup {0}
        BY DEF Voice!TypeOK, Voice!Adsr1
      <4>2. env' \in Voice!States
        BY DEF Voice!TypeOK, Voice!States
      <4>3. envx' \in 0 .. Full
        OBVIOUS
      <4>4. envSpeed' \in Rates \cup {0, ReleaseRate}
        BY DEF Voice!TypeOK, Voice!Adsr1
      <4> QED
        BY <2>0, <4>1, <4>2, <4>3, <4>4 DEF Voice!TypeOK
    <3>2. Voice!EnvelopeFollows'
      BY DEF Voice!EnvelopeFollows, Voice!Follows, Voice!Adsr1, Voice!Adsr2, Voice!Gain, Voice!GainStates
    <3>3. Voice!CalcVolumeRight'
      BY DEF Voice!CalcVolumeRight
    <3>4. Kept'
      BY DEF Voice!Follows
    <3> QED
      BY <3>1, <3>2, <3>3, <3>4 DEF VoiceInv
  <2>4. CASE Voice!WriteAdsr2
    <3> USE <1>t, <1>v, <2>4 DEF Voice!WriteAdsr2
    <3>1. Voice!TypeOK'
      <4>1. /\ adsr2' \in Voice!Adsr2 /\ sustainSpeed' \in Rates \cup {0}
            /\ envSpeed' \in Rates \cup {0, ReleaseRate}
        BY DEF Voice!TypeOK, Voice!Adsr2
      <4> QED
        BY <2>0, <4>1 DEF Voice!TypeOK
    <3>2. Voice!EnvelopeFollows'
      BY DEF Voice!EnvelopeFollows, Voice!Follows, Voice!Adsr1, Voice!Adsr2, Voice!Gain, Voice!GainStates
    <3>3. Voice!CalcVolumeRight'
      BY DEF Voice!CalcVolumeRight
    <3>4. Kept'
      BY DEF Voice!Follows
    <3> QED
      BY <3>1, <3>2, <3>3, <3>4 DEF VoiceInv
  <2>5. CASE Voice!WriteKon
    <3> USE <1>t, <1>v, <2>5 DEF Voice!WriteKon, Voice!KeyOn, Voice!StartEnvelope, Voice!SetHeight, Voice!regs
    <3>1. Voice!TypeOK'
      <4>1. env' \in Voice!States
        BY DEF Voice!TypeOK, Voice!States, Voice!GainStates
      <4>2. envx' \in 0 .. Full
        OBVIOUS
      <4>3. envSpeed' \in Rates \cup {0, ReleaseRate}
        BY DEF Voice!TypeOK
      <4>4. active' \in BOOLEAN /\ endx' \in BOOLEAN
        BY DEF Voice!TypeOK
      <4>5. header' \in Voice!Headers
        BY DEF Voice!Headers
      <4>6. envxReg' \in 0 .. Full /\ envCount' \in 0 .. EnvStart
        OBVIOUS
      <4> QED
        BY <2>0, <4>1, <4>2, <4>3, <4>4, <4>5, <4>6 DEF Voice!TypeOK
    <3>2. Voice!EnvelopeFollows'
      BY DEF Voice!EnvelopeFollows, Voice!Follows, Voice!Adsr1, Voice!Adsr2, Voice!Gain, Voice!GainStates
    <3>3. Voice!CalcVolumeRight'
      BY DEF Voice!CalcVolumeRight
    <3>4. Kept'
      BY DEF Voice!Follows
    <3> QED
      BY <3>1, <3>2, <3>3, <3>4 DEF VoiceInv
  <2>6. CASE Voice!WriteKof
    <3> USE <1>t, <1>v, <2>6 DEF Voice!WriteKof, Voice!speeds
    <3>1. Voice!TypeOK'
      BY <2>0 DEF Voice!TypeOK, Voice!States
    <3>2. Voice!EnvelopeFollows'
      BY DEF Voice!EnvelopeFollows, Voice!Follows, Voice!Adsr1, Voice!Adsr2, Voice!Gain, Voice!GainStates
    <3>3. Voice!CalcVolumeRight'
      BY DEF Voice!CalcVolumeRight
    <3>4. Kept'
      BY DEF Voice!Follows
    <3> QED
      BY <3>1, <3>2, <3>3, <3>4 DEF VoiceInv
  <2>7. CASE Voice!WriteNov
    <3> USE <1>t, <1>v, <2>7 DEF Voice!WriteNov, Voice!speeds
    <3>1. Voice!TypeOK'
      BY <2>0 DEF Voice!TypeOK
    <3>2. Voice!EnvelopeFollows'
      BY DEF Voice!EnvelopeFollows, Voice!Follows, Voice!Adsr1, Voice!Adsr2, Voice!Gain, Voice!GainStates
    <3>3. Voice!CalcVolumeRight'
      BY DEF Voice!CalcVolumeRight
    <3>4. Kept'
      BY DEF Voice!Follows
    <3> QED
      BY <3>1, <3>2, <3>3, <3>4 DEF VoiceInv
  <2>8. CASE Voice!WriteEndx
    <3> USE <1>t, <1>v, <2>8 DEF Voice!WriteEndx, Voice!regs, Voice!speeds
    <3>1. Voice!TypeOK'
      <4>1. endx' \in BOOLEAN
        OBVIOUS
      <4> QED
        BY <2>0, <4>1 DEF Voice!TypeOK
    <3>2. Voice!EnvelopeFollows'
      BY DEF Voice!EnvelopeFollows, Voice!Follows, Voice!Adsr1, Voice!Adsr2, Voice!Gain, Voice!GainStates
    <3>3. Voice!CalcVolumeRight'
      BY DEF Voice!CalcVolumeRight
    <3>4. Kept'
      BY DEF Voice!Follows
    <3> QED
      BY <3>1, <3>2, <3>3, <3>4 DEF VoiceInv
  <2> QED
    BY <1>1, <2>1, <2>2, <2>3, <2>4, <2>5, <2>6, <2>7, <2>8 DEF Voice!DspWriteByte
<1>2. CASE Voice!DSP_Mix
  <2> DEFINE e == Voice!Stepped
             Moves == /\ Voice!EnvelopeEnds => Voice!Counted
                      /\ ~Voice!EnvelopeEnds =>
                           /\ Voice!Counted => e[1] \in 0 .. Full
                           /\ Voice!Counted /\ e[2] # env =>
                                 Voice!SpeedOf(e[2]) \in Rates \cup {0}
                           /\ ~Voice!Counted => envCount - envSpeed \in 0 .. EnvStart
  <2>0. /\ e[1] \in Int /\ e[1] <= Full /\ e[2] \in Voice!States
        /\ e[2] # env => \/ env = "attack" /\ e[2] = "decay"
                         \/ env = "decay" /\ e[2] = "sustain"
                         \/ env \in {"increase", "bentline"} /\ e[2] = "direct"
    BY <1>t, StepsWithin
  <2>m. Moves
    <3>1. /\ Voice!EnvelopeEnds <=> Voice!Counted /\ e[1] < 0
          /\ Voice!Counted <=> envCount - envSpeed < 0
      BY DEF Voice!EnvelopeEnds, Voice!Counted
    <3>2. ASSUME e[2] # env PROVE Voice!SpeedOf(e[2]) \in Rates \cup {0}
      <4> HIDE DEF e
      <4> QED
        BY <1>t, <2>0, <3>2 DEF Voice!SpeedOf, Voice!TypeOK
    <3> HIDE DEF e
    <3> QED
      BY <1>v, <2>0, <3>1, <3>2
  <2>e. ASSUME Voice!Envelope, UNCHANGED <<Voice!regs, active, Voice!speeds>>,
               ~Voice!EnvelopeEnds
        PROVE  /\ envCount' \in 0 .. EnvStart /\ envx' \in 0 .. Full
               /\ env' \in Voice!States /\ envSpeed' \in Rates \cup {0, ReleaseRate}
               /\ envxReg' \in 0 .. Full
               /\ Voice!EnvelopeFollows' /\ Voice!CalcVolumeRight' /\ Kept'
    <3> HIDE DEF e
    <3>1. /\ envCount' = IF Voice!Counted THEN EnvStart ELSE envCount - envSpeed
          /\ Voice!Counted => /\ envx' = e[1] /\ env' = e[2]
                              /\ envSpeed' = IF env' = env THEN envSpeed
                                             ELSE Voice!SpeedOf(env')
                              /\ calcVolume' = volume * envx' /\ envxReg' = envx'
          /\ ~Voice!Counted => UNCHANGED <<envx, env, envSpeed, calcVolume>>
                               /\ envxReg' = envx
      BY <2>e DEF Voice!Envelope, e
    <3>2. /\ envCount' \in 0 .. EnvStart /\ envx' \in 0 .. Full
          /\ env' \in Voice!States /\ envSpeed' \in Rates \cup {0, ReleaseRate}
          /\ envxReg' \in 0 .. Full
      BY <1>t, <1>v, <2>0, <2>m, <2>e, <3>1 DEF Voice!TypeOK
    <3>3. Voice!EnvelopeFollows'
      BY <1>t, <2>0, <2>e, <3>1
      DEF Voice!EnvelopeFollows, Voice!Follows, Voice!SpeedOf, Voice!GainStates,
          Voice!regs, Voice!speeds
    <3>4. Voice!CalcVolumeRight' /\ Kept'
      <4>1. Voice!CalcVolumeRight'
        BY <1>t, <2>e, <3>1 DEF Voice!CalcVolumeRight, Voice!regs
      <4>2. Kept'
        BY <1>t, <2>0, <2>e, <3>1 DEF Voice!Follows, Voice!regs, Voice!speeds
      <4> QED
        BY <4>1, <4>2
    <3> QED
      BY <3>2, <3>3, <3>4
  <2>d. ASSUME Voice!EndOfSample, rewrites' = rewrites
        PROVE  /\ envx' \in 0 .. Full /\ env' \in Voice!States /\ envxReg' \in 0 .. Full
               /\ active' \in BOOLEAN
               /\ Voice!EnvelopeFollows' /\ Voice!CalcVolumeRight' /\ Kept'
    <3>1. /\ envx' \in 0 .. Full /\ envxReg' \in 0 .. Full
      BY <2>d DEF Voice!EndOfSample
    <3>2. env' \in Voice!States /\ active' \in BOOLEAN
      BY <2>d DEF Voice!EndOfSample, Voice!States
    <3>3. Voice!EnvelopeFollows' /\ Voice!CalcVolumeRight' /\ Kept'
      BY <2>d DEF Voice!EndOfSample, Voice!EnvelopeFollows, Voice!CalcVolumeRight, Voice!Follows
    <3> QED
      BY <3>1, <3>2, <3>3
  <2>1. CASE Voice!MixSample
    <3>1. CASE Voice!EnvelopeEnds
      <4>1. Voice!TypeOK'
        BY <1>2, <1>t, <1>v, <2>1, <2>d, <3>1
        DEF Voice!DSP_Mix, Voice!MixSample, Voice!TypeOK, Voice!regs, Voice!speeds
      <4> QED
        BY <1>2, <2>1, <2>d, <3>1, <4>1 DEF Voice!DSP_Mix, Voice!MixSample, VoiceInv
    <3>2. CASE ~Voice!EnvelopeEnds
      <4>0. Voice!Envelope /\ UNCHANGED <<Voice!regs, active, Voice!speeds>>
        BY <2>1, <3>2 DEF Voice!MixSample
      <4>1. Voice!TypeOK'
        BY <1>2, <1>t, <2>1, <2>e, <3>2, <4>0
        DEF Voice!DSP_Mix, Voice!MixSample, Voice!TypeOK, Voice!regs, Voice!speeds
      <4> QED
        BY <2>e, <3>2, <4>0, <4>1 DEF VoiceInv
    <3> QED
      BY <3>1, <3>2
  <2>2. CASE Voice!MixBlock
    <3>0. ~Voice!EnvelopeEnds /\ UNCHANGED <<Voice!regs, Voice!speeds, rewrites>>
          /\ endx' \in BOOLEAN
      BY <1>2, <2>2 DEF Voice!DSP_Mix, Voice!MixBlock
    <3>p. PICK past \in BOOLEAN : Voice!MixBlock!(past)
      BY <2>2 DEF Voice!MixBlock
    <3>1. CASE past \/ header = "end"
      <4>0. Voice!EndOfSample /\ UNCHANGED header
        BY <3>p, <3>1
      <4>1. /\ envCount' \in 0 .. EnvStart /\ envSpeed' \in Rates \cup {0, ReleaseRate}
        <5>1. /\ envCount' = IF Voice!Counted THEN EnvStart ELSE envCount - envSpeed
              /\ envSpeed' = IF Voice!Counted /\ Voice!Stepped[2] # env
                            THEN Voice!SpeedOf(Voice!Stepped[2]) ELSE envSpeed
          BY <3>p, <3>1
        <5>2. envCount' \in 0 .. EnvStart
          BY <1>t, <2>m, <3>0, <5>1 DEF Voice!TypeOK
        <5>3. envSpeed' \in Rates \cup {0, ReleaseRate}
          BY <1>t, <2>m, <3>0, <5>1 DEF Voice!TypeOK
        <5> QED
          BY <5>2, <5>3
      <4>2. Voice!TypeOK'
        BY <1>t, <2>d, <3>0, <4>0, <4>1 DEF Voice!TypeOK, Voice!regs, Voice!speeds
      <4> QED
        BY <2>d, <3>0, <4>0, <4>2 DEF VoiceInv
    <3>2. CASE ~(past \/ header = "end")
      <4>0. Voice!Envelope /\ UNCHANGED active /\ header' \in Voice!Headers
        BY <3>p, <3>2
      <4>1. UNCHANGED <<Voice!regs, active, Voice!speeds>>
        BY <3>0, <4>0
      <4>2. Voice!TypeOK'
        BY <1>t, <2>e, <3>0, <4>0, <4>1 DEF Voice!TypeOK, Voice!regs, Voice!speeds
      <4> QED
        BY <2>e, <3>0, <4>0, <4>1, <4>2 DEF VoiceInv
    <3> QED
      BY <3>1, <3>2
  <2> QED
    BY <1>2, <2>1, <2>2 DEF Voice!DSP_Mix, Voice!Mix
<1> QED
  BY <1>0, <1>1, <1>2 DEF Voice!Next

LEMMA VoiceRight ==
  ASSUME VoiceInv PROVE Voice!TypeOK /\ Voice!EnvelopeFollows /\ Voice!CalcVolumeRight
BY DEF VoiceInv

-----------------------------------------------------------------------------
(* Arithmetic of remainders.                                               *)
LEMMA DivMod ==
  ASSUME NEW n \in Nat \ {0}, NEW a \in Int
  PROVE  /\ a \div n \in Int /\ a % n \in Int /\ 0 <= a % n /\ a % n < n
         /\ a = (n * (a \div n)) + (a % n)
  OBVIOUS

LEMMA DivUnique ==
  ASSUME NEW n \in Nat \ {0}, NEW q \in Int, NEW r \in Int, 0 <= r, r < n
  PROVE  ((n * q) + r) % n = r /\ ((n * q) + r) \div n = q
  OBVIOUS

LEMMA Scaled ==
  ASSUME NEW k \in Nat, NEW a \in Int, NEW b \in Int, a <= b
  PROVE  k * a \in Int /\ k * b \in Int /\ k * a <= k * b
  OBVIOUS

-----------------------------------------------------------------------------
(* The SPC700. Its clock is the CPU's, less the lines that are over; a     *)
(* timer with a period has a register that gives it one, which is no       *)
(* shorter than the longest instruction.                                   *)
ClockInv ==
  /\ spcCycles = debt /\ lastCycle = Ratio * hcount
  /\ running => spcCycles >= 0
  /\ ~running => debt <= 0 /\ debt >= -SpcRatio * Spc!Longest

PeriodInv ==
  /\ reload > Half /\ reload < Spc!Whole => Unit <= Spc!Whole - reload
  /\ period \in Nat /\ since \in Nat /\ ticks \in Nat
  /\ period # 0 => Unit <= period /\ period < Half /\ since < period

SpcInv == Spc!TypeOK /\ ClockInv /\ PeriodInv /\ Spc!TimerRight

LEMMA SpcConstants ==
  /\ LineLen \in Nat /\ 0 < LineLen /\ Overrun \in Nat /\ Overrun <= LineLen
  /\ Ratio \in Nat /\ 0 < Ratio /\ SpcRatio \in Nat /\ 0 < SpcRatio
  /\ Half \in Nat /\ 0 < Half /\ Unit \in Nat /\ 0 < Unit /\ Unit < Half
  /\ Sample \in Nat /\ 0 < Sample /\ MaxTicks \in Nat
  /\ Spc!Whole \in Nat /\ Spc!Whole = 2 * Half
  /\ \A n \in Reloads : n \in Nat /\ n * Unit \in Nat /\ n * Unit < Half
  /\ \A c \in OpCycles : c \in Nat /\ c <= Unit /\ c < Sample /\ c <= Spc!Longest
  /\ Spc!Longest \in Nat
<1>1. Spc!Longest \in OpCycles /\ \A c \in OpCycles : c <= Spc!Longest
  BY SpcAssumption DEF Spc!Longest
<1> QED
  BY <1>1, SpcAssumption DEF Spc!Whole

(* An instruction of c cycles moves the two parts of the value on: what    *)
(* they are before and after is the place in the period and the ticks.     *)
LEMMA TimerMoves ==
  ASSUME NEW c \in OpCycles, NEW rel \in Int, NEW p \in Int, NEW s \in Int, NEW t \in Nat,
         Unit <= p, p < Half, 0 <= s, s < p, 
         NEW counted, counted = (((Spc!Whole - p) + s) + (Spc!Whole * t)) + c,
         NEW w, w = IF (counted \div Half) % 2 = 0 THEN counted + rel ELSE counted
  PROVE  /\ s + c < p => w % Spc!Whole = (Spc!Whole - p) + (s + c) /\ w \div Spc!Whole = t
         /\ s + c >= p /\ rel > Half /\ rel < Spc!Whole /\ Unit <= Spc!Whole - rel =>
              /\ w % Spc!Whole = rel + ((s + c) - p) /\ w \div Spc!Whole = t + 1
              /\ (s + c) - p < Spc!Whole - rel
<1>1. /\ Half \in Nat /\ 0 < Half /\ Unit \in Nat /\ Unit < Half
      /\ Spc!Whole \in Nat /\ Spc!Whole = 2 * Half /\ c \in Nat /\ c <= Unit
  BY SpcConstants
<1>2. CASE s + c < p
  <2> DEFINE r == ((Half - p) + s) + c
             k == (2 * t) + 1
  <2>1. r \in Int /\ 0 <= r /\ r < Half /\ k \in Int
    BY <1>1, <1>2
  <2>2. counted = (Half * k) + r
    BY <1>1
  <2>3. k % 2 = 1
    OBVIOUS
  <2> HIDE DEF r, k
  <2>4. counted \div Half = k
    BY <1>1, <2>1, <2>2, DivUnique
  <2>5. w = counted
    BY <2>3, <2>4
  <2> DEFINE x == (Spc!Whole - p) + (s + c)
  <2>6. x \in Int /\ 0 <= x /\ x < Spc!Whole /\ w = (Spc!Whole * t) + x
    BY <1>1, <1>2, <2>5
  <2> HIDE DEF x
  <2>7. w % Spc!Whole = x /\ w \div Spc!Whole = t
    BY <1>1, <2>6, DivUnique
  <2> QED
    BY <1>1, <1>2, <2>7 DEF x
<1>3. ASSUME s + c >= p, rel > Half, rel < Spc!Whole, Unit <= Spc!Whole - rel
      PROVE  /\ w % Spc!Whole = rel + ((s + c) - p) /\ w \div Spc!Whole = t + 1
             /\ (s + c) - p < Spc!Whole - rel
  <2> DEFINE r == (s + c) - p
             k == 2 * (t + 1)
  <2>1. r \in Int /\ 0 <= r /\ r < Unit /\ r < Half /\ k \in Int
    BY <1>1, <1>3
  <2>2. counted = (Half * k) + r
    BY <1>1
  <2>3. k % 2 = 0
    OBVIOUS
  <2> HIDE DEF r, k
  <2>4. counted \div Half = k
    BY <1>1, <2>1, <2>2, DivUnique
  <2>5. w = counted + rel
    BY <2>3, <2>4
  <2> DEFINE x == rel + r
             m == t + 1
  <2>6. x \in Int /\ 0 <= x /\ x < Spc!Whole /\ m \in Int
    BY <1>1, <1>3, <2>1
  <2>7. w = (Spc!Whole * m) + x
    <3>1. counted = (Spc!Whole * (t + 1)) + r
      BY <1>1, <2>1, <2>2 DEF k
    <3> QED
      BY <1>1, <2>1, <2>5, <3>1
  <2> HIDE DEF x, m
  <2>8. w % Spc!Whole = x /\ w \div Spc!Whole = m
    BY <1>1, <2>6, <2>7, DivUnique
  <2> QED
    BY <1>1, <1>3, <2>1, <2>8 DEF x, m, r
<1> QED
  BY <1>1, <1>2, <1>3

(* An instruction keeps both clocks in step, and the parts of the value in *)
(* their ranges.                                                           *)
LEMMA OpInv ==
  ASSUME Spc!TypeOK, ClockInv, running, UNCHANGED Spc!clock, 
         NEW c \in OpCycles, NEW en, NEW rel \in Int, NEW v \in Int,
         0 <= rel, rel <= Spc!Whole, 0 <= v, v <= Spc!Whole * (MaxTicks + 1),
         Spc!AfterOp(c, en, rel, v)
  PROVE  /\ hcount' \in 0 .. Overrun /\ lastCycle' \in -Ratio * LineLen .. Ratio * Overrun
         /\ spcCycles' \in -SpcRatio * Spc!Longest .. Ratio * (LineLen + Overrun)
         /\ running' \in BOOLEAN
         /\ low' \in 0 .. Spc!Whole - 1 /\ high' \in 0 .. MaxTicks + 2
         /\ elapsed' \in 0 .. Sample - 1
         /\ ClockInv'
<1> USE SpcConstants
<1>1. /\ hcount' \in 0 .. Overrun /\ lastCycle' \in -Ratio * LineLen .. Ratio * Overrun
      /\ hcount' = hcount /\ lastCycle' = lastCycle
  BY DEF Spc!clock, Spc!TypeOK
<1>2. elapsed' \in 0 .. Sample - 1
  BY DEF Spc!AfterOp, Spc!TypeOK
<1>3. /\ spcCycles' = spcCycles - (SpcRatio * c) /\ debt' = debt - (SpcRatio * c)
      /\ running' = (spcCycles' >= 0)
      /\ spcCycles \in Int /\ 0 <= spcCycles /\ spcCycles <= Ratio * (LineLen + Overrun)
      /\ spcCycles = debt
  BY DEF Spc!AfterOp, Spc!TypeOK, ClockInv
<1>4. /\ SpcRatio * c \in Int /\ 0 <= SpcRatio * c /\ SpcRatio * c <= SpcRatio * Spc!Longest
      /\ SpcRatio * Spc!Longest \in Int
  <2>1. SpcRatio * c \in Int /\ SpcRatio * c <= SpcRatio * Spc!Longest
        /\ SpcRatio * Spc!Longest \in Int
    BY Scaled
  <2>2. SpcRatio * 0 <= SpcRatio * c
    BY Scaled
  <2> QED
    BY <2>1, <2>2
<1>5. /\ spcCycles' \in -SpcRatio * Spc!Longest .. Ratio * (LineLen + Overrun)
      /\ running' \in BOOLEAN
  <2>1. Ratio * (LineLen + Overrun) \in Int
    OBVIOUS
  <2>2. -SpcRatio * Spc!Longest = -(SpcRatio * Spc!Longest)
    OBVIOUS
  <2>3. spcCycles' \in -SpcRatio * Spc!Longest .. Ratio * (LineLen + Overrun)
    BY <1>3, <1>4, <2>1, <2>2
  <2> QED
    BY <1>3, <2>3
<1>6. ClockInv'
  <2>1. -SpcRatio * Spc!Longest = -(SpcRatio * Spc!Longest)
    OBVIOUS
  <2>2. spcCycles' = debt'
    BY <1>3
  <2>3. lastCycle' = Ratio * hcount'
    BY <1>1 DEF ClockInv
  <2>4. spcCycles' \in Int /\ debt' >= -SpcRatio * Spc!Longest
    BY <1>3, <1>4, <2>1
  <2> QED
    <3>1. running' => spcCycles' >= 0
      BY <1>3
    <3>2. spcCycles' >= 0 => running'
      BY <1>3, Zenon
    <3> QED
      BY <2>2, <2>3, <2>4, <3>1, <3>2 DEF ClockInv
<1>7. low' \in 0 .. Spc!Whole - 1 /\ high' \in 0 .. MaxTicks + 2
  <2> DEFINE counted == v + c
             w == IF ~en THEN v
                  ELSE IF (counted \div Half) % 2 = 0 THEN counted + rel ELSE counted
             top == Spc!Whole * (MaxTicks + 1)
  <2>1. low' = w % Spc!Whole /\ high' = w \div Spc!Whole
    BY DEF Spc!AfterOp
  <2>2. top \in Int /\ v <= top
    OBVIOUS
  <2>3. w \in Int /\ 0 <= w /\ w < (top + Spc!Whole) + Spc!Whole
    <3> HIDE DEF top
    <3> QED
      BY <2>2
  <2> HIDE DEF w
  <2>0. Spc!Whole \in Nat \ {0} /\ w \in Int
    BY <2>3
  <2>4. /\ w \div Spc!Whole \in Int /\ w % Spc!Whole \in Int
        /\ 0 <= w % Spc!Whole /\ w % Spc!Whole < Spc!Whole
        /\ w = (Spc!Whole * (w \div Spc!Whole)) + (w % Spc!Whole)
    BY <2>0, DivMod
  <2>5. ASSUME w \div Spc!Whole >= MaxTicks + 3 PROVE FALSE
    <3> DEFINE k == w \div Spc!Whole
    <3>0. k \in Int /\ MaxTicks + 3 \in Int /\ MaxTicks + 3 <= k
      BY <2>4, <2>5
    <3>1. Spc!Whole * (MaxTicks + 3) <= Spc!Whole * (w \div Spc!Whole)
      <4> HIDE DEF k
      <4>1. Spc!Whole * (MaxTicks + 3) <= Spc!Whole * k
        BY <2>0, <3>0, Scaled
      <4> QED
        BY <4>1 DEF k
    <3>2. Spc!Whole * (MaxTicks + 3) = (top + Spc!Whole) + Spc!Whole
      OBVIOUS
    <3> QED
      BY <2>2, <2>3, <2>4, <3>1, <3>2
  <2>6. 0 <= w \div Spc!Whole
    BY <2>3
  <2>7. w \div Spc!Whole < MaxTicks + 3
    BY <2>4, <2>5
  <2>8. low' \in 0 .. Spc!Whole - 1
    BY <2>1, <2>4
  <2>9. high' \in 0 .. MaxTicks + 2
    BY <2>1, <2>4, <2>6, <2>7
  <2> QED
    BY <2>8, <2>9
<1> QED
  BY <1>1, <1>2, <1>5, <1>6, <1>7

LEMMA SpcInit == ASSUME Spc!Init PROVE SpcInv
<1> USE SpcConstants
<1>0. /\ -SpcRatio * Spc!Longest <= 0 /\ 0 <= Ratio * (LineLen + Overrun)
      /\ -Ratio * LineLen <= 0 /\ 0 <= Ratio * Overrun /\ Ratio * 0 = 0
      /\ -SpcRatio * Spc!Longest \in Int /\ Ratio * (LineLen + Overrun) \in Int
      /\ -Ratio * LineLen \in Int /\ Ratio * Overrun \in Int
  OBVIOUS
<1>1. Spc!TypeOK
  <2>1. /\ lastCycle \in -Ratio * LineLen .. Ratio * Overrun
        /\ spcCycles \in -SpcRatio * Spc!Longest .. Ratio * (LineLen + Overrun)
    BY <1>0 DEF Spc!Init
  <2>2. /\ low \in 0 .. Spc!Whole - 1 /\ reload \in 0 .. Spc!Whole
        /\ high \in 0 .. MaxTicks + 2 /\ elapsed \in 0 .. Sample - 1 /\ hcount \in 0 .. Overrun
        /\ inPort \in 0 .. 1 /\ outPort \in 0 .. 1
    BY DEF Spc!Init
  <2> QED
    BY <2>1, <2>2 DEF Spc!Init, Spc!TypeOK
<1>2. ClockInv
  BY <1>0 DEF Spc!Init, ClockInv
<1>3. PeriodInv /\ Spc!TimerRight
  BY DEF Spc!Init, PeriodInv, Spc!TimerRight
<1> QED
  BY <1>1, <1>2, <1>3 DEF SpcInv

LEMMA RunLineInv == ASSUME SpcInv, Spc!RunLine PROVE SpcInv'
<1> USE SpcConstants
<1>1. PICK end \in LineLen .. LineLen + Overrun, q \in 0 .. 1 :
        LET given == Ratio * end - lastCycle
        IN /\ ~running
           /\ inPort' = q
           /\ hcount' = end - LineLen
           /\ lastCycle' = Ratio * end - Ratio * LineLen
           /\ debt' = debt + Ratio * (end - hcount)
           /\ spcCycles' = IF given > 0 THEN spcCycles + given ELSE spcCycles
           /\ running' = (given > 0 /\ spcCycles + given > 0)
           /\ UNCHANGED <<Spc!timer, elapsed, outPort, Spc!count>>
  BY DEF Spc!RunLine
<1> DEFINE g == Ratio * (end - hcount)
           most == Ratio * (LineLen + Overrun)
           least == SpcRatio * Spc!Longest
<1>2. /\ hcount \in Int /\ 0 <= hcount /\ hcount <= Overrun /\ end \in Int
      /\ LineLen <= end /\ end <= LineLen + Overrun
      /\ spcCycles \in Int /\ spcCycles = debt /\ lastCycle = Ratio * hcount /\ ~running
      /\ debt <= 0 /\ debt >= -SpcRatio * Spc!Longest
  BY <1>1 DEF SpcInv, Spc!TypeOK, ClockInv
<1>3. -SpcRatio * Spc!Longest = -least /\ least \in Int /\ 0 <= least
  OBVIOUS
<1>4. Ratio * end - lastCycle = g /\ g \in Int /\ 0 <= g /\ g <= most /\ most \in Int
  <2>1. Ratio * 0 <= Ratio * (end - hcount)
    BY <1>2, Scaled
  <2>2. Ratio * (end - hcount) <= Ratio * (LineLen + Overrun)
    BY <1>2, Scaled
  <2>3. Ratio * end - Ratio * hcount = Ratio * (end - hcount)
    BY <1>2
  <2> QED
    BY <1>2, <2>1, <2>2, <2>3
<1>5. /\ debt' = debt + g /\ spcCycles' = spcCycles + g
      /\ running' = (g > 0 /\ spcCycles + g > 0)
  <2> HIDE DEF g
  <2> QED
    BY <1>1, <1>2, <1>4
<1>6. lastCycle' = Ratio * hcount' /\ hcount' \in 0 .. Overrun
  BY <1>1, <1>2
<1>7. lastCycle' \in -Ratio * LineLen .. Ratio * Overrun
  <2> DEFINE h == hcount'
  <2>0. h \in Int /\ 0 <= h /\ h <= Overrun /\ lastCycle' = Ratio * h
    BY <1>6
  <2> HIDE DEF h
  <2>1. /\ Ratio * 0 <= Ratio * h /\ Ratio * h \in Int
        /\ Ratio * h <= Ratio * Overrun /\ Ratio * Overrun \in Int
    BY <2>0, Scaled
  <2>2. -Ratio * LineLen <= 0 /\ -Ratio * LineLen \in Int /\ Ratio * 0 = 0
    OBVIOUS
  <2> QED
    BY <2>0, <2>1, <2>2
<1> HIDE DEF g, most, least
<1>8. spcCycles' \in -SpcRatio * Spc!Longest .. Ratio * (LineLen + Overrun)
      /\ running' \in BOOLEAN
  BY <1>2, <1>3, <1>4, <1>5 DEF most
<1>9. Spc!TypeOK'
  BY <1>1, <1>6, <1>7, <1>8 DEF SpcInv, Spc!TypeOK, Spc!timer
<1>10. ClockInv'
  <2>1. spcCycles' = debt'
    BY <1>2, <1>5
  <2>2. running' => spcCycles' >= 0
    <3>1. running' => spcCycles + g > 0
      BY <1>5
    <3> QED
      BY <1>2, <1>4, <1>5, <3>1
  <2>3. ~running' => debt' <= 0 /\ debt' >= -least
    <3>0. g > 0 /\ spcCycles + g > 0 => running'
      BY <1>5, Zenon
    <3>1. ~running' => g = 0 \/ spcCycles + g <= 0
      BY <1>2, <1>4, <3>0
    <3>2. debt' >= -least
      BY <1>2, <1>3, <1>4, <1>5
    <3> QED
      BY <1>2, <1>4, <1>5, <3>1, <3>2
  <2> QED
    BY <1>3, <1>6, <2>1, <2>2, <2>3 DEF ClockInv
<1>11. PeriodInv' /\ Spc!TimerRight'
  BY <1>1 DEF SpcInv, PeriodInv, Spc!TimerRight, Spc!timer, Spc!count
<1> QED
  BY <1>9, <1>10, <1>11 DEF SpcInv

(* The history of the timer follows it, whether the instruction read the   *)
(* ticks (t is then 0), wrote the register, or neither.                    *)
LEMMA CountRight ==
  ASSUME SpcInv, NEW c \in OpCycles, NEW rel \in Int, NEW t \in Nat, NEW h \in Nat,
         rel > Half /\ rel < Spc!Whole => Unit <= Spc!Whole - rel,
         on /\ period # 0 => h = t,
         UNCHANGED on, reload' = rel, Spc!AfterOp(c, on, rel, Spc!Value(low, h)),
         IF on THEN Spc!Count(c, period, since, t, rel)
         ELSE UNCHANGED <<period, since>> /\ ticks' \in Nat
  PROVE  PeriodInv' /\ Spc!TimerRight'
<1>0. /\ Half \in Nat /\ Unit \in Nat /\ 0 < Unit /\ Unit < Half
      /\ Spc!Whole \in Nat /\ Spc!Whole = 2 * Half /\ c \in Nat /\ c <= Unit
  BY SpcConstants
<1>1. /\ period \in Nat /\ since \in Nat /\ ticks \in Nat /\ low \in Int
      /\ period # 0 => Unit <= period /\ period < Half /\ since < period
      /\ on /\ period # 0 => low = Spc!Whole - period + since
  BY <1>0 DEF SpcInv, PeriodInv, Spc!TypeOK, Spc!TimerRight
<1> DEFINE Regular == reload > Half /\ reload < Spc!Whole => Unit <= Spc!Whole - reload
<1>2. Regular'
  OBVIOUS
<1>3. CASE ~on
  <2>1. ~on' /\ UNCHANGED <<period, since>> /\ ticks' \in Nat
    BY <1>3
  <2> QED
    BY <1>1, <1>2, <2>1 DEF PeriodInv, Spc!TimerRight
<1>4. CASE on /\ period = 0
  <2>1. period' = 0 /\ since' = 0 /\ ticks' = 0
    BY <1>4 DEF Spc!Count
  <2> QED
    BY <1>2, <2>1 DEF PeriodInv, Spc!TimerRight
<1>5. CASE on /\ period # 0
  <2> DEFINE counted == (((Spc!Whole - period) + since) + (Spc!Whole * t)) + c
             w == IF (counted \div Half) % 2 = 0 THEN counted + rel ELSE counted
  <2>1. Spc!Value(low, h) + c = counted
    BY <1>1, <1>5 DEF Spc!Value
  <2>2. low' = w % Spc!Whole /\ high' = w \div Spc!Whole
    <3> HIDE DEF counted
    <3> QED
      BY <1>5, <2>1 DEF Spc!AfterOp
  <2>3. /\ since + c < period =>
              w % Spc!Whole = (Spc!Whole - period) + (since + c) /\ w \div Spc!Whole = t
        /\ since + c >= period /\ rel > Half /\ rel < Spc!Whole /\ Unit <= Spc!Whole - rel =>
              /\ w % Spc!Whole = rel + ((since + c) - period) /\ w \div Spc!Whole = t + 1
              /\ (since + c) - period < Spc!Whole - rel
    <3>1. period \in Int /\ since \in Int /\ Unit <= period /\ period < Half /\ 0 <= since
          /\ since < period
      BY <1>1, <1>5
    <3> QED
      BY <3>1, TimerMoves
  <2> HIDE DEF w
  <2>4. CASE since + c < period
    <3>1. period' = period /\ since' = since + c /\ ticks' = t
      BY <1>0, <1>1, <1>5, <2>4 DEF Spc!Count
    <3>2. low' = (Spc!Whole - period') + since' /\ high' = ticks'
      BY <2>2, <2>3, <2>4, <3>1
    <3> QED
      BY <1>0, <1>1, <1>2, <1>5, <2>4, <3>1, <3>2 DEF PeriodInv, Spc!TimerRight
  <2>5. CASE since + c >= period
    <3>1. /\ ticks' = t + 1
          /\ period' = IF rel \in Half + 1 .. Spc!Whole - 1 THEN Spc!Whole - rel ELSE 0
          /\ since' = IF period' = 0 THEN 0 ELSE since + c - period
      BY <1>5, <2>5 DEF Spc!Count
    <3>2. CASE rel > Half /\ rel < Spc!Whole
      <4>1. period' = Spc!Whole - rel /\ since' = (since + c) - period /\ Unit <= period'
        BY <1>0, <1>1, <3>1, <3>2
      <4>2. low' = (Spc!Whole - period') + since' /\ high' = ticks' /\ since' < period'
        BY <1>0, <1>1, <2>2, <2>3, <2>5, <3>1, <3>2, <4>1
      <4>3. since' \in Nat /\ period' \in Nat /\ ticks' \in Nat /\ period' < Half
        BY <1>0, <1>1, <2>5, <3>1, <3>2, <4>1
      <4> QED
        BY <1>2, <4>1, <4>2, <4>3 DEF PeriodInv, Spc!TimerRight
    <3>3. CASE ~(rel > Half /\ rel < Spc!Whole)
      <4>1. period' = 0 /\ since' = 0 /\ ticks' \in Nat
        BY <1>0, <3>1, <3>3
      <4> QED
        BY <1>2, <4>1 DEF PeriodInv, Spc!TimerRight
    <3> QED
      BY <3>2, <3>3
  <2> QED
    BY <1>0, <1>1, <2>4, <2>5
<1>6. on \in BOOLEAN
  BY DEF SpcInv, Spc!TypeOK
<1> QED
  BY <1>3, <1>4, <1>5, <1>6

(* Writing the control register starts the timers that are on again.       *)
LEMMA ControlRight == ASSUME SpcInv, Spc!WriteControl PROVE PeriodInv' /\ Spc!TimerRight'
<1>0. /\ Half \in Nat /\ Unit \in Nat /\ 0 < Unit /\ Unit < Half
      /\ Spc!Whole \in Nat /\ Spc!Whole = 2 * Half
  BY SpcConstants
<1>1. PICK c \in OpCycles, en \in BOOLEAN, clear \in BOOLEAN :
        LET regular == en /\ reload \in Half + 1 .. Spc!Whole - 1
            p == IF regular THEN Spc!Whole - reload ELSE 0
        IN /\ Spc!AfterOp(c, en, reload, IF en THEN reload ELSE 0)
           /\ on' = en
           /\ inPort' = IF clear THEN 0 ELSE inPort
           /\ IF regular
              THEN IF c >= p THEN since' = c - p /\ ticks' = 1 /\ period' = p
                   ELSE since' = c /\ ticks' = 0 /\ period' = p
              ELSE since' = 0 /\ ticks' = 0 /\ period' = 0
           /\ UNCHANGED <<reload, outPort>>
  BY DEF Spc!WriteControl
<1>2. c \in Nat /\ c <= Unit /\ reload \in Int /\ UNCHANGED reload
      /\ (reload > Half /\ reload < Spc!Whole => Unit <= Spc!Whole - reload)
  BY <1>0, <1>1, SpcConstants DEF SpcInv, PeriodInv, Spc!TypeOK
<1>3. CASE en /\ reload > Half /\ reload < Spc!Whole
  <2> DEFINE p == Spc!Whole - reload
  <2>1. p \in Int /\ Unit <= p /\ p < Half /\ 0 \in Int /\ 0 < p /\ 0 \in Nat
    BY <1>0, <1>2, <1>3
  <2>2. /\ Spc!AfterOp(c, en, reload, reload)
        /\ IF c >= p THEN since' = c - p /\ ticks' = 1 /\ period' = p
           ELSE since' = c /\ ticks' = 0 /\ period' = p
    <3>1. en /\ reload \in Half + 1 .. Spc!Whole - 1
      BY <1>0, <1>2, <1>3
    <3> QED
      BY <1>1, <3>1
  <2> DEFINE z == 0
             counted == (((Spc!Whole - p) + z) + (Spc!Whole * z)) + c
             w == IF (counted \div Half) % 2 = 0 THEN counted + reload ELSE counted
  <2>3. reload + c = counted
    BY <1>0, <1>2
  <2>4. low' = w % Spc!Whole /\ high' = w \div Spc!Whole
    <3> HIDE DEF counted
    <3> QED
      BY <1>3, <2>2, <2>3 DEF Spc!AfterOp
  <2>5. /\ z + c < p => w % Spc!Whole = (Spc!Whole - p) + (z + c) /\ w \div Spc!Whole = z
        /\ z + c >= p /\ reload > Half /\ reload < Spc!Whole /\ Unit <= Spc!Whole - reload =>
              /\ w % Spc!Whole = reload + ((z + c) - p) /\ w \div Spc!Whole = z + 1
              /\ (z + c) - p < Spc!Whole - reload
    <3>1. z \in Int /\ z \in Nat /\ 0 <= z /\ z < p
      BY <2>1
    <3>2. p \in Int /\ Unit <= p /\ p < Half /\ reload \in Int
      BY <1>2, <2>1
    <3>3. counted = (((Spc!Whole - p) + z) + (Spc!Whole * z)) + c
      OBVIOUS
    <3>4. w = IF (counted \div Half) % 2 = 0 THEN counted + reload ELSE counted
      OBVIOUS
    <3> HIDE DEF p, z, counted, w
    <3> QED
      BY <3>1, <3>2, <3>3, <3>4, TimerMoves
  <2> HIDE DEF w
  <2>6. CASE c < p
    <3>1. since' = c /\ ticks' = 0 /\ period' = p
      BY <1>2, <2>1, <2>2, <2>6
    <3>2. low' = Spc!Whole - period' + since' /\ high' = ticks'
      BY <1>0, <1>2, <2>1, <2>4, <2>5, <2>6, <3>1
    <3> QED
      BY <1>0, <1>2, <2>1, <2>6, <3>1, <3>2 DEF PeriodInv, Spc!TimerRight
  <2>7. CASE c >= p
    <3>1. since' = c - p /\ ticks' = 1 /\ period' = p
      BY <2>2, <2>7
    <3>2. low' = Spc!Whole - period' + since' /\ high' = ticks' /\ since' < period'
      BY <1>0, <1>2, <1>3, <2>1, <2>4, <2>5, <2>7, <3>1
    <3> QED
      BY <1>0, <1>2, <2>1, <2>7, <3>1, <3>2 DEF PeriodInv, Spc!TimerRight
  <2> QED
    BY <1>2, <2>1, <2>6, <2>7
<1>4. CASE ~(en /\ reload > Half /\ reload < Spc!Whole)
  <2>1. since' = 0 /\ ticks' = 0 /\ period' = 0
    BY <1>0, <1>1, <1>2, <1>4
  <2> QED
    BY <1>2, <2>1 DEF PeriodInv, Spc!TimerRight
<1> QED
  BY <1>3, <1>4

(* The value of the timer before the instruction is within its bounds.     *)
LEMMA ValueBound ==
  ASSUME SpcInv, high <= MaxTicks, NEW h \in {0, high}
  PROVE  /\ Spc!Value(low, h) \in Int /\ 0 <= Spc!Value(low, h)
         /\ Spc!Value(low, h) <= Spc!Whole * (MaxTicks + 1) /\ h \in Nat
<1>1. /\ Spc!Whole \in Nat /\ MaxTicks \in Nat /\ low \in Int /\ 0 <= low /\ low < Spc!Whole
      /\ high \in Nat
  BY SpcConstants DEF SpcInv, Spc!TypeOK
<1>2. h \in Int /\ 0 <= h /\ h <= MaxTicks
  BY <1>1
<1>3. Spc!Whole * h \in Int /\ Spc!Whole * h <= Spc!Whole * MaxTicks
      /\ Spc!Whole * MaxTicks \in Int
  BY <1>1, <1>2, Scaled
<1>4. Spc!Whole * 0 <= Spc!Whole * h
  BY <1>1, <1>2, Scaled
<1>5. Spc!Whole * (MaxTicks + 1) = Spc!Whole * MaxTicks + Spc!Whole
  BY <1>1
<1> QED
  BY <1>1, <1>2, <1>3, <1>4, <1>5 DEF Spc!Value

LEMMA SpcRunInv == ASSUME SpcInv, Spc!SPC_Run PROVE SpcInv'
<1>0. running /\ high <= MaxTicks /\ UNCHANGED Spc!clock
  BY DEF Spc!SPC_Run
<1>t. Spc!TypeOK /\ ClockInv /\ PeriodInv /\ Spc!TimerRight
  BY DEF SpcInv
<1>c. /\ Spc!Whole \in Nat /\ Half \in Nat /\ Spc!Whole = 2 * Half /\ MaxTicks \in Nat
      /\ Unit \in Nat
  BY SpcConstants
<1>1. /\ on \in BOOLEAN /\ reload \in Int /\ 0 <= reload /\ reload <= Spc!Whole
      /\ ticks \in Nat /\ high \in Nat
      /\ (reload > Half /\ reload < Spc!Whole => Unit <= Spc!Whole - reload)
      /\ (on /\ period # 0 => high = ticks)
  BY <1>t, <1>c DEF Spc!TypeOK, PeriodInv, Spc!TimerRight
<1>2. ASSUME NEW c \in OpCycles, NEW en \in BOOLEAN, NEW rel \in Int, NEW v \in Int,
             0 <= rel, rel <= Spc!Whole, 0 <= v, v <= Spc!Whole * (MaxTicks + 1),
             Spc!AfterOp(c, en, rel, v), on' \in BOOLEAN, reload' = rel,
             inPort' \in 0 .. 1, outPort' \in 0 .. 1, PeriodInv', Spc!TimerRight'
      PROVE  SpcInv'
  <2>1. /\ hcount' \in 0 .. Overrun /\ lastCycle' \in -Ratio * LineLen .. Ratio * Overrun
        /\ spcCycles' \in -SpcRatio * Spc!Longest .. Ratio * (LineLen + Overrun)
        /\ running' \in BOOLEAN
        /\ low' \in 0 .. Spc!Whole - 1 /\ high' \in 0 .. MaxTicks + 2
        /\ elapsed' \in 0 .. Sample - 1
        /\ ClockInv'
    BY <1>0, <1>t, <1>2, OpInv
  <2>2. reload' \in 0 .. Spc!Whole
    BY <1>2, <1>c
  <2>3. Spc!TypeOK'
    BY <1>2, <2>1, <2>2 DEF Spc!TypeOK
  <2> QED
    BY <1>2, <2>1, <2>3 DEF SpcInv
<1>3. ASSUME NEW c \in OpCycles, NEW rel \in Int, NEW t \in {0, ticks}, NEW h \in {0, high},
             0 <= rel, rel <= Spc!Whole,
             rel > Half /\ rel < Spc!Whole => Unit <= Spc!Whole - rel,
             on /\ period # 0 => h = t,
             Spc!AfterOp(c, on, rel, Spc!Value(low, h)), UNCHANGED on, reload' = rel,
             inPort' \in 0 .. 1, outPort' \in 0 .. 1,
             IF on THEN Spc!Count(c, period, since, t, rel)
             ELSE UNCHANGED <<period, since>> /\ ticks' \in Nat
      PROVE  SpcInv'
  <2>1. /\ Spc!Value(low, h) \in Int /\ 0 <= Spc!Value(low, h)
        /\ Spc!Value(low, h) <= Spc!Whole * (MaxTicks + 1) /\ h \in Nat
    BY <1>0, ValueBound
  <2>2. t \in Nat
    BY <1>1
  <2>3. PeriodInv' /\ Spc!TimerRight'
    BY <1>3, <2>1, <2>2, CountRight
  <2> QED
    BY <1>1, <1>2, <1>3, <2>1, <2>3
<1>4. ASSUME UNCHANGED <<inPort, outPort>> PROVE inPort' \in 0 .. 1 /\ outPort' \in 0 .. 1
  BY <1>4, <1>t DEF Spc!TypeOK
<1>5. CASE Spc!Plain
  <2>1. PICK c \in OpCycles :
          /\ Spc!AfterOp(c, on, reload, Spc!Value(low, high))
          /\ IF on THEN Spc!Count(c, period, since, ticks, reload) ELSE UNCHANGED Spc!count
          /\ UNCHANGED <<on, reload, inPort, outPort>>
    BY <1>5 DEF Spc!Plain
  <2>2. IF on THEN Spc!Count(c, period, since, ticks, reload)
        ELSE UNCHANGED <<period, since>> /\ ticks' \in Nat
    BY <1>1, <2>1 DEF Spc!count
  <2> QED
    BY <1>1, <1>3, <1>4, <2>1, <2>2
<1>6. CASE Spc!ReadTimer
  <2>1. PICK c \in OpCycles :
          /\ Spc!AfterOp(c, on, reload, Spc!Value(low, 0))
          /\ IF on THEN Spc!Count(c, period, since, 0, reload)
             ELSE ticks' = 0 /\ UNCHANGED <<period, since>>
          /\ UNCHANGED <<on, reload, inPort, outPort>>
    BY <1>6 DEF Spc!ReadTimer
  <2>2. IF on THEN Spc!Count(c, period, since, 0, reload)
        ELSE UNCHANGED <<period, since>> /\ ticks' \in Nat
    BY <2>1
  <2> QED
    BY <1>1, <1>3, <1>4, <2>1, <2>2
<1>7. CASE Spc!WriteControl
  <2>1. PICK c \in OpCycles, en \in BOOLEAN, clear \in BOOLEAN :
          /\ Spc!AfterOp(c, en, reload, IF en THEN reload ELSE 0)
          /\ on' = en /\ inPort' = (IF clear THEN 0 ELSE inPort)
          /\ UNCHANGED <<reload, outPort>>
    BY <1>7 DEF Spc!WriteControl
  <2>2. inPort' \in 0 .. 1 /\ outPort' \in 0 .. 1
    BY <1>t, <2>1 DEF Spc!TypeOK
  <2> DEFINE v == IF en THEN reload ELSE 0
  <2>3. v \in Int /\ 0 <= v /\ v <= Spc!Whole
    BY <1>1, <1>c
  <2>4. Spc!Whole \in Int /\ Spc!Whole <= Spc!Whole * (MaxTicks + 1)
    <3>1. Spc!Whole * 1 <= Spc!Whole * (MaxTicks + 1)
      BY <1>c, Scaled
    <3> QED
      BY <1>c, <3>1
  <2>5. v <= Spc!Whole * (MaxTicks + 1)
    <3> HIDE DEF v
    <3> QED
      BY <1>c, <2>3, <2>4
  <2>6. Spc!AfterOp(c, en, reload, v)
    BY <2>1
  <2> HIDE DEF v
  <2> QED
    BY <1>1, <1>2, <1>7, <2>1, <2>2, <2>3, <2>5, <2>6, ControlRight
<1>8. CASE Spc!WriteReload
  <2>1. PICK c \in OpCycles, n \in Reloads :
          /\ Spc!AfterOp(c, on, Spc!Whole - n * Unit, Spc!Value(low, high))
          /\ reload' = Spc!Whole - n * Unit
          /\ IF on THEN Spc!Count(c, period, since, ticks, Spc!Whole - n * Unit)
             ELSE UNCHANGED Spc!count
          /\ UNCHANGED <<on, inPort, outPort>>
    BY <1>8 DEF Spc!WriteReload
  <2> DEFINE rel == Spc!Whole - n * Unit
  <2>2. /\ rel \in Int /\ 0 <= rel /\ rel <= Spc!Whole
        /\ rel > Half /\ rel < Spc!Whole => Unit <= Spc!Whole - rel
    <3>1. n \in Nat /\ n * Unit \in Nat /\ n * Unit < Half
      BY SpcConstants
    <3>2. n # 0 => Unit * 1 <= Unit * n
      BY <1>c, <3>1, Scaled
    <3>3. n = 0 => n * Unit = 0
      BY <1>c
    <3>4. Unit * n = n * Unit /\ Unit * 1 = Unit
      BY <1>c, <3>1
    <3> QED
      BY <1>c, <3>1, <3>2, <3>3, <3>4
  <2>3. /\ Spc!AfterOp(c, on, rel, Spc!Value(low, high)) /\ reload' = rel
        /\ IF on THEN Spc!Count(c, period, since, ticks, rel)
           ELSE UNCHANGED <<period, since>> /\ ticks' \in Nat
    BY <1>1, <2>1 DEF Spc!count
  <2> HIDE DEF rel
  <2> QED
    BY <1>1, <1>3, <1>4, <2>1, <2>2, <2>3
<1>9. CASE Spc!WritePort
  <2>1. PICK c \in OpCycles, q \in 0 .. 1 :
          /\ Spc!AfterOp(c, on, reload, Spc!Value(low, high))
          /\ outPort' = q
          /\ IF on THEN Spc!Count(c, period, since, ticks, reload) ELSE UNCHANGED Spc!count
          /\ UNCHANGED <<on, reload, inPort>>
    BY <1>9 DEF Spc!WritePort
  <2>2. IF on THEN Spc!Count(c, period, since, ticks, reload)
        ELSE UNCHANGED <<period, since>> /\ ticks' \in Nat
    BY <1>1, <2>1 DEF Spc!count
  <2>3. inPort' \in 0 .. 1 /\ outPort' \in 0 .. 1
    BY <1>t, <2>1 DEF Spc!TypeOK
  <2> QED
    BY <1>1, <1>3, <2>1, <2>2, <2>3
<1> QED
  BY <1>5, <1>6, <1>7, <1>8, <1>9 DEF Spc!SPC_Run

LEMMA SpcStepInv == ASSUME SpcInv, [Spc!Next]_spcVars PROVE SpcInv'
<1>1. CASE UNCHANGED spcVars
  BY <1>1 DEF spcVars, SpcInv, Spc!TypeOK, ClockInv, PeriodInv, Spc!TimerRight
<1> QED
  BY <1>1, RunLineInv, SpcRunInv DEF Spc!Next

LEMMA SpcRight == ASSUME SpcInv PROVE Spc!TypeOK /\ Spc!SpcInStep /\ Spc!TimerRight
BY DEF SpcInv, ClockInv, Spc!SpcInStep

-----------------------------------------------------------------------------
(* The ports. A register written last has its first byte in its latch, and *)
(* an X position has the bits of it that it keeps for the next write.      *)
LatchTypes ==
  /\ bgOld \in Ports!Bytes /\ m7Old \in Ports!Bytes
  /\ scroll \in [Scrolls -> Ports!Words] /\ m7 \in [Matrix -> Ports!Words]

Latched == game \in {"scroll", "matrix"} /\ stream.data # <<>>
LatchInv ==
  Latched =>
    /\ stream.from \in Scrolls =>
         bgOld = stream.data[1] /\ (scroll[stream.from] \div Byte) % Fine = bgOld % Fine
    /\ stream.from \in Matrix => m7Old = stream.data[1]

LEMMA PortConstants ==
  /\ Byte \in Nat \ {0} /\ 2 <= Byte /\ Byte % 2 = 0
  /\ Fine \in Nat \ {0} /\ Fine <= Byte /\ Byte % Fine = 0
  /\ OamHigh \in Nat \ {0} /\ Rot \in Nat \ {0}
  /\ Steps \subseteq Nat /\ XScrolls \subseteq Scrolls /\ MaxSets \in Nat
  /\ \A d \in Data : d \in Nat /\ d < Byte
  /\ Byte \div 2 \in Nat \ {0} /\ Byte = 2 * (Byte \div 2)
BY PortAssumption

(* A number of two bytes.                                                  *)
LEMMA TwoBytes ==
  ASSUME NEW hi \in Int, NEW lo \in Int, 0 <= hi, hi < Byte, 0 <= lo, lo < Byte
  PROVE  /\ hi * Byte + lo \in Ports!Words
         /\ (hi * Byte + lo) \div Byte = hi /\ (hi * Byte + lo) % Byte = lo
<1>1. Byte \in Nat \ {0}
  BY PortConstants
<1>2. hi * Byte + lo = (Byte * hi) + lo
  BY <1>1
<1>3. ((Byte * hi) + lo) \div Byte = hi /\ ((Byte * hi) + lo) % Byte = lo
  BY <1>1, DivUnique
<1>4. /\ Byte * 0 <= Byte * hi /\ Byte * hi <= Byte * (Byte - 1) /\ Byte * hi \in Int
  BY <1>1, Scaled
<1>5. Byte * (Byte - 1) = Byte * Byte - Byte /\ Byte * Byte \in Int /\ Byte * 0 = 0
  BY <1>1
<1>6. hi * Byte + lo \in Ports!Words
  BY <1>1, <1>2, <1>4, <1>5 DEF Ports!Words
<1> QED
  BY <1>2, <1>3, <1>6

(* PPU_SetBGXPos, PPU_SetBGYPos: the high byte is the one written, and the *)
(* low byte that of the latch if the bits kept agree with it.              *)
LEMMA PositionIs ==
  ASSUME LatchTypes, NEW r \in Scrolls, NEW val \in Ports!Bytes,
         NEW x, x = Ports!Position(r, val)
  PROVE  /\ x \in Ports!Words /\ x \div Byte = val
         /\ (scroll[r] \div Byte) % Fine = bgOld % Fine => x = val * Byte + bgOld
<1>1. /\ Byte \in Nat \ {0} /\ Fine \in Nat \ {0} /\ Byte % Fine = 0
      /\ val \in Int /\ 0 <= val /\ val < Byte /\ bgOld \in Int /\ 0 <= bgOld /\ bgOld < Byte
      /\ scroll[r] \in Int
  BY PortConstants DEF LatchTypes, Ports!Bytes, Ports!Words
<1> DEFINE q == bgOld \div Fine
           k == Byte \div Fine
           fine == (scroll[r] \div Byte) % Fine
           lo == IF r \in XScrolls THEN (bgOld - (bgOld % Fine)) + fine ELSE bgOld
<1>2. /\ q \in Int /\ bgOld % Fine \in Int /\ 0 <= bgOld % Fine /\ bgOld % Fine < Fine
      /\ bgOld = (Fine * q) + (bgOld % Fine)
  BY <1>1, DivMod
<1>3. k \in Int /\ Byte = Fine * k
  <2>1. k \in Int /\ Byte % Fine \in Int /\ Byte = (Fine * k) + (Byte % Fine)
    BY <1>1, DivMod
  <2> HIDE DEF k
  <2> QED
    BY <1>1, <2>1
<1>4. fine \in Int /\ 0 <= fine /\ fine < Fine
  <2>1. scroll[r] \div Byte \in Int
    BY <1>1, DivMod
  <2> QED
    BY <1>1, <2>1, DivMod
<1> HIDE DEF q, k, fine
<1>5. q <= k - 1
  <2>1. ASSUME q >= k PROVE FALSE
    <3>1. Fine * k <= Fine * q
      BY <1>1, <1>2, <1>3, <2>1, Scaled
    <3> QED
      BY <1>1, <1>2, <1>3, <3>1
  <2> QED
    BY <1>2, <1>3, <2>1
<1>6. Fine * q <= Fine * (k - 1) /\ Fine * q \in Int
  BY <1>1, <1>2, <1>3, <1>5, Scaled
<1>7. Fine * (k - 1) = Byte - Fine
  BY <1>1, <1>3
<1>8. bgOld - (bgOld % Fine) \in Int /\ bgOld - (bgOld % Fine) = Fine * q /\ 0 <= Fine * q
  <2>1. 0 <= q
    BY <1>1 DEF q
  <2>2. Fine * 0 <= Fine * q
    BY <1>1, <1>2, <2>1, Scaled
  <2> QED
    BY <1>1, <1>2, <1>6, <2>2
<1>9. lo \in Int /\ 0 <= lo /\ lo < Byte
  BY <1>1, <1>4, <1>6, <1>7, <1>8
<1>10. fine = bgOld % Fine => lo = bgOld
  BY <1>1, <1>2
<1>11. x = val * Byte + lo
  BY DEF Ports!Position, fine
<1> HIDE DEF lo
<1>12. x \in Ports!Words /\ x \div Byte = val
  BY <1>1, <1>9, <1>11, TwoBytes
<1> QED
  BY <1>10, <1>11, <1>12 DEF fine

(* A write to a port with a latch.                                         *)
LEMMA LatchPortRight ==
  ASSUME LatchTypes, LatchInv, Ports!LatchPort, UNCHANGED game
  PROVE  /\ LatchTypes' /\ LatchInv' /\ stream'.data # <<>>
         /\ Ports!ScrollWholeStep /\ Ports!MatrixWholeStep
<1>1. PICK val \in Ports!Bytes, r \in Scrolls \cup Matrix :
        \/ r \in Scrolls /\ Ports!WriteScroll(r, val)
        \/ r \in Matrix \ Scrolls /\ Ports!WriteMatrix(r, val)
  BY DEF Ports!LatchPort
<1>2. stream' = [from |-> r, data |-> <<val>>]
  BY <1>1 DEF Ports!WriteScroll, Ports!WriteMatrix
<1>3. stream'.from = r /\ stream'.data = <<val>> /\ stream'.data[1] = val
      /\ stream'.data # <<>>
  BY <1>2
<1>4. /\ Byte \in Nat \ {0} /\ val \in Int /\ 0 <= val /\ val < Byte
      /\ m7Old \in Int /\ 0 <= m7Old /\ m7Old < Byte /\ bgOld \in Int
  BY PortConstants DEF LatchTypes, Ports!Bytes
<1>5. val * Byte + m7Old \in Ports!Words
  BY <1>4, TwoBytes
<1>6. r \in Scrolls =>
        /\ scroll' = [scroll EXCEPT ![r] = Ports!Position(r, val)] /\ bgOld' = val
        /\ Ports!Position(r, val) \in Ports!Words /\ Ports!Position(r, val) \div Byte = val
        /\ (scroll[r] \div Byte) % Fine = bgOld % Fine =>
             Ports!Position(r, val) = val * Byte + bgOld
  BY <1>1, PositionIs DEF Ports!WriteScroll
<1>7. r \in Matrix => m7' = [m7 EXCEPT ![r] = val * Byte + m7Old] /\ m7Old' = val
  BY <1>1 DEF Ports!WriteScroll, Ports!WriteMatrix
<1>8. /\ r \notin Scrolls => UNCHANGED <<scroll, bgOld>>
      /\ r \notin Matrix => UNCHANGED <<m7, m7Old>>
  BY <1>1 DEF Ports!WriteScroll, Ports!WriteMatrix
<1>9. LatchTypes'
  BY <1>5, <1>6, <1>7, <1>8 DEF LatchTypes
<1>10. /\ r \in Scrolls => scroll'[r] = Ports!Position(r, val)
       /\ r \in Matrix => m7'[r] = val * Byte + m7Old
  BY <1>6, <1>7 DEF LatchTypes
<1>11. LatchInv'
  BY <1>3, <1>6, <1>7, <1>10 DEF LatchInv, Latched
<1>12. Ports!ScrollWholeStep
  BY <1>3, <1>6, <1>10 DEF Ports!ScrollWholeStep, LatchInv, Latched
<1>13. Ports!MatrixWholeStep
  BY <1>3, <1>10 DEF Ports!MatrixWholeStep, LatchInv, Latched
<1> QED
  BY <1>3, <1>9, <1>11, <1>12, <1>13

-----------------------------------------------------------------------------
(* OAM. Its address is where the stream's next byte goes, and the latch    *)
(* holds the stream's last byte if that is the first of a word.            *)
OamAt(j) == (stream.from + j - 1) % (4 * Byte)

OamTypes ==
  /\ oam \in [0 .. Ports!OamSize - 1 -> Ports!Bytes] /\ oamAddr \in 0 .. 4 * Byte - 1
  /\ oamVal \in Ports!Bytes /\ oamReload \in 0 .. Ports!OamLow - 1
  /\ oamPrio \in BOOLEAN /\ firstObj \in 0 .. Byte \div 2 - 1

OamInv ==
  game = "oam" =>
    /\ stream \in [from : 0 .. 4 * Byte - 1, data : Seq(Data)]
    /\ oamAddr = OamAt(Len(stream.data) + 1)
    /\ Len(stream.data) > 0 /\ oamAddr % 2 = 1 /\ oamAddr < Ports!OamLow =>
         oamVal = stream.data[Len(stream.data)]
    /\ Ports!OamStream

(* A remainder may be taken at any point of a sum.                         *)
LEMMA ModStep ==
  ASSUME NEW n \in Nat \ {0}, NEW a \in Int, NEW b \in Int
  PROVE  ((a % n) + b) % n = (a + b) % n
<1> DEFINE s == (a % n) + b
           p == a \div n
           q == s \div n
           z == s % n
<1>1. /\ p \in Int /\ a % n \in Int /\ a = (n * p) + (a % n) /\ s \in Int
  BY DivMod
<1>2. q \in Int /\ z \in Int /\ 0 <= z /\ z < n /\ s = (n * q) + z
  <2> HIDE DEF s
  <2> QED
    BY <1>1, DivMod
<1> HIDE DEF p, q, z
<1>3. a + b = (n * p) + s
  BY <1>1
<1>4. a + b = (n * (p + q)) + z
  <2>1. n * (p + q) = (n * p) + (n * q)
    BY <1>1, <1>2
  <2> HIDE DEF s
  <2> QED
    BY <1>1, <1>2, <1>3, <2>1
<1>5. (a + b) % n = z
  <2> DEFINE m == p + q
  <2>1. m \in Int
    BY <1>1, <1>2
  <2> HIDE DEF m
  <2>2. ((n * m) + z) % n = z
    BY <1>2, <2>1, DivUnique
  <2> QED
    BY <1>4, <2>2 DEF m
<1> QED
  BY <1>5 DEF z

(* The next address: one on, and 0 after the last.                         *)
LEMMA OamNext ==
  ASSUME NEW a \in 0 .. 4 * Byte - 1
  PROVE  /\ (a + 1) % (4 * Byte) = IF a = 4 * Byte - 1 THEN 0 ELSE a + 1
         /\ (a + 1) % (4 * Byte) \in 0 .. 4 * Byte - 1
         /\ ((a + 1) % (4 * Byte)) % 2 = 1 - (a % 2)
         /\ a % 2 = 0 /\ a < Ports!OamLow => (a + 1) % (4 * Byte) = a + 1 /\ a + 1 < Ports!OamLow
<1>1. Byte \in Nat /\ 0 < Byte /\ a \in Int /\ 0 <= a /\ a < 4 * Byte /\ Ports!OamLow = 2 * Byte
  BY PortConstants DEF Ports!OamLow
<1>2. (a + 1) % (4 * Byte) = IF a = 4 * Byte - 1 THEN 0 ELSE a + 1
  <2> DEFINE n == 4 * Byte
  <2>1. n \in Nat \ {0}
    BY <1>1
  <2>2. CASE a = 4 * Byte - 1
    <3>1. a + 1 = (n * 1) + 0
      BY <1>1, <2>2
    <3> HIDE DEF n
    <3>2. (a + 1) % n = 0
      BY <2>1, <3>1, DivUnique
    <3> QED
      BY <2>2, <3>2 DEF n
  <2>3. CASE a # 4 * Byte - 1
    <3>1. a + 1 \in Int /\ 0 <= a + 1 /\ a + 1 < n
      BY <1>1, <2>3
    <3> DEFINE z == 0
               b == a + 1
    <3>2. z \in Int /\ b \in Int /\ 0 <= b /\ b < n /\ b = (n * z) + b
      BY <1>1, <3>1
    <3> HIDE DEF n, z, b
    <3>3. ((n * z) + b) % n = b
      BY <2>1, <3>2, DivUnique
    <3> QED
      BY <2>3, <3>2, <3>3 DEF n, b
  <2> QED
    BY <2>2, <2>3
<1> DEFINE b == (a + 1) % (4 * Byte)
<1> HIDE DEF b
<1>3. b = IF a = 4 * Byte - 1 THEN 0 ELSE a + 1
  BY <1>2 DEF b
<1>4. b \in 0 .. 4 * Byte - 1
  BY <1>1, <1>3
<1>5. b % 2 = 1 - (a % 2)
  BY <1>1, <1>3
<1>6. a % 2 = 0 /\ a < Ports!OamLow => b = a + 1 /\ a + 1 < Ports!OamLow
  BY <1>1, <1>3
<1> QED
  BY <1>2, <1>4, <1>5, <1>6 DEF b

(* The addresses of a stream, and their places.                            *)
LEMMA OamPlaces ==
  ASSUME NEW j \in Nat \ {0}, stream.from \in 0 .. 4 * Byte - 1
  PROVE  /\ OamAt(j) \in 0 .. 4 * Byte - 1 /\ OamAt(j + 1) = (OamAt(j) + 1) % (4 * Byte)
         /\ Ports!OamPlace(j) = IF OamAt(j) >= Ports!OamLow
                               THEN Ports!OamLow + (OamAt(j) % OamHigh) ELSE OamAt(j)
         /\ Ports!OamPlace(j) \in 0 .. Ports!OamSize - 1
<1> DEFINE b == stream.from + j - 1
           n == 4 * Byte
<1>1. n \in Nat \ {0} /\ b \in Int /\ 1 \in Int
  BY PortConstants
<1>2. OamAt(j) = b % n /\ OamAt(j + 1) = (b + 1) % n
  BY DEF OamAt
<1> HIDE DEF b
<1>3. OamAt(j + 1) = (OamAt(j) + 1) % n
  <2> HIDE DEF n
  <2> QED
    BY <1>1, <1>2, ModStep
<1>4. OamAt(j) \in Int /\ 0 <= OamAt(j) /\ OamAt(j) < n
  <2> HIDE DEF n
  <2> QED
    BY <1>1, <1>2, DivMod
<1>5. Ports!OamPlace(j) = IF OamAt(j) >= Ports!OamLow
                        THEN Ports!OamLow + (OamAt(j) % OamHigh) ELSE OamAt(j)
  BY DEF Ports!OamPlace, OamAt
<1>6. /\ OamAt(j) % OamHigh \in Int /\ 0 <= OamAt(j) % OamHigh /\ OamAt(j) % OamHigh < OamHigh
  BY <1>4, PortConstants, DivMod
<1>7. Ports!OamPlace(j) \in 0 .. Ports!OamSize - 1
  BY <1>4, <1>5, <1>6, PortConstants DEF Ports!OamSize, Ports!OamLow
<1>8. OamAt(j) \in 0 .. 4 * Byte - 1
  BY <1>1, <1>4
<1> QED
  BY <1>3, <1>5, <1>7, <1>8

LEMMA OamDataRight ==
  ASSUME OamTypes, OamInv, game = "oam", UNCHANGED game, NEW val \in Data,
         Ports!WriteOamData(val)
  PROVE  OamTypes' /\ OamInv'
<1> DEFINE D == stream.data
           n == Len(D)
           a == oamAddr
           E == stream'.data
<1>1. /\ Byte \in Nat /\ 0 < Byte /\ Ports!OamLow = 2 * Byte /\ Ports!OamLow \in Nat
      /\ a \in Int /\ 0 <= a /\ a < 4 * Byte /\ OamHigh \in Nat \ {0}
      /\ oam \in [0 .. Ports!OamSize - 1 -> Ports!Bytes] /\ oamVal \in Ports!Bytes
      /\ val \in Ports!Bytes /\ Ports!OamSize \in Nat
  BY PortConstants DEF OamTypes, Ports!OamLow, Ports!OamSize, Ports!Bytes
<1>2. /\ stream \in [from : 0 .. 4 * Byte - 1, data : Seq(Data)]
      /\ a = OamAt(n + 1)
      /\ n > 0 /\ a % 2 = 1 /\ a < Ports!OamLow => oamVal = D[n]
      /\ Ports!OamStream
  BY DEF OamInv
<1>3. n \in Nat /\ D \in Seq(Data) /\ stream.from \in 0 .. 4 * Byte - 1
  BY <1>2, LenProperties
<1>4. stream' \in [from : 0 .. 4 * Byte - 1, data : Seq(Data)]
      /\ stream'.from = stream.from /\ E = Append(D, val)
  <2>1. stream' = [stream EXCEPT !.data = Append(@, val)]
    BY DEF Ports!WriteOamData
  <2>2. Append(D, val) \in Seq(Data)
    BY <1>3, AppendProperties
  <2> QED
    BY <1>2, <2>1, <2>2
<1>5. /\ Len(E) = n + 1 /\ E[n + 1] = val /\ \A j \in 1 .. n : E[j] = D[j]
      /\ DOMAIN E = 1 .. n + 1 /\ DOMAIN D = 1 .. n
  <2> HIDE DEF n
  <2> QED
    BY <1>3, <1>4, AppendProperties, LenProperties DEF n
<1>6. /\ oam' = IF a >= Ports!OamLow
                THEN [oam EXCEPT ![Ports!OamLow + (a % OamHigh)] = val]
                ELSE IF a % 2 = 1
                THEN [oam EXCEPT ![a - 1] = oamVal, ![a] = val]
                ELSE oam
      /\ oamVal' = IF a < Ports!OamLow /\ a % 2 = 0 THEN val ELSE oamVal
      /\ oamAddr' = (a + 1) % (4 * Byte)
      /\ UNCHANGED <<oamReload, oamPrio, firstObj>>
  BY DEF Ports!WriteOamData
<1>7. \A j : OamAt(j)' = OamAt(j) /\ Ports!OamPlace(j)' = Ports!OamPlace(j)
  BY <1>4 DEF OamAt, Ports!OamPlace
<1>8. \A j \in 1 .. n + 1 :
        /\ OamAt(j) \in 0 .. 4 * Byte - 1 /\ OamAt(j + 1) = (OamAt(j) + 1) % (4 * Byte)
        /\ Ports!OamPlace(j) = IF OamAt(j) >= Ports!OamLow
                              THEN Ports!OamLow + (OamAt(j) % OamHigh) ELSE OamAt(j)
        /\ Ports!OamPlace(j) \in 0 .. Ports!OamSize - 1
  <2> TAKE j \in 1 .. n + 1
  <2>1. j \in Nat \ {0}
    BY <1>3
  <2> QED
    BY <1>3, <2>1, OamPlaces
<1>9. /\ oamAddr' \in 0 .. 4 * Byte - 1 /\ oamAddr' % 2 = 1 - (a % 2)
      /\ a % 2 = 0 /\ a < Ports!OamLow => oamAddr' = a + 1 /\ a + 1 < Ports!OamLow
  <2>1. a \in 0 .. 4 * Byte - 1
    BY DEF OamTypes
  <2>2. (a + 1) % (4 * Byte) \in 0 .. 4 * Byte - 1
    BY <2>1, OamNext
  <2>3. ((a + 1) % (4 * Byte)) % 2 = 1 - (a % 2)
    BY <2>1, OamNext
  <2>4. a % 2 = 0 /\ a < Ports!OamLow => (a + 1) % (4 * Byte) = a + 1 /\ a + 1 < Ports!OamLow
    BY <2>1, OamNext
  <2> HIDE DEF a
  <2> QED
    BY <1>6, <2>2, <2>3, <2>4
<1>10. oamAddr' = OamAt(Len(stream.data) + 1)'
  <2>1. oamAddr' = OamAt((n + 1) + 1)
    <3>1. n + 1 \in 1 .. n + 1
      BY <1>3
    <3> HIDE DEF n, a
    <3> QED
      BY <1>2, <1>6, <1>8, <3>1
  <2> QED
    BY <1>4, <1>5, <2>1 DEF OamAt
<1>11. Len(E) > 0 /\ oamAddr' % 2 = 1 /\ oamAddr' < Ports!OamLow => oamVal' = E[Len(E)]
  <2> HAVE Len(E) > 0 /\ oamAddr' % 2 = 1 /\ oamAddr' < Ports!OamLow
  <2>1. a % 2 = 0
    <3> DEFINE m == a % 2
    <3>0. a \in Int
      BY <1>1
    <3>1. m \in Int
      BY <3>0
    <3>4. oamAddr' % 2 = 1 - m
      BY <1>9, Zenon
    <3>2. oamAddr' % 2 = 1
      OBVIOUS
    <3> HIDE DEF m
    <3>3. m = 0
      BY <3>1, <3>2, <3>4
    <3> QED
      BY <3>3 DEF m
  <2>2. a < Ports!OamLow
    <3>1. (a + 1) % (4 * Byte) = IF a = 4 * Byte - 1 THEN 0 ELSE a + 1
      BY <1>1, OamNext
    <3>2. oamAddr' # 0
      BY <2>1
    <3> QED
      BY <1>1, <1>6, <3>1, <3>2, SMTT(30)
  <2> QED
    BY <1>5, <1>6, <2>1, <2>2
<1>12. OamTypes'
  <2>1. oamVal' \in Ports!Bytes
    BY <1>1, <1>6
  <2>2. oam' \in [0 .. Ports!OamSize - 1 -> Ports!Bytes]
    BY <1>1, <1>6
  <2> QED
    BY <1>6, <1>9, <2>1, <2>2 DEF OamTypes
<1> HIDE DEF D, E, n, a
(* A place the stream does not go back to holds what it held, and the word *)
(* that is now whole holds its two bytes.                                  *)
<1>13. ASSUME NEW j \in 1 .. n + 1, Ports!OamSettled(j)',
              \A k \in 1 .. n + 1 : k > j => Ports!OamPlace(k) # Ports!OamPlace(j)
       PROVE  oam'[Ports!OamPlace(j)] = E[j]
  <2>0. /\ Ports!OamSettled(j) <=> \/ OamAt(j) >= Ports!OamLow \/ (OamAt(j) % 2 = 1 /\ j > 1)
                                  \/ (OamAt(j) % 2 = 0 /\ j < n)
        /\ \/ OamAt(j) >= Ports!OamLow
           \/ (OamAt(j) % 2 = 1 /\ j > 1)
           \/ (OamAt(j) % 2 = 0 /\ j < n + 1)
    <3>1. Ports!OamSettled(j) <=> \/ OamAt(j) >= Ports!OamLow \/ (OamAt(j) % 2 = 1 /\ j > 1)
                                  \/ (OamAt(j) % 2 = 0 /\ j < n)
      BY DEF Ports!OamSettled, OamAt, n, D
    <3>2. \/ OamAt(j)' >= Ports!OamLow
          \/ (OamAt(j)' % 2 = 1 /\ j > 1)
          \/ (OamAt(j)' % 2 = 0 /\ j < Len(E))
      BY <1>13 DEF Ports!OamSettled, OamAt, E
    <3> QED
      BY <1>5, <1>7, <3>1, <3>2
  <2>1. ASSUME j \in 1 .. n, Ports!OamSettled(j)
        PROVE  oam[Ports!OamPlace(j)] = E[j]
    <3>1. \A k \in 1 .. n : k > j => Ports!OamPlace(k) # Ports!OamPlace(j)
      BY <1>3, <1>13
    <3>2. oam[Ports!OamPlace(j)] = D[j]
      BY <1>2, <1>5, <2>1, <3>1 DEF Ports!OamStream, D, OamInv
    <3> QED
      BY <1>5, <2>1, <3>2
  <2>2. ASSUME j \in 1 .. n, OamAt(j) % 2 = 0, OamAt(j) < Ports!OamLow
        PROVE  OamAt(j + 1) = OamAt(j) + 1 /\ OamAt(j + 1) < Ports!OamLow
               /\ OamAt(j + 1) % 2 = 1
    <3>1. OamAt(j) \in 0 .. 4 * Byte - 1 /\ OamAt(j + 1) = (OamAt(j) + 1) % (4 * Byte)
      BY <1>8
    <3> QED
      BY <2>2, <3>1, OamNext
  <2>3. CASE a >= Ports!OamLow
    <3>1. /\ oam' = [oam EXCEPT ![Ports!OamPlace(n + 1)] = val]
          /\ Ports!OamPlace(n + 1) \in 0 .. Ports!OamSize - 1
      <4>1. n + 1 \in 1 .. n + 1
        BY <1>3
      <4>2. Ports!OamPlace(n + 1) = Ports!OamLow + (a % OamHigh)
        BY <1>2, <1>8, <2>3, <4>1
      <4> QED
        BY <1>6, <1>8, <2>3, <4>1, <4>2
    <3>2. CASE j = n + 1
      BY <1>1, <1>5, <3>1, <3>2
    <3>3. CASE j \in 1 .. n
      <4>1. Ports!OamSettled(j)
        <5>1. j = n => ~(OamAt(j) % 2 = 0 /\ OamAt(j) < Ports!OamLow)
          BY <1>1, <1>2, <2>2, <2>3, <3>3
        <5>2. OamAt(j) \in Int
          BY <1>8
        <5> QED
          BY <1>1, <1>3, <2>0, <3>3, <5>1, <5>2
      <4>2. Ports!OamPlace(j) # Ports!OamPlace(n + 1)
        BY <1>3, <1>13, <3>3
      <4> QED
        BY <1>1, <1>8, <2>1, <3>1, <3>3, <4>1, <4>2
    <3> QED
      BY <1>3, <3>2, <3>3
  <2>4. CASE a < Ports!OamLow /\ a % 2 = 1
    <3>1. /\ oam' = [oam EXCEPT ![a - 1] = oamVal, ![a] = val]
          /\ Ports!OamPlace(n + 1) = a /\ a \in 0 .. Ports!OamSize - 1
          /\ a - 1 \in 0 .. Ports!OamSize - 1
      <4>1. oam' = [oam EXCEPT ![a - 1] = oamVal, ![a] = val]
        BY <1>1, <1>6, <2>4
      <4>2. Ports!OamPlace(n + 1) = a /\ a \in 0 .. Ports!OamSize - 1
        BY <1>1, <1>2, <1>3, <1>8, <2>4, SMTT(30)
      <4>3. 1 <= a
        BY <1>1, <2>4
      <4> QED
        BY <1>1, <4>1, <4>2, <4>3
    <3>2. CASE j = n + 1
      BY <1>1, <1>5, <3>1, <3>2
    <3>3. CASE j = n /\ n > 0
      <4>1. OamAt(n) \in 0 .. 4 * Byte - 1 /\ a = (OamAt(n) + 1) % (4 * Byte)
        BY <1>2, <1>3, <1>8, <3>3
      <4>2. OamAt(n) = a - 1
        <5>1. (OamAt(n) + 1) % (4 * Byte) =
                IF OamAt(n) = 4 * Byte - 1 THEN 0 ELSE OamAt(n) + 1
          BY <4>1, OamNext
        <5>2. a # 0
          BY <2>4
        <5> QED
          BY <4>1, <5>1, <5>2
      <4>3. Ports!OamPlace(n) = a - 1
        BY <1>1, <1>3, <1>8, <2>4, <3>3, <4>2
      <4> QED
        BY <1>1, <1>2, <1>3, <1>5, <2>4, <3>1, <3>3, <4>3
    <3>4. CASE j \in 1 .. n - 1
      <4>1. Ports!OamPlace(n) # Ports!OamPlace(j) /\ Ports!OamPlace(n + 1) # Ports!OamPlace(j)
        BY <1>3, <1>13, <3>4
      <4>2. Ports!OamPlace(n) = a - 1
        <5>1. OamAt(n) \in 0 .. 4 * Byte - 1 /\ a = (OamAt(n) + 1) % (4 * Byte)
          BY <1>2, <1>3, <1>8, <3>4, SMTT(30)
        <5>2. (OamAt(n) + 1) % (4 * Byte) =
                IF OamAt(n) = 4 * Byte - 1 THEN 0 ELSE OamAt(n) + 1
          BY <5>1, OamNext
        <5>3. a # 0
          BY <2>4
        <5>4. OamAt(n) = a - 1
          BY <5>1, <5>2, <5>3
        <5> QED
          BY <1>1, <1>3, <1>8, <2>4, <3>4, <5>4, SMTT(30)
      <4>3. Ports!OamSettled(j)
        BY <1>3, <2>0, <3>4
      <4>4. j \in 1 .. n /\ Ports!OamPlace(j) \in 0 .. Ports!OamSize - 1
        BY <1>3, <1>8, <3>4
      <4>5. oam'[Ports!OamPlace(j)] = oam[Ports!OamPlace(j)]
        BY <1>1, <3>1, <4>1, <4>2, <4>4
      <4> QED
        BY <2>1, <4>3, <4>4, <4>5
    <3> QED
      BY <1>3, <3>2, <3>3, <3>4
  <2>5. CASE a < Ports!OamLow /\ a % 2 = 0
    <3>1. oam' = oam
      BY <1>1, <1>6, <2>5
    <3>2. j # n + 1
      <4>1. ASSUME j = n + 1 PROVE FALSE
        <5>1. OamAt(j) = a
          BY <1>2, <4>1
        <5>2. ~(OamAt(j) >= Ports!OamLow) /\ OamAt(j) % 2 # 1 /\ ~(j < n + 1)
          BY <1>1, <1>3, <2>5, <4>1, <5>1
        <5> QED
          BY <2>0, <5>2
      <4> QED
        BY <4>1
    <3>3. j \in 1 .. n /\ OamAt(j) \in Int
      BY <1>3, <1>8, <3>2
    <3>4. Ports!OamSettled(j)
      <4>1. ASSUME j = n, OamAt(j) % 2 = 0, OamAt(j) < Ports!OamLow PROVE FALSE
        BY <1>2, <2>2, <2>5, <3>3, <4>1
      <4> QED
        BY <1>1, <1>3, <2>0, <3>3, <4>1
    <3> QED
      BY <2>1, <3>1, <3>3, <3>4
  <2>6. a % 2 \in {0, 1}
    BY <1>1
  <2> QED
    BY <1>1, <2>3, <2>4, <2>5, <2>6
<1>14. Ports!OamStream'
  <2>1. ASSUME NEW j \in DOMAIN E, Ports!OamSettled(j)',
               \A k \in DOMAIN E : k > j => Ports!OamPlace(k)' # Ports!OamPlace(j)'
        PROVE  oam'[Ports!OamPlace(j)'] = E[j]
    BY <1>5, <1>7, <1>13, <2>1
  <2> QED
    BY <2>1 DEF Ports!OamStream, E
<1>15. /\ stream' \in [from : 0 .. 4 * Byte - 1, data : Seq(Data)]
       /\ Len(stream'.data) > 0 /\ oamAddr' % 2 = 1 /\ oamAddr' < Ports!OamLow =>
            oamVal' = stream'.data[Len(stream'.data)]
  BY <1>4, <1>11 DEF E
<1>16. OamInv'
  BY <1>10, <1>14, <1>15 DEF OamInv, Ports!OamLow
<1> QED
  BY <1>12, <1>16

(* An address set begins a stream.                                         *)
LEMMA OamSet ==
  ASSUME OamTypes, game = "oam", UNCHANGED <<game, oam, oamVal>>,
         NEW a \in 0 .. Ports!OamLow - 1, oamAddr' = a,
         oamReload' \in 0 .. Ports!OamLow - 1, oamPrio' \in BOOLEAN,
         firstObj' \in 0 .. Byte \div 2 - 1, stream' = [from |-> a, data |-> <<>>]
  PROVE  OamTypes' /\ OamInv'
<1>1. /\ Byte \in Nat /\ 0 < Byte /\ Ports!OamLow = 2 * Byte
      /\ a \in Int /\ 0 <= a /\ a < 4 * Byte /\ a \in 0 .. 4 * Byte - 1
  BY PortConstants DEF Ports!OamLow
<1>2. OamTypes'
  BY <1>1 DEF OamTypes
<1>3. /\ stream'.from = a /\ stream'.data = <<>> /\ Len(stream'.data) = 0
      /\ stream' \in [from : 0 .. 4 * Byte - 1, data : Seq(Data)]
      /\ DOMAIN stream'.data = {}
  <2>1. <<>> \in Seq(Data) /\ Len(<<>>) = 0
    BY EmptySeq
  <2>2. DOMAIN <<>> = 1 .. 0
    BY <2>1, LenProperties
  <2> QED
    BY <1>1, <2>1, <2>2
<1>4. oamAddr' = OamAt(Len(stream.data) + 1)'
  <2> DEFINE n == 4 * Byte
  <2>1. n \in Nat \ {0} /\ a < n
    BY <1>1
  <2>2. a = (n * 0) + a /\ stream'.from + (Len(stream'.data) + 1) - 1 = a
    BY <1>1, <1>3
  <2> HIDE DEF n
  <2>3. a % n = a
    BY <1>1, <2>1, <2>2, DivUnique
  <2> QED
    BY <2>2, <2>3 DEF OamAt, n
<1>5. Ports!OamStream'
  BY <1>3 DEF Ports!OamStream
<1> QED
  BY <1>2, <1>3, <1>4, <1>5 DEF OamInv

LEMMA OamPortRight ==
  ASSUME OamTypes, OamInv, Ports!OamPort, UNCHANGED game PROVE OamTypes' /\ OamInv'
<1>0. game = "oam"
  BY DEF Ports!OamPort
<1>1. /\ Byte \in Nat \ {0} /\ Ports!OamLow = 2 * Byte /\ oamAddr \in Int
      /\ oamReload \in 0 .. Ports!OamLow - 1 /\ oamPrio \in BOOLEAN
      /\ firstObj \in 0 .. Byte \div 2 - 1 /\ Byte \div 2 \in Nat \ {0}
  BY PortConstants DEF OamTypes, Ports!OamLow
<1>2. ASSUME NEW a \in 0 .. Ports!OamLow - 1, NEW prio \in BOOLEAN, Ports!SetOam(a, prio)
      PROVE  OamTypes' /\ OamInv'
  <2> DEFINE h == Byte \div 2
  <2>1. a \in Int /\ a \div 2 \in Int /\ h \in Nat \ {0}
    BY <1>1
  <2>2. (a \div 2) % h \in 0 .. h - 1 /\ 0 \in 0 .. h - 1
    <3> HIDE DEF h
    <3> QED
      BY <2>1, DivMod
  <2>3. firstObj' \in 0 .. Byte \div 2 - 1
    BY <1>2, <2>2 DEF Ports!SetOam
  <2> QED
    BY <1>0, <1>2, <2>3, OamSet DEF Ports!SetOam
<1>3. ASSUME NEW val \in Ports!Bytes, Ports!WriteOamLow(val) PROVE OamTypes' /\ OamInv'
  <2> DEFINE bit == (oamAddr \div Byte) % 2
             a == bit * Byte + val
  <2>1. bit \in {0, 1}
    BY <1>1
  <2>2. a \in 0 .. Ports!OamLow - 1
    <3> HIDE DEF bit
    <3> QED
      BY <1>1, <2>1 DEF Ports!Bytes
  <2>3. Ports!SetOam(a, oamPrio)
    BY <1>3 DEF Ports!WriteOamLow
  <2> HIDE DEF a
  <2> QED
    BY <1>1, <1>2, <2>2, <2>3
<1>4. ASSUME NEW bit \in 0 .. 1, NEW prio \in BOOLEAN, Ports!WriteOamHigh(bit, prio)
      PROVE  OamTypes' /\ OamInv'
  <2> DEFINE lo == oamAddr % Byte
             a == lo + bit * Byte
  <2>1. lo \in Int /\ 0 <= lo /\ lo < Byte
    BY <1>1, DivMod
  <2>2. a \in 0 .. Ports!OamLow - 1
    <3> HIDE DEF lo
    <3>1. bit = 0 \/ bit = 1
      OBVIOUS
    <3> QED
      BY <1>1, <2>1, <3>1
  <2>3. Ports!SetOam(a, prio)
    BY <1>4 DEF Ports!WriteOamHigh
  <2> HIDE DEF a
  <2> QED
    BY <1>2, <2>2, <2>3
<1>5. ASSUME Ports!SNESVBlank PROVE OamTypes' /\ OamInv'
  <2>1. oamReload' \in 0 .. Ports!OamLow - 1 /\ oamPrio' \in BOOLEAN
        /\ firstObj' \in 0 .. Byte \div 2 - 1
    BY <1>1, <1>5 DEF Ports!SNESVBlank
  <2> QED
    BY <1>0, <1>1, <1>5, <2>1, OamSet DEF Ports!SNESVBlank
<1> QED
  BY <1>0, <1>3, <1>4, <1>5, OamDataRight DEF Ports!OamPort

-----------------------------------------------------------------------------
(* CGRAM. Its address is where the stream's next colour goes, and the      *)
(* latch holds the first byte of one that is not whole.                    *)
CgTypes ==
  /\ cgram \in [Ports!Bytes -> Ports!Bytes \X Ports!Bytes] /\ cgAddr \in Ports!Bytes
  /\ cgSecond \in BOOLEAN /\ cgVal \in Ports!Bytes

CgInv ==
  game = "cgram" =>
    /\ stream \in [from : Ports!Bytes, data : Seq(Data)]
    /\ cgAddr = (stream.from + (Len(stream.data) \div 2)) % Byte
    /\ cgSecond <=> Len(stream.data) % 2 = 1
    /\ cgSecond => cgVal = stream.data[Len(stream.data)]
    /\ Ports!CgStream

(* Sums that leave the same remainder are a multiple apart.                *)
LEMMA SameRemainder ==
  ASSUME NEW n \in Nat \ {0}, NEW a \in Int, NEW b \in Int, a % n = b % n
  PROVE  (b - a) % n = 0
<1> DEFINE p == a \div n
           q == b \div n
           z == a % n
           m == q - p
<1>1. p \in Int /\ q \in Int /\ z \in Int /\ a = (n * p) + z /\ b = (n * q) + z
  BY DivMod
<1> HIDE DEF p, q, z
<1>2. b - a = (n * m) + 0 /\ m \in Int
  <2>1. (n * q) - (n * p) = n * (q - p) /\ n * q \in Int /\ n * p \in Int
    BY <1>1
  <2> QED
    BY <1>1, <2>1
<1> HIDE DEF m
<1>3. ((n * m) + 0) % n = 0
  BY <1>2, DivUnique
<1> QED
  BY <1>2, <1>3

LEMMA CgDataRight ==
  ASSUME CgTypes, CgInv, game = "cgram", UNCHANGED game, NEW val \in Data,
         Ports!WriteCgData(val)
  PROVE  CgTypes' /\ CgInv'
<1> DEFINE D == stream.data
           n == Len(D)
           E == stream'.data
<1>1. /\ Byte \in Nat \ {0} /\ cgram \in [Ports!Bytes -> Ports!Bytes \X Ports!Bytes]
      /\ cgAddr \in Ports!Bytes /\ cgSecond \in BOOLEAN /\ cgVal \in Ports!Bytes
      /\ val \in Ports!Bytes
  <2>1. Byte \in Nat \ {0} /\ val \in Ports!Bytes
    BY PortConstants DEF Ports!Bytes
  <2> QED
    BY <2>1 DEF CgTypes
<1>2. /\ stream \in [from : Ports!Bytes, data : Seq(Data)]
      /\ cgAddr = (stream.from + (n \div 2)) % Byte
      /\ cgSecond <=> n % 2 = 1
      /\ cgSecond => cgVal = D[n]
      /\ Ports!CgStream
  BY DEF CgInv
<1>3. n \in Nat /\ D \in Seq(Data) /\ stream.from \in Ports!Bytes /\ stream.from \in Int
  BY <1>2, LenProperties DEF Ports!Bytes
<1>4. stream' \in [from : Ports!Bytes, data : Seq(Data)]
      /\ stream'.from = stream.from /\ E = Append(D, val)
  <2>1. stream' = [stream EXCEPT !.data = Append(@, val)]
    BY DEF Ports!WriteCgData
  <2>2. Append(D, val) \in Seq(Data)
    BY <1>3, AppendProperties
  <2> QED
    BY <1>2, <2>1, <2>2
<1>5. /\ Len(E) = n + 1 /\ E[n + 1] = val /\ \A j \in 1 .. n : E[j] = D[j]
  <2> HIDE DEF n
  <2> QED
    BY <1>3, <1>4, AppendProperties, LenProperties DEF n
<1>6. cgSecond' = ~cgSecond
  BY DEF Ports!WriteCgData
<1> DEFINE Whole(f, m) ==
             \A j \in 1 .. m \div 2 :
               (\A k \in j + 1 .. m \div 2 : (k - j) % Byte # 0)
               => f[(stream.from + j - 1) % Byte] = <<E[2 * j - 1], E[2 * j]>>
<1>7. Whole(cgram, n)
  <2> SUFFICES ASSUME NEW j \in 1 .. n \div 2,
                      \A k \in j + 1 .. n \div 2 : (k - j) % Byte # 0
               PROVE  cgram[(stream.from + j - 1) % Byte] = <<E[2 * j - 1], E[2 * j]>>
    OBVIOUS
  <2>1. cgram[(stream.from + j - 1) % Byte] = <<D[2 * j - 1], D[2 * j]>>
    BY <1>2 DEF Ports!CgStream
  <2>2. 2 * j - 1 \in 1 .. n /\ 2 * j \in 1 .. n
    <3> HIDE DEF n
    <3> QED
      BY <1>3
  <2> QED
    BY <1>5, <2>1, <2>2
<1> HIDE DEF D, E, n
<1>8. CASE cgSecond
  <2> DEFINE h == (n + 1) \div 2
  <2>1. h \in Nat /\ h >= 1 /\ n = 2 * h - 1 /\ n + 1 = 2 * h /\ n \div 2 = h - 1
        /\ (n + 1) % 2 = 0
    <3>1. n % 2 = 1
      BY <1>2, <1>8
    <3> QED
      BY <1>3, <3>1
  <2>2. /\ cgram' = [cgram EXCEPT ![cgAddr] = <<cgVal, val>>]
        /\ cgAddr' = (cgAddr + 1) % Byte /\ UNCHANGED cgVal
    BY <1>8 DEF Ports!WriteCgData
  <2>3. CgTypes'
    <3>1. (cgAddr + 1) % Byte \in Ports!Bytes
      <4> DEFINE c == cgAddr + 1
      <4>1. c \in Int
        BY <1>1 DEF Ports!Bytes
      <4> HIDE DEF c
      <4>2. c % Byte \in Int /\ 0 <= c % Byte /\ c % Byte < Byte
        BY <1>1, <4>1, DivMod
      <4>3. c % Byte \in Ports!Bytes
        BY <1>1, <4>2 DEF Ports!Bytes
      <4> QED
        BY <4>3 DEF c
    <3> QED
      BY <1>1, <1>6, <2>2, <3>1 DEF CgTypes
  <2> HIDE DEF h
  <2>4. cgAddr' = (stream.from + h) % Byte
    <3> DEFINE b == stream.from + (h - 1)
    <3>1. b \in Int /\ cgAddr = b % Byte /\ b + 1 = stream.from + h /\ 1 \in Int
      BY <1>2, <1>3, <2>1
    <3> HIDE DEF b
    <3>2. ((b % Byte) + 1) % Byte = (b + 1) % Byte
      BY <1>1, <3>1, ModStep
    <3> QED
      BY <2>2, <3>1, <3>2
  <2>5. ASSUME NEW j \in 1 .. h, \A k \in j + 1 .. h : (k - j) % Byte # 0
        PROVE  cgram'[(stream.from + j - 1) % Byte] = <<E[2 * j - 1], E[2 * j]>>
    <3>0. j \in Int /\ stream.from + j - 1 \in Int /\ stream.from + h - 1 \in Int
      BY <1>3, <2>1
    <3>1. (stream.from + j - 1) % Byte \in Ports!Bytes
      <4> DEFINE c == stream.from + j - 1
      <4> HIDE DEF c
      <4>1. c \in Int
        BY <3>0 DEF c
      <4>2. c % Byte \in Int /\ 0 <= c % Byte /\ c % Byte < Byte
        BY <1>1, <4>1, DivMod
      <4>3. c % Byte \in Ports!Bytes
        BY <1>1, <4>2 DEF Ports!Bytes
      <4> QED
        BY <4>3 DEF c
    <3>2. cgAddr = (stream.from + h - 1) % Byte
      <4>1. stream.from + h - 1 = stream.from + (n \div 2)
        BY <1>3, <2>1
      <4> QED
        BY <1>2, <4>1
    <3>3. CASE j = h
      <4>1. cgVal = E[n] /\ val = E[n + 1]
        <5>1. n \in 1 .. n
          BY <2>1
        <5> QED
          BY <1>2, <1>5, <1>8, <5>1
      <4> QED
        BY <1>1, <2>1, <2>2, <3>1, <3>2, <3>3, <4>1
    <3>4. CASE j < h
      <4>1. (stream.from + j - 1) % Byte # cgAddr
        <5> DEFINE u == stream.from + j - 1
                   v == stream.from + h - 1
        <5>1. v - u = h - j
          BY <1>3, <2>1, <3>0
        <5>2. (h - j) % Byte # 0
          BY <2>1, <2>5, <3>4
        <5> HIDE DEF u, v
        <5>3. u % Byte # v % Byte
          BY <1>1, <3>0, <5>1, <5>2, SameRemainder DEF u, v
        <5> QED
          BY <3>2, <5>3 DEF u, v
      <4>2. cgram'[(stream.from + j - 1) % Byte] = cgram[(stream.from + j - 1) % Byte]
        BY <1>1, <2>2, <3>1, <4>1
      <4>3. j \in 1 .. n \div 2
        BY <2>1, <3>4
      <4>4. \A k \in j + 1 .. n \div 2 : (k - j) % Byte # 0
        BY <2>1, <2>5
      <4> QED
        BY <1>7, <4>2, <4>3, <4>4
    <3> QED
      BY <2>1, <3>0, <3>3, <3>4
  <2>6. Ports!CgStream'
    <3>1. Len(E) \div 2 = h
      BY <1>5 DEF h
    <3> QED
      BY <1>4, <2>5, <3>1 DEF Ports!CgStream, E
  <2>7. ~cgSecond' /\ Len(E) % 2 # 1 /\ Len(E) \div 2 = h
    <3>1. ~cgSecond'
      BY <1>6, <1>8
    <3>2. Len(E) % 2 # 1
      <4>1. Len(E) % 2 = 0
        BY <1>5, <2>1
      <4> QED
        BY <4>1
    <3>3. Len(E) \div 2 = h
      BY <1>5 DEF h
    <3> QED
      BY <3>1, <3>2, <3>3
  <2> QED
    BY <1>4, <2>3, <2>4, <2>6, <2>7 DEF CgInv, E
<1>9. CASE ~cgSecond
  <2>1. (n + 1) % 2 = 1 /\ (n + 1) \div 2 = n \div 2
    <3>1. n % 2 = 0
      BY <1>2, <1>3, <1>9
    <3> QED
      BY <1>3, <3>1
  <2>2. cgVal' = val /\ UNCHANGED <<cgram, cgAddr>>
    BY <1>9 DEF Ports!WriteCgData
  <2>3. CgTypes'
    BY <1>1, <1>6, <2>2 DEF CgTypes
  <2>4. /\ Len(E) % 2 = 1 /\ Len(E) \div 2 = n \div 2 /\ cgSecond' /\ cgVal' = E[Len(E)]
    BY <1>5, <1>6, <1>9, <2>1, <2>2
  <2>5. Ports!CgStream'
    BY <1>4, <1>7, <2>2, <2>4 DEF Ports!CgStream, E
  <2> QED
    BY <1>2, <1>4, <2>2, <2>3, <2>4, <2>5 DEF CgInv, E
<1> QED
  BY <1>1, <1>8, <1>9

LEMMA CgPortRight ==
  ASSUME CgTypes, CgInv, Ports!CgPort, UNCHANGED game PROVE CgTypes' /\ CgInv'
<1>0. game = "cgram"
  BY DEF Ports!CgPort
<1>1. ASSUME NEW val \in Ports!Bytes, Ports!WriteCgAddr(val) PROVE CgTypes' /\ CgInv'
  <2>1. /\ cgAddr' = val /\ cgSecond' = FALSE /\ UNCHANGED <<cgram, cgVal>>
        /\ stream'.from = val /\ stream'.data = <<>> /\ Len(stream'.data) = 0
        /\ stream' = [from |-> val, data |-> <<>>]
    BY <1>1 DEF Ports!WriteCgAddr
  <2>2. stream' \in [from : Ports!Bytes, data : Seq(Data)]
    BY <2>1, EmptySeq
  <2>3. val % Byte = val /\ val \in Int
    <3>1. Byte \in Nat \ {0} /\ val \in Int /\ 0 <= val /\ val < Byte /\ val = (Byte * 0) + val
      BY PortConstants DEF Ports!Bytes
    <3> QED
      BY <3>1, DivUnique
  <2>4. Len(stream'.data) \div 2 = 0 /\ Len(stream'.data) % 2 = 0
    BY <2>1
  <2>5. Ports!CgStream'
    <3> DEFINE m == Len(stream'.data) \div 2
    <3>1. m = 0
      BY <2>4
    <3> HIDE DEF m
    <3>2. ~ \E j \in 1 .. m : TRUE
      BY <3>1
    <3> QED
      BY <3>2 DEF m, Ports!CgStream
  <2>6. CgTypes'
    BY <2>1 DEF CgTypes
  <2>7. cgAddr' = (stream'.from + (Len(stream'.data) \div 2)) % Byte
    <3>1. stream'.from + (Len(stream'.data) \div 2) = val
      BY <2>1, <2>3, <2>4
    <3> QED
      BY <2>1, <2>3, <3>1
  <2> QED
    BY <2>1, <2>2, <2>4, <2>5, <2>6, <2>7 DEF CgInv
<1> QED
  BY <1>0, <1>1, CgDataRight DEF Ports!CgPort

-----------------------------------------------------------------------------
(* VRAM. Its address is where the stream's next byte goes.                 *)
VramTypes ==
  /\ vram \in [0 .. Ports!VramWords - 1 -> Ports!Bytes \X Ports!Bytes]
  /\ vramAddr \in 0 .. Ports!VramWords - 1 /\ vramHigh \in BOOLEAN
  /\ vramSpan \in RotSpans \cup {1} /\ vramStep \in Steps \cup {0}

VramInv ==
  game = "vram" =>
    /\ stream \in [from : 0 .. Ports!VramWords - 1, data : Seq({1, 2} \X Data)]
    /\ vramAddr = Ports!VramPlace(Len(stream.data) + 1)
    /\ Ports!VramStream

LEMMA VramConstants ==
  /\ Ports!VramWords = Byte * (Byte \div 2) /\ Ports!VramWords \in Nat \ {0}
  /\ \A n \in RotSpans : n \in Nat /\ n > 1 /\ n % Rot = 0 /\ Ports!VramWords % n = 0
<1> DEFINE h == Byte \div 2
<1>1. Byte \in Nat /\ 2 <= Byte /\ h \in Nat /\ h > 0
  BY PortConstants
<1>2. Byte * h \in Nat \ {0}
  <2> HIDE DEF h
  <2> QED
    BY <1>1
<1>3. \A n \in RotSpans : n \in Nat /\ n > 1 /\ n % Rot = 0 /\ Ports!VramWords % n = 0
  BY PortAssumption DEF Ports!VramWords
<1> QED
  BY <1>2, <1>3 DEF Ports!VramWords

(* The parts of an address in a bitmap mode, n its span and t the part of  *)
(* it that is rotated past the low bits: the rotation keeps the address in *)
(* its span, and its parts can be read off what it leads to.               *)
Rotated(a, n, t) == (a - (a % n)) + ((a % n) % t) * Rot + ((a % n) \div t)

LEMMA SpanParts ==
  ASSUME NEW n \in Nat \ {0}, n % Rot = 0
  PROVE  n \div Rot \in Nat \ {0} /\ n = Rot * (n \div Rot)
<1> DEFINE t == n \div Rot
<1>0. Rot \in Nat \ {0} /\ n \in Int /\ n > 0
  BY PortConstants
<1>1. t \in Int /\ n = (Rot * t) + 0
  BY <1>0, DivMod
<1> HIDE DEF t
<1>2. t > 0
  <2>1. ASSUME t <= 0 PROVE FALSE
    <3>1. Rot * t <= 0
      BY <1>0, <1>1, <2>1
    <3> QED
      BY <1>0, <1>1, <3>1
  <2> QED
    BY <1>1, <2>1
<1>3. Rot * t \in Int
  BY <1>0, <1>1
<1> QED
  BY <1>1, <1>2, <1>3 DEF t

LEMMA RotatedParts ==
  ASSUME NEW n \in Nat \ {0}, NEW t \in Nat \ {0}, n = Rot * t, NEW a \in Int
  PROVE  /\ Rotated(a, n, t) \in Int /\ Rotated(a, n, t) \div n = a \div n
         /\ (Rotated(a, n, t) % n) % Rot = (a % n) \div t
         /\ (Rotated(a, n, t) % n) \div Rot = (a % n) % t
<1> DEFINE q == a \div n
           lo == a % n
           u == lo % t
           v == lo \div t
           r == (Rot * u) + v
           to == Rotated(a, n, t)
<1>0. Rot \in Nat \ {0}
  BY PortConstants
<1>2. /\ q \in Int /\ lo \in Int /\ 0 <= lo /\ lo < n /\ a = (n * q) + lo
  BY DivMod
<1>3. /\ u \in Int /\ v \in Int /\ 0 <= u /\ u < t /\ lo = (t * v) + u
  <2> HIDE DEF lo
  <2> QED
    BY <1>2, DivMod
<1>8. to = (a - lo) + (u * Rot) + v
  BY DEF Rotated
<1> HIDE DEF q, u, v, lo, to
<1>4. 0 <= v /\ v < Rot
  <2>1. ASSUME v < 0 PROVE FALSE
    <3>1. t * v <= t * (-1)
      <4>1. t \in Nat /\ v \in Int /\ -1 \in Int /\ v <= -1
        BY <1>3, <2>1
      <4> QED
        BY <4>1, Scaled
    <3> QED
      BY <1>2, <1>3, <3>1
  <2>2. ASSUME v >= Rot PROVE FALSE
    <3>1. t * Rot <= t * v
      <4>1. t \in Nat /\ v \in Int /\ Rot \in Int /\ Rot <= v
        BY <1>0, <1>3, <2>2
      <4> QED
        BY <4>1, Scaled
    <3>2. t * Rot = Rot * t /\ t * v \in Int /\ t * Rot \in Int
      BY <1>0, <1>3
    <3> QED
      BY <1>2, <1>3, <3>1, <3>2
  <2> QED
    BY <1>0, <1>3, <2>1, <2>2
<1>5. r \in Int /\ 0 <= r /\ r < n /\ r % Rot = v /\ r \div Rot = u
  <2>1. r % Rot = v /\ r \div Rot = u
    BY <1>0, <1>3, <1>4, DivUnique
  <2>2. Rot * u <= Rot * (t - 1) /\ Rot * (t - 1) = (Rot * t) - Rot
        /\ 0 <= Rot * u /\ Rot * u \in Int /\ Rot * t \in Int
    <3>1. Rot \in Nat /\ u \in Int /\ t - 1 \in Int /\ u <= t - 1
      BY <1>0, <1>3
    <3>2. Rot * u <= Rot * (t - 1)
      BY <3>1, Scaled
    <3>3. Rot * (t - 1) = (Rot * t) - Rot /\ 0 <= Rot * u /\ Rot * u \in Int /\ Rot * t \in Int
      BY <1>0, <1>3
    <3> QED
      BY <3>2, <3>3
  <2>3. r \in Int /\ 0 <= r /\ r < n
    BY <1>0, <1>3, <1>4, <2>2
  <2> QED
    BY <2>1, <2>3
<1>6. to = (n * q) + r /\ to \in Int
  <2>1. u * Rot = Rot * u /\ n * q \in Int /\ Rot * u \in Int
    BY <1>0, <1>2, <1>3
  <2> QED
    BY <1>2, <1>3, <1>8, <2>1
<1> HIDE DEF r
<1>7. to % n = r /\ to \div n = q
  BY <1>2, <1>5, <1>6, DivUnique
<1> QED
  BY <1>5, <1>6, <1>7 DEF q, u, v, lo, to

(* The rotation stays within VRAM, and leads to no word twice.             *)
LEMMA TranslateWithin ==
  ASSUME vramSpan \in RotSpans \cup {1}, NEW a \in 0 .. Ports!VramWords - 1
  PROVE  Ports!TranslateVRAMAddress(a) \in 0 .. Ports!VramWords - 1
<1> DEFINE n == vramSpan
           W == Ports!VramWords
           t == n \div Rot
           to == Rotated(a, n, t)
<1>1. W \in Nat \ {0} /\ a \in Int /\ 0 <= a /\ a < W
  BY VramConstants
<1> HIDE DEF W
<1>2. CASE n = 1
  BY <1>1, <1>2 DEF Ports!TranslateVRAMAddress, W
<1>3. CASE n # 1
  <2>1. n \in Nat \ {0} /\ n % Rot = 0 /\ W % n = 0
    BY <1>3, VramConstants DEF W
  <2>2. to \in Int /\ to \div n = a \div n
    <3>1. t \in Nat \ {0} /\ n = Rot * t
      BY <2>1, SpanParts
    <3> HIDE DEF n, t
    <3> QED
      BY <1>1, <2>1, <3>1, RotatedParts
  <2>3. Ports!TranslateVRAMAddress(a) = to
    BY <1>3 DEF Ports!TranslateVRAMAddress, Rotated
  <2> HIDE DEF n, to
  <2> DEFINE q == a \div n
             w == W \div n
  <2>4. q \in Int /\ w \in Int /\ a = (n * q) + (a % n) /\ 0 <= a % n /\ a % n < n
        /\ W = (n * w) + 0 /\ a % n \in Int
    BY <1>1, <2>1, DivMod
  <2>5. to = (n * q) + (to % n) /\ 0 <= to % n /\ to % n < n /\ to % n \in Int
    BY <2>1, <2>2, DivMod
  <2> HIDE DEF q, w
  <2>6. 0 <= q
    <3>1. ASSUME q < 0 PROVE FALSE
      <4>1. n \in Nat /\ q \in Int /\ -1 \in Int /\ q <= -1
        BY <2>1, <2>4, <3>1
      <4>2. n * q <= n * (-1) /\ n * q \in Int
        BY <4>1, Scaled
      <4>3. n * (-1) = -n
        BY <2>1
      <4> QED
        BY <1>1, <2>1, <2>4, <4>2, <4>3
    <3> QED
      BY <2>4, <3>1
  <2>7. q <= w - 1
    <3>1. ASSUME q >= w PROVE FALSE
      <4>1. n \in Nat /\ q \in Int /\ w \in Int /\ w <= q
        BY <2>1, <2>4, <3>1
      <4>2. n * w <= n * q /\ n * q \in Int /\ n * w \in Int
        BY <4>1, Scaled
      <4> QED
        BY <1>1, <2>1, <2>4, <4>2
    <3> QED
      BY <2>4, <3>1
  <2>8. n * q <= (n * w) - n /\ 0 <= n * q /\ n * q \in Int /\ n * w \in Int
    <3>1. n \in Nat /\ q \in Int /\ w - 1 \in Int
      BY <2>1, <2>4
    <3>2. n * q <= n * (w - 1)
      BY <2>7, <3>1, Scaled
    <3>3. n * (w - 1) = (n * w) - n /\ n * q \in Int /\ n * w \in Int /\ 0 <= n * q
      BY <2>1, <2>4, <2>6
    <3> QED
      BY <3>2, <3>3
  <2>9. 0 <= to /\ to < W
    BY <1>1, <2>1, <2>4, <2>5, <2>8
  <2> QED
    BY <1>1, <2>2, <2>3, <2>9 DEF W
<1> QED
  BY <1>2, <1>3

LEMMA TranslateApart ==
  ASSUME vramSpan \in RotSpans \cup {1},
         NEW a \in 0 .. Ports!VramWords - 1, NEW b \in 0 .. Ports!VramWords - 1,
         Ports!TranslateVRAMAddress(a) = Ports!TranslateVRAMAddress(b)
  PROVE  a = b
<1> DEFINE n == vramSpan
           t == n \div Rot
           To(c) == Rotated(c, n, t)
<1>1. a \in Int /\ b \in Int
  BY VramConstants
<1>2. CASE n = 1
  BY <1>2 DEF Ports!TranslateVRAMAddress
<1>3. CASE n # 1
  <2>1. n \in Nat \ {0} /\ n % Rot = 0
    BY <1>3, VramConstants
  <2>2. To(a) = To(b)
    BY <1>3 DEF Ports!TranslateVRAMAddress, Rotated
  <2>3. ASSUME NEW c \in Int
        PROVE  /\ t \in Nat \ {0} /\ c % n \in Int
               /\ c = (n * (c \div n)) + (c % n)
               /\ c % n = (t * ((c % n) \div t)) + ((c % n) % t)
               /\ To(c) \div n = c \div n
               /\ (To(c) % n) % Rot = (c % n) \div t /\ (To(c) % n) \div Rot = (c % n) % t
    <3>1. /\ t \in Nat \ {0} /\ To(c) \div n = c \div n
          /\ (To(c) % n) % Rot = (c % n) \div t /\ (To(c) % n) \div Rot = (c % n) % t
      <4>1. t \in Nat \ {0} /\ n = Rot * t
        BY <2>1, SpanParts
      <4> DEFINE to == Rotated(c, n, t)
      <4> HIDE DEF n, t
      <4>2. /\ to \div n = c \div n
            /\ (to % n) % Rot = (c % n) \div t /\ (to % n) \div Rot = (c % n) % t
        <5>1. n \in Nat \ {0} /\ t \in Nat \ {0} /\ n = Rot * t /\ c \in Int
          BY <2>1, <4>1
        <5> QED
          BY <5>1, RotatedParts, Zenon
      <4> HIDE DEF to
      <4> QED
        BY <4>1, <4>2 DEF to
    <3>2. c % n \in Int /\ c = (n * (c \div n)) + (c % n)
      BY <2>1, DivMod
    <3>3. c % n = (t * ((c % n) \div t)) + ((c % n) % t)
      <4> HIDE DEF t, n
      <4> QED
        BY <3>1, <3>2, DivMod
    <3> QED
      BY <3>1, <3>2, <3>3
  <2> HIDE DEF To, t, n
  <2>4. a \div n = b \div n /\ (a % n) \div t = (b % n) \div t /\ (a % n) % t = (b % n) % t
    BY <1>1, <2>2, <2>3
  <2>5. a % n = b % n
    BY <1>1, <2>3, <2>4
  <2> QED
    BY <1>1, <2>3, <2>4, <2>5
<1> QED
  BY <1>2, <1>3

LEMMA SteppingFinite ==
  ASSUME NEW j \in Nat \ {0}
  PROVE  IsFiniteSet(Ports!Stepping(j)) /\ Cardinality(Ports!Stepping(j)) \in Nat
<1>1. 1 \in Int /\ j - 1 \in Int
  OBVIOUS
<1>2. IsFiniteSet(1 .. j - 1)
  BY <1>1, FS_Interval
<1>3. Ports!Stepping(j) \in SUBSET (1 .. j - 1)
  BY DEF Ports!Stepping
<1>4. IsFiniteSet(Ports!Stepping(j))
  BY <1>2, <1>3, FS_Subset
<1> QED
  BY <1>4, FS_CardinalityType

LEMMA SameCardinality == \A S : Ports!Cardinality(S) = Cardinality(S)
BY DEF Ports!Cardinality, Cardinality, Ports!IsFiniteSet, IsFiniteSet

LEMMA VramPlaceIs ==
  ASSUME NEW j
  PROVE  Ports!VramPlace(j) =
           (stream.from + vramStep * Cardinality(Ports!Stepping(j))) % Ports!VramWords
BY SameCardinality DEF Ports!VramPlace

(* An address set, or another way to step, begins a stream.                *)
LEMMA VramSet ==
  ASSUME VramTypes, UNCHANGED <<game, vram>>, NEW a \in 0 .. Ports!VramWords - 1,
         vramAddr' = a, stream' = [from |-> a, data |-> <<>>],
         vramHigh' \in BOOLEAN, vramSpan' \in RotSpans \cup {1}, vramStep' \in Steps \cup {0}
  PROVE  VramTypes' /\ VramInv'
<1> DEFINE W == Ports!VramWords
<1>1. W \in Nat \ {0} /\ a \in Int /\ 0 <= a /\ a < W /\ vramStep' \in Nat
  BY VramConstants, PortConstants
<1>2. VramTypes'
  BY DEF VramTypes
<1>3. /\ stream'.from = a /\ stream'.data = <<>> /\ Len(stream'.data) = 0
      /\ DOMAIN stream'.data = {}
      /\ stream' \in [from : 0 .. W - 1, data : Seq({1, 2} \X Data)]
  <2>1. <<>> \in Seq({1, 2} \X Data) /\ Len(<<>>) = 0
    BY EmptySeq
  <2>2. DOMAIN <<>> = 1 .. 0
    BY <2>1, LenProperties
  <2> QED
    BY <1>1, <2>1, <2>2
<1>4. vramAddr' = Ports!VramPlace(Len(stream.data) + 1)'
  <2>1. Ports!Stepping(Len(stream.data) + 1)' = {}
    BY <1>3 DEF Ports!Stepping
  <2>2. vramStep' * Cardinality(Ports!Stepping(Len(stream.data) + 1)') = 0
    <3>1. Cardinality(Ports!Stepping(Len(stream.data) + 1)') = 0
      BY <2>1, FS_EmptySet
    <3> QED
      BY <1>1, <3>1
  <2>3. stream'.from + (vramStep' * Cardinality(Ports!Stepping(Len(stream.data) + 1)')) = (W * 0) + a
    BY <1>1, <1>3, <2>2
  <2>4. ((W * 0) + a) % W = a
    <3> DEFINE z == 0
    <3>1. z \in Int
      OBVIOUS
    <3> HIDE DEF z, W
    <3>2. ((W * z) + a) % W = a
      BY <1>1, <3>1, DivUnique
    <3> QED
      BY <3>2 DEF z
  <2>5. Ports!VramPlace(Len(stream.data) + 1)'
          = (stream'.from + (vramStep' * Cardinality(Ports!Stepping(Len(stream.data) + 1)'))) % W
    BY SameCardinality DEF Ports!VramPlace
  <2> QED
    BY <2>3, <2>4, <2>5
<1>5. Ports!VramStream'
  BY <1>3 DEF Ports!VramStream
<1> QED
  BY <1>2, <1>3, <1>4, <1>5 DEF VramInv

LEMMA VramDataRight ==
  ASSUME VramTypes, VramInv, game = "vram", UNCHANGED game, NEW half \in {1, 2},
         NEW val \in Data, Ports!WriteVramData(half, val)
  PROVE  VramTypes' /\ VramInv'
<1> DEFINE D == stream.data
           n == Len(D)
           E == stream'.data
           W == Ports!VramWords
           To(a) == Ports!TranslateVRAMAddress(a)
           Place(j) == Ports!VramPlace(j)
<1>1. /\ W \in Nat \ {0} /\ vram \in [0 .. W - 1 -> Ports!Bytes \X Ports!Bytes]
      /\ vramAddr \in 0 .. W - 1 /\ vramHigh \in BOOLEAN /\ vramStep \in Nat
      /\ vramSpan \in RotSpans \cup {1} /\ val \in Ports!Bytes
  <2>1. W \in Nat \ {0} /\ Steps \subseteq Nat /\ val \in Ports!Bytes
    BY VramConstants, PortConstants DEF Ports!Bytes
  <2> QED
    BY <2>1 DEF VramTypes
<1>2. /\ stream \in [from : 0 .. W - 1, data : Seq({1, 2} \X Data)]
      /\ vramAddr = Place(n + 1) /\ Ports!VramStream
  BY DEF VramInv
<1>3. n \in Nat /\ D \in Seq({1, 2} \X Data) /\ stream.from \in Int
  <2>1. D \in Seq({1, 2} \X Data) /\ stream.from \in 0 .. W - 1
    BY <1>2
  <2> QED
    BY <2>1, LenProperties
<1>4. /\ stream' \in [from : 0 .. W - 1, data : Seq({1, 2} \X Data)]
      /\ stream'.from = stream.from /\ E = Append(D, <<half, val>>)
  <2>1. stream' = [stream EXCEPT !.data = Append(@, <<half, val>>)]
    BY DEF Ports!WriteVramData
  <2>2. Append(D, <<half, val>>) \in Seq({1, 2} \X Data)
    BY <1>3, AppendProperties
  <2> QED
    BY <1>2, <2>1, <2>2
<1>5. /\ Len(E) = n + 1 /\ E[n + 1] = <<half, val>> /\ \A j \in 1 .. n : E[j] = D[j]
      /\ DOMAIN E = 1 .. n + 1 /\ DOMAIN D = 1 .. n
      /\ \A j \in 1 .. n + 1 : E[j][1] \in {1, 2}
  <2> HIDE DEF n
  <2>1. <<half, val>> \in {1, 2} \X Data
    OBVIOUS
  <2>2. /\ Len(E) = n + 1 /\ E[n + 1] = <<half, val>> /\ \A j \in 1 .. n : E[j] = D[j]
        /\ DOMAIN E = 1 .. n + 1 /\ DOMAIN D = 1 .. n
    BY <1>3, <1>4, <2>1, AppendProperties, LenProperties DEF n
  <2>3. \A j \in 1 .. n + 1 : E[j] \in {1, 2} \X Data
    BY <1>4, <2>2, ElementOfSeq
  <2> QED
    BY <2>2, <2>3
<1>6. /\ vram' = [vram EXCEPT ![To(vramAddr)][half] = val]
      /\ vramAddr' = IF vramHigh = (half = 2) THEN (vramAddr + vramStep) % W ELSE vramAddr
      /\ UNCHANGED <<vramHigh, vramSpan, vramStep>>
  BY DEF Ports!WriteVramData
<1>7. \A j \in 1 .. n + 1 : Place(j)' = Place(j) /\ Place(j) \in 0 .. W - 1
  <2> TAKE j \in 1 .. n + 1
  <2>1. Ports!Stepping(j)' = Ports!Stepping(j)
    <3>1. \A k \in 1 .. j - 1 : E[k] = D[k]
      BY <1>3, <1>5
    <3> HIDE DEF n
    <3>2. vramHigh' = vramHigh
      BY <1>6
    <3> QED
      BY <3>1, <3>2 DEF Ports!Stepping
  <2>2. Place(j)' = Place(j)
    <3>1. Place(j)' = (stream'.from + vramStep' * Cardinality(Ports!Stepping(j)')) % W
      BY SameCardinality DEF Ports!VramPlace
    <3> QED
      BY <1>4, <1>6, <2>1, <3>1, VramPlaceIs
  <2>3. j \in Nat \ {0}
    BY <1>3
  <2> DEFINE c == Cardinality(Ports!Stepping(j))
             s == stream.from + vramStep * c
  <2>4. c \in Nat
    BY <2>3, SteppingFinite
  <2>5. s \in Int
    <3> HIDE DEF c
    <3> QED
      BY <1>1, <1>3, <2>4
  <2>6. Place(j) = s % W
    BY VramPlaceIs
  <2> HIDE DEF s, W
  <2>7. s % W \in 0 .. W - 1
    BY <1>1, <2>5, DivMod, SMTT(30)
  <2> QED
    BY <2>2, <2>6, <2>7
<1> HIDE DEF D, E, n, W, To, Place
<1>8. vramAddr' = Ports!VramPlace(Len(stream.data) + 1)'
  <2> DEFINE c == Cardinality(Ports!Stepping(n + 1))
             s == stream.from + vramStep * c
  <2>1. n + 1 \in Nat \ {0}
    BY <1>3
  <2>2. IsFiniteSet(Ports!Stepping(n + 1)) /\ c \in Nat
    BY <2>1, SteppingFinite
  <2>3. s \in Int /\ vramAddr = s % W
    <3>1. vramAddr = s % W
      BY <1>2, VramPlaceIs DEF Place, W
    <3> HIDE DEF c
    <3> QED
      BY <1>1, <1>3, <2>2, <3>1
  <2>4. Ports!VramPlace(Len(stream.data) + 1)'
          = (stream.from + vramStep * Cardinality(Ports!Stepping(Len(stream.data) + 1)')) % W
    BY <1>4, <1>6, SameCardinality DEF Ports!VramPlace, W
  <2>5. Ports!Stepping(Len(stream.data) + 1)' =
          {k \in 1 .. n + 1 : vramHigh = (E[k][1] = 2)}
    <3>1. (Len(E) + 1) - 1 = n + 1
      BY <1>3, <1>5
    <3> QED
      BY <1>6, <3>1 DEF Ports!Stepping, E
  <2>6. \A k \in 1 .. n : E[k] = D[k]
    BY <1>5
  <2>7. Ports!Stepping(n + 1) = {k \in 1 .. n : vramHigh = (D[k][1] = 2)}
    <3>1. (n + 1) - 1 = n
      BY <1>3
    <3> QED
      BY <3>1 DEF Ports!Stepping, D
  <2>8. E[n + 1][1] = half
    BY <1>5
  <2> DEFINE P(k) == vramHigh = (E[k][1] = 2)
  <2>11. /\ Ports!Stepping(Len(stream.data) + 1)' = {k \in 1 .. n + 1 : P(k)}
         /\ Ports!Stepping(n + 1) = {k \in 1 .. n : P(k)}
    BY <2>5, <2>6, <2>7
  <2>12. P(n + 1) <=> (vramHigh = (half = 2))
    BY <2>8
  <2> HIDE DEF P
  <2>9. CASE vramHigh = (half = 2)
    <3>1. Ports!Stepping(Len(stream.data) + 1)' = Ports!Stepping(n + 1) \cup {n + 1}
      BY <1>3, <2>9, <2>11, <2>12
    <3>2. n + 1 \notin Ports!Stepping(n + 1)
      BY <1>3, <2>7
    <3>3. Cardinality(Ports!Stepping(Len(stream.data) + 1)') = c + 1
      BY <2>2, <3>1, <3>2, FS_AddElement
    <3>4. stream.from + vramStep * (c + 1) = s + vramStep
      <4> HIDE DEF c
      <4> QED
        BY <1>1, <1>3, <2>2 DEF s
    <3> HIDE DEF s
    <3>5. vramStep \in Int
      BY <1>1
    <3>6. ((s % W) + vramStep) % W = (s + vramStep) % W
      BY <1>1, <2>3, <3>5, ModStep
    <3> QED
      BY <1>6, <2>3, <2>4, <2>9, <3>3, <3>4, <3>6
  <2>10. CASE ~(vramHigh = (half = 2))
    <3>0. ~P(n + 1)
      BY <2>10, <2>12
    <3>1. Ports!Stepping(Len(stream.data) + 1)' = Ports!Stepping(n + 1)
      <4>1. \A k : k \in 1 .. n + 1 <=> k \in 1 .. n \/ k = n + 1
        BY <1>3
      <4>2. \A k : k \in 1 .. n + 1 /\ P(k) <=> k \in 1 .. n /\ P(k)
        BY <3>0, <4>1, Zenon
      <4> QED
        BY <2>11, <4>2
    <3> QED
      BY <1>6, <2>3, <2>4, <2>10, <3>1
  <2> QED
    BY <2>9, <2>10
<1>9. VramTypes'
  <2>1. To(vramAddr) \in 0 .. W - 1
    BY <1>1, TranslateWithin DEF To, W
  <2>2. [vram[To(vramAddr)] EXCEPT ![half] = val] \in Ports!Bytes \X Ports!Bytes
    <3>1. vram[To(vramAddr)] \in Ports!Bytes \X Ports!Bytes
      BY <1>1, <2>1
    <3> QED
      BY <1>1, <3>1
  <2>3. vram' \in [0 .. W - 1 -> Ports!Bytes \X Ports!Bytes]
    BY <1>1, <1>6, <2>1, <2>2
  <2>4. vramAddr' \in 0 .. W - 1
    <3> DEFINE b == vramAddr + vramStep
    <3>1. b \in Int
      BY <1>1
    <3> HIDE DEF b
    <3>2. b % W \in 0 .. W - 1
      BY <1>1, <3>1, DivMod
    <3> QED
      BY <1>1, <1>6, <3>2 DEF b
  <2>5. UNCHANGED <<vramHigh, vramSpan, vramStep>>
    BY <1>6
  <2> QED
    BY <2>3, <2>4, <2>5 DEF VramTypes, W
(* The write is to the half of a word of its own, or to the one it is      *)
(* written to again.                                                       *)
<1>10. ASSUME NEW j \in 1 .. n + 1,
              \A k \in 1 .. n + 1 : k > j => Place(k) # Place(j) \/ E[k][1] # E[j][1]
       PROVE  vram'[To(Place(j))][E[j][1]] = E[j][2]
  <2>1. To(vramAddr) \in 0 .. W - 1 /\ To(Place(j)) \in 0 .. W - 1
    BY <1>1, <1>7, TranslateWithin DEF To, W
  <2>2. /\ vram[To(vramAddr)] \in Ports!Bytes \X Ports!Bytes
        /\ vram[To(Place(j))] \in Ports!Bytes \X Ports!Bytes
    BY <1>1, <2>1
  <2>3. CASE j = n + 1
    <3>1. E[j][1] = half /\ E[j][2] = val /\ Place(j) = vramAddr
      BY <1>2, <1>5, <2>3
    <3> QED
      BY <1>1, <1>6, <2>1, <2>2, <3>1
  <2>4. CASE j # n + 1
    <3>1. j \in 1 .. n /\ n + 1 > j /\ n + 1 \in 1 .. n + 1
      BY <1>3, <2>4
    <3>2. vram[To(Place(j))][E[j][1]] = E[j][2]
      <4>1. E[j] = D[j] /\ \A k \in 1 .. n : E[k] = D[k]
        BY <1>5, <3>1
      <4>2. \A k \in 1 .. n : k > j => Place(k) # Place(j) \/ D[k][1] # D[j][1]
        <5>1. \A k \in 1 .. n : k \in 1 .. n + 1
          BY <1>3
        <5> QED
          BY <1>10, <4>1, <5>1
      <4>3. vram[To(Place(j))][D[j][1]] = D[j][2]
        BY <1>2, <1>5, <3>1, <4>2 DEF Ports!VramStream, D, To, Place, VramInv
      <4> QED
        BY <4>1, <4>3
    <3>3. Place(j) # vramAddr \/ E[j][1] # half
      BY <1>2, <1>5, <1>10, <3>1
    <3>4. To(Place(j)) # To(vramAddr) \/ E[j][1] # half
      <4>1. Place(j) \in 0 .. W - 1 /\ vramAddr \in 0 .. W - 1
        BY <1>1, <1>7
      <4> QED
        BY <1>1, <3>3, <4>1, TranslateApart DEF To, W
    <3>5. E[j][1] \in {1, 2}
      BY <1>5
    <3>6. vram'[To(Place(j))][E[j][1]] = vram[To(Place(j))][E[j][1]]
      BY <1>1, <1>6, <2>1, <2>2, <3>4, <3>5
    <3> QED
      BY <3>2, <3>6
  <2> QED
    BY <2>3, <2>4
<1>11. Ports!VramStream'
  <2>1. \A j \in 1 .. n + 1 : To(Place(j))' = To(Place(j))
    BY <1>6, <1>7 DEF To, Ports!TranslateVRAMAddress
  <2>2. ASSUME NEW j \in DOMAIN E,
               \A k \in DOMAIN E : k > j => Place(k)' # Place(j)' \/ E[k][1] # E[j][1]
        PROVE  vram'[To(Place(j))'][E[j][1]] = E[j][2]
    BY <1>5, <1>7, <1>10, <2>1, <2>2
  <2> QED
    BY <2>2 DEF Ports!VramStream, E, To, Place
<1> QED
  BY <1>4, <1>8, <1>9, <1>11 DEF VramInv, W

LEMMA VramPortRight ==
  ASSUME VramTypes, VramInv, Ports!VramPort, UNCHANGED game PROVE VramTypes' /\ VramInv'
<1> DEFINE h == Byte \div 2
<1>0. game = "vram"
  BY DEF Ports!VramPort
<1>1. /\ Byte \in Nat \ {0} /\ h \in Nat \ {0} /\ Ports!VramWords = Byte * h
      /\ vramAddr \in 0 .. Ports!VramWords - 1 /\ vramHigh \in BOOLEAN
      /\ vramSpan \in RotSpans \cup {1} /\ vramStep \in Steps \cup {0}
  BY PortConstants, VramConstants DEF VramTypes
<1>2. ASSUME NEW a \in 0 .. Ports!VramWords - 1, Ports!SetVram(a)
      PROVE  VramTypes' /\ VramInv'
  BY <1>1, <1>2, VramSet DEF Ports!SetVram
<1>3. ASSUME NEW up \in BOOLEAN, NEW span \in RotSpans \cup {1}, NEW step \in Steps,
             Ports!WriteVramInc(up, span, step)
      PROVE  VramTypes' /\ VramInv'
  BY <1>1, <1>3, VramSet DEF Ports!WriteVramInc
<1> HIDE DEF h
<1>4. /\ Byte * h \in Int /\ vramAddr \in Int /\ 0 <= vramAddr /\ vramAddr < Byte * h
  BY <1>1
<1>5. ASSUME NEW val \in Ports!Bytes, Ports!WriteVramLow(val) PROVE VramTypes' /\ VramInv'
  <2> DEFINE q == vramAddr \div Byte
             a == q * Byte + val
  <2>1. /\ q \in Int /\ vramAddr % Byte \in Int /\ 0 <= vramAddr % Byte
        /\ vramAddr % Byte < Byte /\ vramAddr = (Byte * q) + (vramAddr % Byte)
    BY <1>1, <1>4, DivMod
  <2> HIDE DEF q
  <2>2. 0 <= q
    BY <1>1, <1>4, <2>1
  <2>3. q <= h - 1
    <3>1. ASSUME h <= q PROVE FALSE
      <4>1. Byte * h <= Byte * q /\ Byte * q \in Int
        BY <1>1, <2>1, <3>1, Scaled
      <4> QED
        BY <1>4, <2>1, <4>1
    <3> QED
      BY <1>1, <2>1, <3>1
  <2>4. a \in 0 .. Ports!VramWords - 1
    <3>1. q * Byte <= (Byte * h) - Byte /\ q * Byte \in Int /\ 0 <= q * Byte
      BY <1>1, <2>1, <2>2, <2>3
    <3> QED
      BY <1>1, <1>4, <3>1 DEF Ports!Bytes
  <2>5. Ports!SetVram(a)
    BY <1>5 DEF Ports!WriteVramLow, q
  <2> HIDE DEF a
  <2> QED
    BY <1>2, <2>4, <2>5
<1>6. ASSUME NEW val \in Ports!Bytes, Ports!WriteVramHigh(val) PROVE VramTypes' /\ VramInv'
  <2> DEFINE lo == vramAddr % Byte
             b == val % h
             a == lo + b * Byte
  <2>1. lo \in Int /\ 0 <= lo /\ lo < Byte
    BY <1>1, <1>4, DivMod
  <2>2. b \in Int /\ 0 <= b /\ b <= h - 1
    <3>1. val \in Int
      BY <1>1 DEF Ports!Bytes
    <3>2. b \in Int /\ 0 <= b /\ b < h
      BY <1>1, <3>1, DivMod
    <3> HIDE DEF b
    <3> QED
      BY <1>1, <3>2
  <2>3. Ports!SetVram(a)
    BY <1>6 DEF Ports!WriteVramHigh, h
  <2> HIDE DEF lo, b
  <2>4. a \in 0 .. Ports!VramWords - 1
    <3>1. b * Byte <= (Byte * h) - Byte /\ b * Byte \in Int /\ 0 <= b * Byte
      BY <1>1, <2>2
    <3> QED
      BY <1>1, <1>4, <2>1, <3>1
  <2> HIDE DEF a
  <2> QED
    BY <1>2, <2>3, <2>4
<1> QED
  BY <1>0, <1>3, <1>5, <1>6, VramDataRight DEF Ports!VramPort

-----------------------------------------------------------------------------
(* The ports together: each has its memory to itself, and the stream is    *)
(* that of the group the game writes.                                      *)
PortsInv ==
  /\ game \in Ports!Games /\ writes \in 0 .. MaxWrites[game] /\ sets \in 0 .. MaxSets
  /\ LatchTypes /\ OamTypes /\ CgTypes /\ VramTypes
  /\ LatchInv /\ OamInv /\ CgInv /\ VramInv

LEMMA PortsInit == ASSUME Ports!Init PROVE PortsInv /\ stream = Ports!NoStream
<1> DEFINE W == Ports!VramWords
<1>1. /\ Byte \in Nat \ {0} /\ 2 <= Byte /\ Byte \div 2 \in Nat \ {0} /\ OamHigh \in Nat \ {0}
      /\ W \in Nat \ {0} /\ MaxSets \in Nat
  BY PortConstants, VramConstants
<1>2. /\ Ports!OamSize \in Nat /\ Ports!OamLow \in Nat \ {0} /\ 0 \in Ports!Bytes
      /\ 0 \in Ports!Words
  <2>1. Byte * Byte \in Nat \ {0}
    BY <1>1
  <2> QED
    BY <1>1, <2>1 DEF Ports!OamSize, Ports!OamLow, Ports!Bytes, Ports!Words
<1>3. game \in Ports!Games /\ writes \in 0 .. MaxWrites[game] /\ sets \in 0 .. MaxSets
  <2>1. game \in Ports!Games /\ writes = 0 /\ sets = 0
    BY DEF Ports!Init
  <2>2. MaxWrites[game] \in Nat
    BY <2>1, PortAssumption DEF Ports!Games
  <2> QED
    BY <1>1, <2>1, <2>2
<1>4. LatchTypes
  BY <1>2 DEF LatchTypes, Ports!Init
<1>5. OamTypes
  <2>1. /\ oam = [a \in 0 .. Ports!OamSize - 1 |-> 0] /\ oamAddr = 0 /\ oamVal = 0
        /\ oamReload = 0 /\ oamPrio = FALSE /\ firstObj = 0
    BY DEF Ports!Init
  <2>2. 0 \in 0 .. 4 * Byte - 1 /\ 0 \in 0 .. Ports!OamLow - 1 /\ 0 \in 0 .. Byte \div 2 - 1
    BY <1>1, <1>2
  <2>3. oam \in [0 .. Ports!OamSize - 1 -> Ports!Bytes]
    BY <1>2, <2>1
  <2> QED
    BY <1>2, <2>1, <2>2, <2>3 DEF OamTypes
<1>6. CgTypes
  BY <1>2 DEF CgTypes, Ports!Init
<1>7. VramTypes
  <2>1. /\ vram = [a \in 0 .. W - 1 |-> <<0, 0>>] /\ vramAddr = 0 /\ vramHigh = FALSE
        /\ vramSpan = 1 /\ vramStep = 0
    BY DEF Ports!Init
  <2> HIDE DEF W
  <2>2. vram \in [0 .. W - 1 -> Ports!Bytes \X Ports!Bytes] /\ vramAddr \in 0 .. W - 1
    BY <1>1, <1>2, <2>1
  <2> QED
    BY <2>1, <2>2 DEF VramTypes, W
<1>8. /\ stream = Ports!NoStream /\ stream.from = 0 /\ stream.data = <<>>
      /\ Len(stream.data) = 0 /\ DOMAIN stream.data = {}
      /\ \A S : stream.data \in Seq(S)
  <2>1. \A S : <<>> \in Seq(S) /\ Len(<<>>) = 0
    BY EmptySeq
  <2>2. DOMAIN <<>> = 1 .. 0
    BY <2>1, LenProperties
  <2> QED
    BY <2>1, <2>2 DEF Ports!Init, Ports!NoStream
<1>9. ASSUME NEW n \in Nat \ {0} PROVE 0 % n = 0
  <2>1. 0 = (n * 0) + 0
    OBVIOUS
  <2> DEFINE z == 0
  <2>2. z \in Int /\ 0 <= z /\ z < n /\ z = (n * z) + z
    OBVIOUS
  <2> HIDE DEF z
  <2>3. ((n * z) + z) % n = z
    BY <2>2, DivUnique
  <2> QED
    BY <2>2, <2>3 DEF z
<1>10. LatchInv
  BY <1>8 DEF LatchInv, Latched
<1>11. OamInv
  <2>1. oamAddr = 0 /\ oamAddr = OamAt(Len(stream.data) + 1)
    <3> DEFINE n == 4 * Byte
    <3>1. n \in Nat \ {0}
      BY <1>1
    <3>2. stream.from + (Len(stream.data) + 1) - 1 = 0 /\ oamAddr = 0
      BY <1>8 DEF Ports!Init
    <3> HIDE DEF n
    <3>3. 0 % n = 0
      BY <1>9, <3>1
    <3> QED
      BY <3>2, <3>3 DEF OamAt, n
  <2>2. stream \in [from : 0 .. 4 * Byte - 1, data : Seq(Data)]
    BY <1>1, <1>8 DEF Ports!NoStream
  <2>3. Ports!OamStream
    BY <1>8 DEF Ports!OamStream
  <2> QED
    BY <1>8, <2>1, <2>2, <2>3 DEF OamInv
<1>12. CgInv
  <2>1. stream \in [from : Ports!Bytes, data : Seq(Data)]
    BY <1>2, <1>8 DEF Ports!NoStream
  <2>2. Len(stream.data) \div 2 = 0 /\ Len(stream.data) % 2 = 0
    BY <1>8
  <2>3. cgAddr = (stream.from + (Len(stream.data) \div 2)) % Byte
    <3>1. stream.from + (Len(stream.data) \div 2) = 0 /\ cgAddr = 0
      BY <1>8, <2>2 DEF Ports!Init
    <3>2. 0 % Byte = 0
      BY <1>1, <1>9
    <3> QED
      BY <3>1, <3>2
  <2>4. cgSecond = FALSE
    BY DEF Ports!Init
  <2>5. Ports!CgStream
    <3> DEFINE m == Len(stream.data) \div 2
    <3>1. m = 0
      BY <2>2
    <3> HIDE DEF m
    <3>2. ~ \E j \in 1 .. m : TRUE
      BY <3>1
    <3> QED
      BY <3>2 DEF m, Ports!CgStream
  <2> QED
    BY <2>1, <2>2, <2>3, <2>4, <2>5 DEF CgInv
<1>13. VramInv
  <2>1. stream \in [from : 0 .. W - 1, data : Seq({1, 2} \X Data)]
    BY <1>1, <1>8 DEF Ports!NoStream
  <2>2. vramAddr = Ports!VramPlace(Len(stream.data) + 1)
    <3>1. Ports!Stepping(Len(stream.data) + 1) = {}
      BY <1>8 DEF Ports!Stepping
    <3>2. Cardinality(Ports!Stepping(Len(stream.data) + 1)) = 0
      BY <3>1, FS_EmptySet
    <3>3. vramStep = 0 /\ vramAddr = 0
      BY DEF Ports!Init
    <3>4. stream.from + (vramStep * Cardinality(Ports!Stepping(Len(stream.data) + 1))) = 0
      BY <1>8, <3>2, <3>3
    <3>5. 0 % W = 0
      BY <1>1, <1>9
    <3>6. Ports!VramPlace(Len(stream.data) + 1) =
            (stream.from + vramStep * Cardinality(Ports!Stepping(Len(stream.data) + 1))) % W
      BY VramPlaceIs
    <3> QED
      BY <3>3, <3>4, <3>5, <3>6
  <2>3. Ports!VramStream
    BY <1>8 DEF Ports!VramStream
  <2> QED
    BY <2>1, <2>2, <2>3 DEF VramInv
<1> QED
  BY <1>3, <1>4, <1>5, <1>6, <1>7, <1>8, <1>10, <1>11, <1>12, <1>13 DEF PortsInv

LEMMA PortsStepInv ==
  ASSUME PortsInv, [Ports!Next]_portsVars PROVE PortsInv'
<1>1. CASE UNCHANGED portsVars
  <2>1. LatchTypes' /\ OamTypes' /\ CgTypes' /\ VramTypes'
    BY <1>1 DEF PortsInv, portsVars, LatchTypes, OamTypes, CgTypes, VramTypes
  <2>2. LatchInv' /\ CgInv'
    BY <1>1 DEF PortsInv, portsVars, LatchInv, Latched, CgInv, Ports!CgStream
  <2>3. OamInv'
    BY <1>1 DEF PortsInv, portsVars, OamInv, OamAt, Ports!OamStream, Ports!OamSettled,
                Ports!OamPlace
  <2>4. VramInv'
    <3>1. \A j : Ports!VramPlace(j)' = Ports!VramPlace(j)
      BY <1>1, SameCardinality DEF portsVars, Ports!VramPlace, Ports!Stepping
    <3>2. \A a : Ports!TranslateVRAMAddress(a)' = Ports!TranslateVRAMAddress(a)
      BY <1>1 DEF portsVars, Ports!TranslateVRAMAddress
    <3>3. UNCHANGED <<game, stream, vram, vramAddr>> /\ VramInv
      BY <1>1 DEF portsVars, PortsInv
    <3>4. Ports!VramStream'
      <4>1. ASSUME NEW j \in DOMAIN stream.data, game = "vram",
                   \A k \in DOMAIN stream.data :
                     k > j => Ports!VramPlace(k)' # Ports!VramPlace(j)'
                              \/ stream.data[k][1] # stream.data[j][1]
            PROVE  vram[Ports!TranslateVRAMAddress(Ports!VramPlace(j))'][stream.data[j][1]]
                     = stream.data[j][2]
        BY <3>1, <3>2, <3>3, <4>1 DEF VramInv, Ports!VramStream
      <4> QED
        BY <3>3, <4>1 DEF Ports!VramStream
    <3>5. vramAddr' = Ports!VramPlace(Len(stream.data) + 1)' <=>
            vramAddr = Ports!VramPlace(Len(stream.data) + 1)
      BY <1>1, SameCardinality DEF portsVars, Ports!VramPlace, Ports!Stepping
    <3> QED
      BY <3>3, <3>4, <3>5 DEF VramInv
  <2> QED
    BY <1>1, <2>1, <2>2, <2>3, <2>4 DEF PortsInv, portsVars
<1>2. CASE Ports!Next
  <2>1. game' = game
    BY <1>2 DEF Ports!Next
  <2>2. game' \in Ports!Games /\ writes' \in 0 .. MaxWrites[game'] /\ sets' \in 0 .. MaxSets
    <3>1. /\ game \in Ports!Games /\ writes < MaxWrites[game] /\ writes' = writes + 1
          /\ sets' = sets + (IF stream'.data = <<>> THEN 1 ELSE 0) /\ sets' <= MaxSets
          /\ writes \in 0 .. MaxWrites[game] /\ sets \in 0 .. MaxSets
      BY <1>2 DEF Ports!Next, PortsInv
    <3>2. MaxWrites[game] \in Nat /\ MaxSets \in Nat
      BY <3>1, PortAssumption DEF Ports!Games
    <3>3. writes' \in 0 .. MaxWrites[game]
      BY <3>1, <3>2
    <3>4. sets' \in 0 .. MaxSets
      BY <3>1, <3>2
    <3> QED
      BY <2>1, <3>1, <3>3, <3>4
  <2>3. CASE Ports!LatchPort
    <3>1. game \in {"scroll", "matrix"} /\ UNCHANGED <<Ports!oamVars, Ports!cgVars, Ports!vramVars>>
      BY <2>3 DEF Ports!LatchPort
    <3>2. LatchTypes' /\ LatchInv'
      BY <2>1, <2>3, LatchPortRight DEF PortsInv
    <3>3. OamTypes' /\ CgTypes' /\ VramTypes'
      BY <3>1 DEF PortsInv, OamTypes, CgTypes, VramTypes, Ports!oamVars, Ports!cgVars,
                  Ports!vramVars
    <3>4. OamInv' /\ CgInv' /\ VramInv'
      BY <2>1, <3>1 DEF OamInv, CgInv, VramInv
    <3> QED
      BY <2>2, <3>2, <3>3, <3>4 DEF PortsInv
  <2>4. CASE Ports!OamPort
    <3>1. game = "oam" /\ UNCHANGED <<Ports!latches, Ports!cgVars, Ports!vramVars>>
      BY <2>4 DEF Ports!OamPort
    <3>2. OamTypes' /\ OamInv'
      BY <2>1, <2>4, OamPortRight DEF PortsInv
    <3>3. LatchTypes' /\ CgTypes' /\ VramTypes'
      BY <3>1 DEF PortsInv, LatchTypes, CgTypes, VramTypes, Ports!latches, Ports!cgVars,
                  Ports!vramVars
    <3>4. LatchInv' /\ CgInv' /\ VramInv'
      BY <2>1, <3>1 DEF LatchInv, Latched, CgInv, VramInv
    <3> QED
      BY <2>2, <3>2, <3>3, <3>4 DEF PortsInv
  <2>5. CASE Ports!CgPort
    <3>1. game = "cgram" /\ UNCHANGED <<Ports!latches, Ports!oamVars, Ports!vramVars>>
      BY <2>5 DEF Ports!CgPort
    <3>2. CgTypes' /\ CgInv'
      BY <2>1, <2>5, CgPortRight DEF PortsInv
    <3>3. LatchTypes' /\ OamTypes' /\ VramTypes'
      BY <3>1 DEF PortsInv, LatchTypes, OamTypes, VramTypes, Ports!latches, Ports!oamVars,
                  Ports!vramVars
    <3>4. LatchInv' /\ OamInv' /\ VramInv'
      BY <2>1, <3>1 DEF LatchInv, Latched, OamInv, VramInv
    <3> QED
      BY <2>2, <3>2, <3>3, <3>4 DEF PortsInv
  <2>6. CASE Ports!VramPort
    <3>1. game = "vram" /\ UNCHANGED <<Ports!latches, Ports!oamVars, Ports!cgVars>>
      BY <2>6 DEF Ports!VramPort
    <3>2. VramTypes' /\ VramInv'
      BY <2>1, <2>6, VramPortRight DEF PortsInv
    <3>3. LatchTypes' /\ OamTypes' /\ CgTypes'
      BY <3>1 DEF PortsInv, LatchTypes, OamTypes, CgTypes, Ports!latches, Ports!oamVars,
                  Ports!cgVars
    <3>4. LatchInv' /\ OamInv' /\ CgInv'
      BY <2>1, <3>1 DEF LatchInv, Latched, OamInv, CgInv
    <3> QED
      BY <2>2, <3>2, <3>3, <3>4 DEF PortsInv
  <2> QED
    BY <1>2, <2>3, <2>4, <2>5, <2>6 DEF Ports!Next
<1> QED
  BY <1>1, <1>2

LEMMA PortsRight ==
  ASSUME PortsInv
  PROVE  Ports!TypeOK /\ Ports!OamStream /\ Ports!CgStream /\ Ports!VramStream
<1>1. Ports!OamStream
  BY DEF PortsInv, OamInv, Ports!OamStream
<1>2. Ports!CgStream
  BY DEF PortsInv, CgInv, Ports!CgStream
<1>3. Ports!VramStream
  BY DEF PortsInv, VramInv, Ports!VramStream
<1>4. Ports!TypeOK
  BY DEF PortsInv, LatchTypes, OamTypes, CgTypes, VramTypes, Ports!TypeOK
<1> QED
  BY <1>1, <1>2, <1>3, <1>4

(* Only a write to a latched port can make a pair of bytes.                *)
LEMMA PairsStep ==
  ASSUME PortsInv, Ports!Next PROVE Ports!ScrollWholeStep /\ Ports!MatrixWholeStep
<1>1. CASE Ports!LatchPort
  <2>1. UNCHANGED game
    BY DEF Ports!Next
  <2> QED
    BY <1>1, <2>1, LatchPortRight DEF PortsInv
<1>2. CASE Ports!OamPort \/ Ports!CgPort \/ Ports!VramPort
  <2>1. game \in {"oam", "cgram", "vram"}
    BY <1>2 DEF Ports!OamPort, Ports!CgPort, Ports!VramPort
  <2> QED
    BY <2>1 DEF Ports!ScrollWholeStep, Ports!MatrixWholeStep
<1> QED
  BY <1>1, <1>2 DEF Ports!Next

-----------------------------------------------------------------------------
(* The background. The tiles of the map are numbered along the line, from  *)
(* its left end on: the pointer is at the cell of the next tile to draw,   *)
(* and everything to the left of where it is drawn is there.               *)
RowBase ==
  Background!TileOf(y) * Cols
  + (IF ~(Background!Beyond(y) /\ scr.below) THEN 0
     ELSE IF scr.right THEN 2 * Background!Screen ELSE Background!Screen)

CellOf(g) ==
  RowBase + (g % Cols) + (IF (g \div Cols) % 2 = 1 /\ scr.right THEN Background!Screen ELSE 0)

BackgroundInv ==
  /\ drawing \in BOOLEAN /\ scr \in [right : BOOLEAN, below : BOOLEAN]
  /\ x0 \in Background!Positions /\ y \in Background!Positions
  /\ ~drawing => i = 0 /\ xpos = 0 /\ dst = 0 /\ DOMAIN drawn = {}
  /\ drawing =>
       /\ i \in Nat /\ i <= Background!TilesOfLine
       /\ xpos = x0 + (Tile * i) /\ dst = (Tile * i) - (x0 % Tile)
       /\ tilemap = CellOf((x0 \div Tile) + i)
       /\ DOMAIN drawn = {p \in 0 .. Background!Width - 1 : p < dst}
       /\ \A p \in DOMAIN drawn : drawn[p] = Background!PixelAt(p)

LEMMA BackgroundConstants ==
  /\ Tile \in Nat \ {0} /\ Cols \in Nat \ {0}
  /\ Background!Width = Tile * Cols /\ Background!Width \in Nat \ {0}
  /\ Background!Screen = Cols * Cols /\ Background!Screen \in Nat \ {0}
  /\ Tile <= Background!Width /\ Cols <= Background!Screen
<1>1. Tile \in Nat \ {0} /\ Cols \in Nat \ {0}
  BY BackgroundAssumption
<1>2. Tile * Cols \in Nat \ {0} /\ Cols * Cols \in Nat \ {0}
  BY <1>1
<1>3. Tile * 1 <= Tile * Cols /\ Cols * 1 <= Cols * Cols
  <2>1. Tile \in Nat /\ Cols \in Nat /\ 1 \in Int /\ Cols \in Int /\ 1 <= Cols
    BY <1>1
  <2> QED
    BY <2>1, Scaled
<1> QED
  BY <1>1, <1>2, <1>3 DEF Background!Width, Background!Screen

(* The tile, the screen and the column within its tile of a position, from *)
(* the number of its tile.                                                 *)
LEMMA TileNumber ==
  ASSUME NEW pos \in Nat
  PROVE  /\ pos \div Tile \in Nat
         /\ Background!TileOf(pos) = (pos \div Tile) % Cols
         /\ pos \div Background!Width = (pos \div Tile) \div Cols
<1> DEFINE g == pos \div Tile
           c == pos % Tile
           k == g \div Cols
           t == g % Cols
           r == (Tile * t) + c
           W == Background!Width
<1>1. /\ Tile \in Nat \ {0} /\ Cols \in Nat \ {0} /\ W = Tile * Cols /\ W \in Nat \ {0}
      /\ pos \in Int
  BY BackgroundConstants
<1>2. g \in Int /\ c \in Int /\ 0 <= c /\ c < Tile /\ pos = (Tile * g) + c
  BY <1>1, DivMod
<1> HIDE DEF g, c, W
<1>3. g \in Nat
  <2>1. ASSUME g < 0 PROVE FALSE
    <3>1. Tile \in Nat /\ g \in Int /\ -1 \in Int /\ g <= -1
      BY <1>1, <1>2, <2>1
    <3>2. Tile * g <= Tile * (-1) /\ Tile * g \in Int
      BY <3>1, Scaled
    <3>3. Tile * (-1) = -Tile
      BY <1>1
    <3> QED
      BY <1>1, <1>2, <3>2, <3>3
  <2> QED
    BY <1>2, <2>1
<1>4. k \in Int /\ t \in Int /\ 0 <= t /\ t < Cols /\ g = (Cols * k) + t
  BY <1>1, <1>2, DivMod
<1> HIDE DEF k, t
<1>5. /\ Tile * t \in Int /\ 0 <= Tile * t /\ Tile * t <= (Tile * Cols) - Tile
      /\ Tile * Cols \in Int
  <2>1. Tile \in Nat /\ t \in Int /\ Cols - 1 \in Int /\ t <= Cols - 1 /\ 0 \in Int
    BY <1>1, <1>4
  <2>2. Tile * t <= Tile * (Cols - 1)
    BY <2>1, Scaled
  <2>3. Tile * (Cols - 1) = (Tile * Cols) - Tile /\ Tile * t \in Int /\ 0 <= Tile * t
        /\ Tile * Cols \in Int
    BY <1>1, <1>4
  <2> QED
    BY <2>2, <2>3
<1>6. r \in Int /\ 0 <= r /\ r < W
  BY <1>1, <1>2, <1>5
<1>7. pos = (W * k) + r
  <2>1. Tile * ((Cols * k) + t) = ((Tile * Cols) * k) + (Tile * t)
    BY <1>1, <1>4
  <2>2. (Tile * Cols) * k \in Int
    BY <1>1, <1>4
  <2> QED
    BY <1>1, <1>2, <1>4, <1>5, <2>1, <2>2
<1>8. r \div Tile = t
  BY <1>1, <1>2, <1>4, DivUnique
<1> HIDE DEF r
<1>9. pos % W = r /\ pos \div W = k
  BY <1>1, <1>4, <1>6, <1>7, DivUnique
<1> QED
  BY <1>3, <1>8, <1>9 DEF Background!TileOf, g, k, t, W

(* A position on the plane of two by two screens, once round.              *)
LEMMA Around ==
  ASSUME NEW pos \in Nat
  PROVE  LET X == pos % (2 * Background!Width)
         IN /\ X \in Nat /\ X % Background!Width = pos % Background!Width
            /\ (X \div Background!Width) % 2 = (pos \div Background!Width) % 2
            /\ X % Tile = pos % Tile
<1> DEFINE W == Background!Width
           n == 2 * W
           X == pos % n
           d == pos \div n
           k == X \div W
           r == X % W
<1>1. W \in Nat \ {0} /\ W = Tile * Cols /\ Tile \in Nat \ {0} /\ Cols \in Nat \ {0}
      /\ pos \in Int
  BY BackgroundConstants
<1> HIDE DEF W
<1>2. n \in Nat \ {0}
  BY <1>1
<1>3. X \in Int /\ d \in Int /\ 0 <= X /\ X < n /\ pos = (n * d) + X
  <2> HIDE DEF n
  <2> QED
    BY <1>1, <1>2, DivMod
<1> HIDE DEF X, d
<1>4. k \in Int /\ r \in Int /\ 0 <= r /\ r < W /\ X = (W * k) + r
  BY <1>1, <1>3, DivMod
<1> HIDE DEF k, r
<1>5. pos = (W * ((2 * d) + k)) + r
  <2>1. W * ((2 * d) + k) = ((2 * W) * d) + (W * k)
    BY <1>1, <1>3, <1>4
  <2>2. (2 * W) * d \in Int /\ W * k \in Int
    BY <1>1, <1>3, <1>4
  <2> QED
    BY <1>3, <1>4, <2>1, <2>2
<1>6. pos % W = r /\ pos \div W = (2 * d) + k
  <2> DEFINE m == (2 * d) + k
  <2>1. m \in Int
    BY <1>3, <1>4
  <2> HIDE DEF m
  <2>2. pos = (W * m) + r
    BY <1>5 DEF m
  <2>3. pos % W = r /\ pos \div W = m
    BY <1>1, <1>4, <2>1, <2>2, DivUnique
  <2> QED
    BY <2>3 DEF m
<1>7. ((2 * d) + k) % 2 = k % 2
  BY <1>3, <1>4
<1>8. X % Tile = pos % Tile
  <2> DEFINE e == X \div Tile
             c == X % Tile
             m == ((2 * Cols) * d) + e
  <2>1. e \in Int /\ c \in Int /\ 0 <= c /\ c < Tile /\ X = (Tile * e) + c
    BY <1>1, <1>3, DivMod
  <2> HIDE DEF e, c
  <2>2. m \in Int /\ pos = (Tile * m) + c
    <3>1. n * d = Tile * ((2 * Cols) * d)
      BY <1>1, <1>3
    <3>2. Tile * (((2 * Cols) * d) + e) = (Tile * ((2 * Cols) * d)) + (Tile * e)
      BY <1>1, <1>3, <2>1
    <3>3. (2 * Cols) * d \in Int /\ Tile * ((2 * Cols) * d) \in Int /\ Tile * e \in Int
      BY <1>1, <1>3, <2>1
    <3> HIDE DEF n
    <3> QED
      BY <1>3, <2>1, <3>1, <3>2, <3>3
  <2> HIDE DEF m
  <2>3. pos % Tile = c
    BY <1>1, <2>1, <2>2, DivUnique
  <2> QED
    BY <2>3 DEF c
<1> QED
  BY <1>3, <1>4, <1>6, <1>7, <1>8 DEF X, k, r, n, W

(* The cell the map means for a position is that of its tile's number.     *)
LEMMA PixelIs ==
  ASSUME BackgroundInv, NEW p \in Nat
  PROVE  LET cell == CellOf((x0 + p) \div Tile)
         IN Background!PixelAt(p) =
              <<cell,
                IF cell \in VFlip THEN Tile - 1 - (y % Tile) ELSE y % Tile,
                IF cell \in HFlip THEN Tile - 1 - ((x0 + p) % Tile) ELSE (x0 + p) % Tile>>
<1> DEFINE pos == x0 + p
           W == Background!Width
           X == pos % (2 * W)
           g == pos \div Tile
<1>1. /\ W \in Nat \ {0} /\ pos \in Nat /\ Background!Screen \in Nat /\ Cols \in Nat \ {0}
      /\ scr.right \in BOOLEAN
  BY BackgroundConstants DEF BackgroundInv, Background!Positions
<1>2. /\ X \in Nat /\ X % W = pos % W /\ (X \div W) % 2 = (pos \div W) % 2
      /\ X % Tile = pos % Tile
  BY <1>1, Around
<1>3. Background!TileOf(pos) = g % Cols /\ pos \div W = g \div Cols /\ g \in Nat
  BY <1>1, TileNumber
<1>4. Background!TileOf(X) = g % Cols
  BY <1>2, <1>3 DEF Background!TileOf
<1>5. Background!Beyond(X) <=> (g \div Cols) % 2 = 1
  BY <1>2, <1>3 DEF Background!Beyond
<1>6. g % Cols \in Int /\ Background!TileOf(y) * Cols \in Int
  <2>1. g % Cols \in Int
    BY <1>1, <1>3, DivMod
  <2>2. y \in Nat
    BY <1>1 DEF BackgroundInv, Background!Positions
  <2>3. Background!TileOf(y) = (y \div Tile) % Cols /\ y \div Tile \in Int
    BY <2>2, TileNumber
  <2>4. Background!TileOf(y) \in Int
    BY <1>1, <2>3, DivMod
  <2> QED
    BY <1>1, <2>1, <2>4
<1> DEFINE right == Background!Beyond(X) /\ scr.right
           below == Background!Beyond(y) /\ scr.below
           screen == (IF right THEN 1 ELSE 0)
                     + (IF ~below THEN 0 ELSE IF scr.right THEN 2 ELSE 1)
           base == Background!TileOf(y) * Cols
           t == g % Cols
           S == Background!Screen
           cell == screen * S + base + t
<1>7. Background!PixelAt(p) =
        <<cell,
          IF cell \in VFlip THEN Tile - 1 - (y % Tile) ELSE y % Tile,
          IF cell \in HFlip THEN Tile - 1 - (pos % Tile) ELSE pos % Tile>>
  <2>1. screen * S + base + Background!TileOf(X) = cell
    BY <1>4
  <2> QED
    BY <1>2, <2>1 DEF Background!PixelAt
<1>8. cell = CellOf(g)
  <2>1. CellOf(g) = (base + (IF ~below THEN 0 ELSE IF scr.right THEN 2 * S ELSE S))
                    + t + (IF right THEN S ELSE 0)
    BY <1>5 DEF CellOf, RowBase
  <2> HIDE DEF base, t, S, right, below
  <2>2. S \in Int /\ base \in Int /\ t \in Int
    BY <1>1, <1>6 DEF S, base, t
  <2>3. screen * S = (IF right THEN S ELSE 0) + (IF ~below THEN 0 ELSE IF scr.right THEN 2 * S ELSE S)
    BY <2>2
  <2> HIDE DEF screen
  <2> QED
    BY <2>1, <2>2, <2>3
<1> QED
  BY <1>7, <1>8

(* From one tile to the next the pointer steps and jumps; all it can reach *)
(* are the cells of the map.                                               *)
LEMMA CellStep ==
  ASSUME BackgroundInv, NEW pos \in Nat, NEW g \in Nat, g = pos \div Tile
  PROVE  CellOf(g + 1) = CellOf(g) + 1 + Background!Jump(pos + Tile)
<1> DEFINE S == Background!Screen
           k == g \div Cols
           t == g % Cols
           k1 == (g + 1) \div Cols
           t1 == (g + 1) % Cols
<1>1. /\ Tile \in Nat \ {0} /\ Cols \in Nat \ {0} /\ S \in Nat /\ pos + Tile \in Nat
      /\ RowBase \in Int /\ scr.right \in BOOLEAN
  <2>1. Tile \in Nat \ {0} /\ Cols \in Nat \ {0} /\ S \in Nat
    BY BackgroundConstants
  <2>2. y \in Nat
    BY BackgroundConstants DEF BackgroundInv, Background!Positions
  <2>3. Background!TileOf(y) = (y \div Tile) % Cols /\ y \div Tile \in Int
    BY <2>2, TileNumber
  <2>4. Background!TileOf(y) \in Int
    BY <2>1, <2>3, DivMod
  <2>5. Background!TileOf(y) * Cols \in Int
    BY <2>1, <2>4
  <2>6. RowBase \in Int
    <3> HIDE DEF S
    <3> QED
      BY <2>1, <2>5 DEF RowBase, S
  <2> QED
    BY <2>1, <2>6 DEF BackgroundInv
<1>2. (pos + Tile) \div Tile = g + 1
  <2> DEFINE c == pos % Tile
  <2>1. c \in Int /\ 0 <= c /\ c < Tile /\ pos = (Tile * g) + c
    <3>1. pos \in Int
      OBVIOUS
    <3> QED
      BY <1>1, <3>1, DivMod
  <2> HIDE DEF c
  <2>2. pos + Tile = (Tile * (g + 1)) + c
    <3>1. Tile * (g + 1) = (Tile * g) + Tile /\ Tile * g \in Int
      BY <1>1
    <3> QED
      BY <1>1, <2>1, <3>1
  <2>3. g + 1 \in Int
    OBVIOUS
  <2> DEFINE m == g + 1
  <2> HIDE DEF m
  <2>4. m \in Int /\ pos + Tile = (Tile * m) + c
    BY <2>2, <2>3 DEF m
  <2>5. ((Tile * m) + c) \div Tile = m
    BY <1>1, <2>1, <2>4, DivUnique
  <2> QED
    BY <2>4, <2>5 DEF m
<1>3. Background!TileOf(pos + Tile) = t1 /\ (pos + Tile) \div Background!Width = k1
  BY <1>1, <1>2, TileNumber
<1>4. Background!Beyond(pos + Tile) <=> k1 % 2 = 1
  BY <1>3 DEF Background!Beyond
<1>5. k \in Int /\ t \in Int /\ 0 <= t /\ t < Cols /\ g = (Cols * k) + t
  <2>1. g \in Int
    OBVIOUS
  <2> QED
    BY <1>1, <2>1, DivMod
<1>6. Background!Jump(pos + Tile) =
        IF t1 # 0 THEN 0
        ELSE IF ~scr.right THEN -Cols
        ELSE IF k1 % 2 = 1 THEN S - Cols
        ELSE -(S + Cols)
  BY <1>3, <1>4 DEF Background!Jump
<1>7. /\ CellOf(g) = RowBase + t + (IF k % 2 = 1 /\ scr.right THEN S ELSE 0)
      /\ CellOf(g + 1) = RowBase + t1 + (IF k1 % 2 = 1 /\ scr.right THEN S ELSE 0)
  BY DEF CellOf
<1> HIDE DEF k, t, S
<1>8. CASE t = Cols - 1
  <2>1. g + 1 = (Cols * (k + 1)) + 0
    <3>1. Cols * (k + 1) = (Cols * k) + Cols /\ Cols * k \in Int
      BY <1>1, <1>5
    <3> QED
      BY <1>1, <1>5, <1>8, <3>1
  <2>2. t1 = 0 /\ k1 = k + 1
    <3> DEFINE m == k + 1
               n == g + 1
               z == 0
    <3>1. m \in Int /\ z \in Int /\ 0 <= z /\ z < Cols /\ n = (Cols * m) + z
      BY <1>1, <1>5, <2>1
    <3> HIDE DEF m, n, z
    <3>2. n % Cols = z /\ n \div Cols = m
      BY <1>1, <3>1, DivUnique
    <3> QED
      BY <3>2 DEF m, n, z
  <2> HIDE DEF t1, k1
  <2>3. k1 % 2 = 1 <=> k % 2 # 1
    BY <1>5, <2>2
  <2> QED
    BY <1>1, <1>6, <1>7, <1>8, <2>2, <2>3
<1>9. CASE t # Cols - 1
  <2>1. t1 = t + 1 /\ k1 = k
    <3> DEFINE m == t + 1
               n == g + 1
    <3>1. m \in Int /\ 0 <= m /\ m < Cols /\ n = (Cols * k) + m
      BY <1>1, <1>5, <1>9
    <3> HIDE DEF m, n
    <3>2. n % Cols = m /\ n \div Cols = k
      BY <1>1, <1>5, <3>1, DivUnique
    <3> QED
      BY <3>2 DEF m, n
  <2> HIDE DEF t1, k1
  <2>2. t1 # 0
    BY <1>5, <2>1
  <2> QED
    BY <1>1, <1>5, <1>6, <1>7, <2>1, <2>2
<1> QED
  BY <1>8, <1>9

LEMMA CellWithin ==
  ASSUME BackgroundInv, NEW g \in Nat PROVE CellOf(g) \in Background!Cells
<1> DEFINE S == Background!Screen
           r == Background!TileOf(y)
           t == g % Cols
<1>1. /\ Tile \in Nat \ {0} /\ Cols \in Nat \ {0} /\ S \in Nat /\ S = Cols * Cols
      /\ g \in Int
  BY BackgroundConstants
<1>2. y \in Nat
  BY BackgroundConstants DEF BackgroundInv, Background!Positions
<1>3. r = (y \div Tile) % Cols /\ y \div Tile \in Int
  BY <1>2, TileNumber
<1>4. r \in Int /\ 0 <= r /\ r < Cols
  BY <1>1, <1>3, DivMod
<1>5. t \in Int /\ 0 <= t /\ t < Cols
  BY <1>1, DivMod
<1> HIDE DEF S, r, t
<1>6. r * Cols \in Int /\ 0 <= r * Cols /\ r * Cols <= S - Cols
  <2>1. Cols \in Nat /\ r \in Int /\ Cols - 1 \in Int /\ r <= Cols - 1
    BY <1>1, <1>4
  <2>2. Cols * r <= Cols * (Cols - 1)
    BY <2>1, Scaled
  <2>3. Cols * (Cols - 1) = (Cols * Cols) - Cols /\ Cols * r = r * Cols
        /\ r * Cols \in Int /\ 0 <= r * Cols /\ Cols * Cols \in Int
    BY <1>1, <1>4
  <2> QED
    BY <1>1, <2>2, <2>3
<1>7. /\ CellOf(g) = RowBase + t + (IF (g \div Cols) % 2 = 1 /\ scr.right THEN S ELSE 0)
      /\ RowBase = (r * Cols) + (IF ~(Background!Beyond(y) /\ scr.below) THEN 0
                                 ELSE IF scr.right THEN 2 * S ELSE S)
  BY DEF CellOf, RowBase, S, r, t
<1> DEFINE b == Background!Beyond(y) /\ scr.below
           q == r * Cols
           a == (g \div Cols) % 2 = 1 /\ scr.right
<1>8. a => scr.right
  OBVIOUS
<1> HIDE DEF b, q, a
<1>9. /\ CellOf(g) = RowBase + t + (IF a THEN S ELSE 0)
      /\ RowBase = q + (IF ~b THEN 0 ELSE IF scr.right THEN 2 * S ELSE S)
      /\ q \in Int /\ 0 <= q /\ q <= S - Cols
  BY <1>6, <1>7 DEF a, b, q
<1>10. 0 <= CellOf(g) /\ CellOf(g) < 4 * S /\ CellOf(g) \in Int
  BY <1>1, <1>5, <1>8, <1>9
<1> QED
  BY <1>1, <1>10 DEF Background!Cells, S

LEMMA BackgroundInit == ASSUME Background!Init PROVE BackgroundInv
<1>1. 0 \in Background!Positions
  BY BackgroundConstants DEF Background!Positions
<1>2. DOMAIN drawn = {}
  BY DEF Background!Init
<1> QED
  BY <1>1, <1>2 DEF Background!Init, BackgroundInv

LEMMA StartRight == ASSUME BackgroundInv, Background!Start PROVE BackgroundInv'
<1> DEFINE W == Background!Width
<1>1. /\ Tile \in Nat \ {0} /\ Cols \in Nat \ {0} /\ W \in Nat \ {0}
  BY BackgroundConstants
<1>2. /\ drawing' = TRUE /\ scr' \in [right : BOOLEAN, below : BOOLEAN]
      /\ x0' \in Background!Positions /\ xpos' = x0' /\ y' \in Background!Positions /\ i' = 0
      /\ tilemap' = Background!TileOf(y') * Cols
                    + (IF ~(Background!Beyond(y') /\ scr'.below) THEN 0
                       ELSE IF scr'.right THEN 2 * Background!Screen ELSE Background!Screen)
                    + Background!TileOf(x0')
                    + (IF Background!Beyond(x0') /\ scr'.right THEN Background!Screen ELSE 0)
      /\ dst' = -(x0' % Tile) /\ DOMAIN drawn' = {}
  BY DEF Background!Start
<1>3. x0' \in Nat
  BY <1>1, <1>2 DEF Background!Positions
<1>4. /\ Background!TileOf(x0') = (x0' \div Tile) % Cols /\ x0' \div Tile \in Nat
      /\ x0' \div W = (x0' \div Tile) \div Cols
  BY <1>3, TileNumber
<1>5. tilemap' = CellOf((x0 \div Tile) + i)'
  <2> DEFINE e == x0' \div Tile
             A == Background!TileOf(y') * Cols
                  + (IF ~(Background!Beyond(y') /\ scr'.below) THEN 0
                     ELSE IF scr'.right THEN 2 * Background!Screen ELSE Background!Screen)
             t == e % Cols
             b == (e \div Cols) % 2 = 1
             S == IF b /\ scr'.right THEN Background!Screen ELSE 0
  <2>1. (x0' \div Tile) + i' = e
    BY <1>2, <1>4
  <2>2. RowBase' = A
    BY DEF RowBase
  <2>3. CellOf((x0 \div Tile) + i)' =
          RowBase' + (((x0' \div Tile) + i') % Cols)
          + (IF (((x0' \div Tile) + i') \div Cols) % 2 = 1 /\ scr'.right
             THEN Background!Screen ELSE 0)
    BY DEF CellOf
  <2>4. CellOf((x0 \div Tile) + i)' = A + t + S
    <3> HIDE DEF A, e
    <3> QED
      BY <2>1, <2>2, <2>3
  <2>5. Background!Beyond(x0') <=> b
    BY <1>4 DEF Background!Beyond
  <2>6. tilemap' = A + Background!TileOf(x0')
                   + (IF Background!Beyond(x0') /\ scr'.right THEN Background!Screen ELSE 0)
    BY <1>2
  <2>7. Background!TileOf(x0') = t
    BY <1>4
  <2> HIDE DEF A, e, t, b
  <2> QED
    BY <2>4, <2>5, <2>6, <2>7
<1>6. x0' % Tile \in Int /\ 0 <= x0' % Tile /\ x0' % Tile < Tile
  <2>1. x0' \in Int
    BY <1>3
  <2> QED
    BY <1>1, <2>1, DivMod
<1>7. xpos' = x0' + (Tile * i') /\ dst' = (Tile * i') - (x0' % Tile)
  <2>1. Tile * i' = 0
    BY <1>1, <1>2
  <2> QED
    BY <1>2, <1>3, <1>6, <2>1
<1>8. {p \in 0 .. W - 1 : p < dst'} = {}
  <2>1. dst' <= 0 /\ dst' \in Int
    BY <1>2, <1>6
  <2> HIDE DEF W
  <2> QED
    BY <1>1, <2>1
<1>9. i' \in Nat /\ i' <= Background!TilesOfLine'
  BY <1>1, <1>2 DEF Background!TilesOfLine
<1>10. \A p \in DOMAIN drawn' : drawn'[p] = Background!PixelAt(p)'
  BY <1>2
<1> QED
  BY <1>2, <1>5, <1>7, <1>8, <1>9, <1>10 DEF BackgroundInv

LEMMA DrawTileRight == ASSUME BackgroundInv, Background!DrawTile PROVE BackgroundInv'
<1> DEFINE W == Background!Width
           xoff == x0 % Tile
           g == (x0 \div Tile) + i
<1>1. /\ Tile \in Nat \ {0} /\ Cols \in Nat \ {0} /\ W \in Nat \ {0} /\ W = Tile * Cols
      /\ Tile <= W
  BY BackgroundConstants
<1>2. /\ drawing /\ i \in Nat /\ i < Background!TilesOfLine /\ i <= Cols
      /\ (i = Cols => xoff # 0)
      /\ xpos = x0 + (Tile * i) /\ dst = (Tile * i) - xoff /\ tilemap = CellOf(g)
      /\ DOMAIN drawn = {p \in 0 .. W - 1 : p < dst}
      /\ \A p \in DOMAIN drawn : drawn[p] = Background!PixelAt(p)
  <2>1. drawing /\ i \in Nat /\ i < Background!TilesOfLine
    BY DEF BackgroundInv, Background!DrawTile
  <2>2. i <= Cols /\ (i = Cols => xoff # 0)
    BY <1>1, <2>1 DEF Background!TilesOfLine
  <2> QED
    BY <2>1, <2>2 DEF BackgroundInv
<1>3. /\ drawn' = [p \in DOMAIN drawn \cup {dst + c : c \in Background!Shown} |->
                     IF p - dst \in Background!Shown THEN Background!Source(p - dst)
                     ELSE drawn[p]]
      /\ dst' = dst + Tile /\ xpos' = xpos + Tile
      /\ tilemap' = tilemap + 1 + Background!Jump(xpos + Tile)
      /\ i' = i + 1 /\ UNCHANGED <<drawing, scr, x0, y>>
  BY DEF Background!DrawTile
<1>4. x0 \in Nat
  BY <1>1 DEF BackgroundInv, Background!Positions
<1>5. /\ x0 \div Tile \in Nat /\ xoff \in Int /\ 0 <= xoff /\ xoff < Tile
      /\ x0 = (Tile * (x0 \div Tile)) + xoff
  <2>1. x0 \div Tile \in Nat
    BY <1>4, TileNumber
  <2>2. x0 \in Int
    BY <1>4
  <2> QED
    BY <1>1, <2>1, <2>2, DivMod
<1>6. g \in Nat /\ Tile * i \in Nat /\ dst \in Int /\ xpos \in Nat
  <2>1. Tile * i \in Nat
    BY <1>1, <1>2
  <2> HIDE DEF xoff
  <2> QED
    BY <1>2, <1>4, <1>5, <2>1
(* A pixel c of the tile is at a position of the tile's number.            *)
<1>7. ASSUME NEW c \in Int, 0 <= c, c < Tile, dst + c >= 0
      PROVE  (x0 + (dst + c)) \div Tile = g /\ (x0 + (dst + c)) % Tile = c
  <2> DEFINE e == x0 \div Tile
  <2>1. e \in Int /\ x0 = (Tile * e) + xoff
    BY <1>5
  <2> HIDE DEF e, xoff
  <2>2. x0 + (dst + c) = (Tile * (e + i)) + c
    <3>1. Tile * (e + i) = (Tile * e) + (Tile * i) /\ Tile * e \in Int /\ Tile * i \in Int
      BY <1>1, <1>2, <2>1
    <3> QED
      BY <1>2, <1>5, <2>1, <3>1
  <2> DEFINE m == e + i
             n == x0 + (dst + c)
  <2>3. m \in Int /\ n = (Tile * m) + c
    BY <1>2, <2>1, <2>2
  <2> HIDE DEF m, n
  <2>4. n % Tile = c /\ n \div Tile = m
    BY <1>1, <1>7, <2>3, DivUnique
  <2> QED
    BY <2>4 DEF m, n, e
<1>8. tilemap' = CellOf(g + 1)
  <2>1. g = xpos \div Tile
    <3> DEFINE e == x0 \div Tile
               m == e + i
    <3>1. e \in Int /\ x0 = (Tile * e) + xoff
      BY <1>5
    <3> HIDE DEF e, xoff
    <3>2. m \in Int /\ xpos = (Tile * m) + xoff
      <4>1. Tile * (e + i) = (Tile * e) + (Tile * i) /\ Tile * e \in Int /\ Tile * i \in Int
        BY <1>1, <1>2, <3>1
      <4> QED
        BY <1>2, <1>5, <3>1, <4>1
    <3> HIDE DEF m
    <3>3. xpos \div Tile = m
      BY <1>1, <1>5, <3>2, DivUnique
    <3> QED
      BY <3>3 DEF m, e
  <2> HIDE DEF g
  <2>2. CellOf(g + 1) = CellOf(g) + 1 + Background!Jump(xpos + Tile)
    BY <1>6, <2>1, CellStep
  <2> QED
    BY <1>2, <1>3, <2>2
<1>9. (i = 0 => dst = -xoff) /\ (i # 0 => dst > 0) /\ (i = Cols => dst = W - xoff)
      /\ (i # Cols => dst + Tile <= W)
  <2>1. i = 0 => Tile * i = 0
    BY <1>1
  <2>2. i # 0 => Tile * i >= Tile
    BY <1>1, <1>2
  <2>3. i = Cols => Tile * i = W
    BY <1>1
  <2>4. i # Cols => (Tile * i) + Tile <= W
    <3>1. ASSUME i # Cols PROVE Tile * i <= Tile * (Cols - 1)
      <4>1. Tile \in Nat /\ i \in Int /\ Cols - 1 \in Int /\ i <= Cols - 1
        BY <1>1, <1>2, <3>1
      <4> QED
        BY <4>1, Scaled
    <3>2. Tile * (Cols - 1) = (Tile * Cols) - Tile /\ Tile * i \in Int /\ Tile * Cols \in Int
      BY <1>1, <1>2
    <3> QED
      BY <1>1, <3>1, <3>2
  <2> HIDE DEF xoff, W
  <2> QED
    BY <1>1, <1>2, <1>5, <1>6, <2>1, <2>2, <2>3, <2>4
<1> HIDE DEF W, xoff, g
(* The mask lets through what is within the line.                          *)
<1>10. ASSUME NEW p \in Int
       PROVE  p - dst \in Background!Shown <=> /\ dst <= p /\ p < dst + Tile
                                               /\ 0 <= p /\ p < W
  <2>1. p - dst \in Background!Shown <=>
          /\ 0 <= p - dst /\ p - dst < Tile
          /\ (i = 0 => p - dst >= xoff) /\ (i = Cols => p - dst < xoff)
    BY <1>1, <1>6 DEF Background!Shown, xoff
  <2> QED
    BY <1>1, <1>2, <1>5, <1>6, <1>9, <2>1
<1>11. DOMAIN drawn' = {p \in 0 .. W - 1 : p < dst'}
  <2>1. DOMAIN drawn' = DOMAIN drawn \cup {dst + c : c \in Background!Shown}
    BY <1>3
  <2>2. \A p \in Int : p \in {dst + c : c \in Background!Shown} <=> p - dst \in Background!Shown
    <3>1. \A c \in Background!Shown : c \in Int /\ (dst + c) - dst = c
      BY <1>1, <1>6 DEF Background!Shown
    <3>2. \A p \in Int : dst + (p - dst) = p
      BY <1>6
    <3> QED
      BY <3>1, <3>2
  <2>3. \A p \in DOMAIN drawn' : p \in Int
    <3>1. \A c \in Background!Shown : dst + c \in Int
      BY <1>1, <1>6 DEF Background!Shown
    <3> QED
      BY <1>1, <1>2, <2>1, <3>1
  <2>4. \A p \in Int : p \in DOMAIN drawn' <=> (0 <= p /\ p < W /\ p < dst + Tile)
    <3> TAKE p \in Int
    <3>1. p \in DOMAIN drawn <=> (0 <= p /\ p < W /\ p < dst)
      BY <1>1, <1>2
    <3>2. p \in DOMAIN drawn' <=> (p \in DOMAIN drawn \/ p - dst \in Background!Shown)
      BY <2>1, <2>2
    <3> QED
      BY <1>1, <1>6, <1>10, <3>1, <3>2
  <2>5. \A p \in Int : p \in {q \in 0 .. W - 1 : q < dst'} <=> (0 <= p /\ p < W /\ p < dst + Tile)
    BY <1>1, <1>3, <1>6
  <2>6. \A p \in {q \in 0 .. W - 1 : q < dst'} : p \in Int
    BY <1>1
  <2> QED
    BY <2>3, <2>4, <2>5, <2>6
<1>12. \A p : Background!PixelAt(p)' = Background!PixelAt(p)
  BY <1>3 DEF Background!PixelAt, Background!Beyond, Background!TileOf
<1>13. ASSUME NEW p \in DOMAIN drawn' PROVE drawn'[p] = Background!PixelAt(p)
  <2>1. p \in Int /\ 0 <= p /\ p < W /\ p < dst + Tile
    BY <1>1, <1>3, <1>6, <1>11
  <2>2. CASE p < dst
    <3>1. p \in DOMAIN drawn /\ p - dst \notin Background!Shown
      BY <1>1, <1>2, <1>6, <1>10, <2>1, <2>2
    <3> QED
      BY <1>2, <1>3, <3>1
  <2>3. CASE dst <= p
    <3> DEFINE c == p - dst
    <3>1. c \in Background!Shown /\ c \in Int /\ 0 <= c /\ c < Tile /\ dst + c = p
      <4>1. c \in Background!Shown
        BY <1>10, <2>1, <2>3
      <4>2. c \in Int /\ 0 <= c /\ c < Tile /\ dst + c = p
        BY <1>1, <1>6, <2>1, <2>3
      <4> QED
        BY <4>1, <4>2
    <3>2. drawn'[p] = Background!Source(c)
      BY <1>3, <1>13, <3>1
    <3> HIDE DEF c
    <3>3. (x0 + p) \div Tile = g /\ (x0 + p) % Tile = c
      BY <1>7, <2>1, <3>1
    <3>4. p \in Nat
      BY <2>1
    <3>5. Background!PixelAt(p) =
            <<CellOf(g),
              IF CellOf(g) \in VFlip THEN Tile - 1 - (y % Tile) ELSE y % Tile,
              IF CellOf(g) \in HFlip THEN Tile - 1 - c ELSE c>>
      BY <3>3, <3>4, PixelIs
    <3> QED
      BY <1>2, <3>2, <3>5 DEF Background!Source
  <2> QED
    BY <1>6, <2>1, <2>2, <2>3
<1>14. CellOf((x0 \div Tile) + i)' = CellOf(g + 1)
  <2>1. (x0' \div Tile) + i' = g + 1
    BY <1>2, <1>3, <1>5 DEF g
  <2>2. RowBase' = RowBase
    BY <1>3 DEF RowBase, Background!TileOf, Background!Beyond
  <2> QED
    BY <1>3, <2>1, <2>2 DEF CellOf
<1>15. i' \in Nat /\ i' <= Background!TilesOfLine'
  <2>1. Background!TilesOfLine' = Background!TilesOfLine /\ Background!TilesOfLine \in Int
    BY <1>1, <1>3 DEF Background!TilesOfLine
  <2> QED
    BY <1>2, <1>3, <2>1
<1>16. xpos' = x0' + (Tile * i') /\ dst' = (Tile * i') - (x0' % Tile)
  <2>1. Tile * (i + 1) = (Tile * i) + Tile
    BY <1>1, <1>2
  <2>2. x0' % Tile = xoff
    BY <1>3 DEF xoff
  <2> QED
    BY <1>1, <1>2, <1>3, <1>4, <1>5, <1>6, <2>1, <2>2
<1>17. \A p \in DOMAIN drawn' : drawn'[p] = Background!PixelAt(p)'
  BY <1>12, <1>13
<1> QED
  BY <1>2, <1>3, <1>8, <1>11, <1>14, <1>15, <1>16, <1>17 DEF BackgroundInv, W

LEMMA BackgroundStepInv ==
  ASSUME BackgroundInv, [Background!Next]_backgroundVars PROVE BackgroundInv'
<1>1. CASE Background!Done
  <2>1. 0 \in Background!Positions
    BY BackgroundConstants DEF Background!Positions
  <2> QED
    BY <1>1, <2>1 DEF Background!Done, BackgroundInv
<1>2. CASE UNCHANGED backgroundVars
  BY <1>2 DEF backgroundVars, BackgroundInv, Background!TilesOfLine, CellOf, RowBase,
              Background!PixelAt, Background!Beyond, Background!TileOf
<1> QED
  BY <1>1, <1>2, StartRight, DrawTileRight DEF Background!Next

LEMMA BackgroundRight ==
  ASSUME BackgroundInv
  PROVE  Background!TypeOK /\ Background!PixelsRight /\ Background!InsideLine
<1> DEFINE W == Background!Width
           xoff == x0 % Tile
<1>1. /\ Tile \in Nat \ {0} /\ Cols \in Nat \ {0} /\ W \in Nat \ {0} /\ W = Tile * Cols
      /\ x0 \in Nat
  BY BackgroundConstants DEF BackgroundInv, Background!Positions
<1>2. xoff \in Int /\ 0 <= xoff /\ xoff < Tile
  <2>1. x0 \in Int
    BY <1>1
  <2> QED
    BY <1>1, <2>1, DivMod
<1>3. Background!TilesOfLine = IF xoff = 0 THEN Cols ELSE Cols + 1
  BY DEF Background!TilesOfLine
<1> HIDE DEF xoff
<1>4. ASSUME drawing
      PROVE  /\ i \in 0 .. Cols + 1 /\ Tile * i \in Int /\ 0 <= Tile * i /\ Tile * i <= W + Tile
             /\ xpos = x0 + (Tile * i) /\ dst = (Tile * i) - xoff
             /\ (i = Background!TilesOfLine => dst >= W)
             /\ tilemap \in Background!Cells
             /\ DOMAIN drawn = {p \in 0 .. W - 1 : p < dst}
             /\ \A p \in DOMAIN drawn : drawn[p] = Background!PixelAt(p)
  <2>1. /\ i \in Nat /\ i <= Background!TilesOfLine
        /\ xpos = x0 + (Tile * i) /\ dst = (Tile * i) - xoff
        /\ tilemap = CellOf((x0 \div Tile) + i)
        /\ DOMAIN drawn = {p \in 0 .. W - 1 : p < dst}
        /\ \A p \in DOMAIN drawn : drawn[p] = Background!PixelAt(p)
    BY <1>4 DEF BackgroundInv, xoff
  <2>2. i \in 0 .. Cols + 1
    BY <1>1, <1>3, <2>1
  <2>3. Tile * i <= Tile * (Cols + 1)
    <3>1. Tile \in Nat /\ i \in Int /\ Cols + 1 \in Int /\ i <= Cols + 1
      BY <1>1, <2>2
    <3> QED
      BY <3>1, Scaled
  <2>4. Tile * (Cols + 1) = W + Tile /\ Tile * i \in Int /\ 0 <= Tile * i
    BY <1>1, <2>1
  <2>5. i = Background!TilesOfLine => dst >= W
    <3>1. CASE xoff = 0
      BY <1>1, <1>3, <2>1, <3>1
    <3>2. CASE xoff # 0
      <4>1. i = Cols + 1 => Tile * i = W + Tile
        BY <1>1
      <4> QED
        BY <1>1, <1>2, <1>3, <2>1, <2>4, <3>2, <4>1
    <3> QED
      BY <3>1, <3>2
  <2>6. tilemap \in Background!Cells
    <3>1. x0 \div Tile \in Nat
      BY <1>1, TileNumber
    <3>2. (x0 \div Tile) + i \in Nat
      BY <2>1, <3>1
    <3> QED
      BY <2>1, <3>2, CellWithin
  <2> QED
    BY <2>1, <2>2, <2>3, <2>4, <2>5, <2>6
<1>5. ~drawing => i = 0 /\ xpos = 0 /\ dst = 0 /\ DOMAIN drawn = {}
  BY DEF BackgroundInv
<1>6. x0 <= (2 * W) - 1
  BY <1>1 DEF BackgroundInv, Background!Positions
<1> HIDE DEF W
<1>7. Background!TypeOK
  <2>1. drawing \in BOOLEAN /\ scr \in [right : BOOLEAN, below : BOOLEAN]
        /\ x0 \in Background!Positions /\ y \in Background!Positions
    BY DEF BackgroundInv
  <2>2. i \in 0 .. Cols + 1
    BY <1>1, <1>4, <1>5, <2>1
  <2>3. xpos \in 0 .. 3 * W + Tile
    BY <1>1, <1>4, <1>5, <1>6, <2>1
  <2>4. dst \in -Tile .. W + Tile
    BY <1>1, <1>2, <1>4, <1>5, <2>1
  <2> QED
    BY <1>4, <2>1, <2>2, <2>3, <2>4 DEF Background!TypeOK, W
<1>8. Background!PixelsRight
  <2>1. \A p \in DOMAIN drawn : drawn[p] = Background!PixelAt(p)
    BY <1>4, <1>5
  <2>2. ASSUME drawing, i = Background!TilesOfLine PROVE 0 .. W - 1 \subseteq DOMAIN drawn
    <3>1. dst >= W /\ dst \in Int /\ DOMAIN drawn = {p \in 0 .. W - 1 : p < dst}
      BY <1>2, <1>4, <2>2
    <3> QED
      BY <1>1, <3>1
  <2> QED
    BY <2>1, <2>2 DEF Background!PixelsRight, W
<1>9. Background!InsideLine
  BY <1>4, <1>5 DEF Background!InsideLine, BackgroundInv, W
<1> QED
  BY <1>7, <1>8, <1>9

-----------------------------------------------------------------------------
(* Numbers, and the long division.                                         *)
(* A set that holds 0 and with a number the next one holds all numbers.    *)
LEMMA AllNumbers ==
  ASSUME NEW S, 0 \in S, \A k \in Nat : k \in S => k + 1 \in S
  PROVE  Nat \subseteq S
<1> DEFINE T == Nat \ S
<1>1. CASE T = {}
  BY <1>1
<1>2. CASE T # {}
  <2>1. PICK m \in T : \A k \in T : ~(<<k, m>> \in OpToRel(<, Nat))
    BY <1>2, NatLessThanWellFounded, WFMin
  <2>2. \A k \in T : ~(k < m)
    BY <2>1 DEF OpToRel
  <2>3. m # 0 /\ m \in Nat
    BY <2>1
  <2>4. m - 1 \in Nat /\ m - 1 < m /\ (m - 1) + 1 = m
    BY <2>3
  <2>5. m - 1 \in S
    BY <2>2, <2>4
  <2> QED
    BY <2>1, <2>4, <2>5
<1> QED
  BY <1>1, <1>2

(* Powers of two, by the subsets of a set.                                 *)
LEMMA PowerOfSet ==
  ASSUME NEW k \in Nat
  PROVE  /\ IsFiniteSet(SUBSET (1 .. k)) /\ Cardinality(SUBSET (1 .. k)) = 2^k
         /\ 2^k \in Nat
<1>1. IsFiniteSet(1 .. k) /\ Cardinality(1 .. k) = k
  BY FS_Interval
<1>2. IsFiniteSet(SUBSET (1 .. k)) /\ Cardinality(SUBSET (1 .. k)) = 2^k
  BY <1>1, FS_SUBSET
<1> QED
  BY <1>2, FS_CardinalityType

LEMMA PowerTwice ==
  ASSUME NEW k \in Nat
  PROVE  2^(k + 1) = 2 * 2^k
<1> DEFINE A == SUBSET (1 .. k)
           B == {T \cup {k + 1} : T \in A}
           f == [T \in A |-> T \cup {k + 1}]
<1>1. IsFiniteSet(A) /\ Cardinality(A) = 2^k /\ 2^k \in Nat
  BY PowerOfSet
<1>2. f \in Bijection(A, B)
  <2>1. \A T \in A : f[T] \in B
    OBVIOUS
  <2>2. \A T, U \in A : f[T] = f[U] => T = U
    <3> SUFFICES ASSUME NEW T \in A, NEW U \in A, T \cup {k + 1} = U \cup {k + 1} PROVE T = U
      OBVIOUS
    <3>1. k + 1 \notin T /\ k + 1 \notin U
      OBVIOUS
    <3>2. \A x : x \in T <=> x \in U
      BY <3>1
    <3> QED
      BY <3>2
  <2>3. \A U \in B : \E T \in A : f[T] = U
    OBVIOUS
  <2>4. f \in [A -> B]
    OBVIOUS
  <2> HIDE DEF A, B, f
  <2>5. f \in Injection(A, B)
    BY <2>2, <2>4 DEF Injection, IsInjective
  <2>6. f \in Surjection(A, B)
    BY <2>3, <2>4 DEF Surjection
  <2> QED
    BY <2>5, <2>6 DEF Bijection
<1>3. ExistsBijection(A, B)
  BY <1>2 DEF ExistsBijection
<1>4. IsFiniteSet(B) /\ Cardinality(B) = Cardinality(A)
  BY <1>1, <1>3, FS_Bijection
<1>5. A \cap B = {}
  <2>1. \A T \in A : k + 1 \notin T
    OBVIOUS
  <2> QED
    BY <2>1
<1>6. A \cup B = SUBSET (1 .. k + 1)
  <2>1. A \cup B \subseteq SUBSET (1 .. k + 1)
    <3>1. 1 .. k \subseteq 1 .. k + 1 /\ k + 1 \in 1 .. k + 1
      OBVIOUS
    <3>2. \A T \in A : T \subseteq 1 .. k + 1 /\ T \cup {k + 1} \subseteq 1 .. k + 1
      BY <3>1
    <3> QED
      BY <3>2
  <2>2. ASSUME NEW T \in SUBSET (1 .. k + 1) PROVE T \in A \cup B
    <3>1. 1 .. k + 1 = (1 .. k) \cup {k + 1}
      OBVIOUS
    <3>2. CASE k + 1 \in T
      <4>1. T \ {k + 1} \in A
        BY <3>1
      <4>2. T = (T \ {k + 1}) \cup {k + 1}
        BY <3>2
      <4> QED
        BY <4>1, <4>2
    <3>3. CASE k + 1 \notin T
      BY <3>1, <3>3
    <3> QED
      BY <3>2, <3>3
  <2> QED
    BY <2>1, <2>2
<1> HIDE DEF A, B
<1>7. Cardinality(A \cup B) = Cardinality(A) + Cardinality(B) - Cardinality({})
  BY <1>1, <1>4, <1>5, FS_Union
<1>8. Cardinality({}) = 0
  BY FS_EmptySet
<1>9. k + 1 \in Nat
  OBVIOUS
<1>10. Cardinality(SUBSET (1 .. k + 1)) = 2^(k + 1)
  BY <1>9, PowerOfSet
<1>11. 2^(k + 1) = 2^k + 2^k - 0
  BY <1>1, <1>4, <1>6, <1>7, <1>8, <1>10
<1> QED
  BY <1>1, <1>11

LEMMA PowerZero == 2^0 = 1
<1>1. Cardinality(SUBSET (1 .. 0)) = 2^0 /\ 2^0 \in Nat
  BY PowerOfSet
<1>2. SUBSET (1 .. 0) = {{}}
  OBVIOUS
<1> QED
  BY <1>1, <1>2, FS_Singleton

(* Sums of exponents, and no power is 0.                                   *)
LEMMA PowerDouble ==
  ASSUME NEW k \in Nat
  PROVE  2^(2 * k) = 2^k * 2^k /\ 2^k \in Nat /\ 0 < 2^k
<1> DEFINE S == {j \in Nat : 2^(2 * j) = 2^j * 2^j /\ 2^j \in Nat /\ 0 < 2^j}
<1>1. 0 \in S
  <2>1. 2^(2 * 0) = 2^0
    OBVIOUS
  <2> QED
    BY <2>1, PowerZero
<1>2. ASSUME NEW j \in Nat, j \in S PROVE j + 1 \in S
  <2>1. 2^(j + 1) = 2 * 2^j /\ 2^j \in Nat
    BY PowerTwice, PowerOfSet
  <2>2. 2 * j \in Nat /\ (2 * j) + 1 \in Nat /\ 2 * (j + 1) = ((2 * j) + 1) + 1
    OBVIOUS
  <2>3. 2^(((2 * j) + 1) + 1) = 2 * 2^((2 * j) + 1) /\ 2^((2 * j) + 1) = 2 * 2^(2 * j)
    BY <2>2, PowerTwice
  <2>4. 2^(2 * (j + 1)) = 2 * (2 * 2^(2 * j))
    BY <2>2, <2>3
  <2>5. 2^(2 * j) = 2^j * 2^j /\ 0 < 2^j
    BY <1>2
  <2> DEFINE p == 2^j
  <2>6. 2 * (2 * (p * p)) = (2 * p) * (2 * p) /\ 0 < 2 * p /\ 2 * p \in Nat
    <3> HIDE DEF p
    <3>1. p \in Nat /\ 0 < p
      BY <2>1, <2>5 DEF p
    <3> QED
      BY <3>1
  <2>7. 2^(2 * (j + 1)) = 2^(j + 1) * 2^(j + 1)
    BY <2>1, <2>4, <2>5, <2>6
  <2> QED
    BY <2>1, <2>6, <2>7
<1>3. Nat \subseteq S
  <2> HIDE DEF S
  <2> QED
    BY <1>1, <1>2, AllNumbers
<1> QED
  BY <1>3

LEMMA RadixSquare ==
  /\ Math!Radix \in Nat /\ 0 < Math!Radix
  /\ 2^(2 * Bits) = Math!Radix * Math!Radix
  BY BitsAssumption, PowerDouble DEF Math!Radix

(* Quotients and remainders.                                               *)
LEMMA DivisionBy ==
  ASSUME NEW v \in Nat, 0 < v, NEW a \in Nat
  PROVE  /\ a \div v \in Nat /\ a % v \in Nat /\ a % v < v
         /\ a = (v * (a \div v)) + (a % v)
  OBVIOUS

LEMMA DivisionUnique ==
  ASSUME NEW v \in Nat, 0 < v, NEW q \in Nat, NEW r \in Nat, r < v
  PROVE  ((v * q) + r) \div v = q /\ ((v * q) + r) % v = r
<1> DEFINE a == (v * q) + r
           d == a \div v
           e == a % v
<1>1. a \in Nat
  OBVIOUS
<1>2. d \in Nat /\ e \in Nat /\ e < v /\ a = (v * d) + e
  BY <1>1, DivisionBy
<1>3. (v * q) + r = (v * d) + e
  BY <1>2
<1> HIDE DEF a, d, e
<1>4. ASSUME d < q PROVE FALSE
  <2>1. PICK k \in Nat : q = d + 1 + k
    <3>1. q - d - 1 \in Nat /\ q = d + 1 + (q - d - 1)
      BY <1>2, <1>4
    <3> QED
      BY <3>1
  <2>2. v * q = (v * d) + v + (v * k) /\ v * k \in Nat /\ v * d \in Nat
    BY <1>2, <2>1
  <2> QED
    BY <1>2, <1>3, <2>2
<1>5. ASSUME q < d PROVE FALSE
  <2>1. PICK k \in Nat : d = q + 1 + k
    <3>1. d - q - 1 \in Nat /\ d = q + 1 + (d - q - 1)
      BY <1>2, <1>5
    <3> QED
      BY <3>1
  <2>2. v * d = (v * q) + v + (v * k) /\ v * k \in Nat /\ v * q \in Nat
    BY <1>2, <2>1
  <2> QED
    BY <1>2, <1>3, <2>2
<1>6. d = q
  BY <1>2, <1>4, <1>5
<1>7. e = r
  BY <1>2, <1>3, <1>6
<1> QED
  BY <1>6, <1>7 DEF a, d, e

(* A step of the long division: the remainder by 2 * v holds v once or not *)
(* at all.                                                                 *)
LEMMA HalvedDivisor ==
  ASSUME NEW v \in Nat, 0 < v, NEW a \in Nat
  PROVE  LET q == a \div (2 * v)
             r == a % (2 * v)
         IN IF r < v THEN a \div v = 2 * q /\ a % v = r
            ELSE a \div v = (2 * q) + 1 /\ a % v = r - v
<1> DEFINE w == 2 * v
           q == a \div w
           r == a % w
<1>1. w \in Nat /\ 0 < w
  OBVIOUS
<1>2. q \in Nat /\ r \in Nat /\ r < w /\ a = (w * q) + r
  BY <1>1, DivisionBy
<1>3. w * q = v * (2 * q)
  <2> HIDE DEF q
  <2> QED
    BY <1>2
<1>4. CASE r < v
  <2>1. a = (v * (2 * q)) + r /\ 2 * q \in Nat
    BY <1>2, <1>3
  <2> HIDE DEF q, r, w
  <2>2. a \div v = 2 * q /\ a % v = r
    BY <1>2, <1>4, <2>1, DivisionUnique
  <2> QED
    BY <1>4, <2>2 DEF q, r, w
<1>5. CASE ~(r < v)
  <2> HIDE DEF q, r
  <2>1. (2 * q) + 1 \in Nat /\ r - v \in Nat /\ r - v < v
    BY <1>2, <1>5
  <2>2. v * ((2 * q) + 1) = (v * (2 * q)) + v /\ v * (2 * q) \in Nat
    BY <1>2
  <2>3. a = (v * ((2 * q) + 1)) + (r - v)
    BY <1>2, <1>3, <2>2
  <2> HIDE DEF w
  <2>4. a \div v = (2 * q) + 1 /\ a % v = r - v
    BY <2>1, <2>3, DivisionUnique
  <2> QED
    BY <1>5, <2>4 DEF q, r, w
<1> QED
  BY <1>4, <1>5

(* What the division has come to when the bits from k on are done: the     *)
(* quotient by den * 2^k, shifted into its place, and its remainder.       *)
DoneFrom(num, den, k) == <<(num \div (den * 2^k)) * 2^k, num % (den * 2^k)>>

LEMMA DoneNext ==
  ASSUME NEW num \in Nat, NEW den \in Nat, 0 < den, NEW k \in Nat
  PROVE  LET done == DoneFrom(num, den, k + 1) IN
         DoneFrom(num, den, k) =
           IF done[2] < den * 2^k THEN done
           ELSE <<done[1] + 2^k, done[2] - (den * 2^k)>>
<1> DEFINE p == 2^k
           v == den * p
           q == num \div (2 * v)
           r == num % (2 * v)
<1>1. p \in Nat /\ 0 < p /\ 2^(k + 1) = 2 * p
  BY PowerDouble, PowerTwice
<1>2. den * 2^(k + 1) = 2 * v
  <2> HIDE DEF p
  <2> QED
    BY <1>1
<1>3. DoneFrom(num, den, k + 1) = <<q * (2 * p), r>>
  BY <1>1, <1>2 DEF DoneFrom
<1>4. v \in Nat /\ 0 < v
  <2> HIDE DEF p
  <2> QED
    BY <1>1
<1>5. IF r < v THEN num \div v = 2 * q /\ num % v = r
      ELSE num \div v = (2 * q) + 1 /\ num % v = r - v
  <2> HIDE DEF v
  <2> QED
    BY <1>4, HalvedDivisor
<1>6. q \in Nat /\ r \in Nat
  <2> HIDE DEF v
  <2>1. 2 * v \in Nat /\ 0 < 2 * v
    BY <1>4
  <2> QED
    BY <2>1, DivisionBy
<1>7. (2 * q) * p = q * (2 * p) /\ ((2 * q) + 1) * p = (q * (2 * p)) + p
  <2> HIDE DEF p, q
  <2> QED
    BY <1>1, <1>6
<1>8. DoneFrom(num, den, k) = <<(num \div v) * p, num % v>>
  BY DEF DoneFrom
<1> HIDE DEF q, r
<1>9. CASE r < v
  BY <1>3, <1>5, <1>7, <1>8, <1>9
<1>10. CASE ~(r < v)
  BY <1>3, <1>5, <1>7, <1>8, <1>10
<1> QED
  BY <1>9, <1>10, <1>3

(* The last bit is done, and none is.                                      *)
LEMMA DoneLast ==
  ASSUME NEW num \in Nat, NEW den \in Nat, 0 < den
  PROVE  DoneFrom(num, den, 0) = <<num \div den, num % den>>
<1>1. den * 2^0 = den
  BY PowerZero
<1>2. num \div den \in Nat
  BY DivisionBy
<1> DEFINE q == num \div den
<1> HIDE DEF q
<1>3. q * 2^0 = q
  BY <1>2, PowerZero DEF q
<1> QED
  BY <1>1, <1>3 DEF DoneFrom, q

LEMMA DoneFirst ==
  ASSUME NEW num \in Nat, NEW den \in Nat, 0 < den, NEW k \in Nat, num < 2^k
  PROVE  DoneFrom(num, den, k) = <<0, num>>
<1> DEFINE p == 2^k
           v == den * p
<1>1. p \in Nat /\ 0 < p /\ num < p
  BY PowerDouble
<1>2. v \in Nat /\ 0 < v /\ num < v
  <2> HIDE DEF p
  <2>1. PICK j \in Nat : den = 1 + j
    <3>1. den - 1 \in Nat /\ den = 1 + (den - 1)
      OBVIOUS
    <3> QED
      BY <3>1
  <2>2. v = p + (j * p) /\ j * p \in Nat
    BY <1>1, <2>1
  <2> QED
    BY <1>1, <2>2
<1>3. num \div v = 0 /\ num % v = num
  <2> HIDE DEF v
  <2> DEFINE z == 0
  <2>1. z \in Nat /\ num = (v * z) + num
    BY <1>2
  <2> HIDE DEF z
  <2>2. num \div v = z /\ num % v = num
    BY <1>2, <2>1, DivisionUnique
  <2> QED
    BY <2>2 DEF z
<1>4. DoneFrom(num, den, k) = <<(num \div v) * p, num % v>>
  BY DEF DoneFrom
<1>5. 0 * p = 0
  <2> HIDE DEF p
  <2> QED
    BY <1>1
<1> HIDE DEF p, v
<1> QED
  BY <1>3, <1>4, <1>5

(* The long division of memory.c divides.                                  *)
LEMMA DividesRight ==
  ASSUME NEW num \in Math!Words, NEW den \in Math!Bytes, den # 0
  PROVE  Math!SNES_Divide(num, den) = <<num \div den, num % den>>
<1> DEFINE N == 2 * Bits
           Right(D) == D = [k \in 0 .. N |->
             IF k = N THEN <<0, num>>
             ELSE LET quo == D[k + 1][1]
                      rest == D[k + 1][2]
                      v == den * 2^k
                  IN IF rest < v THEN <<quo, rest>> ELSE <<quo + 2^k, rest - v>>]
           D == CHOOSE f : Right(f)
           E == [k \in 0 .. N |-> DoneFrom(num, den, k)]
<1>1. N \in Nat /\ num \in Nat /\ den \in Nat /\ 0 < den /\ num < 2^N
  BY BitsAssumption, RadixSquare DEF Math!Words, Math!Bytes
<1>2. Math!SNES_Divide(num, den) = D[0]
  BY DEF Math!SNES_Divide
<1> HIDE DEF N
<1>3. Right(E)
  <2>1. ASSUME NEW k \in 0 .. N
        PROVE  E[k] = IF k = N THEN <<0, num>>
                      ELSE LET quo == E[k + 1][1]
                               rest == E[k + 1][2]
                               v == den * 2^k
                           IN IF rest < v THEN <<quo, rest>> ELSE <<quo + 2^k, rest - v>>
    <3>1. CASE k = N
      BY <1>1, <3>1, DoneFirst
    <3>2. CASE k # N
      <4>1. k \in Nat /\ k + 1 \in 0 .. N
        BY <1>1, <3>2
      <4>2. E[k] = DoneFrom(num, den, k) /\ E[k + 1] = DoneFrom(num, den, k + 1)
        BY <4>1
      <4> DEFINE done == DoneFrom(num, den, k + 1)
      <4>3. done = <<done[1], done[2]>>
        BY DEF DoneFrom
      <4>4. DoneFrom(num, den, k) =
              IF done[2] < den * 2^k THEN done
              ELSE <<done[1] + 2^k, done[2] - (den * 2^k)>>
        BY <1>1, <4>1, DoneNext
      <4> HIDE DEF E, done
      <4> QED
        BY <3>2, <4>2, <4>3, <4>4 DEF done
    <3> QED
      BY <3>1, <3>2
  <2> DEFINE F == [k \in 0 .. N |->
             IF k = N THEN <<0, num>>
             ELSE LET quo == E[k + 1][1]
                      rest == E[k + 1][2]
                      v == den * 2^k
                  IN IF rest < v THEN <<quo, rest>> ELSE <<quo + 2^k, rest - v>>]
  <2>2. \A k \in 0 .. N : E[k] = F[k]
    BY <2>1
  <2>3. E = F
    BY <2>2
  <2> QED
    BY <2>3
<1>4. Right(D)
  <2> HIDE DEF Right, E
  <2> QED
    BY <1>3
<1>5. \A k \in 0 .. N :
        D[k] = IF k = N THEN <<0, num>>
               ELSE LET quo == D[k + 1][1]
                        rest == D[k + 1][2]
                        v == den * 2^k
                    IN IF rest < v THEN <<quo, rest>> ELSE <<quo + 2^k, rest - v>>
  <2> HIDE DEF D
  <2> QED
    BY <1>4
<1> HIDE DEF D, E, Right
<1> DEFINE S == {j \in Nat : j <= N => D[N - j] = DoneFrom(num, den, N - j)}
<1>6. 0 \in S
  <2>1. N - 0 = N /\ N \in 0 .. N
    BY <1>1
  <2>2. D[N] = <<0, num>>
    BY <1>5, <2>1
  <2>3. DoneFrom(num, den, N) = <<0, num>>
    BY <1>1, DoneFirst
  <2> QED
    BY <2>1, <2>2, <2>3
<1>7. ASSUME NEW j \in Nat, j \in S PROVE j + 1 \in S
  <2> SUFFICES ASSUME j + 1 <= N
               PROVE  D[N - (j + 1)] = DoneFrom(num, den, N - (j + 1))
    OBVIOUS
  <2> DEFINE k == N - (j + 1)
             done == DoneFrom(num, den, k + 1)
  <2>1. k \in Nat /\ k \in 0 .. N /\ k # N /\ k + 1 = N - j
    BY <1>1
  <2>2. D[k + 1] = done
    <3>1. j <= N /\ j \in Nat
      BY <1>1
    <3>2. D[N - j] = DoneFrom(num, den, N - j)
      BY <1>7, <3>1
    <3> HIDE DEF k
    <3> QED
      BY <2>1, <3>2
  <2> HIDE DEF k
  <2>3. done = <<done[1], done[2]>>
    BY DEF DoneFrom
  <2>4. DoneFrom(num, den, k) =
          IF done[2] < den * 2^k THEN done
          ELSE <<done[1] + 2^k, done[2] - (den * 2^k)>>
    BY <1>1, <2>1, DoneNext
  <2> HIDE DEF done
  <2>5. D[k] = DoneFrom(num, den, k)
    BY <1>5, <2>1, <2>2, <2>3, <2>4
  <2> QED
    BY <2>5 DEF k
<1>8. N \in S
  <2> HIDE DEF S
  <2> QED
    BY <1>1, <1>6, <1>7, AllNumbers
<1>9. D[0] = DoneFrom(num, den, 0)
  BY <1>1, <1>8
<1> QED
  BY <1>1, <1>2, <1>9, DoneLast

-----------------------------------------------------------------------------
(* The multiplier and the divider.                                         *)
MathInv == Math!TypeOK /\ Math!ResultsRight

(* Bytes put together are words, and products of bytes fit in one.         *)
LEMMA WordsOfBytes ==
  /\ 0 \in Math!Bytes /\ 0 \in Math!Words /\ Math!Bytes \subseteq Math!Words
  /\ \A a, b \in Math!Bytes : a + (b * Math!Radix) \in Math!Words /\ a * b \in Math!Words
  /\ \A w \in Math!Words : w % Math!Radix \in Math!Bytes /\ w \div Math!Radix \in Math!Bytes
<1> DEFINE R == Math!Radix
<1>1. R \in Nat /\ 0 < R
  BY RadixSquare
<1>2. Math!Bytes = 0 .. R - 1 /\ Math!Words = 0 .. (R * R) - 1
  BY DEF Math!Bytes, Math!Words
<1> HIDE DEF R
<1>3. R * R \in Nat /\ R <= R * R
  <2>1. PICK j \in Nat : R = 1 + j
    <3>1. R - 1 \in Nat /\ R = 1 + (R - 1)
      BY <1>1
    <3> QED
      BY <3>1
  <2>2. R * R = R + (j * R) /\ j * R \in Nat
    BY <1>1, <2>1
  <2> QED
    BY <1>1, <2>2
<1>4. ASSUME NEW a \in 0 .. R - 1, NEW b \in 0 .. R - 1
      PROVE  a + (b * R) \in 0 .. (R * R) - 1 /\ a * b \in 0 .. (R * R) - 1
  <2>1. PICK c \in Nat : R = b + 1 + c
    <3>1. R - b - 1 \in Nat /\ R = b + 1 + (R - b - 1)
      BY <1>1
    <3> QED
      BY <3>1
  <2>2. R * R = (b * R) + R + (c * R) /\ c * R \in Nat /\ b * R \in Nat
    BY <1>1, <2>1
  <2>3. PICK d \in Nat : R = a + d
    <3>1. R - a \in Nat /\ R = a + (R - a)
      BY <1>1
    <3> QED
      BY <3>1
  <2>4. b * R = (a * b) + (d * b) /\ d * b \in Nat /\ a * b \in Nat
    BY <1>1, <2>3
  <2> QED
    BY <1>1, <2>2, <2>4
<1>5. ASSUME NEW w \in 0 .. (R * R) - 1
      PROVE  w % R \in 0 .. R - 1 /\ w \div R \in 0 .. R - 1
  <2> DEFINE q == w \div R
             r == w % R
  <2>1. q \in Nat /\ r \in Nat /\ r < R /\ w = (R * q) + r
    BY <1>1, <1>3, DivisionBy
  <2> HIDE DEF q, r
  <2>2. q < R
    <3> SUFFICES ASSUME q >= R PROVE FALSE
      BY <1>1, <2>1
    <3>1. PICK j \in Nat : q = R + j
      <4>1. q - R \in Nat /\ q = R + (q - R)
        BY <1>1, <2>1
      <4> QED
        BY <4>1
    <3>2. R * q = (R * R) + (R * j) /\ R * j \in Nat
      BY <1>1, <3>1
    <3> QED
      BY <1>3, <2>1, <3>2
  <2>3. w % R \in 0 .. R - 1
    BY <1>1, <2>1 DEF r
  <2>4. w \div R \in 0 .. R - 1
    BY <1>1, <2>1, <2>2 DEF q
  <2> QED
    BY <2>3, <2>4
<1>6. 0 \in 0 .. R - 1 /\ 0 \in 0 .. (R * R) - 1 /\ 0 .. R - 1 \subseteq 0 .. (R * R) - 1
  BY <1>1, <1>3
<1> QED
  BY <1>2, <1>4, <1>5, <1>6 DEF R

LEMMA MathInit == ASSUME Math!Init PROVE MathInv
<1>1. Math!TypeOK
  BY WordsOfBytes DEF Math!Init, Math!TypeOK, Math!Operations
<1>2. Math!ResultsRight
  BY DEF Math!Init, Math!ResultsRight
<1> QED
  BY <1>1, <1>2 DEF MathInv

(* A product, by bytes or as a word.                                       *)
LEMMA MultiplyInv ==
  ASSUME MathInv, NEW a \in Math!Bytes, NEW b \in Math!Bytes,
         NEW quotient \in Math!Words, Math!Multiply(a, b, quotient)
  PROVE  MathInv'
<1>1. /\ mulA' = a /\ mulRes' = a * b /\ divRes' = quotient /\ divA' = divA
      /\ asked' = [what |-> "multiply", a |-> a, b |-> b]
  BY DEF Math!Multiply
<1>2. a * b \in Math!Words /\ a \in Math!Words
  BY WordsOfBytes
<1>3. Math!TypeOK'
  BY <1>1, <1>2 DEF MathInv, Math!TypeOK, Math!Operations
<1>4. Math!ResultsRight'
  BY <1>1 DEF Math!ResultsRight
<1> QED
  BY <1>3, <1>4 DEF MathInv

(* A division, by bytes or as a word.                                      *)
LEMMA DivideInv ==
  ASSUME MathInv, NEW a \in Math!Words, NEW den \in Math!Bytes, Math!Divide(a, den)
  PROVE  MathInv'
<1>1. /\ divA' = a /\ mulA' = mulA
      /\ divRes' = Math!SNES_Divide(a, den)[1] /\ mulRes' = Math!SNES_Divide(a, den)[2]
      /\ asked' = [what |-> "divide", a |-> a, b |-> den]
  BY DEF Math!Divide
<1>2. CASE den = 0
  <2>1. Math!SNES_Divide(a, den) = <<(Math!Radix * Math!Radix) - 1, a>>
    BY <1>2 DEF Math!SNES_Divide
  <2>2. (Math!Radix * Math!Radix) - 1 \in Math!Words
    <3>1. 0 \in 0 .. (Math!Radix * Math!Radix) - 1 /\ Math!Radix \in Nat
      BY WordsOfBytes, RadixSquare DEF Math!Words
    <3> DEFINE s == Math!Radix * Math!Radix
    <3>2. s \in Nat
      BY RadixSquare
    <3> HIDE DEF s
    <3>3. 0 \in 0 .. s - 1 => s - 1 \in 0 .. s - 1
      BY <3>2
    <3> QED
      BY <3>1, <3>3 DEF s, Math!Words
  <2>3. Math!TypeOK'
    BY <1>1, <2>1, <2>2 DEF MathInv, Math!TypeOK, Math!Operations
  <2>4. Math!ResultsRight'
    BY <1>1, <1>2, <2>1 DEF Math!ResultsRight
  <2> QED
    BY <2>3, <2>4 DEF MathInv
<1>3. CASE den # 0
  <2>1. Math!SNES_Divide(a, den) = <<a \div den, a % den>>
    BY <1>3, DividesRight
  <2>2. /\ a \in Nat /\ a <= (Math!Radix * Math!Radix) - 1 /\ (Math!Radix * Math!Radix) \in Nat
        /\ den \in Nat /\ 0 < den
    BY <1>3, RadixSquare DEF Math!Words, Math!Bytes
  <2>3. a \div den \in Math!Words /\ a % den \in Math!Words
    <3> DEFINE q == a \div den
               r == a % den
               s == Math!Radix * Math!Radix
    <3>1. q \in Nat /\ r \in Nat /\ a = (den * q) + r
      BY <2>2, DivisionBy
    <3> HIDE DEF q, r, s
    <3>2. PICK j \in Nat : den = 1 + j
      <4>1. den - 1 \in Nat /\ den = 1 + (den - 1)
        BY <2>2
      <4> QED
        BY <4>1
    <3>3. den * q = q + (j * q) /\ j * q \in Nat
      BY <3>1, <3>2
    <3>4. q <= a /\ r <= a
      BY <3>1, <3>3
    <3>5. s \in Nat /\ a <= s - 1
      BY <2>2 DEF s
    <3>6. q \in 0 .. s - 1 /\ r \in 0 .. s - 1
      BY <2>2, <3>1, <3>4, <3>5
    <3> QED
      BY <3>6 DEF q, r, s, Math!Words
  <2>4. Math!TypeOK'
    BY <1>1, <2>1, <2>3 DEF MathInv, Math!TypeOK, Math!Operations
  <2>5. Math!ResultsRight'
    BY <1>1, <1>3, <2>1 DEF Math!ResultsRight
  <2> QED
    BY <2>4, <2>5 DEF MathInv
<1> QED
  BY <1>2, <1>3

(* An operand is written: the results stay those of the operation before.  *)
LEMMA OperandInv ==
  ASSUME MathInv, \/ \E val \in Math!Bytes : Math!WriteMulA(val)
                  \/ \E a \in Math!Words : Math!WriteDivA(a)
  PROVE  MathInv'
<1>1. /\ UNCHANGED <<mulRes, divRes, asked>>
      /\ mulA' \in Math!Bytes /\ divA' \in Math!Words
  BY DEF MathInv, Math!TypeOK, Math!WriteMulA, Math!WriteDivA
<1> QED
  BY <1>1 DEF MathInv, Math!TypeOK, Math!ResultsRight

LEMMA MathStepInv == ASSUME MathInv, [Math!Next]_mathVars PROVE MathInv'
<1>1. mulA \in Math!Bytes /\ divA \in Math!Words
  BY DEF MathInv, Math!TypeOK
<1>2. ASSUME NEW val \in Math!Bytes, Math!WriteMulA(val) PROVE MathInv'
  BY <1>2, OperandInv
<1>3. ASSUME NEW val \in Math!Bytes, Math!WriteMulB(val) PROVE MathInv'
  BY <1>1, <1>3, WordsOfBytes, MultiplyInv DEF Math!WriteMulB
<1>4. ASSUME NEW val \in Math!Bytes, Math!WriteDivLow(val) PROVE MathInv'
  <2>1. val + ((divA \div Math!Radix) * Math!Radix) \in Math!Words
    BY <1>1, WordsOfBytes
  <2>2. ((divA \div Math!Radix) * Math!Radix) + val \in Math!Words
    <3>1. divA \div Math!Radix \in Int /\ val \in Int /\ Math!Radix \in Int
      BY <1>1, WordsOfBytes, RadixSquare DEF Math!Bytes
    <3> DEFINE q == divA \div Math!Radix
               R == Math!Radix
    <3> HIDE DEF q, R
    <3>2. val + (q * R) = (q * R) + val
      BY <3>1 DEF q, R
    <3> QED
      BY <2>1, <3>2 DEF q, R
  <2> QED
    BY <1>4, <2>2, OperandInv DEF Math!WriteDivLow
<1>5. ASSUME NEW val \in Math!Bytes, Math!WriteDivHigh(val) PROVE MathInv'
  <2>1. (divA % Math!Radix) + val * Math!Radix \in Math!Words
    BY <1>1, WordsOfBytes
  <2> QED
    BY <1>5, <2>1, OperandInv DEF Math!WriteDivHigh
<1>6. ASSUME NEW val \in Math!Bytes, Math!WriteDivB(val) PROVE MathInv'
  BY <1>1, <1>6, DivideInv DEF Math!WriteDivB
<1>7. ASSUME NEW a \in Math!Bytes, NEW b \in Math!Bytes, Math!WriteMul16(a, b) PROVE MathInv'
  BY <1>7, WordsOfBytes, MultiplyInv DEF Math!WriteMul16
<1>8. ASSUME NEW a \in Math!Bytes, NEW b \in Math!Bytes, Math!WriteDiv16(a, b) PROVE MathInv'
  <2>1. (divA % Math!Radix) + a * Math!Radix \in Math!Words
    BY <1>1, WordsOfBytes
  <2> QED
    BY <1>8, <2>1, DivideInv DEF Math!WriteDiv16
<1>9. ASSUME NEW a \in Math!Words, Math!WriteDivA(a) PROVE MathInv'
  BY <1>9, OperandInv
<1>10. CASE UNCHANGED mathVars
  BY <1>10 DEF mathVars, MathInv, Math!TypeOK, Math!ResultsRight
<1> QED
  BY <1>2, <1>3, <1>4, <1>5, <1>6, <1>7, <1>8, <1>9, <1>10 DEF Math!Next

-----------------------------------------------------------------------------
(* The console: every part keeps its own invariant, whichever part moves,  *)
(* and the ports of a game that does not use them are as they began.       *)
ConsoleInv ==
  /\ PortsInv /\ BackgroundInv /\ VoiceInv /\ SpcInv /\ MathInv
  /\ unit # "ports" => stream = Ports!NoStream

LEMMA ConsoleInit == Init => ConsoleInv
BY PortsInit, BackgroundInit, VoiceInit, SpcInit, MathInit DEF Init, ConsoleInv

(* A step of the console is a step of one part, or of none.                *)
LEMMA ConsoleMoves ==
  ASSUME [Next]_vars
  PROVE  /\ unit' = unit /\ (unit # "ports" => UNCHANGED portsVars)
         /\ [Ports!Next]_portsVars /\ [Background!Next]_backgroundVars
         /\ [Voice!Next]_voiceVars /\ [Spc!Next]_spcVars /\ [Math!Next]_mathVars
<1>1. CASE PortsStep
  BY <1>1 DEF PortsStep
<1>2. CASE BackgroundStep
  BY <1>2 DEF BackgroundStep
<1>3. CASE VoiceWrite
  BY <1>3 DEF VoiceWrite, Voice!Next
<1>4. CASE VoiceMix
  BY <1>4 DEF VoiceMix, Voice!Next
<1>5. CASE SpcStep
  BY <1>5 DEF SpcStep
<1>6. CASE MathStep
  BY <1>6 DEF MathStep
<1>7. CASE UNCHANGED vars
  BY <1>7 DEF vars
<1> QED
  BY <1>1, <1>2, <1>3, <1>4, <1>5, <1>6, <1>7 DEF Next

LEMMA ConsoleStep == ConsoleInv /\ [Next]_vars => ConsoleInv'
<1> SUFFICES ASSUME ConsoleInv, [Next]_vars PROVE ConsoleInv'
  OBVIOUS
<1>1. /\ unit' = unit /\ (unit # "ports" => UNCHANGED portsVars)
      /\ [Ports!Next]_portsVars /\ [Background!Next]_backgroundVars
      /\ [Voice!Next]_voiceVars /\ [Spc!Next]_spcVars /\ [Math!Next]_mathVars
  BY ConsoleMoves
<1>2. PortsInv'
  BY <1>1, PortsStepInv DEF ConsoleInv
<1>3. BackgroundInv'
  BY <1>1, BackgroundStepInv DEF ConsoleInv
<1>4. VoiceInv'
  BY <1>1, VoiceStep DEF ConsoleInv
<1>5. SpcInv'
  BY <1>1, SpcStepInv DEF ConsoleInv
<1>6. MathInv'
  BY <1>1, MathStepInv DEF ConsoleInv
<1>7. (unit # "ports" => stream = Ports!NoStream)'
  <2>1. UNCHANGED portsVars => stream' = stream
    BY DEF portsVars
  <2> QED
    BY <1>1, <2>1 DEF ConsoleInv, Ports!NoStream
<1> QED
  BY <1>2, <1>3, <1>4, <1>5, <1>6, <1>7 DEF ConsoleInv

THEOREM ConsoleInvariant == Spec => []ConsoleInv
<1> QED
  BY ConsoleInit, ConsoleStep, PTL DEF Spec

(* A scroll position or a Mode 7 register written twice in a row is the    *)
(* two bytes, high one last, whichever registers and latches a game wrote  *)
(* before (the latches BGOld and M7Old of PPU_Write8).                     *)
THEOREM PairsAreWhole == Spec => PairsWhole
<1>1. ConsoleInv /\ [Next]_vars => [Ports!ScrollWholeStep /\ Ports!MatrixWholeStep]_vars
  <2> SUFFICES ASSUME ConsoleInv, [Next]_vars, ~UNCHANGED vars
               PROVE  Ports!ScrollWholeStep /\ Ports!MatrixWholeStep
    OBVIOUS
  <2>1. CASE PortsStep
    BY <2>1, PairsStep DEF PortsStep, ConsoleInv
  <2>2. CASE ~PortsStep
    <3>1. unit # "ports"
      BY <2>2 DEF Next, BackgroundStep, VoiceWrite, VoiceMix, SpcStep, MathStep
    <3>2. stream.data = <<>>
      BY <3>1 DEF ConsoleInv, Ports!NoStream
    <3> QED
      BY <3>2 DEF Ports!ScrollWholeStep, Ports!MatrixWholeStep
  <2> QED
    BY <2>1, <2>2
<1> QED
  BY <1>1, ConsoleInvariant, PTL DEF Spec, PairsWhole

(* What a game writes to the data ports of OAM, CGRAM and VRAM lies there  *)
(* in order, words whole, however long it goes on and wherever it wraps    *)
(* (PPU_Write8, PPU_TranslateVRAMAddress).                                 *)
THEOREM StreamsAlwaysLand == Spec => []StreamsLand
<1>1. ConsoleInv => StreamsLand
  BY PortsRight DEF ConsoleInv, StreamsLand
<1> QED
  BY <1>1, ConsoleInvariant, PTL

(* Every pixel of a line of any background shows what the map means for    *)
(* it, and no tile is drawn outside of the line (PPU_DrawBG_4bpp_8x8).     *)
THEOREM LineAlwaysRight == Spec => []LineRight
<1>1. ConsoleInv => LineRight
  BY BackgroundRight DEF ConsoleInv, LineRight
<1> QED
  BY <1>1, ConsoleInvariant, PTL

(* The envelope of a playing voice goes by its registers, whenever they    *)
(* were written (DspWriteByte, DspMixer).                                  *)
THEOREM VoiceAlwaysFollows == Spec => []VoiceFollows
<1>1. ConsoleInv => VoiceFollows
  BY VoiceRight DEF ConsoleInv, VoiceFollows
<1> QED
  BY <1>1, ConsoleInvariant, PTL

(* The SPC700 keeps in step with the CPU to less than an instruction, and  *)
(* its timers lose no cycle and no tick, for every ratio of the two clocks *)
(* (Mem_SyncSPC, SPC_Run, SPC_TimerReload).                                *)
THEOREM SpcAlwaysOnTime == Spec => []SpcOnTime
<1>1. ConsoleInv => SpcOnTime
  BY SpcRight DEF ConsoleInv, SpcOnTime
<1> QED
  BY <1>1, ConsoleInvariant, PTL

(* The multiplier and the divider hold the product, or the quotient and    *)
(* remainder, of the operation asked for last, for bytes of any width (the *)
(* shifts and subtractions of SNES_Divide, Mem_GIOWrite8 and 16).          *)
THEOREM ResultsAlwaysRight == Spec => []ResultsRight
<1>1. ConsoleInv => ResultsRight
  BY DEF ConsoleInv, MathInv, ResultsRight
<1> QED
  BY <1>1, ConsoleInvariant, PTL

=============================================================================
