------------------------------- MODULE DspVoice -------------------------------
(* A voice of the sound processor (dsp.c, dspMixer.s): the SPC700 writes the *)
(* registers of the DSP at any time between two samples of the mixer; the    *)
(* mixer steps the envelope, decodes blocks, and ends the voice.             *)
(*                                                                           *)
(* Sound itself is left out: a volume is a number, the envelope a level of   *)
(* 0 .. Full, a rate its own speed (rate 0 never steps), a sample the headers *)
(* of its blocks, and every voice is like the next: one is enough.            *)
EXTENDS Integers

CONSTANTS Full,        \* the highest level of the envelope (0x7F)
          Rise, Fall,  \* the levels an envelope steps by (4, 1)
          Bend,        \* where the bent line goes on by Fall (0x5F)
          Rates,       \* envelope rates
          FastRate,    \* attack rate 15: no attack
          ReleaseRate, \* the speed of a release (ENVCNT[0x1C])
          Levels,      \* sustain levels
          Volumes,
          EnvStart,       \* ENVCNT_START: the envelope's counter
          MaxRewrites  \* bound: writes to ADSR1, ADSR2, GAIN and VOL

VARIABLES
  adsr1,    \* [on: the mode bit, attack, decay]
  adsr2,    \* [level, rate]
  gain,     \* [how, val]: val is the level if direct, a rate otherwise
  volume,   \* VOL_L
  kof, nov, \* the bits of this voice in KOF and NOV
  endx, envxReg,   \* its bit in ENDX, its ENVX register
  active,   \* the mixer plays it
  env,      \* envState
  envx, envSpeed, envCount,
  decaySpeed, sustainSpeed, sustainLevel,
  calcVolume,      \* leftCalcVolume
  header,   \* brrHeader of the block that plays
  rewrites  \* writes to ADSR1, ADSR2, GAIN and VOL so far

regs == <<adsr1, adsr2, gain, volume, kof, nov>>
speeds == <<decaySpeed, sustainSpeed, sustainLevel>>
vars == <<adsr1, adsr2, gain, volume, kof, nov, endx, envxReg, active, env,
          envx, envSpeed, envCount, decaySpeed, sustainSpeed, sustainLevel,
          calcVolume, header, rewrites>>

GainStates == {"direct", "increase", "bentline", "decrease", "decexp"}
States == {"none", "attack", "decay", "sustain", "release"} \cup GainStates

Adsr1 == [on : BOOLEAN, attack : Rates, decay : Rates]
Adsr2 == [level : Levels, rate : Rates]
Gain == [how : GainStates, val : Rates]

\* A block may be the last of its sample, which ends there or goes on at its
\* loop.
Headers == {"more", "end", "loop"}

TypeOK ==
  /\ adsr1 \in Adsr1 /\ adsr2 \in Adsr2 /\ gain \in Gain
  /\ volume \in Volumes
  /\ kof \in BOOLEAN /\ nov \in BOOLEAN /\ endx \in BOOLEAN /\ active \in BOOLEAN
  /\ envxReg \in 0 .. Full /\ env \in States /\ envx \in 0 .. Full
  /\ envSpeed \in Rates \cup {0, ReleaseRate} /\ envCount \in 0 .. EnvStart
  /\ decaySpeed \in Rates \cup {0} /\ sustainSpeed \in Rates \cup {0}
  /\ sustainLevel \in Levels \cup {0}
  /\ header \in Headers
  /\ rewrites \in 0 .. MaxRewrites

\* DspReset
Init ==
  /\ adsr1 = [on |-> FALSE, attack |-> 0, decay |-> 0]
  /\ adsr2 \in {a \in Adsr2 : a.rate = 0 /\ \A l \in Levels : a.level <= l}
  /\ gain = [how |-> "direct", val |-> 0] /\ volume = 0
  /\ kof = FALSE /\ nov = FALSE /\ endx = FALSE /\ envxReg = 0
  /\ active = FALSE /\ env = "none" /\ envx = 0 /\ envSpeed = 0
  /\ envCount = 0 /\ decaySpeed = 0 /\ sustainSpeed = 0 /\ sustainLevel = 0
  /\ calcVolume = 0 /\ header = "more" /\ rewrites = 0

(*************************** The registers ********************************)

\* DspSetChannelVolume
WriteVolume == \E v \in Volumes :
  /\ volume' = v
  /\ calcVolume' = v * envx
  /\ UNCHANGED <<adsr1, adsr2, gain, kof, nov, endx, envxReg, active, env, envx,
                 envSpeed, envCount, speeds, header>>

(* Variant: the volume is left for the next write of the register. *)
SetHeight_Only(h) == envx' = h /\ UNCHANGED calcVolume

\* DspSetChannelEnvelopeHeight
SetHeight(h) == envx' = h /\ calcVolume' = volume' * h

\* DspStartChannelEnvelope: the state, level and speed a key begins with.
StartEnvelope ==
  IF adsr1.on
  THEN IF adsr1.attack = FastRate
       THEN SetHeight(Full) /\ env' = "decay" /\ envSpeed' = adsr1.decay
       ELSE SetHeight(0) /\ env' = "attack" /\ envSpeed' = adsr1.attack
  ELSE IF gain.how = "direct"
       THEN SetHeight(gain.val) /\ env' = "direct" /\ UNCHANGED envSpeed
       ELSE SetHeight(0) /\ env' = gain.how /\ envSpeed' = gain.val

\* DspKeyOnChannel
KeyOn ==
  /\ UNCHANGED regs
  /\ StartEnvelope
  /\ decaySpeed' = adsr1.decay /\ sustainSpeed' = adsr2.rate
  /\ sustainLevel' = adsr2.level
  /\ envxReg' = 0 /\ endx' = FALSE
  /\ envCount' = EnvStart
  /\ active' = ~nov
  /\ header' = "more"

\* A key on is ignored while the key is held off.
WriteKon == ~kof /\ KeyOn

\* A voice whose registers reach its envelope: it plays, and is not released.
Follows == active /\ env # "release"

\* DspChangeChannelEnvelopeGain, for the register g and the mode bit on.
ChangeGain(g, on) ==
  IF ~Follows \/ on THEN UNCHANGED <<envx, calcVolume, env, envSpeed>>
  ELSE IF g.how = "direct"
       THEN SetHeight(g.val) /\ env' = "direct" /\ envSpeed' = 0
       ELSE env' = g.how /\ envSpeed' = g.val /\ UNCHANGED <<envx, calcVolume>>

WriteGain == \E g \in Gain :
  /\ gain' = g
  /\ UNCHANGED <<adsr1, adsr2, volume, kof, nov>>
  /\ ChangeGain(g, adsr1.on)
  /\ UNCHANGED <<endx, envxReg, active, envCount, speeds, header>>

\* DspChangeChannelEnvelopeAdsr1: switching the mode on begins an attack where
\* the envelope is; off, it is the gain register's.
WriteAdsr1 == \E a \in Adsr1 :
  /\ adsr1' = a
  /\ UNCHANGED <<adsr2, gain, volume, kof, nov>>
  /\ decaySpeed' = IF Follows THEN a.decay ELSE decaySpeed
  /\ IF ~a.on THEN ChangeGain(gain, FALSE)
     ELSE /\ env' = IF Follows /\ ~adsr1.on THEN "attack" ELSE env
          /\ envSpeed' = IF ~Follows THEN envSpeed
                         ELSE IF env' = "attack" THEN a.attack
                         ELSE IF env = "decay" THEN a.decay ELSE envSpeed
          /\ UNCHANGED <<envx, calcVolume>>
  /\ UNCHANGED <<endx, envxReg, active, envCount, sustainSpeed, sustainLevel,
                 header>>

(* Variant: the rate is only taken at the next sustain. *)
WriteAdsr2_Later == \E a \in Adsr2 :
  /\ adsr2' = a
  /\ sustainSpeed' = IF Follows THEN a.rate ELSE sustainSpeed
  /\ UNCHANGED <<adsr1, gain, volume, kof, nov, endx, envxReg, active, env, envx,
                 envSpeed, envCount, decaySpeed, sustainLevel, calcVolume, header>>

\* DspChangeChannelEnvelopeAdsr2: the level is only taken at the next key on.
WriteAdsr2 == \E a \in Adsr2 :
  /\ adsr2' = a
  /\ sustainSpeed' = IF Follows THEN a.rate ELSE sustainSpeed
  /\ envSpeed' = IF Follows /\ env = "sustain" THEN a.rate ELSE envSpeed
  /\ UNCHANGED <<adsr1, gain, volume, kof, nov, endx, envxReg, active, env, envx,
                 envCount, decaySpeed, sustainLevel, calcVolume, header>>

(* Variant: a voice that is released begins its release again. *)
WriteKof_Again == \E off \in BOOLEAN :
  /\ kof' = off
  /\ IF off /\ active
     THEN env' = "release" /\ envCount' = EnvStart /\ envSpeed' = ReleaseRate
     ELSE UNCHANGED <<env, envCount, envSpeed>>
  /\ UNCHANGED <<adsr1, adsr2, gain, volume, nov, endx, envxReg, active, envx,
                 speeds, calcVolume, header>>

\* KOF: a voice that is not released yet begins its release.
WriteKof == \E off \in BOOLEAN :
  /\ kof' = off
  /\ IF off /\ Follows
     THEN env' = "release" /\ envCount' = EnvStart /\ envSpeed' = ReleaseRate
     ELSE UNCHANGED <<env, envCount, envSpeed>>
  /\ UNCHANGED <<adsr1, adsr2, gain, volume, nov, endx, envxReg, active, envx,
                 speeds, calcVolume, header>>

\* NOV: noise is not emulated, its voices stop.
WriteNov == \E noise \in BOOLEAN :
  /\ nov' = noise
  /\ active' = (active /\ ~noise)
  /\ UNCHANGED <<adsr1, adsr2, gain, volume, kof, endx, envxReg, env, envx,
                 envSpeed, envCount, speeds, calcVolume, header>>

WriteEndx ==
  /\ endx' = FALSE
  /\ UNCHANGED <<regs, envxReg, active, env, envx, envSpeed, envCount, speeds,
                 calcVolume, header>>

(***************************** The mixer **********************************)

\* DspSetEndOfSample
EndOfSample ==
  /\ active' = FALSE /\ env' = "none" /\ envx' = 0 /\ envxReg' = 0

\* The level and the state a step of the envelope leads to; a level below 0
\* ends the voice. (A decay multiplies by 255/256 and stops at 0.)
Lower == IF envx = 0 THEN 0 ELSE envx - 1
Bent == envx + (IF envx > Bend THEN Fall ELSE Rise)
Stepped ==
  IF env = "attack" THEN IF envx + Rise > Full THEN <<Full, "decay">>
                         ELSE <<envx + Rise, env>>
  ELSE IF env = "decay" THEN <<Lower, IF Lower < sustainLevel THEN "sustain" ELSE env>>
  ELSE IF env \in {"sustain", "decexp"} THEN <<Lower, env>>
  ELSE IF env = "release" THEN <<envx - Fall, env>>
  ELSE IF env = "decrease" THEN <<envx - Rise, env>>
  ELSE IF env = "increase" THEN IF envx + Rise > Full THEN <<Full, "direct">>
                                ELSE <<envx + Rise, env>>
  ELSE IF env = "bentline" THEN IF Bent >= Full THEN <<Full, "direct">> ELSE <<Bent, env>>
  ELSE <<envx, env>>

\* The speed of a state the envelope has just come to.
SpeedOf(state) ==
  IF state = "decay" THEN decaySpeed
  ELSE IF state = "sustain" THEN sustainSpeed ELSE 0

Counted == envCount - envSpeed < 0
EnvelopeEnds == Counted /\ Stepped[1] < 0

Envelope ==
  /\ envCount' = IF Counted THEN EnvStart ELSE envCount - envSpeed
  /\ IF Counted
     THEN /\ envx' = Stepped[1] /\ env' = Stepped[2]
          /\ envSpeed' = IF env' = env THEN envSpeed ELSE SpeedOf(env')
          /\ calcVolume' = volume * envx'
          /\ envxReg' = envx'
     ELSE UNCHANGED <<envx, env, envSpeed, calcVolume>> /\ envxReg' = envx

\* A sample of the mixer that needs no new block, or ends the voice by its
\* envelope.
MixSample ==
  /\ active
  /\ IF EnvelopeEnds
     THEN /\ EndOfSample
          /\ envCount' = EnvStart
          /\ UNCHANGED <<envSpeed, calcVolume>>
     ELSE Envelope /\ UNCHANGED active
  /\ UNCHANGED <<regs, endx, speeds, header>>

\* DecodeSampleBlock: a sample that needs the next block. The last block ends
\* the voice or leads to the loop; both show in ENDX. A block that would lie
\* past the end of the memory ends the voice as well, and does not show.
MixBlock == \E past \in BOOLEAN :
  /\ active /\ ~EnvelopeEnds
  /\ endx' = (endx \/ (~past /\ header # "more"))
  /\ IF past \/ header = "end"
     THEN /\ EndOfSample
          /\ envCount' = IF Counted THEN EnvStart ELSE envCount - envSpeed
          /\ envSpeed' = IF Counted /\ Stepped[2] # env THEN SpeedOf(Stepped[2])
                         ELSE envSpeed
          /\ calcVolume' = IF Counted THEN volume * Stepped[1] ELSE calcVolume
          /\ UNCHANGED header
     ELSE /\ Envelope
          /\ header' \in Headers
          /\ UNCHANGED active
  /\ UNCHANGED <<regs, speeds>>

Mix == MixSample \/ MixBlock

\* DspWriteByte
DspWriteByte ==
  \/ /\ rewrites < MaxRewrites /\ rewrites' = rewrites + 1
     /\ WriteVolume \/ WriteGain \/ WriteAdsr1 \/ WriteAdsr2
  \/ /\ UNCHANGED rewrites
     /\ WriteKon \/ WriteKof \/ WriteNov \/ WriteEndx

DSP_Mix == Mix /\ UNCHANGED rewrites

Next == DspWriteByte \/ DSP_Mix

Spec == Init /\ [][Next]_vars
FairSpec == Spec /\ WF_vars(DSP_Mix)

(****************************** Properties ********************************)

\* The envelope of a voice that plays goes by the registers as they are now:
\* its state is one of the mode's, and its speed is the rate the register of
\* that state holds, whatever was rewritten in whatever state it was.
EnvelopeFollows ==
  active =>
    /\ env # "none"
    /\ env \in {"attack", "decay", "sustain"} => adsr1.on
    /\ env \in GainStates => ~adsr1.on
    /\ env = "attack" => envSpeed = adsr1.attack
    /\ env = "decay" => envSpeed = adsr1.decay
    /\ env = "sustain" => envSpeed = adsr2.rate
    /\ env \in GainStates \ {"direct"} => envSpeed = gain.val

\* The volume the mixer multiplies by is that of the register and the
\* envelope together, whichever of the two changed last.
CalcVolumeRight == active => calcVolume = volume * envx

\* A released voice comes to its end, though the game writes registers all the
\* time, KOF among them.
ReleaseEnds == (active /\ env = "release") ~> (env # "release" \/ ~active)
=============================================================================
