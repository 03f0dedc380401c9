------------------------------- MODULE Console -------------------------------
(* The parts of the emulated console behind its I/O ports: the ports of the  *)
(* picture processor, the walk over a background, a voice of the sound       *)
(* processor, the SPC700's clock and timers, and the math unit.              *)
(*                                                                           *)
(* They are reached through one handler (memory.c, Mem_IOWrite8) and share   *)
(* no state with each other, so that a behaviour of the console is any       *)
(* interleaving of behaviours of the parts, and a property of a part holds   *)
(* of the console if it holds of the part. A behaviour here therefore moves  *)
(* one part only, chosen at the start, while the others stay as they began.  *)
EXTENDS Integers

CONSTANTS Byte, OamHigh, Fine, Scrolls, XScrolls, Matrix, Rot, RotSpans, Steps, Data,
          MaxWrites, MaxSets
CONSTANTS Tile, Cols, HFlip, VFlip
CONSTANTS Full, Rise, Fall, Bend, Rates, FastRate, ReleaseRate, Levels, Volumes,
          EnvStart, MaxRewrites
CONSTANTS LineLen, Overrun, Ratio, SpcRatio, OpCycles, Half, Unit, Reloads,
          Sample, MaxTicks
CONSTANT Bits

ASSUME PortAssumption ==
  /\ Byte \in Nat /\ Fine \in 1 .. Byte /\ Byte % Fine = 0 /\ Byte % 2 = 0
  /\ OamHigh \in Nat \ {0} /\ Steps \subseteq Nat /\ Rot \in Nat \ {0}
  /\ XScrolls \subseteq Scrolls
  /\ Data \subseteq 0 .. Byte - 1
  /\ \A n \in RotSpans : \* a span is rotated within itself, and VRAM is whole spans
       n \in Nat \ {0, 1} /\ n % Rot = 0 /\ (Byte * (Byte \div 2)) % n = 0
  /\ MaxSets \in Nat
  /\ \A g \in {"scroll", "matrix", "oam", "cgram", "vram"} : MaxWrites[g] \in Nat

ASSUME BackgroundAssumption == Tile \in Nat \ {0} /\ Cols \in Nat \ {0}

ASSUME VoiceAssumption ==
  /\ {Full, Rise, Fall, EnvStart} \subseteq Nat \ {0}
  /\ Levels \subseteq 1 .. Full + 1 /\ Rates \subseteq 0 .. Full
  /\ 0 \in Rates /\ 0 \in Volumes   \* what DspReset leaves in the registers
  /\ ReleaseRate \in Nat \ {0} /\ MaxRewrites \in Nat

ASSUME SpcAssumption ==
  /\ {LineLen, Ratio, SpcRatio, Half, Unit, Sample} \subseteq Nat \ {0}
  /\ Overrun \in 0 .. LineLen /\ MaxTicks \in Nat
  /\ Unit < Half /\ Reloads \subseteq Nat /\ \A n \in Reloads : n * Unit < Half
  /\ OpCycles \subseteq Nat \ {0}
  /\ \A c \in OpCycles : c <= Unit /\ c < Sample
  /\ \E c \in OpCycles : \A d \in OpCycles : d <= c

ASSUME BitsAssumption == Bits \in Nat \ {0}

VARIABLES unit   \* the part that moves

VARIABLES game, writes, sets, bgOld, m7Old, scroll, m7, oam, oamAddr, oamVal,
          oamReload, oamPrio, firstObj, cgram, cgAddr, cgSecond, cgVal, vram,
          vramAddr, vramHigh, vramSpan, vramStep, stream
VARIABLES drawing, scr, x0, y, i, xpos, tilemap, dst, drawn
VARIABLES adsr1, adsr2, gain, volume, kof, nov, endx, envxReg, active, env, envx,
          envSpeed, envCount, decaySpeed, sustainSpeed, sustainLevel, calcVolume,
          header, rewrites
VARIABLES hcount, lastCycle, spcCycles, running, on, reload, low, high, elapsed,
          inPort, outPort, debt, period, since, ticks
VARIABLES mulA, divA, mulRes, divRes, asked

Ports      == INSTANCE PpuPorts
Background == INSTANCE PpuBackground
Voice      == INSTANCE DspVoice
Spc        == INSTANCE SpcIo
Math       == INSTANCE MathUnit

portsVars ==
  <<game, writes, sets, bgOld, m7Old, scroll, m7, oam, oamAddr, oamVal,
    oamReload, oamPrio, firstObj, cgram, cgAddr, cgSecond, cgVal, vram,
    vramAddr, vramHigh, vramSpan, vramStep, stream>>
backgroundVars ==
  <<drawing, scr, x0, y, i, xpos, tilemap, dst, drawn>>
voiceVars ==
  <<adsr1, adsr2, gain, volume, kof, nov, endx, envxReg, active, env,
    envx, envSpeed, envCount, decaySpeed, sustainSpeed, sustainLevel,
    calcVolume, header, rewrites>>
spcVars ==
  <<hcount, lastCycle, spcCycles, running, on, reload, low, high, elapsed,
    inPort, outPort, debt, period, since, ticks>>
mathVars ==
  <<mulA, divA, mulRes, divRes, asked>>
vars == <<unit, portsVars, backgroundVars, voiceVars, spcVars, mathVars>>

Init ==
  /\ unit \in {"ports", "background", "voice", "spc", "math"}
  /\ Ports!Init /\ Background!Init /\ Voice!Init /\ Spc!Init /\ Math!Init
  /\ unit # "ports" => game = "scroll"

PortsStep ==
  /\ unit = "ports" /\ Ports!Next
  /\ UNCHANGED <<unit, backgroundVars, voiceVars, spcVars, mathVars>>

BackgroundStep ==
  /\ unit = "background" /\ Background!Next
  /\ UNCHANGED <<unit, portsVars, voiceVars, spcVars, mathVars>>

VoiceWrite ==
  /\ unit = "voice" /\ Voice!DspWriteByte
  /\ UNCHANGED <<unit, portsVars, backgroundVars, spcVars, mathVars>>

VoiceMix ==
  /\ unit = "voice" /\ Voice!DSP_Mix
  /\ UNCHANGED <<unit, portsVars, backgroundVars, spcVars, mathVars>>

SpcStep ==
  /\ unit = "spc" /\ Spc!Next
  /\ UNCHANGED <<unit, portsVars, backgroundVars, voiceVars, mathVars>>

MathStep ==
  /\ unit = "math" /\ Math!Next
  /\ UNCHANGED <<unit, portsVars, backgroundVars, voiceVars, spcVars>>

Next ==
  PortsStep \/ BackgroundStep \/ VoiceWrite \/ VoiceMix \/ SpcStep \/ MathStep

Spec == Init /\ [][Next]_vars

\* The mixer is called every 0x200 cycles of the SPC, which never stops.
FairSpec == Spec /\ WF_vars(VoiceMix)

(****************************** Properties *********************************)

\* PpuPorts: a scroll position or Mode 7 register written twice in a row is the
\* two bytes, whichever of the latches they share.
PairsWhole == [][Ports!ScrollWholeStep /\ Ports!MatrixWholeStep]_vars

\* PpuPorts: what is written to the data ports of OAM, CGRAM and VRAM lies there
\* in order, words whole, where the steps and the rotation lead.
StreamsLand ==
  unit = "ports" =>
    Ports!TypeOK /\ Ports!OamStream /\ Ports!CgStream /\ Ports!VramStream

\* PpuBackground: every pixel of a line comes from where the map says, and none
\* is written outside of the line.
LineRight ==
  unit = "background" =>
    Background!TypeOK /\ Background!PixelsRight /\ Background!InsideLine

\* DspVoice: the envelope of a playing voice goes by its registers as they are,
\* and the volume mixed with is the register's times the envelope's.
VoiceFollows ==
  unit = "voice" => Voice!TypeOK /\ Voice!EnvelopeFollows /\ Voice!CalcVolumeRight

\* DspVoice: a released voice comes to its end, though the game writes registers
\* all the time, KOF among them.
ReleaseEnds == Voice!ReleaseEnds

\* SpcIo: the two processors keep in step, and a timer loses no cycle and no tick.
SpcOnTime == unit = "spc" => Spc!TypeOK /\ Spc!SpcInStep /\ Spc!TimerRight

\* MathUnit: the results are those of the operation asked for last.
ResultsRight == unit = "math" => Math!TypeOK /\ Math!ResultsRight
=============================================================================
