-------------------------------- MODULE Board --------------------------------
(* The drivers of the gamepad's board that stand beside each other: the       *)
(* sound, the serial bus with the flash memory and the microcontroller, the   *)
(* delays, the input data, and the SD host with the wifi card behind it.      *)
(*                                                                            *)
(* They have their own interrupts, threads, mutexes and registers. What one   *)
(* calls of another is a blocking call that changes nothing else of it (a     *)
(* delay, a command to the microcontroller), and is a step of the caller's    *)
(* module. A behaviour of the board is any interleaving of behaviours of the  *)
(* parts, and a property of a part holds of the board if it holds of the      *)
(* part: a behaviour here moves one part, chosen at the start.                *)
EXTENDS Integers

CONSTANTS MaxStarts, MaxHurried
CONSTANTS Threads, Calls, Page, Size, MaxCalls
CONSTANTS Levels, Times, MaxDelays
CONSTANTS Buttons, MaxScans
CONSTANTS Bases, MaxChunks, CardEvents

ASSUME BoardAssumption ==
  /\ {Page, Size, Levels} \subseteq Nat \ {0} /\ Size % Page = 0
  /\ Times \subseteq Nat \ {0} /\ \E n \in Times : \A m \in Times : m <= n
  /\ {MaxStarts, MaxHurried, MaxCalls, MaxDelays, MaxScans} \subseteq Nat

\* A call begins inside the flash and a write ends there, for it has no other
\* bytes; an address mode is 0 or 1.
ASSUME CallsAssumption == \A c \in Calls :
  /\ c[1] \in {"write", "erase", "read", "id", "mode", "uic", "uicEnd"}
  /\ c[2] \in 0 .. Size - 1 /\ c[3] \in Nat
  /\ c[1] = "write" => c[2] + c[3] <= Size
  /\ c[1] = "mode" => c[2] \in 0 .. 1

VARIABLE unit    \* the part that moves

VARIABLES pc, kind, held, ending, deleted, playing, sampleCB, streamCB, writePos,
          streamBuf, recording, recordCB, readPos, recordBuf, irqEnable, muted, dac,
          dacStatus, dacHalf, dacStop, micIrq, mic, micStatus, micHalf, events, tpc,
          hand, calling, owed, missed, quiet, starts, hurried
VARIABLES todo, called, calls, lock, addrMode, device, dma, dmaEvent, shift,
          writeIrq, spiEnable, event, got, status, chip, mem, uicBusy, want, refused
VARIABLES at, us, timer, flag, asleep, passed, broken, delays
VARIABLES scanAt, readAt, owner, raw, down, pressed, released, rest, outDown,
          outPressed, outRest, first, fresh, scans, log, since
VARIABLES cardOwner, depth, signal, cardEvent, stack, ret, f1base, rxEvent, rxpc,
          clkEnable, irqstatus, started, cardCmd, dat, cardStatus, window, work, faults,
          leaked, windowLost

Sound  == INSTANCE Audio
Bus    == INSTANCE SpiBus
Timer  == INSTANCE Delay
Pad    == INSTANCE Input
\* The host without faults: what its errors do to the state is checked and proved
\* of Sdio by itself; here it is asked for its progress.
Card   == INSTANCE Sdio WITH
            Main <- "main", Rx <- "rx", None <- "none",
            MaxFaults <- 0, MaxEarlyFaults <- 0,
            owner <- cardOwner, event <- cardEvent, status <- cardStatus, cmd <- cardCmd

soundVars ==
  <<pc, kind, held, ending, deleted, playing, sampleCB, streamCB, writePos,
    streamBuf, recording, recordCB, readPos, recordBuf, irqEnable, muted, dac,
    dacStatus, dacHalf, dacStop, micIrq, mic, micStatus, micHalf, events, tpc,
    hand, calling, owed, missed, quiet, starts, hurried>>
busVars ==
  <<todo, called, calls, lock, addrMode, device, dma, dmaEvent, shift, writeIrq,
    spiEnable, event, got, status, chip, mem, uicBusy, want, refused>>
timerVars == <<at, us, timer, flag, asleep, passed, broken, delays>>
padVars ==
  <<scanAt, readAt, owner, raw, down, pressed, released, rest, outDown,
    outPressed, outRest, first, fresh, scans, log, since>>
cardVars ==
  <<cardOwner, depth, signal, cardEvent, stack, ret, f1base, rxEvent, rxpc,
    clkEnable, irqstatus, started, cardCmd, dat, cardStatus, window, work, faults,
    leaked, windowLost>>
vars == <<unit, soundVars, busVars, timerVars, padVars, cardVars>>

Init ==
  /\ unit \in {"sound", "bus", "timer", "pad", "card"}
  /\ Sound!Init /\ Bus!Init /\ Timer!Init /\ Pad!Init /\ Card!Init

SoundMoves(A) ==
  /\ unit = "sound" /\ A
  /\ UNCHANGED <<unit, busVars, timerVars, padVars, cardVars>>

BusMoves(A) ==
  /\ unit = "bus" /\ A
  /\ UNCHANGED <<unit, soundVars, timerVars, padVars, cardVars>>

TimerMoves(A) ==
  /\ unit = "timer" /\ A
  /\ UNCHANGED <<unit, soundVars, busVars, padVars, cardVars>>

PadMoves(A) ==
  /\ unit = "pad" /\ A
  /\ UNCHANGED <<unit, soundVars, busVars, timerVars, cardVars>>

CardMoves(A) ==
  /\ unit = "card" /\ A
  /\ UNCHANGED <<unit, soundVars, busVars, timerVars, padVars>>

Next ==
  \/ SoundMoves(Sound!Next) \/ BusMoves(Bus!Next)
  \/ TimerMoves(Timer!Next) \/ PadMoves(Pad!Next) \/ CardMoves(Card!Next)

Spec == Init /\ [][Next]_vars

\* The hardware does what it was told, interrupts are taken, and a thread that may
\* run runs. The program's thread is held up by alerts again and again, but these
\* are far apart: strong fairness for its way out of Audio_Stop. The two threads
\* of the card run however often an interrupt comes in between (Sdio, Runs), and
\* the end of a transfer comes after its pauses. (Only one part moves in a
\* behaviour: the fairness of the two parts' moves together is that of each.)
FairSpec ==
  /\ Spec
  /\ WF_vars(SoundMoves(Sound!DacStops)) /\ WF_vars(SoundMoves(Sound!Software))
  /\ WF_vars(BusMoves(Bus!Transfer)) /\ WF_vars(BusMoves(Bus!DeviceDone))
  /\ \A t \in Threads : WF_vars(BusMoves(Bus!Thread(t)))
  /\ WF_vars(TimerMoves(Timer!Time)) /\ WF_vars(TimerMoves(Timer!Interrupt))
  /\ WF_vars(TimerMoves(Timer!Delaying))
  /\ WF_vars(CardMoves(Card!SDIO_IRQHandler)) /\ WF_vars(CardMoves(Card!CommandEnds))
  /\ WF_vars(CardMoves(Card!DataMoves))
  /\ SF_vars(SoundMoves(Sound!Stopped) \/ CardMoves(Card!DataEnds))
  /\ \A t \in Card!Clients : SF_vars(CardMoves(Card!Runs(t)))

(****************************** Properties *********************************)

\* Audio: what Audio_Stop, Mic_Stop and Audio_DeInit leave is at rest: no callback
\* after they have returned, no sound, no interrupt, no use of a deleted object.
StopIsFinal == Sound!QuietAfterStop /\ Sound!SilentWhenIdle /\ Sound!EventAlive

\* Audio: every alert comes to its callback, which gets the half of the buffer
\* that is free.
AlertsServed ==
  unit = "sound" => Sound!TypeOK /\ Sound!AlertsKept /\ Sound!RightHalf

\* SpiBus: the flash holds what was written, as if each call were one step; no
\* transaction ends with a byte on its way, and no device is sent what it cannot
\* take.
BusRight ==
  unit = "bus" =>
    Bus!TypeOK /\ Bus!WritesLand /\ Bus!NothingInFlight /\ Bus!CommandsTaken

\* Delay: a delay that no other interrupts is not short.
FullDelay == unit = "timer" => Timer!TypeOK /\ Timer!NoneShort

\* Input: the data fetched is of one scan, with its edges, and as new as the last
\* whole scan.
FetchRight == unit = "pad" => Pad!TypeOK /\ Pad!OneScan /\ Pad!UpToDate

\* Audio_Stop, every call of the bus and every delay return.
CallsReturn == Sound!StopEnds /\ Bus!CallsEnd /\ Timer!DelayEnds

\* Sdio: without faults each event of the card is acknowledged, whatever the main
\* thread does with the driver.
CardServed == Card!CardServed
=============================================================================
