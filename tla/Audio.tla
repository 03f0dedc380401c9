-------------------------------- MODULE Audio --------------------------------
(* The sound playback and recording of the gamepad (wup/audio.c): a thread   *)
(* that starts and stops them, the handlers of the two interrupts, and the   *)
(* audio thread, which calls the program's callbacks.                        *)
(*                                                                           *)
(* A handler runs whole, before the next step of any thread, once its        *)
(* interrupt is pending and enabled. The audio thread is the more urgent of  *)
(* the two threads: the other one runs only while it waits. The program's    *)
(* callbacks neither block nor start or stop anything.                       *)
(*                                                                           *)
(* The sound hardware is external. It answers PLAYCNT_STOP with a STOP       *)
(* interrupt, also when the sample has run out meanwhile, at the latest      *)
(* before the next playback.                                                 *)
EXTENDS Integers

CONSTANTS MaxStarts,   \* bound: playbacks and recordings begun
          MaxHurried   \* bound: alerts of streams that come while the audio
                       \* thread still has something to do

VARIABLES
  pc,        \* where the program's thread is in its call
  kind,      \* what it starts: 1 for one buffer, 2 for a stream
  held,      \* REG_AUDIO_IRQ_ENABLE as it read it
  ending,    \* it is in Audio_DeInit
  deleted,   \* AudioEvent is deleted
  playing, sampleCB, streamCB, writePos, streamBuf,
             \* the positions are halves of the buffer
  recording, recordCB, readPos, recordBuf,
  irqEnable, \* REG_AUDIO_IRQ_ENABLE
  muted,     \* PLAYCNT_MUTE
  dac, dacStatus, dacHalf, dacStop,
             \* external: it plays; REG_AUDIO_IRQ_STATUS; the half it plays; it
             \* was told to stop
  micIrq, mic, micStatus, micHalf,
  events,    \* AudioEvent
  tpc, hand, \* where the audio thread is; the events it took
  calling,   \* the event whose callback it is in
  owed,      \* history: the callbacks due
  missed,    \* history: streams whose last alert came before the callback of
             \* the one before it was done
  quiet,     \* history: what was stopped, and not started since
  starts, hurried

main   == <<pc, kind, held, ending, deleted>>
play   == <<playing, sampleCB, streamCB, writePos, streamBuf>>
record == <<recording, recordCB, readPos, recordBuf>>
regs   == <<irqEnable, muted>>
sound  == <<dac, dacStatus, dacHalf, dacStop>>
micr   == <<micIrq, mic, micStatus, micHalf>>
thread == <<events, tpc, hand, calling>>
hist   == <<owed, missed, quiet, starts, hurried>>
vars   == <<main, play, record, regs, sound, micr, thread, hist>>

Irqs   == {"alert", "stop"}
Serves == {"playEnd", "playAlert", "recEnd", "recAlert"}
Halves == 0 .. 1

TypeOK ==
  /\ pc \in {"idle", "setup", "armed", "mask", "masked", "ask", "loop", "unmask",
             "unmasked", "mute", "micSetup", "micArmed", "micOff", "micMask",
             "micClear", "join", "end"}
  /\ kind \in 1 .. 2 /\ held \subseteq Irqs /\ {ending, deleted} \subseteq BOOLEAN
  /\ playing \in 0 .. 2 /\ recording \in 0 .. 2
  /\ {sampleCB, streamCB, recordCB} \subseteq BOOLEAN
  /\ {writePos, streamBuf, readPos, recordBuf, dacHalf, micHalf} \subseteq Halves
  /\ irqEnable \subseteq Irqs /\ dacStatus \subseteq Irqs
  /\ dac \in 0 .. 2 /\ mic \in 0 .. 2
  /\ {muted, dacStop, micIrq, micStatus} \subseteq BOOLEAN
  /\ events \subseteq Serves \cup {"stopThread"} /\ hand \subseteq Serves \cup {"stopThread"}
  /\ tpc \in {"wait", "clear", "serve", "call", "gone"}
  /\ calling \in Serves \cup {"none"}

\* Audio_Init
Init ==
  /\ pc = "idle" /\ kind = 1 /\ held = {} /\ ending = FALSE /\ deleted = FALSE
  /\ playing = 0 /\ sampleCB = FALSE /\ streamCB = FALSE
  /\ writePos = 0 /\ streamBuf = 0
  /\ recording = 0 /\ recordCB = FALSE /\ readPos = 0 /\ recordBuf = 0
  /\ irqEnable = {} /\ muted = TRUE
  /\ dac = 0 /\ dacStatus = {} /\ dacHalf = 0 /\ dacStop = FALSE
  /\ micIrq = FALSE /\ mic = 0 /\ micStatus = FALSE /\ micHalf = 0
  /\ events = {} /\ tpc = "wait" /\ hand = {} /\ calling = "none"
  /\ owed = {} /\ missed = {} /\ quiet = {} /\ starts = 0 /\ hurried = 0

(************************* The sound hardware *****************************)

AtRest == tpc = "wait" /\ events = {}

\* Half a buffer takes longer than a callback, but for some.
Hurry ==
  /\ AtRest \/ hurried < MaxHurried
  /\ hurried' = IF AtRest THEN hurried ELSE hurried + 1

\* A sample has run out, or the DAC goes over to the other half of a stream. It
\* is not a whole half ahead of a handler that is enabled.
DacAlert ==
  /\ dac # 0 /\ dacStatus \cap irqEnable = {}
  /\ dacStatus' = dacStatus \cup {"alert"}
  /\ IF dac = 1
     THEN dac' = 0 /\ UNCHANGED <<dacHalf, missed, hurried>>
     ELSE /\ Hurry /\ dacHalf' = 1 - dacHalf /\ dac' = dac
          /\ missed' = IF calling = "playAlert" \/ "playAlert" \in owed
                       THEN missed \cup {"playAlert"} ELSE missed \ {"playAlert"}
  /\ UNCHANGED <<main, play, record, regs, dacStop, micr, thread, owed, quiet, starts>>

DacStops ==
  /\ dacStop
  /\ dac' = 0 /\ dacStop' = FALSE /\ dacStatus' = dacStatus \cup {"stop"}
  /\ UNCHANGED <<main, play, record, regs, dacHalf, micr, thread, hist>>

MicAlert ==
  /\ mic # 0 /\ ~(micStatus /\ micIrq)
  /\ micStatus' = TRUE
  /\ IF mic = 1
     THEN mic' = 0 /\ UNCHANGED <<micHalf, missed, hurried>>
     ELSE /\ Hurry /\ micHalf' = 1 - micHalf /\ mic' = mic
          /\ missed' = IF calling = "recAlert" \/ "recAlert" \in owed
                       THEN missed \cup {"recAlert"} ELSE missed \ {"recAlert"}
  /\ UNCHANGED <<main, play, record, regs, sound, micIrq, thread, owed, quiet, starts>>

(************************ The interrupt handlers **************************)

AudioPending == dacStatus \cap irqEnable # {}
MicPending == micStatus /\ micIrq

(* Variant: a position does not go back to the first half. *)
OtherHalf_NoWrap(pos) == pos + 1

\* Where a position goes at the end of its half.
OtherHalf(pos) == 1 - pos

\* Both interrupts may be pending, the alert is dealt with first.
AudioIRQ ==
  LET alert == "alert" \in dacStatus
      ended == alert /\ playing = 1
      half  == alert /\ playing = 2
      stop  == "stop" \in dacStatus /\ playing # 0 /\ ~ended
  IN /\ AudioPending
     /\ dacStatus' = {}
     /\ playing' = IF ended \/ stop THEN 0 ELSE playing
     /\ irqEnable' = IF ended THEN {} ELSE irqEnable
     /\ muted' = (muted \/ ended)
     /\ events' = events \cup (IF ended THEN {"playEnd"} ELSE {})
                         \cup (IF half THEN {"playAlert"} ELSE {})
     /\ owed' = (IF ended THEN owed \cup {"playEnd"}
                 ELSE IF stop THEN owed \ {"playAlert"}
                 ELSE IF half THEN owed \cup {"playAlert"} ELSE owed)
     /\ streamBuf' = IF half THEN writePos ELSE streamBuf
     /\ writePos' = IF half THEN OtherHalf(writePos) ELSE writePos
     /\ sampleCB' = (sampleCB /\ ~stop) /\ streamCB' = (streamCB /\ ~stop)
     /\ UNCHANGED <<main, record, dac, dacHalf, dacStop, micr, tpc, hand,
                    calling, missed, quiet, starts, hurried>>

MicIRQ ==
  LET ended == recording = 1
      half  == recording = 2
  IN /\ MicPending
     /\ micStatus' = FALSE
     /\ recording' = IF ended THEN 0 ELSE recording
     /\ micIrq' = ~ended /\ mic' = IF ended THEN 0 ELSE mic
     /\ recordBuf' = IF half THEN readPos ELSE 0
     /\ readPos' = IF half THEN OtherHalf(readPos) ELSE readPos
     /\ events' = events \cup (IF ended THEN {"recEnd"} ELSE {})
                         \cup (IF half THEN {"recAlert"} ELSE {})
     /\ owed' = owed \cup (IF ended THEN {"recEnd"} ELSE {})
                     \cup (IF half THEN {"recAlert"} ELSE {})
     /\ UNCHANGED <<main, play, recordCB, regs, sound, micHalf, tpc, hand, calling,
                    missed, quiet, starts, hurried>>

ThreadsRun == ~AudioPending /\ ~MicPending

(***************************** The audio thread ***************************)

Wait ==
  /\ ThreadsRun /\ tpc = "wait" /\ events # {}
  /\ hand' = events
  /\ tpc' = IF "stopThread" \in events THEN "gone" ELSE "clear"
  /\ UNCHANGED <<main, play, record, regs, sound, micr, events, calling, hist>>

(* Variant: every event is cleared, not those it took. *)
Clear_All ==
  /\ ThreadsRun /\ tpc = "clear"
  /\ events' = {} /\ tpc' = "serve"
  /\ UNCHANGED <<main, play, record, regs, sound, micr, hand, calling, hist>>

\* EventMask_Clear
Clear ==
  /\ ThreadsRun /\ tpc = "clear"
  /\ events' = events \ hand /\ tpc' = "serve"
  /\ UNCHANGED <<main, play, record, regs, sound, micr, hand, calling, hist>>

\* The event it serves next, in the order of the code.
First ==
  CASE "playEnd" \in hand   -> "playEnd"
    [] "playAlert" \in hand -> "playAlert"
    [] "recEnd" \in hand    -> "recEnd"
    [] "recAlert" \in hand  -> "recAlert"
    [] OTHER                -> "none"

Callback(e) ==
  CASE e = "playEnd"   -> sampleCB
    [] e = "playAlert" -> streamCB
    [] OTHER           -> recordCB

\* A callback is called with the buffer as it is now.
Serve ==
  /\ ThreadsRun /\ tpc = "serve" /\ hand # {}
  /\ LET e == First IN
     /\ hand' = hand \ {e}
     /\ IF Callback(e)
        THEN calling' = e /\ tpc' = "call" /\ owed' = owed \ {e}
        ELSE UNCHANGED <<calling, tpc, owed>>
  /\ UNCHANGED <<main, play, record, regs, sound, micr, events, missed, quiet, starts, hurried>>

\* The callback returns; that of an end is forgotten.
Return ==
  /\ ThreadsRun /\ tpc = "call"
  /\ calling' = "none" /\ tpc' = "serve"
  /\ sampleCB' = (sampleCB /\ calling # "playEnd")
  /\ recordCB' = (recordCB /\ calling # "recEnd")
  /\ UNCHANGED <<main, playing, streamCB, writePos, streamBuf, recording, readPos,
                 recordBuf, regs, sound, micr, events, hand, hist>>

Served ==
  /\ ThreadsRun /\ tpc = "serve" /\ hand = {}
  /\ tpc' = "wait"
  /\ UNCHANGED <<main, play, record, regs, sound, micr, events, hand, calling, hist>>

AudioThreadFunc == Wait \/ Clear \/ Serve \/ Return \/ Served

(************************** The program's thread **************************)

(* Variant: a callback waits, and the program's thread runs meanwhile. *)
MainRuns_InCallback == ThreadsRun /\ (AtRest \/ tpc \in {"gone", "call"})

MainRuns == ThreadsRun /\ (AtRest \/ tpc = "gone")

Goto(l) == pc' = l /\ UNCHANGED <<kind, held, ending, deleted>>

\* Audio_PlaySample and Audio_StartStream: which, the check, SetupAudioRegs
Play(k) ==
  /\ MainRuns /\ pc = "idle" /\ playing = 0 /\ ~dacStop /\ starts < MaxStarts
  /\ starts' = starts + 1
  /\ irqEnable' = Irqs /\ muted' = FALSE
  /\ kind' = k
  /\ pc' = "setup"
  /\ UNCHANGED <<held, ending, deleted, play, record, sound, micr, thread, owed, missed, quiet, hurried>>

(* Variant: a stream goes on at the half the last one stopped at. *)
Arm_KeepsPos ==
  /\ MainRuns /\ pc = "setup"
  /\ playing' = kind
  /\ IF kind = 1 THEN sampleCB' = TRUE /\ UNCHANGED <<streamCB, writePos>>
     ELSE streamCB' = TRUE /\ UNCHANGED <<sampleCB, writePos>>
  /\ quiet' = quiet \ {"play"}
  /\ Goto("armed")
  /\ UNCHANGED <<streamBuf, record, regs, sound, micr, thread, owed, missed, starts, hurried>>

Arm ==
  /\ MainRuns /\ pc = "setup"
  /\ playing' = kind
  /\ IF kind = 1 THEN sampleCB' = TRUE /\ UNCHANGED <<streamCB, writePos>>
     ELSE streamCB' = TRUE /\ writePos' = 0 /\ UNCHANGED sampleCB
  /\ quiet' = quiet \ {"play"}
  /\ Goto("armed")
  /\ UNCHANGED <<streamBuf, record, regs, sound, micr, thread, owed, missed, starts, hurried>>

\* REG_AUDIO_PLAY_END is written: the hardware plays.
Go ==
  /\ MainRuns /\ pc = "armed"
  /\ dac' = kind /\ dacHalf' = 0 /\ missed' = missed \ {"playAlert"}
  /\ Goto("idle")
  /\ UNCHANGED <<play, record, regs, dacStatus, dacStop, micr, thread, owed, quiet, starts, hurried>>

\* Audio_Stop. What follows it in Audio_DeInit:
AfterStop == IF ending THEN "micOff" ELSE "idle"

Stop ==
  /\ MainRuns /\ pc = "idle" /\ playing # 0
  /\ Goto("mask")
  /\ UNCHANGED <<play, record, regs, sound, micr, thread, hist>>

\* IRQ_ENABLE &= ~AUDIO_IRQ_ALERT: read, then written.
ReadEnable ==
  /\ MainRuns /\ pc \in {"mask", "unmask"}
  /\ held' = irqEnable /\ pc' = IF pc = "mask" THEN "masked" ELSE "unmasked"
  /\ UNCHANGED <<kind, ending, deleted, play, record, regs, sound, micr, thread, hist>>

(* Variant: both interrupts are disabled before the hardware has stopped. *)
MaskAlert_Both ==
  /\ MainRuns /\ pc = "masked"
  /\ irqEnable' = held \ Irqs
  /\ Goto("ask")
  /\ UNCHANGED <<play, record, muted, sound, micr, thread, hist>>

MaskAlert ==
  /\ MainRuns /\ pc = "masked"
  /\ irqEnable' = held \ {"alert"}
  /\ Goto("ask")
  /\ UNCHANGED <<play, record, muted, sound, micr, thread, hist>>

AskStop ==
  /\ MainRuns /\ pc = "ask"
  /\ dacStop' = TRUE
  /\ Goto("loop")
  /\ UNCHANGED <<play, record, regs, dac, dacStatus, dacHalf, micr, thread, hist>>

\* while (Playing) WaitForIRQ()
Stopped ==
  /\ MainRuns /\ pc = "loop" /\ playing = 0
  /\ Goto("unmask")
  /\ UNCHANGED <<play, record, regs, sound, micr, thread, hist>>

MaskStop ==
  /\ MainRuns /\ pc = "unmasked"
  /\ irqEnable' = held \ {"stop"}
  /\ Goto("mute")
  /\ UNCHANGED <<play, record, muted, sound, micr, thread, hist>>

(* Variant: a playback that was stopped is not muted. *)
Mute_Not ==
  /\ MainRuns /\ pc = "mute"
  /\ quiet' = quiet \cup {"play"}
  /\ Goto(AfterStop)
  /\ UNCHANGED <<play, record, regs, sound, micr, thread, owed, missed, starts, hurried>>

Mute ==
  /\ MainRuns /\ pc = "mute"
  /\ muted' = TRUE
  /\ quiet' = quiet \cup {"play"}
  /\ Goto(AfterStop)
  /\ UNCHANGED <<play, record, irqEnable, sound, micr, thread, owed, missed, starts, hurried>>

\* Mic_RecordSample and Mic_StartRecord: which, the check, SetupMicRegs
Record(k) ==
  /\ MainRuns /\ pc = "idle" /\ recording = 0 /\ starts < MaxStarts
  /\ starts' = starts + 1
  /\ micStatus' = FALSE /\ micIrq' = TRUE
  /\ kind' = k
  /\ pc' = "micSetup"
  /\ UNCHANGED <<held, ending, deleted, play, record, regs, sound, mic, micHalf, thread,
                 owed, missed, quiet, hurried>>

ArmMic ==
  /\ MainRuns /\ pc = "micSetup"
  /\ recording' = kind /\ recordCB' = TRUE
  /\ readPos' = IF kind = 2 THEN 0 ELSE readPos
  /\ quiet' = quiet \ {"rec"}
  /\ Goto("micArmed")
  /\ UNCHANGED <<play, recordBuf, regs, sound, micr, thread, owed, missed, starts, hurried>>

GoMic ==
  /\ MainRuns /\ pc = "micArmed"
  /\ mic' = kind /\ micHalf' = 0 /\ missed' = missed \ {"recAlert"}
  /\ Goto("idle")
  /\ UNCHANGED <<play, record, regs, sound, micIrq, micStatus, thread, owed, quiet, starts, hurried>>

\* Mic_Stop. What follows it in Audio_DeInit:
AfterMicStop == IF ending THEN "join" ELSE "idle"

MicStop ==
  /\ MainRuns
  /\ (pc = "idle" /\ recording # 0) \/ pc = "micOff"
  /\ IF recording = 0
     THEN Goto(AfterMicStop) /\ UNCHANGED mic
     ELSE Goto("micMask") /\ mic' = 0
  /\ UNCHANGED <<play, record, regs, sound, micIrq, micStatus, micHalf, thread, hist>>

MaskMic ==
  /\ MainRuns /\ pc = "micMask"
  /\ micIrq' = FALSE /\ micStatus' = FALSE
  /\ Goto("micClear")
  /\ UNCHANGED <<play, record, regs, sound, mic, micHalf, thread, hist>>

ClearMic ==
  /\ MainRuns /\ pc = "micClear"
  /\ recording' = 0 /\ recordCB' = FALSE
  /\ quiet' = quiet \cup {"rec"}
  /\ Goto(AfterMicStop)
  /\ UNCHANGED <<play, readPos, recordBuf, regs, sound, micr, thread, owed, missed, starts, hurried>>

(* Variant: a recording is not stopped. *)
DeInit_KeepsMic ==
  /\ MainRuns /\ pc = "idle" /\ ~ending
  /\ ending' = TRUE
  /\ pc' = IF playing # 0 THEN "mask" ELSE "join"
  /\ UNCHANGED <<kind, held, deleted, play, record, regs, sound, micr, thread, hist>>

\* Audio_DeInit
DeInit ==
  /\ MainRuns /\ pc = "idle" /\ ~ending
  /\ ending' = TRUE
  /\ pc' = IF playing # 0 THEN "mask" ELSE "micOff"
  /\ UNCHANGED <<kind, held, deleted, play, record, regs, sound, micr, thread, hist>>

\* The thread is told to stop and waited for, and the event mask deleted.
Join ==
  /\ MainRuns /\ pc = "join"
  /\ IF tpc = "gone"
     THEN deleted' = TRUE /\ pc' = "end" /\ UNCHANGED events
     ELSE events' = events \cup {"stopThread"} /\ UNCHANGED <<deleted, pc>>
  /\ UNCHANGED <<kind, held, ending, play, record, regs, sound, micr, tpc, hand, calling, hist>>

Main ==
  \/ \E k \in 1 .. 2 : Play(k) \/ Record(k)
  \/ Arm \/ Go \/ Stop \/ ReadEnable \/ MaskAlert \/ AskStop \/ Stopped \/ MaskStop
  \/ Mute \/ ArmMic \/ GoMic \/ MicStop \/ MaskMic \/ ClearMic \/ DeInit \/ Join

\* What runs before the program's thread may.
Software == AudioIRQ \/ MicIRQ \/ AudioThreadFunc

Next == DacAlert \/ DacStops \/ MicAlert \/ Software \/ Main

(****************************** Properties ********************************)

\* No callback comes after the call that stopped its playback or recording has
\* returned, for as long as none is started again: the buffers may be freed.
QuietAfterStop ==
  /\ "play" \in quiet => calling \notin {"playEnd", "playAlert"}
  /\ "rec" \in quiet => calling \notin {"recEnd", "recAlert"}

\* Between two calls, with nothing played, the sound is muted and its interrupts
\* are disabled, though both the handler and the thread that stops a playback
\* read, change and write the same registers.
SilentWhenIdle == (pc = "idle" /\ playing = 0) => (muted /\ irqEnable = {})

\* Every alert that counts is still known to the audio thread, with the callback
\* it is for, until that is called: an event that comes while the thread takes
\* others is not lost.
AlertsKept == \A e \in owed : e \in events \cup hand /\ Callback(e)

\* The half of a stream's buffer its callback gets is the one the hardware is not
\* at, whatever was stopped and started before, unless the callback before it
\* took a whole half.
RightHalf ==
  /\ (calling = "playAlert" /\ "playAlert" \notin missed /\ "playAlert" \notin owed
      /\ dac # 0 /\ "alert" \notin dacStatus)
     => streamBuf # dacHalf
  /\ (calling = "recAlert" /\ "recAlert" \notin missed /\ "recAlert" \notin owed
      /\ mic # 0 /\ ~micStatus)
     => recordBuf # micHalf

\* Once the event mask is deleted no handler signals it and no thread waits on it.
EventAlive ==
  deleted => playing = 0 /\ recording = 0 /\ tpc = "gone"

\* Audio_Stop returns: the STOP interrupt it waits for is never disabled by then.
StopEnds == (pc = "loop") ~> (pc # "loop")
=============================================================================
