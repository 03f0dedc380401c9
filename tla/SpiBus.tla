-------------------------------- MODULE SpiBus --------------------------------
(* The serial bus of the gamepad and the two devices on it: wup/spi.c over   *)
(* SPDMA channel 0 (wup/dma.c), the flash memory (wup/flash.c) and the       *)
(* microcontroller (wup/uic.c). Threads call the flash and the               *)
(* microcontroller, any two at once; the mutexes are those of thread.c.      *)
(*                                                                           *)
(* A call is the sequence of steps its code takes, each of them one register *)
(* write, wait or call of the kernel; the functions below give these         *)
(* sequences, the ones they call put in where they are called. A handler     *)
(* runs before the next step of any thread.                                  *)
(*                                                                           *)
(* The devices are external: the flash executes what it was sent when it is  *)
(* deselected, refuses what a flash refuses, and is busy for a while after a *)
(* program or an erase; the microcontroller is busy after its EEPROM's write *)
(* enable was taken back.                                                    *)
EXTENDS Integers, Sequences

CONSTANTS Threads,
          Calls,      \* the calls a thread may make: <<name, address, length>>
          Page,       \* bytes of a page (0x100)
          Size,       \* bytes of the flash, one sector
          MaxCalls    \* bound: calls made

VARIABLES
  todo,      \* the steps each thread has left of its call; the call's name;
  called,    \* how many calls were made
  calls,
  lock,      \* lock[m][t]: how often t holds the mutex of flash.c or of spi.c
  addrMode,  \* AddrMode
  device,    \* REG_SPI_DEVICE_SEL while selected
  dma,       \* SPDMA channel 0: idle, at work, or its interrupt is pending
  dmaEvent,  \* its bit of IRQEvent in dma.c
  shift,     \* external: what is still being shifted out
  writeIrq, spiEnable,
             \* the WRITE bits of REG_SPI_IRQ_STATUS and REG_SPI_IRQ_ENABLE
  event,     \* the WRITE bit of IRQEvent in spi.c
  got,       \* external: what the selected device was sent
  status,    \* the status read last
  chip,      \* external: the flash's latches and addressing
  mem,       \* external: its contents
  uicBusy,   \* external: the microcontroller writes its EEPROM
  want,      \* history: the contents if each call had taken effect at once
  refused    \* history: a device was sent what it does not take

soft   == <<todo, called, calls, lock, addrMode, want>>
hard   == <<device, dma, dmaEvent, shift, writeIrq, spiEnable, event, got, status>>
ext    == <<chip, mem, uicBusy, refused>>
vars   == <<soft, hard, ext>>

Nothing == <<>>
Addresses == 0 .. Size - 1
Mutexes == {"flash", "bus"}

(************************* What the functions do **************************)

Step(op) == <<<<op, Nothing>>>>

\* SPI_Write, with SPDMA_Transfer and SPDMA_Wait
(* Variant: the event of the write before is left set. *)
SPI_Write_StaleEvent(x) ==
  Step("enable") \o <<<<"send", x>>>> \o Step("dmaWait") \o Step("wait") \o Step("disable")

SPI_Write(x) ==
  Step("clear") \o Step("enable") \o <<<<"send", x>>>> \o Step("dmaWait")
    \o Step("wait") \o Step("disable")

\* SPI_Read
SPI_Read == Step("receive") \o Step("dmaWait")

Acquire(m) == <<<<"acquire", m>>>>
Release(m) == <<<<"release", m>>>>

SPI_Start(d) == Acquire("bus") \o <<<<"select", d>>>>
SPI_Finish   == Step("deselect") \o Release("bus")

Transaction(d, body) == SPI_Start(d) \o body \o SPI_Finish

\* A command alone, and one with an address of the width AddrMode says when it
\* is sent.
Command(c)   == SPI_Write(<<c>>)
Addressed(c, a) == SPI_Write(<<c, a>>)

Flash_WaitForStatus(wel, wip) ==
  Transaction("flash", Command("status") \o <<<<"poll", <<wel, wip>>>>>>)

Flash_WriteEnable ==
  Acquire("flash") \o Transaction("flash", Command("wren"))
    \o Flash_WaitForStatus(TRUE, FALSE) \o Release("flash")

Flash_WriteDisable ==
  Acquire("flash") \o Transaction("flash", Command("wrdi"))
    \o Flash_WaitForStatus(FALSE, FALSE) \o Release("flash")

Flash_Set4ByteAddr(val) ==
  Acquire("flash") \o Flash_WaitForStatus(FALSE, FALSE) \o Flash_WriteEnable
    \o Transaction("flash", SPI_Write(<<"mode", val>>))
    \o Flash_WriteDisable \o <<<<"addrMode", val>>>> \o Release("flash")

Flash_ReadID == Transaction("flash", Command("id") \o SPI_Read)

\* The chunks of a read are read by one transaction.
Flash_Read(a) ==
  Acquire("flash") \o Transaction("flash", Addressed("read", a) \o SPI_Read)
    \o Release("flash")

\* Flash_EraseSector and Flash_EraseSubsector
Flash_Erase(a) ==
  Acquire("flash") \o Flash_WaitForStatus(FALSE, FALSE) \o Flash_WriteEnable
    \o Transaction("flash", Addressed("erase", a))
    \o Flash_WaitForStatus(FALSE, FALSE) \o Release("flash")

(* Variant: nothing waits until the page before is programmed. *)
Flash_PageProgram_NoWait(a, data) ==
  Acquire("flash") \o Flash_WriteEnable
    \o Transaction("flash", Addressed("program", a) \o SPI_Write(<<"data">> \o data))
    \o Release("flash")

Flash_PageProgram(a, data) ==
  Acquire("flash") \o Flash_WaitForStatus(FALSE, FALSE) \o Flash_WriteEnable
    \o Transaction("flash", Addressed("program", a) \o SPI_Write(<<"data">> \o data))
    \o Release("flash")

(* Variant: a chunk is a page long wherever it begins. *)
Chunk_Page(a, left) == IF Page > left THEN left ELSE Page

\* What Flash_Write gives to the next Flash_PageProgram: up to the page's end.
Chunk(a, left) ==
  IF Page - (a % Page) > left THEN left ELSE Page - (a % Page)

\* Flash_Write; byte k of t's data is <<t, k>>.
Flash_Write(t, a, len) ==
  LET from[pos \in 0 .. len] ==
        IF pos = len THEN <<>>
        ELSE LET n == Chunk(a + pos, len - pos)
             IN Flash_PageProgram(a + pos, [k \in 1 .. n |-> <<t, pos + k>>])
                  \o from[pos + n]
  IN Acquire("flash") \o from[0] \o Release("flash")

\* UIC_SendCommand, with data out and in; its delays are left out.
UIC_SendCommand(c) ==
  Transaction("uic", Command(c) \o SPI_Write(<<"data">>) \o SPI_Read)

(* Variant: the bus is not kept while the EEPROM is busy. *)
UIC_WriteDisable_Unlocked == UIC_SendCommand("disable") \o Step("sleep")

\* The bus is locked until the EEPROM must be done.
UIC_WriteDisable ==
  Acquire("bus") \o UIC_SendCommand("disable") \o Step("sleep") \o Release("bus")

Steps(t, c) ==
  CASE c[1] = "write"  -> Flash_Write(t, c[2], c[3])
    [] c[1] = "erase"  -> Flash_Erase(c[2])
    [] c[1] = "read"   -> Flash_Read(c[2])
    [] c[1] = "id"     -> Flash_ReadID
    [] c[1] = "mode"   -> Flash_Set4ByteAddr(c[2])
    [] c[1] = "uic"    -> UIC_SendCommand("state")
    [] c[1] = "uicEnd" -> UIC_WriteDisable

(******************************* The state ********************************)

TypeOK ==
  /\ \A t \in Threads : todo[t] = Nothing \/ todo[t][1][1] # "none"
  /\ called \in [Threads -> Calls \cup {Nothing}] /\ calls \in 0 .. MaxCalls
  /\ lock \in [Mutexes -> [Threads -> 0 .. 3]]
  /\ \A m \in Mutexes : \A t, u \in Threads : lock[m][t] = 0 \/ lock[m][u] = 0 \/ t = u
  /\ addrMode \in 0 .. 1 /\ device \in {"none", "flash", "uic"}
  /\ dma \in {"idle", "send", "receive", "done"}
  /\ {dmaEvent, writeIrq, spiEnable, event, uicBusy, refused} \subseteq BOOLEAN
  /\ status \in BOOLEAN \X BOOLEAN
  /\ chip \in [wel : BOOLEAN, wip : BOOLEAN, mode : 0 .. 1]
  /\ DOMAIN mem = Addresses /\ DOMAIN want = Addresses

\* After Flash_Init
Init ==
  /\ todo = [t \in Threads |-> Nothing] /\ called = [t \in Threads |-> Nothing]
  /\ calls = 0
  /\ lock = [m \in Mutexes |-> [t \in Threads |-> 0]]
  /\ addrMode = 1 /\ device = "none" /\ dma = "idle" /\ dmaEvent = FALSE
  /\ shift = Nothing /\ writeIrq = FALSE /\ spiEnable = FALSE /\ event = FALSE
  /\ got = Nothing /\ status = <<FALSE, FALSE>>
  /\ chip = [wel |-> FALSE, wip |-> FALSE, mode |-> 1]
  /\ mem = [a \in Addresses |-> Nothing] /\ want = mem
  /\ uicBusy = FALSE /\ refused = FALSE

(****************************** The hardware ******************************)

\* The DMA has handed over all it sends, or has got all it receives.
DmaDone ==
  /\ dma \in {"send", "receive"}
  /\ dma' = "done"
  /\ UNCHANGED <<soft, device, dmaEvent, shift, writeIrq, spiEnable, event, got,
                 status, ext>>

\* The last byte has been shifted out: the device has all of it.
ShiftDone ==
  /\ shift # Nothing /\ dma # "send"
  /\ got' = Append(got, shift) /\ shift' = Nothing
  /\ writeIrq' = TRUE
  /\ refused' = (refused \/ (device = "uic" /\ uicBusy))
  /\ UNCHANGED <<soft, device, dma, dmaEvent, spiEnable, event, status, chip, mem,
                 uicBusy>>

FlashDone ==
  /\ chip.wip
  /\ chip' = [chip EXCEPT !.wip = FALSE, !.wel = FALSE]
  /\ UNCHANGED <<soft, hard, mem, uicBusy, refused>>

EepromDone ==
  /\ uicBusy
  /\ uicBusy' = FALSE
  /\ UNCHANGED <<soft, hard, chip, mem, refused>>

\* What the flash does with what it was sent, at the end of the transaction.
Execute ==
  LET cmd  == got[1][1]
      a    == got[1][2]
      from == a - (a % Page)
      n    == Len(got[2]) - 1
      ok   == chip.wel /\ ~chip.wip
      wide == got[1][3] = chip.mode
  IN CASE cmd = "wren" -> chip' = [chip EXCEPT !.wel = ~chip.wip \/ @] /\ UNCHANGED <<mem, refused>>
       [] cmd = "wrdi" -> chip' = [chip EXCEPT !.wel = chip.wip /\ @] /\ UNCHANGED <<mem, refused>>
       [] cmd = "mode" -> chip' = [chip EXCEPT !.mode = a] /\ refused' = (refused \/ ~ok) /\ UNCHANGED mem
       [] cmd = "read" -> refused' = (refused \/ ~wide) /\ UNCHANGED <<chip, mem>>
       [] cmd = "erase" ->
            /\ chip' = [chip EXCEPT !.wip = TRUE] /\ refused' = (refused \/ ~ok \/ ~wide)
            /\ mem' = [x \in Addresses |-> Nothing]
       [] cmd = "program" ->
            /\ chip' = [chip EXCEPT !.wip = TRUE] /\ refused' = (refused \/ ~ok \/ ~wide)
            /\ mem' = [x \in Addresses |->
                         IF \E k \in 1 .. n : x = from + ((a + k - 1) % Page)
                         THEN got[2][1 + (CHOOSE k \in 1 .. n : x = from + ((a + k - 1) % Page))]
                         ELSE mem[x]]
       [] OTHER -> UNCHANGED <<chip, mem, refused>>

(****************************** The handlers ******************************)

SPDMA0_IRQHandler ==
  /\ dma = "done"
  /\ dma' = "idle" /\ dmaEvent' = TRUE
  /\ UNCHANGED <<soft, device, shift, writeIrq, spiEnable, event, got, status, ext>>

SPI_IRQHandler ==
  /\ writeIrq /\ spiEnable
  /\ writeIrq' = FALSE /\ event' = TRUE
  /\ UNCHANGED <<soft, device, dma, dmaEvent, shift, spiEnable, got, status, ext>>

(****************************** The threads *******************************)

\* t takes its next step, which is an op.
Takes(t, op) ==
  /\ dma # "done" /\ ~(writeIrq /\ spiEnable)
  /\ todo[t] # Nothing /\ todo[t][1][1] = op
Arg(t) == todo[t][1][2]
Done(t) == todo' = [todo EXCEPT ![t] = Tail(@)]

Same == UNCHANGED <<called, calls, addrMode, want>>

\* A write counts as made when it has locked the flash: no other comes between.
Effect(t) ==
  LET c == called[t] IN
  CASE c[1] = "write" -> [a \in Addresses |-> IF a \in c[2] .. c[2] + c[3] - 1
                                              THEN <<t, a - c[2] + 1>> ELSE want[a]]
    [] c[1] = "erase" -> [a \in Addresses |-> Nothing]
    [] OTHER          -> want

Call(t) == \E c \in Calls :
  /\ todo[t] = Nothing
  /\ calls < MaxCalls /\ calls' = calls + 1
  /\ called' = [called EXCEPT ![t] = c]
  /\ todo' = [todo EXCEPT ![t] = Steps(t, c)]
  /\ UNCHANGED <<lock, addrMode, want, hard, ext>>

AcquireMutex(t) ==
  /\ Takes(t, "acquire")
  /\ \A u \in Threads \ {t} : lock[Arg(t)][u] = 0
  /\ lock' = [lock EXCEPT ![Arg(t)][t] = @ + 1]
  /\ want' = IF Arg(t) = "flash" /\ lock["flash"][t] = 0 THEN Effect(t) ELSE want
  /\ Done(t)
  /\ UNCHANGED <<called, calls, addrMode, hard, ext>>

ReleaseMutex(t) ==
  /\ Takes(t, "release")
  /\ lock' = [lock EXCEPT ![Arg(t)][t] = @ - 1]
  /\ Done(t) /\ Same /\ UNCHANGED <<hard, ext>>

Select(t) ==
  /\ Takes(t, "select")
  /\ device' = Arg(t) /\ got' = Nothing
  /\ Done(t) /\ Same
  /\ UNCHANGED <<lock, dma, dmaEvent, shift, writeIrq, spiEnable, event, status, ext>>

Deselect(t) ==
  /\ Takes(t, "deselect")
  /\ device' = "none"
  /\ Done(t) /\ Same
  /\ IF device = "flash" /\ got # Nothing THEN Execute ELSE UNCHANGED <<chip, mem, refused>>
  /\ uicBusy' = (uicBusy \/ (device = "uic" /\ got # Nothing /\ got[1] = <<"disable">>))
  /\ UNCHANGED <<lock, dma, dmaEvent, shift, writeIrq, spiEnable, event, got, status>>

\* The steps of SPI_Write before the transfer: the event's bit, the interrupt.
Clear(t) ==
  /\ Takes(t, "clear") /\ event' = FALSE
  /\ Done(t) /\ Same
  /\ UNCHANGED <<lock, device, dma, dmaEvent, shift, writeIrq, spiEnable, got, status, ext>>

Enable(t) ==
  /\ Takes(t, "enable") \/ Takes(t, "disable")
  /\ spiEnable' = Takes(t, "enable")
  /\ Done(t) /\ Same
  /\ UNCHANGED <<lock, device, dma, dmaEvent, shift, writeIrq, event, got, status, ext>>

\* SPDMA_Transfer: the DMA must be idle, or have said so.
Send(t) ==
  /\ Takes(t, "send") /\ (dma = "idle" \/ dmaEvent)
  /\ dma' = "send" /\ dmaEvent' = FALSE
  /\ shift' = IF Len(Arg(t)) = 2 /\ Arg(t)[1] # "mode" /\ Arg(t)[1] # "data"
              THEN Append(Arg(t), addrMode) ELSE Arg(t)
  /\ Done(t) /\ Same
  /\ UNCHANGED <<lock, device, writeIrq, spiEnable, event, got, status, ext>>

Receive(t) ==
  /\ Takes(t, "receive") /\ (dma = "idle" \/ dmaEvent)
  /\ dma' = "receive" /\ dmaEvent' = FALSE
  /\ status' = <<chip.wel, chip.wip>>
  /\ Done(t) /\ Same
  /\ UNCHANGED <<lock, device, shift, writeIrq, spiEnable, event, got, ext>>

\* SPDMA_Wait
DmaWait(t) ==
  /\ Takes(t, "dmaWait") /\ (dma = "idle" \/ dmaEvent)
  /\ Done(t) /\ Same /\ UNCHANGED <<lock, hard, ext>>

EventWait(t) ==
  /\ Takes(t, "wait") /\ event
  /\ Done(t) /\ Same /\ UNCHANGED <<lock, hard, ext>>

\* The status is read until it is as it should be.
Poll(t) ==
  /\ Takes(t, "poll")
  /\ todo' = [todo EXCEPT ![t] = SPI_Read \o <<<<"test", Arg(t)>>>> \o Tail(@)]
  /\ Same /\ UNCHANGED <<lock, hard, ext>>

Test(t) ==
  /\ Takes(t, "test")
  /\ todo' = [todo EXCEPT ![t] =
                (IF status = Arg(t) THEN <<>> ELSE <<<<"poll", Arg(t)>>>>) \o Tail(@)]
  /\ Same /\ UNCHANGED <<lock, hard, ext>>

SetAddrMode(t) ==
  /\ Takes(t, "addrMode") /\ addrMode' = Arg(t)
  /\ Done(t) /\ UNCHANGED <<called, calls, want, lock, hard, ext>>

\* Thread_Sleep(140) is longer than the EEPROM takes.
Sleep(t) ==
  /\ Takes(t, "sleep") /\ ~uicBusy
  /\ Done(t) /\ Same /\ UNCHANGED <<lock, hard, ext>>

Thread(t) ==
  \/ Call(t) \/ AcquireMutex(t) \/ ReleaseMutex(t) \/ Select(t) \/ Deselect(t)
  \/ Clear(t) \/ Enable(t) \/ Send(t) \/ Receive(t) \/ DmaWait(t) \/ EventWait(t)
  \/ Poll(t) \/ Test(t) \/ SetAddrMode(t) \/ Sleep(t)

Transfer == DmaDone \/ ShiftDone \/ SPDMA0_IRQHandler \/ SPI_IRQHandler

DeviceDone == FlashDone \/ EepromDone

Next == Transfer \/ DeviceDone \/ \E t \in Threads : Thread(t)

(****************************** Properties ********************************)

\* No device is sent what it cannot take: the flash a program, an erase or a
\* change of its addressing without the write enable of its own or while it is
\* busy, or an address of another width than it expects; the microcontroller
\* anything while it writes its EEPROM.
CommandsTaken == ~refused

\* The calls of the flash take effect one after the other and whole: once nobody
\* is in one, it holds what they wrote, byte for byte, over page ends.
WritesLand ==
  (\A t \in Threads : lock["flash"][t] = 0) => mem = want

\* Nobody ends a transaction, or goes on to its next part, while something is
\* still on its way to the device.
NothingInFlight == \A t \in Threads :
  (todo[t] # Nothing /\ todo[t][1][1] \in {"select", "deselect", "receive", "enable"})
    => shift = Nothing /\ dma \notin {"send", "receive"}

\* Every call comes to its end: the two mutexes are taken in one order, no event
\* is lost, and what is waited for in the status comes.
CallsEnd ==
  (\E t \in Threads : todo[t] # Nothing) ~> (\A t \in Threads : todo[t] = Nothing)
=============================================================================
