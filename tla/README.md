# A TLA+ model of wupSNES

wupSNES is a SNES emulator that runs on the Wii U GamePad, without an operating
system: the repository holds a small firmware (`arm9/source/wup`: threads,
interrupts, drivers), the emulator on top of it (`arm9/source`), and a program
for the wifi chip's processor that renders the picture (`wifi/source`). There
are no tests; what goes wrong on the device is an interleaving of threads and
interrupts nobody can replay. The modules here model the code, TLC checks them
on small instances, and TLAPS proves the main results for every instance.

    tlc -config KernelObjects.cfg MCKernel.tla    (one run; the table is below)
    tlapm KernelProofs.tla                        (the proofs)

## The system

| Component | State | Operations | Interacts through |
|---|---|---|---|
| Thread kernel (`thread.c`, `thread_asm.s`) | current thread, 16 run queues with a cursor each, flags and wait fields of each thread, mutexes, semaphores, event masks, mailboxes, 256 timeout slots, critical section depth | Thread_*, Mutex_*, Semaphore_*, EventMask_*, Mailbox_*, Critical_*, Thread_Tick, Thread_PostIRQ | called by every driver and by interrupt handlers |
| Interrupt entry, timers, start-up (`crt0.s`, `wup.c`, `wup_asm.s`) | handler table, tick count, Timer0Flag | IRQHandler, WUP_SetIRQHandler, WUP_DelayUS/MS | calls driver handlers, then Thread_PostIRQ and Thread_Switch |
| C library locks (`newlib_lock.c`, `newlib_glue.c`) | none of their own | lock and unlock of malloc | Critical_Enter, Critical_Leave |
| SDIO host (`sdio.c`) | recursive mutex, event mask, interrupt enables, window base | SDIO_SendCommand, card register and data transfers, interrupt handler | EventMask_Wait with timeouts; Wifi_CardIRQ |
| Wifi (`wifi.c`, `wifi_ai.c`, `wifi_firmware.c`) | chip state, receive thread, packet queues | bring-up, commands, receive loop | SDIO, event mask |
| SPI, DMA, flash, I2C (`spi.c`, `dma.c`, `flash.c`, `i2c.c`) | a mutex and an event mask each | transfers | interrupts signal completion |
| Microcontroller link (`uic.c`) | power state | commands with a checksum | I2C/SPI |
| Audio (`audio.c`, `audioamp.c`) | stream buffers, callbacks, playing flags, the audio thread | play sample or stream, stop, microphone | interrupts signal the audio thread |
| Input (`input.c`) | InputData and its copy, fresh flag | Input_Scan, Input_GetData | UIC, mutex |
| Video, LCD, console (`video.c`, `lcd.c`, `console.c`) | event mask for blanking | waits for blanking | interrupts |
| 65816 core (`cpu.s`), memory map (`memory.c`, `mem_io.s`, `rom.c`) | registers, cycle count, address map, I/O registers, ROM bank cache | an instruction; reads and writes; NMI, IRQ | DMA, PPU and SPC ports |
| SNES DMA (`dma.c`) | channel registers, HDMA line counters | DMA_Enable, HDMA per line | memory and PPU ports |
| Picture processor (`ppu.c`, and `wifi/source/ppu.c`) | register file with two-write latches, VRAM, palette | port reads and writes, a frame as a command stream to the second processor | shared memory ring |
| Sound (`spc700.s`, `spc700io.c`, `dsp.c`, `dspMixer.s`) | SPC700 registers, ports, timers, voices and envelopes | port exchange with the CPU, mixing | audio stream callback |
| Glue (`main.c`, `helper.s`), firmware packer (`tools/fwpack.c`) | | | |

The firmware's threads are main (priority 8), idle (15), the audio thread (1)
and the wifi receive thread (0); 0 is the most urgent. The processor has one core.

What is hard here, and what each component must guarantee:

* **Kernel.** A wake-up is two steps: a release or signal flags the waiters
  (Flag_CheckWakeup), and a later scan of the run queues looks at the condition
  again. In between, other threads take the object, timeouts fire, bits are
  cleared and objects are deleted. The thread that is switched to then takes the
  object *without looking*. It must neither lose a wake-up nor wake a thread for
  nothing; it must clean up wait slots, WaitObject, timeout slots and flags on
  each of the four ways out of a wait (wake, timeout, deletion, termination);
  keep its queues and cursors sound; run the most urgent thread; and leave the
  timeout of a timed wait armed until that wait is over.
* **Drivers.** A request under a mutex, an interrupt that completes it, a timeout
  that races it, error paths that must undo what was done.
* **Audio, input.** Callbacks and buffers shared by interrupt handlers and threads.
* **The serial bus.** Two devices, two mutexes, events that interrupts set and the
  next transfer clears, and devices that are busy after a command has ended.
* **Emulated hardware.** Long sequences of legal port writes: latches, counters
  that wrap, DMA lengths of 0, table entries that end in the middle of a frame, lines
  and cycles that must not drift, copies of registers that go stale.

PROJECT.json lists every hazard with its source line and the properties that cover
it, or why none does.

## The plan

Done:

1. `Kernel` with its live and abstract companions; `KernelProofs`.
2. `Mailbox` on top of `Kernel`, refining `BoundedFifo`; `MailboxProofs`.
3. `Sdio`: the SD host driver with the wifi receive thread; `SdioProofs`.
4. The emulated machine: `RomCache`, with `RomCacheProofs`; `SnesDma`, refining
   `HdmaTable`, with `SnesDmaProofs`; `CpuLine`, with `CpuLineProofs`; and `Console`,
   which composes `PpuPorts`, `PpuBackground`, `DspVoice`, `SpcIo` and `MathUnit`,
   with `ConsoleProofs`.
5. The board: `Board`, which composes `Audio`, `SpiBus`, `Delay`, `Input` and, for its progress,
   `Sdio`; `BoardProofs`.

Left, in this order:

1. `WaitSlots`, the slot arrays with 16-bit masks behind the sets of `Kernel`.
2. The joypad and save RAM of the memory map, the sprites and windows of the picture
   processor.

## The runs

| Run | Module, cfg | Shows |
|---|---|---|
| `kernel` | `MCKernel`, `KernelObjects.cfg` | create, terminate, delete, join, yield, one recursive mutex (depth 2) and one semaphore, deletion while threads wait; one timeout slot for three threads. The books of waits (`Registered`) and timeouts (`NoStrayTimeout`) agree, wakes are sound, `IInv` (with the type invariant) holds, the abstract mutex and semaphore are implemented |
| `events` | `MCKernel`, `KernelEvents.cfg` | one event mask of two bits signalled and cleared from threads and interrupts; two timeout slots. No wake-up is lost, the most urgent thread runs, the queues stay linked |
| `live` | `MCKernelLive`, `KernelLive.cfg` | waits for a mutex end among equals, also while its holder sleeps; a mutex has one holder |
| `stale_timeout` | `MCKernel`, `KernelStaleTimeout.cfg` | a violation, see "Two disagreements" |
| `mailbox` | `MCMailbox`, `Mailbox.cfg` | a mailbox of two messages is a bounded queue, its ring agrees with its semaphore, and it never is "broken" |
| `sdio` | `MCSdio`, `Sdio.cfg` | the mutex balances, data move through the right window, completions belong to their request, the card's interrupt is not lost |
| `rom` | `MCRomCache`, `RomCache.cfg` | chunks, banks and pointers agree and the code's bank is in memory, for images whose banks fit the tables; the search for a chunk ends |
| `rom_wrapped` | `MCRomCache`, `RomWrapped.cfg` | a violation, see "Two disagreements" |
| `snes_dma` | `MCSnesDma`, `SnesDma.cfg` | each byte of a transfer is right and so is their number; HDMA is what the tables mean, line by line |
| `cpu_line` | `MCCpuLine`, `CpuLine.cfg` | the IRQ is scheduled as the registers ask, taken, and not twice; one NMI per vertical blank; WAI ends |
| `console` | `MCConsole`, `Console.cfg` | port latches, memory ports, the walk of a background, a voice, the SPC's clock and timers, multiplier and divider |
| `board` | `MCBoard`, `Board.cfg` | playback and recording, the serial bus, delays, input data, and the card: without faults each of its events is acknowledged |

A property named in a run may be the conjunction of parts the module names one by
one (`CallsSound`, `CacheSound`, `StopIsFinal`, ...); the type invariant of a module is
such a part. Every property is broken by at least one variant of the code, given as a
definition with the suffix of the change (`Evict_KeepsTimeouts`, `Clear_Not`) next
to the one it replaces; PROJECT.json pairs them.

## Kernel

`Kernel.tla` models `thread.c` with one action per function. A kernel call runs
with interrupts masked, so it is atomic, with one exception: it may end in
`Thread_ReqReschedule`, which switches to another thread *inside* the call. The
variable `phase` is where the processor is in this cycle: `"run"` (the current
thread runs), `"irq"` (an interrupt handler runs on top of it), `"sched"`
(Thread_Schedule and Thread_Switch come next). A thread switched out in a waiting
call remembers the call in `call[t]`; when it is switched to again, the code after the
switch is the action `ReturnMutex`, `ReturnSemaphore` or `ReturnOther`, and
interrupts stay masked until it is done (Thread_Switch keeps the I bit).

| Model | Code |
|---|---|
| `cur`, `schedReq` | CurThread, bit 0 of SchedReq |
| `queue[p]`, `rr[p]` | the list ThreadQueue[p], CurThreadPerQueue[p] |
| `waiting`, `check`, `timedOut` | Flag_Waiting, Flag_CheckWakeup, Flag_Timeout |
| `waitObj`, `waitTimeout` | WaitObject, WaitTimeout |
| `waiters[o]` | WaitThreads/WaitBitmask of an object, ExtWaitThreads of a thread |
| `mask[t]` | WaitMasks[] of the slot t occupies |
| `timeout[i]` | Timeouts[i].WaitThread, None where TimeoutBitmask has a 0 |
| `acquired`, `owner`, `count`, `val` | the fields of the objects |
| `live` | the objects that are allocated |
| `held[m][t]` | history: what Mutex_Acquire and Mutex_Release told t |

Abstractions: at most 16 threads exist, so no table of 16 slots fills up and a
table is a set (`KernelAssumption`); the length of a timeout is left open, so
`Thread_Tick` may expire any pending ones; calls that change nothing (a zero
timeout on a busy object, a bad handle) are not actions. Callers keep two rules
of any C program: they use only objects that exist, and delete an object only
when no other thread owns it (`DeleteWaited` says whether they delete it
while threads wait on it). No kernel call is made inside a critical section in
`src/`, so Thread_ReqReschedule's third branch is not reached.

`SyncObjects.tla` is what mutexes and semaphores promise, in three variables;
`Kernel` refines it under `live <- live \cap (Mutexes \cup Semas)`,
`permits <- count`.

`KernelLive.tla` adds fairness. The kernel's own: masked code runs to its end
(weak fairness of the scheduler, the returns and the interrupt exit: nothing
else is enabled there), interrupts keep coming (strong fairness of `IrqEnter`, which is
disabled while the processor is masked), and a timeout that is pending at infinitely many
ticks runs out (`TickOf`, strong). The callers': whoever holds a mutex
releases it, does not end or join a thread while holding it (`Orderly`; the
firmware's threads pair acquire and release around transfers), and equals
yield to each other, as there is no time slicing.

### Bounds

The instances have main, idle and two more threads, of which one shares main's
priority where the ring of a queue matters. Three client threads are enough for a
holder and two competing waiters, or a waiter, a signaller and a bystander whose
timeout slot is at stake; no operation touches two objects, and the `kernel` run has a
mutex and a semaphore at once only because one thread may leave the one's wait for the
other's. There are fewer timeout slots than threads, so that slots run out and are
used again. `MaxDepth` and `MaxCount` cap the depth of a mutex and the permits of a
semaphore.

### What is proved

`KernelProofs.tla` proves, for any set of at most 16 threads, any priorities and
any sets of objects:

* `Invariance`: `Spec => []IInv`;
* its parts `TypeCorrect`, `BooksAgree` (`Registered`), `NoWakeupIsLost`,
  `WakesAreSound`, `MutualExclusion` (`MutexHeld`);
* `TimeoutsAreOwned` (`NoStrayTimeout`), `PrioritiesHold` (`UrgentFirst`) and
  `QueuesAreLinked` (`QueuesSound`);
* `Refinement`: `Spec => ImplementsSync`.

The only assumption is `KernelAssumption`. The properties are not inductive
one by one: that a thread which comes back from the switch finds its object free
(`WakeSound`) needs that the scheduler looked in the same step, that a thread
inside a waiting call which no longer waits was timed out or is the one just
switched to (`Woken`), and that every exit from a wait clears the registration
(`Registered`). `CurQueued` and `InQueue` say that the running thread is alive
and that live threads are in their queue, for Queue_Remove. There is one lemma
per function of the kernel; waiting calls share `WaitForInv`, deletions
`DeleteInv`, grants `GrantedInv`, and cancellation `CancelWaitBooks`.

Two more invariants stand on `IInv`. `UrgentInv` says that outside of the scheduler no
thread is ready that is more urgent than the current one, unless a handler has asked for
a switch, which only handlers leave pending. `QueuesInv` says of each run queue that it
lists threads of its priority, each once, that its cursor is one of them whenever there
are any, and that the running thread is its queue's cursor.
The liveness property is model-checked only. No property says that every timed wait ends:
`stale_timeout` shows one that does not, and the instance of `live` keeps to callers that
neither join with a timeout nor delete what others wait for.

## Mailbox

`Mailbox.tla` is the mailbox of `thread.c` on top of `Kernel`: the ring (`data`,
`readPtr`, `writePtr`, `boxCount`) and the semaphore `CountSema` that counts it.
Its actions are the kernel's own semaphore actions conjoined with what the mailbox
does around them, as the code calls them with interrupts masked:
`Mailbox_Send` changes the ring and posts; `Mailbox_Recv` takes a message at once, or
waits, and `ReturnMailbox` is the rest of it after the switch; `Mailbox_Delete` deletes
the semaphore, may be switched away from, and frees the ring in `Mailbox_Free`.
While it is `"dying"` the other callers no longer use it (their rule, as for any freed
object; the code itself could not tell). `KernelStep` is everything else the
kernel does. `got[t]` is a history variable: the last message given to t.

`BoundedFifo.tla` is what a mailbox promises. The run `mailbox` (two client threads and
interrupt handlers, two messages, capacity 2, one timeout slot, so that the
ring wraps, fills up and empties, and receives time out) shows `RingSound`, that
"MAILBOX BROKEN" is never printed (`NeverBroken`), and the refinement. `MailboxProofs.tla`
proves all three for any capacity, messages and threads: each mailbox step is a
kernel step or none (`KernelBelow`), so that `IInv` holds below; `WakeSound` then
says that a thread the semaphore lets through finds a permit, and `RingSound` that
a permit is a message. The assumption `MailboxAssumption` leaves the mailbox's
semaphore to the mailbox, and bounds its size by the largest count.

## SDIO driver and wifi receive thread

`Sdio.tla` models `sdio.c` and `RxThreadFunc` of `wifi.c`: two threads, the main one
and the receive thread, inside of functions that call each other under one
recursive mutex. `stack[t]` is the functions thread t is inside of, each a frame with
its place (`pc`), the events it waits for, the saved enable register (`old`) and what
is left of its loop (`n`); `ret[t]` is what the last call returned.

| Model | Code |
|---|---|
| `Enter`, `Release` | Mutex_Acquire and Mutex_Release of every function |
| `SaveIrq`, `MaskIrq`, `RestoreIrq` | oldirq and REG_SD_IRQSIGNALENABLE at the start and on each way out |
| `CheckInhibit`, `ClearEvents`, `Issue` | SDIO_SendCommand up to REG_SD_COMMAND |
| `WaitReturns`, `WaitTimesOut`, `WaitDone` | SDIO_WaitForIRQ, and what the caller does with its result |
| `CardRegs*`, `CardData*`, `F1Memory*` | the Read and the Write function of that name, which differ in the direction only |
| `SetF1Base*`, `SetClocksNext` | SDIO_SetF1Base, SDIO_SetClocks |
| `signal`, `event`, `f1base` | the card's bit of the enable register, IRQEventMask, SD_F1Base |
| `rxEvent`, `rxpc` | RxEventMask (1 card, 4 ready, 8 list) and the place in RxThreadFunc |
| `cmd`, `dat`, `status`, `window`, `work` | environment: the host's two lines, its status register, the card's window and pending events |
| `faults`, `leaked`, `windowLost` | history: faults so far, acquisitions not given back, a failed write of the window |

The mutex and the event masks are used by what `Kernel` proves of them, one action per
call. Threads interleave at every access to what they share; the firmware's priorities
allow fewer orders. A pending interrupt is served before any thread goes on. The
read-modify-write of the enable register is one step: the handler that may come in
between clears the same bit, and other bits never change.

A fault is a command line stuck busy, a command or a transfer that ends with an error, a
bad response or a wait that times out; what timed out may still complete at any time.
`SDIO_ReadF1Memory` and `SDIO_WriteF1Memory` return with the mutex held when a chunk
fails (`sdio.c:917-927`, `954-964`): after that the other thread waits for ever, so
deadlock is not checked in the runs with faults, and `leaked` counts the acquisitions
`LockBalanced` allows for. A write of the window that fails leaves `SD_F1Base` and the
card in disagreement (`windowLost`), and `WindowRight` speaks of the time before.

The run `sdio` has two windows (symmetric), calls of two chunks, one kind of card event
and one fault, before or after the receive thread is started (`MaxFaults`,
`MaxEarlyFaults`). One fault is what a recovery needs, and it may come at each step of
every call. A call of two chunks changes its window in the middle.

That each event of the card is acknowledged (`CardServed`) is checked by the run `board`,
where the driver is one of the parts, with one window, calls of one chunk, one kind of event
(`"mail"`), and no faults. The fairness there: the
host ends what it began, interrupts are served, and a thread that can run again and again
does run (`Runs`, strong, because a pending interrupt disables it for a moment): the
receive thread has priority 0, the main thread runs whenever that one waits, and
Mutex_Release wakes the waiter.

`SdioProofs.tla` proves `CallsSound`, `OwnCompletion`, `CardIrqKept` and `WindowRight`
for any windows, any lengths and any number of faults. The inductive invariant
(`SdioInvariance`) says which frame may lie on which (the shape of the stacks), which
frames hold the mutex and how often, in which places the card's interrupt is masked and
what the saved enable registers contain, where a window is half written, and which
completion events may be set in which place.

## ROM cache

`RomCache.tla` is the cartridge in memory. `cart` is what `Mem_LoadROM` and
`ROM_SetupCache` compute of one of the `Images`; `pt` is the pointer table (`kind`
and `at` say what a window leads to, `slow` is its speed bit), `usage` and `status` are
`ROM_ChunkUsage` and `ROM_BankStatus`, `cur` is `ROM_CurChunk`, `misses` the
counters of `ROM_CacheMiss`, `fast` is bit 0 of 0x420D, and `req` is the bank `ROM_CacheBank`
searches a chunk for. One `Search` is one turn of its loop. The actions are the
instructions that change the program bank (`SetPBR`) or the data bank (`PLB`,
`BlockMove`), interrupts, reads of uncached banks, and the speed register.

Sizes are scaled: 16 banks stand for 0x80, with the boundaries 0x40, 0x70 and 0x7E at the
same fractions, and the buffer holds six LoROM or three HiROM banks. The images are a
headered LoROM and a HiROM larger than the buffer, a LoROM that fits, and a HiROM whose
flash offset exceeds its size. `CacheSound` says that chunks, banks and pointers are one relation
seen three ways, in every mirror; `CodeCached` is why opcode fetches may skip the
look at the pointer's kind (`cpu.s:274`). Fairness: the loop of the search runs on.

The game may go to any bank, and `ROM_CacheBank` masks it by the number of banks alone
(266). If these are more than the places of `ROM_BankStatus` the bank may lie past the
table: `StatusRead` then returns any chunk, "not cached", or a byte that is no chunk's,
and `WindowsOf` is empty as the code's loops do not run. The stores past the ends of
`ROM_BankStatus` (`StatusSet`) and, at an index no chunk has, `ROM_ChunkUsage` (`Raise`)
change memory no variable stands for, and are left out; no promise is made for
such an image. `BanksFit` is the premise of both properties, and `PrefetchCached` is
`CodeCached` without it: the run `rom_wrapped` breaks it.

`RomCacheProofs.tla` proves both for any number of banks, any size of the buffer, any
images whose banks fit the table, and any banks the game goes to (`RomInvariance`, `CachesAreSound`, `CodeStaysCached`). `RomCacheAssumption`
holds the facts about the sizes the proof needs; 0x80 banks, 64 windows a half, a
buffer of 2 MB and images below 2^23 bytes satisfy them. The lemmas on geometry say which
windows mirror which bank and that two banks share none; `BanksHeld` and `CodeHeld` carry
them through the loading and the eviction of a chunk.

## DMA and HDMA

`SnesDma.tla` is `dma.c`: `DmaByte` moves one byte of a general transfer,
`DMA_ReloadHDMA` and `DMA_DoHDMA` are the handlers of the frame and of the line, with
the channel's registers as fields. `HdmaTable.tla` is what a table means: a position
(entry and line) that moves on, and a unit of bytes on the lines where there is one.
`posOf` reads that position off the registers, and `ImplementsTable` is the
refinement, while the game switches channels on and off in the middle of frames and runs
general transfers on others. A table carries its address (`at`), and the tables of a game
lie apart in their bank (`Laid`). The instance has words of 32, a repeat bit of 4 (so
that 0x80 and 0x81 are 4 and 5), six lines, and four `Games`: direct tables (modes 0, 1 and
4), indirect ones on two channels (1 and 3), general transfers of 11 bytes (1 and 5), and
all of it together (4); `MaxStarts` bounds the writes of 0x420B. It has 572,996 states.

`SnesDmaProofs.tla` proves `TransfersRight` and `ImplementsTable` for any games, words,
modes and frames (`DmaInvariance`). `TransferInv` says that the locals of `DmaByte` are
functions of the number of bytes moved, with remainders for what wraps (`ModAdd`,
`ModCancel`). `ChannelInv` says that the registers of a channel are those of one place of its
table (`Place`) or those of a stopped channel; since the tables do not overlap,
that place is unique, and `posOf` finds it. Indirect tables have modes other than 0, because of
the address that is stepped twice (see below).

## The CPU's lines

`CpuLine.tla` is `CPU_MainLoop` and the frame of `CPU_Run`: `at` is the place, `hcount`
the cycles of the line (the upper half of snesCycles), `curh` is `IRQ_CurHMatch`. A
`Step` is one turn of the instruction loop: the check of the IRQ before, one of the
instructions that touch this state (plain, CLI and SEI, WAI, reads of 0x4210 and
0x4211, writes of 0x4200 and 0x4207 to 0x420A), and the delayed NMI. Lines have eight
cycles with the HBlank at four; a fetch takes a cycle, the rest of an instruction one
or none (a DMA never counts), entering an interrupt one. Frames have four lines with the
blank after the second; the matches are at the start, before and after the HBlank and
past the line's end. The run has 184,645 states. Fairness: the loop runs.

`CpuLineProofs.tla` proves `ScheduleRight` and the action property `InterruptsTaken` for
lines and frames of any length (`LineInvariance`). `CountInv` says which counts each place
of the loop may have, and so where the schedule of the IRQ is up to date; `NmiInv`
says where a vertical blank's NMI is still to come. `LineAssumption` asks that one turn of
the instruction loop is no longer than the part of the line before the HBlank, and fits
behind it: the code has 1024 and 340 cycles there, and no instruction takes as many as
150.

## Console

`Console.tla` puts five parts side by side that the game reaches through one handler
and that share no state. Any behaviour of the console is an interleaving of
behaviours of the parts, and a property of one part's variables holds of it if it holds
of the part alone; so a behaviour of the module moves one part (`unit`), chosen at the
start. The run then visits the sum and not the product of the parts' states.

* `PpuPorts`: the ports with a memory. Each behaviour is a game that writes one
  group of them in any order: the scroll registers with the shared latches (`bgOld`,
  `m7Old`), the matrix, OAM, CGRAM or VRAM with its step and rotation. `stream` is a
  history variable: what was written since the address. `MaxWrites` lets every
  address wrap around its memory; `MaxSets` bounds the writes of an address among them.
* `PpuBackground`: the walk of one line over a map of up to four screens, from every
  position, one tile per step; `drawn` says where each pixel came from, and `LineRight`
  compares it with the map.
* `DspVoice`: a voice under register writes at any time between samples
  (`MaxRewrites` bounds those that only change a rate or volume; KON, KOF, NOV and
  ENDX are unbounded). Fairness: the mixer is called.
* `SpcIo`: the cycles the SPC700 is given per line, what it owes, one timer and one
  port. `debt`, `since` and `ticks` are history; `MaxTicks` bounds unread ticks.
* `MathUnit`: all operands of two-bit bytes.

The run has 531,444 states.

`ConsoleProofs.tla` proves `PairsWhole`, `StreamsLand`, `LineRight`, `VoiceFollows`,
`SpcOnTime` and `ResultsRight` for all values of the constants that satisfy the assumptions of `Console`.
Since a behaviour moves one part, `ConsoleInvariant` is the conjunction of one inductive
invariant per part:

* The ports: `LatchInv` (what the latches hold is what was written before it), `OamInv`,
  `CgInv` and `VramInv`, each of which says what the memory holds for each unit of
  `stream`, counted back from the address. The address wraps: that two units of a stream
  no longer than the memory do not meet is `SameRemainder`. The rotation of VRAM addresses is one to one on
  each span (`RotatedParts`), and spans do not meet (`TranslateApart`).
* The background: `BackgroundInv` numbers the tiles along the line (`TileNumber`), says that
  the pointer is the cell of the next of them (`CellOf`), and that what is drawn is what lies
  left of `dst`. `CellStep` is the one hard step: the pointer moves on, to the next screen or
  around, as the number does.
* The voice: `VoiceInv` ties the direction and the speed of the envelope to the level.
* The SPC700: `SpcInv` ties the cycles owed to the place in the line, and a timer's count to the
  cycles since its last tick.
* The math unit: `MathInv` is `ResultsRight` itself; what is hard is that the long
  division divides (`DividesRight`). `DoneFrom` says what it has come to after each bit.
  The induction over the bits is over a set of numbers (`AllNumbers`, from the
  well-foundedness of Nat), and that 2^(k+1) is 2 * 2^k is counted on subsets (`PowerTwice`).

The assumptions are about sizes the code fixes: what the SPC700 is ahead after a line is less
than a line of 1364 cycles; a tick of 0x80 is below the half of 0x8000; the spans of the
rotation, 2^8 to 2^10, divide VRAM and are multiples of 8; DspReset leaves 0 in the registers.
`ReleaseEnds` is model-checked only.

## Board

`Board.tla` puts five drivers side by side in the same way: they have their own
interrupts, threads, mutexes and registers, and what one calls of another (a delay, a
command to the microcontroller) is a step of the caller.

* `Audio`: the program's thread starts and stops playback and recording and ends the
  driver (`pc` is its place in the call); the two handlers run whole once pending and
  enabled; the audio thread takes the events, clears them and runs the callbacks one
  by one, as the more urgent of the two threads. The DAC and the microphone are
  external. `owed`, `missed` and `quiet` are history. `MaxStarts` bounds what is begun,
  `MaxHurried`, which is 1, the alerts that come before the one before is dealt with:
  one is enough to find the audio thread, a stop or the program in the middle.
* `SpiBus`: `spi.c`, SPDMA channel 0, `flash.c` and `uic.c`. A call is the sequence of
  its steps, as its functions give it (`Steps`); `todo[t]` is what thread t has left of
  it. Two threads call whatever is in `MCCalls`: a write over a page end, an erase, a
  read, the ID, the address mode and two commands to the microcontroller. A thread whose
  call has returned may call again; `MaxCalls`, which is 2, bounds the calls of all
  threads, so that two calls run at once or one after the other. The chips
  are external: the flash refuses what a flash refuses. `want` is history: the
  contents had each call taken effect at once, which is what `WritesLand` compares.
* `Delay`: two priorities share timer 0; `passed` and `broken` are history.
* `Input`: a scan next to its reader, at the granularity of what the mutex covers;
  `log` is the history of whole scans.
* `Sdio` without faults: the progress of the card's events (see above).

Fairness: hardware that was told to do something does it (the DAC stops, a transfer
ends, a busy chip becomes ready, timer 0 counts), pending interrupts are taken, and
a thread that may run runs (weak). Strong fairness is for the way out of `Audio_Stop`,
because alerts hold the program's thread up for a moment again and again, but are a
buffer's half apart; and for the two threads of the card and the end of a transfer, as
told above. Deadlock is not checked in `console` and `board`, whose bounded
parts come to rest.

`BoardProofs.tla` proves `StopIsFinal`, `AlertsServed`, `BusRight`, `FullDelay` and
`FetchRight` for any number of starts, calls, delays and scans, any threads, sizes, levels,
times and buttons. Again each part
has its own inductive invariant (`BoardInvariance`): `SoundInv` says for each place of `Audio_Stop` and of the audio
thread which events, flags and interrupts may still be pending; `TimerInv` says whose
delay the timer counts, and what an interrupted one can rely on (`BoardAssumption` gives the
delays a longest one); `PadInv` ties the copies of the input to the scans logged.

`BusInv` is for a part whose steps have no fixed number: a write has as many transactions
as pages it touches, and other threads run between any two of its steps. Its idea is a
*place* (`Place`): which mutexes a thread holds and how deep, what it has selected and
told the device, how far the transfer is, what it knows of the flash (nothing, idle, ready
for a write), and what of its effect is still due. `Moves` says from which place to which a
step may lead, and where it may not be taken at all: no deselect before the transfer is
over, no program unless the flash is known to be ready, no release of the flash while
something is due. `BusInv` says

* of every thread, that there is a place from which the steps it has left lead (`Runs`) to
  the one where nothing is held and nothing is due;
* of the holder of the bus, that the wires are as its place tells: the events, the
  interrupts, the DMA, and what the device was told (`Wires`);
* of the holder of the flash, that the chip is what it knows of it, and that `want` is the
  contents with what is due put over it (`Flash`);
* and that when nobody holds them, both are as at the beginning.

The proof has three parts. `StepsRun` follows each function of the drivers, from
`SPI_Write` to `Flash_Write`, and shows that its steps lead from the first place to the
last; for `Flash_Write`, a function of the bytes that are left, by induction over a set of
numbers (`ChunksExist`, `RunFlashWrite`). `ProgramPuts` shows that a program that stays in
its page is not wrapped. And one lemma per action shows that the state follows the places.
`BusInv` quantifies over places, which TLC cannot enumerate; it checks `BusRight` itself.
`CallsAssumption` says that a write stays inside the flash: `Flash_Write` checks no
address, and there is no byte beyond the end for a write to land in. `BoardAssumption`
says that the flash is made of whole pages.

## Two disagreements

`stale_timeout`: WaitTimeout is a field "for objects this thread is waiting
on" (`thread.c:31`), but a joiner woken by Thread_Terminate keeps it (305-309).
When the joiner terminates, Thread_CancelWait (527) removes the timeout that
occupies the slot by then. TLC shows a third thread left in Thread_Sleep with
its timeout disarmed. It takes a timed Thread_Wait (or a timed wait on an object
that is deleted); the firmware only joins without a timeout today.

`rom_wrapped`: `ROM_SetupCache` takes the place of the image in the flash off its length
(`rom.c:365`, `memory.c:115-120`), and the difference wraps whenever the place is the
larger one. The image then has 65536 banks or more. A jump to a bank from 0x80 on passes
the mask (266), looks up `ROM_BankStatus[0x80]` past its end (273), and either returns on
what it finds there or maps the bank in no window (111, 151). The program bank stays a pointer
into the file, although `cpu.s:274` assumes "that prefetches always occur in system RAM or
cached ROM (anything that modifies PBR will also update the ROM caches)". TLC finds
such a jump, and a byte read there that lets the call return.

## What the models take over as it is

Where the code does something a reader may not expect, the model does it too, and the
property next to it says no more than what holds. These are recorded here because the
source says nothing that a run could refute.

* **ROM.** An image whose size wraps is taken for one larger than the buffer, and only
  its first megabyte is resident, however small it is. The search of `ROM_CacheBank`
  (`rom.c:285`) loops for ever if no chunk may be taken, hence the premise of `SearchEnds`. Windows `Mem_Reset` does not set keep the last game's
  pointers (`memory.c:288`). Reads of banks that are not cached return what
  `ROM_ReadBuffer` held (`rom.c:440`).
* **DMA.** In mode 0 towards the ports the transfer of an indirect HDMA unit steps the
  address (`dma.c:351`) and the line steps it again (399); the run's indirect tables
  use other modes.
* **CPU.** A WAI in the line of the match eats that line's IRQ; the last instruction of
  a part of the line that runs over a match loses it, and so does a position written
  there; a WAI in the first part takes the count back after the HBlank; a WAI with an
  IRQ pending sleeps on while I is set.
* **Math unit.** A word written to 0x4202 multiplies, and sets the quotient's register to
  the word as well (`memory.c:623-627`).
* **Ports.** OAM's address registers are used as a byte address (`ppu.c:501-511`);
  reads of VRAM are not implemented; the WRAM port's address does not wrap (463, 725);
  the pointers to tiles and maps may run past VRAM (768).
* **Sound.** A timer register of 0 ticks at every instruction; writing 0xF1 starts
  running timers again (`spc700io.c:98`), and clearing the ports there loses what the
  CPU wrote; the level of ADSR2 is taken at the next key on only (`dsp.c:290`); a key on
  while KOF is set is dropped.
* **Audio.** A callback that starts the next sample finds SampleCB cleared after it; a
  STOP that is answered late would end the next playback (the model assumes the answer
  comes first); an alert missed by a whole half swaps the halves of a stream
  (`missed`).
* **Delays.** A delay that another one interrupted may be short (`wup.c:326`).
* **Flash and UIC.** `Flash_Read` right after `Flash_PageProgram` does not wait for the
  chip, and a write enable sent while it is busy is polled for for ever: the calls
  keep the order `Flash_Write` and the erases use. `UIC_SetState` tests and sets
  `UICState` outside of the bus mutex (`uic.c:278`).
* **Input.** The volume is read outside of the mutex (`input.c:160`); a press that no
  call fetched before the next scan is lost, and two calls between scans see it twice.
* **Kernel.** A seventeenth waiter finds no slot (`thread.c:740`); a timeout of
  more than 2^32 microseconds is short (656); a call that would wait in a handler
  returns at once (422); `EventMask_Wait` reads the mask after the switch (1075).
  The instances stay below these limits.
* **Wifi.** `Wifi_DeInit` disables the card's interrupt without telling the receive
  thread (`wifi.c:223`), and nothing calls it while that thread works.

## What is only model-checked

* All liveness: fairness and ENABLED are out of the prover's reach. Every safety property
  of a run, those of `stale_timeout` and `rom_wrapped` apart, is a theorem.

## Not modelled

* SDIO_Init, chip bring-up and firmware upload run before there is a second thread and are
  straight sequences of modelled calls.
* The instruction sets of the 65816 and the SPC700, sample decoding, mixing, echo, and
  the pixel loops: sequential arithmetic without protocol, most of it assembly
  and tables.
* Windows, colour arithmetic, sprites, Mode 7 drawing, the read ports.
* The joypad, the save RAM, the dispatch of addresses to registers.
* The second processor's renderer (`wifi/source`): `PPU_SendCmd` and `PPU_Present`
  return at once (`ppu.c:324`, `346`), so that it is never told anything.
* Critical sections (`thread.c:624-652`): only the malloc lock uses them, around code
  that does not switch.
* Volume, output, mute and amplifier registers; the GPDMA channels; the I2C driver,
  which sets up the amplifier and the LCD once; LCD, overlays, console and font; the UART
  and the exception dump; the main loop's glue; the firmware packer.
