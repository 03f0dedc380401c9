------------------------------- MODULE Sdio -------------------------------
(***************************************************************************)
(* The SDIO host driver (sdio.c) with its interrupt handler and the wifi   *)
(* receive thread (wifi.c).  Two threads use the driver: the main thread   *)
(* and the receive thread.  The driver's functions call each other under   *)
(* one recursive mutex, and the ones that use the host mask the interrupt  *)
(* of the card around what they do: they save the enable register, clear   *)
(* the card's bit in it, and put the saved value back on every way out.    *)
(* The card's interrupt handler clears the same bit, and the receive       *)
(* thread sets it when it has served the card.                             *)
(*                                                                         *)
(* The mutex and the event masks are those of Kernel, here one action for  *)
(* one call.  The host controller and the card are environment.  Threads   *)
(* interleave freely, but no thread runs while an interrupt is pending:    *)
(* the driver runs with interrupts unmasked.                               *)
(***************************************************************************)
EXTENDS Integers, Sequences, FiniteSets

CONSTANTS
  Main, Rx,     (* the threads                                            *)
  None,
  Bases,        (* the 32 KB windows on the card's memory                 *)
  MaxChunks,    (* transfers of one F1Memory call, registers of one call  *)
  CardEvents,   (* the events of the card: "mail", "ptrs"                 *)
  MaxFaults,    (* bound on the faults of the hardware, and on those      *)
  MaxEarlyFaults  (* before the receive thread has been started           *)

ASSUME SdioAssumption ==
  /\ Main # Rx /\ None \notin {Main, Rx} \cup Bases
  /\ CardEvents \subseteq {"mail", "ptrs"}
  /\ MaxChunks \in Nat \ {0} /\ MaxFaults \in Nat /\ MaxEarlyFaults \in Nat

(* The threads that use the driver.                                       *)
Clients == {Main, Rx}

VARIABLES
  owner, depth,  (* Mutex                                                 *)
  signal,        (* the card's bit in REG_SD_IRQSIGNALENABLE              *)
  event,         (* IRQEventMask                                          *)
  stack,         (* the driver functions each thread is inside of         *)
  ret,           (* what the function each thread came back from returned *)
  f1base,        (* SD_F1Base                                             *)
  rxEvent,       (* RxEventMask                                           *)
  rxpc,          (* where the receive thread is                           *)
  clkEnable,     (* ClkEnable                                             *)
  irqstatus,     (* the card's events RxThreadFunc has read               *)
  started        (* Wifi_Init has enabled the card's interrupt            *)

VARIABLES        (* the host controller and the card                      *)
  cmd,           (* the command line: "idle" or "busy"                    *)
  dat,           (* the data lines: "idle", "busy" (DMA), "paused" (DMA   *)
                 (* at a boundary), "pio", "ready" (for the processor),   *)
                 (* "last" (after the processor has moved them)           *)
  status,        (* REG_SD_IRQSTATUS without the card's bit               *)
  window,        (* the window the card uses; None while it changes       *)
  work           (* the card's pending events                             *)

VARIABLES        (* history                                               *)
  faults,        (* faults of the hardware so far                         *)
  leaked,        (* acquisitions each thread has not given back           *)
  windowLost     (* a write of the window has failed                      *)

drvVars == <<owner, depth, leaked, signal, event, stack, ret, f1base, windowLost>>
rxVars  == <<rxEvent, rxpc, clkEnable, irqstatus, started>>
hwVars  == <<cmd, dat, status, window, work, faults>>
vars    == <<drvVars, rxVars, hwVars>>

Functions == {"SendCommand", "CardRegs", "CardData", "SetF1Base", "F1Memory", "SetClocks"}
(* The functions that mask the card's interrupt.                           *)
Masking == {"SendCommand", "CardRegs", "CardData", "F1Memory"}

(* A function's frame: where it is, what it waits for or has been told by  *)
(* EventMask_Wait, the register it saved, the transfers it has left, the   *)
(* window it is about, and its result.  A write of the window's registers  *)
(* is a CardRegs with a base; a CardData begins with the event it waits    *)
(* for: the processor moves the data (PIO) or the host does (DMA).         *)
Frame(fn, bits, n, base) ==
  [fn |-> fn, pc |-> "enter", bits |-> bits, old |-> FALSE, n |-> n, base |-> base, res |-> "ok"]
Command == Frame("SendCommand", {"cmd_done"}, 0, None)

Top(t) == stack[t][Len(stack[t])]
Below(t) == SubSeq(stack[t], 1, Len(stack[t]) - 1)
Inside(t) == stack[t] # <<>>

IrqPending == status # {} \/ (work # {} /\ signal)

(* Thread t runs function fn and is at pc.                                 *)
At(t, fn, pc) ==
  /\ ~IrqPending
  /\ Inside(t) /\ Top(t).fn = fn /\ Top(t).pc = pc

Become(t, frame) == stack' = [stack EXCEPT ![t] = Append(Below(t), frame)]
Goto(t, pc) == Become(t, [Top(t) EXCEPT !.pc = pc])
(* The function is done with result r: the ways out of each function.      *)
Leave(t, r) ==
  LET out == IF Top(t).fn \in Masking THEN "restore" ELSE "release"
  IN  Become(t, [Top(t) EXCEPT !.pc = out, !.bits = {}, !.res = r])
Call(t, pc, frame) ==
  stack' = [stack EXCEPT ![t] = Append(Below(t), [Top(t) EXCEPT !.pc = pc]) \o <<frame>>]
Return(t, r) ==
  /\ stack' = [stack EXCEPT ![t] = Below(t)]
  /\ ret' = [ret EXCEPT ![t] = IF t = Main /\ Len(stack[t]) = 1 THEN "none" ELSE r]
Returned(t) == ret' = [ret EXCEPT ![t] = "none"]

Fault ==
  /\ faults < (IF started THEN MaxFaults ELSE MaxEarlyFaults)
  /\ faults' = faults + 1

-----------------------------------------------------------------------------
(* What every function begins and ends with. *)

(* SDIO_SetF1Base returns at once when the window is already set.          *)
Enter(t) ==
  /\ ~IrqPending /\ Inside(t) /\ Top(t).pc = "enter"
  /\ IF Top(t).fn = "SetF1Base" /\ f1base = Top(t).base
     THEN Return(t, "ok") /\ UNCHANGED <<owner, depth>>
     ELSE /\ owner \in {None, t}
          /\ owner' = t /\ depth' = depth + 1
          /\ Goto(t, IF Top(t).fn \in Masking THEN "save" ELSE "body")
          /\ UNCHANGED ret
  /\ UNCHANGED <<leaked, signal, event, f1base, windowLost, rxVars, hwVars>>

SaveIrq(t) ==
  /\ ~IrqPending /\ Inside(t) /\ Top(t).pc = "save"
  /\ Become(t, [Top(t) EXCEPT !.pc = "mask", !.old = signal])
  /\ UNCHANGED <<owner, depth, leaked, signal, event, ret, f1base, windowLost, rxVars, hwVars>>

MaskIrq(t) ==
  /\ ~IrqPending /\ Inside(t) /\ Top(t).pc = "mask"
  /\ signal' = FALSE
  /\ Goto(t, "body")
  /\ UNCHANGED <<owner, depth, leaked, event, ret, f1base, windowLost, rxVars, hwVars>>

(* Variant: a way out that fails leaves the card's interrupt masked.        *)
RestoreIrqOnSuccess(t) ==
  /\ ~IrqPending /\ Inside(t) /\ Top(t).pc = "restore"
  /\ signal' = IF Top(t).res = "ok" THEN Top(t).old ELSE signal
  /\ IF Top(t).fn = "F1Memory" /\ Top(t).res = "fail"
     THEN Return(t, "fail") /\ leaked' = [leaked EXCEPT ![t] = @ + 1]
     ELSE Goto(t, "release") /\ UNCHANGED <<ret, leaked>>
  /\ UNCHANGED <<owner, depth, event, f1base, windowLost, rxVars, hwVars>>

(* SDIO_ReadF1Memory and SDIO_WriteF1Memory return without                 *)
(* Mutex_Release when a transfer fails.                                    *)
RestoreIrq(t) ==
  /\ ~IrqPending /\ Inside(t) /\ Top(t).pc = "restore"
  /\ signal' = Top(t).old
  /\ IF Top(t).fn = "F1Memory" /\ Top(t).res = "fail"
     THEN Return(t, "fail") /\ leaked' = [leaked EXCEPT ![t] = @ + 1]
     ELSE Goto(t, "release") /\ UNCHANGED <<ret, leaked>>
  /\ UNCHANGED <<owner, depth, event, f1base, windowLost, rxVars, hwVars>>

Release(t) ==
  /\ ~IrqPending /\ Inside(t) /\ Top(t).pc = "release"
  /\ depth' = depth - 1
  /\ owner' = IF depth = 1 THEN None ELSE owner
  /\ Return(t, Top(t).res)
  /\ UNCHANGED <<leaked, signal, event, f1base, windowLost, rxVars, hwVars>>

-----------------------------------------------------------------------------
(* SDIO_SendCommand *)

(* CMD_INHIBIT is still set after a hundred reads, or clear.               *)
CheckInhibit(t) ==
  /\ At(t, "SendCommand", "body")
  /\ \/ cmd = "idle" /\ Goto(t, "clear") /\ UNCHANGED faults
     \/ cmd = "busy" /\ Fault /\ Leave(t, "fail")
  /\ UNCHANGED <<owner, depth, leaked, signal, event, ret, f1base, windowLost, rxVars,
                 cmd, dat, status, window, work>>

(* Variant: the events of an earlier command stay.                          *)
KeepEvents(t) ==
  /\ At(t, "SendCommand", "clear")
  /\ Goto(t, "issue")
  /\ UNCHANGED <<owner, depth, leaked, signal, event, ret, f1base, windowLost, rxVars, hwVars>>

ClearEvents(t) ==
  /\ At(t, "SendCommand", "clear")
  /\ event' = {}
  /\ Goto(t, "issue")
  /\ UNCHANGED <<owner, depth, leaked, signal, ret, f1base, windowLost, rxVars, hwVars>>

(* Command 53, which begins a transfer, or command 52, of which three set  *)
(* the window.                                                             *)
Issue(t) ==
  LET caller == stack[t][Len(stack[t]) - 1]
  IN  /\ At(t, "SendCommand", "issue")
      /\ cmd' = "busy"
      /\ dat' = IF caller.fn # "CardData" THEN dat
                ELSE IF caller.bits = {"data_ready"} THEN "pio" ELSE "busy"
      /\ window' = IF caller.fn = "CardRegs" /\ caller.base # None
                   THEN IF caller.n = 1 THEN caller.base ELSE None
                   ELSE window
      /\ Goto(t, "wait")
      /\ UNCHANGED <<owner, depth, leaked, signal, event, ret, f1base, windowLost, rxVars,
                     status, work, faults>>

-----------------------------------------------------------------------------
(* SDIO_WaitForIRQ, in SendCommand and in CardData *)

WaitReturns(t) ==
  LET res == event \cap (Top(t).bits \cup {"error"})
  IN  /\ ~IrqPending /\ Inside(t) /\ Top(t).pc = "wait"
      /\ res # {}
      /\ Become(t, [Top(t) EXCEPT !.pc = "got", !.bits = res])
      /\ UNCHANGED <<owner, depth, leaked, signal, event, ret, f1base, windowLost, rxVars, hwVars>>

WaitTimesOut(t) ==
  /\ ~IrqPending /\ Inside(t) /\ Top(t).pc = "wait"
  /\ event \cap (Top(t).bits \cup {"error"}) = {}
  /\ Fault
  /\ Leave(t, "fail")
  /\ UNCHANGED <<owner, depth, leaked, signal, event, ret, f1base, windowLost, rxVars,
                 cmd, dat, status, window, work>>

(* Variant: an error ends the function with the mutex held.                 *)
WaitDoneHolding(t) ==
  /\ ~IrqPending /\ Inside(t) /\ Top(t).pc = "got"
  /\ event' = event \ Top(t).bits
  /\ IF "error" \in Top(t).bits THEN Return(t, "fail") /\ UNCHANGED dat
     ELSE /\ IF "data_ready" \in Top(t).bits
             THEN /\ Become(t, [Top(t) EXCEPT !.pc = "wait", !.bits = {"xfer_done"}])
                  /\ dat' = IF dat = "ready" THEN "last" ELSE dat
             ELSE Leave(t, "ok") /\ UNCHANGED dat
          /\ UNCHANGED ret
  /\ UNCHANGED <<owner, depth, leaked, signal, f1base, windowLost, rxVars,
                 cmd, status, window, work, faults>>

(* EventMask_Clear, then an error ends the function; a command is done;    *)
(* the processor moves the data and waits for the end of the transfer; or  *)
(* the transfer has ended.                                                 *)
WaitDone(t) ==
  /\ ~IrqPending /\ Inside(t) /\ Top(t).pc = "got"
  /\ event' = event \ Top(t).bits
  /\ IF "error" \in Top(t).bits THEN Leave(t, "fail") /\ UNCHANGED dat
     ELSE IF "data_ready" \in Top(t).bits
     THEN /\ Become(t, [Top(t) EXCEPT !.pc = "wait", !.bits = {"xfer_done"}])
          /\ dat' = IF dat = "ready" THEN "last" ELSE dat
     ELSE Leave(t, "ok") /\ UNCHANGED dat
  /\ UNCHANGED <<owner, depth, leaked, signal, ret, f1base, windowLost, rxVars,
                 cmd, status, window, work, faults>>

-----------------------------------------------------------------------------
(* Variant: one register too many.                                          *)
CardRegsTooMany(t) ==
  /\ At(t, "CardRegs", "body")
  /\ IF Top(t).n < 0 THEN Leave(t, "ok")
     ELSE Call(t, "called", Command)
  /\ UNCHANGED <<owner, depth, leaked, signal, event, ret, f1base, windowLost, rxVars, hwVars>>

(* SDIO_ReadCardRegs, SDIO_WriteCardRegs: one command 52 for each register. *)
CardRegsNext(t) ==
  /\ At(t, "CardRegs", "body")
  /\ IF Top(t).n = 0 THEN Leave(t, "ok")
     ELSE Call(t, "called", Command)
  /\ UNCHANGED <<owner, depth, leaked, signal, event, ret, f1base, windowLost, rxVars, hwVars>>

CardRegsCalled(t) ==
  /\ At(t, "CardRegs", "called")
  /\ IF ret[t] = "fail" THEN Leave(t, "fail")
     ELSE Become(t, [Top(t) EXCEPT !.pc = "body", !.n = @ - 1])
  /\ Returned(t)
  /\ UNCHANGED <<owner, depth, leaked, signal, event, f1base, windowLost, rxVars, hwVars>>

(* Variant: the data line is not looked at.                                 *)
CardDataStartBlind(t) ==
  /\ At(t, "CardData", "body")
  /\ \/ /\ cmd = "idle" /\ UNCHANGED faults
        /\ Call(t, "called", Command)
     \/ cmd = "busy" /\ Fault /\ Leave(t, "fail")
  /\ UNCHANGED <<owner, depth, leaked, signal, event, ret, f1base, windowLost, rxVars,
                 cmd, dat, status, window, work>>

(* SDIO_ReadCardData, SDIO_WriteCardData: neither line may be inhibited;   *)
(* then command 53, whose response may tell an error.                      *)
CardDataStart(t) ==
  /\ At(t, "CardData", "body")
  /\ \/ /\ cmd = "idle" /\ dat = "idle" /\ UNCHANGED faults
        /\ Call(t, "called", Command)
     \/ /\ cmd = "busy" \/ dat # "idle"
        /\ Fault /\ Leave(t, "fail")
  /\ UNCHANGED <<owner, depth, leaked, signal, event, ret, f1base, windowLost, rxVars,
                 cmd, dat, status, window, work>>

CardDataCalled(t) ==
  /\ At(t, "CardData", "called")
  /\ \/ /\ ret[t] = "fail" /\ Leave(t, "fail") /\ UNCHANGED faults
     \/ /\ ret[t] = "ok" /\ Fault /\ Leave(t, "fail")     (* bad response *)
     \/ /\ ret[t] = "ok" /\ Goto(t, "wait") /\ UNCHANGED faults
  /\ Returned(t)
  /\ UNCHANGED <<owner, depth, leaked, signal, event, f1base, windowLost, rxVars,
                 cmd, dat, status, window, work>>

(* SDIO_SetF1Base: three registers, then SD_F1Base.                        *)
SetF1BaseWrite(t) ==
  /\ At(t, "SetF1Base", "body")
  /\ Call(t, "called", Frame("CardRegs", {}, 3, Top(t).base))
  /\ UNCHANGED <<owner, depth, leaked, signal, event, ret, f1base, windowLost, rxVars, hwVars>>

SetF1BaseDone(t) ==
  /\ At(t, "SetF1Base", "called")
  /\ Leave(t, ret[t])
  /\ IF ret[t] = "ok" THEN f1base' = Top(t).base /\ UNCHANGED windowLost
     ELSE windowLost' = TRUE /\ UNCHANGED f1base
  /\ Returned(t)
  /\ UNCHANGED <<owner, depth, leaked, signal, event, rxVars, hwVars>>

(* SDIO_ReadF1Memory, SDIO_WriteF1Memory: set the window and move a chunk, *)
(* which ends where the window does.                                       *)
F1MemoryNext(t) ==
  /\ At(t, "F1Memory", "body")
  /\ IF Top(t).n = 0 THEN Leave(t, "ok")
     ELSE Call(t, "based", Frame("SetF1Base", {}, 0, Top(t).base))
  /\ UNCHANGED <<owner, depth, leaked, signal, event, ret, f1base, windowLost, rxVars, hwVars>>

F1MemoryBased(t) ==
  /\ At(t, "F1Memory", "based")
  /\ IF ret[t] = "fail" THEN Leave(t, "fail")
     ELSE \E bit \in {"data_ready", "xfer_done"} :
            Call(t, "called", Frame("CardData", {bit}, 0, Top(t).base))
  /\ Returned(t)
  /\ UNCHANGED <<owner, depth, leaked, signal, event, f1base, windowLost, rxVars, hwVars>>

(* Variant: the window is set for the first chunk only.                     *)
F1MemoryBasedOnce(t) ==
  /\ At(t, "F1Memory", "called")
  /\ IF ret[t] = "fail" \/ Top(t).n = 1 THEN Leave(t, ret[t])
     ELSE \E b \in Bases :
            Become(t, [Top(t) EXCEPT !.pc = "based", !.n = @ - 1, !.base = b])
  /\ Returned(t)
  /\ UNCHANGED <<owner, depth, leaked, signal, event, f1base, windowLost, rxVars, hwVars>>

F1MemoryCalled(t) ==
  /\ At(t, "F1Memory", "called")
  /\ IF ret[t] = "fail" THEN Leave(t, "fail")
     ELSE \E b \in IF Top(t).n = 1 THEN {Top(t).base} ELSE Bases :
            Become(t, [Top(t) EXCEPT !.pc = "body", !.n = @ - 1, !.base = b])
  /\ Returned(t)
  /\ UNCHANGED <<owner, depth, leaked, signal, event, f1base, windowLost, rxVars, hwVars>>

(* SDIO_SetClocks: read the clock register, write it, and read it until    *)
(* the clock is ready, without a look at what the calls return.            *)
SetClocksNext(t) ==
  /\ At(t, "SetClocks", "body")
  /\ IF Top(t).n = 0 THEN Leave(t, "ok")
     ELSE stack' = [stack EXCEPT ![t] = Append(Below(t), [Top(t) EXCEPT !.n = @ - 1])
                                          \o <<Frame("CardRegs", {}, 1, None)>>]
  /\ Returned(t)
  /\ UNCHANGED <<owner, depth, leaked, signal, event, f1base, windowLost, rxVars, hwVars>>

-----------------------------------------------------------------------------
(* The interrupt handler: Wifi_CardIRQ, the DMA boundary, and the rest.    *)
SDIO_IRQHandler ==
  LET card == work # {} /\ signal
  IN  /\ IrqPending
      /\ signal' = (signal /\ ~card)
      /\ rxEvent' = IF card THEN rxEvent \cup {"card"} ELSE rxEvent
      /\ status' = {}
      /\ event' = event \cup (status \ {"dma"})
      /\ dat' = IF "dma" \in status /\ "xfer_done" \notin status /\ dat = "paused"
                THEN "busy" ELSE dat
      /\ UNCHANGED <<owner, depth, leaked, stack, ret, f1base, windowLost,
                     rxpc, clkEnable, irqstatus, started, cmd, window, work, faults>>

-----------------------------------------------------------------------------
(* The main thread calls the driver; Wifi_Init enables the card's          *)
(* interrupt; Wifi_WaitCmdList and the end of Wifi_Init take the events    *)
(* RxThreadFunc signals.                                                   *)
Begin(t, frame) == ~Inside(t) /\ stack' = [stack EXCEPT ![t] = <<frame>>]

MainCalls ==
  /\ ~IrqPending
  /\ \E n \in 1 .. MaxChunks, b \in Bases :
       \E f \in {Frame("F1Memory", {}, n, b), Frame("CardRegs", {}, n, None),
                 Frame("SetClocks", {}, n, None)} : Begin(Main, f)
  /\ UNCHANGED <<owner, depth, leaked, signal, event, ret, f1base, windowLost, rxVars, hwVars>>

SDIO_EnableCardIRQ ==
  /\ ~IrqPending /\ ~Inside(Main) /\ ~started
  /\ started' = TRUE /\ signal' = TRUE
  /\ UNCHANGED <<owner, depth, leaked, event, stack, ret, f1base, windowLost,
                 rxEvent, rxpc, clkEnable, irqstatus, hwVars>>

MainTakes ==
  /\ ~IrqPending /\ ~Inside(Main)
  /\ \E e \in rxEvent \ {"card"} : rxEvent' = rxEvent \ {e}
  /\ UNCHANGED <<drvVars, rxpc, clkEnable, irqstatus, started, hwVars>>

-----------------------------------------------------------------------------
(* RxThreadFunc *)
RxAt(pc) == ~IrqPending /\ ~Inside(Rx) /\ rxpc = pc

RxWait ==
  /\ RxAt("wait") /\ "card" \in rxEvent
  /\ rxpc' = "clear"
  /\ UNCHANGED <<drvVars, rxEvent, clkEnable, irqstatus, started, hwVars>>

RxClear ==
  /\ RxAt("clear")
  /\ rxEvent' = rxEvent \ {"card"} /\ rxpc' = "lock"
  /\ UNCHANGED <<drvVars, clkEnable, irqstatus, started, hwVars>>

RxLock ==
  /\ RxAt("lock")
  /\ owner \in {None, Rx}
  /\ owner' = Rx /\ depth' = depth + 1
  /\ rxpc' = "clock"
  /\ UNCHANGED <<leaked, signal, event, stack, ret, f1base, windowLost,
                 rxEvent, clkEnable, irqstatus, started, hwVars>>

(* Variant: the status is not acknowledged.                                *)
RxNextUnacked ==
  [clock |-> "status", status |-> "mail", mail |-> "place", place |-> "ptrs", ptrs |-> "enable"]

(* The calls of RxThreadFunc, in order: Wifi_SetClkEnable if the clock is  *)
(* off, the status, its acknowledgement, the value of a mail, and the      *)
(* place and the value of the renderer's pointers.                         *)
RxNext ==
  [clock |-> "status", status |-> "ack", ack |-> "mail", mail |-> "place", place |-> "ptrs",
   ptrs |-> "enable"]
RxSkips(pc) ==
  \/ pc = "clock" /\ clkEnable
  \/ pc = "mail" /\ "mail" \notin irqstatus
  \/ pc \in {"place", "ptrs"} /\ "ptrs" \notin irqstatus
RxCall(pc) ==
  /\ RxAt(pc)
  /\ ret[Rx] = "none"
  /\ IF RxSkips(pc)
     THEN rxpc' = RxNext[pc] /\ UNCHANGED stack
     ELSE /\ \E b \in Bases :
               Begin(Rx, IF pc = "clock" THEN Frame("SetClocks", {}, 1, None)
                         ELSE Frame("F1Memory", {}, 1, b))
          /\ UNCHANGED rxpc
  /\ UNCHANGED <<owner, depth, leaked, signal, event, ret, f1base, windowLost,
                 rxEvent, clkEnable, irqstatus, started, hwVars>>

(* What a call gave.  A failed read of the status reads as no events.      *)
RxCalled(pc) ==
  /\ RxAt(pc)
  /\ ret[Rx] # "none"
  /\ ret' = [ret EXCEPT ![Rx] = "none"]
  /\ rxpc' = RxNext[pc]
  /\ clkEnable' = (clkEnable \/ pc = "clock")
  /\ irqstatus' = IF pc # "status" THEN irqstatus
                  ELSE IF ret[Rx] = "ok" THEN work ELSE {}
  /\ work' = IF pc = "ack" /\ ret[Rx] = "ok" THEN work \ irqstatus ELSE work
  /\ rxEvent' = rxEvent \cup (IF pc = "mail" THEN {"list"} ELSE {})
                        \cup (IF pc = "ptrs" THEN {"ready"} ELSE {})
  /\ UNCHANGED <<owner, depth, leaked, signal, event, stack, f1base, windowLost, started,
                 cmd, dat, status, window, faults>>

RxEnable ==
  /\ RxAt("enable")
  /\ signal' = TRUE
  /\ rxpc' = "unlock"
  /\ UNCHANGED <<owner, depth, leaked, event, stack, ret, f1base, windowLost,
                 rxEvent, clkEnable, irqstatus, started, hwVars>>

RxUnlock ==
  /\ RxAt("unlock")
  /\ depth' = depth - 1
  /\ owner' = IF depth = 1 THEN None ELSE owner
  /\ rxpc' = "wait"
  /\ UNCHANGED <<leaked, signal, event, stack, ret, f1base, windowLost,
                 rxEvent, clkEnable, irqstatus, started, hwVars>>

-----------------------------------------------------------------------------
(* The host controller and the card. *)
Hardware(c, d, bits) ==
  /\ cmd' = c /\ dat' = d /\ status' = status \cup bits
  /\ UNCHANGED <<drvVars, rxVars, window, work>>

CommandEnds ==
  /\ cmd = "busy"
  /\ \/ Hardware("idle", dat, {"cmd_done"}) /\ UNCHANGED faults
     \/ Fault /\ \E d \in {dat, "idle"} : Hardware("idle", d, {"error"})

(* The data follow the command. *)
DataMoves ==
  /\ cmd = "idle"
  /\ \/ dat = "pio" /\ Hardware(cmd, "ready", {"data_ready"}) /\ UNCHANGED faults
     \/ dat = "busy" /\ Hardware(cmd, "paused", {"dma"}) /\ UNCHANGED faults
     \/ dat # "idle" /\ Fault /\ Hardware(cmd, "idle", {"error"})

DataEnds ==
  /\ cmd = "idle" /\ dat \in {"busy", "last"}
  /\ \E b \in {{"xfer_done"}, {"xfer_done", "dma"}} : Hardware(cmd, "idle", b)
  /\ UNCHANGED faults

CardEvent ==
  /\ started
  /\ \E e \in CardEvents : e \notin work /\ work' = work \cup {e}
  /\ UNCHANGED <<drvVars, rxVars, cmd, dat, status, window, faults>>

-----------------------------------------------------------------------------
(* The state after SDIO_Init and the start of the receive thread. *)
Init ==
  /\ owner = None /\ depth = 0 /\ signal = FALSE /\ event = {}
  /\ stack = [t \in Clients |-> <<>>] /\ ret = [t \in Clients |-> "none"]
  /\ f1base \in Bases /\ window = f1base
  /\ rxEvent = {} /\ rxpc = "wait" /\ clkEnable = FALSE /\ irqstatus = {} /\ started = FALSE
  /\ cmd = "idle" /\ dat = "idle" /\ status = {} /\ work = {}
  /\ faults = 0 /\ leaked = [t \in Clients |-> 0] /\ windowLost = FALSE

Step(t) ==
  \/ Enter(t) \/ SaveIrq(t) \/ MaskIrq(t) \/ RestoreIrq(t) \/ Release(t)
  \/ CheckInhibit(t) \/ ClearEvents(t) \/ Issue(t)
  \/ WaitReturns(t) \/ WaitDone(t)
  \/ CardRegsNext(t) \/ CardRegsCalled(t) \/ CardDataStart(t) \/ CardDataCalled(t)
  \/ SetF1BaseWrite(t) \/ SetF1BaseDone(t)
  \/ F1MemoryNext(t) \/ F1MemoryBased(t) \/ F1MemoryCalled(t) \/ SetClocksNext(t)

RxThreadFunc ==
  \/ RxWait \/ RxClear \/ RxLock \/ RxEnable \/ RxUnlock
  \/ \E pc \in DOMAIN RxNext : RxCall(pc) \/ RxCalled(pc)

Next ==
  \/ \E t \in Clients : Step(t) \/ WaitTimesOut(t)
  \/ SDIO_IRQHandler
  \/ MainCalls \/ SDIO_EnableCardIRQ \/ MainTakes
  \/ RxThreadFunc
  \/ CommandEnds \/ DataMoves \/ DataEnds \/ CardEvent

Spec == Init /\ [][Next]_vars

(* A thread runs.  Each does so in the end, however often an interrupt     *)
(* comes in between: the receive thread is the most urgent one, the main   *)
(* thread runs while that one waits, and Mutex_Release gives the mutex to  *)
(* the thread that waits for it.                                           *)
Runs(t) == Step(t) \/ (t = Rx /\ RxThreadFunc)

-----------------------------------------------------------------------------
Bits == {"cmd_done", "data_ready", "xfer_done", "error"}
Pcs == {"enter", "save", "mask", "body", "clear", "issue", "wait", "got", "called", "based",
        "restore", "release"}

(* The values the variables range over; five functions deep at the most.   *)
TypeOK ==
  /\ owner \in Clients \cup {None} /\ depth \in Nat
  /\ signal \in BOOLEAN /\ event \subseteq Bits
  /\ DOMAIN stack = Clients
  /\ \A t \in Clients : \A i \in DOMAIN stack[t] :
       /\ i <= 5
       /\ stack[t][i] \in [fn : Functions, pc : Pcs, bits : SUBSET Bits, old : BOOLEAN,
                           n : Nat, base : Bases \cup {None}, res : {"ok", "fail"}]
  /\ ret \in [Clients -> {"none", "ok", "fail"}]
  /\ f1base \in Bases /\ windowLost \in BOOLEAN /\ leaked \in [Clients -> Nat]
  /\ rxEvent \subseteq {"card", "list", "ready"} /\ clkEnable \in BOOLEAN /\ started \in BOOLEAN
  /\ rxpc \in {"wait", "clear", "lock", "enable", "unlock"} \cup DOMAIN RxNext
  /\ irqstatus \subseteq CardEvents /\ work \subseteq CardEvents
  /\ cmd \in {"idle", "busy"} /\ dat \in {"idle", "busy", "paused", "pio", "ready", "last"}
  /\ status \subseteq Bits \cup {"dma"}
  /\ window \in Bases \cup {None} /\ faults \in Nat

(* Frames of t that hold the mutex. *)
Holding(t) == {i \in DOMAIN stack[t] : stack[t][i].pc # "enter"}
RxHolds == rxpc \in {"enable", "unlock"} \cup DOMAIN RxNext

(* The mutex is held by the thread that is inside of the driver, once for  *)
(* each function it is inside of; only the two F1Memory functions, when    *)
(* they fail, leave an acquisition behind.                                 *)
LockBalanced ==
  LET due(t) == Cardinality(Holding(t)) + leaked[t] + (IF t = Rx /\ RxHolds THEN 1 ELSE 0)
  IN  /\ \A t \in Clients : due(t) = IF owner = t THEN depth ELSE 0
      /\ owner = None => depth = 0

(* What the threads are inside of is what the mutex says of them.          *)
CallsSound == TypeOK /\ LockBalanced

(* A completion is the completion of the request it is taken for: of a     *)
(* command or transfer that timed out nothing is left to be mistaken for   *)
(* the end of a later one.                                                 *)
OwnCompletion ==
  \A t \in Clients : Inside(t) /\ Top(t).pc = "got" =>
    /\ "cmd_done" \in Top(t).bits => cmd = "idle"
    /\ "xfer_done" \in Top(t).bits => dat = "idle"
    /\ "data_ready" \in Top(t).bits => dat \in {"ready", "idle"}

(* The card's interrupt is never left disabled: some function of the       *)
(* driver will put it back, or the receive thread has been told or is at   *)
(* work and will enable it.                                                *)
CardIrqKept ==
  started /\ ~signal =>
    \/ "card" \in rxEvent \/ rxpc # "wait"
    \/ \E t \in Clients : \E i \in DOMAIN stack[t] :
         stack[t][i].old /\ stack[t][i].pc \notin {"enter", "save"}

(* Data move through the window they are meant for, as long as no write of *)
(* the window has failed.                                                  *)
WindowRight ==
  \A t \in Clients :
    Inside(t) /\ Top(t).fn = "SendCommand" /\ Top(t).pc = "issue" /\ ~windowLost =>
      LET caller == stack[t][Len(stack[t]) - 1]
      IN  caller.fn = "CardData" => window = caller.base

(* Without faults, each event of the card is acknowledged.                 *)
CardServed == \A e \in CardEvents : e \in work ~> e \notin work
=============================================================================
