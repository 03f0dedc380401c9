----------------------------- MODULE SdioProofs -----------------------------
(***************************************************************************)
(* Proofs about the SDIO driver, for any windows, lengths and faults. The  *)
(* invariant says of what shape the stacks of calls are, that only the     *)
(* thread that owns the mutex is past the entry of a function, and, with   *)
(* this, whose the interrupt mask, the window and the events are.          *)
(***************************************************************************)
EXTENDS Sdio, SequenceTheorems, FiniteSetTheorems, TLAPS

(* The frames of a function, and where the function can be.                *)
Frames == [fn : Functions, pc : Pcs, bits : SUBSET Bits, old : BOOLEAN,
           n : Nat, base : Bases \cup {None}, res : {"ok", "fail"}]

FrameOK(f) ==
  /\ f \in Frames
  /\ f.pc \in {"save", "mask", "restore"} => f.fn \in Masking
  /\ f.pc \in {"clear", "issue"} => f.fn = "SendCommand"
  /\ f.pc \in {"wait", "got"} => f.fn \in {"SendCommand", "CardData"}
  /\ f.pc = "called" => f.fn \in {"CardRegs", "CardData", "SetF1Base", "F1Memory"}
  /\ f.pc = "based" => f.fn = "F1Memory"
  /\ f.fn \in {"F1Memory", "SetF1Base"} => f.base \in Bases
  /\ f.fn \in {"F1Memory", "CardRegs"} /\ f.pc \in {"enter", "save", "mask", "based", "called"}
       => f.n > 0

(* f is in the middle of a call of g.                                      *)
Calls(f, g) ==
  \/ f.fn \in {"CardRegs", "CardData"} /\ f.pc = "called" /\ g.fn = "SendCommand"
  \/ f.fn = "SetF1Base" /\ f.pc = "called" /\ g.fn = "CardRegs" /\ g.base = f.base
  \/ f.fn = "F1Memory" /\ f.pc = "based" /\ g.fn = "SetF1Base" /\ g.base = f.base
  \/ f.fn = "F1Memory" /\ f.pc = "called" /\ g.fn = "CardData" /\ g.base = f.base
  \/ f.fn = "SetClocks" /\ f.pc = "body" /\ g.fn = "CardRegs" /\ g.base = None

(* What a thread calls first, and how deep the others are.                 *)
Placed(i, f) ==
  /\ i = 1 => \/ f.fn \in {"F1Memory", "SetClocks"}
              \/ f.fn = "CardRegs" /\ f.base = None
  /\ f.fn \in {"F1Memory", "SetClocks"} => i = 1
  /\ f.fn \in {"SetF1Base", "CardData"} => i = 2
  /\ f.fn = "CardRegs" => i \in 1 .. 3
  /\ f.fn = "SendCommand" => i \in 2 .. 4

Shape(s) ==
  /\ s \in Seq(Frames)
  /\ \A i \in 1 .. Len(s) : FrameOK(s[i]) /\ Placed(i, s[i])
  /\ \A i \in 1 .. Len(s) : i > 1 => Calls(s[i - 1], s[i])

StacksInv ==
  /\ stack \in [Clients -> Seq(Frames)]
  /\ \A t \in Clients : Shape(stack[t])
  /\ \A t \in Clients : Inside(t) /\ Top(t).pc \in {"called", "based"} => ret[t] # "none"

(* The mutex: how often t has taken it. Its frames are past their entry    *)
(* but for the top one.                                                    *)
Taken(t) == IF Inside(t) /\ Top(t).pc = "enter" THEN Len(stack[t]) - 1 ELSE Len(stack[t])
Due(t) == Taken(t) + leaked[t] + (IF t = Rx /\ RxHolds THEN 1 ELSE 0)

LockInv ==
  /\ \A t \in Clients : Due(t) = IF owner = t THEN depth ELSE 0
  /\ owner = None => depth = 0
  /\ Inside(Rx) => rxpc \in DOMAIN RxNext

(* The interrupt of the card: disabled while a function that masks it is   *)
(* past that; what is saved inside of another such function is that.       *)
Masked(f) == f.fn \in Masking /\ f.pc \notin {"enter", "save", "mask", "release"}
WillEnable(f) == f.fn \in Masking /\ f.old /\ f.pc \notin {"enter", "save", "release"}

MaskInv ==
  /\ ~started => ~signal /\ work = {} /\ rxpc = "wait" /\ "card" \notin rxEvent
  /\ ~started => \A t \in Clients : \A i \in 1 .. Len(stack[t]) : ~WillEnable(stack[t][i])
  /\ \A t \in Clients : Inside(t) /\ Top(t).pc = "mask" /\ signal => Top(t).old
  /\ \A t \in Clients : \A i \in 1 .. Len(stack[t]) : Masked(stack[t][i]) => ~signal
  /\ \A t \in Clients : \A i, j \in 1 .. Len(stack[t]) :
       i < j /\ Masked(stack[t][i]) => ~WillEnable(stack[t][j])
  /\ started /\ ~signal =>
       \/ "card" \in rxEvent \/ rxpc # "wait"
       \/ \E t \in Clients : \E i \in 1 .. Len(stack[t]) : WillEnable(stack[t][i])
  /\ rxpc = "unlock" => signal \/ "card" \in rxEvent

(* The window: the driver knows it, unless it is about to write it or has  *)
(* failed to; a write that has gone well has set it.                       *)
Caller(t)  == stack[t][Len(stack[t]) - 1]
Writing(t) == Len(stack[t]) > 1 /\ stack[t][2].fn = "SetF1Base" /\ stack[t][2].pc = "called"
Ended(f)   == f.pc \in {"restore", "release"} /\ f.res = "ok"

TopWindow(t) ==
  LET f == Top(t) IN
  /\ f.fn = "SendCommand" /\ Caller(t).fn = "CardRegs" /\ Caller(t).base # None
       /\ Caller(t).n = 1 /\ (f.pc \in {"wait", "got"} \/ Ended(f))
     => window = Caller(t).base
  /\ f.fn = "CardRegs" /\ f.base # None
       /\ \/ f.pc = "called" /\ f.n = 1 /\ ret[t] = "ok"
          \/ f.pc = "body" /\ f.n = 0
          \/ Ended(f)
     => window = f.base
  /\ f.fn = "SetF1Base" /\ f.pc = "called" /\ ret[t] = "ok" => window = f.base
  /\ f.fn = "SetF1Base" /\ Ended(f) => f1base = f.base
  /\ f.fn = "F1Memory" /\ f.pc = "based" /\ ret[t] = "ok" => f1base = f.base

WindowInv ==
  ~windowLost =>
    /\ (\A t \in Clients : ~Writing(t)) => window = f1base
    /\ \A t \in Clients : Inside(t) => TopWindow(t)
    /\ \A t \in Clients :
         Inside(t) /\ stack[t][1].fn = "F1Memory" /\ stack[t][1].pc = "called"
           => f1base = stack[t][1].base

(* The events: one that says that a command or transfer is done is there   *)
(* only when none is under way, and none is there when one is begun.       *)
Reported == event \cup status

TopEvents(t) ==
  LET f == Top(t) IN
  f.fn = "SendCommand" =>
    /\ f.pc \in {"clear", "issue"} => cmd = "idle"
    /\ f.pc = "issue" => "cmd_done" \notin Reported
    /\ Caller(t).fn = "CardData" /\ f.pc \in {"enter", "save", "mask", "body", "clear", "issue"}
         => dat = "idle"
    /\ Caller(t).fn = "CardData" /\ f.pc = "issue"
         => Reported \cap {"xfer_done", "data_ready"} = {}

EventsInv ==
  /\ "cmd_done" \in Reported => cmd = "idle"
  /\ "xfer_done" \in Reported => dat = "idle"
  /\ "data_ready" \in Reported => dat \in {"ready", "idle"}
  /\ \A t \in Clients : Inside(t) => TopEvents(t)
  /\ OwnCompletion

(* The values of the other variables.                                      *)
Scalars ==
  /\ owner \in Clients \cup {None} /\ depth \in Nat
  /\ signal \in BOOLEAN /\ event \subseteq Bits
  /\ ret \in [Clients -> {"none", "ok", "fail"}]
  /\ f1base \in Bases /\ windowLost \in BOOLEAN /\ leaked \in [Clients -> Nat]
  /\ rxEvent \subseteq {"card", "list", "ready"} /\ clkEnable \in BOOLEAN /\ started \in BOOLEAN
  /\ rxpc \in {"wait", "clear", "lock", "enable", "unlock"} \cup DOMAIN RxNext
  /\ irqstatus \subseteq CardEvents /\ work \subseteq CardEvents
  /\ cmd \in {"idle", "busy"} /\ dat \in {"idle", "busy", "paused", "pio", "ready", "last"}
  /\ status \subseteq Bits \cup {"dma"}
  /\ window \in Bases \cup {None} /\ faults \in Nat

Inv == StacksInv /\ LockInv /\ MaskInv /\ WindowInv /\ EventsInv
SdioInv == Scalars /\ Inv
-----------------------------------------------------------------------------
(* What the driver's steps do to a stack.                                  *)
LEMMA StackTop ==
  ASSUME StacksInv, NEW t \in Clients
  PROVE  /\ stack[t] \in Seq(Frames) /\ Len(stack[t]) \in Nat
         /\ Inside(t) <=> Len(stack[t]) > 0
         /\ Inside(t) => /\ FrameOK(Top(t)) /\ Placed(Len(stack[t]), Top(t))
                         /\ Len(stack[t]) \in 1 .. 4
                         /\ Len(stack[t]) > 1 => Calls(Caller(t), Top(t)) /\ FrameOK(Caller(t))
                         /\ Below(t) \in Seq(Frames) /\ Len(Below(t)) = Len(stack[t]) - 1
                         /\ \A i \in 1 .. Len(stack[t]) - 1 : Below(t)[i] = stack[t][i]
  <1>1. stack[t] \in Seq(Frames) /\ Len(stack[t]) \in Nat
    BY LenProperties DEF StacksInv
  <1>2. Inside(t) <=> Len(stack[t]) > 0
    BY <1>1, EmptySeq DEF Inside
  <1>3. ASSUME Inside(t)
        PROVE  Below(t) \in Seq(Frames) /\ Len(Below(t)) = Len(stack[t]) - 1
               /\ \A i \in 1 .. Len(stack[t]) - 1 : Below(t)[i] = stack[t][i]
    <2> DEFINE n == Len(stack[t])
    <2>1. n \in Nat /\ n > 0
      BY <1>1, <1>2, <1>3
    <2>2. \A i \in 1 .. n - 1 : stack[t][i] \in Frames
      BY <1>1, <2>1, ElementOfSeq
    <2>3. /\ SubSeq(stack[t], 1, n - 1) \in Seq(Frames)
          /\ Len(SubSeq(stack[t], 1, n - 1)) = IF 1 <= n - 1 THEN (n - 1) - 1 + 1 ELSE 0
          /\ \A i \in 1 .. (n - 1) - 1 + 1 : SubSeq(stack[t], 1, n - 1)[i] = stack[t][1 + i - 1]
      BY <2>1, <2>2, SubSeqProperties
    <2>4. Len(Below(t)) = n - 1
      BY <2>1, <2>3 DEF Below
    <2>5. \A i \in 1 .. n - 1 : Below(t)[i] = stack[t][i]
      BY <2>1, <2>3 DEF Below
    <2> QED
      BY <2>3, <2>4, <2>5 DEF Below
  <1>4. ASSUME Inside(t)
        PROVE  FrameOK(Top(t)) /\ Placed(Len(stack[t]), Top(t)) /\ Len(stack[t]) \in 1 .. 4
    <2>1. Len(stack[t]) \in 1 .. Len(stack[t])
      BY <1>1, <1>2, <1>4
    <2>2. FrameOK(Top(t)) /\ Placed(Len(stack[t]), Top(t))
      BY <2>1 DEF StacksInv, Shape, Top
    <2>3. Top(t).fn \in Functions
      BY <2>2 DEF FrameOK, Frames
    <2> QED
      BY <2>1, <2>2, <2>3 DEF Placed, Functions
  <1>5. ASSUME Inside(t), Len(stack[t]) > 1
        PROVE  Calls(Caller(t), Top(t)) /\ FrameOK(Caller(t))
    <2>1. Len(stack[t]) \in 1 .. Len(stack[t]) /\ Len(stack[t]) - 1 \in 1 .. Len(stack[t])
      BY <1>1, <1>5
    <2> QED
      BY <1>5, <2>1 DEF StacksInv, Shape, Top, Caller
  <1> QED
    BY <1>1, <1>2, <1>3, <1>4, <1>5

(* Only t's stack changes.                                                 *)
LEMMA OneStack ==
  ASSUME StacksInv, NEW t \in Clients, NEW s, stack' = [stack EXCEPT ![t] = s]
  PROVE  stack'[t] = s /\ \A u \in Clients : u # t => stack'[u] = stack[u]
  BY DEF StacksInv

(* The top frame becomes f.                                                *)
LEMMA Becomes ==
  ASSUME StacksInv, NEW t \in Clients, Inside(t), NEW f \in Frames, Become(t, f)
  PROVE  /\ stack'[t] \in Seq(Frames) /\ Len(stack'[t]) = Len(stack[t])
         /\ stack'[t][Len(stack[t])] = f
         /\ \A i \in 1 .. Len(stack[t]) - 1 : stack'[t][i] = stack[t][i]
         /\ stack' \in [Clients -> Seq(Frames)]
         /\ \A u \in Clients : u # t => stack'[u] = stack[u]
         /\ Inside(t)' /\ Top(t)' = f /\ (Len(stack[t]) > 1 => Caller(t)' = Caller(t))
  <1>1. stack'[t] = Append(Below(t), f) /\ \A u \in Clients : u # t => stack'[u] = stack[u]
    BY OneStack DEF Become
  <1>2. Below(t) \in Seq(Frames) /\ Len(Below(t)) = Len(stack[t]) - 1 /\ Len(stack[t]) \in 1 .. 4
        /\ \A i \in 1 .. Len(stack[t]) - 1 : Below(t)[i] = stack[t][i]
    BY StackTop
  <1>3. /\ stack'[t] \in Seq(Frames) /\ stack'[t] # <<>> /\ Len(stack'[t]) = Len(stack[t])
        /\ stack'[t][Len(stack[t])] = f
        /\ \A i \in 1 .. Len(stack[t]) - 1 : stack'[t][i] = stack[t][i]
    BY <1>1, <1>2, AppendProperties
  <1>4. stack' \in [Clients -> Seq(Frames)]
    BY <1>3 DEF Become, StacksInv
  <1>5. Inside(t)' /\ Top(t)' = f
    BY <1>3 DEF Inside, Top
  <1>6. Len(stack[t]) > 1 => Caller(t)' = Caller(t)
    BY <1>2, <1>3 DEF Caller
  <1> QED
    BY <1>1, <1>3, <1>4, <1>5, <1>6

(* The top frame becomes f and calls g.                                    *)
LEMMA Pushes ==
  ASSUME StacksInv, NEW t \in Clients, Inside(t), NEW f \in Frames, NEW g \in Frames,
         stack' = [stack EXCEPT ![t] = Append(Below(t), f) \o <<g>>]
  PROVE  /\ stack'[t] \in Seq(Frames) /\ Len(stack'[t]) = Len(stack[t]) + 1
         /\ stack'[t][Len(stack[t])] = f /\ stack'[t][Len(stack[t]) + 1] = g
         /\ \A i \in 1 .. Len(stack[t]) - 1 : stack'[t][i] = stack[t][i]
         /\ stack' \in [Clients -> Seq(Frames)]
         /\ \A u \in Clients : u # t => stack'[u] = stack[u]
         /\ Inside(t)' /\ Top(t)' = g /\ Caller(t)' = f
  <1>1. stack'[t] = Append(Below(t), f) \o <<g>> /\ \A u \in Clients : u # t => stack'[u] = stack[u]
    BY OneStack
  <1>2. Below(t) \in Seq(Frames) /\ Len(Below(t)) = Len(stack[t]) - 1 /\ Len(stack[t]) \in 1 .. 4
        /\ \A i \in 1 .. Len(stack[t]) - 1 : Below(t)[i] = stack[t][i]
    BY StackTop
  <1> DEFINE s == Append(Below(t), f)
  <1>3. /\ s \in Seq(Frames) /\ Len(s) = Len(stack[t]) /\ s[Len(stack[t])] = f
        /\ \A i \in 1 .. Len(stack[t]) - 1 : s[i] = stack[t][i]
    BY <1>2, AppendProperties
  <1>4. <<g>> \in Seq(Frames) /\ Len(<<g>>) = 1 /\ <<g>>[1] = g
    OBVIOUS
  <1> HIDE DEF s
  <1>5. /\ s \o <<g>> \in Seq(Frames) /\ Len(s \o <<g>>) = Len(s) + 1
        /\ \A i \in 1 .. Len(s) + 1 : (s \o <<g>>)[i] = IF i <= Len(s) THEN s[i] ELSE <<g>>[i - Len(s)]
    BY <1>3, <1>4, ConcatProperties
  <1>6. stack'[t] = s \o <<g>>
    BY <1>1 DEF s
  <1>7. /\ stack'[t] \in Seq(Frames) /\ Len(stack'[t]) = Len(stack[t]) + 1
        /\ stack'[t][Len(stack[t])] = f /\ stack'[t][Len(stack[t]) + 1] = g
        /\ \A i \in 1 .. Len(stack[t]) - 1 : stack'[t][i] = stack[t][i]
    BY <1>2, <1>3, <1>4, <1>5, <1>6
  <1>8. stack' \in [Clients -> Seq(Frames)]
    BY <1>7 DEF StacksInv
  <1>9. Inside(t)' /\ Top(t)' = g /\ Caller(t)' = f
    BY <1>2, <1>7, EmptySeq DEF Inside, Top, Caller
  <1> QED
    BY <1>1, <1>7, <1>8, <1>9

(* The top frame returns.                                                  *)
LEMMA Pops ==
  ASSUME StacksInv, NEW t \in Clients, Inside(t), stack' = [stack EXCEPT ![t] = Below(t)]
  PROVE  /\ stack'[t] \in Seq(Frames) /\ Len(stack'[t]) = Len(stack[t]) - 1
         /\ \A i \in 1 .. Len(stack[t]) - 1 : stack'[t][i] = stack[t][i]
         /\ stack' \in [Clients -> Seq(Frames)]
         /\ \A u \in Clients : u # t => stack'[u] = stack[u]
         /\ Inside(t)' <=> Len(stack[t]) > 1
         /\ Len(stack[t]) > 1 => Top(t)' = Caller(t)
  <1>1. stack'[t] = Below(t) /\ \A u \in Clients : u # t => stack'[u] = stack[u]
    BY OneStack
  <1>2. Below(t) \in Seq(Frames) /\ Len(Below(t)) = Len(stack[t]) - 1 /\ Len(stack[t]) \in 1 .. 4
        /\ \A i \in 1 .. Len(stack[t]) - 1 : Below(t)[i] = stack[t][i]
    BY StackTop
  <1>3. stack' \in [Clients -> Seq(Frames)]
    BY <1>1, <1>2 DEF StacksInv
  <1>4. Inside(t)' <=> Len(stack[t]) > 1
    BY <1>1, <1>2, EmptySeq DEF Inside
  <1>5. Len(stack[t]) > 1 => Top(t)' = Caller(t)
    BY <1>1, <1>2 DEF Top, Caller
  <1> QED
    BY <1>1, <1>2, <1>3, <1>4, <1>5

(* A thread that is not inside calls g.                                    *)
LEMMA Begins ==
  ASSUME StacksInv, NEW t \in Clients, NEW g \in Frames, Begin(t, g)
  PROVE  /\ ~Inside(t) /\ stack'[t] \in Seq(Frames) /\ Len(stack'[t]) = 1 /\ stack'[t][1] = g
         /\ stack' \in [Clients -> Seq(Frames)]
         /\ \A u \in Clients : u # t => stack'[u] = stack[u]
         /\ Inside(t)' /\ Top(t)' = g
  <1>1. stack'[t] = <<g>> /\ \A u \in Clients : u # t => stack'[u] = stack[u]
    BY OneStack DEF Begin
  <1>2. stack'[t] \in Seq(Frames) /\ Len(stack'[t]) = 1 /\ stack'[t][1] = g /\ stack'[t] # <<>>
    BY <1>1
  <1>3. stack' \in [Clients -> Seq(Frames)]
    BY <1>2 DEF Begin, StacksInv
  <1> QED
    BY <1>1, <1>2, <1>3 DEF Begin, Inside, Top
-----------------------------------------------------------------------------
(* The stacks keep their shape. *)

LEMMA ShapeBecomes ==
  ASSUME StacksInv, NEW t \in Clients, Inside(t), NEW f, FrameOK(f), Become(t, f),
         Placed(Len(stack[t]), f), Len(stack[t]) > 1 => Calls(Caller(t), f),
         f.pc \in {"called", "based"} => ret'[t] # "none",
         \A u \in Clients : u # t => ret'[u] = ret[u]
  PROVE  StacksInv'
  <1>1. f \in Frames
    BY DEF FrameOK
  <1> DEFINE n == Len(stack[t])
             s == stack'[t]
  <1>2. /\ s \in Seq(Frames) /\ Len(s) = n /\ s[n] = f
        /\ \A i \in 1 .. n - 1 : s[i] = stack[t][i]
        /\ stack' \in [Clients -> Seq(Frames)]
        /\ \A u \in Clients : u # t => stack'[u] = stack[u]
        /\ Top(t)' = f
    BY <1>1, Becomes
  <1>3. n \in Nat /\ n > 0
    BY StackTop
  <1>4. \A i \in 1 .. n : FrameOK(s[i]) /\ Placed(i, s[i])
    BY <1>2, <1>3 DEF StacksInv, Shape
  <1>5. \A i \in 1 .. n : i > 1 => Calls(s[i - 1], s[i])
    <2> TAKE i \in 1 .. n
    <2> HAVE i > 1
    <2>1. CASE i = n
      BY <1>2, <1>3, <2>1 DEF Caller
    <2>2. CASE i # n
      <3>1. i \in 1 .. n - 1 /\ i - 1 \in 1 .. n - 1
        BY <1>3, <2>2
      <3> QED
        BY <1>2, <3>1 DEF StacksInv, Shape
    <2> QED
      BY <2>1, <2>2
  <1>6. Shape(s)
    BY <1>2, <1>4, <1>5 DEF Shape
  <1>7. \A u \in Clients : Shape(stack'[u])
    BY <1>2, <1>6 DEF StacksInv
  <1>8. \A u \in Clients : (Inside(u) /\ Top(u).pc \in {"called", "based"})' => ret'[u] # "none"
    BY <1>2 DEF StacksInv, Inside, Top
  <1> QED
    BY <1>2, <1>7, <1>8 DEF StacksInv

LEMMA ShapePushes ==
  ASSUME StacksInv, NEW t \in Clients, Inside(t), NEW f, FrameOK(f), NEW g, FrameOK(g),
         stack' = [stack EXCEPT ![t] = Append(Below(t), f) \o <<g>>],
         Placed(Len(stack[t]), f), Len(stack[t]) > 1 => Calls(Caller(t), f),
         Calls(f, g), Placed(Len(stack[t]) + 1, g), g.pc = "enter",
         \A u \in Clients : u # t => ret'[u] = ret[u]
  PROVE  StacksInv'
  <1>1. f \in Frames /\ g \in Frames
    BY DEF FrameOK
  <1> DEFINE n == Len(stack[t])
             s == stack'[t]
  <1>2. /\ s \in Seq(Frames) /\ Len(s) = n + 1 /\ s[n] = f /\ s[n + 1] = g
        /\ \A i \in 1 .. n - 1 : s[i] = stack[t][i]
        /\ stack' \in [Clients -> Seq(Frames)]
        /\ \A u \in Clients : u # t => stack'[u] = stack[u]
        /\ Top(t)' = g
    BY <1>1, Pushes, ZenonT(30)
  <1>3. n \in Nat /\ n > 0
    BY StackTop
  <1>4. \A i \in 1 .. n + 1 : FrameOK(s[i]) /\ Placed(i, s[i])
    <2> TAKE i \in 1 .. n + 1
    <2>0. i \in 1 .. n - 1 \/ i = n \/ i = n + 1
      BY <1>3
    <2>1. CASE i \in 1 .. n - 1
      BY <1>2, <1>3, <2>1 DEF StacksInv, Shape
    <2>2. CASE i = n
      BY <1>2, <2>2
    <2>3. CASE i = n + 1
      BY <1>2, <2>3
    <2> QED
      BY <2>0, <2>1, <2>2, <2>3
  <1>5. \A i \in 1 .. n + 1 : i > 1 => Calls(s[i - 1], s[i])
    <2> TAKE i \in 1 .. n + 1
    <2> HAVE i > 1
    <2>0. i < n \/ i = n \/ i = n + 1
      BY <1>3
    <2>1. CASE i = n + 1
      BY <1>2, <1>3, <2>1
    <2>2. CASE i = n
      BY <1>2, <1>3, <2>2 DEF Caller
    <2>3. CASE i < n
      <3>1. i \in 1 .. n - 1 /\ i - 1 \in 1 .. n - 1
        BY <1>3, <2>3
      <3> QED
        BY <1>2, <3>1 DEF StacksInv, Shape
    <2> QED
      BY <2>0, <2>1, <2>2, <2>3
  <1>6. Shape(s)
    BY <1>2, <1>4, <1>5 DEF Shape
  <1>7. \A u \in Clients : Shape(stack'[u])
    BY <1>2, <1>6 DEF StacksInv
  <1>8. \A u \in Clients : (Inside(u) /\ Top(u).pc \in {"called", "based"})' => ret'[u] # "none"
    BY <1>2 DEF StacksInv, Inside, Top
  <1> QED
    BY <1>2, <1>7, <1>8 DEF StacksInv

LEMMA ShapePops ==
  ASSUME StacksInv, NEW t \in Clients, Inside(t), stack' = [stack EXCEPT ![t] = Below(t)],
         Len(stack[t]) > 1 => ret'[t] # "none",
         \A u \in Clients : u # t => ret'[u] = ret[u]
  PROVE  StacksInv'
  <1> DEFINE n == Len(stack[t])
             s == stack'[t]
  <1>2. /\ s \in Seq(Frames) /\ Len(s) = n - 1
        /\ \A i \in 1 .. n - 1 : s[i] = stack[t][i]
        /\ stack' \in [Clients -> Seq(Frames)]
        /\ \A u \in Clients : u # t => stack'[u] = stack[u]
        /\ Inside(t)' <=> n > 1
    BY Pops
  <1>3. n \in Nat /\ n > 0
    BY StackTop
  <1>4. \A i \in 1 .. n - 1 : FrameOK(s[i]) /\ Placed(i, s[i]) /\ (i > 1 => Calls(s[i - 1], s[i]))
    <2> TAKE i \in 1 .. n - 1
    <2>1. i \in 1 .. n /\ (i > 1 => i - 1 \in 1 .. n - 1)
      BY <1>3
    <2> QED
      BY <1>2, <2>1 DEF StacksInv, Shape
  <1>5. Shape(s)
    BY <1>2, <1>4 DEF Shape
  <1>6. \A u \in Clients : Shape(stack'[u])
    BY <1>2, <1>5 DEF StacksInv
  <1>7. \A u \in Clients : (Inside(u) /\ Top(u).pc \in {"called", "based"})' => ret'[u] # "none"
    BY <1>2 DEF StacksInv, Inside, Top
  <1> QED
    BY <1>2, <1>6, <1>7 DEF StacksInv

LEMMA ShapeBegins ==
  ASSUME StacksInv, NEW t \in Clients, NEW g, FrameOK(g), Begin(t, g), Placed(1, g),
         g.pc = "enter", \A u \in Clients : u # t => ret'[u] = ret[u]
  PROVE  StacksInv'
  <1>1. g \in Frames
    BY DEF FrameOK
  <1>2. /\ stack'[t] \in Seq(Frames) /\ Len(stack'[t]) = 1 /\ stack'[t][1] = g
        /\ stack' \in [Clients -> Seq(Frames)]
        /\ \A u \in Clients : u # t => stack'[u] = stack[u]
        /\ Top(t)' = g
    BY <1>1, Begins
  <1>3. Shape(stack'[t])
    BY <1>2 DEF Shape
  <1>4. \A u \in Clients : Shape(stack'[u])
    BY <1>2, <1>3 DEF StacksInv
  <1>5. \A u \in Clients : (Inside(u) /\ Top(u).pc \in {"called", "based"})' => ret'[u] # "none"
    BY <1>2 DEF StacksInv, Inside, Top
  <1> QED
    BY <1>2, <1>4, <1>5 DEF StacksInv
-----------------------------------------------------------------------------
(* Only the owner of the mutex is past the entry of a function. *)

LEMMA RxNextDomain ==
  /\ DOMAIN RxNext = {"clock", "status", "ack", "mail", "place", "ptrs"}
  /\ \A pc \in DOMAIN RxNext : RxNext[pc] \in {"enable"} \cup DOMAIN RxNext
  BY DEF RxNext

LEMMA TakenType ==
  ASSUME StacksInv, NEW t \in Clients
  PROVE  /\ Taken(t) \in Nat
         /\ Inside(t) /\ Top(t).pc # "enter" => Taken(t) > 0
         /\ Taken(t) = 0 /\ Inside(t) => Len(stack[t]) = 1 /\ Top(t).pc = "enter"
  BY StackTop DEF Taken

LEMMA Alone ==
  ASSUME Scalars, StacksInv, LockInv, NEW t \in Clients, Inside(t), Top(t).pc # "enter"
  PROVE  /\ owner = t /\ depth \in Nat /\ depth > 0
         /\ \A u \in Clients : u # t /\ Inside(u) => Len(stack[u]) = 1 /\ Top(u).pc = "enter"
         /\ t # Rx => ~Inside(Rx) /\ ~RxHolds
  <1>1. \A u \in Clients : leaked[u] \in Nat /\ Taken(u) \in Nat
    BY TakenType DEF Scalars
  <1>2. Taken(t) > 0
    BY TakenType
  <1>3. Due(t) > 0
    BY <1>1, <1>2 DEF Due
  <1>4. owner = t /\ depth \in Nat /\ depth > 0
    BY <1>3 DEF LockInv, Scalars
  <1>5. \A u \in Clients : u # t => Due(u) = 0
    BY <1>4 DEF LockInv
  <1>6. \A u \in Clients : u # t => Taken(u) = 0
    BY <1>1, <1>5 DEF Due
  <1>7. t # Rx => ~RxHolds
    BY <1>1, <1>5 DEF Due, Clients
  <1>8. t # Rx => ~Inside(Rx)
    BY <1>7 DEF LockInv, RxHolds
  <1> QED
    BY <1>4, <1>6, <1>7, <1>8, TakenType

LEMMA LockKept ==
  ASSUME LockInv, UNCHANGED <<owner, depth, leaked, rxpc>>,
         \A u \in Clients : Taken(u)' = Taken(u), Inside(Rx)' => Inside(Rx)
  PROVE  LockInv'
  <1>1. \A u \in Clients : Due(u)' = Due(u)
    BY DEF Due, RxHolds
  <1> QED
    BY <1>1 DEF LockInv
-----------------------------------------------------------------------------
(* A step in the middle of a function: the top frame moves. *)

LEMMA MovedShape ==
  ASSUME StacksInv, NEW t \in Clients, Inside(t), NEW g, FrameOK(g), Become(t, g),
         g.fn = Top(t).fn, g.base = Top(t).base \/ g.fn = "F1Memory",
         g.pc \notin {"called", "based"},
         \A u \in Clients : u # t => ret'[u] = ret[u]
  PROVE  StacksInv'
  <1>1. Placed(Len(stack[t]), g)
    BY StackTop DEF Placed
  <1>2. Len(stack[t]) > 1 => Calls(Caller(t), g)
    BY StackTop DEF Placed, Calls
  <1> QED
    BY <1>1, <1>2, ShapeBecomes

LEMMA MovedMask ==
  ASSUME StacksInv, MaskInv, NEW t \in Clients, Inside(t), NEW g, FrameOK(g), Become(t, g),
         Masked(g) => Masked(Top(t)),
         WillEnable(Top(t)) => WillEnable(g), WillEnable(g) => signal \/ WillEnable(Top(t)),
         g.pc = "mask" /\ signal => g.old,
         UNCHANGED <<signal, rxVars, work>>
  PROVE  MaskInv'
  <1>1. g \in Frames
    BY DEF FrameOK
  <1> DEFINE n == Len(stack[t])
  <1>2. /\ Len(stack'[t]) = n /\ stack'[t][n] = g
        /\ \A i \in 1 .. n - 1 : stack'[t][i] = stack[t][i]
        /\ \A u \in Clients : u # t => stack'[u] = stack[u]
        /\ Top(t)' = g
    BY <1>1, Becomes
  <1>3. n \in Nat /\ n > 0 /\ Top(t) = stack[t][n]
    BY StackTop DEF Top
  <1>4. \A i \in 1 .. n : /\ Masked(stack'[t][i]) => Masked(stack[t][i])
                          /\ WillEnable(stack[t][i]) => WillEnable(stack'[t][i])
                          /\ WillEnable(stack'[t][i]) => signal \/ WillEnable(stack[t][i])
    BY <1>2, <1>3
  <1>5. \A u \in Clients : Len(stack'[u]) = Len(stack[u])
    BY <1>2
  <1>6. \A u \in Clients : \A i \in 1 .. Len(stack[u]) :
          /\ Masked(stack'[u][i]) => Masked(stack[u][i])
          /\ WillEnable(stack[u][i]) => WillEnable(stack'[u][i])
          /\ WillEnable(stack'[u][i]) => signal \/ WillEnable(stack[u][i])
    BY <1>2, <1>4
  <1>7. \A u \in Clients : (Inside(u) /\ Top(u).pc = "mask" /\ signal => Top(u).old)'
    BY <1>2 DEF MaskInv, Inside, Top
  <1>8. UNCHANGED <<started, signal, work, rxpc, rxEvent>>
    BY DEF rxVars
  <1>9. (started /\ ~signal =>
          \/ "card" \in rxEvent \/ rxpc # "wait"
          \/ \E u \in Clients : \E i \in 1 .. Len(stack[u]) : WillEnable(stack[u][i]))'
    BY <1>5, <1>6, <1>8 DEF MaskInv
  <1>10. \A u \in Clients : \A i \in 1 .. Len(stack'[u]) : Masked(stack'[u][i]) => ~signal'
    BY <1>5, <1>6, <1>8 DEF MaskInv
  <1>11. \A u \in Clients : \A i, j \in 1 .. Len(stack'[u]) :
           i < j /\ Masked(stack'[u][i]) => ~WillEnable(stack'[u][j])
    BY <1>5, <1>6 DEF MaskInv
  <1>12. ~started' => \A u \in Clients : \A i \in 1 .. Len(stack'[u]) : ~WillEnable(stack'[u][i])
    BY <1>5, <1>6, <1>8 DEF MaskInv
  <1> QED
    BY <1>7, <1>8, <1>9, <1>10, <1>11, <1>12 DEF MaskInv

LEMMA MovedWindow ==
  ASSUME StacksInv, WindowInv, NEW t \in Clients, Inside(t), NEW g, FrameOK(g), Become(t, g),
         g.fn = Top(t).fn, g.pc # "called",
         ~(Top(t).fn = "SetF1Base" /\ Top(t).pc = "called"),
         UNCHANGED <<window, f1base, windowLost>>,
         \A u \in Clients : u # t => ret'[u] = ret[u],
         ~windowLost => TopWindow(t)'
  PROVE  WindowInv'
  <1>1. g \in Frames
    BY DEF FrameOK
  <1> DEFINE n == Len(stack[t])
  <1>2. /\ Len(stack'[t]) = n /\ stack'[t][n] = g
        /\ \A i \in 1 .. n - 1 : stack'[t][i] = stack[t][i]
        /\ \A u \in Clients : u # t => stack'[u] = stack[u]
        /\ Inside(t)'
    BY <1>1, Becomes
  <1>3. n \in 1 .. 4 /\ n \in Nat /\ n > 0 /\ Top(t) = stack[t][n]
    BY StackTop DEF Top
  <1>4. \A u \in Clients : Writing(u) => Writing(u)'
    <2>1. Writing(t) => Writing(t)'
      BY <1>2, <1>3 DEF Writing
    <2> QED
      BY <1>2, <2>1 DEF Writing
  <1>5. ASSUME ~windowLost
        PROVE  \A u \in Clients : Inside(u)' => TopWindow(u)'
    <2> TAKE u \in Clients
    <2>1. CASE u = t
      BY <1>5, <2>1
    <2>2. CASE u # t
      BY <1>2, <1>5, <2>2 DEF WindowInv, TopWindow, Inside, Top, Caller
    <2> QED
      BY <2>1, <2>2
  <1>6. ASSUME ~windowLost
        PROVE  \A u \in Clients : (Inside(u) /\ stack[u][1].fn = "F1Memory"
                 /\ stack[u][1].pc = "called" => f1base = stack[u][1].base)'
    <2> TAKE u \in Clients
    <2>1. CASE u # t
      BY <1>2, <1>6, <2>1 DEF WindowInv, Inside
    <2>2. CASE u = t /\ n = 1
      BY <1>2, <2>2
    <2>3. CASE u = t /\ n > 1
      <3>1. stack'[t][1] = stack[t][1]
        BY <1>2, <1>3, <2>3
      <3> QED
        BY <1>6, <2>3, <3>1 DEF WindowInv
    <2>4. n = 1 \/ n > 1
      BY <1>3, SMTT(30)
    <2> QED
      BY <2>1, <2>2, <2>3, <2>4
  <1> QED
    BY <1>4, <1>5, <1>6 DEF WindowInv

(* What OwnCompletion says of a frame.                                     *)
OwnTop(f) ==
  f.pc = "got" =>
    /\ "cmd_done" \in f.bits => cmd = "idle"
    /\ "xfer_done" \in f.bits => dat = "idle"
    /\ "data_ready" \in f.bits => dat \in {"ready", "idle"}

LEMMA EventsKept ==
  ASSUME EventsInv, NEW t \in Clients, UNCHANGED <<cmd, dat, event, status>>,
         \A u \in Clients : u # t => stack'[u] = stack[u],
         Inside(t)' => TopEvents(t)' /\ OwnTop(Top(t))'
  PROVE  EventsInv'
  <1>1. \A u \in Clients : Inside(u)' => TopEvents(u)'
    <2> TAKE u \in Clients
    <2>1. CASE u = t
      BY <2>1
    <2>2. CASE u # t
      BY <2>2 DEF EventsInv, TopEvents, Inside, Top, Caller, Reported
    <2> QED
      BY <2>1, <2>2
  <1>2. OwnCompletion'
    <2> SUFFICES ASSUME NEW u \in Clients, Inside(u)', Top(u)'.pc = "got"
                 PROVE  OwnTop(Top(u))'
      BY DEF OwnCompletion, OwnTop
    <2>1. CASE u = t
      BY <2>1
    <2>2. CASE u # t
      BY <2>2 DEF EventsInv, OwnCompletion, OwnTop, Inside, Top
    <2> QED
      BY <2>1, <2>2
  <1> QED
    BY <1>1, <1>2 DEF EventsInv, Reported
-----------------------------------------------------------------------------
(* A step that changes nothing but the top frame. *)

Others == <<owner, depth, leaked, signal, f1base, windowLost, rxVars, hwVars>>

LEMMA Moved ==
  ASSUME Inv, NEW t \in Clients, Inside(t), NEW g, FrameOK(g), Become(t, g),
         g.fn = Top(t).fn, g.base = Top(t).base \/ g.fn = "F1Memory",
         Top(t).pc # "enter", g.pc \notin {"enter", "called", "based"},
         ~(Top(t).fn = "SetF1Base" /\ Top(t).pc = "called"),
         UNCHANGED <<owner, depth, leaked, rxVars, f1base, window, windowLost>>,
         \A u \in Clients : u # t => ret'[u] = ret[u],
         ~windowLost => TopWindow(t)'
  PROVE  StacksInv' /\ LockInv' /\ WindowInv'
  <1> USE DEF Inv
  <1>1. StacksInv'
    BY MovedShape
  <1>2. LockInv'
    <2>1. g \in Frames
      BY DEF FrameOK
    <2>2. \A u \in Clients : Taken(u)' = Taken(u) /\ (Inside(u)' <=> Inside(u))
      BY <2>1, Becomes DEF Taken, Inside, Top
    <2> QED
      BY <2>2, LockKept DEF Clients, rxVars
  <1>3. WindowInv'
    BY MovedWindow
  <1> QED
    BY <1>1, <1>2, <1>3

LEMMA MovedEvents ==
  ASSUME Inv, NEW t \in Clients, Inside(t), NEW g, FrameOK(g), Become(t, g),
         UNCHANGED <<cmd, dat, event, status>>,
         TopEvents(t)', OwnTop(g)
  PROVE  EventsInv'
  <1>1. g \in Frames
    BY DEF FrameOK
  <1>2. Top(t)' = g /\ \A u \in Clients : u # t => stack'[u] = stack[u]
    BY <1>1, Becomes DEF Inv
  <1>3. OwnTop(Top(t))'
    BY <1>2 DEF OwnTop
  <1> QED
    BY <1>2, <1>3, EventsKept DEF Inv

(* A step that changes nothing else at all.                                *)
LEMMA OnlyMoved ==
  ASSUME Inv, NEW t \in Clients, Inside(t), NEW g, FrameOK(g), Become(t, g),
         g.fn = Top(t).fn, g.base = Top(t).base \/ g.fn = "F1Memory",
         Top(t).pc # "enter", g.pc \notin {"enter", "called", "based"},
         ~(Top(t).fn = "SetF1Base" /\ Top(t).pc = "called"),
         Masked(g) => Masked(Top(t)),
         WillEnable(Top(t)) => WillEnable(g), WillEnable(g) => signal \/ WillEnable(Top(t)),
         g.pc = "mask" /\ signal => g.old,
         UNCHANGED <<owner, depth, leaked, signal, event, f1base, windowLost, rxVars,
                     cmd, dat, status, window, work>>,
         \A u \in Clients : u # t => ret'[u] = ret[u],
         ~windowLost => TopWindow(t)', TopEvents(t)', OwnTop(g)
  PROVE  Inv'
  <1>1. StacksInv' /\ LockInv' /\ WindowInv'
    BY Moved
  <1>2. MaskInv'
    BY MovedMask DEF Inv
  <1>3. EventsInv'
    BY MovedEvents
  <1> QED
    BY <1>1, <1>2, <1>3 DEF Inv
-----------------------------------------------------------------------------
(* A call: the top frame moves on and a new one begins. *)

LEMMA Pushed ==
  ASSUME Inv, NEW t \in Clients, Inside(t), NEW f, FrameOK(f), NEW g, FrameOK(g),
         stack' = [stack EXCEPT ![t] = Append(Below(t), f) \o <<g>>],
         f.fn = Top(t).fn, f.base = Top(t).base, Top(t).pc \in {"body", "based"},
         Masked(f) => Masked(Top(t)), WillEnable(f) = WillEnable(Top(t)),
         Calls(f, g), g.pc = "enter",
         UNCHANGED <<Others, event>>, \A u \in Clients : u # t => ret'[u] = ret[u],
         f.fn = "F1Memory" /\ f.pc = "called" /\ ~windowLost => f1base = f.base,
         f.fn = "CardData" => dat = "idle"
  PROVE  Inv'
  <1> USE DEF Inv
  <1> DEFINE n == Len(stack[t])
  <1>1. f \in Frames /\ g \in Frames
    BY DEF FrameOK
  <1>0. StacksInv
    BY DEF Inv
  <1>2. /\ Len(stack'[t]) = n + 1 /\ stack'[t][n] = f /\ stack'[t][n + 1] = g
        /\ \A i \in 1 .. n - 1 : stack'[t][i] = stack[t][i]
        /\ \A u \in Clients : u # t => stack'[u] = stack[u]
        /\ Inside(t)' /\ Top(t)' = g /\ Caller(t)' = f
    <2> HIDE DEF Inv
    <2>1. /\ stack'[t] \in Seq(Frames) /\ Len(stack'[t]) = Len(stack[t]) + 1
          /\ stack'[t][Len(stack[t])] = f /\ stack'[t][Len(stack[t]) + 1] = g
          /\ \A i \in 1 .. Len(stack[t]) - 1 : stack'[t][i] = stack[t][i]
          /\ stack' \in [Clients -> Seq(Frames)]
          /\ \A u \in Clients : u # t => stack'[u] = stack[u]
          /\ Inside(t)' /\ Top(t)' = g /\ Caller(t)' = f
      BY <1>0, <1>1, Pushes, ZenonT(30)
    <2> QED
      BY <2>1
  <1>3. /\ n \in 1 .. 4 /\ n \in Nat /\ n > 0 /\ (n = 1 \/ n > 1)
        /\ Top(t) = stack[t][n] /\ Placed(n, Top(t))
    BY <1>0, StackTop DEF Top
  <1>4. StacksInv'
    <2>1. Placed(n, f)
      BY <1>3 DEF Placed
    <2>2. n > 1 => Calls(Caller(t), f)
      BY StackTop DEF Calls
    <2>3. Placed(n + 1, g)
      BY <1>3, <2>1 DEF Calls, Placed
    <2> QED
      BY <2>1, <2>2, <2>3, ShapePushes
  <1>5. LockInv'
    <2>1. Taken(t)' = Taken(t)
      BY <1>2, <1>3 DEF Taken
    <2>2. \A u \in Clients : u # t => Taken(u)' = Taken(u) /\ (Inside(u)' <=> Inside(u))
      BY <1>2 DEF Taken, Inside, Top
    <2>3. UNCHANGED <<owner, depth, leaked, rxpc>>
      BY DEF Others, rxVars
    <2> QED
      BY <2>1, <2>2, <2>3, LockKept DEF Clients
  <1>6. MaskInv'
    <2>1. ~Masked(g) /\ ~WillEnable(g)
      BY DEF Masked, WillEnable
    <2>2. \A i \in 1 .. n : /\ Masked(stack'[t][i]) => Masked(stack[t][i])
                            /\ WillEnable(stack'[t][i]) = WillEnable(stack[t][i])
      BY <1>2, <1>3
    <2>3. \A i \in 1 .. n + 1 : i \in 1 .. n \/ (~Masked(stack'[t][i]) /\ ~WillEnable(stack'[t][i]))
      BY <1>2, <1>3, <2>1
    <2>4. \A u \in Clients : \A i \in 1 .. Len(stack'[u]) :
            \/ ~Masked(stack'[u][i]) /\ ~WillEnable(stack'[u][i])
            \/ /\ i \in 1 .. Len(stack[u])
               /\ Masked(stack'[u][i]) => Masked(stack[u][i])
               /\ WillEnable(stack'[u][i]) => WillEnable(stack[u][i])
      BY <1>2, <2>2, <2>3
    <2>5. \A u \in Clients : \A i \in 1 .. Len(stack[u]) :
            i \in 1 .. Len(stack'[u]) /\ (WillEnable(stack[u][i]) => WillEnable(stack'[u][i]))
      BY <1>2, <1>3, <2>2
    <2>6. UNCHANGED <<started, signal, work, rxpc, rxEvent>>
      BY DEF Others, rxVars, hwVars
    <2>7. (started /\ ~signal =>
            \/ "card" \in rxEvent \/ rxpc # "wait"
            \/ \E u \in Clients : \E i \in 1 .. Len(stack[u]) : WillEnable(stack[u][i]))'
      BY <2>5, <2>6 DEF MaskInv
    <2>8. \A u \in Clients : (Inside(u) /\ Top(u).pc = "mask" /\ signal => Top(u).old)'
      BY <1>2, <2>6 DEF MaskInv, Inside, Top
    <2>9. \A u \in Clients : \A i \in 1 .. Len(stack'[u]) : Masked(stack'[u][i]) => ~signal'
      BY <2>4, <2>6 DEF MaskInv
    <2>10. \A u \in Clients : \A i, j \in 1 .. Len(stack'[u]) :
             i < j /\ Masked(stack'[u][i]) => ~WillEnable(stack'[u][j])
      BY <2>4 DEF MaskInv
    <2>11. ~started' => \A u \in Clients : \A i \in 1 .. Len(stack'[u]) : ~WillEnable(stack'[u][i])
      BY <2>4, <2>6 DEF MaskInv
    <2> QED
      BY <2>6, <2>7, <2>8, <2>9, <2>10, <2>11 DEF MaskInv
  <1>7. WindowInv'
    <2>0. UNCHANGED <<window, f1base, windowLost>>
      BY DEF Others, hwVars
    <2>1. \A u \in Clients : Writing(u) => Writing(u)'
      <3>1. Writing(t) => Writing(t)'
        BY <1>2, <1>3 DEF Writing
      <3> QED
        BY <1>2, <3>1 DEF Writing
    <2>2. TopWindow(t)'
      BY <1>2 DEF TopWindow, Ended
    <2>3. ASSUME ~windowLost, NEW u \in Clients, Inside(u)' PROVE TopWindow(u)'
      <3>1. CASE u = t
        BY <2>2, <3>1
      <3>2. CASE u # t
        BY <1>2, <2>0, <2>3, <3>2 DEF WindowInv, TopWindow, Inside, Top, Caller
      <3> QED
        BY <3>1, <3>2
    <2>4. ASSUME ~windowLost
          PROVE  \A u \in Clients : (Inside(u) /\ stack[u][1].fn = "F1Memory"
                   /\ stack[u][1].pc = "called" => f1base = stack[u][1].base)'
      <3>1. n = 1 => stack'[t][1] = f
        BY <1>2
      <3>2. n > 1 => stack'[t][1] = stack[t][1]
        BY <1>2, <1>3
      <3>3. n = 1 \/ n > 1
        BY <1>3
      <3> QED
        BY <1>2, <2>0, <2>4, <3>1, <3>2, <3>3 DEF WindowInv, Inside
    <2> QED
      BY <2>0, <2>1, <2>3, <2>4 DEF WindowInv
  <1>8. EventsInv'
    <2>0. UNCHANGED <<cmd, dat, event, status>>
      BY DEF Others, hwVars
    <2>1. TopEvents(t)' /\ OwnTop(Top(t))'
      BY <1>2, <2>0 DEF TopEvents, OwnTop
    <2> QED
      BY <1>2, <2>0, <2>1, EventsKept
  <1> QED
    BY <1>4, <1>5, <1>6, <1>7, <1>8
-----------------------------------------------------------------------------
(* A return: the top frame goes. *)

LEMMA Popped ==
  ASSUME Inv, NEW t \in Clients, Inside(t), stack' = [stack EXCEPT ![t] = Below(t)],
         Top(t).pc # "called", UNCHANGED <<f1base, windowLost, hwVars, event>>,
         Len(stack[t]) > 1 => ret'[t] # "none",
         \A u \in Clients : u # t => ret'[u] = ret[u],
         ~windowLost /\ Len(stack[t]) > 1 => TopWindow(t)'
  PROVE  /\ StacksInv' /\ WindowInv' /\ EventsInv'
         /\ ~WillEnable(Top(t)) /\ UNCHANGED <<signal, rxVars>> => MaskInv'
  <1> USE DEF Inv
  <1> DEFINE n == Len(stack[t])
  <1>2. /\ Len(stack'[t]) = n - 1
        /\ \A i \in 1 .. n - 1 : stack'[t][i] = stack[t][i]
        /\ \A u \in Clients : u # t => stack'[u] = stack[u]
        /\ Inside(t)' <=> n > 1
        /\ n > 1 => Top(t)' = Caller(t)
    BY Pops
  <1>3. n \in 1 .. 4 /\ n \in Nat /\ n > 0 /\ Top(t) = stack[t][n]
    BY StackTop DEF Top
  <1>4. StacksInv'
    BY ShapePops
  <1>5. n > 1 => Calls(Caller(t), Top(t))
    BY StackTop
  <1>6. ASSUME ~WillEnable(Top(t)), UNCHANGED <<signal, rxVars>> PROVE MaskInv'
    <2>1. \A u \in Clients : \A i \in 1 .. Len(stack'[u]) :
            i \in 1 .. Len(stack[u]) /\ stack'[u][i] = stack[u][i]
      BY <1>2, <1>3
    <2>2. \A u \in Clients : \A i \in 1 .. Len(stack[u]) :
            WillEnable(stack[u][i]) => i \in 1 .. Len(stack'[u]) /\ WillEnable(stack'[u][i])
      BY <1>2, <1>3, <1>6
    <2>3. UNCHANGED <<started, signal, work, rxpc, rxEvent>>
      BY <1>6 DEF rxVars, hwVars
    <2>4. (started /\ ~signal =>
            \/ "card" \in rxEvent \/ rxpc # "wait"
            \/ \E u \in Clients : \E i \in 1 .. Len(stack[u]) : WillEnable(stack[u][i]))'
      BY <2>2, <2>3 DEF MaskInv
    <2>5. \A u \in Clients : (Inside(u) /\ Top(u).pc = "mask" /\ signal => Top(u).old)'
      <3>1. (Inside(t) /\ Top(t).pc = "mask" /\ signal => Top(t).old)'
        BY <1>2, <1>5 DEF Calls
      <3> QED
        BY <1>2, <2>3, <3>1 DEF MaskInv, Inside, Top
    <2>6. \A u \in Clients : \A i \in 1 .. Len(stack'[u]) : Masked(stack'[u][i]) => ~signal'
      BY <2>1, <2>3 DEF MaskInv
    <2>7. \A u \in Clients : \A i, j \in 1 .. Len(stack'[u]) :
            i < j /\ Masked(stack'[u][i]) => ~WillEnable(stack'[u][j])
      BY <2>1 DEF MaskInv
    <2>8. ~started' => \A u \in Clients : \A i \in 1 .. Len(stack'[u]) : ~WillEnable(stack'[u][i])
      BY <2>1, <2>3 DEF MaskInv
    <2> QED
      BY <2>3, <2>4, <2>5, <2>6, <2>7, <2>8 DEF MaskInv
  <1>7. WindowInv'
    <2>0. UNCHANGED <<window, f1base, windowLost>>
      BY DEF hwVars
    <2>1. \A u \in Clients : Writing(u) => Writing(u)'
      <3>1. Writing(t) => Writing(t)'
        BY <1>2, <1>3 DEF Writing
      <3> QED
        BY <1>2, <3>1 DEF Writing
    <2>2. ASSUME ~windowLost PROVE \A u \in Clients : Inside(u)' => TopWindow(u)'
      BY <1>2, <2>0, <2>2 DEF WindowInv, TopWindow, Inside, Top, Caller
    <2>3. ASSUME ~windowLost
          PROVE  \A u \in Clients : (Inside(u) /\ stack[u][1].fn = "F1Memory"
                   /\ stack[u][1].pc = "called" => f1base = stack[u][1].base)'
      <3>1. n > 1 => stack'[t][1] = stack[t][1]
        BY <1>2, <1>3
      <3> QED
        BY <1>2, <2>0, <2>3, <3>1 DEF WindowInv, Inside
    <2> QED
      BY <2>0, <2>1, <2>2, <2>3 DEF WindowInv
  <1>8. EventsInv'
    <2>1. Inside(t)' => TopEvents(t)' /\ OwnTop(Top(t))'
      BY <1>2, <1>5 DEF TopEvents, OwnTop, Calls
    <2> QED
      BY <1>2, <2>1, EventsKept DEF hwVars
  <1> QED
    BY <1>4, <1>6, <1>7, <1>8
-----------------------------------------------------------------------------
(* The ways out of a function. *)

Left(f, r) ==
  [f EXCEPT !.pc = IF f.fn \in Masking THEN "restore" ELSE "release", !.bits = {}, !.res = r]

LEMMA LeftFrame ==
  ASSUME NEW f, FrameOK(f), f.pc \in {"body", "wait", "got", "called", "based"},
         NEW r \in {"ok", "fail"}
  PROVE  /\ Left(f, r) \in Frames /\ FrameOK(Left(f, r))
         /\ Left(f, r).fn = f.fn /\ Left(f, r).base = f.base /\ Left(f, r).n = f.n
         /\ Left(f, r).pc \in {"restore", "release"} /\ Left(f, r).res = r
         /\ Masked(Left(f, r)) => Masked(f)
         /\ WillEnable(Left(f, r)) = WillEnable(f)
  <1> DEFINE g == Left(f, r)
  <1>1. f \in Frames
    BY DEF FrameOK
  <1>2. /\ g \in Frames /\ g.fn = f.fn /\ g.base = f.base /\ g.n = f.n /\ g.old = f.old
        /\ g.pc = (IF f.fn \in Masking THEN "restore" ELSE "release") /\ g.res = r
    BY <1>1 DEF Left, Frames, Pcs
  <1>3. FrameOK(g)
    BY <1>2 DEF FrameOK
  <1>4. Masked(g) => Masked(f)
    BY <1>2 DEF Masked
  <1>5. WillEnable(g) = WillEnable(f)
    BY <1>2 DEF WillEnable
  <1> QED
    BY <1>2, <1>3, <1>4, <1>5

LEMMA CommandCalled ==
  ASSUME StacksInv, NEW t \in Clients, Inside(t), Top(t).fn = "SendCommand"
  PROVE  /\ Len(stack[t]) > 1 /\ FrameOK(Caller(t))
         /\ Caller(t).fn \in {"CardRegs", "CardData"} /\ Caller(t).pc = "called"
  <1>1. Placed(Len(stack[t]), Top(t)) /\ Len(stack[t]) \in Nat
    BY StackTop
  <1>2. Len(stack[t]) > 1
    <2> DEFINE n == Len(stack[t])
    <2>1. n \in 2 .. 4
      BY <1>1 DEF Placed
    <2> HIDE DEF n
    <2>2. n > 1
      BY <2>1
    <2> QED
      BY <2>2 DEF n
  <1>3. Calls(Caller(t), Top(t)) /\ FrameOK(Caller(t))
    BY <1>2, StackTop
  <1> QED
    BY <1>2, <1>3 DEF Calls

(* What a function that ends leaves behind of the window.                  *)
LEMMA LeftWindow ==
  ASSUME Inv, NEW t \in Clients, Inside(t), NEW r \in {"ok", "fail"},
         Top(t).pc \in {"body", "wait", "got", "called", "based"}, Become(t, Left(Top(t), r)),
         Top(t).fn # "SetF1Base", UNCHANGED <<f1base, window, windowLost>>,
         \/ r = "fail" \/ Top(t).pc = "got"
         \/ Top(t).pc = "body" /\ Top(t).fn # "SendCommand" /\ Top(t).n = 0
  PROVE  ~windowLost => TopWindow(t)'
  <1> DEFINE f == Top(t)
             g == Left(f, r)
  <1>1. StacksInv
    BY DEF Inv
  <1>2. FrameOK(f) /\ (f.fn = "SendCommand" => Len(stack[t]) > 1)
    BY <1>1, StackTop, CommandCalled
  <1>3. /\ g \in Frames /\ g.fn = f.fn /\ g.base = f.base /\ g.n = f.n /\ g.res = r
        /\ g.pc \in {"restore", "release"}
    BY <1>2, LeftFrame
  <1>4. Top(t)' = g /\ (Len(stack[t]) > 1 => Caller(t)' = Caller(t))
    BY <1>1, <1>3, Becomes
  <1>5. SUFFICES ASSUME ~windowLost PROVE TopWindow(t)'
    OBVIOUS
  <1>6. TopWindow(t)
    BY <1>5 DEF Inv, WindowInv
  <1>7. f.pc = "got" => f.fn \in {"SendCommand", "CardData"}
    BY <1>2 DEF FrameOK
  <1> HIDE DEF g
  <1> QED
    BY <1>2, <1>3, <1>4, <1>6, <1>7 DEF TopWindow, Ended

LEMMA Leaves ==
  ASSUME Inv, NEW t \in Clients, Inside(t), NEW r \in {"ok", "fail"}, Leave(t, r),
         Top(t).pc \in {"body", "wait", "got", "called", "based"}, Top(t).fn # "SetF1Base",
         \/ r = "fail" \/ Top(t).pc = "got"
         \/ Top(t).pc = "body" /\ Top(t).fn # "SendCommand" /\ Top(t).n = 0,
         UNCHANGED <<owner, depth, leaked, signal, event, f1base, windowLost, rxVars,
                     cmd, dat, status, window, work>>,
         \A u \in Clients : u # t => ret'[u] = ret[u]
  PROVE  Inv'
  <1> DEFINE f == Top(t)
             g == Left(f, r)
  <1>1. StacksInv
    BY DEF Inv
  <1>2. FrameOK(f)
    BY <1>1, StackTop
  <1>3. /\ g \in Frames /\ FrameOK(g) /\ g.fn = f.fn /\ g.base = f.base
        /\ g.pc \in {"restore", "release"}
        /\ Masked(g) => Masked(f)
        /\ WillEnable(g) = WillEnable(f)
    BY <1>2, LeftFrame
  <1>4. Become(t, g)
    BY DEF Leave, Left
  <1>5. Top(t)' = g
    BY <1>1, <1>3, <1>4, Becomes
  <1>6. ~windowLost => TopWindow(t)'
    BY <1>4, LeftWindow
  <1>7. OwnTop(g)
    BY <1>3 DEF OwnTop
  <1>8. TopEvents(t)'
    <2>1. Top(t)'.pc \in {"restore", "release"}
      BY <1>3, <1>5
    <2> QED
      BY <2>1 DEF TopEvents
  <1> HIDE DEF g
  <1> QED
    BY <1>3, <1>4, <1>6, <1>7, <1>8, OnlyMoved
-----------------------------------------------------------------------------
(* The steps of the threads keep the invariant, one by one. *)

LEMMA SaveIrqKeeps ==
  ASSUME SdioInv, NEW t \in Clients, SaveIrq(t)
  PROVE  Inv'
  <1> DEFINE f == Top(t)
             g == [f EXCEPT !.pc = "mask", !.old = signal]
  <1>1. /\ Inv /\ StacksInv /\ Scalars /\ Inside(t) /\ f.pc = "save" /\ Become(t, g)
        /\ UNCHANGED <<owner, depth, leaked, signal, event, ret, f1base, windowLost, rxVars,
                       cmd, dat, status, window, work>>
    BY DEF SdioInv, Inv, SaveIrq, hwVars
  <1>2. FrameOK(f) /\ f \in Frames /\ f.fn \in Masking
    BY <1>1, StackTop DEF FrameOK
  <1>3. /\ g \in Frames /\ g.fn = f.fn /\ g.base = f.base /\ g.n = f.n
        /\ g.pc = "mask" /\ g.old = signal
    BY <1>1, <1>2 DEF Frames, Pcs, Scalars
  <1>4. FrameOK(g)
    BY <1>1, <1>2, <1>3 DEF FrameOK
  <1>5. ~Masked(g) /\ ~WillEnable(f) /\ (WillEnable(g) => signal)
    BY <1>1, <1>3 DEF Masked, WillEnable
  <1>6. Top(t)' = g /\ (Len(stack[t]) > 1 => Caller(t)' = Caller(t))
    BY <1>1, <1>3, Becomes
  <1>7. TopWindow(t)'
    BY <1>3, <1>6 DEF TopWindow, Ended
  <1>8. TopEvents(t)' /\ OwnTop(g)
    <2>1. OwnTop(g)
      BY <1>3 DEF OwnTop
    <2>2. TopEvents(t)
      BY <1>1 DEF Inv, EventsInv
    <2>3. f.fn = "SendCommand" => Len(stack[t]) > 1
      BY <1>1, CommandCalled
    <2>4. TopEvents(t)'
      BY <1>1, <1>3, <1>6, <2>2, <2>3 DEF TopEvents
    <2> QED
      BY <2>1, <2>4
  <1> HIDE DEF g
  <1> QED
    BY <1>1, <1>3, <1>4, <1>5, <1>6, <1>7, <1>8, OnlyMoved

LEMMA MaskIrqKeeps ==
  ASSUME SdioInv, NEW t \in Clients, MaskIrq(t)
  PROVE  Inv'
  <1> DEFINE f == Top(t)
             g == [f EXCEPT !.pc = "body"]
             n == Len(stack[t])
  <1>1. /\ Inv /\ StacksInv /\ Scalars /\ LockInv /\ MaskInv
        /\ Inside(t) /\ f.pc = "mask" /\ Become(t, g) /\ signal' = FALSE
        /\ UNCHANGED <<owner, depth, leaked, event, ret, f1base, windowLost, rxVars,
                       cmd, dat, status, window, work>>
    BY DEF SdioInv, Inv, MaskIrq, Goto, hwVars
  <1>2. FrameOK(f) /\ f \in Frames /\ f.fn \in Masking
    BY <1>1, StackTop DEF FrameOK
  <1>3. /\ g \in Frames /\ g.fn = f.fn /\ g.base = f.base /\ g.n = f.n
        /\ g.pc = "body" /\ g.old = f.old
    BY <1>1, <1>2 DEF Frames, Pcs
  <1>4. FrameOK(g)
    BY <1>1, <1>2, <1>3 DEF FrameOK
  <1>5. WillEnable(g) = f.old /\ WillEnable(f) = f.old
    <2>1. f.old \in BOOLEAN
      BY <1>2 DEF Frames
    <2> QED
      BY <1>1, <1>2, <1>3, <2>1 DEF WillEnable
  <1> HIDE DEF g
  <1>6. /\ Len(stack'[t]) = n /\ stack'[t][n] = g
        /\ \A i \in 1 .. n - 1 : stack'[t][i] = stack[t][i]
        /\ \A u \in Clients : u # t => stack'[u] = stack[u]
        /\ Top(t)' = g /\ (n > 1 => Caller(t)' = Caller(t))
    BY <1>1, <1>3, Becomes
  <1>7. ~windowLost => TopWindow(t)'
    <2>1. f.fn = "CardRegs" => f.n > 0
      BY <1>1, <1>2 DEF FrameOK
    <2> QED
      BY <1>3, <1>6, <2>1 DEF TopWindow, Ended
  <1>8. StacksInv' /\ LockInv' /\ WindowInv'
    BY <1>1, <1>3, <1>4, <1>7, Moved
  <1>9. EventsInv'
    <2>1. OwnTop(g)
      BY <1>3 DEF OwnTop
    <2>2. TopEvents(t)
      BY <1>1 DEF Inv, EventsInv
    <2>3. f.fn = "SendCommand" => n > 1
      BY <1>1, CommandCalled
    <2>4. TopEvents(t)'
      BY <1>1, <1>3, <1>6, <2>2, <2>3 DEF TopEvents
    <2> QED
      BY <1>1, <1>3, <1>4, <2>1, <2>4, MovedEvents
  <1>10. MaskInv'
    <2>0. UNCHANGED <<started, work, rxpc, rxEvent>>
      BY <1>1 DEF rxVars
    <2>1. n \in Nat /\ n > 0 /\ f = stack[t][n]
      BY <1>1, StackTop DEF Top
    <2>2. \A u \in Clients : /\ Len(stack'[u]) = Len(stack[u])
                             /\ \A i \in 1 .. Len(stack[u]) :
                                  WillEnable(stack'[u][i]) = WillEnable(stack[u][i])
      BY <1>5, <1>6, <2>1
    <2>3. \A u \in Clients : \A i \in 1 .. Len(stack[u]) :
            Masked(stack'[u][i]) => Masked(stack[u][i]) \/ (u = t /\ i = n)
      BY <1>6, <2>1
    <2>4. ASSUME NEW u \in Clients, NEW i \in 1 .. Len(stack'[u]), NEW j \in 1 .. Len(stack'[u]),
                 i < j, Masked(stack'[u][i])
          PROVE  ~WillEnable(stack'[u][j])
      <3>1. i \in 1 .. Len(stack[u]) /\ j \in 1 .. Len(stack[u])
            /\ WillEnable(stack'[u][j]) = WillEnable(stack[u][j])
        BY <2>2
      <3>2. ~(u = t /\ i = n)
        BY <2>1, <2>4, <3>1
      <3>3. Masked(stack[u][i])
        BY <2>3, <2>4, <3>1, <3>2
      <3> QED
        BY <1>1, <2>4, <3>1, <3>3 DEF MaskInv
    <2>5. ASSUME started, "card" \notin rxEvent, rxpc = "wait"
          PROVE  \E u \in Clients : \E i \in 1 .. Len(stack'[u]) : WillEnable(stack'[u][i])
      <3>1. CASE signal
        <4>1. f.old
          BY <1>1, <3>1 DEF MaskInv
        <4>2. WillEnable(stack'[t][n])
          BY <1>5, <1>6, <4>1
        <4> QED
          BY <1>6, <2>1, <4>2
      <3>2. CASE ~signal
        BY <1>1, <2>2, <2>5, <3>2 DEF MaskInv
      <3> QED
        BY <3>1, <3>2
    <2>6. rxpc # "unlock"
      BY <1>1, Alone, RxNextDomain DEF LockInv, RxHolds, Clients
    <2>7. ~started => \A u \in Clients : \A i \in 1 .. Len(stack'[u]) : ~WillEnable(stack'[u][i])
      BY <1>1, <2>2 DEF MaskInv
    <2> QED
      BY <1>1, <2>0, <2>4, <2>5, <2>6, <2>7 DEF MaskInv
  <1> QED
    BY <1>8, <1>9, <1>10 DEF Inv

LEMMA RestoredMask ==
  ASSUME SdioInv, NEW t \in Clients, RestoreIrq(t),
         \A u \in Clients : u # t => stack'[u] = stack[u],
         \A i \in 1 .. Len(stack'[t]) :
           \/ i \in 1 .. Len(stack[t]) - 1 /\ stack'[t][i] = stack[t][i]
           \/ ~Masked(stack'[t][i]) /\ ~WillEnable(stack'[t][i]),
         \A i \in 1 .. Len(stack[t]) - 1 : i \in 1 .. Len(stack'[t]) /\ stack'[t][i] = stack[t][i],
         Inside(t)' => Top(t)'.pc # "mask"
  PROVE  MaskInv'
  <1> DEFINE f == Top(t)
             n == Len(stack[t])
  <1>1. /\ StacksInv /\ Scalars /\ LockInv /\ MaskInv
        /\ Inside(t) /\ f.pc = "restore" /\ signal' = f.old
        /\ UNCHANGED <<started, work, rxpc, rxEvent>>
    BY DEF SdioInv, Inv, RestoreIrq, rxVars, hwVars
  <1>2. /\ n \in Nat /\ n > 0 /\ f = stack[t][n] /\ FrameOK(f)
        /\ n \in 1 .. n
    BY <1>1, StackTop DEF Top
  <1>3. f.fn \in Masking /\ f.old \in BOOLEAN
    BY <1>1, <1>2 DEF FrameOK, Frames
  <1>4. Masked(f) /\ WillEnable(f) = f.old
    BY <1>1, <1>3 DEF Masked, WillEnable
  <1>5. ~signal
    BY <1>1, <1>2, <1>4 DEF MaskInv
  <1>6. \A i \in 1 .. n - 1 : Masked(stack[t][i]) => ~f.old
    <2> SUFFICES ASSUME NEW i \in 1 .. n - 1, Masked(stack[t][i]) PROVE ~f.old
      OBVIOUS
    <2>1. i \in 1 .. n /\ i < n
      BY <1>2
    <2>2. ~WillEnable(stack[t][n])
      BY <1>1, <1>2, <2>1 DEF MaskInv
    <2> QED
      BY <1>2, <1>4, <2>2
  <1>7. \A u \in Clients : u # t /\ Inside(u) => Len(stack[u]) = 1 /\ Top(u).pc = "enter"
    BY <1>1, Alone
  <1>8. \A u \in Clients : u # t => \A i \in 1 .. Len(stack[u]) : ~Masked(stack[u][i])
    <2> SUFFICES ASSUME NEW u \in Clients, u # t, NEW i \in 1 .. Len(stack[u])
                 PROVE  ~Masked(stack[u][i])
      OBVIOUS
    <2>1. Inside(u)
      BY <1>1, StackTop
    <2>2. stack[u][i].pc = "enter"
      BY <1>7, <2>1 DEF Top
    <2> QED
      BY <2>2 DEF Masked
  <1>9. rxpc # "unlock"
    BY <1>1, Alone, RxNextDomain DEF LockInv, RxHolds, Clients
  <1>10. \A u \in Clients : (Inside(u) /\ Top(u).pc = "mask" /\ signal => Top(u).old)'
    BY <1>7 DEF Inside, Top
  <1>11. \A u \in Clients : \A i \in 1 .. Len(stack'[u]) : Masked(stack'[u][i]) => ~signal'
    <2> SUFFICES ASSUME NEW u \in Clients, NEW i \in 1 .. Len(stack'[u]), Masked(stack'[u][i])
                 PROVE  ~f.old
      BY <1>1
    <2>1. CASE u # t
      BY <1>8, <2>1
    <2>2. CASE u = t
      BY <1>6, <2>2
    <2> QED
      BY <2>1, <2>2
  <1>12. \A u \in Clients : \A i, j \in 1 .. Len(stack'[u]) :
           i < j /\ Masked(stack'[u][i]) => ~WillEnable(stack'[u][j])
    <2> SUFFICES ASSUME NEW u \in Clients, NEW i \in 1 .. Len(stack'[u]),
                        NEW j \in 1 .. Len(stack'[u]),
                        i < j, Masked(stack'[u][i]), WillEnable(stack'[u][j])
                 PROVE  FALSE
      OBVIOUS
    <2>1. CASE u # t
      BY <1>8, <2>1
    <2>2. CASE u = t
      <3>1. /\ i \in 1 .. n - 1 /\ stack'[t][i] = stack[t][i]
            /\ j \in 1 .. n - 1 /\ stack'[t][j] = stack[t][j]
        BY <2>2
      <3>2. i \in 1 .. n /\ j \in 1 .. n
        BY <1>2, <3>1
      <3> QED
        BY <1>1, <2>2, <3>1, <3>2 DEF MaskInv
    <2> QED
      BY <2>1, <2>2
  <1>13. \A u \in Clients : \A i \in 1 .. Len(stack'[u]) :
           WillEnable(stack'[u][i]) => i \in 1 .. Len(stack[u]) /\ WillEnable(stack[u][i])
    <2>1. \A i \in 1 .. Len(stack'[t]) :
            WillEnable(stack'[t][i]) => i \in 1 .. n /\ WillEnable(stack[t][i])
      BY <1>2
    <2> QED
      BY <2>1
  <1>14. ~started => \A u \in Clients : \A i \in 1 .. Len(stack'[u]) : ~WillEnable(stack'[u][i])
    BY <1>1, <1>13 DEF MaskInv
  <1>15. ~started => ~f.old
    BY <1>1, <1>2, <1>4 DEF MaskInv
  <1>16. ASSUME started, ~f.old, "card" \notin rxEvent, rxpc = "wait"
         PROVE  \E u \in Clients : \E i \in 1 .. Len(stack'[u]) : WillEnable(stack'[u][i])
    <2>1. PICK u \in Clients : \E i \in 1 .. Len(stack[u]) : WillEnable(stack[u][i])
      BY <1>1, <1>5, <1>16 DEF MaskInv
    <2>2. PICK i \in 1 .. Len(stack[u]) : WillEnable(stack[u][i])
      BY <2>1
    <2>3. CASE u # t
      BY <2>2, <2>3
    <2>4. CASE u = t
      <3>1. i # n
        BY <1>2, <1>4, <1>16, <2>2, <2>4
      <3>2. i \in 1 .. n - 1
        BY <1>2, <2>4, <3>1
      <3> QED
        BY <2>2, <2>4, <3>2
    <2> QED
      BY <2>3, <2>4
  <1> QED
    BY <1>1, <1>9, <1>10, <1>11, <1>12, <1>14, <1>15, <1>16 DEF MaskInv

LEMMA RestoreIrqKeeps ==
  ASSUME SdioInv, NEW t \in Clients, RestoreIrq(t)
  PROVE  Inv'
  <1> DEFINE f == Top(t)
             g == [f EXCEPT !.pc = "release"]
             n == Len(stack[t])
  <1>1. /\ Inv /\ StacksInv /\ Scalars /\ LockInv /\ Inside(t) /\ f.pc = "restore"
        /\ UNCHANGED <<owner, depth, event, f1base, windowLost, rxVars, hwVars>>
    BY DEF SdioInv, Inv, RestoreIrq
  <1>2. FrameOK(f) /\ f \in Frames /\ f.fn \in Masking
    BY <1>1, StackTop DEF FrameOK
  <1>3. n \in Nat /\ n > 0 /\ Placed(n, f)
    BY <1>1, StackTop
  <1>4. CASE f.fn = "F1Memory" /\ f.res = "fail"
    <2>1. /\ Return(t, "fail") /\ leaked' = [leaked EXCEPT ![t] = @ + 1]
      BY <1>4 DEF RestoreIrq
    <2>2. n = 1 /\ ~(n > 1) /\ n - 1 = 0
      <3>1. n = 1
        BY <1>3, <1>4 DEF Placed
      <3> HIDE DEF n
      <3> QED
        BY <3>1
    <2>3. /\ stack' = [stack EXCEPT ![t] = Below(t)]
          /\ \A u \in Clients : u # t => ret'[u] = ret[u]
      BY <1>1, <2>1 DEF Return, Scalars
    <2>4. StacksInv' /\ WindowInv' /\ EventsInv'
      <3>1. f.pc # "called" /\ UNCHANGED <<f1base, windowLost, hwVars, event>>
        BY <1>1
      <3>2. Len(stack[t]) > 1 => ret'[t] # "none"
        BY <2>2
      <3>3. ~windowLost /\ Len(stack[t]) > 1 => TopWindow(t)'
        BY <2>2
      <3>4. Inv /\ Inside(t)
        BY <1>1
      <3> HIDE DEF f
      <3> QED
        BY <2>3, <3>1, <3>2, <3>3, <3>4, Popped DEF f
    <2>5. /\ Len(stack'[t]) = 0
          /\ \A u \in Clients : u # t => stack'[u] = stack[u]
          /\ ~Inside(t)'
      <3>1. /\ Len(stack'[t]) = n - 1
            /\ \A u \in Clients : u # t => stack'[u] = stack[u]
            /\ Inside(t)' <=> n > 1
        BY <1>1, <2>3, Pops
      <3> QED
        BY <2>2, <3>1
    <2>6. MaskInv'
      <3>1. \A i \in 1 .. Len(stack'[t]) : FALSE
        BY <2>5
      <3>2. \A i \in 1 .. n - 1 : FALSE
        BY <2>2
      <3> QED
        BY <2>5, <3>1, <3>2, RestoredMask
    <2>7. LockInv'
      <3>1. Taken(t) = 1 /\ Taken(t)' = 0
        BY <1>1, <2>2, <2>5 DEF Taken
      <3>2. leaked[t] \in Nat /\ leaked'[t] = leaked[t] + 1
            /\ \A u \in Clients : u # t => leaked'[u] = leaked[u]
        BY <1>1, <2>1 DEF Scalars
      <3>3. \A u \in Clients : u # t => Taken(u)' = Taken(u) /\ (Inside(u)' <=> Inside(u))
        BY <2>5 DEF Taken, Inside, Top
      <3>4. rxpc' = rxpc /\ (RxHolds' <=> RxHolds)
        BY <1>1 DEF rxVars, RxHolds
      <3>5. \A u \in Clients : Due(u)' = Due(u)
        <4>1. \A u \in Clients : u # t => Due(u)' = Due(u)
          BY <3>2, <3>3, <3>4 DEF Due
        <4>2. Due(t)' = Due(t)
          BY <3>1, <3>2, <3>4 DEF Due
        <4> QED
          BY <4>1, <4>2
      <3>6. Inside(Rx)' => Inside(Rx)
        BY <2>5, <3>3 DEF Clients
      <3> QED
        BY <1>1, <3>4, <3>5, <3>6 DEF LockInv
    <2> QED
      BY <2>4, <2>6, <2>7 DEF Inv
  <1>5. CASE ~(f.fn = "F1Memory" /\ f.res = "fail")
    <2>1. Become(t, g) /\ UNCHANGED <<ret, leaked>>
      BY <1>5 DEF RestoreIrq, Goto
    <2>2. /\ g \in Frames /\ g.fn = f.fn /\ g.base = f.base /\ g.n = f.n /\ g.res = f.res
          /\ g.pc = "release"
      BY <1>1, <1>2 DEF Frames, Pcs
    <2>3. FrameOK(g) /\ ~Masked(g) /\ ~WillEnable(g)
      BY <1>2, <2>2 DEF FrameOK, Masked, WillEnable
    <2> HIDE DEF g
    <2>4. /\ Len(stack'[t]) = n /\ stack'[t][n] = g
          /\ \A i \in 1 .. n - 1 : stack'[t][i] = stack[t][i]
          /\ \A u \in Clients : u # t => stack'[u] = stack[u]
          /\ Top(t)' = g /\ (n > 1 => Caller(t)' = Caller(t))
      BY <1>1, <2>1, <2>2, Becomes
    <2>5. UNCHANGED <<window, cmd, dat, status>>
      BY <1>1 DEF hwVars
    <2>6. ~windowLost => TopWindow(t)'
      <3>1. SUFFICES ASSUME ~windowLost PROVE TopWindow(t)'
        OBVIOUS
      <3>2. TopWindow(t)
        BY <1>1, <3>1 DEF Inv, WindowInv
      <3>3. f.fn = "SendCommand" => n > 1
        BY <1>1, CommandCalled
      <3> QED
        BY <1>1, <2>2, <2>4, <2>5, <3>2, <3>3 DEF TopWindow, Ended
    <2>7. StacksInv' /\ LockInv' /\ WindowInv'
      BY <1>1, <2>1, <2>2, <2>3, <2>5, <2>6, Moved
    <2>8. EventsInv'
      <3>1. TopEvents(t)' /\ OwnTop(g)
        BY <2>2, <2>4 DEF TopEvents, OwnTop
      <3> QED
        BY <1>1, <2>1, <2>3, <2>5, <3>1, MovedEvents
    <2>9. MaskInv'
      <3>1. \A i \in 1 .. n : i \in 1 .. n - 1 \/ i = n
        BY <1>3
      <3>2. \A i \in 1 .. n - 1 : i \in 1 .. n
        BY <1>3
      <3>3. Top(t)'.pc # "mask"
        BY <2>2, <2>4
      <3>4. \A i \in 1 .. Len(stack'[t]) :
              \/ i \in 1 .. n - 1 /\ stack'[t][i] = stack[t][i]
              \/ ~Masked(stack'[t][i]) /\ ~WillEnable(stack'[t][i])
        BY <2>3, <2>4, <3>1
      <3>5. \A i \in 1 .. n - 1 : i \in 1 .. Len(stack'[t]) /\ stack'[t][i] = stack[t][i]
        BY <2>4, <3>2
      <3> QED
        BY <2>4, <3>3, <3>4, <3>5, RestoredMask
    <2> QED
      BY <2>7, <2>8, <2>9 DEF Inv
  <1> QED
    BY <1>4, <1>5

LEMMA ReleaseKeeps ==
  ASSUME SdioInv, NEW t \in Clients, Release(t)
  PROVE  Inv'
  <1> DEFINE f == Top(t)
             c == Caller(t)
             n == Len(stack[t])
  <1>1. /\ Inv /\ StacksInv /\ Scalars /\ LockInv /\ Inside(t) /\ f.pc = "release"
        /\ depth' = depth - 1 /\ owner' = (IF depth = 1 THEN None ELSE owner)
        /\ Return(t, f.res)
        /\ UNCHANGED <<leaked, signal, event, f1base, windowLost, rxVars, hwVars>>
    BY DEF SdioInv, Inv, Release
  <1>2. FrameOK(f) /\ f.res \in {"ok", "fail"}
    BY <1>1, StackTop DEF FrameOK, Frames
  <1>3. /\ n \in Nat /\ n > 0 /\ Placed(n, f)
        /\ n > 1 => Calls(c, f) /\ FrameOK(c)
    BY <1>1, StackTop
  <1>4. /\ stack' = [stack EXCEPT ![t] = Below(t)]
        /\ \A u \in Clients : u # t => ret'[u] = ret[u]
        /\ n > 1 => ret'[t] = f.res
    <2>1. n > 1 => ~(n = 1)
      <3> HIDE DEF n
      <3> QED
        OBVIOUS
    <2> QED
      BY <1>1, <2>1 DEF Return, Scalars
  <1>5. /\ Len(stack'[t]) = n - 1
        /\ \A u \in Clients : u # t => stack'[u] = stack[u]
        /\ Inside(t)' <=> n > 1
        /\ n > 1 => Top(t)' = c
    BY <1>1, <1>4, Pops
  <1>6. UNCHANGED <<window, cmd, dat, status>>
    BY <1>1 DEF hwVars
  <1>7. ~windowLost /\ n > 1 => TopWindow(t)'
    <2>1. SUFFICES ASSUME ~windowLost, n > 1 PROVE TopWindow(t)'
      OBVIOUS
    <2>2. TopWindow(t)
      BY <1>1, <2>1 DEF Inv, WindowInv
    <2>3. c.fn = "SetF1Base" => c.base # None
      BY <1>3, <2>1, SdioAssumption DEF FrameOK
    <2> HIDE DEF c, f
    <2>4. CASE f.fn = "SendCommand"
      <3>1. c.fn \in {"CardRegs", "CardData"}
        BY <1>3, <2>1, <2>4 DEF Calls
      <3>2. c.fn = "CardRegs" /\ c.base # None /\ c.n = 1 /\ f.res = "ok" => window = c.base
        BY <1>1, <2>2, <2>4 DEF TopWindow, Ended, c, f
      <3> QED
        BY <1>3, <1>4, <1>5, <1>6, <2>1, <2>4, <3>1, <3>2 DEF TopWindow, Ended, Calls
    <2>5. CASE f.fn = "CardRegs"
      <3>1. c.fn \in {"SetF1Base", "SetClocks"} /\ (c.fn = "SetF1Base" => c.base = f.base)
        BY <1>3, <2>1, <2>5 DEF Calls
      <3>2. f.base # None /\ f.res = "ok" => window = f.base
        BY <1>1, <2>2, <2>5 DEF TopWindow, Ended, f
      <3> QED
        BY <1>3, <1>4, <1>5, <1>6, <2>1, <2>3, <2>5, <3>1, <3>2 DEF TopWindow, Ended, Calls
    <2>6. CASE f.fn = "SetF1Base"
      <3>1. c.fn = "F1Memory" /\ c.base = f.base
        BY <1>3, <2>1, <2>6 DEF Calls
      <3>2. f.res = "ok" => f1base = f.base
        BY <1>1, <2>2, <2>6 DEF TopWindow, Ended, f
      <3> QED
        BY <1>1, <1>4, <1>5, <2>1, <3>1, <3>2 DEF TopWindow
    <2>7. CASE f.fn = "CardData"
      <3>1. c.fn = "F1Memory" /\ c.pc = "called"
        BY <1>3, <2>1, <2>7 DEF Calls
      <3> QED
        BY <1>5, <2>1, <3>1 DEF TopWindow
    <2>8. f.fn \in {"SendCommand", "CardRegs", "SetF1Base", "CardData"}
      BY <1>3, <2>1 DEF Calls
    <2> QED
      BY <2>4, <2>5, <2>6, <2>7, <2>8
  <1>8. ~WillEnable(f)
    BY <1>1 DEF WillEnable
  <1>9. StacksInv' /\ WindowInv' /\ EventsInv' /\ MaskInv'
    BY <1>1, <1>2, <1>4, <1>7, <1>8, Popped
  <1>10. LockInv'
    <2>1. owner = t /\ depth \in Nat /\ depth > 0
      BY <1>1, Alone
    <2>2. Taken(t) = n
      BY <1>1 DEF Taken
    <2>3. Taken(t)' = n - 1
      <3>1. n > 1 => Top(t)'.pc # "enter"
        BY <1>3, <1>5 DEF Calls
      <3> QED
        BY <1>5, <3>1 DEF Taken
    <2>4. \A u \in Clients : u # t => Taken(u)' = Taken(u) /\ (Inside(u)' <=> Inside(u))
      BY <1>5 DEF Taken, Inside, Top
    <2>5. rxpc' = rxpc /\ (RxHolds' <=> RxHolds)
      BY <1>1 DEF rxVars, RxHolds
    <2>6. \A u \in Clients : leaked[u] \in Nat
      BY <1>1 DEF Scalars
    <2>7. \A u \in Clients : u # t => Due(u)' = Due(u)
      BY <1>1, <2>4, <2>5 DEF Due
    <2>8. Due(t)' = Due(t) - 1
      BY <1>1, <1>3, <2>2, <2>3, <2>5, <2>6 DEF Due
    <2>9. Due(t) = depth /\ \A u \in Clients : u # t => Due(u) = 0
      BY <1>1, <2>1 DEF LockInv
    <2>10. t # None
      BY SdioAssumption DEF Clients
    <2>11. \A u \in Clients : Due(u)' = IF owner' = u THEN depth' ELSE 0
      BY <1>1, <2>1, <2>7, <2>8, <2>9, <2>10
    <2>12. owner' = None => depth' = 0
      BY <1>1, <2>1, <2>10
    <2>13. Inside(Rx)' => Inside(Rx)
      BY <1>1, <2>4 DEF Clients
    <2> QED
      BY <1>1, <2>5, <2>11, <2>12, <2>13 DEF LockInv
  <1> QED
    BY <1>9, <1>10 DEF Inv

LEMMA EnterKeeps ==
  ASSUME SdioInv, NEW t \in Clients, Enter(t)
  PROVE  Inv'
  <1> DEFINE f == Top(t)
             c == Caller(t)
             n == Len(stack[t])
  <1>1. /\ Inv /\ StacksInv /\ Scalars /\ LockInv /\ Inside(t) /\ f.pc = "enter"
        /\ UNCHANGED <<leaked, signal, event, f1base, windowLost, rxVars, hwVars>>
    BY DEF SdioInv, Inv, Enter
  <1>2. FrameOK(f) /\ f \in Frames
    BY <1>1, StackTop DEF FrameOK
  <1>3. /\ n \in Nat /\ n > 0 /\ Placed(n, f)
        /\ n > 1 => Calls(c, f) /\ FrameOK(c)
    BY <1>1, StackTop
  <1>4. UNCHANGED <<window, cmd, dat, status, work, rxpc>>
    BY <1>1 DEF hwVars, rxVars
  <1>5. RxHolds' <=> RxHolds
    BY <1>4 DEF RxHolds
  <1>6. CASE f.fn = "SetF1Base" /\ f1base = f.base
    <2>1. Return(t, "ok") /\ UNCHANGED <<owner, depth>>
      BY <1>6 DEF Enter
    <2>2. n > 1 /\ ~(n = 1)
      <3>1. n = 2
        BY <1>3, <1>6 DEF Placed
      <3> HIDE DEF n
      <3> QED
        BY <3>1
    <2>3. /\ stack' = [stack EXCEPT ![t] = Below(t)]
          /\ \A u \in Clients : u # t => ret'[u] = ret[u]
          /\ ret'[t] = "ok"
      BY <1>1, <2>1, <2>2 DEF Return, Scalars
    <2>4. /\ Len(stack'[t]) = n - 1
          /\ \A u \in Clients : u # t => stack'[u] = stack[u]
          /\ Inside(t)' /\ Top(t)' = c
      BY <1>1, <2>2, <2>3, Pops
    <2>5. Calls(c, f)
      BY <1>3, <2>2
    <2>6. c.fn = "F1Memory" /\ c.base = f.base /\ c.pc = "based"
      BY <1>6, <2>5 DEF Calls
    <2>7. TopWindow(t)'
      BY <1>1, <1>6, <2>4, <2>6 DEF TopWindow
    <2>8. ~WillEnable(f)
      BY <1>1 DEF WillEnable
    <2>9. StacksInv' /\ WindowInv' /\ EventsInv' /\ MaskInv'
      BY <1>1, <2>3, <2>7, <2>8, Popped
    <2>10. LockInv'
      <3>1. Taken(t)' = Taken(t)
        BY <1>1, <2>4, <2>6 DEF Taken
      <3>2. \A u \in Clients : Taken(u)' = Taken(u)
        BY <2>4, <3>1 DEF Taken, Inside, Top
      <3>3. Inside(Rx)' => Inside(Rx)
        BY <1>1, <2>4 DEF Inside, Clients
      <3> QED
        BY <1>1, <1>4, <2>1, <3>2, <3>3, LockKept
    <2> QED
      BY <2>9, <2>10 DEF Inv
  <1>7. CASE ~(f.fn = "SetF1Base" /\ f1base = f.base)
    <2> DEFINE g == [f EXCEPT !.pc = IF f.fn \in Masking THEN "save" ELSE "body"]
    <2>1. /\ owner \in {None, t} /\ owner' = t /\ depth' = depth + 1
          /\ Become(t, g) /\ UNCHANGED ret
      BY <1>7 DEF Enter, Goto
    <2>2. /\ g \in Frames /\ g.fn = f.fn /\ g.base = f.base /\ g.n = f.n
          /\ g.pc = (IF f.fn \in Masking THEN "save" ELSE "body")
      BY <1>1, <1>2 DEF Frames, Pcs
    <2>3. FrameOK(g) /\ ~Masked(g) /\ ~WillEnable(g) /\ ~WillEnable(f)
      <3>1. g.fn \in {"F1Memory", "CardRegs"} => g.n > 0
        BY <1>1, <1>2, <2>2 DEF FrameOK
      <3>2. FrameOK(g)
        BY <1>1, <1>2, <2>2, <3>1 DEF FrameOK
      <3> QED
        BY <1>1, <2>2, <3>2 DEF Masked, WillEnable
    <2> HIDE DEF g
    <2>4. /\ Len(stack'[t]) = n /\ stack'[t][n] = g
          /\ \A u \in Clients : u # t => stack'[u] = stack[u]
          /\ Inside(t)' /\ Top(t)' = g /\ (n > 1 => Caller(t)' = c)
      BY <1>1, <2>1, <2>2, Becomes
    <2>5. TopWindow(t)'
      BY <2>2, <2>4 DEF TopWindow, Ended, Masking
    <2>6. TopEvents(t)' /\ OwnTop(g)
      <3>1. TopEvents(t)
        BY <1>1 DEF Inv, EventsInv
      <3>2. f.fn = "SendCommand" => n > 1
        BY <1>1, CommandCalled
      <3> QED
        BY <1>1, <1>4, <2>2, <2>4, <3>1, <3>2 DEF TopEvents, OwnTop, Masking
    <2>7. StacksInv' /\ MaskInv' /\ WindowInv' /\ EventsInv'
      <3>1. g.pc \notin {"called", "based", "mask", "enter"}
        BY <2>2
      <3>2. \A u \in Clients : u # t => ret'[u] = ret[u]
        BY <2>1
      <3>3. StacksInv'
        BY <1>1, <2>1, <2>2, <2>3, <3>1, <3>2, MovedShape
      <3>4. MaskInv'
        BY <1>1, <1>4, <2>1, <2>3, <3>1, MovedMask DEF Inv
      <3>5. WindowInv'
        BY <1>1, <1>4, <2>1, <2>2, <2>3, <2>5, <3>1, <3>2, MovedWindow DEF Inv
      <3>6. EventsInv'
        BY <1>1, <1>4, <2>1, <2>3, <2>6, MovedEvents
      <3> QED
        BY <3>3, <3>4, <3>5, <3>6
    <2>8. LockInv'
      <3>1. Taken(t) = n - 1 /\ Taken(t)' = n
        BY <1>1, <2>2, <2>4 DEF Taken
      <3>2. \A u \in Clients : u # t => Taken(u)' = Taken(u) /\ (Inside(u)' <=> Inside(u))
        BY <2>4 DEF Taken, Inside, Top
      <3>3. \A u \in Clients : leaked[u] \in Nat /\ Taken(u) \in Nat
        BY <1>1, TakenType DEF Scalars
      <3>4. \A u \in Clients : u # t => Due(u)' = Due(u)
        BY <1>1, <1>5, <3>2 DEF Due
      <3>5. Due(t)' = Due(t) + 1
        BY <1>1, <1>3, <1>5, <3>1, <3>3, SMTT(30) DEF Due
      <3>6. t # None /\ depth \in Nat
        BY <1>1, SdioAssumption DEF Clients, Scalars
      <3>7. Due(t) = depth /\ \A u \in Clients : u # t => Due(u) = 0
        BY <1>1, <2>1, <3>6 DEF LockInv
      <3>8. \A u \in Clients : Due(u)' = IF owner' = u THEN depth' ELSE 0
        BY <2>1, <3>4, <3>5, <3>7
      <3>9. Inside(Rx)' => Inside(Rx)
        BY <1>1, <3>2 DEF Clients
      <3> QED
        BY <1>1, <1>4, <2>1, <3>6, <3>8, <3>9 DEF LockInv
    <2> QED
      BY <2>7, <2>8 DEF Inv
  <1> QED
    BY <1>6, <1>7

LEMMA CheckInhibitKeeps ==
  ASSUME SdioInv, NEW t \in Clients, CheckInhibit(t)
  PROVE  Inv'
  <1> DEFINE f == Top(t)
             g == [f EXCEPT !.pc = "clear"]
             n == Len(stack[t])
  <1>1. /\ Inv /\ StacksInv /\ Inside(t) /\ f.pc = "body" /\ f.fn = "SendCommand"
        /\ UNCHANGED <<owner, depth, leaked, signal, event, ret, f1base, windowLost, rxVars,
                       cmd, dat, status, window, work>>
        /\ \/ cmd = "idle" /\ Become(t, g)
           \/ Leave(t, "fail")
    BY DEF SdioInv, Inv, CheckInhibit, At, Goto
  <1>2. CASE Leave(t, "fail")
    BY <1>1, <1>2, Leaves
  <1>3. CASE cmd = "idle" /\ Become(t, g)
    <2>1. FrameOK(f) /\ f \in Frames
      BY <1>1, StackTop DEF FrameOK
    <2>2. /\ g \in Frames /\ g.fn = "SendCommand" /\ g.base = f.base /\ g.pc = "clear"
          /\ g.old = f.old
      BY <1>1, <2>1 DEF Frames, Pcs
    <2>3. /\ FrameOK(g) /\ (Masked(g) => Masked(f)) /\ WillEnable(g) = WillEnable(f)
      BY <1>1, <2>1, <2>2 DEF FrameOK, Masked, WillEnable
    <2> HIDE DEF g
    <2>4. Top(t)' = g /\ (n > 1 => Caller(t)' = Caller(t))
      BY <1>1, <1>3, <2>2, Becomes
    <2>5. TopWindow(t)'
      BY <2>2, <2>4 DEF TopWindow, Ended
    <2>6. TopEvents(t)' /\ OwnTop(g)
      <3>1. TopEvents(t)
        BY <1>1 DEF Inv, EventsInv
      <3>2. n > 1
        BY <1>1, CommandCalled
      <3> QED
        BY <1>1, <1>3, <2>2, <2>4, <3>1, <3>2 DEF TopEvents, OwnTop
    <2> QED
      BY <1>1, <1>3, <2>2, <2>3, <2>5, <2>6, OnlyMoved
  <1> QED
    BY <1>1, <1>2, <1>3

LEMMA WaitReturnsKeeps ==
  ASSUME SdioInv, NEW t \in Clients, WaitReturns(t)
  PROVE  Inv'
  <1> DEFINE f == Top(t)
             bits == event \cap (f.bits \cup {"error"})
             g == [f EXCEPT !.pc = "got", !.bits = bits]
             n == Len(stack[t])
  <1>1. /\ Inv /\ StacksInv /\ Scalars /\ Inside(t) /\ f.pc = "wait" /\ Become(t, g)
        /\ UNCHANGED <<owner, depth, leaked, signal, event, ret, f1base, windowLost, rxVars,
                       cmd, dat, status, window, work>>
    BY DEF SdioInv, Inv, WaitReturns, hwVars
  <1>2. FrameOK(f) /\ f \in Frames /\ bits \subseteq Bits
    BY <1>1, StackTop DEF FrameOK, Scalars
  <1>3. bits \subseteq Reported
    BY DEF Reported
  <1> HIDE DEF bits
  <1>4. /\ g \in Frames /\ g.fn = f.fn /\ g.base = f.base /\ g.pc = "got"
        /\ g.old = f.old /\ g.bits = bits
    BY <1>2 DEF Frames, Pcs
  <1>5. /\ FrameOK(g) /\ (Masked(g) => Masked(f)) /\ WillEnable(g) = WillEnable(f)
    BY <1>1, <1>2, <1>4 DEF FrameOK, Masked, WillEnable
  <1> HIDE DEF g
  <1>6. Top(t)' = g /\ (n > 1 => Caller(t)' = Caller(t))
    BY <1>1, <1>4, Becomes
  <1>7. ~windowLost => TopWindow(t)'
    <2>1. SUFFICES ASSUME ~windowLost PROVE TopWindow(t)'
      OBVIOUS
    <2>2. TopWindow(t)
      BY <1>1, <2>1 DEF Inv, WindowInv
    <2>3. f.fn = "SendCommand" => n > 1
      BY <1>1, CommandCalled
    <2> QED
      BY <1>1, <1>4, <1>6, <2>2, <2>3 DEF TopWindow, Ended
  <1>8. TopEvents(t)'
    BY <1>4, <1>6 DEF TopEvents
  <1>9. OwnTop(g)
    BY <1>1, <1>3, <1>4 DEF OwnTop, Inv, EventsInv
  <1> QED
    BY <1>1, <1>4, <1>5, <1>7, <1>8, <1>9, OnlyMoved

LEMMA WaitTimesOutKeeps ==
  ASSUME SdioInv, NEW t \in Clients, WaitTimesOut(t)
  PROVE  Inv'
  <1>1. /\ Inv /\ StacksInv /\ Inside(t) /\ Top(t).pc = "wait" /\ Leave(t, "fail")
        /\ UNCHANGED <<owner, depth, leaked, signal, event, ret, f1base, windowLost, rxVars,
                       cmd, dat, status, window, work>>
    BY DEF SdioInv, Inv, WaitTimesOut
  <1>2. Top(t).fn # "SetF1Base"
    BY <1>1, StackTop DEF FrameOK
  <1> QED
    BY <1>1, <1>2, Leaves

LEMMA MovedLock ==
  ASSUME StacksInv, LockInv, NEW t \in Clients, Inside(t), NEW g, FrameOK(g), Become(t, g),
         Top(t).pc # "enter", g.pc # "enter", UNCHANGED <<owner, depth, leaked, rxVars>>
  PROVE  LockInv'
  <1>1. g \in Frames
    BY DEF FrameOK
  <1>2. \A u \in Clients : Taken(u)' = Taken(u) /\ (Inside(u)' <=> Inside(u))
    BY <1>1, Becomes DEF Taken, Inside, Top
  <1> QED
    BY <1>2, LockKept DEF Clients, rxVars

(* The events of a step of the thread that has the driver for itself.      *)
LEMMA EventsAlone ==
  ASSUME Scalars, StacksInv, LockInv, NEW t \in Clients, Inside(t), Top(t).pc # "enter",
         \A u \in Clients : u # t => stack'[u] = stack[u],
         "cmd_done" \in Reported' => cmd' = "idle",
         "xfer_done" \in Reported' => dat' = "idle",
         "data_ready" \in Reported' => dat' \in {"ready", "idle"},
         Inside(t)' => TopEvents(t)' /\ OwnTop(Top(t))'
  PROVE  EventsInv'
  <1>1. \A u \in Clients : u # t /\ Inside(u) => Len(stack[u]) = 1 /\ Top(u).pc = "enter"
    BY Alone
  <1>2. \A u \in Clients : u # t /\ Inside(u) => Top(u).fn # "SendCommand"
    <2> SUFFICES ASSUME NEW u \in Clients, u # t, Inside(u), Top(u).fn = "SendCommand"
                 PROVE  FALSE
      OBVIOUS
    <2>1. Len(stack[u]) = 1
      BY <1>1
    <2>2. Len(stack[u]) > 1
      BY CommandCalled
    <2> QED
      BY <2>1, <2>2
  <1>3. \A u \in Clients : Inside(u)' => TopEvents(u)' /\ OwnTop(Top(u))'
    <2> SUFFICES ASSUME NEW u \in Clients, Inside(u)'
                 PROVE  TopEvents(u)' /\ OwnTop(Top(u))'
      OBVIOUS
    <2>1. CASE u = t
      BY <2>1
    <2>2. CASE u # t
      <3>1. Top(u)' = Top(u) /\ Inside(u)
        BY <2>2 DEF Top, Inside
      <3>2. Top(u)'.fn # "SendCommand" /\ Top(u)'.pc = "enter"
        BY <1>1, <1>2, <2>2, <3>1
      <3> QED
        BY <3>2 DEF TopEvents, OwnTop
    <2> QED
      BY <2>1, <2>2
  <1>4. OwnCompletion'
    BY <1>3 DEF OwnCompletion, OwnTop
  <1> QED
    BY <1>3, <1>4 DEF EventsInv

LEMMA ClearEventsKeeps ==
  ASSUME SdioInv, NEW t \in Clients, ClearEvents(t)
  PROVE  Inv'
  <1> DEFINE f == Top(t)
             g == [f EXCEPT !.pc = "issue"]
             n == Len(stack[t])
  <1>1. /\ Inv /\ StacksInv /\ Scalars /\ LockInv
        /\ Inside(t) /\ f.pc = "clear" /\ f.fn = "SendCommand"
        /\ Become(t, g) /\ event' = {} /\ ~IrqPending
        /\ UNCHANGED <<owner, depth, leaked, signal, ret, f1base, windowLost, rxVars,
                       cmd, dat, status, window, work>>
    BY DEF SdioInv, Inv, ClearEvents, At, Goto, hwVars
  <1>2. FrameOK(f) /\ f \in Frames
    BY <1>1, StackTop DEF FrameOK
  <1>3. /\ g \in Frames /\ g.fn = "SendCommand" /\ g.base = f.base /\ g.pc = "issue"
        /\ g.old = f.old
    BY <1>1, <1>2 DEF Frames, Pcs
  <1>4. /\ FrameOK(g) /\ (Masked(g) => Masked(f)) /\ WillEnable(g) = WillEnable(f)
    BY <1>1, <1>2, <1>3 DEF FrameOK, Masked, WillEnable
  <1> HIDE DEF g
  <1>5. /\ Inside(t)' /\ Top(t)' = g /\ (n > 1 => Caller(t)' = Caller(t))
        /\ \A u \in Clients : u # t => stack'[u] = stack[u]
    BY <1>1, <1>3, Becomes
  <1>6. TopWindow(t)'
    BY <1>3, <1>5 DEF TopWindow, Ended
  <1>7. StacksInv' /\ LockInv' /\ WindowInv'
    BY <1>1, <1>3, <1>4, <1>6, Moved
  <1>8. MaskInv'
    BY <1>1, <1>3, <1>4, MovedMask DEF Inv
  <1>9. EventsInv'
    <2>1. Reported' = {}
      BY <1>1 DEF Reported, IrqPending
    <2>2. TopEvents(t)
      BY <1>1 DEF Inv, EventsInv
    <2>3. n > 1
      BY <1>1, CommandCalled
    <2>4. TopEvents(t)'
      BY <1>1, <1>3, <1>5, <2>1, <2>2, <2>3 DEF TopEvents
    <2>5. OwnTop(Top(t))'
      BY <1>3, <1>5 DEF OwnTop
    <2> QED
      BY <1>1, <1>5, <2>1, <2>4, <2>5, EventsAlone
  <1> QED
    BY <1>7, <1>8, <1>9 DEF Inv

LEMMA IssueKeeps ==
  ASSUME SdioInv, NEW t \in Clients, Issue(t)
  PROVE  Inv'
  <1> DEFINE f == Top(t)
             c == Caller(t)
             g == [f EXCEPT !.pc = "wait"]
             n == Len(stack[t])
  <1>1. /\ Inv /\ StacksInv /\ Scalars /\ LockInv
        /\ Inside(t) /\ f.pc = "issue" /\ f.fn = "SendCommand"
        /\ Become(t, g) /\ cmd' = "busy"
        /\ UNCHANGED <<owner, depth, leaked, signal, event, ret, f1base, windowLost, rxVars,
                       status, work>>
    BY DEF SdioInv, Inv, Issue, At, Goto
  <1>2. /\ c.fn # "CardData" => dat' = dat
        /\ window' = IF c.fn = "CardRegs" /\ c.base # None
                     THEN IF c.n = 1 THEN c.base ELSE None ELSE window
    BY DEF Issue, Caller
  <1>3. FrameOK(f) /\ f \in Frames
    BY <1>1, StackTop DEF FrameOK
  <1>4. /\ g \in Frames /\ g.fn = "SendCommand" /\ g.base = f.base /\ g.pc = "wait"
        /\ g.old = f.old
    BY <1>1, <1>3 DEF Frames, Pcs
  <1>5. /\ FrameOK(g) /\ (Masked(g) => Masked(f)) /\ WillEnable(g) = WillEnable(f)
    BY <1>1, <1>3, <1>4 DEF FrameOK, Masked, WillEnable
  <1> HIDE DEF g
  <1>6. /\ n > 1 /\ FrameOK(c) /\ c.fn \in {"CardRegs", "CardData"} /\ c.pc = "called"
    BY <1>1, CommandCalled
  <1>7. /\ Inside(t)' /\ Top(t)' = g /\ Caller(t)' = c
        /\ \A u \in Clients : u # t => stack'[u] = stack[u]
        /\ Len(stack'[t]) = n
        /\ \A i \in 1 .. n - 1 : stack'[t][i] = stack[t][i]
    BY <1>1, <1>4, <1>6, Becomes
  <1>8. StacksInv' /\ LockInv' /\ MaskInv'
    <2>1. StacksInv'
      BY <1>1, <1>4, <1>5, MovedShape
    <2>2. LockInv'
      BY <1>1, <1>4, <1>5, MovedLock
    <2>3. MaskInv'
      BY <1>1, <1>4, <1>5, MovedMask DEF Inv
    <2> QED
      BY <2>1, <2>2, <2>3
  <1>9. TopWindow(t)'
    BY <1>2, <1>4, <1>7 DEF TopWindow, Ended
  <1>10. ASSUME ~(c.fn = "CardRegs" /\ c.base # None) PROVE WindowInv'
    <2>1. UNCHANGED <<window, f1base, windowLost>>
      BY <1>1, <1>2, <1>10
    <2>2. ~(f.fn = "SetF1Base" /\ f.pc = "called")
      BY <1>1
    <2>3. g.fn = f.fn /\ g.pc # "called"
      BY <1>1, <1>4
    <2>4. \A u \in Clients : u # t => ret'[u] = ret[u]
      BY <1>1
    <2> QED
      BY <1>1, <1>5, <1>9, <2>1, <2>2, <2>3, <2>4, MovedWindow DEF Inv
  <1>11. ASSUME c.fn = "CardRegs", c.base # None PROVE WindowInv'
    <2>1. /\ n \in Nat /\ n - 1 \in 1 .. n /\ c = stack[t][n - 1]
          /\ n - 1 > 1 => n - 2 \in 1 .. n /\ (n - 1) - 1 = n - 2
      BY <1>1, <1>6, StackTop DEF Caller
    <2>2. Placed(n - 1, c)
      BY <1>1, <2>1 DEF StacksInv, Shape
    <2>3. n - 1 # 1 /\ n - 1 > 1
      <3>1. n - 1 # 1
        BY <1>11, <2>2 DEF Placed
      <3> HIDE DEF n
      <3> QED
        BY <2>1, <3>1
    <2>4. Calls(stack[t][n - 2], c) /\ Placed(n - 2, stack[t][n - 2])
      BY <1>1, <2>1, <2>3 DEF StacksInv, Shape
    <2>5. stack[t][n - 2].fn = "SetF1Base" /\ stack[t][n - 2].pc = "called"
      BY <1>11, <2>4 DEF Calls
    <2>6. n - 2 = 2
      BY <2>4, <2>5 DEF Placed
    <2>7. Writing(t)'
      <3>1. 2 \in 1 .. n - 1 /\ n > 1
        <4> HIDE DEF n
        <4> QED
          BY <2>1, <2>6
      <3> QED
        BY <1>7, <2>5, <2>6, <3>1 DEF Writing
    <2>8. \A u \in Clients : u # t /\ Inside(u)' => TopWindow(u)'
      <3> SUFFICES ASSUME NEW u \in Clients, u # t, Inside(u)' PROVE TopWindow(u)'
        OBVIOUS
      <3>1. Inside(u) /\ Top(u)' = Top(u)
        BY <1>7 DEF Inside, Top
      <3>2. Top(u).pc = "enter"
        BY <1>1, <3>1, Alone
      <3> QED
        BY <3>1, <3>2 DEF TopWindow, Ended
    <2>9. ~windowLost => \A u \in Clients : (Inside(u) /\ stack[u][1].fn = "F1Memory"
             /\ stack[u][1].pc = "called" => f1base = stack[u][1].base)'
      <3>1. stack'[t][1] = stack[t][1]
        BY <1>7, <2>1, <2>6
      <3> QED
        BY <1>1, <1>7, <3>1 DEF Inv, WindowInv, Inside
    <2> QED
      BY <1>1, <1>9, <2>7, <2>8, <2>9 DEF WindowInv
  <1>12. EventsInv'
    <2>1. TopEvents(t) /\ EventsInv
      BY <1>1 DEF Inv, EventsInv
    <2>2. Reported' = Reported /\ "cmd_done" \notin Reported
      BY <1>1, <2>1 DEF TopEvents, Reported
    <2>3. c.fn = "CardData" => Reported \cap {"xfer_done", "data_ready"} = {}
      BY <1>1, <2>1 DEF TopEvents
    <2>4. /\ "xfer_done" \in Reported' => dat' = "idle"
          /\ "data_ready" \in Reported' => dat' \in {"ready", "idle"}
      BY <1>2, <2>1, <2>2, <2>3 DEF EventsInv
    <2>5. TopEvents(t)' /\ OwnTop(Top(t))'
      BY <1>4, <1>7 DEF TopEvents, OwnTop
    <2> QED
      BY <1>1, <1>7, <2>2, <2>4, <2>5, EventsAlone
  <1> QED
    BY <1>8, <1>10, <1>11, <1>12 DEF Inv

LEMMA WaitDoneKeeps ==
  ASSUME SdioInv, NEW t \in Clients, WaitDone(t)
  PROVE  Inv'
  <1> DEFINE f == Top(t)
             g == [f EXCEPT !.pc = "wait", !.bits = {"xfer_done"}]
             n == Len(stack[t])
  <1>1. /\ Inv /\ StacksInv /\ Scalars /\ LockInv /\ EventsInv
        /\ Inside(t) /\ f.pc = "got" /\ ~IrqPending
        /\ event' = event \ f.bits
        /\ UNCHANGED <<owner, depth, leaked, signal, ret, f1base, windowLost, rxVars,
                       cmd, status, window, work>>
    BY DEF SdioInv, Inv, WaitDone
  <1>2. \/ /\ dat' = dat /\ \E r \in {"ok", "fail"} : Leave(t, r)
        \/ /\ "data_ready" \in f.bits /\ Become(t, g)
           /\ dat' = IF dat = "ready" THEN "last" ELSE dat
    BY DEF WaitDone
  <1>3. FrameOK(f) /\ f \in Frames /\ f.fn \in {"SendCommand", "CardData"}
    BY <1>1, StackTop DEF FrameOK
  <1>4. Reported' = event \ f.bits /\ Reported = event
    BY <1>1 DEF Reported, IrqPending
  <1>5. CASE dat' = dat /\ \E r \in {"ok", "fail"} : Leave(t, r)
    <2>1. PICK r \in {"ok", "fail"} : Leave(t, r)
      BY <1>5
    <2> DEFINE h == Left(f, r)
    <2>2. /\ h \in Frames /\ FrameOK(h) /\ h.fn = f.fn /\ h.base = f.base
          /\ h.pc \in {"restore", "release"}
          /\ Masked(h) => Masked(f)
          /\ WillEnable(h) = WillEnable(f)
      BY <1>1, <1>3, LeftFrame
    <2>3. Become(t, h)
      BY <2>1 DEF Leave, Left
    <2>4. ~windowLost => TopWindow(t)'
      BY <1>1, <1>3, <2>3, LeftWindow
    <2> HIDE DEF h
    <2>5. /\ Top(t)' = h /\ \A u \in Clients : u # t => stack'[u] = stack[u]
      BY <1>1, <2>2, <2>3, Becomes
    <2>6. StacksInv' /\ LockInv' /\ WindowInv'
      BY <1>1, <1>3, <2>2, <2>3, <2>4, Moved
    <2>7. h.pc # "mask" /\ h.pc # "got" /\ h.pc \notin {"clear", "issue"}
      BY <2>2
    <2>8. MaskInv'
      BY <1>1, <2>2, <2>3, <2>7, MovedMask DEF Inv
    <2>9. TopEvents(t)' /\ OwnTop(Top(t))'
      <3>1. Top(t)'.pc \in {"restore", "release"}
        BY <2>2, <2>5
      <3> QED
        BY <3>1 DEF TopEvents, OwnTop
    <2>10. EventsInv'
      <3>1. /\ "cmd_done" \in Reported' => cmd' = "idle"
            /\ "xfer_done" \in Reported' => dat' = "idle"
            /\ "data_ready" \in Reported' => dat' \in {"ready", "idle"}
        BY <1>1, <1>4, <1>5 DEF EventsInv
      <3> QED
        BY <1>1, <2>5, <2>9, <3>1, EventsAlone
    <2> QED
      BY <2>6, <2>8, <2>10 DEF Inv
  <1>6. CASE /\ "data_ready" \in f.bits /\ Become(t, g)
             /\ dat' = IF dat = "ready" THEN "last" ELSE dat
    <2>1. /\ g \in Frames /\ g.fn = f.fn /\ g.base = f.base /\ g.pc = "wait"
          /\ g.old = f.old
      BY <1>3 DEF Frames, Pcs, Bits
    <2>2. FrameOK(g) /\ (Masked(g) => Masked(f)) /\ WillEnable(g) = WillEnable(f)
      BY <1>1, <1>3, <2>1 DEF FrameOK, Masked, WillEnable
    <2> HIDE DEF g
    <2>3. /\ Top(t)' = g /\ \A u \in Clients : u # t => stack'[u] = stack[u]
      BY <1>1, <1>6, <2>1, Becomes
    <2>4. ~windowLost => TopWindow(t)'
      <3>1. f.fn = "SendCommand" => n > 1 /\ Caller(t)' = Caller(t)
        BY <1>1, <1>6, <2>1, CommandCalled, Becomes
      <3>2. ~windowLost => TopWindow(t)
        BY <1>1 DEF Inv, WindowInv
      <3> QED
        BY <1>1, <1>3, <2>1, <2>3, <3>1, <3>2 DEF TopWindow, Ended
    <2>5. StacksInv' /\ LockInv' /\ WindowInv'
      BY <1>1, <1>3, <1>6, <2>1, <2>2, <2>4, Moved
    <2>6. MaskInv'
      BY <1>1, <1>6, <2>1, <2>2, MovedMask DEF Inv
    <2>7. TopEvents(t)' /\ OwnTop(Top(t))'
      BY <2>1, <2>3 DEF TopEvents, OwnTop
    <2>8. EventsInv'
      <3>1. /\ "cmd_done" \in Reported' => cmd' = "idle"
            /\ "xfer_done" \in Reported' => dat' = "idle"
            /\ "data_ready" \notin Reported'
        BY <1>1, <1>4, <1>6 DEF EventsInv
      <3> QED
        BY <1>1, <2>3, <2>7, <3>1, EventsAlone
    <2> QED
      BY <2>5, <2>6, <2>8 DEF Inv
  <1> QED
    BY <1>2, <1>5, <1>6

(* A frame that begins.                                                    *)
LEMMA NewFrame ==
  ASSUME NEW fn \in Functions, NEW bits \in SUBSET Bits, NEW n \in Nat, NEW base \in Bases \cup {None},
         fn \in {"F1Memory", "SetF1Base"} => base \in Bases,
         fn \in {"F1Memory", "CardRegs"} => n > 0
  PROVE  /\ FrameOK(Frame(fn, bits, n, base)) /\ Frame(fn, bits, n, base).fn = fn
         /\ Frame(fn, bits, n, base).base = base /\ Frame(fn, bits, n, base).pc = "enter"
         /\ Frame(fn, bits, n, base).n = n
  <1> DEFINE f == Frame(fn, bits, n, base)
  <1>1. /\ f \in Frames /\ f.fn = fn /\ f.base = base /\ f.pc = "enter" /\ f.n = n
    BY DEF Frame, Frames, Pcs
  <1> HIDE DEF f
  <1>2. FrameOK(f)
    BY <1>1 DEF FrameOK
  <1> QED
    BY <1>1, <1>2 DEF f

LEMMA NewCommand ==
  FrameOK(Command) /\ Command.fn = "SendCommand" /\ Command.pc = "enter"
  <1>1. "SendCommand" \in Functions /\ {"cmd_done"} \in SUBSET Bits /\ 0 \in Nat
    BY DEF Functions, Bits
  <1> QED
    BY <1>1, NewFrame DEF Command

(* A function on its way to a call.                                        *)
LEMMA CallingFrame ==
  ASSUME NEW f, FrameOK(f), f.pc \in {"body", "based"}, NEW pc \in {"called", "based"},
         pc = "based" => f.fn = "F1Memory",
         pc = "called" => f.fn \in {"CardRegs", "CardData", "SetF1Base", "F1Memory"},
         f.fn \in {"F1Memory", "CardRegs"} => f.n > 0
  PROVE  /\ FrameOK([f EXCEPT !.pc = pc]) /\ [f EXCEPT !.pc = pc].fn = f.fn
         /\ [f EXCEPT !.pc = pc].base = f.base /\ [f EXCEPT !.pc = pc].pc = pc
         /\ Masked([f EXCEPT !.pc = pc]) => Masked(f)
         /\ WillEnable([f EXCEPT !.pc = pc]) = WillEnable(f)
  <1> DEFINE g == [f EXCEPT !.pc = pc]
  <1>1. f \in Frames
    BY DEF FrameOK
  <1>2. /\ g \in Frames /\ g.fn = f.fn /\ g.base = f.base /\ g.pc = pc /\ g.old = f.old
        /\ g.n = f.n
    BY <1>1 DEF Frames, Pcs
  <1> HIDE DEF g
  <1>3. FrameOK(g)
    BY <1>2 DEF FrameOK
  <1>4. (Masked(g) => Masked(f)) /\ WillEnable(g) = WillEnable(f)
    BY <1>2 DEF Masked, WillEnable
  <1> QED
    BY <1>2, <1>3, <1>4 DEF g

LEMMA CardRegsNextKeeps ==
  ASSUME SdioInv, NEW t \in Clients, CardRegsNext(t)
  PROVE  Inv'
  <1> DEFINE f == Top(t)
             g == [f EXCEPT !.pc = "called"]
  <1>1. /\ Inv /\ StacksInv /\ Inside(t) /\ f.pc = "body" /\ f.fn = "CardRegs"
        /\ UNCHANGED <<owner, depth, leaked, signal, event, ret, f1base, windowLost, rxVars, hwVars>>
    BY DEF SdioInv, Inv, CardRegsNext, At
  <1>2. FrameOK(f) /\ f.n \in Nat
    BY <1>1, StackTop DEF FrameOK, Frames
  <1>3. CASE f.n = 0
    <2>1. Leave(t, "ok")
      BY <1>3 DEF CardRegsNext
    <2> QED
      BY <1>1, <1>3, <2>1, Leaves DEF hwVars
  <1>4. CASE f.n # 0
    <2>1. stack' = [stack EXCEPT ![t] = Append(Below(t), g) \o <<Command>>]
      BY <1>4 DEF CardRegsNext, Call
    <2>2. /\ FrameOK(g) /\ g.fn = f.fn /\ g.base = f.base /\ g.pc = "called"
          /\ Masked(g) => Masked(f)
          /\ WillEnable(g) = WillEnable(f)
      <3>1. f.n > 0
        BY <1>2, <1>4
      <3> QED
        BY <1>1, <1>2, <3>1, CallingFrame
    <2> HIDE DEF g
    <2>3. Calls(g, Command)
      BY <1>1, <2>2, NewCommand DEF Calls
    <2>4. UNCHANGED <<Others, event>>
      BY <1>1 DEF Others
    <2> QED
      BY <1>1, <2>1, <2>2, <2>3, <2>4, NewCommand, Pushed
  <1> QED
    BY <1>3, <1>4

LEMMA CardRegsCalledKeeps ==
  ASSUME SdioInv, NEW t \in Clients, CardRegsCalled(t)
  PROVE  Inv'
  <1> DEFINE f == Top(t)
             g == [f EXCEPT !.pc = "body", !.n = @ - 1]
  <1>1. /\ Inv /\ StacksInv /\ Scalars /\ Inside(t) /\ f.pc = "called" /\ f.fn = "CardRegs"
        /\ ret' = [ret EXCEPT ![t] = "none"]
        /\ UNCHANGED <<owner, depth, leaked, signal, event, f1base, windowLost, rxVars,
                       cmd, dat, status, window, work>>
    BY DEF SdioInv, Inv, CardRegsCalled, At, Returned, hwVars
  <1>2. FrameOK(f) /\ f \in Frames /\ f.n \in Nat /\ f.n > 0
    BY <1>1, StackTop DEF FrameOK, Frames
  <1>3. /\ \A u \in Clients : u # t => ret'[u] = ret[u]
        /\ ret[t] \in {"ok", "fail"}
    BY <1>1 DEF Scalars, StacksInv
  <1>4. CASE ret[t] = "fail"
    <2>1. Leave(t, "fail")
      BY <1>4 DEF CardRegsCalled
    <2> QED
      BY <1>1, <1>3, <2>1, Leaves
  <1>5. CASE ret[t] = "ok"
    <2>1. Become(t, g)
      BY <1>5 DEF CardRegsCalled
    <2>2. /\ g \in Frames /\ g.fn = "CardRegs" /\ g.base = f.base /\ g.pc = "body"
          /\ g.old = f.old /\ g.n = f.n - 1
      <3>1. f.n - 1 \in Nat
        BY <1>2
      <3> QED
        BY <1>1, <1>2, <3>1 DEF Frames, Pcs
    <2> HIDE DEF g
    <2>3. FrameOK(g) /\ (Masked(g) => Masked(f)) /\ WillEnable(g) = WillEnable(f)
      BY <1>1, <1>2, <2>2 DEF FrameOK, Masked, WillEnable
    <2>4. Top(t)' = g
      BY <1>1, <2>1, <2>2, Becomes
    <2>5. ~windowLost => TopWindow(t)'
      <3>1. SUFFICES ASSUME ~windowLost PROVE TopWindow(t)'
        OBVIOUS
      <3>2. f.base # None /\ f.n = 1 => window = f.base
        BY <1>1, <1>5, <3>1 DEF Inv, WindowInv, TopWindow
      <3>3. g.n = 0 => f.n = 1
        BY <1>2, <2>2
      <3> QED
        BY <1>1, <2>2, <2>4, <3>2, <3>3 DEF TopWindow, Ended
    <2>6. TopEvents(t)' /\ OwnTop(g)
      BY <2>2, <2>4 DEF TopEvents, OwnTop
    <2> QED
      BY <1>1, <1>3, <2>1, <2>2, <2>3, <2>5, <2>6, OnlyMoved
  <1> QED
    BY <1>3, <1>4, <1>5

LEMMA CardDataStartKeeps ==
  ASSUME SdioInv, NEW t \in Clients, CardDataStart(t)
  PROVE  Inv'
  <1> DEFINE f == Top(t)
             g == [f EXCEPT !.pc = "called"]
  <1>1. /\ Inv /\ StacksInv /\ Inside(t) /\ f.pc = "body" /\ f.fn = "CardData"
        /\ UNCHANGED <<owner, depth, leaked, signal, event, ret, f1base, windowLost, rxVars,
                       cmd, dat, status, window, work>>
        /\ \/ /\ dat = "idle" /\ UNCHANGED faults
              /\ stack' = [stack EXCEPT ![t] = Append(Below(t), g) \o <<Command>>]
           \/ Leave(t, "fail")
    BY DEF SdioInv, Inv, CardDataStart, At, Call
  <1>2. FrameOK(f)
    BY <1>1, StackTop
  <1>3. CASE Leave(t, "fail")
    BY <1>1, <1>3, Leaves
  <1>4. CASE /\ dat = "idle" /\ UNCHANGED faults
             /\ stack' = [stack EXCEPT ![t] = Append(Below(t), g) \o <<Command>>]
    <2>1. /\ FrameOK(g) /\ g.fn = f.fn /\ g.base = f.base /\ g.pc = "called"
          /\ Masked(g) => Masked(f)
          /\ WillEnable(g) = WillEnable(f)
      BY <1>1, <1>2, CallingFrame
    <2> HIDE DEF g
    <2>2. Calls(g, Command)
      BY <1>1, <2>1, NewCommand DEF Calls
    <2>3. UNCHANGED <<Others, event>>
      BY <1>1, <1>4 DEF Others, hwVars
    <2> QED
      BY <1>1, <1>4, <2>1, <2>2, <2>3, NewCommand, Pushed
  <1> QED
    BY <1>1, <1>3, <1>4

LEMMA CardDataCalledKeeps ==
  ASSUME SdioInv, NEW t \in Clients, CardDataCalled(t)
  PROVE  Inv'
  <1> DEFINE f == Top(t)
             g == [f EXCEPT !.pc = "wait"]
  <1>1. /\ Inv /\ StacksInv /\ Scalars /\ Inside(t) /\ f.pc = "called" /\ f.fn = "CardData"
        /\ ret' = [ret EXCEPT ![t] = "none"]
        /\ UNCHANGED <<owner, depth, leaked, signal, event, f1base, windowLost, rxVars,
                       cmd, dat, status, window, work>>
        /\ Leave(t, "fail") \/ Become(t, g)
    BY DEF SdioInv, Inv, CardDataCalled, At, Returned, Goto
  <1>2. FrameOK(f) /\ f \in Frames
    BY <1>1, StackTop DEF FrameOK
  <1>3. \A u \in Clients : u # t => ret'[u] = ret[u]
    BY <1>1 DEF Scalars
  <1>4. CASE Leave(t, "fail")
    BY <1>1, <1>3, <1>4, Leaves
  <1>5. CASE Become(t, g)
    <2>1. /\ g \in Frames /\ g.fn = "CardData" /\ g.base = f.base /\ g.pc = "wait"
          /\ g.old = f.old
      BY <1>1, <1>2 DEF Frames, Pcs
    <2> HIDE DEF g
    <2>2. FrameOK(g) /\ (Masked(g) => Masked(f)) /\ WillEnable(g) = WillEnable(f)
      BY <1>1, <1>2, <2>1 DEF FrameOK, Masked, WillEnable
    <2>3. Top(t)' = g
      BY <1>1, <1>5, <2>1, Becomes
    <2>4. TopWindow(t)' /\ TopEvents(t)' /\ OwnTop(g)
      BY <2>1, <2>3 DEF TopWindow, TopEvents, OwnTop
    <2> QED
      BY <1>1, <1>3, <1>5, <2>1, <2>2, <2>4, OnlyMoved
  <1> QED
    BY <1>1, <1>4, <1>5

LEMMA SetF1BaseWriteKeeps ==
  ASSUME SdioInv, NEW t \in Clients, SetF1BaseWrite(t)
  PROVE  Inv'
  <1> DEFINE f == Top(t)
             g == [f EXCEPT !.pc = "called"]
             h == Frame("CardRegs", {}, 3, f.base)
  <1>1. /\ Inv /\ StacksInv /\ Inside(t) /\ f.pc = "body" /\ f.fn = "SetF1Base"
        /\ stack' = [stack EXCEPT ![t] = Append(Below(t), g) \o <<h>>]
        /\ UNCHANGED <<owner, depth, leaked, signal, event, ret, f1base, windowLost, rxVars, hwVars>>
    BY DEF SdioInv, Inv, SetF1BaseWrite, At, Call
  <1>2. FrameOK(f) /\ f.base \in Bases
    BY <1>1, StackTop DEF FrameOK
  <1>3. /\ FrameOK(g) /\ g.fn = f.fn /\ g.base = f.base /\ g.pc = "called"
        /\ Masked(g) => Masked(f)
        /\ WillEnable(g) = WillEnable(f)
    BY <1>1, <1>2, CallingFrame
  <1>4. FrameOK(h) /\ h.fn = "CardRegs" /\ h.base = f.base /\ h.pc = "enter"
    <2>1. "CardRegs" \in Functions /\ {} \in SUBSET Bits /\ 3 \in Nat /\ 3 > 0
      BY DEF Functions
    <2> QED
      BY <1>2, <2>1, NewFrame
  <1> HIDE DEF g, h
  <1>5. Calls(g, h)
    BY <1>1, <1>3, <1>4 DEF Calls
  <1>6. UNCHANGED <<Others, event>>
    BY <1>1 DEF Others
  <1> QED
    BY <1>1, <1>3, <1>4, <1>5, <1>6, Pushed

LEMMA F1MemoryNextKeeps ==
  ASSUME SdioInv, NEW t \in Clients, F1MemoryNext(t)
  PROVE  Inv'
  <1> DEFINE f == Top(t)
             g == [f EXCEPT !.pc = "based"]
             h == Frame("SetF1Base", {}, 0, f.base)
  <1>1. /\ Inv /\ StacksInv /\ Inside(t) /\ f.pc = "body" /\ f.fn = "F1Memory"
        /\ UNCHANGED <<owner, depth, leaked, signal, event, ret, f1base, windowLost, rxVars, hwVars>>
    BY DEF SdioInv, Inv, F1MemoryNext, At
  <1>2. FrameOK(f) /\ f.base \in Bases /\ f.n \in Nat
    BY <1>1, StackTop DEF FrameOK, Frames
  <1>3. CASE f.n = 0
    <2>1. Leave(t, "ok")
      BY <1>3 DEF F1MemoryNext
    <2> QED
      BY <1>1, <1>3, <2>1, Leaves DEF hwVars
  <1>4. CASE f.n # 0
    <2>1. stack' = [stack EXCEPT ![t] = Append(Below(t), g) \o <<h>>]
      BY <1>4 DEF F1MemoryNext, Call
    <2>2. /\ FrameOK(g) /\ g.fn = f.fn /\ g.base = f.base /\ g.pc = "based"
          /\ Masked(g) => Masked(f)
          /\ WillEnable(g) = WillEnable(f)
      <3>1. f.n > 0
        BY <1>2, <1>4
      <3> QED
        BY <1>1, <1>2, <3>1, CallingFrame
    <2>3. FrameOK(h) /\ h.fn = "SetF1Base" /\ h.base = f.base /\ h.pc = "enter"
      <3>1. "SetF1Base" \in Functions /\ {} \in SUBSET Bits /\ 0 \in Nat
        BY DEF Functions
      <3> QED
        BY <1>2, <3>1, NewFrame
    <2> HIDE DEF g, h
    <2>4. Calls(g, h)
      BY <1>1, <2>2, <2>3 DEF Calls
    <2>5. UNCHANGED <<Others, event>>
      BY <1>1 DEF Others
    <2> QED
      BY <1>1, <2>1, <2>2, <2>3, <2>4, <2>5, Pushed
  <1> QED
    BY <1>3, <1>4

LEMMA F1MemoryBasedKeeps ==
  ASSUME SdioInv, NEW t \in Clients, F1MemoryBased(t)
  PROVE  Inv'
  <1> DEFINE f == Top(t)
             g == [f EXCEPT !.pc = "called"]
  <1>1. /\ Inv /\ StacksInv /\ Scalars /\ Inside(t) /\ f.pc = "based" /\ f.fn = "F1Memory"
        /\ ret' = [ret EXCEPT ![t] = "none"]
        /\ UNCHANGED <<owner, depth, leaked, signal, event, f1base, windowLost, rxVars, hwVars>>
    BY DEF SdioInv, Inv, F1MemoryBased, At, Returned
  <1>2. FrameOK(f) /\ f.base \in Bases /\ f.n > 0
    BY <1>1, StackTop DEF FrameOK
  <1>3. /\ \A u \in Clients : u # t => ret'[u] = ret[u]
        /\ ret[t] \in {"ok", "fail"}
    BY <1>1 DEF Scalars, StacksInv
  <1>4. CASE ret[t] = "fail"
    <2>1. Leave(t, "fail")
      BY <1>4 DEF F1MemoryBased
    <2> QED
      BY <1>1, <1>3, <2>1, Leaves DEF hwVars
  <1>5. CASE ret[t] = "ok"
    <2>1. PICK bit \in {"data_ready", "xfer_done"} :
            Call(t, "called", Frame("CardData", {bit}, 0, f.base))
      BY <1>5 DEF F1MemoryBased
    <2> DEFINE h == Frame("CardData", {bit}, 0, f.base)
    <2>2. stack' = [stack EXCEPT ![t] = Append(Below(t), g) \o <<h>>]
      BY <2>1 DEF Call
    <2>3. /\ FrameOK(g) /\ g.fn = f.fn /\ g.base = f.base /\ g.pc = "called"
          /\ Masked(g) => Masked(f)
          /\ WillEnable(g) = WillEnable(f)
      BY <1>1, <1>2, CallingFrame
    <2>4. FrameOK(h) /\ h.fn = "CardData" /\ h.base = f.base /\ h.pc = "enter"
      <3>1. "CardData" \in Functions /\ {bit} \in SUBSET Bits /\ 0 \in Nat
        BY DEF Functions, Bits
      <3> QED
        BY <1>2, <3>1, NewFrame
    <2> HIDE DEF g, h
    <2>5. Calls(g, h)
      BY <1>1, <2>3, <2>4 DEF Calls
    <2>6. UNCHANGED <<Others, event>>
      BY <1>1 DEF Others
    <2>7. ~windowLost => f1base = f.base
      BY <1>1, <1>5 DEF Inv, WindowInv, TopWindow
    <2> QED
      BY <1>1, <1>3, <2>2, <2>3, <2>4, <2>5, <2>6, <2>7, Pushed
  <1> QED
    BY <1>3, <1>4, <1>5

LEMMA F1MemoryCalledKeeps ==
  ASSUME SdioInv, NEW t \in Clients, F1MemoryCalled(t)
  PROVE  Inv'
  <1> DEFINE f == Top(t)
  <1>1. /\ Inv /\ StacksInv /\ Scalars /\ Inside(t) /\ f.pc = "called" /\ f.fn = "F1Memory"
        /\ ret' = [ret EXCEPT ![t] = "none"]
        /\ UNCHANGED <<owner, depth, leaked, signal, event, f1base, windowLost, rxVars,
                       cmd, dat, status, window, work>>
    BY DEF SdioInv, Inv, F1MemoryCalled, At, Returned, hwVars
  <1>2. FrameOK(f) /\ f \in Frames /\ f.base \in Bases /\ f.n \in Nat /\ f.n > 0
    BY <1>1, StackTop DEF FrameOK, Frames
  <1>3. \A u \in Clients : u # t => ret'[u] = ret[u]
    BY <1>1 DEF Scalars
  <1>4. CASE ret[t] = "fail"
    <2>1. Leave(t, "fail")
      BY <1>4 DEF F1MemoryCalled
    <2> QED
      BY <1>1, <1>3, <2>1, Leaves
  <1>5. CASE ret[t] # "fail"
    <2>1. PICK b \in Bases : Become(t, [f EXCEPT !.pc = "body", !.n = @ - 1, !.base = b])
      BY <1>2, <1>5 DEF F1MemoryCalled
    <2> DEFINE g == [f EXCEPT !.pc = "body", !.n = @ - 1, !.base = b]
    <2>2. /\ g \in Frames /\ g.fn = "F1Memory" /\ g.base = b /\ g.pc = "body" /\ g.old = f.old
      <3>1. f.n - 1 \in Nat
        BY <1>2
      <3> QED
        BY <1>1, <1>2, <3>1 DEF Frames, Pcs
    <2>3. Become(t, g)
      BY <2>1
    <2> HIDE DEF g
    <2>4. FrameOK(g) /\ (Masked(g) => Masked(f)) /\ WillEnable(g) = WillEnable(f)
      BY <1>1, <1>2, <2>2 DEF FrameOK, Masked, WillEnable
    <2>5. Top(t)' = g
      BY <1>1, <2>2, <2>3, Becomes
    <2>6. TopWindow(t)' /\ TopEvents(t)' /\ OwnTop(g)
      BY <2>2, <2>5 DEF TopWindow, TopEvents, OwnTop
    <2> QED
      BY <1>1, <1>3, <2>2, <2>3, <2>4, <2>6, OnlyMoved
  <1> QED
    BY <1>4, <1>5

LEMMA SetClocksNextKeeps ==
  ASSUME SdioInv, NEW t \in Clients, SetClocksNext(t)
  PROVE  Inv'
  <1> DEFINE f == Top(t)
             g == [f EXCEPT !.n = @ - 1]
             h == Frame("CardRegs", {}, 1, None)
  <1>1. /\ Inv /\ StacksInv /\ Scalars /\ Inside(t) /\ f.pc = "body" /\ f.fn = "SetClocks"
        /\ ret' = [ret EXCEPT ![t] = "none"]
        /\ UNCHANGED <<owner, depth, leaked, signal, event, f1base, windowLost, rxVars, hwVars>>
    BY DEF SdioInv, Inv, SetClocksNext, At, Returned
  <1>2. FrameOK(f) /\ f \in Frames /\ f.n \in Nat
    BY <1>1, StackTop DEF FrameOK, Frames
  <1>3. \A u \in Clients : u # t => ret'[u] = ret[u]
    BY <1>1 DEF Scalars
  <1>4. CASE f.n = 0
    <2>1. Leave(t, "ok")
      BY <1>4 DEF SetClocksNext
    <2> QED
      BY <1>1, <1>3, <1>4, <2>1, Leaves DEF hwVars
  <1>5. CASE f.n # 0
    <2>1. stack' = [stack EXCEPT ![t] = Append(Below(t), g) \o <<h>>]
      BY <1>5 DEF SetClocksNext
    <2>2. /\ g \in Frames /\ g.fn = "SetClocks" /\ g.base = f.base /\ g.pc = "body"
          /\ g.old = f.old
      <3>1. f.n - 1 \in Nat
        BY <1>2, <1>5
      <3> QED
        BY <1>1, <1>2, <3>1 DEF Frames
    <2>3. FrameOK(h) /\ h.fn = "CardRegs" /\ h.base = None /\ h.pc = "enter"
      <3>1. "CardRegs" \in Functions /\ {} \in SUBSET Bits /\ 1 \in Nat /\ 1 > 0
        BY DEF Functions
      <3> QED
        BY <3>1, NewFrame
    <2> HIDE DEF g, h
    <2>4. FrameOK(g) /\ (Masked(g) => Masked(f)) /\ WillEnable(g) = WillEnable(f)
      BY <1>1, <1>2, <2>2 DEF FrameOK, Masked, WillEnable
    <2>5. Calls(g, h)
      BY <2>2, <2>3 DEF Calls
    <2>6. UNCHANGED <<Others, event>>
      BY <1>1 DEF Others
    <2>7. g.fn = f.fn /\ f.pc \in {"body", "based"} /\ g.fn # "F1Memory" /\ g.fn # "CardData"
      BY <1>1, <2>2
    <2> HIDE DEF f
    <2> QED
      BY <1>1, <1>3, <2>1, <2>2, <2>3, <2>4, <2>5, <2>6, <2>7, Pushed DEF f
  <1> QED
    BY <1>4, <1>5

LEMMA SetF1BaseDoneKeeps ==
  ASSUME SdioInv, NEW t \in Clients, SetF1BaseDone(t)
  PROVE  Inv'
  <1> DEFINE f == Top(t)
             g == Left(f, ret[t])
             n == Len(stack[t])
  <1>1. /\ Inv /\ StacksInv /\ Scalars /\ LockInv
        /\ Inside(t) /\ f.pc = "called" /\ f.fn = "SetF1Base"
        /\ Leave(t, ret[t]) /\ ret' = [ret EXCEPT ![t] = "none"]
        /\ IF ret[t] = "ok" THEN f1base' = f.base /\ UNCHANGED windowLost ELSE windowLost' = TRUE
        /\ UNCHANGED <<owner, depth, leaked, signal, event, rxVars,
                       cmd, dat, status, window, work>>
    BY DEF SdioInv, Inv, SetF1BaseDone, At, Returned, hwVars
  <1>2. /\ FrameOK(f) /\ f \in Frames /\ f.base \in Bases
        /\ n \in Nat /\ Placed(n, f)
    BY <1>1, StackTop DEF FrameOK
  <1>3. /\ \A u \in Clients : u # t => ret'[u] = ret[u]
        /\ ret[t] \in {"ok", "fail"}
    BY <1>1 DEF Scalars, StacksInv
  <1>4. /\ g \in Frames /\ FrameOK(g) /\ g.fn = "SetF1Base" /\ g.base = f.base
        /\ g.pc \in {"restore", "release"}
        /\ Masked(g) => Masked(f)
        /\ WillEnable(g) = WillEnable(f)
    BY <1>1, <1>2, <1>3, LeftFrame
  <1>5. Become(t, g)
    BY <1>1 DEF Leave, Left
  <1> HIDE DEF g
  <1>6. /\ Inside(t)' /\ Top(t)' = g
        /\ \A u \in Clients : u # t => stack'[u] = stack[u]
        /\ Len(stack'[t]) = n /\ stack'[t][n] = g
        /\ \A i \in 1 .. n - 1 : stack'[t][i] = stack[t][i]
    BY <1>1, <1>4, <1>5, Becomes
  <1>7. StacksInv' /\ LockInv' /\ MaskInv'
    <2>1. g.pc \notin {"called", "based", "enter", "mask"} /\ g.fn = f.fn
      BY <1>1, <1>4
    <2>2. StacksInv'
      BY <1>1, <1>3, <1>4, <1>5, <2>1, MovedShape
    <2>3. LockInv'
      BY <1>1, <1>4, <1>5, <2>1, MovedLock
    <2>4. MaskInv'
      BY <1>1, <1>4, <1>5, <2>1, MovedMask DEF Inv
    <2> QED
      BY <2>2, <2>3, <2>4
  <1>8. EventsInv'
    <2>1. TopEvents(t)' /\ OwnTop(g)
      BY <1>4, <1>6 DEF TopEvents, OwnTop
    <2> QED
      BY <1>1, <1>4, <1>5, <2>1, MovedEvents
  <1>9. WindowInv'
    <2>1. SUFFICES ASSUME ~windowLost' PROVE WindowInv'
      BY DEF WindowInv
    <2>2. ret[t] = "ok" /\ f1base' = f.base /\ ~windowLost
      BY <1>1, <1>3, <2>1
    <2>3. window' = f1base'
      BY <1>1, <2>2 DEF Inv, WindowInv, TopWindow
    <2>4. \A u \in Clients : u # t /\ Inside(u) => Top(u).pc = "enter" /\ Len(stack[u]) = 1
      BY <1>1, Alone
    <2>5. TopWindow(t)'
      BY <1>4, <1>6, <2>2 DEF TopWindow
    <2>6. \A u \in Clients : u # t /\ Inside(u)' => TopWindow(u)'
      <3> SUFFICES ASSUME NEW u \in Clients, u # t, Inside(u)' PROVE TopWindow(u)'
        OBVIOUS
      <3>1. Inside(u) /\ Top(u)' = Top(u)
        BY <1>6 DEF Inside, Top
      <3> QED
        BY <2>4, <3>1 DEF TopWindow, Ended
    <2>7. \A u \in Clients : Inside(u)' => ~(stack'[u][1].fn = "F1Memory" /\ stack'[u][1].pc = "called")
      <3> SUFFICES ASSUME NEW u \in Clients, Inside(u)'
                   PROVE  ~(stack'[u][1].fn = "F1Memory" /\ stack'[u][1].pc = "called")
        OBVIOUS
      <3>1. CASE u # t
        <4>1. stack[u][1].pc = "enter" /\ stack'[u] = stack[u]
          BY <1>6, <2>4, <3>1 DEF Inside, Top
        <4> QED
          BY <4>1
      <3>2. CASE u = t
        <4>1. n = 2
          BY <1>1, <1>2 DEF Placed
        <4>2. Caller(t) = stack[t][1] /\ n > 1 /\ 1 \in 1 .. n - 1
          <5>1. 2 - 1 = 1 /\ 2 > 1 /\ 1 \in 1 .. 2 - 1
            OBVIOUS
          <5> QED
            BY <4>1, <5>1 DEF Caller
        <4>3. Calls(stack[t][1], f)
          BY <1>1, <4>2, StackTop
        <4>4. stack'[t][1] = stack[t][1]
          BY <1>6, <4>2
        <4> QED
          BY <1>1, <3>2, <4>3, <4>4 DEF Calls
      <3> QED
        BY <3>1, <3>2
    <2> QED
      BY <2>3, <2>5, <2>6, <2>7 DEF WindowInv
  <1> QED
    BY <1>7, <1>8, <1>9 DEF Inv
-----------------------------------------------------------------------------
(* The steps outside of the driver's functions. *)

LEMMA Begun ==
  ASSUME Inv, NEW t \in Clients, NEW g, FrameOK(g), Begin(t, g), Placed(1, g), g.pc = "enter",
         t = Rx => rxpc \in DOMAIN RxNext,
         UNCHANGED <<owner, depth, leaked, signal, event, ret, f1base, windowLost, rxVars, hwVars>>
  PROVE  Inv'
  <1> USE DEF Inv
  <1>1. g \in Frames
    BY DEF FrameOK
  <1>2. StacksInv
    OBVIOUS
  <1>3. /\ ~Inside(t) /\ Len(stack'[t]) = 1 /\ stack'[t][1] = g
        /\ \A u \in Clients : u # t => stack'[u] = stack[u]
        /\ Inside(t)' /\ Top(t)' = g
    BY <1>1, <1>2, Begins
  <1>4. Len(stack[t]) = 0
    BY <1>2, <1>3, StackTop
  <1>5. UNCHANGED <<started, rxpc, rxEvent, work, window, cmd, dat, status>>
    BY DEF rxVars, hwVars
  <1>6. StacksInv'
    BY ShapeBegins
  <1>7. LockInv'
    <2>1. Taken(t)' = 0 /\ Taken(t) = 0
      BY <1>3, <1>4 DEF Taken
    <2>2. \A u \in Clients : Taken(u)' = Taken(u)
      BY <1>3, <2>1 DEF Taken, Inside, Top
    <2>3. \A u \in Clients : Due(u)' = Due(u)
      BY <1>5, <2>2 DEF Due, RxHolds
    <2>4. Inside(Rx)' => rxpc \in DOMAIN RxNext
      BY <1>3 DEF LockInv, Inside, Clients
    <2> QED
      BY <1>5, <2>3, <2>4 DEF LockInv
  <1>8. MaskInv'
    <2>1. ~Masked(g) /\ ~WillEnable(g)
      BY DEF Masked, WillEnable
    <2>2. \A u \in Clients : \A i \in 1 .. Len(stack'[u]) :
            \/ ~Masked(stack'[u][i]) /\ ~WillEnable(stack'[u][i])
            \/ i \in 1 .. Len(stack[u]) /\ stack'[u][i] = stack[u][i]
      <3>1. \A i \in 1 .. 1 : i = 1
        OBVIOUS
      <3> QED
        BY <1>3, <2>1, <3>1
    <2>3. \A u \in Clients : \A i \in 1 .. Len(stack[u]) :
            i \in 1 .. Len(stack'[u]) /\ stack'[u][i] = stack[u][i]
      <3>1. \A i \in 1 .. Len(stack[t]) : FALSE
        BY <1>4
      <3> QED
        BY <1>3, <3>1
    <2>4. (started /\ ~signal =>
            \/ "card" \in rxEvent \/ rxpc # "wait"
            \/ \E u \in Clients : \E i \in 1 .. Len(stack[u]) : WillEnable(stack[u][i]))'
      BY <1>5, <2>3 DEF MaskInv
    <2>5. \A u \in Clients : (Inside(u) /\ Top(u).pc = "mask" /\ signal => Top(u).old)'
      BY <1>3 DEF MaskInv, Inside, Top
    <2>6. \A u \in Clients : \A i \in 1 .. Len(stack'[u]) : Masked(stack'[u][i]) => ~signal'
      BY <2>2 DEF MaskInv
    <2>7. \A u \in Clients : \A i, j \in 1 .. Len(stack'[u]) :
            i < j /\ Masked(stack'[u][i]) => ~WillEnable(stack'[u][j])
      BY <2>2 DEF MaskInv
    <2>8. ~started' => \A u \in Clients : \A i \in 1 .. Len(stack'[u]) : ~WillEnable(stack'[u][i])
      BY <1>5, <2>2 DEF MaskInv
    <2> QED
      BY <1>5, <2>4, <2>5, <2>6, <2>7, <2>8 DEF MaskInv
  <1>9. WindowInv'
    <2>1. \A u \in Clients : Writing(u) => Writing(u)'
      <3>1. ~Writing(t)
        BY <1>4 DEF Writing
      <3> QED
        BY <1>3, <3>1 DEF Writing
    <2>2. TopWindow(t)'
      BY <1>3 DEF TopWindow, Ended
    <2>3. ASSUME ~windowLost, NEW u \in Clients, Inside(u)' PROVE TopWindow(u)'
      <3>1. CASE u = t
        BY <2>2, <3>1
      <3>2. CASE u # t
        BY <1>3, <1>5, <2>3, <3>2 DEF WindowInv, TopWindow, Inside, Top, Caller
      <3> QED
        BY <3>1, <3>2
    <2>4. ~windowLost => \A u \in Clients : (Inside(u) /\ stack[u][1].fn = "F1Memory"
             /\ stack[u][1].pc = "called" => f1base = stack[u][1].base)'
      BY <1>3 DEF WindowInv, Inside
    <2> QED
      BY <1>5, <2>1, <2>3, <2>4 DEF WindowInv
  <1>10. EventsInv'
    <2>1. g.fn # "SendCommand"
      BY DEF Placed
    <2>2. TopEvents(t)' /\ OwnTop(Top(t))'
      BY <1>3, <2>1 DEF TopEvents, OwnTop
    <2> QED
      BY <1>3, <1>5, <2>2, EventsKept
  <1> QED
    BY <1>6, <1>7, <1>8, <1>9, <1>10

LEMMA MainCallsKeeps ==
  ASSUME SdioInv, MainCalls
  PROVE  Inv'
  <1>1. /\ Inv
        /\ UNCHANGED <<owner, depth, leaked, signal, event, ret, f1base, windowLost, rxVars, hwVars>>
    BY DEF SdioInv, MainCalls
  <1>2. PICK n \in 1 .. MaxChunks, b \in Bases :
          \E f \in {Frame("F1Memory", {}, n, b), Frame("CardRegs", {}, n, None),
                    Frame("SetClocks", {}, n, None)} : Begin(Main, f)
    BY DEF MainCalls
  <1>3. n \in Nat /\ n > 0 /\ {} \in SUBSET Bits
    BY SdioAssumption
  <1>4. Main \in Clients /\ Main # Rx
    BY SdioAssumption DEF Clients
  <1>5. CASE Begin(Main, Frame("F1Memory", {}, n, b))
    <2> DEFINE g == Frame("F1Memory", {}, n, b)
    <2>1. FrameOK(g) /\ g.fn = "F1Memory" /\ g.pc = "enter"
      BY <1>3, NewFrame DEF Functions
    <2> HIDE DEF g
    <2>2. Placed(1, g)
      BY <2>1 DEF Placed
    <2>3. Begin(Main, g)
      BY <1>5 DEF g
    <2> QED
      BY <1>1, <1>4, <2>1, <2>2, <2>3, Begun
  <1>6. CASE Begin(Main, Frame("CardRegs", {}, n, None))
    <2> DEFINE g == Frame("CardRegs", {}, n, None)
    <2>1. FrameOK(g) /\ g.fn = "CardRegs" /\ g.pc = "enter" /\ g.base = None
      BY <1>3, NewFrame DEF Functions
    <2> HIDE DEF g
    <2>2. Placed(1, g)
      BY <2>1 DEF Placed
    <2>3. Begin(Main, g)
      BY <1>6 DEF g
    <2> QED
      BY <1>1, <1>4, <2>1, <2>2, <2>3, Begun
  <1>7. CASE Begin(Main, Frame("SetClocks", {}, n, None))
    <2> DEFINE g == Frame("SetClocks", {}, n, None)
    <2>1. FrameOK(g) /\ g.fn = "SetClocks" /\ g.pc = "enter"
      BY <1>3, NewFrame DEF Functions
    <2> HIDE DEF g
    <2>2. Placed(1, g)
      BY <2>1 DEF Placed
    <2>3. Begin(Main, g)
      BY <1>7 DEF g
    <2> QED
      BY <1>1, <1>4, <2>1, <2>2, <2>3, Begun
  <1> QED
    BY <1>2, <1>5, <1>6, <1>7
-----------------------------------------------------------------------------
(* Steps that leave the stacks alone. *)

LEMMA SameStacks ==
  ASSUME StacksInv, UNCHANGED stack, \A u \in Clients : Inside(u) => ret'[u] = ret[u]
  PROVE  /\ StacksInv'
         /\ \A u \in Clients : Taken(u)' = Taken(u) /\ (Inside(u)' <=> Inside(u)) /\ Top(u)' = Top(u)
  <1>1. \A u \in Clients : Taken(u)' = Taken(u) /\ (Inside(u)' <=> Inside(u)) /\ Top(u)' = Top(u)
    BY DEF Taken, Inside, Top
  <1> QED
    BY <1>1 DEF StacksInv

LEMMA SameWindow ==
  ASSUME WindowInv, UNCHANGED <<stack, window, f1base, windowLost>>,
         \A u \in Clients : Inside(u) => ret'[u] = ret[u]
  PROVE  WindowInv'
  <1>1. \A u \in Clients : /\ Writing(u)' <=> Writing(u)
                           /\ Inside(u)' <=> Inside(u)
                           /\ Top(u)' = Top(u) /\ Caller(u)' = Caller(u)
    BY DEF Writing, Inside, Top, Caller
  <1>2. ASSUME ~windowLost, NEW u \in Clients, Inside(u)' PROVE TopWindow(u)'
    BY <1>1, <1>2 DEF WindowInv, TopWindow
  <1>3. ASSUME ~windowLost PROVE \A u \in Clients : (Inside(u) /\ stack[u][1].fn = "F1Memory"
           /\ stack[u][1].pc = "called" => f1base = stack[u][1].base)'
    BY <1>1, <1>3 DEF WindowInv
  <1> QED
    BY <1>1, <1>2, <1>3 DEF WindowInv

LEMMA SameEvents ==
  ASSUME EventsInv, UNCHANGED <<stack, cmd, dat, event, status>>
  PROVE  EventsInv'
  <1>1. \A u \in Clients : /\ Inside(u)' <=> Inside(u)
                           /\ Top(u)' = Top(u) /\ Caller(u)' = Caller(u)
    BY DEF Inside, Top, Caller
  <1>2. OwnCompletion'
    BY <1>1 DEF EventsInv, OwnCompletion
  <1>3. \A u \in Clients : Inside(u)' => TopEvents(u)'
    BY <1>1 DEF EventsInv, TopEvents, Reported
  <1> QED
    BY <1>2, <1>3 DEF EventsInv, Reported

LEMMA SameMask ==
  ASSUME MaskInv, UNCHANGED <<stack, signal, started>>,
         ~started => work' = {} /\ rxpc' = "wait" /\ "card" \notin rxEvent',
         started => \/ "card" \in rxEvent' \/ rxpc' # "wait" \/ signal
                    \/ "card" \notin rxEvent /\ rxpc = "wait",
         rxpc' = "unlock" => signal \/ "card" \in rxEvent'
  PROVE  MaskInv'
  <1>1. \A u \in Clients : (Inside(u) /\ Top(u).pc = "mask" /\ signal => Top(u).old)'
    BY DEF MaskInv, Inside, Top
  <1>2. (started /\ ~signal =>
          \/ "card" \in rxEvent \/ rxpc # "wait"
          \/ \E u \in Clients : \E i \in 1 .. Len(stack[u]) : WillEnable(stack[u][i]))'
    BY DEF MaskInv
  <1>3. /\ \A u \in Clients : \A i \in 1 .. Len(stack'[u]) : Masked(stack'[u][i]) => ~signal'
        /\ \A u \in Clients : \A i, j \in 1 .. Len(stack'[u]) :
             i < j /\ Masked(stack'[u][i]) => ~WillEnable(stack'[u][j])
        /\ ~started' => \A u \in Clients : \A i \in 1 .. Len(stack'[u]) : ~WillEnable(stack'[u][i])
    BY DEF MaskInv
  <1>4. ~started' => ~signal'
    BY DEF MaskInv
  <1> QED
    BY <1>1, <1>2, <1>3, <1>4 DEF MaskInv

(* A step that only moves the receive thread, or its event mask.           *)
LEMMA OnlyRx ==
  ASSUME Inv, UNCHANGED <<owner, depth, leaked, signal, event, stack, f1base, windowLost,
                          cmd, dat, status, window, started>>,
         \A u \in Clients : Inside(u) => ret'[u] = ret[u],
         RxHolds' <=> RxHolds, Inside(Rx) => rxpc' \in DOMAIN RxNext,
         ~started => work' = {} /\ rxpc' = "wait" /\ "card" \notin rxEvent',
         started => \/ "card" \in rxEvent' \/ rxpc' # "wait" \/ signal
                    \/ "card" \notin rxEvent /\ rxpc = "wait",
         rxpc' = "unlock" => signal \/ "card" \in rxEvent'
  PROVE  Inv'
  <1>1. /\ StacksInv'
        /\ \A u \in Clients : Taken(u)' = Taken(u) /\ (Inside(u)' <=> Inside(u))
    BY SameStacks DEF Inv
  <1>2. LockInv'
    <2>1. \A u \in Clients : Due(u)' = Due(u)
      BY <1>1 DEF Due
    <2>2. Inside(Rx)' => rxpc' \in DOMAIN RxNext
      BY <1>1 DEF Clients
    <2>3. LockInv
      BY DEF Inv
    <2> QED
      BY <2>1, <2>2, <2>3 DEF LockInv
  <1>3. MaskInv'
    BY SameMask DEF Inv
  <1>4. WindowInv' /\ EventsInv'
    BY SameWindow, SameEvents DEF Inv
  <1> QED
    BY <1>1, <1>2, <1>3, <1>4 DEF Inv

LEMMA MainTakesKeeps ==
  ASSUME SdioInv, MainTakes
  PROVE  Inv'
  <1>1. /\ Inv /\ LockInv /\ MaskInv
        /\ UNCHANGED <<drvVars, rxpc, clkEnable, irqstatus, started, hwVars>>
    BY DEF SdioInv, Inv, MainTakes
  <1>2. PICK e \in rxEvent \ {"card"} : rxEvent' = rxEvent \ {e}
    BY DEF MainTakes
  <1>3. "card" \in rxEvent' <=> "card" \in rxEvent
    BY <1>2
  <1> QED
    BY <1>1, <1>3, OnlyRx DEF drvVars, hwVars, RxHolds, LockInv, MaskInv

LEMMA RxWaitKeeps ==
  ASSUME SdioInv, RxWait
  PROVE  Inv'
  <1>1. /\ Inv /\ LockInv /\ MaskInv /\ ~Inside(Rx) /\ rxpc = "wait" /\ "card" \in rxEvent
        /\ rxpc' = "clear"
        /\ UNCHANGED <<drvVars, rxEvent, clkEnable, irqstatus, started, hwVars>>
    BY DEF SdioInv, Inv, RxWait, RxAt
  <1>2. ~RxHolds' /\ ~RxHolds
    BY <1>1, RxNextDomain DEF RxHolds
  <1> QED
    BY <1>1, <1>2, OnlyRx DEF drvVars, hwVars, MaskInv

LEMMA RxClearKeeps ==
  ASSUME SdioInv, RxClear
  PROVE  Inv'
  <1>1. /\ Inv /\ LockInv /\ MaskInv /\ ~Inside(Rx) /\ rxpc = "clear"
        /\ rxpc' = "lock" /\ rxEvent' = rxEvent \ {"card"}
        /\ UNCHANGED <<drvVars, clkEnable, irqstatus, started, hwVars>>
    BY DEF SdioInv, Inv, RxClear, RxAt
  <1>2. ~RxHolds' /\ ~RxHolds
    BY <1>1, RxNextDomain DEF RxHolds
  <1> QED
    BY <1>1, <1>2, OnlyRx DEF drvVars, hwVars, MaskInv

LEMMA RxCallKeeps ==
  ASSUME SdioInv, NEW pc \in DOMAIN RxNext, RxCall(pc)
  PROVE  Inv'
  <1>1. /\ Inv /\ LockInv /\ MaskInv /\ ~Inside(Rx) /\ rxpc = pc
        /\ UNCHANGED <<owner, depth, leaked, signal, event, ret, f1base, windowLost,
                       rxEvent, clkEnable, irqstatus, started, hwVars>>
    BY DEF SdioInv, Inv, RxCall, RxAt
  <1>2. CASE RxSkips(pc)
    <2>1. rxpc' = RxNext[pc] /\ UNCHANGED stack
      BY <1>2 DEF RxCall
    <2>2. rxpc' \in {"enable"} \cup DOMAIN RxNext
      BY <2>1, RxNextDomain
    <2>3. RxHolds' /\ RxHolds
      BY <1>1, <2>2 DEF RxHolds
    <2>4. rxpc # "wait" /\ rxpc' # "wait" /\ rxpc' # "unlock"
      BY <1>1, <2>2, RxNextDomain
    <2> QED
      BY <1>1, <2>1, <2>3, <2>4, OnlyRx DEF hwVars, MaskInv
  <1>3. CASE ~RxSkips(pc)
    <2>1. PICK b \in Bases : Begin(Rx, IF pc = "clock" THEN Frame("SetClocks", {}, 1, None)
                                       ELSE Frame("F1Memory", {}, 1, b))
      BY <1>3 DEF RxCall
    <2> DEFINE g == IF pc = "clock" THEN Frame("SetClocks", {}, 1, None)
                    ELSE Frame("F1Memory", {}, 1, b)
    <2>2. {} \in SUBSET Bits /\ 1 \in Nat /\ 1 > 0 /\ "SetClocks" \in Functions /\ "F1Memory" \in Functions
      BY DEF Functions
    <2>3. /\ FrameOK(Frame("SetClocks", {}, 1, None))
          /\ Frame("SetClocks", {}, 1, None).fn = "SetClocks"
          /\ Frame("SetClocks", {}, 1, None).pc = "enter"
      BY <2>2, NewFrame
    <2>4. /\ FrameOK(Frame("F1Memory", {}, 1, b))
          /\ Frame("F1Memory", {}, 1, b).fn = "F1Memory"
          /\ Frame("F1Memory", {}, 1, b).pc = "enter"
      BY <2>2, NewFrame
    <2>5. FrameOK(g) /\ g.fn \in {"F1Memory", "SetClocks"} /\ g.pc = "enter"
      BY <2>3, <2>4
    <2>6. Begin(Rx, g)
      BY <2>1
    <2> HIDE DEF g
    <2>7. Placed(1, g)
      BY <2>5 DEF Placed
    <2>8. Rx \in Clients /\ UNCHANGED rxVars
      BY <1>1, <1>3 DEF Clients, rxVars, RxCall
    <2> QED
      BY <1>1, <2>5, <2>6, <2>7, <2>8, Begun
  <1> QED
    BY <1>2, <1>3

LEMMA RxCalledKeeps ==
  ASSUME SdioInv, NEW pc \in DOMAIN RxNext, RxCalled(pc)
  PROVE  Inv'
  <1>1. /\ Inv /\ Scalars /\ LockInv /\ MaskInv /\ ~Inside(Rx) /\ rxpc = pc
        /\ ret' = [ret EXCEPT ![Rx] = "none"] /\ rxpc' = RxNext[pc]
        /\ UNCHANGED <<owner, depth, leaked, signal, event, stack, f1base, windowLost, started,
                       cmd, dat, status, window, faults>>
    BY DEF SdioInv, Inv, RxCalled, RxAt
  <1>2. rxpc' \in {"enable"} \cup DOMAIN RxNext
    BY <1>1, RxNextDomain
  <1>3. RxHolds' /\ RxHolds
    BY <1>1, <1>2 DEF RxHolds
  <1>4. rxpc # "wait" /\ rxpc' # "wait" /\ rxpc' # "unlock"
    BY <1>1, <1>2, RxNextDomain
  <1>5. \A u \in Clients : Inside(u) => ret'[u] = ret[u]
    BY <1>1 DEF Scalars
  <1>6. started
    BY <1>1, <1>4 DEF MaskInv
  <1> QED
    BY <1>1, <1>3, <1>4, <1>5, <1>6, OnlyRx

(* Outside of every function the receive thread still holds the mutex.     *)
LEMMA RxAlone ==
  ASSUME Scalars, StacksInv, LockInv, RxHolds
  PROVE  /\ owner = Rx /\ depth \in Nat /\ depth > 0 /\ Due(Rx) = depth
         /\ \A u \in Clients : u # Rx => /\ Due(u) = 0
                                         /\ Inside(u) => Len(stack[u]) = 1 /\ Top(u).pc = "enter"
  <1>1. Rx \in Clients
    BY DEF Clients
  <1>2. \A u \in Clients : leaked[u] \in Nat /\ Taken(u) \in Nat
    BY TakenType DEF Scalars
  <1>3. Due(Rx) > 0
    BY <1>1, <1>2 DEF Due
  <1>4. owner = Rx /\ depth \in Nat /\ depth > 0 /\ Due(Rx) = depth
    BY <1>1, <1>3 DEF LockInv, Scalars
  <1>5. \A u \in Clients : u # Rx => Due(u) = 0
    BY <1>4 DEF LockInv
  <1>6. \A u \in Clients : u # Rx => Taken(u) = 0
    BY <1>2, <1>5 DEF Due
  <1> QED
    BY <1>4, <1>5, <1>6, TakenType

LEMMA RxEnableKeeps ==
  ASSUME SdioInv, RxEnable
  PROVE  Inv'
  <1>1. /\ Inv /\ Scalars /\ StacksInv /\ LockInv /\ MaskInv /\ ~Inside(Rx) /\ rxpc = "enable"
        /\ signal' = TRUE /\ rxpc' = "unlock"
        /\ UNCHANGED <<owner, depth, leaked, event, stack, ret, f1base, windowLost,
                       rxEvent, started, cmd, dat, status, window, work>>
    BY DEF SdioInv, Inv, RxEnable, RxAt, hwVars
  <1>2. /\ StacksInv'
        /\ \A u \in Clients : Taken(u)' = Taken(u) /\ (Inside(u)' <=> Inside(u)) /\ Top(u)' = Top(u)
    BY <1>1, SameStacks
  <1>3. RxHolds /\ RxHolds'
    BY <1>1 DEF RxHolds
  <1>4. LockInv'
    <2>1. \A u \in Clients : Due(u)' = Due(u)
      BY <1>1, <1>2, <1>3 DEF Due
    <2> QED
      BY <1>1, <1>2, <2>1 DEF LockInv, Clients
  <1>5. \A u \in Clients : Inside(u) => Len(stack[u]) = 1 /\ Top(u).pc = "enter"
    BY <1>1, <1>3, RxAlone
  <1>6. \A u \in Clients : \A i \in 1 .. Len(stack[u]) : ~Masked(stack[u][i])
    <2> SUFFICES ASSUME NEW u \in Clients, NEW i \in 1 .. Len(stack[u])
                 PROVE  ~Masked(stack[u][i])
      OBVIOUS
    <2>1. Inside(u)
      BY <1>1, StackTop
    <2>2. stack[u][i].pc = "enter"
      BY <1>5, <2>1 DEF Top
    <2> QED
      BY <2>2 DEF Masked
  <1>7. started
    BY <1>1 DEF MaskInv
  <1>8. MaskInv'
    <2>1. \A u \in Clients : (Inside(u) /\ Top(u).pc = "mask" /\ signal => Top(u).old)'
      BY <1>2, <1>5
    <2> QED
      BY <1>1, <1>6, <1>7, <2>1 DEF MaskInv
  <1>9. WindowInv' /\ EventsInv'
    BY <1>1, SameWindow, SameEvents DEF Inv
  <1> QED
    BY <1>2, <1>4, <1>8, <1>9 DEF Inv

LEMMA RxLockKeeps ==
  ASSUME SdioInv, RxLock
  PROVE  Inv'
  <1>1. /\ Inv /\ Scalars /\ StacksInv /\ LockInv /\ MaskInv /\ ~Inside(Rx) /\ rxpc = "lock"
        /\ owner \in {None, Rx} /\ owner' = Rx /\ depth' = depth + 1 /\ rxpc' = "clock"
        /\ UNCHANGED <<leaked, signal, event, stack, ret, f1base, windowLost,
                       rxEvent, started, cmd, dat, status, window, work>>
    BY DEF SdioInv, Inv, RxLock, RxAt, hwVars
  <1>2. /\ StacksInv'
        /\ \A u \in Clients : Taken(u)' = Taken(u) /\ (Inside(u)' <=> Inside(u)) /\ Top(u)' = Top(u)
    BY <1>1, SameStacks
  <1>3. ~RxHolds /\ RxHolds' /\ rxpc' \in DOMAIN RxNext
    BY <1>1, RxNextDomain DEF RxHolds
  <1>4. Rx \in Clients /\ Rx # None
    BY SdioAssumption DEF Clients
  <1>5. LockInv'
    <2>1. \A u \in Clients : leaked[u] \in Nat /\ Taken(u) \in Nat
      BY <1>1, TakenType DEF Scalars
    <2>2. \A u \in Clients : u # Rx => Due(u)' = Due(u)
      BY <1>1, <1>2 DEF Due
    <2>3. Due(Rx)' = Due(Rx) + 1
      BY <1>1, <1>2, <1>3, <1>4, <2>1 DEF Due
    <2>4. Due(Rx) = depth /\ \A u \in Clients : u # Rx => Due(u) = 0
      BY <1>1, <1>4 DEF LockInv
    <2> QED
      BY <1>1, <1>3, <1>4, <2>2, <2>3, <2>4 DEF LockInv
  <1>6. MaskInv'
    BY <1>1, SameMask DEF MaskInv
  <1>7. WindowInv' /\ EventsInv'
    BY <1>1, SameWindow, SameEvents DEF Inv
  <1> QED
    BY <1>2, <1>5, <1>6, <1>7 DEF Inv

LEMMA RxUnlockKeeps ==
  ASSUME SdioInv, RxUnlock
  PROVE  Inv'
  <1>1. /\ Inv /\ Scalars /\ StacksInv /\ LockInv /\ MaskInv /\ ~Inside(Rx) /\ rxpc = "unlock"
        /\ depth' = depth - 1 /\ owner' = (IF depth = 1 THEN None ELSE owner) /\ rxpc' = "wait"
        /\ UNCHANGED <<leaked, signal, event, stack, ret, f1base, windowLost,
                       rxEvent, started, cmd, dat, status, window, work>>
    BY DEF SdioInv, Inv, RxUnlock, RxAt, hwVars
  <1>2. /\ StacksInv'
        /\ \A u \in Clients : Taken(u)' = Taken(u) /\ (Inside(u)' <=> Inside(u)) /\ Top(u)' = Top(u)
    BY <1>1, SameStacks
  <1>3. RxHolds /\ ~RxHolds'
    BY <1>1, RxNextDomain DEF RxHolds
  <1>4. Rx \in Clients /\ Rx # None
    BY SdioAssumption DEF Clients
  <1>5. LockInv'
    <2>1. \A u \in Clients : leaked[u] \in Nat /\ Taken(u) \in Nat
      BY <1>1, TakenType DEF Scalars
    <2>2. \A u \in Clients : u # Rx => Due(u)' = Due(u)
      BY <1>1, <1>2 DEF Due
    <2>3. Due(Rx)' = Due(Rx) - 1
      BY <1>1, <1>2, <1>3, <1>4, <2>1 DEF Due
    <2>4. /\ owner = Rx /\ depth \in Nat /\ depth > 0 /\ Due(Rx) = depth
          /\ \A u \in Clients : u # Rx => Due(u) = 0
      BY <1>1, <1>3, RxAlone
    <2>5. ~Inside(Rx)'
      BY <1>1, <1>2, <1>4
    <2>6. \A u \in Clients : Due(u)' = IF owner' = u THEN depth' ELSE 0
      BY <1>1, <1>4, <2>2, <2>3, <2>4, SdioAssumption DEF Clients
    <2>7. owner' = None => depth' = 0
      BY <1>1, <1>4, <2>4
    <2> QED
      BY <2>5, <2>6, <2>7 DEF LockInv
  <1>6. MaskInv'
    BY <1>1, SameMask DEF MaskInv
  <1>7. WindowInv' /\ EventsInv'
    BY <1>1, SameWindow, SameEvents DEF Inv
  <1> QED
    BY <1>2, <1>5, <1>6, <1>7 DEF Inv

LEMMA EnableCardIRQKeeps ==
  ASSUME SdioInv, SDIO_EnableCardIRQ
  PROVE  Inv'
  <1>1. /\ Inv /\ Scalars /\ StacksInv /\ LockInv /\ MaskInv /\ ~Inside(Main) /\ ~started
        /\ started' = TRUE /\ signal' = TRUE
        /\ UNCHANGED <<owner, depth, leaked, event, stack, ret, f1base, windowLost,
                       rxEvent, rxpc, cmd, dat, status, window, work>>
    BY DEF SdioInv, Inv, SDIO_EnableCardIRQ, hwVars
  <1>2. /\ StacksInv'
        /\ \A u \in Clients : Taken(u)' = Taken(u) /\ (Inside(u)' <=> Inside(u)) /\ Top(u)' = Top(u)
    BY <1>1, SameStacks
  <1>3. rxpc = "wait"
    BY <1>1 DEF MaskInv
  <1>4. \A u \in Clients : ~Inside(u)
    BY <1>1, <1>3, RxNextDomain DEF LockInv, Clients
  <1>5. LockInv'
    <2>1. \A u \in Clients : Due(u)' = Due(u)
      BY <1>1, <1>2 DEF Due, RxHolds
    <2> QED
      BY <1>1, <1>2, <2>1 DEF LockInv, Clients
  <1>6. MaskInv'
    <2>1. \A u \in Clients : \A i \in 1 .. Len(stack[u]) : FALSE
      BY <1>1, <1>4, StackTop
    <2> QED
      BY <1>1, <1>2, <1>3, <1>4, <2>1 DEF MaskInv
  <1>7. WindowInv' /\ EventsInv'
    BY <1>1, SameWindow, SameEvents DEF Inv
  <1> QED
    BY <1>2, <1>5, <1>6, <1>7 DEF Inv
-----------------------------------------------------------------------------
(* The interrupt handler, the host controller and the card. *)

LEMMA HandlerKeeps ==
  ASSUME SdioInv, SDIO_IRQHandler
  PROVE  Inv'
  <1> DEFINE card == work # {} /\ signal
  <1>1. /\ Inv /\ Scalars /\ StacksInv /\ LockInv /\ MaskInv /\ EventsInv
        /\ signal' = (signal /\ ~card)
        /\ rxEvent' = (IF card THEN rxEvent \cup {"card"} ELSE rxEvent)
        /\ status' = {} /\ event' = event \cup (status \ {"dma"})
        /\ dat' = (IF "dma" \in status /\ "xfer_done" \notin status /\ dat = "paused"
                   THEN "busy" ELSE dat)
        /\ UNCHANGED <<owner, depth, leaked, stack, ret, f1base, windowLost,
                       rxpc, started, cmd, window, work>>
    BY DEF SdioInv, Inv, SDIO_IRQHandler
  <1>2. /\ StacksInv'
        /\ \A u \in Clients : Taken(u)' = Taken(u) /\ (Inside(u)' <=> Inside(u)) /\ Top(u)' = Top(u)
    BY <1>1, SameStacks
  <1>3. LockInv'
    <2>1. \A u \in Clients : Due(u)' = Due(u)
      BY <1>1, <1>2 DEF Due, RxHolds
    <2> QED
      BY <1>1, <1>2, <2>1 DEF LockInv, Clients
  <1>4. MaskInv'
    <2>1. signal \in BOOLEAN /\ (signal' => signal) /\ (signal /\ ~signal' => "card" \in rxEvent')
          /\ ("card" \in rxEvent => "card" \in rxEvent')
      BY <1>1 DEF Scalars
    <2>2. ~started => ~card /\ ~signal /\ work = {} /\ rxpc = "wait" /\ "card" \notin rxEvent
      BY <1>1 DEF MaskInv
    <2>3. ~started => "card" \notin rxEvent' /\ ~signal'
      BY <1>1, <2>2
    <2> HIDE DEF card
    <2>4. \A u \in Clients : (Inside(u) /\ Top(u).pc = "mask" /\ signal => Top(u).old)'
      BY <1>1, <1>2, <2>1 DEF MaskInv
    <2>5. (started /\ ~signal =>
            \/ "card" \in rxEvent \/ rxpc # "wait"
            \/ \E u \in Clients : \E i \in 1 .. Len(stack[u]) : WillEnable(stack[u][i]))'
      BY <1>1, <2>1 DEF MaskInv
    <2>6. /\ \A u \in Clients : \A i \in 1 .. Len(stack'[u]) : Masked(stack'[u][i]) => ~signal'
          /\ \A u \in Clients : \A i, j \in 1 .. Len(stack'[u]) :
               i < j /\ Masked(stack'[u][i]) => ~WillEnable(stack'[u][j])
          /\ ~started' => \A u \in Clients : \A i \in 1 .. Len(stack'[u]) : ~WillEnable(stack'[u][i])
      BY <1>1, <2>1 DEF MaskInv
    <2>7. rxpc' = "unlock" => signal' \/ "card" \in rxEvent'
      BY <1>1, <2>1 DEF MaskInv
    <2> QED
      BY <1>1, <2>2, <2>3, <2>4, <2>5, <2>6, <2>7 DEF MaskInv
  <1>5. WindowInv'
    BY <1>1, SameWindow DEF Inv
  <1>6. EventsInv'
    <2>1. Reported' \subseteq Reported
      BY <1>1 DEF Reported
    <2>2. dat = "idle" <=> dat' = "idle"
      BY <1>1
    <2>3. dat = "ready" => dat' = "ready"
      BY <1>1
    <2>4. \A u \in Clients : Inside(u)' => TopEvents(u)'
      <3> SUFFICES ASSUME NEW u \in Clients, Inside(u)' PROVE TopEvents(u)'
        OBVIOUS
      <3>1. TopEvents(u)
        BY <1>1, <1>2 DEF EventsInv
      <3>2. Top(u)' = Top(u) /\ Caller(u)' = Caller(u)
        BY <1>1, <1>2 DEF Caller
      <3> QED
        BY <1>1, <2>1, <2>2, <3>1, <3>2 DEF TopEvents
    <2>5. OwnCompletion'
      BY <1>1, <1>2, <2>2, <2>3 DEF EventsInv, OwnCompletion
    <2> QED
      BY <1>1, <2>1, <2>2, <2>3, <2>4, <2>5 DEF EventsInv
  <1> QED
    BY <1>2, <1>3, <1>4, <1>5, <1>6 DEF Inv

(* The host and the card leave what the driver keeps alone.                *)
LEMMA HostKeeps ==
  ASSUME SdioInv, UNCHANGED <<drvVars, rxVars, window>>, started \/ work' = work,
         ASSUME EventsInv PROVE EventsInv'
  PROVE  Inv'
  <1>1. /\ Inv /\ LockInv /\ MaskInv /\ StacksInv /\ EventsInv
        /\ UNCHANGED <<owner, depth, leaked, signal, event, stack, ret, f1base, windowLost,
                       rxEvent, rxpc, started, window>>
    BY DEF SdioInv, Inv, drvVars, rxVars
  <1>2. /\ StacksInv'
        /\ \A u \in Clients : Taken(u)' = Taken(u) /\ (Inside(u)' <=> Inside(u))
    BY <1>1, SameStacks
  <1>3. LockInv'
    <2>1. \A u \in Clients : Due(u)' = Due(u)
      BY <1>1, <1>2 DEF Due, RxHolds
    <2> QED
      BY <1>1, <1>2, <2>1 DEF LockInv, Clients
  <1>4. MaskInv'
    BY <1>1, SameMask DEF MaskInv
  <1>5. WindowInv'
    BY <1>1, SameWindow DEF Inv
  <1> QED
    BY <1>1, <1>2, <1>3, <1>4, <1>5 DEF Inv

(* What must hold of the lines and the events when they move.              *)
LEMMA HardwareEvents ==
  ASSUME EventsInv, NEW c, NEW d, NEW bits, Hardware(c, d, bits),
         cmd = "busy" \/ c = cmd, c = "idle",
         "cmd_done" \notin bits \/ cmd = "busy",
         \/ d \in {dat, "idle"} /\ "xfer_done" \notin bits /\ "data_ready" \notin bits
         \/ d = "idle" /\ dat \notin {"idle", "ready"}
         \/ dat \notin {"idle", "ready"} /\ d # "idle"
            /\ "xfer_done" \notin bits /\ ("data_ready" \in bits => d = "ready")
  PROVE  EventsInv'
  <1>1. /\ cmd' = c /\ dat' = d /\ UNCHANGED <<stack, event>>
        /\ Reported' = Reported \cup bits
    BY DEF Hardware, drvVars, Reported
  <1>2. \A u \in Clients : /\ Inside(u)' <=> Inside(u)
                           /\ Top(u)' = Top(u) /\ Caller(u)' = Caller(u)
    BY <1>1 DEF Inside, Top, Caller
  <1>3. /\ "cmd_done" \in Reported' => cmd' = "idle"
        /\ "xfer_done" \in Reported' => dat' = "idle"
        /\ "data_ready" \in Reported' => dat' \in {"ready", "idle"}
    BY <1>1 DEF EventsInv
  <1>4. OwnCompletion'
    BY <1>1, <1>2 DEF EventsInv, OwnCompletion
  <1>5. ASSUME NEW u \in Clients, Inside(u)' PROVE TopEvents(u)'
    <2>1. TopEvents(u)
      BY <1>2, <1>5 DEF EventsInv
    <2>2. CASE Top(u).fn # "SendCommand"
      BY <1>2, <2>2 DEF TopEvents
    <2>3. CASE Top(u).fn = "SendCommand"
      <3>1. Top(u).pc = "issue" => cmd = "idle" /\ "cmd_done" \notin Reported'
        BY <1>1, <2>1, <2>3 DEF TopEvents
      <3>2. Caller(u).fn = "CardData"
              /\ Top(u).pc \in {"enter", "save", "mask", "body", "clear", "issue"}
            => dat = "idle"
        BY <2>1, <2>3 DEF TopEvents
      <3>3. Top(u).pc = "issue" /\ Caller(u).fn = "CardData"
              => Reported' \cap {"xfer_done", "data_ready"} = {}
        <4>1. Top(u).pc = "issue" /\ Caller(u).fn = "CardData"
                => Reported \cap {"xfer_done", "data_ready"} = {}
          BY <2>1, <2>3 DEF TopEvents
        <4> QED
          BY <1>1, <3>2, <4>1
      <3>4. dat = "idle" => dat' = "idle"
        BY <1>1
      <3> QED
        BY <1>1, <1>2, <3>1, <3>2, <3>3, <3>4 DEF TopEvents
    <2> QED
      BY <2>2, <2>3
  <1> QED
    BY <1>3, <1>4, <1>5 DEF EventsInv

LEMMA HardwareKeeps ==
  ASSUME SdioInv, CommandEnds \/ DataMoves \/ DataEnds \/ CardEvent
  PROVE  Inv'
  <1>1. CASE CommandEnds
    <2>1. PICK d \in {dat, "idle"}, bits \in {{"cmd_done"}, {"error"}} : Hardware("idle", d, bits)
      BY <1>1 DEF CommandEnds
    <2>2. cmd = "busy"
      BY <1>1 DEF CommandEnds
    <2>3. ASSUME EventsInv PROVE EventsInv'
      BY <2>1, <2>2, <2>3, HardwareEvents
    <2>4. UNCHANGED <<drvVars, rxVars, window, work>>
      BY <2>1 DEF Hardware
    <2> QED
      BY <2>3, <2>4, HostKeeps
  <1>2. CASE DataMoves
    <2>1. cmd = "idle"
      BY <1>2 DEF DataMoves
    <2>2. \/ dat = "pio" /\ Hardware("idle", "ready", {"data_ready"})
          \/ dat = "busy" /\ Hardware("idle", "paused", {"dma"})
          \/ Hardware("idle", "idle", {"error"})
      BY <1>2 DEF DataMoves
    <2>3. ASSUME EventsInv PROVE EventsInv'
      <3>1. CASE dat = "pio" /\ Hardware("idle", "ready", {"data_ready"})
        BY <2>1, <2>3, <3>1, HardwareEvents
      <3>2. CASE dat = "busy" /\ Hardware("idle", "paused", {"dma"})
        BY <2>1, <2>3, <3>2, HardwareEvents
      <3>3. CASE Hardware("idle", "idle", {"error"})
        BY <2>1, <2>3, <3>3, HardwareEvents
      <3> QED
        BY <2>2, <3>1, <3>2, <3>3
    <2>4. UNCHANGED <<drvVars, rxVars, window, work>>
      BY <2>2 DEF Hardware
    <2> QED
      BY <2>3, <2>4, HostKeeps
  <1>3. CASE DataEnds
    <2>1. cmd = "idle" /\ dat \in {"busy", "last"}
      BY <1>3 DEF DataEnds
    <2>2. PICK bits \in {{"xfer_done"}, {"xfer_done", "dma"}} : Hardware("idle", "idle", bits)
      BY <1>3, <2>1 DEF DataEnds
    <2>3. ASSUME EventsInv PROVE EventsInv'
      BY <2>1, <2>2, <2>3, HardwareEvents
    <2>4. UNCHANGED <<drvVars, rxVars, window, work>>
      BY <2>2 DEF Hardware
    <2> QED
      BY <2>3, <2>4, HostKeeps
  <1>4. CASE CardEvent
    <2>1. started /\ UNCHANGED <<drvVars, rxVars, cmd, dat, status, window, faults>>
      BY <1>4 DEF CardEvent
    <2>2. ASSUME EventsInv PROVE EventsInv'
      BY <2>1, <2>2, SameEvents DEF drvVars
    <2> QED
      BY <2>1, <2>2, HostKeeps
  <1> QED
    BY <1>1, <1>2, <1>3, <1>4
-----------------------------------------------------------------------------
(* The other variables keep their values. *)

LEMMA ScalarsKept ==
  ASSUME SdioInv, NEW t \in Clients, Step(t) \/ WaitTimesOut(t)
  PROVE  Scalars'
  <1>0. Scalars /\ StacksInv /\ LockInv
    BY DEF SdioInv, Inv
  <1>1. Inside(t) => /\ FrameOK(Top(t)) /\ Top(t).old \in BOOLEAN /\ Top(t).res \in {"ok", "fail"}
                     /\ Top(t).fn = "SetF1Base" => Top(t).base \in Bases
    BY <1>0, StackTop DEF FrameOK, Frames
  <1>2. ASSUME NEW r \in {"none", "ok", "fail"}, ret' = [ret EXCEPT ![t] = r]
        PROVE  ret' \in [Clients -> {"none", "ok", "fail"}]
    BY <1>0, <1>2 DEF Scalars
  <1>3. CASE SaveIrq(t)
    BY <1>0, <1>3 DEF SaveIrq, Scalars, rxVars, hwVars, Fault
  <1>4. CASE MaskIrq(t)
    BY <1>0, <1>4, ZenonT(30) DEF MaskIrq, Scalars, rxVars, hwVars, Fault
  <1>5. CASE CheckInhibit(t)
    BY <1>0, <1>5 DEF CheckInhibit, Scalars, rxVars, hwVars, Fault
  <1>6. CASE ClearEvents(t)
    BY <1>0, <1>6 DEF ClearEvents, Scalars, rxVars, hwVars, Fault
  <1>7. CASE WaitReturns(t)
    BY <1>0, <1>7 DEF WaitReturns, Scalars, rxVars, hwVars, Fault
  <1>8. CASE WaitTimesOut(t)
    BY <1>0, <1>8 DEF WaitTimesOut, Scalars, rxVars, hwVars, Fault
  <1>9. CASE CardRegsNext(t)
    BY <1>0, <1>9 DEF CardRegsNext, Scalars, rxVars, hwVars, Fault
  <1>10. CASE CardDataStart(t)
    BY <1>0, <1>10 DEF CardDataStart, Scalars, rxVars, hwVars, Fault
  <1>11. CASE SetF1BaseWrite(t)
    BY <1>0, <1>11 DEF SetF1BaseWrite, Scalars, rxVars, hwVars, Fault
  <1>12. CASE F1MemoryNext(t)
    BY <1>0, <1>12 DEF F1MemoryNext, Scalars, rxVars, hwVars, Fault
  <1>13. CASE WaitDone(t)
    BY <1>0, <1>13 DEF WaitDone, Scalars, rxVars, hwVars, Fault
  <1>14. CASE CardRegsCalled(t)
    <2>1. ret' \in [Clients -> {"none", "ok", "fail"}]
      BY <1>2, <1>14 DEF CardRegsCalled, Returned
    <2> QED
      BY <1>0, <1>14, <2>1 DEF CardRegsCalled, Scalars, rxVars, hwVars, Fault
  <1>15. CASE CardDataCalled(t)
    <2>1. ret' \in [Clients -> {"none", "ok", "fail"}]
      BY <1>2, <1>15 DEF CardDataCalled, Returned
    <2> QED
      BY <1>0, <1>15, <2>1 DEF CardDataCalled, Scalars, rxVars, hwVars, Fault
  <1>16. CASE F1MemoryBased(t)
    <2>1. ret' \in [Clients -> {"none", "ok", "fail"}]
      BY <1>2, <1>16 DEF F1MemoryBased, Returned
    <2> QED
      BY <1>0, <1>16, <2>1 DEF F1MemoryBased, Scalars, rxVars, hwVars, Fault
  <1>17. CASE F1MemoryCalled(t)
    <2>1. ret' \in [Clients -> {"none", "ok", "fail"}]
      BY <1>2, <1>17 DEF F1MemoryCalled, Returned
    <2>2. UNCHANGED <<owner, depth, leaked, signal, event, f1base, windowLost, rxVars, hwVars>>
      BY <1>17 DEF F1MemoryCalled
    <2> QED
      BY <1>0, <2>1, <2>2 DEF Scalars, rxVars, hwVars
  <1>18. CASE SetClocksNext(t)
    <2>1. ret' \in [Clients -> {"none", "ok", "fail"}]
      BY <1>2, <1>18 DEF SetClocksNext, Returned
    <2> QED
      BY <1>0, <1>18, <2>1 DEF SetClocksNext, Scalars, rxVars, hwVars, Fault
  <1>19. CASE Issue(t)
    <2>1. /\ UNCHANGED <<owner, depth, leaked, signal, event, ret, f1base, windowLost, rxVars,
                         status, work, faults>>
          /\ cmd' = "busy" /\ dat' \in {dat, "pio", "busy"}
          /\ \/ window' \in {window, None}
             \/ window' = Caller(t).base
          /\ Inside(t) /\ Top(t).fn = "SendCommand"
      BY <1>19 DEF Issue, At, Caller
    <2>2. Caller(t).base \in Bases \cup {None}
      BY <1>0, <2>1, CommandCalled DEF FrameOK, Frames
    <2> QED
      BY <1>0, <2>1, <2>2 DEF Scalars, rxVars
  <1>20. CASE Enter(t)
    <2>1. ret' \in [Clients -> {"none", "ok", "fail"}]
      BY <1>0, <1>2, <1>20 DEF Enter, Return, Scalars
    <2>2. owner' \in {owner, t} /\ depth' \in {depth, depth + 1}
      BY <1>20 DEF Enter
    <2>3. UNCHANGED <<leaked, signal, event, f1base, windowLost, rxVars, hwVars>>
      BY <1>20 DEF Enter
    <2> QED
      BY <1>0, <2>1, <2>2, <2>3 DEF Scalars, rxVars, hwVars
  <1>21. CASE RestoreIrq(t)
    <2>1. /\ Inside(t) /\ signal' = Top(t).old
          /\ UNCHANGED <<owner, depth, event, f1base, windowLost, rxVars, hwVars>>
      BY <1>21 DEF RestoreIrq
    <2>2. ret' \in [Clients -> {"none", "ok", "fail"}]
      BY <1>0, <1>2, <1>21 DEF RestoreIrq, Return, Scalars
    <2>3. leaked' \in [Clients -> Nat]
      BY <1>0, <1>21 DEF RestoreIrq, Scalars
    <2> QED
      BY <1>0, <1>1, <2>1, <2>2, <2>3 DEF Scalars, rxVars, hwVars
  <1>22. CASE Release(t)
    <2>1. /\ Inside(t) /\ Top(t).pc = "release" /\ depth' = depth - 1 /\ owner' \in {owner, None}
          /\ Return(t, Top(t).res)
          /\ UNCHANGED <<leaked, signal, event, f1base, windowLost, rxVars, hwVars>>
      BY <1>22 DEF Release
    <2>2. depth \in Nat /\ depth > 0
      BY <1>0, <2>1, Alone
    <2>3. ret' \in [Clients -> {"none", "ok", "fail"}]
      BY <1>1, <1>2, <2>1 DEF Return
    <2> QED
      BY <1>0, <2>1, <2>2, <2>3 DEF Scalars, rxVars, hwVars
  <1>23. CASE SetF1BaseDone(t)
    <2>1. /\ Inside(t) /\ Top(t).fn = "SetF1Base"
          /\ f1base' \in {f1base, Top(t).base} /\ windowLost' \in {windowLost, TRUE}
          /\ ret' = [ret EXCEPT ![t] = "none"]
          /\ UNCHANGED <<owner, depth, leaked, signal, event, rxVars, hwVars>>
      BY <1>23 DEF SetF1BaseDone, At, Returned
    <2>2. f1base' \in Bases /\ windowLost' \in BOOLEAN
      BY <1>0, <1>1, <2>1 DEF Scalars
    <2>3. ret' \in [Clients -> {"none", "ok", "fail"}]
      BY <1>2, <2>1
    <2> QED
      BY <1>0, <2>1, <2>2, <2>3 DEF Scalars, rxVars, hwVars
  <1> QED
    BY <1>3, <1>4, <1>5, <1>6, <1>7, <1>8, <1>9, <1>10, <1>11, <1>12, <1>13, <1>14,
       <1>15, <1>16, <1>17, <1>18, <1>19, <1>20, <1>21, <1>22, <1>23 DEF Step

LEMMA OtherScalarsKept ==
  ASSUME SdioInv,
         \/ SDIO_IRQHandler \/ MainCalls \/ SDIO_EnableCardIRQ \/ MainTakes \/ RxThreadFunc
         \/ CommandEnds \/ DataMoves \/ DataEnds \/ CardEvent
  PROVE  Scalars'
  <1>0. Scalars /\ StacksInv /\ LockInv
    BY DEF SdioInv, Inv
  <1>1. CASE SDIO_IRQHandler
    <2>1. /\ signal' = (signal /\ ~(work # {} /\ signal)) /\ rxEvent' \in {rxEvent, rxEvent \cup {"card"}}
          /\ status' = {} /\ event' = event \cup (status \ {"dma"}) /\ dat' \in {dat, "busy"}
          /\ UNCHANGED <<owner, depth, leaked, stack, ret, f1base, windowLost,
                         rxpc, clkEnable, irqstatus, started, cmd, window, work, faults>>
      BY <1>1 DEF SDIO_IRQHandler
    <2>2. event' \subseteq Bits /\ rxEvent' \subseteq {"card", "list", "ready"} /\ signal' \in BOOLEAN
      BY <1>0, <2>1 DEF Scalars
    <2> QED
      BY <1>0, <2>1, <2>2 DEF Scalars
  <1>2. CASE MainCalls
    BY <1>0, <1>2 DEF MainCalls, Scalars, rxVars, hwVars
  <1>3. CASE SDIO_EnableCardIRQ
    BY <1>0, <1>3 DEF SDIO_EnableCardIRQ, Scalars, hwVars
  <1>4. CASE MainTakes
    BY <1>0, <1>4 DEF MainTakes, Scalars, drvVars, hwVars
  <1>5. CASE RxWait
    BY <1>0, <1>5 DEF RxWait, Scalars, drvVars, hwVars
  <1>6. CASE RxClear
    BY <1>0, <1>6 DEF RxClear, Scalars, drvVars, hwVars
  <1>7. CASE RxLock
    BY <1>0, <1>7, RxNextDomain DEF RxLock, Scalars, hwVars, Clients
  <1>8. CASE RxEnable
    BY <1>0, <1>8 DEF RxEnable, Scalars, hwVars
  <1>9. CASE RxUnlock
    <2>1. /\ depth' = depth - 1 /\ owner' \in {owner, None} /\ rxpc' = "wait" /\ rxpc = "unlock"
          /\ UNCHANGED <<leaked, signal, event, stack, ret, f1base, windowLost,
                         rxEvent, clkEnable, irqstatus, started, hwVars>>
      BY <1>9 DEF RxUnlock, RxAt
    <2>2. RxHolds
      BY <2>1 DEF RxHolds
    <2>3. depth' \in Nat
      BY <1>0, <2>1, <2>2, RxAlone
    <2> QED
      BY <1>0, <2>1, <2>3 DEF Scalars, hwVars
  <1>10. ASSUME NEW pc \in DOMAIN RxNext, RxCall(pc) PROVE Scalars'
    <2>1. /\ rxpc' \in {rxpc, RxNext[pc]}
          /\ UNCHANGED <<owner, depth, leaked, signal, event, ret, f1base, windowLost,
                         rxEvent, clkEnable, irqstatus, started, hwVars>>
      BY <1>10 DEF RxCall
    <2>2. rxpc' \in {rxpc, "enable"} \cup DOMAIN RxNext
      BY <2>1, RxNextDomain
    <2> QED
      BY <1>0, <2>1, <2>2 DEF Scalars, hwVars
  <1>11. ASSUME NEW pc \in DOMAIN RxNext, RxCalled(pc) PROVE Scalars'
    <2>1. /\ ret' = [ret EXCEPT ![Rx] = "none"] /\ rxpc' = RxNext[pc]
          /\ clkEnable' = (clkEnable \/ pc = "clock")
          /\ irqstatus' \in {irqstatus, work, {}}
          /\ work' \in {work, work \ irqstatus}
          /\ rxEvent' \subseteq rxEvent \cup {"list", "ready"}
          /\ UNCHANGED <<owner, depth, leaked, signal, event, stack, f1base, windowLost, started,
                         cmd, dat, status, window, faults>>
      BY <1>11 DEF RxCalled
    <2>2. rxpc' \in {"enable"} \cup DOMAIN RxNext
      BY <2>1, RxNextDomain
    <2>3. ret' \in [Clients -> {"none", "ok", "fail"}] /\ clkEnable' \in BOOLEAN
      BY <1>0, <2>1 DEF Scalars
    <2>4. /\ rxEvent' \subseteq {"card", "list", "ready"}
          /\ irqstatus' \subseteq CardEvents /\ work' \subseteq CardEvents
      BY <1>0, <2>1 DEF Scalars
    <2> QED
      BY <1>0, <2>1, <2>2, <2>3, <2>4 DEF Scalars
  <1>12. CASE CommandEnds \/ DataMoves \/ DataEnds
    <2>1. /\ cmd' \in {cmd, "idle"} /\ dat' \in {dat, "idle", "ready", "paused"}
          /\ status' \subseteq status \cup Bits \cup {"dma"} /\ faults' \in {faults, faults + 1}
          /\ UNCHANGED <<drvVars, rxVars, window, work>>
      BY <1>12 DEF CommandEnds, DataMoves, DataEnds, Hardware, Fault, Bits
    <2>2. status' \subseteq Bits \cup {"dma"} /\ faults' \in Nat
      BY <1>0, <2>1 DEF Scalars
    <2> QED
      BY <1>0, <2>1, <2>2 DEF Scalars, drvVars, rxVars
  <1>13. CASE CardEvent
    BY <1>0, <1>13 DEF CardEvent, Scalars, drvVars, rxVars
  <1> QED
    BY <1>1, <1>2, <1>3, <1>4, <1>5, <1>6, <1>7, <1>8, <1>9, <1>10, <1>11, <1>12, <1>13
    DEF RxThreadFunc
-----------------------------------------------------------------------------
(* The invariant. *)

LEMMA SdioInit == Init => SdioInv
  <1> SUFFICES ASSUME Init PROVE SdioInv
    OBVIOUS
  <1>1. \A t \in Clients : stack[t] = <<>> /\ Len(stack[t]) = 0 /\ ~Inside(t) /\ leaked[t] = 0
    BY DEF Init, Inside
  <1>2. rxpc = "wait" /\ ~RxHolds
    BY RxNextDomain DEF Init, RxHolds
  <1>3. Scalars
    BY DEF Init, Scalars
  <1>4. StacksInv
    <2>1. stack \in [Clients -> Seq(Frames)]
      BY <1>1 DEF Init
    <2> QED
      BY <1>1, <2>1 DEF StacksInv, Shape
  <1>5. LockInv
    <2>1. owner = None /\ depth = 0
      BY DEF Init
    <2>2. \A t \in Clients : Taken(t) = 0
      BY <1>1 DEF Taken
    <2> QED
      BY <1>1, <1>2, <2>1, <2>2 DEF LockInv, Due, Clients
  <1>6. MaskInv
    BY <1>1 DEF Init, MaskInv
  <1>7. WindowInv
    BY <1>1 DEF Init, WindowInv
  <1>8. EventsInv
    BY <1>1 DEF Init, EventsInv, OwnCompletion, Reported
  <1> QED
    BY <1>3, <1>4, <1>5, <1>6, <1>7, <1>8 DEF SdioInv, Inv

LEMMA SdioStep == SdioInv /\ [Next]_vars => SdioInv'
  <1> SUFFICES ASSUME SdioInv, [Next]_vars PROVE SdioInv'
    OBVIOUS
  <1>1. ASSUME NEW t \in Clients, Step(t) \/ WaitTimesOut(t) PROVE SdioInv'
    <2>1. Inv'
      BY <1>1, EnterKeeps, SaveIrqKeeps, MaskIrqKeeps, RestoreIrqKeeps, ReleaseKeeps,
         CheckInhibitKeeps, ClearEventsKeeps, IssueKeeps, WaitReturnsKeeps, WaitDoneKeeps,
         WaitTimesOutKeeps, CardRegsNextKeeps, CardRegsCalledKeeps, CardDataStartKeeps,
         CardDataCalledKeeps, SetF1BaseWriteKeeps, SetF1BaseDoneKeeps, F1MemoryNextKeeps,
         F1MemoryBasedKeeps, F1MemoryCalledKeeps, SetClocksNextKeeps DEF Step
    <2> QED
      BY <1>1, <2>1, ScalarsKept DEF SdioInv
  <1>2. ASSUME \/ SDIO_IRQHandler \/ MainCalls \/ SDIO_EnableCardIRQ \/ MainTakes \/ RxThreadFunc
               \/ CommandEnds \/ DataMoves \/ DataEnds \/ CardEvent
        PROVE  SdioInv'
    <2>1. Inv'
      BY <1>2, HandlerKeeps, MainCallsKeeps, EnableCardIRQKeeps, MainTakesKeeps, RxWaitKeeps,
         RxClearKeeps, RxLockKeeps, RxCallKeeps, RxCalledKeeps, RxEnableKeeps, RxUnlockKeeps,
         HardwareKeeps DEF RxThreadFunc
    <2> QED
      BY <1>2, <2>1, OtherScalarsKept DEF SdioInv
  <1>3. CASE UNCHANGED vars
    <2>1. UNCHANGED <<drvVars, rxVars, window, work>> /\ EventsInv => EventsInv'
      BY <1>3, SameEvents DEF vars, drvVars, hwVars
    <2>2. UNCHANGED <<drvVars, rxVars, window>> /\ work' = work
      BY <1>3 DEF vars, hwVars
    <2>3. Inv'
      BY <2>1, <2>2, HostKeeps
    <2>4. Scalars'
      BY <1>3 DEF SdioInv, Scalars, vars, drvVars, rxVars, hwVars
    <2> QED
      BY <2>3, <2>4 DEF SdioInv
  <1> QED
    BY <1>1, <1>2, <1>3 DEF Next

(* SdioInv holds in every state, for any windows, lengths and faults.      *)
THEOREM SdioInvariance == Spec => []SdioInv
  BY SdioInit, SdioStep, PTL DEF Spec

(* The frames that hold the mutex are all but a top one at its entry.      *)
LEMMA HoldingTaken ==
  ASSUME StacksInv, NEW t \in Clients
  PROVE  Cardinality(Holding(t)) = Taken(t)
  <1> DEFINE n == Len(stack[t])
             m == Taken(t)
  <1>1. stack[t] \in Seq(Frames) /\ n \in Nat /\ (Inside(t) <=> n > 0) /\ DOMAIN stack[t] = 1 .. n
    BY StackTop
  <1>2. \A i \in 1 .. n : i < n => stack[t][i].pc # "enter"
    <2> SUFFICES ASSUME NEW i \in 1 .. n, i < n PROVE stack[t][i].pc # "enter"
      OBVIOUS
    <2>1. i + 1 \in 1 .. n /\ i + 1 > 1 /\ (i + 1) - 1 = i
      BY <1>1
    <2>2. Calls(stack[t][i], stack[t][i + 1])
      BY <2>1 DEF StacksInv, Shape
    <2> QED
      BY <2>2 DEF Calls
  <1>3. Top(t) = stack[t][n]
    BY DEF Top
  <1>4. Holding(t) = 1 .. m
    <2>1. CASE n = 0
      <3>1. Holding(t) = {} /\ m = 0
        BY <1>1, <2>1 DEF Holding, Taken
      <3> QED
        BY <3>1
    <2>2. CASE n > 0 /\ Top(t).pc = "enter"
      <3>1. m = n - 1
        BY <1>1, <2>2 DEF Taken
      <3>2. \A i \in 1 .. n : stack[t][i].pc # "enter" <=> i < n
        BY <1>1, <1>2, <1>3, <2>2
      <3>3. Holding(t) = {i \in 1 .. n : i < n}
        BY <1>1, <3>2 DEF Holding
      <3> HIDE DEF n, m
      <3> QED
        BY <1>1, <3>1, <3>3
    <2>3. CASE n > 0 /\ Top(t).pc # "enter"
      <3>1. m = n
        BY <2>3 DEF Taken
      <3>2. \A i \in 1 .. n : stack[t][i].pc # "enter"
        BY <1>1, <1>2, <1>3, <2>3
      <3>3. Holding(t) = 1 .. n
        BY <1>1, <3>2 DEF Holding
      <3> QED
        BY <3>1, <3>3
    <2> QED
      BY <1>1, <2>1, <2>2, <2>3
  <1>5. m \in Nat
    BY TakenType
  <1> HIDE DEF m
  <1>6. Cardinality(1 .. m) = m
    BY <1>5, FS_Interval
  <1> QED
    BY <1>4, <1>6 DEF m

(* What the threads are inside of is what the mutex says of them, on every *)
(* path: it is held once for each function that is past its entry, once    *)
(* more by the receive thread while it serves the card, and once for each  *)
(* F1Memory function that has failed.                                      *)
THEOREM CallsAreSound == Spec => []CallsSound
  <1>1. SdioInv => CallsSound
    <2> SUFFICES ASSUME SdioInv PROVE CallsSound
      OBVIOUS
    <2>1. Scalars /\ StacksInv /\ LockInv
      BY DEF SdioInv, Inv
    <2>2. DOMAIN stack = Clients
      BY <2>1 DEF StacksInv
    <2>3. ASSUME NEW t \in Clients, NEW i \in DOMAIN stack[t]
          PROVE  i <= 5 /\ stack[t][i] \in Frames
      <3>1. /\ stack[t] \in Seq(Frames) /\ Len(stack[t]) \in Nat
            /\ i \in 1 .. Len(stack[t])
        BY <2>1, <2>3, StackTop
      <3>2. Len(stack[t]) > 0
        <4> DEFINE n == Len(stack[t])
        <4> HIDE DEF n
        <4>1. n \in Nat /\ i \in 1 .. n
          BY <3>1 DEF n
        <4>2. n > 0
          BY <4>1
        <4> QED
          BY <4>2 DEF n
      <3>3. Len(stack[t]) \in 1 .. 4
        BY <2>1, <3>2, StackTop
      <3>4. i <= 5
        <4> DEFINE n == Len(stack[t])
        <4> HIDE DEF n
        <4>1. n \in 1 .. 4 /\ i \in 1 .. n
          BY <3>1, <3>3 DEF n
        <4> QED
          BY <4>1
      <3> QED
        BY <3>1, <3>4, ElementOfSeq
    <2>4. TypeOK
      BY <2>1, <2>2, <2>3 DEF TypeOK, Scalars, Frames
    <2>5. LockBalanced
      BY <2>1, HoldingTaken DEF LockBalanced, LockInv, Due
    <2> QED
      BY <2>4, <2>5 DEF CallsSound
  <1> QED
    BY <1>1, SdioInvariance, PTL

(* A thread that has been told that its command or transfer has ended has  *)
(* been told of its own: the line is idle, whatever timed out before.      *)
THEOREM CompletionsAreOwn == Spec => []OwnCompletion
  <1>1. SdioInv => OwnCompletion
    BY DEF SdioInv, Inv, EventsInv
  <1> QED
    BY <1>1, SdioInvariance, PTL

(* While the card's interrupt is disabled, a function of the driver will   *)
(* put it back, or the receive thread has been told or is at work.         *)
THEOREM CardIrqIsKept == Spec => []CardIrqKept
  <1>1. SdioInv => CardIrqKept
    <2> SUFFICES ASSUME SdioInv, started, ~signal, "card" \notin rxEvent, rxpc = "wait"
                 PROVE  \E t \in Clients : \E i \in DOMAIN stack[t] :
                          stack[t][i].old /\ stack[t][i].pc \notin {"enter", "save"}
      BY DEF CardIrqKept
    <2>1. StacksInv /\ MaskInv
      BY DEF SdioInv, Inv
    <2>2. PICK t \in Clients : \E i \in 1 .. Len(stack[t]) : WillEnable(stack[t][i])
      BY <2>1 DEF MaskInv
    <2>3. DOMAIN stack[t] = 1 .. Len(stack[t])
      BY <2>1, StackTop
    <2> QED
      BY <2>2, <2>3 DEF WillEnable
  <1> QED
    BY <1>1, SdioInvariance, PTL

(* A command that moves data is sent with the card's window where the data *)
(* are, as long as no write of the window has failed.                      *)
THEOREM WindowsAreRight == Spec => []WindowRight
  <1>1. SdioInv => WindowRight
    <2> SUFFICES ASSUME SdioInv, NEW t \in Clients, Inside(t), Top(t).fn = "SendCommand",
                        Top(t).pc = "issue", ~windowLost, Caller(t).fn = "CardData"
                 PROVE  window = Caller(t).base
      BY DEF WindowRight, Caller
    <2> DEFINE n == Len(stack[t])
    <2>1. Scalars /\ StacksInv /\ LockInv /\ WindowInv
      BY DEF SdioInv, Inv
    <2>2. n > 1 /\ Caller(t).pc = "called"
      BY <2>1, CommandCalled
    <2>3. /\ n \in Nat /\ n - 1 \in 1 .. n /\ Caller(t) = stack[t][n - 1]
          /\ \A i \in 1 .. n : Placed(i, stack[t][i])
          /\ \A i \in 1 .. n : i > 1 => Calls(stack[t][i - 1], stack[t][i])
      BY <2>1, <2>2, StackTop DEF Caller, StacksInv, Shape
    <2>4. n - 1 = 2
      BY <2>3 DEF Placed
    <2>5. Caller(t) = stack[t][2] /\ 2 \in 1 .. n
      BY <2>3, <2>4
    <2>6. Calls(stack[t][1], stack[t][2])
      <3>1. 2 > 1 /\ 2 - 1 = 1
        OBVIOUS
      <3> QED
        BY <2>3, <2>5, <3>1
    <2>7. stack[t][1].fn = "F1Memory" /\ stack[t][1].pc = "called"
          /\ stack[t][1].base = Caller(t).base
      BY <2>5, <2>6 DEF Calls
    <2>8. f1base = Caller(t).base
      BY <2>1, <2>7 DEF WindowInv
    <2>9. \A u \in Clients : ~Writing(u)
      <3> SUFFICES ASSUME NEW u \in Clients, Writing(u) PROVE FALSE
        OBVIOUS
      <3>1. CASE u = t
        BY <2>5, <3>1 DEF Writing
      <3>2. CASE u # t
        <4>1. Len(stack[u]) > 1
          BY DEF Writing
        <4>2. Len(stack[u]) \in Nat /\ (Inside(u) <=> Len(stack[u]) > 0)
          BY <2>1, StackTop
        <4>3. Inside(u)
          BY <4>1, <4>2
        <4>4. Len(stack[u]) = 1
          BY <2>1, <3>2, <4>3, Alone
        <4> QED
          BY <4>1, <4>4
      <3> QED
        BY <3>1, <3>2
    <2> QED
      BY <2>1, <2>8, <2>9 DEF WindowInv
  <1> QED
    BY <1>1, SdioInvariance, PTL
=============================================================================
