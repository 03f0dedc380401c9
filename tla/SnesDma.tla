------------------------------ MODULE SnesDma ------------------------------
(***************************************************************************)
(* The DMA controller of the emulated machine (dma.c): general transfers,  *)
(* which move the bytes of one channel after the other while the CPU       *)
(* waits, and HDMA, which moves a unit of each enabled channel at the end  *)
(* of a line as the channel's table tells.                                 *)
(*                                                                         *)
(* A channel's registers are the fields of a record.  The words have Size  *)
(* values and the bytes of a table 2 * RepeatBit.  The bytes moved are not *)
(* modelled, only the addresses and ports they are moved between; memory   *)
(* is what the tables of HdmaTable put there.                              *)
(***************************************************************************)
EXTENDS Integers, Sequences, FiniteSets

CONSTANTS
  HdmaChans,   (* the channels the game uses for HDMA                     *)
  DmaChans,    (* and for general transfers                               *)
  Size, RepeatBit,  (* as in HdmaTable                                    *)
  Height,      (* 224                                                     *)
  TotalLines,  (* 262                                                     *)
  MaxStarts,   (* bound on the writes of 0x420B                           *)
  Games,       (* what each game does: the channels it uses (chans), its  *)
               (* HDMA tables, and the modes, addresses and lengths of    *)
               (* its general transfers                                   *)
  None

Chans == HdmaChans \cup DmaChans

VARIABLES
  game,      (* which of the games runs                                   *)
  chan,      (* DMA_Chans and HDMA_Pause                                  *)
  on,        (* DMA_HDMAFlag                                              *)
  vcount,    (* Mem_Status->VCount                                        *)
  dma,       (* the locals of DMA_Enable, or None                         *)
  starts,    (* how often 0x420B was written                              *)
  tab, out   (* the tables in memory, and what was moved on the last line *)

vars == <<game, chan, on, vcount, dma, starts, tab, out>>

Hdma == INSTANCE HdmaTable WITH pos <- 0   (* its operators on tables     *)
Pattern(mode) == Hdma!Pattern(mode)

(* Indirect tables use a mode of more than one byte: with one, the address  *)
(* of the units is stepped twice (dma.c:351, 399).                         *)
ASSUME SnesDmaAssumption ==
  /\ HdmaChans \subseteq 0 .. 7 /\ DmaChans \subseteq 0 .. 7
  /\ HdmaChans \cap DmaChans = {}
  /\ Size \in Nat \ {0, 1} /\ RepeatBit \in Nat \ {0, 1}
  /\ Height \in Nat /\ TotalLines \in Nat /\ Height < TotalLines /\ MaxStarts \in Nat
  /\ \A g \in DOMAIN Games : LET k == Games[g] IN
       /\ k.chans \subseteq HdmaChans \cup DmaChans /\ k.modes \subseteq 0 .. 7
       /\ \A t \in k.tables : Hdma!Laid(t) /\ (t.indirect => t.mode # 0)
       /\ k.starts \subseteq 0 .. Size - 1 /\ k.lengths \subseteq 0 .. Size - 1

(***************************************************************************)
(* General transfers                                                       *)
(***************************************************************************)

(* Variant: the bits are taken for each other.                             *)
Increment_Swapped(step) == IF step = "up" THEN 1 ELSE IF step = "down" THEN 0 ELSE Size - 1

(* The increments of params & 0x18.                                        *)
Increment(step) == IF step = "up" THEN 1 ELSE IF step = "down" THEN Size - 1 ELSE 0

Begin(c, todo) ==
  [c |-> c, todo |-> todo, memaddr |-> chan[c].a1, bytecount |-> chan[c].das, i |-> 1,
   from |-> chan[c].a1, length |-> chan[c].das, sent |-> 0, moved |-> None]

First(S) == CHOOSE c \in S : \A d \in S : c <= d

(* DMA_Enable takes the channels of the flag in their order.               *)
DMA_Enable(flag) ==
  /\ dma = None /\ flag # {} /\ starts < MaxStarts
  /\ starts' = starts + 1
  /\ dma' = Begin(First(flag), flag \ {First(flag)})
  /\ UNCHANGED <<game, chan, on, vcount, tab, out>>

(* Variant: a unit that was begun is finished.                             *)
Finished_Units(d) == d.bytecount = 0 /\ d.i = 1

(* bytecount wraps from 0, which stands for 2^16 bytes, and is tested      *)
(* after every byte, in the middle of a unit too.                          *)
Finished(d) == d.bytecount = 0

(* Variant: the length does not wrap.                                      *)
Moved_Unwrapped(d, mode, step, port) ==
  [d EXCEPT !.memaddr = (@ + Increment(step)) % Size,
            !.bytecount = @ - 1,
            !.i = IF @ = Len(Pattern(mode)) THEN 1 ELSE @ + 1,
            !.sent = @ + 1,
            !.moved = <<d.memaddr, port + Pattern(mode)[d.i]>>]

Moved(d, mode, step, port) ==
  [d EXCEPT !.memaddr = (@ + Increment(step)) % Size,
            !.bytecount = (@ - 1) % Size,
            !.i = IF @ = Len(Pattern(mode)) THEN 1 ELSE @ + 1,
            !.sent = @ + 1,
            !.moved = <<d.memaddr, port + Pattern(mode)[d.i]>>]

DmaByte ==
  /\ dma # None
  /\ dma.sent = 0 \/ ~Finished(dma)
  /\ LET ch == chan[dma.c]
     IN  dma' = Moved(dma, ch.mode, ch.step, ch.port)
  /\ UNCHANGED <<game, starts, chan, on, vcount, tab, out>>

(* The address is written back and the length cleared.                     *)
DmaChannelDone ==
  /\ dma # None /\ dma.sent > 0 /\ Finished(dma)
  /\ chan' = [chan EXCEPT ![dma.c].a1 = dma.memaddr, ![dma.c].das = 0]
  /\ dma' = IF dma.todo = {} THEN None
            ELSE Begin(First(dma.todo), dma.todo \ {First(dma.todo)})
  /\ UNCHANGED <<game, starts, on, vcount, tab, out>>

(* The game writes the length of a channel (DMA_Write8, DMA_Write16).      *)
WriteLength(c, n) ==
  /\ dma = None
  /\ chan' = [chan EXCEPT ![c].das = n]
  /\ UNCHANGED <<game, starts, on, vcount, dma, tab, out>>

(***************************************************************************)
(* HDMA                                                                    *)
(***************************************************************************)

(* What the memory holds: the first byte of an entry and the address after *)
(* it at the place of an entry, 0 at the end of a table, data elsewhere.   *)
EntryThere(t, at) == {k \in 1 .. Len(t.entries) : t.at[k] = at}
ByteAt(t, at) ==
  IF EntryThere(t, at) # {} THEN t.entries[CHOOSE k \in EntryThere(t, at) : TRUE].byte
  ELSE IF at = t.at[Len(t.entries) + 1] THEN 0 ELSE 1
WordAfter(t, at) ==
  IF EntryThere(t, at) # {} THEN t.entries[CHOOSE k \in EntryThere(t, at) : TRUE].pointer ELSE 0

(* The first byte of the entry at a table address, and its pointer.        *)
NextEntry(ch, t, at) ==
  [ch EXCEPT !.ntr = ByteAt(t, at),
             !.das = IF t.indirect THEN WordAfter(t, at) ELSE @,
             !.a2 = (at + (IF t.indirect THEN 3 ELSE 1)) % Size]

(* DMA_ReloadHDMA, at the start of a frame (cpu.s, CPU_MainLoop).          *)
DMA_ReloadHDMA ==
  /\ dma = None /\ vcount = TotalLines
  /\ vcount' = 0
  /\ chan' = [c \in Chans |->
                IF c \in on THEN [NextEntry(chan[c], tab[c], chan[c].a1) EXCEPT !.pause = FALSE]
                ELSE chan[c]]
  /\ out' = [c \in HdmaChans |-> <<>>]
  /\ UNCHANGED <<game, starts, on, dma, tab>>

(* The bytes a channel moves on a line, from the table or from the         *)
(* indirect address, and the memory address after them: the transfers      *)
(* step it between the bytes, and those of one byte to a port after it.    *)
Source(ch, t) == IF t.indirect THEN ch.das ELSE ch.a2
UnitOf(ch, t) ==
  [i \in 1 .. Len(Pattern(ch.mode)) |->
     <<IF t.indirect THEN "indirect" ELSE "table",
       (Source(ch, t) + i - 1) % Size, ch.port + Pattern(ch.mode)[i]>>]
MemAfter(ch, t) ==
  Source(ch, t) + Len(Pattern(ch.mode)) - 1 + (IF ch.mode = 0 /\ ~ch.toMem THEN 1 ELSE 0)

(* The table address or the indirect address moves on.                     *)
AfterUnit(ch, t) ==
  IF t.indirect THEN [ch EXCEPT !.das = (MemAfter(ch, t) + 1) % Size]
  ELSE [ch EXCEPT !.a2 = (@ + Len(Pattern(ch.mode))) % Size]

(* Variant: a reload leaves the pause of the entry before.                 *)
CountLine_Paused(ch, t) ==
  LET n == ch.ntr - 1
  IN  IF n \in {0, RepeatBit} THEN NextEntry(ch, t, ch.a2)
      ELSE [ch EXCEPT !.ntr = n, !.pause = (n < RepeatBit) \/ @]

(* The count of lines: a new entry when it runs out, a pause after the     *)
(* first line of an entry without repetition.                              *)
CountLine(ch, t) ==
  LET n == ch.ntr - 1
  IN  IF n = 0 THEN [NextEntry(ch, t, ch.a2) EXCEPT !.pause = FALSE]
      ELSE IF n < RepeatBit THEN [ch EXCEPT !.ntr = n, !.pause = TRUE]
      ELSE IF n = RepeatBit THEN NextEntry(ch, t, ch.a2)
      ELSE [ch EXCEPT !.ntr = n]

LineOf(ch, t) ==
  IF ch.pause THEN CountLine(ch, t)
  ELSE IF ch.ntr = 0 THEN ch
  ELSE CountLine(AfterUnit(ch, t), t)

(* DMA_DoHDMA, at the end of each visible line.                            *)
DMA_DoHDMA ==
  /\ dma = None /\ vcount < Height
  /\ vcount' = vcount + 1
  /\ chan' = [c \in Chans |-> IF c \in on THEN LineOf(chan[c], tab[c]) ELSE chan[c]]
  /\ out' = [c \in HdmaChans |->
               IF c \in on /\ ~chan[c].pause /\ chan[c].ntr # 0
               THEN UnitOf(chan[c], tab[c]) ELSE <<>>]
  /\ UNCHANGED <<game, starts, on, dma, tab>>

(* The lines below the picture.                                            *)
BlankLine ==
  /\ dma = None /\ vcount \in Height .. TotalLines - 1
  /\ vcount' = vcount + 1
  /\ UNCHANGED <<game, starts, chan, on, dma, tab, out>>

(* The game writes 0x420C at any time.                                     *)
WriteHdmaFlag(S) ==
  /\ dma = None
  /\ on' = S
  /\ UNCHANGED <<game, starts, chan, vcount, dma, tab, out>>

NoTable == [mode |-> 0, indirect |-> FALSE, port |-> 10, entries |-> <<>>, at |-> <<0>>]

(* The game has set up the channels it uses; the others are unused.        *)
Fresh(mode, step, port, a1, toMem) ==
  [mode |-> mode, step |-> step, port |-> port, a1 |-> a1, toMem |-> toMem,
   das |-> 0, a2 |-> 0, ntr |-> 0, pause |-> FALSE]
SetUp(c) ==
  IF c \in HdmaChans
  THEN {Fresh(tab[c].mode, "up", tab[c].port, tab[c].at[1], toMem) :
          toMem \in IF c \in Games[game].chans THEN BOOLEAN ELSE {FALSE}}
  ELSE IF c \in Games[game].chans
  THEN {Fresh(m, step, 10, a, FALSE) :
          m \in Games[game].modes, step \in {"up", "down", "fixed"}, a \in Games[game].starts}
  ELSE {Fresh(0, "up", 10, 0, FALSE)}

Init ==
  /\ game \in DOMAIN Games
  /\ tab \in {f \in [HdmaChans -> Games[game].tables \cup {NoTable}] :
               \A c \in HdmaChans : (f[c] = NoTable) <=> (c \notin Games[game].chans)}
  /\ chan \in {f \in [Chans -> UNION {SetUp(c) : c \in Chans}] :
                \A c \in Chans : f[c] \in SetUp(c)}
  /\ on = {} /\ vcount = TotalLines /\ dma = None /\ starts = 0
  /\ out = [c \in HdmaChans |-> <<>>]

Next ==
  \/ DMA_ReloadHDMA \/ DMA_DoHDMA \/ BlankLine \/ DmaByte \/ DmaChannelDone
  \/ \E S \in SUBSET (HdmaChans \cap Games[game].chans) : WriteHdmaFlag(S)
  \/ \E S \in SUBSET (DmaChans \cap Games[game].chans) : DMA_Enable(S)
  \/ \E c \in DmaChans \cap Games[game].chans, n \in Games[game].lengths : WriteLength(c, n)

Spec == Init /\ [][Next]_vars

(***************************************************************************)
(* Properties                                                              *)
(***************************************************************************)

(* Every variable stays in its range.                                      *)
Channel ==
  [mode : 0 .. 7, step : {"up", "down", "fixed"}, port : Nat, a1 : 0 .. Size - 1,
   das : 0 .. Size - 1, a2 : 0 .. Size - 1, ntr : 0 .. 2 * RepeatBit - 1,
   pause : BOOLEAN, toMem : BOOLEAN]
Transfer ==
  [c : DmaChans, todo : SUBSET DmaChans, memaddr : 0 .. Size - 1,
   bytecount : 0 .. Size - 1, i : 1 .. 4, from : 0 .. Size - 1, length : 0 .. Size - 1,
   sent : 0 .. Size, moved : {None} \cup ((0 .. Size - 1) \X Nat)]
TypeOK ==
  /\ chan \in [Chans -> Channel] /\ game \in DOMAIN Games /\ starts \in 0 .. MaxStarts
  /\ on \subseteq HdmaChans /\ vcount \in 0 .. TotalLines
  /\ dma # None => /\ dma \in Transfer /\ dma.c \notin dma.todo
                   /\ dma.i <= Len(Pattern(chan[dma.c].mode))

(* The byte number n of a general transfer is moved between the address n  *)
(* steps from the start and the n-th port of the repeated pattern, for     *)
(* every mode and step, with addresses that wrap; and a channel moves      *)
(* exactly the bytes it was told to, 2^16 when the length is 0 or was not  *)
(* written again, also when they end in the middle of a unit (dma.c:87).   *)
BytesRight ==
  dma # None /\ dma.sent > 0 =>
    LET ch == chan[dma.c]
        n == dma.sent - 1
        p == Pattern(ch.mode)
        distance == IF ch.step = "up" THEN n ELSE IF ch.step = "down" THEN -n ELSE 0
        total == IF dma.length = 0 THEN Size ELSE dma.length
    IN  /\ dma.moved = <<(dma.from + distance) % Size, ch.port + p[(n % Len(p)) + 1]>>
        /\ dma.sent <= total /\ (Finished(dma) => dma.sent = total)

(* General transfers keep every variable in its range and their bytes right. *)
TransfersRight == TypeOK /\ BytesRight

(* Where a channel is in its table, read off its registers.                *)
BytesLeft(byte, line) == byte - line
At(ch, t, p) ==
  LET e == t.entries[p.entry]
      done == IF Hdma!Repeats(e.byte) THEN p.line ELSE IF p.line > 0 THEN 1 ELSE 0
  IN  /\ ch.ntr = BytesLeft(e.byte, p.line)
      /\ ch.pause = (p.line > 0 /\ ~Hdma!Repeats(e.byte))
      /\ ch.a2 = (t.at[p.entry] + 1
                  + (IF t.indirect THEN 2 ELSE done * Hdma!UnitSize(t))) % Size
Positions(ch, t) ==
  {p \in UNION {[entry : {k}, line : 0 .. Hdma!LinesOf(t.entries[k].byte) - 1]
                : k \in 1 .. Len(t.entries)} : At(ch, t, p)}
posOf ==
  [c \in HdmaChans |->
     IF Positions(chan[c], tab[c]) # {}
     THEN CHOOSE p \in Positions(chan[c], tab[c]) : TRUE
     ELSE [entry |-> IF chan[c].ntr = 0 /\ ~chan[c].pause
                     THEN Len(tab[c].entries) + 1 ELSE 0, line |-> 0]]

(* HDMA does line by line what the tables mean, while the game enables and *)
(* disables channels in the middle of frames and of entries, next to       *)
(* general transfers on other channels.                                    *)
Table == INSTANCE HdmaTable WITH pos <- posOf
ImplementsTable == Table!HSpec
=============================================================================
