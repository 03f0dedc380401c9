----------------------------- MODULE HdmaTable -----------------------------
(***************************************************************************)
(* What an HDMA table means, line by line: the abstract specification      *)
(* DMA_ReloadHDMA and DMA_DoHDMA (dma.c) implement.  A table is a sequence *)
(* of entries that begin with a byte: a number of lines, and a bit that    *)
(* says whether the entry transfers a unit on each of its lines or only on *)
(* the first.  The units follow the byte or, in an indirect table, are     *)
(* where the address after it points to.                                   *)
(***************************************************************************)
EXTENDS Integers, Sequences

CONSTANTS
  HdmaChans,   (* the channels that have a table                          *)
  Size,        (* 2^16: addresses wrap in their bank                      *)
  RepeatBit    (* 0x80                                                    *)

VARIABLES
  tab,   (* the table of each channel: its mode, whether it is indirect,  *)
         (* the port, its entries, each with the address of its units if  *)
         (* they are elsewhere, and where each entry and the end are (at) *)
  on,    (* the channels that are enabled                                 *)
  pos,   (* the entry each channel is at, and the line in it; Len + 1 at  *)
         (* the end of the table                                          *)
  out    (* what each channel has transferred on the last line: the bank, *)
         (* the address and the port of each byte                         *)

hvars == <<tab, on, pos, out>>

(* The ports of the bytes of a unit, by transfer mode.                     *)
Pattern(mode) ==
  IF mode = 0 THEN <<0>>
  ELSE IF mode = 1 THEN <<0, 1>>
  ELSE IF mode \in {2, 6} THEN <<0, 0>>
  ELSE IF mode \in {3, 7} THEN <<0, 0, 1, 1>>
  ELSE IF mode = 4 THEN <<0, 1, 2, 3>>
  ELSE <<0, 1, 0, 1>>

UnitSize(t) == Len(Pattern(t.mode))

(* 0x80 stands for 128 lines without repetition.                           *)
Repeats(byte) == byte > RepeatBit
LinesOf(byte) == IF byte <= RepeatBit THEN byte ELSE byte - RepeatBit
Units(byte) == IF Repeats(byte) THEN LinesOf(byte) ELSE 1

EntryLength(t, k) ==
  1 + (IF t.indirect THEN 2 ELSE Units(t.entries[k].byte) * UnitSize(t))

(* A table in memory: one entry after the other, the byte 0 at the end, and *)
(* no two of them in the same place (a bank is longer than any table).     *)
Entries == Seq([byte : 1 .. 2 * RepeatBit - 1, pointer : 0 .. Size - 1])
Extent(t, k) == IF k > Len(t.entries) THEN 1 ELSE EntryLength(t, k)
Laid(t) ==
  LET places == 1 .. Len(t.entries) + 1
  IN  /\ t.mode \in 0 .. 7 /\ t.indirect \in BOOLEAN /\ t.port \in Nat
      /\ t.entries \in Entries /\ t.at \in [places -> 0 .. Size - 1]
      /\ \A k \in 1 .. Len(t.entries) :
           t.at[k + 1] = (t.at[k] + EntryLength(t, k)) % Size
      /\ \A j, k \in places : j # k =>
           \A a \in 0 .. Extent(t, j) - 1, b \in 0 .. Extent(t, k) - 1 :
             (t.at[j] + a) % Size # (t.at[k] + b) % Size

(* The unit u of the entry k.                                              *)
Unit(t, k, u) ==
  LET from == IF t.indirect THEN t.entries[k].pointer ELSE t.at[k] + 1
      bank == IF t.indirect THEN "indirect" ELSE "table"
  IN  [i \in 1 .. UnitSize(t) |->
         <<bank, (from + u * UnitSize(t) + i - 1) % Size, t.port + Pattern(t.mode)[i]>>]

Ended(t, p) == p.entry > Len(t.entries)
Transfers(t, p) ==
  IF Ended(t, p) \/ (p.line > 0 /\ ~Repeats(t.entries[p.entry].byte))
  THEN <<>> ELSE Unit(t, p.entry, p.line)
Following(t, p) ==
  IF Ended(t, p) THEN p
  ELSE IF p.line + 1 < LinesOf(t.entries[p.entry].byte)
       THEN [p EXCEPT !.line = @ + 1]
       ELSE [entry |-> p.entry + 1, line |-> 0]

HInit ==
  /\ on = {}
  /\ pos = [c \in HdmaChans |-> [entry |-> Len(tab[c].entries) + 1, line |-> 0]]
  /\ out = [c \in HdmaChans |-> <<>>]

(* The game enables and disables channels at any time.                     *)
Switch(S) == on' = S /\ UNCHANGED <<tab, pos, out>>

(* At the start of a frame the enabled channels go back to their tables.   *)
StartFrame ==
  /\ pos' = [c \in HdmaChans |->
               IF c \in on THEN [entry |-> 1, line |-> 0] ELSE pos[c]]
  /\ out' = [c \in HdmaChans |-> <<>>]
  /\ UNCHANGED <<tab, on>>

Line ==
  /\ out' = [c \in HdmaChans |-> IF c \in on THEN Transfers(tab[c], pos[c]) ELSE <<>>]
  /\ pos' = [c \in HdmaChans |-> IF c \in on THEN Following(tab[c], pos[c]) ELSE pos[c]]
  /\ UNCHANGED <<tab, on>>

HNext == StartFrame \/ Line \/ \E S \in SUBSET HdmaChans : Switch(S)

HSpec == HInit /\ [][HNext]_hvars
=============================================================================
