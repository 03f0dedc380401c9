------------------------------- MODULE PpuPorts -------------------------------
(* The ports of the picture processor that have a memory of their own        *)
(* (ppu.c, PPU_Write8): the scroll registers and the Mode 7 matrix, written  *)
(* one byte after the other through the shared latches BGOld and M7Old, and  *)
(* the ports of OAM, CGRAM and VRAM, whose addresses step on as data is      *)
(* written.                                                                  *)
(*                                                                           *)
(* The writes come from the instructions of the game, from general transfers *)
(* and from HDMA: any byte to any port of the group the game uses, in any    *)
(* order. Byte is the number of values of a byte, scaled down.               *)
EXTENDS Integers, Sequences, FiniteSets

CONSTANTS Byte,       \* values of a byte (256)
          OamHigh,    \* bytes of the high table of OAM (0x20), mirrored
          Fine,       \* values of the bits 0-2 of a scroll position (8)
          Scrolls,    \* the scroll registers: X and Y of some backgrounds
          XScrolls,   \* those that are X positions
          Matrix,     \* the Mode 7 registers
          Rot,        \* 2^3: what the low bits of a VRAM address are rotated by
          RotSpans,   \* the spans of the rotations (2^8, 2^9, 2^10)
          Steps,      \* the words a VRAM address steps by (1, 32, 128)
          Data,       \* the bytes written to the memories
          MaxWrites,  \* bound: the writes of a game to its group of ports
          MaxSets     \* bound: those among them that set an address

OamLow  == 2 * Byte            \* bytes of the low table (0x200)
OamSize == OamLow + OamHigh
VramWords == Byte * (Byte \div 2)   \* 0x8000

VARIABLES
  game,      \* the group of ports this game writes
  writes, sets,   \* its writes so far, and those that set an address
  bgOld, m7Old,   \* the latches
  scroll,    \* BGXPos and BGYPos
  m7,        \* M7A to M7D, the centre, and the Mode 7 positions
  oam, oamAddr, oamVal, oamReload, oamPrio, firstObj,
  cgram, cgAddr, cgSecond, cgVal,   \* CGRAMAddr: bits 0-7, bit 8; CGRAMVal
  vram, vramAddr, vramHigh, vramSpan, vramStep,
             \* VRAMAddr in words; VRAMInc: bit 7, bits 2-3; VRAMStep
  stream     \* history: the writes since the address of the port was set

latches == <<bgOld, m7Old, scroll, m7>>
oamVars == <<oam, oamAddr, oamVal, oamReload, oamPrio, firstObj>>
cgVars  == <<cgram, cgAddr, cgSecond, cgVal>>
vramVars == <<vram, vramAddr, vramHigh, vramSpan, vramStep>>
vars == <<game, writes, sets, bgOld, m7Old, scroll, m7, oam, oamAddr, oamVal,
          oamReload, oamPrio, firstObj, cgram, cgAddr, cgSecond, cgVal, vram,
          vramAddr, vramHigh, vramSpan, vramStep, stream>>

Bytes == 0 .. Byte - 1
Words == 0 .. Byte * Byte - 1
Games == {"scroll", "matrix", "oam", "cgram", "vram"}

TypeOK ==
  /\ game \in Games /\ writes \in 0 .. MaxWrites[game] /\ sets \in 0 .. MaxSets
  /\ bgOld \in Bytes /\ m7Old \in Bytes
  /\ scroll \in [Scrolls -> Words] /\ m7 \in [Matrix -> Words]
  /\ oam \in [0 .. OamSize - 1 -> Bytes] /\ oamAddr \in 0 .. 4 * Byte - 1
  /\ oamVal \in Bytes /\ oamReload \in 0 .. OamLow - 1
  /\ oamPrio \in BOOLEAN /\ firstObj \in 0 .. Byte \div 2 - 1
  /\ cgram \in [Bytes -> Bytes \X Bytes] /\ cgAddr \in Bytes
  /\ cgSecond \in BOOLEAN /\ cgVal \in Bytes
  /\ vram \in [0 .. VramWords - 1 -> Bytes \X Bytes]
  /\ vramAddr \in 0 .. VramWords - 1 /\ vramHigh \in BOOLEAN
  /\ vramSpan \in RotSpans \cup {1} /\ vramStep \in Steps \cup {0}

\* The stream of a port: where it began and what was written since.
NoStream == [from |-> 0, data |-> <<>>]

Init ==
  /\ game \in Games /\ writes = 0 /\ sets = 0
  /\ bgOld = 0 /\ m7Old = 0
  /\ scroll = [r \in Scrolls |-> 0] /\ m7 = [r \in Matrix |-> 0]
  /\ oam = [a \in 0 .. OamSize - 1 |-> 0] /\ oamAddr = 0 /\ oamVal = 0
  /\ oamReload = 0 /\ oamPrio = FALSE /\ firstObj = 0
  /\ cgram = [a \in Bytes |-> <<0, 0>>] /\ cgAddr = 0 /\ cgSecond = FALSE
  /\ cgVal = 0
  /\ vram = [a \in 0 .. VramWords - 1 |-> <<0, 0>>] /\ vramAddr = 0
  /\ vramHigh = FALSE /\ vramSpan = 1 /\ vramStep = 0
  /\ stream = NoStream

(************************* Scroll and Mode 7 ******************************)

(* Variant: the lowest bits are those of the low byte. *)
Position_Unshifted(r, val) ==
  val * Byte
  + (IF r \in XScrolls
     THEN (bgOld - (bgOld % Fine)) + (scroll[r] % Fine)
     ELSE bgOld)

\* PPU_SetBGXPos and PPU_SetBGYPos: a position takes its low byte from the
\* latch, an X position its lowest bits from the byte written to it before.
Position(r, val) ==
  val * Byte
  + (IF r \in XScrolls
     THEN (bgOld - (bgOld % Fine)) + ((scroll[r] \div Byte) % Fine)
     ELSE bgOld)

(* Variant: the latch of Mode 7 is left as it was. *)
WriteScroll_OneLatch(r, val) ==
  /\ scroll' = [scroll EXCEPT ![r] = Position(r, val)]
  /\ bgOld' = val
  /\ m7' = IF r \in Matrix THEN [m7 EXCEPT ![r] = val * Byte + m7Old] ELSE m7
  /\ stream' = [from |-> r, data |-> <<val>>]
  /\ UNCHANGED m7Old

\* The first background's positions are those of Mode 7 as well, through the
\* other latch. The stream remembers the last two writes of the group.
WriteScroll(r, val) ==
  /\ scroll' = [scroll EXCEPT ![r] = Position(r, val)]
  /\ bgOld' = val
  /\ IF r \in Matrix
     THEN m7' = [m7 EXCEPT ![r] = val * Byte + m7Old] /\ m7Old' = val
     ELSE UNCHANGED <<m7, m7Old>>
  /\ stream' = [from |-> r, data |-> <<val>>]

WriteMatrix(r, val) ==
  /\ m7' = [m7 EXCEPT ![r] = val * Byte + m7Old]
  /\ m7Old' = val
  /\ stream' = [from |-> r, data |-> <<val>>]
  /\ UNCHANGED <<bgOld, scroll>>

LatchPort ==
  /\ \E val \in Bytes :
       \/ /\ game = "scroll"
          /\ \E r \in Scrolls : WriteScroll(r, val)
       \/ /\ game = "matrix"
          /\ \/ \E r \in Matrix \cap Scrolls : WriteScroll(r, val)
             \/ \E r \in Matrix \ Scrolls : WriteMatrix(r, val)
  /\ UNCHANGED <<oamVars, cgVars, vramVars>>

(******************************** OAM *************************************)

\* 0x2102 and 0x2103: the two parts of the address, which is also what the
\* vertical blank goes back to, and the sprite drawn first.
SetOam(a, prio) ==
  /\ oamAddr' = a /\ oamReload' = a /\ oamPrio' = prio
  /\ firstObj' = IF prio THEN (a \div 2) % (Byte \div 2) ELSE 0
  /\ stream' = [from |-> a, data |-> <<>>]
  /\ UNCHANGED <<oam, oamVal>>

WriteOamLow(val) == SetOam(((oamAddr \div Byte) % 2) * Byte + val, oamPrio)
WriteOamHigh(bit, prio) == SetOam((oamAddr % Byte) + bit * Byte, prio)

(* Variant: the bytes of a word are swapped. *)
WriteOamData_Swapped(val) ==
  /\ oam' = IF oamAddr >= OamLow
            THEN [oam EXCEPT ![OamLow + (oamAddr % OamHigh)] = val]
            ELSE IF oamAddr % 2 = 1
            THEN [oam EXCEPT ![oamAddr - 1] = val, ![oamAddr] = oamVal]
            ELSE oam
  /\ oamVal' = IF oamAddr < OamLow /\ oamAddr % 2 = 0 THEN val ELSE oamVal
  /\ oamAddr' = (oamAddr + 1) % (4 * Byte)
  /\ stream' = [stream EXCEPT !.data = Append(@, val)]
  /\ UNCHANGED <<oamReload, oamPrio, firstObj>>

\* 0x2104: the low table is written by words, its first byte waiting in a
\* latch; the high table byte by byte, at all its mirrors.
WriteOamData(val) ==
  /\ oam' = IF oamAddr >= OamLow
            THEN [oam EXCEPT ![OamLow + (oamAddr % OamHigh)] = val]
            ELSE IF oamAddr % 2 = 1
            THEN [oam EXCEPT ![oamAddr - 1] = oamVal, ![oamAddr] = val]
            ELSE oam
  /\ oamVal' = IF oamAddr < OamLow /\ oamAddr % 2 = 0 THEN val ELSE oamVal
  /\ oamAddr' = (oamAddr + 1) % (4 * Byte)
  /\ stream' = [stream EXCEPT !.data = Append(@, val)]
  /\ UNCHANGED <<oamReload, oamPrio, firstObj>>

\* PPU_SNESVBlank
SNESVBlank ==
  /\ oamAddr' = oamReload
  /\ stream' = [from |-> oamReload, data |-> <<>>]
  /\ UNCHANGED <<oam, oamVal, oamReload, oamPrio, firstObj>>

OamPort ==
  /\ game = "oam"
  /\ \/ \E val \in Bytes : WriteOamLow(val)
     \/ \E bit \in 0 .. 1, prio \in BOOLEAN : WriteOamHigh(bit, prio)
     \/ \E val \in Data : WriteOamData(val)
     \/ SNESVBlank
  /\ UNCHANGED <<latches, cgVars, vramVars>>

(******************************* CGRAM ************************************)

(* Variant: an address set between two bytes expects the second one. *)
WriteCgAddr_KeepsSecond(val) ==
  /\ cgAddr' = val
  /\ stream' = [from |-> val, data |-> <<>>]
  /\ UNCHANGED <<cgram, cgVal, cgSecond>>

\* 0x2121 and 0x2122
WriteCgAddr(val) ==
  /\ cgAddr' = val /\ cgSecond' = FALSE
  /\ stream' = [from |-> val, data |-> <<>>]
  /\ UNCHANGED <<cgram, cgVal>>

WriteCgData(val) ==
  /\ IF cgSecond
     THEN /\ cgram' = [cgram EXCEPT ![cgAddr] = <<cgVal, val>>]
          /\ cgAddr' = (cgAddr + 1) % Byte
          /\ UNCHANGED cgVal
     ELSE /\ cgVal' = val
          /\ UNCHANGED <<cgram, cgAddr>>
  /\ cgSecond' = ~cgSecond
  /\ stream' = [stream EXCEPT !.data = Append(@, val)]

CgPort ==
  /\ game = "cgram"
  /\ \/ \E val \in Bytes : WriteCgAddr(val)
     \/ \E val \in Data : WriteCgData(val)
  /\ UNCHANGED <<latches, oamVars, vramVars>>

(******************************** VRAM ************************************)

\* PPU_TranslateVRAMAddress: in the three bitmap modes the low bits of the
\* address are rotated left by three.
TranslateVRAMAddress(a) ==
  LET top == vramSpan \div Rot
      low == a % vramSpan
  IN IF vramSpan = 1 THEN a
     ELSE (a - low) + (low % top) * Rot + (low \div top)

\* 0x2115, 0x2116 and 0x2117. An address set, or another way to step, begins
\* a stream; the stream of VRAM holds pairs of the half and the byte.
WriteVramInc(high, span, step) ==
  /\ vramHigh' = high /\ vramSpan' = span /\ vramStep' = step
  /\ stream' = [from |-> vramAddr, data |-> <<>>]
  /\ UNCHANGED <<vram, vramAddr>>

SetVram(a) ==
  /\ vramAddr' = a
  /\ stream' = [from |-> a, data |-> <<>>]
  /\ UNCHANGED <<vram, vramHigh, vramSpan, vramStep>>

WriteVramLow(val) == SetVram((vramAddr \div Byte) * Byte + val)
WriteVramHigh(val) == SetVram((vramAddr % Byte) + (val % (Byte \div 2)) * Byte)

(* Variant: the address steps after the other half. *)
WriteVramData_Early(half, val) ==
  /\ vram' = [vram EXCEPT ![TranslateVRAMAddress(vramAddr)][half] = val]
  /\ vramAddr' = IF vramHigh = (half = 1)
                 THEN (vramAddr + vramStep) % VramWords ELSE vramAddr
  /\ stream' = [stream EXCEPT !.data = Append(@, <<half, val>>)]
  /\ UNCHANGED <<vramHigh, vramSpan, vramStep>>

\* 0x2118 and 0x2119: half 1 is the low byte of the word, half 2 the high one.
WriteVramData(half, val) ==
  /\ vram' = [vram EXCEPT ![TranslateVRAMAddress(vramAddr)][half] = val]
  /\ vramAddr' = IF vramHigh = (half = 2)
                 THEN (vramAddr + vramStep) % VramWords ELSE vramAddr
  /\ stream' = [stream EXCEPT !.data = Append(@, <<half, val>>)]
  /\ UNCHANGED <<vramHigh, vramSpan, vramStep>>

VramPort ==
  /\ game = "vram"
  /\ \/ \E high \in BOOLEAN, span \in RotSpans \cup {1}, step \in Steps :
          WriteVramInc(high, span, step)
     \/ \E val \in Bytes : WriteVramLow(val)
     \/ \E val \in Bytes : WriteVramHigh(val)
     \/ \E half \in {1, 2}, val \in Data : WriteVramData(half, val)
  /\ UNCHANGED <<latches, oamVars, cgVars>>

Next ==
  /\ writes < MaxWrites[game]
  /\ LatchPort \/ OamPort \/ CgPort \/ VramPort
  /\ writes' = writes + 1
  /\ sets' = sets + (IF stream'.data = <<>> THEN 1 ELSE 0)
  /\ sets' <= MaxSets
  /\ UNCHANGED game

Spec == Init /\ [][Next]_vars

(****************************** Properties ********************************)

\* Two writes to a scroll register in a row, whatever was in it and in the
\* latch before, leave the position their two bytes are. (A write to another
\* scroll register between them, by HDMA say, does not: the latch is shared.)
ScrollWholeStep ==
  \A r \in Scrolls :
    (game \in {"scroll", "matrix"} /\ stream.data # <<>>
       /\ stream.from = r /\ stream'.from = r)
    => scroll'[r] = stream'.data[1] * Byte + stream.data[1]

\* The same for the Mode 7 registers, those that share a port with a scroll
\* register included.
MatrixWholeStep ==
  \A r \in Matrix :
    (game \in {"scroll", "matrix"} /\ stream.data # <<>>
       /\ stream.from = r /\ stream'.from = r)
    => m7'[r] = stream'.data[1] * Byte + stream.data[1]

\* The place of the j-th byte of an OAM stream.
OamPlace(j) ==
  LET a == (stream.from + j - 1) % (4 * Byte)
  IN IF a >= OamLow THEN OamLow + (a % OamHigh) ELSE a
OamSettled(j) ==
  LET a == (stream.from + j - 1) % (4 * Byte)
  IN a >= OamLow \/ (a % 2 = 1 /\ j > 1) \/ (a % 2 = 0 /\ j < Len(stream.data))

\* A stream of bytes written to OAM lies there in order, the words of the low
\* table once both their bytes came; what a vertical blank or a new address
\* interrupts leaves no half of a word.
OamStream ==
  game = "oam" =>
    \A j \in DOMAIN stream.data :
      OamSettled(j) /\ (\A k \in DOMAIN stream.data :
                          k > j => OamPlace(k) # OamPlace(j))
      => oam[OamPlace(j)] = stream.data[j]

\* Colours are written whole and in order from the address set last, also when
\* an address is set between the two bytes of one.
CgStream ==
  game = "cgram" =>
    \A j \in 1 .. Len(stream.data) \div 2 :
      (\A k \in j + 1 .. Len(stream.data) \div 2 : (k - j) % Byte # 0)
      => cgram[(stream.from + j - 1) % Byte]
           = <<stream.data[2 * j - 1], stream.data[2 * j]>>

\* The writes of a VRAM stream that stepped the address before the j-th one, and
\* the address that one went to, before translation.
Stepping(j) == {k \in 1 .. j - 1 : vramHigh = (stream.data[k][1] = 2)}
VramPlace(j) == (stream.from + vramStep * Cardinality(Stepping(j))) % VramWords

\* A stream of bytes written to VRAM lies at the addresses its steps lead to,
\* each half of a word by itself; in a bitmap mode no two of the addresses
\* fall on each other.
VramStream ==
  game = "vram" =>
    \A j \in DOMAIN stream.data :
      (\A k \in DOMAIN stream.data :
         k > j => VramPlace(k) # VramPlace(j)
                  \/ stream.data[k][1] # stream.data[j][1])
      => vram[TranslateVRAMAddress(VramPlace(j))][stream.data[j][1]]
           = stream.data[j][2]
=============================================================================
