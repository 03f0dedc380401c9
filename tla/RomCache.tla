------------------------------ MODULE RomCache ------------------------------
(***************************************************************************)
(* The cartridge in memory: how the image is recognised (memory.c,         *)
(* Mem_LoadROM), the table of pointers the 65816 reads through             *)
(* (Mem_Reset), and the cache of ROM banks behind it (rom.c), as the       *)
(* instructions that change the program bank and the data bank use it      *)
(* (cpu.s).                                                                *)
(*                                                                         *)
(* Sizes and offsets are in units of the 0x200 bytes of a copier's header. *)
(* The geometry is scaled by constants: the 0x80 banks of half the address *)
(* space are Banks, and 0x40, 0x70 and 0x7E are Half, SramBank and         *)
(* WramBank.  The eight windows of a bank are its two halves, which the    *)
(* code always fills alike.                                                *)
(***************************************************************************)
EXTENDS Integers, FiniteSets

CONSTANTS
  Banks,        (* 0x80                                                   *)
  LoBank,       (* the units of a LoROM bank; a HiROM bank has twice that *)
  MaxBuffer,    (* 2 MB                                                   *)
  Width,        (* 2^32 bytes                                             *)
  MaxMisses,    (* 4                                                      *)
  Images,       (* the images the user may load: their offset in the      *)
                (* flash memory, their size with the header if there is   *)
                (* one, and the Layouts whose checksum is found in them   *)
  CodeBanks, DataBanks, ReadBanks,  (* banks the game goes to, loads into *)
                (* DBR, and reads by a long address                       *)
  None

(* Mem_LoadROM tries these in this order, and takes the first otherwise.   *)
Layouts == <<[hdr |-> 1, hi |-> FALSE], [hdr |-> 1, hi |-> TRUE],
             [hdr |-> 0, hi |-> FALSE], [hdr |-> 0, hi |-> TRUE]>>
Matches(image, i) ==
  i \in image.valid \/ (i \in {1, 3} /\ image.size = LoBank + Layouts[i].hdr)
Layout(image) ==
  IF \E i \in 1..4 : Matches(image, i)
  THEN Layouts[CHOOSE i \in 1..4 :
                 Matches(image, i) /\ \A j \in 1..(i - 1) : ~Matches(image, j)]
  ELSE Layouts[1]

(* The sizes ROM_SetupCache computes.  The flash offset is taken off the   *)
(* size of the file modulo 2^32.                                           *)
Powers == {1, 2, 4, 8, 16, 32, 64, 128, 256, 512, 1024, 2048, 4096, 8192, 16384,
           32768, 65536, 131072}
PowerFrom(n) == CHOOSE p \in Powers : p >= n /\ (p = 1 \/ p \div 2 < n)
Smaller(m, n) == IF m < n THEN m ELSE n
SizesOf(image) ==
  LET layout    == Layout(image)
      romsize   == (image.size - (image.offset + layout.hdr)) % Width
      banksize  == IF layout.hi THEN 2 * LoBank ELSE LoBank
      buffer    == Smaller(((romsize + banksize - 1) % Width) \div banksize,
                           MaxBuffer \div banksize)
      nbanks    == PowerFrom(romsize \div banksize)
      resident  == IF romsize > MaxBuffer THEN MaxBuffer \div 2 ELSE romsize
  IN  [hi |-> layout.hi, banks |-> nbanks, chunks |-> buffer,
       resident |-> Smaller((resident + banksize - 1) \div banksize, nbanks)]

Half == Banks \div 2
WramBank == Banks - 2
SramBank == Banks - (Banks \div 8)
RomBanks == 0 .. Banks - 1
AllBanks == 0 .. 2 * Banks - 1
Windows  == AllBanks \X {0, 1}

(* What a chunk is used for, which is also its priority.                   *)
Unused == 0   Misses == 64   Dbr == 128   Pbr == 129   Resident == 255

(* What a call of ROM_CacheBank asks for, and what a chunk remembers of it. *)
Calls == [bank : AllBanks, type : {Misses, Dbr, Pbr}]

(* A power of two banks; a buffer of whole banks that fills at most the     *)
(* windows there are; sizes of 32 bits whose number of banks is a power    *)
(* ROM_SetupCache can reach (0x80, 64, 4096 and 2^23 in the code).         *)
ASSUME RomCacheAssumption ==
  /\ Banks \in {16, 32, 64, 128} /\ LoBank \in Nat \ {0} /\ MaxMisses \in Nat
  /\ MaxBuffer \in 2 .. Half * LoBank /\ MaxBuffer % (2 * LoBank) = 0
  /\ Width \in MaxBuffer + 2 * LoBank .. 131072 * LoBank
  /\ None \notin Int /\ None \notin Calls
  /\ \A k \in Images : k.offset \in Nat /\ k.size \in Nat \ {0} /\ k.valid \subseteq 1..4
                        /\ SizesOf(k).chunks > 0
  /\ CodeBanks \cup DataBanks \cup ReadBanks \subseteq AllBanks

VARIABLES
  cart,     (* the sizes and the layout of the image that was loaded    *)
  pt,       (* Mem_PtrTable: what each window shows and whether it is slow *)
  usage,    (* ROM_ChunkUsage: the bank and the use of each chunk         *)
  status,   (* ROM_BankStatus: the chunk of each bank                     *)
  cur,      (* ROM_CurChunk                                               *)
  misses,   (* ROM_CacheMisses                                            *)
  fast,     (* Mem_FastROM                                                *)
  pbr, dbr, (* the program bank and the data bank of the CPU              *)
  req       (* the call of ROM_CacheBank that searches for a chunk        *)

vars == <<cart, pt, usage, status, cur, misses, fast, pbr, dbr, req>>

HiROM      == cart.hi
NumBanks   == cart.banks
Chunks     == 0 .. cart.chunks - 1
FirstChunk == cart.chunks \div 2

(* ROM_BankStatus has a place for every bank of the image.  Nothing makes  *)
(* sure of it: a size that wraps gives as many banks as sizes go, and a    *)
(* LoROM image may be larger than 4 MB.                                    *)
BanksFit == NumBanks <= Banks

(* The bank of the image the cache is asked for.  If the banks do not fit, *)
(* it may lie past the tables.                                             *)
Canon(bank) ==
  LET b == bank % NumBanks IN IF HiROM /\ b < Half THEN b + Half ELSE b

(***************************************************************************)
(* The table of pointers                                                   *)
(***************************************************************************)

(* The windows in which ROM_MapBankToRAM and ROM_MapBankToFile show a bank: *)
(* it is mirrored every NumBanks banks, and the work RAM and, in a LoROM   *)
(* cartridge, the low halves of the SRAM's banks are left alone.           *)
Mirrors(bank) == {m \in RomBanks : m >= bank /\ (m - bank) % NumBanks = 0}
WindowsOf(bank) ==
  UNION {IF HiROM
         THEN {w \in {m} \X {0, 1} : m < WramBank}
              \cup {Banks + m} \X {0, 1} \cup {m - Half, m + Half} \X {1}
         ELSE {w \in {m, Banks + m} \X {0} : m >= Half /\ m < SramBank}
              \cup {w \in {<<m, 1>>} : m < WramBank} \cup {<<Banks + m, 1>>}
         : m \in Mirrors(bank)}

Entry(kind, at, slow) == [kind |-> kind, at |-> at, slow |-> slow]
SlowAt(w) == w[1] < Banks \/ ~fast

(* Variant: the speed of the upper banks is forgotten.                     *)
MapBankTo_Slow(table, bank, kind, at) ==
  [w \in Windows |->
     IF w \in WindowsOf(bank) THEN Entry(kind, at, TRUE) ELSE table[w]]

MapBankTo(table, bank, kind, at) ==
  [w \in Windows |->
     IF w \in WindowsOf(bank) THEN Entry(kind, at, SlowAt(w)) ELSE table[w]]

(* Mem_Reset.  The windows of the system area are not told apart.  The     *)
(* upper halves of a LoROM cartridge's SRAM banks are never set, and its   *)
(* last two banks are the work RAM's mirror.                               *)
ResetEntry(w) ==
  LET b == w[1] % Banks
      upper == w[1] >= Banks
  IN  IF b < Half /\ w[2] = 0 THEN Entry("system", None, TRUE)
      ELSE IF b = 0 THEN Entry("unset", None, FALSE)
      ELSE IF b < Half THEN Entry("file", b, TRUE)
      ELSE IF b >= WramBank /\ ~(upper /\ HiROM) THEN Entry("wram", None, TRUE)
      ELSE IF HiROM THEN Entry("file", b - Half, TRUE)
      ELSE IF b < SramBank THEN Entry("file", b, TRUE)
      ELSE IF w[2] = 0 THEN Entry("sram", None, TRUE)
      ELSE Entry("unset", None, FALSE)

FirstBank == IF HiROM THEN Half ELSE 0
ResidentChunk(bank) ==
  IF bank >= FirstBank /\ bank < FirstBank + cart.resident THEN bank - FirstBank ELSE None

(* ROM_SetupCache asks for the first banks one after the other: the bank i *)
(* gets the chunk i.                                                       *)
Init ==
  /\ cart \in {SizesOf(k) : k \in Images}
  /\ usage = [c \in Chunks |-> IF c < cart.resident
                               THEN [bank |-> FirstBank + c, type |-> Resident]
                               ELSE [bank |-> 0, type |-> Unused]]
  /\ status = [b \in RomBanks |-> ResidentChunk(b)]
  /\ cur = cart.resident % cart.chunks
  /\ pt = [w \in Windows |->
             LET shown == {b \in RomBanks : ResidentChunk(b) # None /\ w \in WindowsOf(b)}
             IN  IF shown = {} THEN ResetEntry(w)
                 ELSE Entry("rom", ResidentChunk(CHOOSE b \in shown : TRUE), TRUE)]
  /\ misses = [b \in RomBanks |-> 0]
  /\ fast = FALSE /\ pbr = 0 /\ dbr = 0 /\ req = None

(***************************************************************************)
(* The cache                                                               *)
(***************************************************************************)

(* What ROM_BankStatus[bank] reads as: past its end, any byte, of which    *)
(* those that are no chunk's are one (cart.chunks).                        *)
StatusRead(bank) ==
  IF bank \in RomBanks THEN {status[bank]} ELSE Chunks \cup {None, cart.chunks}

(* ROM_BankStatus with the place of a bank set.  Past its end the store    *)
(* changes memory that this module has no variable for.                    *)
StatusSet(table, bank, chunk) ==
  IF bank \in RomBanks THEN [table EXCEPT ![bank] = chunk] ELSE table

(* Variant: the use of a bank that is cached already stays as it is.       *)
Raise_Not(c, type) == usage' = usage

(* A bank that is cached already only gets the higher of its uses.         *)
Raise(c, type) ==
  usage' = IF c \in Chunks /\ usage[c].type < type
           THEN [usage EXCEPT ![c].type = type] ELSE usage

(* ROM_CacheBank up to its search.                                         *)
CacheBank(bank, type) ==
  \E c \in StatusRead(Canon(bank)) :
    IF c # None
    THEN Raise(c, type) /\ req' = req
    ELSE req' = [bank |-> Canon(bank), type |-> type] /\ UNCHANGED usage

CanRemap(ctype, type) ==
  /\ ctype # Resident
  /\ IF type >= Dbr THEN ctype < Dbr \/ ctype = type ELSE ctype <= type

(* Variant: the search goes back to the chunk it is at the end on.         *)
NextChunk_Stays(c) == IF c + 1 >= cart.chunks THEN cart.chunks - 1 ELSE c + 1

(* Variant: the search runs past the last chunk.                           *)
NextChunk_Past(c) == IF c + 1 > cart.chunks THEN FirstChunk ELSE c + 1

NextChunk(c) == IF c + 1 >= cart.chunks THEN FirstChunk ELSE c + 1

(* Variant: the windows of the bank that loses its chunk are left alone.   *)
Evict_Mapped(c) ==
  [table |-> pt,
   status |-> IF usage[c].type = Unused THEN status
              ELSE StatusSet(status, usage[c].bank, None)]

(* Variant: the bank that loses its chunk stays marked as cached.          *)
Evict_Marked(c) ==
  [table |-> IF usage[c].type = Unused THEN pt
             ELSE MapBankTo(pt, usage[c].bank, "file", usage[c].bank - FirstBank),
   status |-> status]

(* The bank a chunk held is shown from the file again.                     *)
Evict(c) ==
  LET old == usage[c].bank
  IN  IF usage[c].type = Unused THEN [table |-> pt, status |-> status]
      ELSE [table |-> MapBankTo(pt, old, "file", old - FirstBank),
            status |-> StatusSet(status, old, None)]

(* One turn of the loop in ROM_CacheBank.                                  *)
Search ==
  /\ req # None
  /\ cur' = NextChunk(cur)
  /\ IF CanRemap(usage[cur].type, req.type)
     THEN LET left == Evict(cur)
          IN  /\ pt' = MapBankTo(left.table, req.bank, "rom", cur)
              /\ status' = StatusSet(left.status, req.bank, cur)
              /\ usage' = [usage EXCEPT ![cur] = req]
              /\ req' = None
     ELSE UNCHANGED <<pt, status, usage, req>>
  /\ UNCHANGED <<cart, misses, fast, pbr, dbr>>

(***************************************************************************)
(* The CPU                                                                 *)
(***************************************************************************)

(* ROM_DoCacheBank and the macros that call it: bank 0 is resident, and    *)
(* the work RAM needs no cache.                                            *)
DoCacheBank(bank, type) ==
  IF bank \in {0, WramBank, WramBank + 1}
  THEN UNCHANGED <<usage, req>> ELSE CacheBank(bank, type)

(* JMP and JSL with a long address, RTL and the native RTI.                *)
SetPBR(bank) ==
  /\ req = None
  /\ pbr' = bank
  /\ DoCacheBank(bank, Pbr)
  /\ UNCHANGED <<cart, pt, status, cur, misses, fast, dbr>>

(* Interrupts and BRK go to bank 0.                                        *)
Interrupt ==
  /\ req = None
  /\ pbr' = 0
  /\ UNCHANGED <<cart, pt, usage, status, cur, misses, fast, dbr, req>>

PLB(bank) ==
  /\ req = None
  /\ dbr' = bank
  /\ DoCacheBank(bank, Dbr)
  /\ UNCHANGED <<cart, pt, status, cur, misses, fast, pbr>>

(* MVN and MVP load DBR and leave the cache alone.                         *)
BlockMove(bank) ==
  /\ req = None
  /\ dbr' = bank
  /\ UNCHANGED <<cart, pt, usage, status, cur, misses, fast, pbr, req>>

(* A data read of a bank that is in the file: Mem_ROMRead8, 16 or 24 and   *)
(* ROM_CacheMiss.                                                          *)
ReadUncached(w) ==
  /\ req = None
  /\ pt[w].kind = "file"
  /\ LET bank == pt[w].at
         full == misses[bank] + 1 > MaxMisses
     IN  /\ misses' = [misses EXCEPT ![bank] = IF full THEN 0 ELSE @ + 1]
         /\ IF full THEN CacheBank(bank, Misses) ELSE UNCHANGED <<usage, req>>
  /\ UNCHANGED <<cart, pt, status, cur, fast, pbr, dbr>>

(* A write of 0x420D: ROM_SpeedChanged goes over every upper window.       *)
WriteSpeed ==
  /\ req = None
  /\ fast' = ~fast
  /\ pt' = [w \in Windows |->
              IF w[1] >= Banks + (IF w[2] = 1 THEN 0 ELSE Half)
              THEN [pt[w] EXCEPT !.slow = fast] ELSE pt[w]]
  /\ UNCHANGED <<cart, usage, status, cur, misses, pbr, dbr, req>>

Next ==
  \/ Search \/ Interrupt \/ WriteSpeed
  \/ \E b \in CodeBanks : SetPBR(b)
  \/ \E b \in DataBanks : PLB(b) \/ BlockMove(b)
  \/ \E w \in ReadBanks \X {0, 1} : ReadUncached(w)

Spec == Init /\ [][Next]_vars

(* The loop of ROM_CacheBank does not stop to wait.                        *)
FairSpec == Spec /\ WF_vars(Search)

(***************************************************************************)
(* Properties                                                              *)
(***************************************************************************)

Kinds == {"system", "unset", "wram", "sram", "file", "rom"}

(* Every variable stays in its range; ROM_CurChunk names a chunk.          *)
TypeOK ==
  /\ DOMAIN pt = Windows /\ \A w \in Windows : pt[w].kind \in Kinds
  /\ usage \in [Chunks -> [bank : AllBanks, type : {Unused, Misses, Dbr, Pbr, Resident}]]
  /\ status \in [RomBanks -> Chunks \cup {None}]
  /\ cur \in Chunks
  /\ misses \in [RomBanks -> 0 .. MaxMisses]
  /\ fast \in BOOLEAN
  /\ {pbr, dbr} \subseteq AllBanks
  /\ req = None \/ req \in Calls

(* The two tables of the cache are inverse: a bank's chunk holds that      *)
(* bank, and the bank of a chunk in use knows its chunk (rom.c:302-314).   *)
CacheInverse ==
  /\ \A b \in RomBanks : status[b] # None =>
       usage[status[b]].bank = b /\ usage[status[b]].type # Unused
  /\ \A c \in Chunks : usage[c].type # Unused => status[usage[c].bank] = c

(* The pointers agree with the cache: each window of a cached bank, in     *)
(* every mirror of it, leads to its chunk, and no window of another bank   *)
(* leads to a chunk (ROM_MapBankToRAM, ROM_MapBankToFile).  In the upper   *)
(* banks their speed is the one the game selected last, whatever was       *)
(* cached and evicted since (rom.c:99, 188, 330).                          *)
PointersRight ==
  /\ \A b \in {Canon(k) : k \in AllBanks} :
       \A w \in WindowsOf(b) :
         IF status[b] # None THEN pt[w].kind = "rom" /\ pt[w].at = status[b]
         ELSE pt[w].kind # "rom"
  /\ \A w \in Windows :
       w[1] >= Banks /\ pt[w].kind \in {"rom", "file"} => pt[w].slow = ~fast

(* The tables of the cache and the pointers the CPU reads through agree,   *)
(* for every image whose banks fit the tables.                             *)
CacheSound == BanksFit => TypeOK /\ CacheInverse /\ PointersRight

(* Opcodes are fetched without looking at the pointer's kind: "anything    *)
(* that modifies PBR will also update the ROM caches" (cpu.s:274).         *)
PrefetchCached == req = None => pt[<<pbr, 1>>].kind \in {"rom", "wram"}

(* Whenever the CPU runs, its program bank is in memory, also after data   *)
(* reads and the caching of data banks, for every image whose banks fit    *)
(* the tables.  For the others PrefetchCached does not hold.               *)
CodeCached == BanksFit => PrefetchCached

(* The search for a chunk ends if there is one it may take.                *)
SearchEnds ==
  (req # None /\ \E c \in FirstChunk .. cart.chunks - 1 : CanRemap(usage[c].type, req.type))
    ~> (req = None)
=============================================================================
