--------------------------- MODULE RomCacheProofs ---------------------------
(***************************************************************************)
(* Proofs about the cache of ROM banks, for any cartridge whose sizes      *)
(* ROM_SetupCache can compute and whose banks fit ROM_BankStatus.  The     *)
(* geometry comes first: of the banks the cache is asked for, no two are   *)
(* shown in the same window.  With it the invariant is that the banks in   *)
(* the tables are of this kind and that the bank the CPU runs in is cached *)
(* as one or about to be.                                                  *)
(***************************************************************************)
EXTENDS RomCache, SequenceTheorems, TLAPS

USE DEF AllBanks

(***************************************************************************)
(* Quotients and remainders                                                *)
(***************************************************************************)

LEMMA DivMod ==
  ASSUME NEW a \in Int, NEW n \in Nat \ {0}
  PROVE /\ a \div n \in Int /\ a % n \in 0 .. n - 1
        /\ a = (n * (a \div n)) + (a % n)
  OBVIOUS

LEMMA DivUnique ==
  ASSUME NEW q \in Int, NEW n \in Nat \ {0}, NEW r \in 0 .. n - 1
  PROVE ((n * q) + r) % n = r /\ ((n * q) + r) \div n = q
  OBVIOUS

LEMMA DivMono ==
  ASSUME NEW a \in Int, NEW b \in Int, NEW n \in Nat \ {0}, a <= b
  PROVE a \div n <= b \div n
  OBVIOUS

(* A whole number of n's that is between -n and n is none.                 *)
LEMMA SmallMultiple ==
  ASSUME NEW q \in Int, NEW n \in Nat \ {0}, n * q < n, n * q > -n
  PROVE q = 0
  OBVIOUS

(* Two numbers less than n apart that are both whole n's below m are one.  *)
LEMMA OneBelow ==
  ASSUME NEW n \in Nat \ {0}, NEW m \in Int, NEW a \in Int, NEW b \in Int,
         (m - a) % n = 0, (m - b) % n = 0, a - b < n, b - a < n
  PROVE a = b
<1> DEFINE p == (m - a) \div n
           q == (m - b) \div n
<1>1. p \in Int /\ q \in Int /\ m - a = n * p /\ m - b = n * q
  <2>1. m - a \in Int /\ m - b \in Int
    OBVIOUS
  <2>2. p \in Int /\ m - a = (n * p) + ((m - a) % n)
    BY <2>1, DivMod
  <2>3. q \in Int /\ m - b = (n * q) + ((m - b) % n)
    BY <2>1, DivMod
  <2> HIDE DEF p, q
  <2>4. n * p \in Int /\ n * q \in Int
    BY <2>2, <2>3
  <2> QED BY <2>2, <2>3, <2>4
<1> HIDE DEF p, q
<1>2. n * (p - q) = b - a
  BY <1>1
<1>3. p - q = 0
  BY <1>1, <1>2, SmallMultiple
<1> QED BY <1>1, <1>3

(***************************************************************************)
(* The sizes of a cartridge                                                *)
(***************************************************************************)

LEMMA PowerOfTwo ==
  ASSUME NEW n \in Nat, n <= 131072
  PROVE PowerFrom(n) \in Powers
<1> DEFINE Fits(p) == p >= n /\ (p = 1 \/ p \div 2 < n)
<1>1. PowerFrom(n) = CHOOSE p \in Powers : Fits(p)
  BY DEF PowerFrom
<1>2. ASSUME NEW p \in Powers, Fits(p) PROVE PowerFrom(n) \in Powers
  <2> HIDE DEF Fits
  <2> QED BY <1>1, <1>2
<1> HIDE DEF Fits
<1>3. CASE n <= 1
  <2>1. Fits(1) /\ 1 \in Powers
    BY <1>3 DEF Fits, Powers
  <2> QED BY <2>1, <1>2
<1>4. CASE n > 1 /\ n <= 2
  <2>1. Fits(2) /\ 2 \in Powers
    BY <1>4 DEF Fits, Powers
  <2> QED BY <2>1, <1>2
<1>5. CASE n > 2 /\ n <= 4
  <2>1. Fits(4) /\ 4 \in Powers
    BY <1>5 DEF Fits, Powers
  <2> QED BY <2>1, <1>2
<1>6. CASE n > 4 /\ n <= 8
  <2>1. Fits(8) /\ 8 \in Powers
    BY <1>6 DEF Fits, Powers
  <2> QED BY <2>1, <1>2
<1>7. CASE n > 8 /\ n <= 16
  <2>1. Fits(16) /\ 16 \in Powers
    BY <1>7 DEF Fits, Powers
  <2> QED BY <2>1, <1>2
<1>8. CASE n > 16 /\ n <= 32
  <2>1. Fits(32) /\ 32 \in Powers
    BY <1>8 DEF Fits, Powers
  <2> QED BY <2>1, <1>2
<1>9. CASE n > 32 /\ n <= 64
  <2>1. Fits(64) /\ 64 \in Powers
    BY <1>9 DEF Fits, Powers
  <2> QED BY <2>1, <1>2
<1>10. CASE n > 64 /\ n <= 128
  <2>1. Fits(128) /\ 128 \in Powers
    BY <1>10 DEF Fits, Powers
  <2> QED BY <2>1, <1>2
<1>11. CASE n > 128 /\ n <= 256
  <2>1. Fits(256) /\ 256 \in Powers
    BY <1>11 DEF Fits, Powers
  <2> QED BY <2>1, <1>2
<1>12. CASE n > 256 /\ n <= 512
  <2>1. Fits(512) /\ 512 \in Powers
    BY <1>12 DEF Fits, Powers
  <2> QED BY <2>1, <1>2
<1>13. CASE n > 512 /\ n <= 1024
  <2>1. Fits(1024) /\ 1024 \in Powers
    BY <1>13 DEF Fits, Powers
  <2> QED BY <2>1, <1>2
<1>14. CASE n > 1024 /\ n <= 2048
  <2>1. Fits(2048) /\ 2048 \in Powers
    BY <1>14 DEF Fits, Powers
  <2> QED BY <2>1, <1>2
<1>15. CASE n > 2048 /\ n <= 4096
  <2>1. Fits(4096) /\ 4096 \in Powers
    BY <1>15 DEF Fits, Powers
  <2> QED BY <2>1, <1>2
<1>16. CASE n > 4096 /\ n <= 8192
  <2>1. Fits(8192) /\ 8192 \in Powers
    BY <1>16 DEF Fits, Powers
  <2> QED BY <2>1, <1>2
<1>17. CASE n > 8192 /\ n <= 16384
  <2>1. Fits(16384) /\ 16384 \in Powers
    BY <1>17 DEF Fits, Powers
  <2> QED BY <2>1, <1>2
<1>18. CASE n > 16384 /\ n <= 32768
  <2>1. Fits(32768) /\ 32768 \in Powers
    BY <1>18 DEF Fits, Powers
  <2> QED BY <2>1, <1>2
<1>19. CASE n > 32768 /\ n <= 65536
  <2>1. Fits(65536) /\ 65536 \in Powers
    BY <1>19 DEF Fits, Powers
  <2> QED BY <2>1, <1>2
<1>20. CASE n > 65536 /\ n <= 131072
  <2>1. Fits(131072) /\ 131072 \in Powers
    BY <1>20 DEF Fits, Powers
  <2> QED BY <2>1, <1>2
<1> QED BY <1>3, <1>4, <1>5, <1>6, <1>7, <1>8, <1>9, <1>10, <1>11, <1>12, <1>13, <1>14, <1>15, <1>16, <1>17, <1>18, <1>19, <1>20

(* The banks of a cartridge fill half of the windows or are as many.       *)
LEMMA PowersDivide ==
  ASSUME NEW n \in Powers
  PROVE n \in Nat \ {0} /\ (Half % n = 0 \/ n % Banks = 0)
  BY RomCacheAssumption, SMTT(60) DEF Powers, Half

CartOK ==
  /\ cart.hi \in BOOLEAN
  /\ cart.banks \in Powers
  /\ cart.chunks \in 1 .. Half
  /\ cart.resident \in 1 .. cart.chunks
  /\ cart.resident <= cart.banks

LEMMA LayoutSound ==
  ASSUME NEW k \in Images
  PROVE Layout(k).hdr \in {0, 1} /\ Layout(k).hi \in BOOLEAN
<1>1. \A i \in 1 .. 4 : Layouts[i].hdr \in {0, 1} /\ Layouts[i].hi \in BOOLEAN
  <2>1. Layouts \in Seq([hdr : {0, 1}, hi : BOOLEAN]) /\ Len(Layouts) = 4
    BY DEF Layouts
  <2>2. \A i \in 1 .. 4 : Layouts[i] \in [hdr : {0, 1}, hi : BOOLEAN]
    <3>1. \A i \in 1 .. Len(Layouts) : Layouts[i] \in [hdr : {0, 1}, hi : BOOLEAN]
      BY <2>1, ElementOfSeq
    <3> QED BY <2>1, <3>1
  <2> QED BY <2>2
<1>2. CASE \E i \in 1 .. 4 : Matches(k, i)
  <2>1. \E i \in 1 .. 4 : Matches(k, i) /\ \A j \in 1 .. (i - 1) : ~Matches(k, j)
    <3>1. Matches(k, 1) \/ Matches(k, 2) \/ Matches(k, 3) \/ Matches(k, 4)
      BY <1>2
    <3> QED BY <3>1
  <2> QED BY <1>1, <1>2, <2>1 DEF Layout
<1>3. CASE ~ \E i \in 1 .. 4 : Matches(k, i)
  BY <1>1, <1>3 DEF Layout
<1> QED BY <1>2, <1>3

(* A buffer holds whole banks; the resident ones are among them.           *)
LEMMA SizesSound ==
  ASSUME NEW k \in Images, cart = SizesOf(k)
  PROVE CartOK
<1> DEFINE layout    == Layout(k)
           romsize   == (k.size - (k.offset + layout.hdr)) % Width
           banksize  == IF layout.hi THEN 2 * LoBank ELSE LoBank
           full      == MaxBuffer \div banksize
           filled    == ((romsize + banksize - 1) % Width) \div banksize
           resident  == IF romsize > MaxBuffer THEN MaxBuffer \div 2 ELSE romsize
           rounded   == (resident + banksize - 1) \div banksize
           nbanks    == PowerFrom(romsize \div banksize)
<1>1. cart = [hi |-> layout.hi, banks |-> nbanks, chunks |-> Smaller(filled, full),
              resident |-> Smaller(rounded, nbanks)]
  BY DEF SizesOf
<1>2. layout.hdr \in {0, 1} /\ layout.hi \in BOOLEAN
  BY LayoutSound
<1>3. k.offset \in Nat /\ k.size \in Nat /\ Smaller(filled, full) > 0
  <2>1. SizesOf(k).chunks > 0 /\ k.offset \in Nat /\ k.size \in Nat
    BY RomCacheAssumption
  <2> QED BY <1>1, <2>1
<1>a. LoBank \in Nat \ {0} /\ MaxBuffer \in Nat /\ MaxBuffer >= 2 /\ Width \in Nat \ {0}
      /\ Half \in Nat
  <2>1. LoBank \in Nat \ {0} /\ Half \in Nat
    BY RomCacheAssumption DEF Half
  <2>2. Half * LoBank \in Int /\ 131072 * LoBank \in Int
    BY <2>1
  <2>3. MaxBuffer \in Nat /\ MaxBuffer >= 2
    BY <2>2, RomCacheAssumption
  <2> QED BY <2>1, <2>2, <2>3, RomCacheAssumption
<1>4. romsize \in 0 .. Width - 1
  <2>1. k.size - (k.offset + layout.hdr) \in Int
    BY <1>2, <1>3
  <2> QED BY <2>1, <1>a, DivMod
<1>5. banksize \in Nat \ {0} /\ banksize <= 2 * LoBank /\ banksize >= LoBank
  BY <1>2, <1>a
<1>6. full \in Nat /\ full <= Half /\ MaxBuffer = banksize * full
  <2> DEFINE two == MaxBuffer \div (2 * LoBank)
  <2>1. two \in Int /\ MaxBuffer = (2 * LoBank) * two
    <3>1. 2 * LoBank \in Nat \ {0} /\ MaxBuffer \in Int /\ MaxBuffer % (2 * LoBank) = 0
      BY <1>a, RomCacheAssumption
    <3>2. two \in Int /\ MaxBuffer = ((2 * LoBank) * two) + (MaxBuffer % (2 * LoBank))
      BY <3>1, DivMod
    <3> HIDE DEF two
    <3> QED BY <3>1, <3>2, <1>a
  <2> HIDE DEF two
  <2>2. \E q \in Int : MaxBuffer = banksize * q
    <3>1. CASE layout.hi
      BY <2>1, <3>1
    <3>2. CASE ~layout.hi
      BY <2>1, <3>2, <1>a
    <3> QED BY <3>1, <3>2
  <2>3. PICK q \in Int : MaxBuffer = banksize * q
    BY <2>2
  <2> HIDE DEF banksize
  <2>4. full = q
    BY <2>3, <1>5, DivUnique
  <2>5. q >= 0
    BY <2>3, <1>5, <1>a
  <2>6. q <= Half
    <3>1. banksize * q <= Half * LoBank
      BY <2>3, <1>a, RomCacheAssumption
    <3>2. LoBank * q <= banksize * q
      BY <2>5, <1>5, <1>a
    <3>3. LoBank * q \in Int /\ banksize * q \in Int /\ Half * LoBank \in Int
      BY <2>3, <1>5, <1>a
    <3>4. LoBank * q <= Half * LoBank
      BY <3>1, <3>2, <3>3
    <3> QED BY <3>4, <1>a, <2>3
  <2> QED BY <2>3, <2>4, <2>5, <2>6
<1> HIDE DEF layout, romsize, banksize, full
<1>7. romsize + banksize - 1 < Width /\ filled = (romsize + banksize - 1) \div banksize
  <2>1. romsize + banksize - 1 \in Nat /\ Width \in Nat \ {0}
    BY <1>4, <1>5, <1>a
  <2>2. banksize <= Width
    BY <1>5, <1>a, RomCacheAssumption
  <2>3. romsize + banksize - 1 < Width
    <3> SUFFICES ASSUME romsize + banksize - 1 >= Width PROVE FALSE
      BY <2>1, <1>a
    <3>1. romsize + banksize - 1 = (Width * 1) + (romsize + banksize - 1 - Width)
          /\ romsize + banksize - 1 - Width \in 0 .. Width - 1
      BY <2>1, <2>2, <1>4, <1>5, <1>a
    <3>2. (romsize + banksize - 1) % Width = romsize + banksize - 1 - Width
      BY <3>1, <1>a, DivUnique
    <3>3. romsize + banksize - 1 - Width = (banksize * 0) + (romsize + banksize - 1 - Width)
          /\ romsize + banksize - 1 - Width \in 0 .. banksize - 1
      BY <3>1, <1>4, <1>5, <1>a
    <3>4. filled = 0
      BY <3>2, <3>3, <1>5, DivUnique
    <3> QED BY <3>4, <1>3, <1>6 DEF Smaller
  <2>4. (romsize + banksize - 1) % Width = romsize + banksize - 1
    <3>1. romsize + banksize - 1 = (Width * 0) + (romsize + banksize - 1)
      BY <2>1, <2>3
    <3> QED BY <3>1, <2>1, <2>3, <1>a, DivUnique
  <2> QED BY <2>3, <2>4
<1> HIDE DEF filled
<1>8. romsize >= 1
  <2> SUFFICES ASSUME romsize = 0 PROVE FALSE
    BY <1>4, <1>a
  <2>1. romsize + banksize - 1 = (banksize * 0) + (banksize - 1)
    BY <1>5, <1>a
  <2>2. filled = 0
    BY <2>1, <1>5, <1>7, DivUnique
  <2> QED BY <2>2, <1>3, <1>6 DEF Smaller
<1>9. nbanks \in Powers
  <2>1. romsize <= 131072 * LoBank
    BY <1>4, <1>a, RomCacheAssumption
  <2>2. romsize <= 131072 * banksize
    <3>1. 131072 * LoBank <= 131072 * banksize
      BY <1>5, <1>a
    <3> QED BY <3>1, <2>1, <1>4, <1>5, <1>a
  <2>3. (131072 * banksize) \div banksize = 131072
    BY <1>5, DivUnique
  <2>4. romsize \div banksize <= 131072
    BY <2>2, <2>3, <1>4, <1>5, <1>a, DivMono
  <2>5. romsize \div banksize >= 0
    <3>1. 0 \div banksize = 0
      BY <1>5, DivUnique
    <3> QED BY <3>1, <1>4, <1>5, DivMono
  <2>6. romsize \div banksize \in Int
    BY <1>4, <1>5, DivMod
  <2>7. romsize \div banksize \in Nat /\ romsize \div banksize <= 131072
    BY <2>4, <2>5, <2>6
  <2> QED BY <2>7, PowerOfTwo
<1>10. resident \in 1 .. MaxBuffer /\ resident <= romsize
  BY <1>4, <1>8, <1>a
<1> HIDE DEF resident, nbanks
<1>11. rounded \in Int /\ rounded >= 1 /\ rounded <= filled /\ rounded <= full
  <2>1. resident + banksize - 1 \in Int /\ romsize + banksize - 1 \in Int
        /\ resident + banksize - 1 <= romsize + banksize - 1
        /\ banksize <= resident + banksize - 1
    BY <1>10, <1>4, <1>5, <1>a
  <2>2. rounded \in Int
    BY <2>1, <1>5, DivMod
  <2>3. rounded <= filled
    BY <2>1, <1>5, <1>7, DivMono
  <2>4. rounded >= 1
    <3>1. banksize \div banksize = 1
      BY <1>5, DivUnique
    <3> QED BY <3>1, <2>1, <1>5, DivMono
  <2>5. rounded <= full
    <3>1. ((banksize * full) + (banksize - 1)) \div banksize = full
      BY <1>5, <1>6, DivUnique
    <3>2. resident + banksize - 1 <= (banksize * full) + (banksize - 1)
          /\ (banksize * full) + (banksize - 1) \in Int
      BY <1>6, <1>10, <1>5, <1>a
    <3> QED BY <3>1, <3>2, <2>1, <1>5, DivMono
  <2> QED BY <2>2, <2>3, <2>4, <2>5
<1>12. filled \in Int
  BY <1>7, <1>4, <1>5, <1>a, DivMod
<1> HIDE DEF rounded
<1>13. nbanks \in Nat /\ nbanks >= 1
  BY <1>9 DEF Powers
<1>14. /\ Smaller(filled, full) \in 1 .. Half
       /\ Smaller(rounded, nbanks) \in 1 .. Smaller(filled, full)
       /\ Smaller(rounded, nbanks) <= nbanks
  BY <1>3, <1>6, <1>11, <1>12, <1>13, <1>a DEF Smaller
<1> QED BY <1>1, <1>2, <1>9, <1>14 DEF CartOK

(***************************************************************************)
(* Banks and windows                                                       *)
(***************************************************************************)

(* The banks of the image that the cache is asked for and has a place for. *)
CanonBanks == {Canon(k) : k \in 0 .. 2 * Banks - 1} \cap RomBanks

LEMMA Geometry ==
  CartOK => /\ Banks \in Nat /\ Half \in Nat /\ Half >= 4 /\ Banks = 2 * Half
            /\ SramBank \in Nat /\ SramBank <= WramBank /\ SramBank > Half
            /\ WramBank = Banks - 2 /\ FirstBank \in {0, Half}
            /\ HiROM \in BOOLEAN /\ (HiROM => FirstBank = Half) /\ (~HiROM => FirstBank = 0)
            /\ NumBanks \in Nat \ {0} /\ (Half % NumBanks = 0 \/ NumBanks % Banks = 0)
<1> SUFFICES ASSUME CartOK PROVE Geometry!2
  OBVIOUS
<1>1. HiROM \in BOOLEAN /\ NumBanks \in Powers
  BY DEF CartOK, HiROM, NumBanks
<1>2. NumBanks \in Nat \ {0} /\ (Half % NumBanks = 0 \/ NumBanks % Banks = 0)
  BY <1>1, PowersDivide
<1>3. /\ Banks \in Nat /\ Half \in Nat /\ Half >= 4 /\ Banks = 2 * Half
      /\ SramBank \in Nat /\ SramBank <= WramBank /\ SramBank > Half
      /\ WramBank = Banks - 2
  <2>1. Banks \in {16, 32, 64, 128}
    BY RomCacheAssumption
  <2>2. Banks \in Nat /\ Half \in Nat /\ Half >= 4 /\ Banks = 2 * Half
    BY <2>1 DEF Half
  <2>3. SramBank \in Nat /\ SramBank <= Banks - 2
    BY <2>1 DEF SramBank
  <2>4. WramBank = Banks - 2
    BY DEF WramBank
  <2>5. SramBank > Half
    BY <2>1 DEF SramBank, Half
  <2> QED BY <2>2, <2>3, <2>4, <2>5
<1> QED BY <1>1, <1>2, <1>3 DEF FirstBank

(* They are among as many consecutive banks as the image has.              *)
LEMMA CanonRange ==
  ASSUME CartOK, NEW b \in CanonBanks
  PROVE b \in RomBanks /\ b \in Int /\ b >= FirstBank /\ b - FirstBank < NumBanks
<1>1. PICK k \in 0 .. 2 * Banks - 1 : b = Canon(k)
  BY DEF CanonBanks
<1>2. b \in RomBanks
  BY DEF CanonBanks
<1>3. k \in Int /\ k % NumBanks \in 0 .. NumBanks - 1
  <2>1. k \in Int /\ NumBanks \in Nat \ {0}
    BY Geometry
  <2> QED BY <2>1, DivMod
<1>4. CASE HiROM
  <2>1. b >= Half /\ (b = k % NumBanks \/ b = (k % NumBanks) + Half)
    BY <1>1, <1>3, <1>4, Geometry DEF Canon
  <2> QED BY <1>2, <1>3, <1>4, <2>1, Geometry DEF RomBanks
<1>5. CASE ~HiROM
  BY <1>1, <1>2, <1>3, <1>5, Geometry DEF Canon, RomBanks
<1> QED BY <1>4, <1>5, Geometry

(* Every bank of theirs below the image's number is one.                   *)
LEMMA CanonFirst ==
  ASSUME CartOK, NEW i \in Nat, i < NumBanks, i < Half
  PROVE FirstBank + i \in CanonBanks
<1>1. i % NumBanks = i
  <2>1. i = (NumBanks * 0) + i /\ i \in 0 .. NumBanks - 1
    BY Geometry
  <2> QED BY <2>1, Geometry, DivUnique
<1>2. Canon(i) = FirstBank + i
  BY <1>1, Geometry DEF Canon
<1>3. i \in 0 .. 2 * Banks - 1 /\ FirstBank + i \in RomBanks
  BY Geometry DEF RomBanks
<1> QED BY <1>2, <1>3 DEF CanonBanks

(* The windows of one mirror of a bank.                                    *)
MirrorWindows(m) ==
  IF HiROM
  THEN {w \in {m} \X {0, 1} : m < WramBank}
       \cup {Banks + m} \X {0, 1} \cup {m - Half, m + Half} \X {1}
  ELSE {w \in {m, Banks + m} \X {0} : m >= Half /\ m < SramBank}
       \cup {w \in {<<m, 1>>} : m < WramBank} \cup {<<Banks + m, 1>>}

LEMMA WindowsAre ==
  ASSUME NEW b, NEW w
  PROVE w \in WindowsOf(b) <=> \E m \in Mirrors(b) : w \in MirrorWindows(m)
  BY DEF WindowsOf, MirrorWindows

(* Where a window that shows ROM can be, and of which mirror it is.        *)
LEMMA MirrorOf ==
  ASSUME CartOK, NEW m \in RomBanks, m >= FirstBank, NEW w \in MirrorWindows(m)
  PROVE /\ w \in Windows
        /\ w[1] = m \/ w[1] = Banks + m \/ (HiROM /\ (w[1] = m - Half \/ w[1] = m + Half))
        /\ w[2] = 0 => w[1] \in {m, Banks + m} /\ m >= Half
        /\ w[1] \notin {WramBank, WramBank + 1}
<1>1. m \in Int /\ m >= 0 /\ m < Banks
  BY Geometry DEF RomBanks
<1>2. CASE HiROM
  <2>1. m >= Half
    BY <1>2, Geometry
  <2>2. \/ w = <<w[1], w[2]>> /\ w[1] = m /\ w[2] \in {0, 1} /\ m < WramBank
        \/ w = <<w[1], w[2]>> /\ w[1] = Banks + m /\ w[2] \in {0, 1}
        \/ w = <<w[1], w[2]>> /\ (w[1] = m - Half \/ w[1] = m + Half) /\ w[2] = 1
    BY <1>2 DEF MirrorWindows
  <2>3. w[1] \in 0 .. 2 * Banks - 1 /\ w[2] \in {0, 1}
    BY <1>1, <2>1, <2>2, Geometry
  <2>4. w \in Windows
    BY <2>2, <2>3 DEF Windows
  <2> QED BY <1>1, <1>2, <2>1, <2>2, <2>4, Geometry
<1>3. CASE ~HiROM
  <2>1. \/ w = <<w[1], w[2]>> /\ w[1] \in {m, Banks + m} /\ w[2] = 0 /\ m >= Half /\ m < SramBank
        \/ w = <<w[1], w[2]>> /\ w[1] = m /\ w[2] = 1 /\ m < WramBank
        \/ w = <<w[1], w[2]>> /\ w[1] = Banks + m /\ w[2] = 1
    BY <1>3 DEF MirrorWindows
  <2>2. w[1] \in 0 .. 2 * Banks - 1 /\ w[2] \in {0, 1}
    BY <1>1, <2>1, Geometry
  <2>3. w \in Windows
    BY <2>1, <2>2 DEF Windows
  <2> QED BY <1>1, <2>1, <2>3, Geometry
<1> QED BY <1>2, <1>3, Geometry

LEMMA OneMirror ==
  ASSUME CartOK, NEW m \in RomBanks, NEW n \in RomBanks, m >= FirstBank, n >= FirstBank,
         NEW w \in MirrorWindows(m), w \in MirrorWindows(n)
  PROVE m = n
<1>1. w[1] = m \/ w[1] = Banks + m \/ (HiROM /\ (w[1] = m - Half \/ w[1] = m + Half))
  BY MirrorOf
<1>2. w[1] = n \/ w[1] = Banks + n \/ (HiROM /\ (w[1] = n - Half \/ w[1] = n + Half))
  BY MirrorOf
<1> QED BY <1>1, <1>2, Geometry DEF RomBanks

(* No two of the banks share a window.                                     *)
LEMMA OneOwner ==
  ASSUME CartOK, NEW a \in CanonBanks, NEW b \in CanonBanks,
         NEW w \in WindowsOf(a), w \in WindowsOf(b)
  PROVE a = b
<1>1. PICK m \in Mirrors(a) : w \in MirrorWindows(m)
  BY WindowsAre
<1>2. PICK n \in Mirrors(b) : w \in MirrorWindows(n)
  BY WindowsAre
<1>3. /\ a \in Int /\ a >= FirstBank /\ a - FirstBank < NumBanks
      /\ b \in Int /\ b >= FirstBank /\ b - FirstBank < NumBanks
  BY CanonRange
<1>4. m \in RomBanks /\ m >= a /\ (m - a) % NumBanks = 0
      /\ n \in RomBanks /\ n >= b /\ (n - b) % NumBanks = 0
  BY DEF Mirrors
<1>5. m >= FirstBank /\ n >= FirstBank
  BY <1>3, <1>4, Geometry DEF RomBanks
<1>6. m = n
  BY <1>1, <1>2, <1>4, <1>5, OneMirror
<1>7. a - b < NumBanks /\ b - a < NumBanks /\ m \in Int /\ NumBanks \in Nat \ {0}
  BY <1>3, <1>4, Geometry DEF RomBanks
<1> QED BY <1>3, <1>4, <1>6, <1>7, OneBelow

LEMMA SameRemainder ==
  ASSUME NEW a \in Int, NEW q \in Int, NEW n \in Nat \ {0}
  PROVE (a - (n * q)) % n = a % n
<1>1. a \div n \in Int /\ a % n \in 0 .. n - 1 /\ a = (n * (a \div n)) + (a % n)
  BY DivMod
<1> DEFINE d == a \div n
           r == a % n
<1> HIDE DEF d, r
<1>2. d \in Int /\ r \in 0 .. n - 1 /\ a = (n * d) + r
  BY <1>1 DEF d, r
<1>3. a - (n * q) = (n * (d - q)) + r
  BY <1>2
<1>4. (a - (n * q)) % n = r
  BY <1>2, <1>3, DivUnique
<1> QED BY <1>4 DEF r

(* What is left of its remainder is a number's multiple.                   *)
LEMMA LessRemainder ==
  ASSUME NEW a \in Int, NEW n \in Nat \ {0}, a >= 0
  PROVE (a - (a % n)) % n = 0 /\ a % n <= a /\ a % n \in 0 .. n - 1
<1>1. a \div n \in Int /\ a % n \in 0 .. n - 1 /\ a = (n * (a \div n)) + (a % n)
  BY DivMod
<1> DEFINE d == a \div n
           r == a % n
<1> HIDE DEF d, r
<1>2. d \in Int /\ r \in 0 .. n - 1 /\ a = (n * d) + r
  BY <1>1 DEF d, r
<1>3. a - r = (n * d) + 0
  BY <1>2
<1>4. (a - r) % n = 0
  BY <1>2, <1>3, DivUnique
<1>5. d >= 0
  BY <1>2
<1>6. r <= a
  BY <1>2, <1>5
<1> QED BY <1>2, <1>4, <1>6 DEF r

LEMMA SmallRemainder ==
  ASSUME NEW n \in Nat \ {0}, NEW a \in 0 .. n - 1
  PROVE a % n = a
<1>1. a = (n * 0) + a
  OBVIOUS
<1> QED BY <1>1, DivUnique

(* If the banks fill half of the address space, those above it are mirrors *)
(* of those below.                                                         *)
LEMMA HalfMirrors ==
  ASSUME CartOK, Half % NumBanks = 0, NEW k \in Int
  PROVE (k - Half) % NumBanks = k % NumBanks /\ (k - Banks) % NumBanks = k % NumBanks
        /\ (k - Banks - Half) % NumBanks = k % NumBanks /\ NumBanks <= Half
<1> DEFINE n == NumBanks
           h == Half \div n
<1>1. n \in Nat \ {0} /\ Half \in Nat /\ Half >= 4 /\ Banks = 2 * Half /\ Half % n = 0
  BY Geometry
<1>2. h \in Int /\ Half = (n * h) + (Half % n)
  BY <1>1, DivMod
<1> HIDE DEF n, h
<1>3. Half = n * h /\ Banks = n * (2 * h) /\ Banks + Half = n * (3 * h)
  BY <1>1, <1>2
<1>4. (k - (n * h)) % n = k % n /\ (k - (n * (2 * h))) % n = k % n
      /\ (k - (n * (3 * h))) % n = k % n
  <2>1. 2 * h \in Int /\ 3 * h \in Int
    BY <1>2
  <2> QED BY <1>1, <1>2, <2>1, SameRemainder
<1>5. k - Banks - Half = k - (Banks + Half)
  BY <1>1
<1>6. h >= 1
  BY <1>1, <1>2, <1>3
<1>7. n <= Half
  BY <1>1, <1>2, <1>3, <1>6
<1> QED BY <1>3, <1>4, <1>5, <1>7 DEF n

(* Otherwise a bank of the tables is its own remainder.                    *)
LEMMA NoMirrors ==
  ASSUME CartOK, NumBanks % Banks = 0, NEW k \in 0 .. 2 * Banks - 1
  PROVE /\ NumBanks >= Banks
        /\ k < Banks => k % NumBanks = k
        /\ k >= Banks => k % NumBanks \in {k, k - Banks}
<1> DEFINE n == NumBanks
           q == n \div Banks
<1>1. n \in Nat \ {0} /\ Banks \in Nat \ {0} /\ n % Banks = 0
  BY Geometry
<1>2. q \in Int /\ n = (Banks * q) + (n % Banks)
  BY <1>1, DivMod
<1> HIDE DEF n, q
<1>3. n = Banks * q /\ q >= 1
  BY <1>1, <1>2
<1>4. n >= Banks
  BY <1>1, <1>2, <1>3
<1>5. k < n => k % n = k
  <2> SUFFICES ASSUME k < n PROVE k % n = k
    OBVIOUS
  <2>1. k \in 0 .. n - 1
    BY <1>1
  <2> QED BY <2>1, <1>1, SmallRemainder
<1>6. k >= n => n = Banks /\ k % n = k - Banks
  <2> SUFFICES ASSUME k >= n PROVE n = Banks /\ k % n = k - Banks
    OBVIOUS
  <2>1. q < 2
    <3> SUFFICES ASSUME q >= 2 PROVE FALSE
      BY <1>2
    <3>1. n >= Banks * 2
      BY <1>1, <1>2, <1>3
    <3> QED BY <3>1, <1>1
  <2>2. q = 1
    BY <2>1, <1>2, <1>3
  <2>3. n = Banks
    BY <2>2, <1>1, <1>3
  <2>4. k = (n * 1) + (k - n) /\ k - n \in 0 .. n - 1
    BY <2>3, <1>1
  <2>5. k % n = k - n
    <3> DEFINE r == k - n
    <3>1. r \in 0 .. n - 1 /\ k = (n * 1) + r
      BY <2>4
    <3> HIDE DEF r
    <3>2. ((n * 1) + r) % n = r
      BY <3>1, <1>1, DivUnique
    <3>3. k % n = r
      BY <3>1, <3>2
    <3> QED BY <3>3 DEF r
  <2> QED BY <2>3, <2>5
<1> QED BY <1>1, <1>4, <1>5, <1>6 DEF n

(* A bank the CPU goes to is seen, in its upper half, in a window of the   *)
(* bank the cache is asked for.                                            *)
LEMMA CodeWindow ==
  ASSUME CartOK, NEW k \in 0 .. 2 * Banks - 1, k \notin {WramBank, WramBank + 1},
         Canon(k) \in RomBanks
  PROVE <<k, 1>> \in WindowsOf(Canon(k))
<1> DEFINE b == Canon(k)
           r == k % NumBanks
<1>g. /\ Banks \in Nat /\ Half \in Nat /\ Half >= 4 /\ Banks = 2 * Half
      /\ WramBank = Banks - 2 /\ NumBanks \in Nat \ {0} /\ HiROM \in BOOLEAN
      /\ (Half % NumBanks = 0 \/ NumBanks % Banks = 0)
  BY Geometry
<1>k. k \in Int /\ k >= 0 /\ k < 2 * Banks /\ (k < WramBank \/ k >= Banks)
  BY <1>g
<1>r. r \in 0 .. NumBanks - 1
  BY <1>g, <1>k, LessRemainder
<1>b. b \in Int /\ b >= 0 /\ b < Banks /\ b = IF HiROM /\ r < Half THEN r + Half ELSE r
  BY <1>g DEF RomBanks, Canon
<1> SUFFICES \E m \in Mirrors(b) : <<k, 1>> \in MirrorWindows(m)
  BY WindowsAre
<1>m. ASSUME NEW i \in Int, i >= 0, i < Banks, i >= b, i - b >= 0, (i - b) % NumBanks = 0
      PROVE i \in Mirrors(b)
  BY <1>m, <1>g DEF Mirrors, RomBanks
<1> HIDE DEF b, r
<1>1. CASE ~HiROM
  <2> DEFINE i == IF k < Banks THEN k ELSE k - Banks
  <2>1. i \in Int /\ i >= 0 /\ i < Banks
    BY <1>g, <1>k
  <2>2. i % NumBanks = r
    <3>1. CASE Half % NumBanks = 0
      BY <3>1, <1>k, HalfMirrors DEF r
    <3>2. CASE NumBanks % Banks = 0
      <4>1. /\ NumBanks >= Banks
            /\ k < Banks => k % NumBanks = k
            /\ k >= Banks => k % NumBanks \in {k, k - Banks}
        BY <3>2, NoMirrors
      <4>2. r = i
        BY <4>1, <1>1, <1>b, <1>g, <1>k DEF r
      <4>3. i \in 0 .. NumBanks - 1
        BY <4>1, <2>1, <1>g
      <4>4. i % NumBanks = i
        BY <4>3, <1>g, SmallRemainder
      <4> QED BY <4>2, <4>4
    <3> QED BY <3>1, <3>2, <1>g
  <2>3. (i - r) % NumBanks = 0 /\ r <= i
    BY <2>1, <2>2, <1>g, LessRemainder
  <2>4. b = r
    BY <1>1, <1>b
  <2>5. i \in Mirrors(b)
    BY <1>m, <2>1, <2>3, <2>4, <1>b
  <2>6. <<k, 1>> \in MirrorWindows(i)
    <3>1. CASE k < Banks
      <4>1. k = i /\ k < WramBank
        BY <3>1, <1>g, <1>k
      <4> HIDE DEF i
      <4> QED BY <4>1, <1>1 DEF MirrorWindows
    <3>2. CASE k >= Banks
      <4>1. k = Banks + i
        BY <3>2, <1>g, <1>k
      <4> QED BY <4>1, <1>1 DEF MirrorWindows
    <3> QED BY <3>1, <3>2, <1>g, <1>k
  <2> QED BY <2>5, <2>6
<1>2. CASE HiROM
  <2> DEFINE i == IF k < Half THEN k ELSE IF k < Banks THEN k - Half
                  ELSE IF k < Banks + Half THEN k - Banks ELSE k - Banks - Half
  <2>1. i \in Int /\ i >= 0 /\ i < Half
    BY <1>g, <1>k
  <2>2. b >= Half
    BY <1>b, <1>g, <1>2, <1>r
  <2>3. i + Half >= b /\ ((i + Half) - b) % NumBanks = 0
    <3>1. CASE Half % NumBanks = 0
      <4>1. i % NumBanks = r /\ NumBanks <= Half
        BY <3>1, <1>k, HalfMirrors DEF r
      <4>2. (i - r) % NumBanks = 0 /\ r <= i
        BY <4>1, <2>1, <1>g, LessRemainder
      <4>3. b = r + Half
        BY <4>1, <1>2, <1>b, <1>r, <1>g
      <4>4. (i + Half) - b = i - r
        BY <4>3, <1>g, <1>r, <2>1
      <4> HIDE DEF i
      <4> QED BY <4>2, <4>4, <1>b, <2>1, <1>g, <1>r
    <3>2. CASE NumBanks % Banks = 0
      <4>1. /\ NumBanks >= Banks
            /\ k < Banks => k % NumBanks = k
            /\ k >= Banks => k % NumBanks \in {k, k - Banks}
        BY <3>2, NoMirrors
      <4>2. b = i + Half
        BY <4>1, <1>2, <1>b, <1>g, <1>k DEF r
      <4>3. (i + Half) - b = 0 /\ 0 \in 0 .. NumBanks - 1
        BY <4>2, <2>1, <1>g
      <4>4. 0 % NumBanks = 0
        BY <4>3, <1>g, SmallRemainder
      <4> HIDE DEF i
      <4> QED BY <4>2, <4>3, <4>4, <2>1, <1>g
    <3> QED BY <3>1, <3>2, <1>g
  <2>4. i + Half \in Mirrors(b)
    <3> DEFINE m == i + Half
    <3>1. m \in Int /\ m >= 0 /\ m < Banks /\ m >= b /\ m - b >= 0 /\ (m - b) % NumBanks = 0
      BY <2>1, <2>3, <1>g, <1>b
    <3> HIDE DEF m
    <3>2. m \in Mirrors(b)
      BY <3>1, <1>m
    <3> QED BY <3>2 DEF m
  <2>5. <<k, 1>> \in MirrorWindows(i + Half)
    <3> DEFINE m == i + Half
    <3>1. \/ k = m - Half \/ k = m + Half \/ k = Banks + m
          \/ k = m /\ m < WramBank
      BY <1>g, <1>k
    <3> HIDE DEF m, i
    <3>2. <<k, 1>> \in MirrorWindows(m)
      BY <3>1, <1>2 DEF MirrorWindows
    <3> QED BY <3>2 DEF m
  <2> QED BY <2>4, <2>5
<1> QED BY <1>1, <1>2, <1>g

(* A bank of the file has a place in the tables.                           *)
LEMMA FileBank ==
  ASSUME CartOK, NEW k \in RomBanks
  PROVE Canon(k) \in CanonBanks
<1> DEFINE r == k % NumBanks
<1>g. /\ Banks \in Nat /\ Half \in Nat /\ Half >= 4 /\ Banks = 2 * Half
      /\ NumBanks \in Nat \ {0} /\ HiROM \in BOOLEAN
  BY Geometry
<1>1. k \in Int /\ k >= 0 /\ k < Banks
  BY <1>g DEF RomBanks
<1>2. r \in Int /\ r >= 0 /\ r <= k
  BY <1>1, <1>g, LessRemainder, SMTT(30)
<1>3. Canon(k) = IF HiROM /\ r < Half THEN r + Half ELSE r
  BY DEF Canon
<1> HIDE DEF r
<1>4. Canon(k) \in RomBanks
  BY <1>1, <1>2, <1>3, <1>g DEF RomBanks
<1>5. k \in 0 .. 2 * Banks - 1
  BY <1>1, <1>g
<1> QED BY <1>4, <1>5 DEF CanonBanks

(* So has every bank of the CPU if those of the image fit.                 *)
LEMMA FitBank ==
  ASSUME CartOK, BanksFit, NEW k \in AllBanks
  PROVE Canon(k) \in CanonBanks /\ Canon(k) \in RomBanks
<1> DEFINE r == k % NumBanks
<1>g. /\ Banks \in Nat /\ Half \in Nat /\ Half >= 4 /\ Banks = 2 * Half
      /\ NumBanks \in Nat \ {0} /\ HiROM \in BOOLEAN /\ NumBanks <= Banks
  BY Geometry DEF BanksFit
<1>1. k \in Int
  BY <1>g
<1>2. r \in 0 .. NumBanks - 1
  BY <1>1, <1>g, DivMod
<1>3. Canon(k) = IF HiROM /\ r < Half THEN r + Half ELSE r
  BY DEF Canon
<1> HIDE DEF r
<1>4. Canon(k) \in RomBanks
  BY <1>2, <1>3, <1>g DEF RomBanks
<1> QED BY <1>4 DEF CanonBanks

(***************************************************************************)
(* The invariant                                                           *)
(***************************************************************************)

Entries == [kind : Kinds, at : RomBanks \cup {None}, slow : BOOLEAN]

(* The windows the cache never changes are those of the system area, which *)
(* the speed does not reach, and those of the work RAM.                    *)
TableFine(table) ==
  /\ table \in [Windows -> Entries]
  /\ \A w \in Windows : table[w].kind = "file" => table[w].at \in RomBanks
  /\ \A w \in Windows : w[2] = 0 /\ w[1] >= Banks /\ w[1] < Banks + Half
                          => table[w].kind = "system"
  /\ \A b \in {WramBank, WramBank + 1} : table[<<b, 1>>].kind = "wram"

SpeedFine(table, speed) ==
  \A w \in Windows :
    w[1] >= Banks /\ table[w].kind \in {"rom", "file"} => table[w].slow = ~speed

PointersFine(table, chunk) ==
  \A b \in CanonBanks : \A w \in WindowsOf(b) :
    IF chunk[b] # None THEN table[w].kind = "rom" /\ table[w].at = chunk[b]
    ELSE table[w].kind # "rom"

(* Only banks the cache is asked for are in its tables; the first of them  *)
(* stays in the first chunk; what is searched for is not cached.           *)
BanksHeld ==
  /\ usage[0] = [bank |-> FirstBank, type |-> Resident]
  /\ \A c \in Chunks : usage[c].type # Unused => usage[c].bank \in CanonBanks
  /\ req # None => req.bank \in CanonBanks /\ status[req.bank] = None

(* The bank the CPU runs in is cached for that, or searched for: no other  *)
(* use takes its chunk.                                                    *)
CodeHeld ==
  \/ pbr \in {0, WramBank, WramBank + 1}
  \/ /\ Canon(pbr) \in RomBanks
     /\ \/ status[Canon(pbr)] # None /\ usage[status[Canon(pbr)]].type >= Pbr
        \/ req # None /\ req.bank = Canon(pbr) /\ req.type = Pbr
CodeAsked == req # None /\ req.type = Pbr =>
               req.bank = Canon(pbr) /\ pbr \notin {0, WramBank, WramBank + 1}

RomInv ==
  /\ CartOK /\ TypeOK /\ TableFine(pt) /\ BanksHeld
  /\ CacheInverse /\ PointersFine(pt, status) /\ SpeedFine(pt, fast)
  /\ CodeHeld /\ CodeAsked

LEMMA Chunky == CartOK => /\ 0 \in Chunks /\ \A c \in Chunks : c \in RomBanks /\ c \in Int
                          /\ FirstChunk \in Chunks
<1> SUFFICES ASSUME CartOK PROVE Chunky!2
  OBVIOUS
<1>1. cart.chunks \in Int /\ cart.chunks >= 1 /\ cart.chunks <= Half
  BY Geometry DEF CartOK
<1> QED BY <1>1, Geometry DEF Chunks, RomBanks, FirstChunk

(* A window of a bank the cache is asked for is where ROM can be shown.    *)
LEMMA WindowPlace ==
  ASSUME CartOK, NEW b \in CanonBanks, NEW w \in WindowsOf(b)
  PROVE /\ w \in Windows
        /\ ~(w[2] = 0 /\ w[1] >= Banks /\ w[1] < Banks + Half)
        /\ w \notin {<<WramBank, 1>>, <<WramBank + 1, 1>>}
<1>1. PICK m \in Mirrors(b) : w \in MirrorWindows(m)
  BY WindowsAre
<1>2. m \in RomBanks /\ m >= b /\ b \in Int /\ b >= FirstBank
  BY CanonRange DEF Mirrors
<1>3. m >= FirstBank /\ m \in Int /\ m < Banks
  BY <1>2, Geometry DEF RomBanks
<1>4. /\ w \in Windows
      /\ w[2] = 0 => w[1] \in {m, Banks + m} /\ m >= Half
      /\ w[1] \notin {WramBank, WramBank + 1}
  BY <1>1, <1>2, <1>3, MirrorOf
<1> QED BY <1>3, <1>4, Geometry

(* Mapping a bank keeps the table in order.                                *)
LEMMA MapKeeps ==
  ASSUME CartOK, fast \in BOOLEAN, NEW table, TableFine(table), SpeedFine(table, fast),
         NEW b \in CanonBanks, NEW kind \in {"rom", "file"}, NEW at \in RomBanks
  PROVE /\ TableFine(MapBankTo(table, b, kind, at))
        /\ SpeedFine(MapBankTo(table, b, kind, at), fast)
        /\ \A w \in Windows : MapBankTo(table, b, kind, at)[w] =
             IF w \in WindowsOf(b) THEN Entry(kind, at, SlowAt(w)) ELSE table[w]
<1> DEFINE new == MapBankTo(table, b, kind, at)
<1>1. new = [w \in Windows |-> IF w \in WindowsOf(b) THEN Entry(kind, at, SlowAt(w)) ELSE table[w]]
  BY DEF MapBankTo
<1> HIDE DEF new
<1>2. \A w \in Windows : new[w] = IF w \in WindowsOf(b) THEN Entry(kind, at, SlowAt(w)) ELSE table[w]
  BY <1>1
<1>3. \A w \in Windows : /\ Entry(kind, at, SlowAt(w)) \in Entries
                          /\ Entry(kind, at, SlowAt(w)).kind = kind
                          /\ Entry(kind, at, SlowAt(w)).at = at
                          /\ Entry(kind, at, SlowAt(w)).slow = SlowAt(w)
  <2> SUFFICES ASSUME NEW w \in Windows
               PROVE /\ Entry(kind, at, SlowAt(w)) \in Entries
                     /\ Entry(kind, at, SlowAt(w)).kind = kind
                     /\ Entry(kind, at, SlowAt(w)).at = at
                     /\ Entry(kind, at, SlowAt(w)).slow = SlowAt(w)
    OBVIOUS
  <2>1. SlowAt(w) \in BOOLEAN
    BY DEF SlowAt
  <2>2. kind \in Kinds
    BY DEF Kinds
  <2> QED BY <2>1, <2>2 DEF Entry, Entries
<1>4. new \in [Windows -> Entries]
  BY <1>1, <1>3 DEF TableFine
<1>5. \A w \in Windows : new[w].kind = "file" => new[w].at \in RomBanks
  BY <1>2, <1>3 DEF TableFine
<1>6. \A w \in Windows : w[2] = 0 /\ w[1] >= Banks /\ w[1] < Banks + Half => new[w].kind = "system"
  BY <1>2, WindowPlace DEF TableFine
<1>7. \A v \in {WramBank, WramBank + 1} : new[<<v, 1>>].kind = "wram"
  <2> SUFFICES ASSUME NEW v \in {WramBank, WramBank + 1} PROVE new[<<v, 1>>].kind = "wram"
    OBVIOUS
  <2>1. <<v, 1>> \in Windows
    BY Geometry DEF Windows
  <2>2. <<v, 1>> \notin WindowsOf(b)
    BY WindowPlace
  <2> QED BY <1>2, <2>1, <2>2 DEF TableFine
<1>8. SpeedFine(new, fast)
  <2> SUFFICES ASSUME NEW w \in Windows, w[1] >= Banks, new[w].kind \in {"rom", "file"}
               PROVE new[w].slow = ~fast
    BY DEF SpeedFine
  <2>1. CASE w \in WindowsOf(b)
    <3>1. SlowAt(w) = ~fast
      <4>1. ~(w[1] < Banks)
        BY Geometry DEF Windows
      <4> QED BY <4>1 DEF SlowAt
    <3>2. new[w] = Entry(kind, at, SlowAt(w))
      BY <1>2, <2>1
    <3> QED BY <1>3, <3>1, <3>2
  <2>2. CASE w \notin WindowsOf(b)
    <3>1. new[w] = table[w]
      BY <1>2, <2>2
    <3> QED BY <3>1 DEF SpeedFine
  <2> QED BY <2>1, <2>2
<1> QED BY <1>2, <1>4, <1>5, <1>6, <1>7, <1>8 DEF TableFine, new

(* The cache is about the cartridge that was loaded.                       *)
LEMMA CartSame ==
  ASSUME cart' = cart
  PROVE /\ CartOK' = CartOK /\ CanonBanks' = CanonBanks /\ Chunks' = Chunks
        /\ \A b : Canon(b)' = Canon(b) /\ WindowsOf(b)' = WindowsOf(b)
        /\ FirstBank' = FirstBank /\ BanksFit' = BanksFit
<1>1. HiROM' = HiROM /\ NumBanks' = NumBanks
  BY DEF HiROM, NumBanks
<1>2. \A b : Canon(b)' = Canon(b)
  BY <1>1 DEF Canon
<1>3. \A b : Mirrors(b)' = Mirrors(b)
  BY <1>1 DEF Mirrors
<1>4. \A b : WindowsOf(b)' = WindowsOf(b)
  BY <1>1, <1>3 DEF WindowsOf
<1>5. CanonBanks' = CanonBanks
  BY <1>2 DEF CanonBanks
<1> QED BY <1>1, <1>2, <1>4, <1>5 DEF CartOK, Chunks, FirstBank, BanksFit

(***************************************************************************)
(* The first state                                                         *)
(***************************************************************************)

LEMMA ResidentIs ==
  ASSUME CartOK, NEW b \in RomBanks
  PROVE /\ ResidentChunk(b) # None =>
             /\ b \in CanonBanks /\ ResidentChunk(b) = b - FirstBank
             /\ ResidentChunk(b) \in Chunks /\ ResidentChunk(b) < cart.resident
        /\ b >= FirstBank /\ b < FirstBank + cart.resident => ResidentChunk(b) = b - FirstBank
        /\ ResidentChunk(b) \in Chunks \cup {None}
<1>1. /\ cart.resident \in Int /\ cart.resident >= 1 /\ cart.resident <= cart.chunks
      /\ cart.chunks \in Int /\ cart.chunks <= Half /\ cart.resident <= NumBanks
  BY Geometry DEF CartOK, NumBanks
<1>2. b \in Int /\ b >= 0 /\ FirstBank \in Int
  BY Geometry DEF RomBanks
<1>3. CASE b >= FirstBank /\ b < FirstBank + cart.resident
  <2>1. ResidentChunk(b) = b - FirstBank
    BY <1>3 DEF ResidentChunk
  <2>2. b - FirstBank \in Chunks /\ b - FirstBank < cart.resident
    BY <1>1, <1>2, <1>3 DEF Chunks
  <2>3. b - FirstBank \in Nat /\ b - FirstBank < NumBanks /\ b - FirstBank < Half
    BY <1>1, <1>2, <1>3, Geometry
  <2> DEFINE i == b - FirstBank
  <2>4. FirstBank + i = b
    BY <1>2
  <2> HIDE DEF i
  <2>5. i \in Nat /\ i < NumBanks /\ i < Half
    BY <2>3 DEF i
  <2>6. FirstBank + i \in CanonBanks
    BY <2>5, CanonFirst
  <2> QED BY <2>1, <2>2, <2>4, <2>6
<1>4. CASE ~(b >= FirstBank /\ b < FirstBank + cart.resident)
  BY <1>4 DEF ResidentChunk
<1> QED BY <1>3, <1>4

LEMMA ResetIs ==
  ASSUME CartOK, NEW w \in Windows
  PROVE /\ ResetEntry(w) \in Entries /\ ResetEntry(w).kind # "rom"
        /\ ResetEntry(w).kind = "file" => ResetEntry(w).at \in RomBanks /\ ResetEntry(w).slow = TRUE
        /\ w[2] = 0 /\ w[1] >= Banks /\ w[1] < Banks + Half => ResetEntry(w).kind = "system"
        /\ w \in {<<WramBank, 1>>, <<WramBank + 1, 1>>} => ResetEntry(w).kind = "wram"
<1> DEFINE b == w[1] % Banks
           work == b >= WramBank /\ ~(w[1] >= Banks /\ HiROM)
<1>1. w[1] \in 0 .. 2 * Banks - 1 /\ w[2] \in {0, 1}
  BY DEF Windows
<1>2. b = IF w[1] < Banks THEN w[1] ELSE w[1] - Banks
  <2> DEFINE v == w[1]
             r == IF v < Banks THEN v ELSE v - Banks
             q == IF v < Banks THEN 0 ELSE 1
  <2>1. v \in Int /\ v >= 0 /\ v < 2 * Banks /\ Banks \in Nat \ {0}
    BY <1>1, Geometry
  <2>2. r \in 0 .. Banks - 1 /\ q \in Int /\ v = (Banks * q) + r
    BY <2>1
  <2> HIDE DEF v, r, q
  <2>3. v % Banks = r
    BY <2>1, <2>2, DivUnique
  <2> QED BY <2>3 DEF v, r
<1>g. /\ Banks \in Nat /\ Half \in Nat /\ Half >= 4 /\ Banks = 2 * Half
      /\ SramBank \in Nat /\ SramBank <= WramBank /\ SramBank > Half
      /\ WramBank = Banks - 2
  BY Geometry
<1>3. b \in Int /\ b >= 0 /\ b < Banks
  BY <1>1, <1>2, <1>g
<1>4. ResetEntry(w) =
       IF b < Half /\ w[2] = 0 THEN Entry("system", None, TRUE)
       ELSE IF b = 0 THEN Entry("unset", None, FALSE)
       ELSE IF b < Half THEN Entry("file", b, TRUE)
       ELSE IF work THEN Entry("wram", None, TRUE)
       ELSE IF HiROM THEN Entry("file", b - Half, TRUE)
       ELSE IF b < SramBank THEN Entry("file", b, TRUE)
       ELSE IF w[2] = 0 THEN Entry("sram", None, TRUE)
       ELSE Entry("unset", None, FALSE)
  BY DEF ResetEntry
<1>5. (work => ~(b < Half) /\ b # 0 /\ ~(b < SramBank)) /\ (b < SramBank => ~work)
  BY <1>3, <1>g
<1> HIDE DEF b
<1>7. CASE b < Half /\ w[2] = 0
  <2>1. ResetEntry(w) = Entry("system", None, TRUE)
    BY <1>1, <1>3, <1>4, <1>5, <1>7, <1>g
  <2> QED BY <2>1, <1>7 DEF Entry, Entries, Kinds
<1>8. CASE b = 0 /\ w[2] = 1
  <2>1. ResetEntry(w) = Entry("unset", None, FALSE)
    BY <1>1, <1>3, <1>4, <1>5, <1>8, <1>g
  <2>2. w # <<WramBank, 1>> /\ w # <<WramBank + 1, 1>>
    BY <1>2, <1>8, <1>g
  <2> QED BY <2>1, <2>2, <1>8 DEF Entry, Entries, Kinds
<1>9. CASE b \in 1 .. Half - 1 /\ w[2] = 1
  <2>1. ResetEntry(w) = Entry("file", b, TRUE)
    <3>1. ~(b < Half /\ w[2] = 0) /\ b # 0 /\ b < Half
      BY <1>1, <1>3, <1>5, <1>9, <1>g
    <3> QED BY <3>1, <1>4, <1>9, Zenon
  <2>2. w # <<WramBank, 1>> /\ w # <<WramBank + 1, 1>> /\ b \in RomBanks
    BY <1>2, <1>9, <1>g, <1>3 DEF RomBanks
  <2> QED BY <2>1, <2>2, <1>9 DEF Entry, Entries, Kinds
<1>10. CASE work
  <2>1. ResetEntry(w) = Entry("wram", None, TRUE)
    <3>1. ~(b < Half) /\ b # 0
      BY <1>1, <1>3, <1>5, <1>10, <1>g
    <3> QED BY <3>1, <1>4, <1>10, Zenon
  <2>2. ~(w[1] >= Banks /\ w[1] < Banks + Half)
    BY <1>1, <1>2, <1>5, <1>10, <1>g
  <2> QED BY <2>1, <2>2 DEF Entry, Entries, Kinds
<1>11. CASE b >= Half /\ HiROM /\ ~work
  <2>1. ResetEntry(w) = Entry("file", b - Half, TRUE)
    <3>1. ~(b < Half) /\ b # 0
      BY <1>1, <1>3, <1>5, <1>11, <1>g
    <3> QED BY <3>1, <1>4, <1>11, Zenon
  <2>2. b - Half \in RomBanks /\ ~(w[1] >= Banks /\ w[1] < Banks + Half)
    BY <1>1, <1>2, <1>3, <1>11, <1>g DEF RomBanks
  <2>3. w # <<WramBank, 1>> /\ w # <<WramBank + 1, 1>>
    BY <1>2, <1>11, <1>g
  <2> QED BY <2>1, <2>2, <2>3 DEF Entry, Entries, Kinds
<1>12. CASE b \in Half .. SramBank - 1 /\ ~HiROM
  <2>1. ResetEntry(w) = Entry("file", b, TRUE)
    <3>1. ~(b < Half) /\ b # 0 /\ b < SramBank /\ ~work
      BY <1>1, <1>3, <1>5, <1>12, <1>g
    <3> QED BY <3>1, <1>4, <1>12, Zenon
  <2>2. b \in RomBanks /\ ~(w[1] >= Banks /\ w[1] < Banks + Half)
    BY <1>1, <1>2, <1>3, <1>12, <1>g DEF RomBanks
  <2>3. w # <<WramBank, 1>> /\ w # <<WramBank + 1, 1>>
    BY <1>2, <1>12, <1>g
  <2> QED BY <2>1, <2>2, <2>3 DEF Entry, Entries, Kinds
<1>13. CASE b >= SramBank /\ ~HiROM /\ ~work
  <2>1. ResetEntry(w) = Entry("sram", None, TRUE) \/ ResetEntry(w) = Entry("unset", None, FALSE)
    <3>1. ~(b < Half) /\ b # 0 /\ ~(b < SramBank)
      BY <1>1, <1>3, <1>5, <1>13, <1>g
    <3> QED BY <3>1, <1>4, <1>13, Zenon
  <2>2. ~(w[1] >= Banks /\ w[1] < Banks + Half)
    BY <1>1, <1>2, <1>3, <1>13, <1>g
  <2>3. w # <<WramBank, 1>> /\ w # <<WramBank + 1, 1>>
    BY <1>2, <1>13, <1>g
  <2>4. CASE ResetEntry(w) = Entry("sram", None, TRUE)
    BY <2>2, <2>3, <2>4 DEF Entry, Entries, Kinds
  <2>5. CASE ResetEntry(w) = Entry("unset", None, FALSE)
    BY <2>2, <2>3, <2>5 DEF Entry, Entries, Kinds
  <2> QED BY <2>1, <2>4, <2>5
<1>14. \/ b < Half /\ w[2] = 0
       \/ b = 0 /\ w[2] = 1
       \/ b \in 1 .. Half - 1 /\ w[2] = 1
       \/ b >= Half
  BY <1>1, <1>3, <1>g
<1>15. b >= Half /\ ~HiROM /\ ~work => b \in Half .. SramBank - 1 \/ b >= SramBank
  BY <1>3, <1>g
<1> QED BY <1>7, <1>8, <1>9, <1>10, <1>11, <1>12, <1>13, <1>14, <1>15, Zenon

LEMMA InitInv == Init => RomInv
<1> SUFFICES ASSUME Init PROVE RomInv
  OBVIOUS
<1>1. CartOK
  <2>1. PICK k \in Images : cart = SizesOf(k)
    BY DEF Init
  <2> QED BY <2>1, SizesSound
<1>g. /\ Banks \in Nat /\ Half \in Nat /\ Half >= 4 /\ Banks = 2 * Half
      /\ WramBank = Banks - 2 /\ FirstBank \in {0, Half}
  BY <1>1, Geometry
<1>c. /\ cart.resident \in Int /\ cart.resident >= 1 /\ cart.resident <= cart.chunks
      /\ cart.chunks \in Int /\ cart.chunks <= Half
  BY <1>1, <1>g DEF CartOK
<1>n. None \notin Int /\ MaxMisses \in Nat
  BY RomCacheAssumption
<1>2. \A c \in Chunks : c < cart.resident =>
        /\ FirstBank + c \in CanonBanks /\ FirstBank + c \in RomBanks
        /\ ResidentChunk(FirstBank + c) = c
  <2> SUFFICES ASSUME NEW c \in Chunks, c < cart.resident
               PROVE /\ FirstBank + c \in CanonBanks /\ FirstBank + c \in RomBanks
                     /\ ResidentChunk(FirstBank + c) = c
    OBVIOUS
  <2>1. c \in Int /\ c >= 0
    BY <1>c DEF Chunks
  <2>2. FirstBank + c \in RomBanks /\ FirstBank + c >= FirstBank
        /\ FirstBank + c < FirstBank + cart.resident /\ (FirstBank + c) - FirstBank = c
    BY <2>1, <1>c, <1>g DEF RomBanks
  <2>3. ResidentChunk(FirstBank + c) = c
    BY <2>2, <1>1, ResidentIs
  <2>4. c # None
    BY <2>1, <1>n
  <2>5. FirstBank + c \in CanonBanks
    BY <2>2, <2>3, <2>4, <1>1, ResidentIs
  <2> QED BY <2>2, <2>3, <2>5
<1>3. usage \in [Chunks -> [bank : AllBanks, type : {Unused, Misses, Dbr, Pbr, Resident}]]
  <2> SUFFICES ASSUME NEW c \in Chunks
               PROVE (IF c < cart.resident THEN [bank |-> FirstBank + c, type |-> Resident]
                      ELSE [bank |-> 0, type |-> Unused])
                     \in [bank : AllBanks, type : {Unused, Misses, Dbr, Pbr, Resident}]
    BY DEF Init
  <2>1. 0 \in AllBanks /\ RomBanks \subseteq AllBanks
    BY <1>g DEF RomBanks
  <2> QED BY <1>2, <2>1
<1>4. \A c \in Chunks : usage[c] = IF c < cart.resident
                                   THEN [bank |-> FirstBank + c, type |-> Resident]
                                   ELSE [bank |-> 0, type |-> Unused]
  BY DEF Init
<1>5. \A b \in RomBanks : status[b] = ResidentChunk(b)
  BY DEF Init
<1>6. status \in [RomBanks -> Chunks \cup {None}]
  BY <1>1, ResidentIs DEF Init
<1>7. \A w \in Windows :
        /\ pt[w] \in Entries
        /\ (\A b \in RomBanks : ResidentChunk(b) # None => w \notin WindowsOf(b))
             => pt[w] = ResetEntry(w)
        /\ \A b \in RomBanks : ResidentChunk(b) # None /\ w \in WindowsOf(b)
             => pt[w] = Entry("rom", ResidentChunk(b), TRUE)
  <2> SUFFICES ASSUME NEW w \in Windows
               PROVE /\ pt[w] \in Entries
                     /\ (\A b \in RomBanks : ResidentChunk(b) # None => w \notin WindowsOf(b))
                          => pt[w] = ResetEntry(w)
                     /\ \A b \in RomBanks : ResidentChunk(b) # None /\ w \in WindowsOf(b)
                          => pt[w] = Entry("rom", ResidentChunk(b), TRUE)
    OBVIOUS
  <2> DEFINE shown == {b \in RomBanks : ResidentChunk(b) # None /\ w \in WindowsOf(b)}
  <2>1. pt[w] = IF shown = {} THEN ResetEntry(w)
                ELSE Entry("rom", ResidentChunk(CHOOSE b \in shown : TRUE), TRUE)
    BY DEF Init
  <2>2. \A a, b \in shown : a = b
    BY <1>1, ResidentIs, OneOwner
  <2>3. \A b \in shown : b \in RomBanks /\ ResidentChunk(b) \in Chunks
    BY <1>1, ResidentIs
  <2>4. \A b \in shown : pt[w] = Entry("rom", ResidentChunk(b), TRUE)
    <3> HIDE DEF shown
    <3> SUFFICES ASSUME NEW b \in shown PROVE pt[w] = Entry("rom", ResidentChunk(b), TRUE)
      OBVIOUS
    <3>1. (CHOOSE a \in shown : TRUE) \in shown
      OBVIOUS
    <3>2. (CHOOSE a \in shown : TRUE) = b
      BY <3>1, <2>2
    <3> QED BY <2>1, <3>2
  <2>5. pt[w] \in Entries
    <3>1. CASE shown = {}
      BY <2>1, <3>1, <1>1, ResetIs
    <3>2. CASE shown # {}
      <4> HIDE DEF shown
      <4>1. PICK b \in shown : TRUE
        BY <3>2
      <4>2. pt[w] = Entry("rom", ResidentChunk(b), TRUE) /\ ResidentChunk(b) \in RomBanks
        BY <2>3, <2>4, <1>1, Chunky
      <4> QED BY <4>2 DEF Entry, Entries, Kinds
    <3> QED BY <3>1, <3>2
  <2> QED BY <2>1, <2>4, <2>5
<1>8. DOMAIN pt = Windows /\ pt \in [Windows -> Entries]
  <2>1. pt = [w \in Windows |-> pt[w]]
    BY DEF Init
  <2> QED BY <2>1, <1>7
<1>9. \A w \in Windows : pt[w] = ResetEntry(w) \/ \E b \in CanonBanks : w \in WindowsOf(b) /\ pt[w].kind = "rom" /\ pt[w].slow = TRUE
  <2> SUFFICES ASSUME NEW w \in Windows, pt[w] # ResetEntry(w)
               PROVE \E b \in CanonBanks : w \in WindowsOf(b) /\ pt[w].kind = "rom" /\ pt[w].slow = TRUE
    OBVIOUS
  <2>1. PICK b \in RomBanks : ResidentChunk(b) # None /\ w \in WindowsOf(b)
    BY <1>7
  <2>2. b \in CanonBanks /\ pt[w] = Entry("rom", ResidentChunk(b), TRUE)
    BY <2>1, <1>1, <1>7, ResidentIs
  <2> QED BY <2>1, <2>2 DEF Entry
<1>10. TypeOK
  <2>1. \A w \in Windows : pt[w].kind \in Kinds
    BY <1>8 DEF Entries
  <2>2. cur \in Chunks
    <3>1. cart.resident \in Int /\ cart.chunks \in Nat \ {0}
      BY <1>c
    <3>2. cart.resident % cart.chunks \in 0 .. cart.chunks - 1
      BY <3>1, DivMod
    <3> QED BY <3>2 DEF Init, Chunks
  <2>3. misses \in [RomBanks -> 0 .. MaxMisses] /\ fast \in BOOLEAN /\ req = None
        /\ {pbr, dbr} \subseteq 0 .. 2 * Banks - 1
    <3>1. misses = [b \in RomBanks |-> 0] /\ fast = FALSE /\ req = None /\ pbr = 0 /\ dbr = 0
      BY DEF Init
    <3>2. 0 \in 0 .. MaxMisses /\ 0 \in 0 .. 2 * Banks - 1
      BY <1>n, <1>g
    <3> QED BY <3>1, <3>2
  <2> QED BY <1>3, <1>6, <1>8, <2>1, <2>2, <2>3 DEF TypeOK
<1>11. TableFine(pt)
  <2>1. \A w \in Windows : pt[w].kind = "file" => pt[w].at \in RomBanks
    BY <1>1, <1>9, ResetIs
  <2>2. \A w \in Windows : w[2] = 0 /\ w[1] >= Banks /\ w[1] < Banks + Half
                            => pt[w].kind = "system"
    BY <1>1, <1>9, ResetIs, WindowPlace
  <2>3. \A b \in {WramBank, WramBank + 1} : pt[<<b, 1>>].kind = "wram"
    <3> SUFFICES ASSUME NEW b \in {WramBank, WramBank + 1} PROVE pt[<<b, 1>>].kind = "wram"
      OBVIOUS
    <3>1. <<b, 1>> \in Windows /\ <<b, 1>> \in {<<WramBank, 1>>, <<WramBank + 1, 1>>}
      BY <1>g DEF Windows
    <3>2. pt[<<b, 1>>] = ResetEntry(<<b, 1>>)
      BY <3>1, <1>1, <1>9, WindowPlace
    <3> QED BY <3>1, <3>2, <1>1, ResetIs
  <2> QED BY <2>1, <2>2, <2>3, <1>8 DEF TableFine
<1>12. SpeedFine(pt, fast)
  <2>1. fast = FALSE
    BY DEF Init
  <2>2. \A w \in Windows : pt[w].kind \in {"rom", "file"} => pt[w].slow = TRUE
    BY <1>1, <1>9, ResetIs
  <2> QED BY <2>1, <2>2 DEF SpeedFine
<1>13. PointersFine(pt, status)
  <2> SUFFICES ASSUME NEW b \in CanonBanks, NEW w \in WindowsOf(b)
               PROVE IF status[b] # None THEN pt[w].kind = "rom" /\ pt[w].at = status[b]
                     ELSE pt[w].kind # "rom"
    BY DEF PointersFine
  <2>1. b \in RomBanks /\ w \in Windows
    BY <1>1, CanonRange, WindowPlace
  <2>2. CASE status[b] # None
    <3>1. pt[w] = Entry("rom", status[b], TRUE)
      BY <1>5, <1>7, <2>1, <2>2
    <3> QED BY <2>2, <3>1 DEF Entry
  <2>3. CASE status[b] = None
    <3>1. \A a \in RomBanks : ResidentChunk(a) # None => w \notin WindowsOf(a)
      <4> SUFFICES ASSUME NEW a \in RomBanks, ResidentChunk(a) # None, w \in WindowsOf(a)
                   PROVE FALSE
        OBVIOUS
      <4>1. a \in CanonBanks
        BY <1>1, ResidentIs
      <4>2. a = b
        BY <4>1, <1>1, OneOwner
      <4> QED BY <4>2, <1>5, <2>1, <2>3
    <3>2. pt[w] = ResetEntry(w)
      BY <3>1, <1>7, <2>1
    <3> QED BY <2>1, <2>3, <3>2, <1>1, ResetIs
  <2> QED BY <2>2, <2>3
<1>14. CacheInverse
  <2>1. ASSUME NEW b \in RomBanks, status[b] # None
        PROVE usage[status[b]].bank = b /\ usage[status[b]].type # Unused
    <3>1. /\ status[b] = b - FirstBank /\ status[b] \in Chunks /\ status[b] < cart.resident
          /\ b \in Int
      BY <2>1, <1>1, <1>5, <1>g, ResidentIs DEF RomBanks
    <3>2. usage[status[b]] = [bank |-> FirstBank + status[b], type |-> Resident]
      BY <1>4, <3>1
    <3>3. FirstBank + status[b] = b
      BY <3>1, <1>g
    <3> QED BY <3>2, <3>3 DEF Resident, Unused
  <2>2. ASSUME NEW c \in Chunks, usage[c].type # Unused
        PROVE status[usage[c].bank] = c
    <3>1. c < cart.resident /\ usage[c].bank = FirstBank + c
      <4>1. CASE c < cart.resident
        <5>1. usage[c] = [bank |-> FirstBank + c, type |-> Resident]
          BY <1>4, <4>1
        <5> QED BY <5>1, <4>1
      <4>2. CASE ~(c < cart.resident)
        <5>1. usage[c] = [bank |-> 0, type |-> Unused]
          BY <1>4, <4>2
        <5> QED BY <5>1, <2>2
      <4> QED BY <4>1, <4>2
    <3> QED BY <3>1, <1>2, <1>5
  <2> QED BY <2>1, <2>2 DEF CacheInverse
<1>15. BanksHeld
  <2>1. usage[0] = [bank |-> FirstBank, type |-> Resident]
    <3>1. 0 \in Chunks /\ 0 < cart.resident /\ FirstBank + 0 = FirstBank
      BY <1>1, <1>c, <1>g, Chunky
    <3> QED BY <3>1, <1>4
  <2>2. \A c \in Chunks : usage[c].type # Unused => usage[c].bank \in CanonBanks
    <3> SUFFICES ASSUME NEW c \in Chunks, usage[c].type # Unused
                 PROVE usage[c].bank \in CanonBanks
      OBVIOUS
    <3>1. CASE c < cart.resident
      <4>1. usage[c] = [bank |-> FirstBank + c, type |-> Resident]
        BY <1>4, <3>1
      <4>2. usage[c].bank = FirstBank + c
        BY <4>1
      <4> QED BY <4>2, <3>1, <1>2
    <3>2. CASE ~(c < cart.resident)
      <4>1. usage[c] = [bank |-> 0, type |-> Unused]
        BY <1>4, <3>2
      <4> QED BY <4>1
    <3> QED BY <3>1, <3>2
  <2> QED BY <2>1, <2>2 DEF BanksHeld, Init
<1>16. CodeHeld /\ CodeAsked
  BY DEF Init, CodeHeld, CodeAsked
<1> QED BY <1>1, <1>10, <1>11, <1>12, <1>13, <1>14, <1>15, <1>16 DEF RomInv

(***************************************************************************)
(* The steps                                                               *)
(***************************************************************************)

(* What RomInv says but for the code.                                      *)
CacheInv ==
  /\ CartOK /\ TypeOK /\ TableFine(pt) /\ BanksHeld
  /\ CacheInverse /\ PointersFine(pt, status) /\ SpeedFine(pt, fast)

Uses == [bank : AllBanks, type : {Unused, Misses, Dbr, Pbr, Resident}]

LEMMA Typing ==
  TypeOK /\ CartOK =>
    /\ usage \in [Chunks -> Uses] /\ status \in [RomBanks -> Chunks \cup {None}]
    /\ cur \in Chunks /\ fast \in BOOLEAN /\ None \notin Int
    /\ \A c \in Chunks : usage[c].type \in {0, 64, 128, 129, 255}
    /\ req # None => req \in Calls
<1> SUFFICES ASSUME TypeOK, CartOK PROVE Typing!2
  OBVIOUS
<1>1. usage \in [Chunks -> Uses] /\ status \in [RomBanks -> Chunks \cup {None}]
      /\ cur \in Chunks /\ fast \in BOOLEAN
      /\ (req # None => req \in Calls)
  BY DEF TypeOK, Uses
<1>2. None \notin Int
  BY RomCacheAssumption
<1>3. \A u \in Uses : u.type \in {0, 64, 128, 129, 255}
  BY DEF Uses, Unused, Misses, Dbr, Pbr, Resident
<1> QED BY <1>1, <1>2, <1>3

(* Asking the cache for a bank raises its use or begins a search.          *)
LEMMA AskKeeps ==
  ASSUME CacheInv, req = None, UNCHANGED <<cart, pt, status, cur, fast>>,
         misses' \in [RomBanks -> 0 .. MaxMisses], {pbr', dbr'} \subseteq 0 .. 2 * Banks - 1,
         NEW bank, NEW type \in {Misses, Dbr, Pbr}, Canon(bank) \in CanonBanks,
         CacheBank(bank, type) \/ UNCHANGED <<usage, req>>
  PROVE /\ CacheInv'
        /\ \A c \in Chunks : usage'[c].type >= usage[c].type
        /\ req' # None => req' = [bank |-> Canon(bank), type |-> type]
        /\ CacheBank(bank, type) =>
             \/ status[Canon(bank)] # None /\ usage'[status[Canon(bank)]].type >= type
             \/ req' = [bank |-> Canon(bank), type |-> type] /\ req' # None
<1> DEFINE b == Canon(bank)
           c == status[b]
<1>1. CartOK /\ TypeOK /\ TableFine(pt) /\ BanksHeld /\ CacheInverse
      /\ PointersFine(pt, status) /\ SpeedFine(pt, fast)
  BY DEF CacheInv
<1>2. /\ usage \in [Chunks -> Uses] /\ status \in [RomBanks -> Chunks \cup {None}]
      /\ cur \in Chunks /\ fast \in BOOLEAN /\ None \notin Int
      /\ \A d \in Chunks : usage[d].type \in {0, 64, 128, 129, 255}
  BY <1>1, Typing
<1>3. /\ CartOK' = CartOK /\ CanonBanks' = CanonBanks /\ Chunks' = Chunks
      /\ (\A k : Canon(k)' = Canon(k) /\ WindowsOf(k)' = WindowsOf(k)) /\ FirstBank' = FirstBank
  BY CartSame
<1>4. b \in CanonBanks /\ b \in RomBanks /\ b \in AllBanks
  BY <1>1, CanonRange, Geometry DEF RomBanks
<1>t. type \in {64, 128, 129} /\ type \in Int
  BY DEF Misses, Dbr, Pbr
<1>5. /\ TableFine(pt)' /\ PointersFine(pt, status)' /\ SpeedFine(pt, fast)'
  <2>1. TableFine(pt)'
    BY <1>1 DEF TableFine
  <2>2. PointersFine(pt, status)'
    BY <1>1, <1>3 DEF PointersFine
  <2>3. SpeedFine(pt, fast)'
    BY <1>1 DEF SpeedFine
  <2> QED BY <2>1, <2>2, <2>3
<1> HIDE DEF b
<1>6. CASE UNCHANGED <<usage, req>> /\ ~CacheBank(bank, type)
  <2>1. \A d \in Chunks : usage'[d].type >= usage[d].type
    BY <1>2, <1>6
  <2>2. TypeOK'
    <3>1. usage' = usage /\ req' = req /\ status' = status /\ pt' = pt /\ cur' = cur /\ fast' = fast
      BY <1>6
    <3> QED BY <3>1, <1>1, <1>3 DEF TypeOK
  <2>3. BanksHeld'
    BY <1>1, <1>3, <1>6 DEF BanksHeld
  <2>4. CacheInverse'
    BY <1>1, <1>3, <1>6 DEF CacheInverse
  <2> QED BY <1>1, <1>3, <1>5, <1>6, <2>1, <2>2, <2>3, <2>4 DEF CacheInv
<1>7. CASE CacheBank(bank, type) /\ c # None
  <2>1. c \in Chunks
    BY <1>2, <1>4, <1>7
  <2>2. req' = None /\ usage' = IF usage[c].type < type THEN [usage EXCEPT ![c].type = type] ELSE usage
    BY <1>4, <1>7, <2>1 DEF CacheBank, StatusRead, Raise, b
  <2>3. /\ usage' \in [Chunks -> Uses]
        /\ \A d \in Chunks : d # c => usage'[d] = usage[d]
        /\ usage'[c].bank = usage[c].bank
        /\ usage'[c].type = IF usage[c].type < type THEN type ELSE usage[c].type
    <3>1. CASE usage[c].type < type
      <4>1. usage' = [usage EXCEPT ![c].type = type]
        BY <2>2, <3>1
      <4>2. type \in {Unused, Misses, Dbr, Pbr, Resident}
        OBVIOUS
      <4>3. [usage[c] EXCEPT !.type = type] \in Uses
        BY <1>2, <2>1, <4>2 DEF Uses
      <4>4. usage'[c] = [usage[c] EXCEPT !.type = type]
        BY <4>1, <1>2, <2>1
      <4>5. usage' \in [Chunks -> Uses]
        BY <4>1, <4>3, <1>2, <2>1
      <4>6. \A d \in Chunks : d # c => usage'[d] = usage[d]
        BY <4>1, <1>2, <2>1
      <4>7. usage[c] \in Uses
        BY <1>2, <2>1
      <4>8. usage'[c].bank = usage[c].bank /\ usage'[c].type = type
        BY <4>4, <4>7 DEF Uses
      <4> QED BY <3>1, <4>5, <4>6, <4>8
    <3>2. CASE ~(usage[c].type < type)
      <4>1. usage' = usage
        BY <2>2, <3>2
      <4> QED BY <4>1, <3>2, <1>2
    <3> QED BY <3>1, <3>2
  <2>4. usage[c].type \in Int /\ usage'[c].type >= type /\ usage'[c].type >= usage[c].type
    BY <1>2, <1>t, <2>1, <2>3
  <2>5. \A d \in Chunks : usage'[d].type >= usage[d].type
    <3> SUFFICES ASSUME NEW d \in Chunks PROVE usage'[d].type >= usage[d].type
      OBVIOUS
    <3>1. CASE d = c
      BY <3>1, <2>4
    <3>2. CASE d # c
      <4>1. usage'[d] = usage[d] /\ usage[d].type \in Int
        BY <3>2, <2>3, <1>2
      <4> QED BY <4>1
    <3> QED BY <3>1, <3>2
  <2>6. usage[c].type # Unused /\ usage'[c].type # Unused
    <3>1. usage[c].type # Unused
      BY <1>1, <1>4, <1>7 DEF CacheInverse
    <3> QED BY <3>1, <2>4, <1>2, <1>t, <2>1, <2>3 DEF Unused
  <2>7. \A d \in Chunks : /\ usage'[d].bank = usage[d].bank
                          /\ usage'[d].type # Unused => usage[d].type # Unused
                          /\ usage[d].type # Unused => usage'[d].type # Unused
    BY <2>3, <2>6
  <2>8. TypeOK'
    <3>1. usage' \in [Chunks -> [bank : AllBanks, type : {Unused, Misses, Dbr, Pbr, Resident}]]
      BY <2>3 DEF Uses
    <3>2. /\ DOMAIN pt = Windows /\ \A w \in Windows : pt[w].kind \in Kinds
      BY <1>1 DEF TypeOK
    <3> QED BY <3>1, <3>2, <1>2, <1>3, <2>2 DEF TypeOK
  <2>9. BanksHeld'
    <3>1. usage'[0] = [bank |-> FirstBank, type |-> Resident]
      <4>1. usage[0] = [bank |-> FirstBank, type |-> Resident]
        BY <1>1 DEF BanksHeld
      <4>2. CASE c = 0
        <5>1. ~(usage[c].type < type)
          BY <4>1, <4>2, <1>t DEF Resident
        <5> QED BY <5>1, <4>1, <4>2, <2>2
      <4>3. CASE c # 0
        <5>1. 0 \in Chunks
          BY <1>1, Chunky
        <5> QED BY <5>1, <4>1, <4>3, <2>3
      <4> QED BY <4>2, <4>3
    <3>2. \A d \in Chunks : usage'[d].type # Unused => usage'[d].bank \in CanonBanks
      <4> SUFFICES ASSUME NEW d \in Chunks, usage'[d].type # Unused
                   PROVE usage'[d].bank \in CanonBanks
        OBVIOUS
      <4>1. usage[d].type # Unused /\ usage'[d].bank = usage[d].bank
        BY <2>3, <2>7, <1>2
      <4> QED BY <4>1, <1>1 DEF BanksHeld
    <3> QED BY <3>1, <3>2, <2>2, <1>3 DEF BanksHeld
  <2>10. CacheInverse'
    <3>1. \A a \in RomBanks : status[a] # None =>
            usage'[status[a]].bank = a /\ usage'[status[a]].type # Unused
      <4> SUFFICES ASSUME NEW a \in RomBanks, status[a] # None
                   PROVE usage'[status[a]].bank = a /\ usage'[status[a]].type # Unused
        OBVIOUS
      <4>1. status[a] \in Chunks
        BY <1>2
      <4>2. usage[status[a]].bank = a /\ usage[status[a]].type # Unused
        BY <1>1 DEF CacheInverse
      <4> QED BY <2>3, <2>7, <4>1, <4>2, <1>2
    <3>2. \A d \in Chunks : usage'[d].type # Unused => status[usage'[d].bank] = d
      <4> SUFFICES ASSUME NEW d \in Chunks, usage'[d].type # Unused
                   PROVE status[usage'[d].bank] = d
        OBVIOUS
      <4>1. usage[d].type # Unused /\ usage'[d].bank = usage[d].bank
        BY <2>3, <2>7, <1>2
      <4> QED BY <4>1, <1>1 DEF CacheInverse
    <3> QED BY <3>1, <3>2, <1>3 DEF CacheInverse
  <2> QED BY <1>1, <1>3, <1>5, <1>7, <2>2, <2>4, <2>5, <2>8, <2>9, <2>10 DEF CacheInv, b
<1>8. CASE CacheBank(bank, type) /\ c = None
  <2>1. req' = [bank |-> b, type |-> type] /\ usage' = usage
    BY <1>4, <1>8 DEF CacheBank, StatusRead, b
  <2>2. req' # None
    <3>1. req' \in Calls
      BY <1>4, <2>1 DEF Calls
    <3> QED BY <3>1, RomCacheAssumption
  <2>3. TypeOK'
    <3>1. req' \in Calls
      BY <1>4, <2>1 DEF Calls
    <3>2. /\ DOMAIN pt = Windows /\ \A w \in Windows : pt[w].kind \in Kinds
          /\ usage \in [Chunks -> [bank : AllBanks, type : {Unused, Misses, Dbr, Pbr, Resident}]]
      BY <1>1 DEF TypeOK
    <3> QED BY <3>1, <3>2, <1>2, <1>3, <2>1 DEF TypeOK
  <2>4. BanksHeld'
    <3>1. req'.bank = b
      BY <2>1
    <3> QED BY <3>1, <2>1, <1>1, <1>3, <1>4, <1>8 DEF BanksHeld
  <2>5. CacheInverse'
    BY <1>1, <1>3, <2>1 DEF CacheInverse
  <2>6. \A d \in Chunks : usage'[d].type >= usage[d].type
    BY <1>2, <2>1
  <2> QED BY <1>1, <1>3, <1>5, <1>8, <2>1, <2>2, <2>3, <2>4, <2>5, <2>6 DEF CacheInv, b
<1> QED BY <1>6, <1>7, <1>8

(* While the CPU stays in its bank, that bank stays cached: the uses of    *)
(* the chunks are only raised.                                             *)
LEMMA CodeStays ==
  ASSUME RomInv, req = None, UNCHANGED <<cart, status, pbr>>,
         \A c \in Chunks : usage'[c].type >= usage[c].type /\ usage'[c].type \in Int,
         req' # None => req'.type # Pbr
  PROVE CodeHeld' /\ CodeAsked'
<1>1. CartOK /\ TypeOK /\ CodeHeld
  BY DEF RomInv
<1>2. status \in [RomBanks -> Chunks \cup {None}]
      /\ \A c \in Chunks : usage[c].type \in {0, 64, 128, 129, 255}
  BY <1>1, Typing
<1>3. CodeAsked'
  BY DEF CodeAsked
<1>4. CASE pbr \in {0, WramBank, WramBank + 1}
  BY <1>3, <1>4 DEF CodeHeld
<1>5. CASE pbr \notin {0, WramBank, WramBank + 1}
  <2> DEFINE c == status[Canon(pbr)]
  <2>1. Canon(pbr) \in RomBanks /\ c # None /\ usage[c].type >= Pbr
    BY <1>1, <1>5 DEF CodeHeld
  <2>2. c \in Chunks
    BY <1>2, <2>1
  <2>3. usage[c].type \in Int /\ usage'[c].type \in Int /\ Pbr \in Int
    BY <1>2, <2>2 DEF Pbr
  <2>4. usage'[c].type >= Pbr
    <3>1. usage'[c].type >= usage[c].type
      BY <2>2
    <3> HIDE DEF c
    <3> QED BY <2>1, <2>3, <3>1
  <2>5. Canon(pbr)' = Canon(pbr)
    BY DEF Canon, NumBanks, HiROM
  <2> QED BY <1>3, <2>1, <2>4, <2>5 DEF CodeHeld
<1> QED BY <1>4, <1>5

LEMMA UsesTyped ==
  ASSUME CacheInv', cart' = cart
  PROVE \A c \in Chunks : usage'[c].type \in Int
<1>1. usage' \in [Chunks' -> Uses']
  BY DEF CacheInv, TypeOK, Uses
<1>2. Chunks' = Chunks
  BY CartSame
<1>3. \A u \in Uses' : u.type \in Int
  BY DEF Uses, Unused, Misses, Dbr, Pbr, Resident
<1> QED BY <1>1, <1>2, <1>3

LEMMA RomParts == RomInv <=> CacheInv /\ CodeHeld /\ CodeAsked
  BY DEF RomInv, CacheInv

(* The bank of a long jump is asked for as code.                           *)
LEMMA SetPBRKeeps ==
  ASSUME BanksFit, RomInv, NEW bank \in CodeBanks, SetPBR(bank)
  PROVE RomInv'
<1>1. CacheInv /\ CartOK /\ TypeOK
  BY DEF RomInv, CacheInv
<1>2. bank \in 0 .. 2 * Banks - 1 /\ Canon(bank) \in CanonBanks /\ Canon(bank) \in RomBanks
  BY <1>1, FitBank, RomCacheAssumption
<1>3. /\ req = None /\ pbr' = bank /\ dbr' = dbr /\ misses' = misses
      /\ UNCHANGED <<cart, pt, status, cur, fast>>
      /\ DoCacheBank(bank, Pbr)
  BY DEF SetPBR
<1>4. misses' \in [RomBanks -> 0 .. MaxMisses] /\ {pbr', dbr'} \subseteq 0 .. 2 * Banks - 1
  BY <1>1, <1>2, <1>3 DEF TypeOK
<1>5. Pbr \in {Misses, Dbr, Pbr}
  OBVIOUS
<1>6. CacheBank(bank, Pbr) \/ UNCHANGED <<usage, req>>
  BY <1>3 DEF DoCacheBank
<1>7. /\ CacheInv'
      /\ \A c \in Chunks : usage'[c].type >= usage[c].type
      /\ req' # None => req' = [bank |-> Canon(bank), type |-> Pbr]
      /\ CacheBank(bank, Pbr) =>
           \/ status[Canon(bank)] # None /\ usage'[status[Canon(bank)]].type >= Pbr
           \/ req' = [bank |-> Canon(bank), type |-> Pbr] /\ req' # None
  BY <1>1, <1>2, <1>3, <1>4, <1>5, <1>6, AskKeeps
<1>8. \A b : Canon(b)' = Canon(b)
  BY <1>3, CartSame
<1>9. CASE bank \in {0, WramBank, WramBank + 1}
  <2>1. req' = None
    BY <1>3, <1>9 DEF DoCacheBank
  <2>2. CodeHeld' /\ CodeAsked'
    BY <2>1, <1>3, <1>9 DEF CodeHeld, CodeAsked
  <2> QED BY <1>7, <2>2 DEF RomInv, CacheInv
<1>10. CASE bank \notin {0, WramBank, WramBank + 1}
  <2>1. CacheBank(bank, Pbr)
    BY <1>3, <1>10 DEF DoCacheBank
  <2>2. Canon(pbr)' = Canon(bank)
    BY <1>3 DEF Canon, NumBanks, HiROM
  <2>3. CodeHeld'
    BY <1>2, <1>3, <1>7, <2>1, <2>2 DEF CodeHeld
  <2>4. CodeAsked'
    BY <1>3, <1>7, <1>10, <2>2 DEF CodeAsked
  <2> QED BY <1>7, <2>3, <2>4 DEF RomInv, CacheInv
<1> QED BY <1>9, <1>10

LEMMA PLBKeeps ==
  ASSUME BanksFit, RomInv, NEW bank \in DataBanks, PLB(bank) \/ BlockMove(bank)
  PROVE RomInv'
<1>1. CacheInv /\ CartOK /\ TypeOK
  BY DEF RomInv, CacheInv
<1>2. bank \in 0 .. 2 * Banks - 1 /\ Canon(bank) \in CanonBanks
  BY <1>1, FitBank, RomCacheAssumption
<1>3. /\ req = None /\ dbr' = bank /\ pbr' = pbr /\ misses' = misses
      /\ UNCHANGED <<cart, pt, status, cur, fast>>
      /\ CacheBank(bank, Dbr) \/ UNCHANGED <<usage, req>>
  BY DEF PLB, BlockMove, DoCacheBank
<1>4. misses' \in [RomBanks -> 0 .. MaxMisses] /\ {pbr', dbr'} \subseteq 0 .. 2 * Banks - 1
  BY <1>1, <1>2, <1>3 DEF TypeOK
<1>5. Dbr \in {Misses, Dbr, Pbr}
  OBVIOUS
<1>6. CacheBank(bank, Dbr) \/ UNCHANGED <<usage, req>>
  BY <1>3
<1>7. /\ CacheInv'
      /\ \A c \in Chunks : usage'[c].type >= usage[c].type
      /\ req' # None => req' = [bank |-> Canon(bank), type |-> Dbr]
  BY <1>1, <1>2, <1>3, <1>4, <1>5, <1>6, AskKeeps
<1>8. req' # None => req'.type # Pbr
  BY <1>7 DEF Dbr, Pbr
<1>9. \A c \in Chunks : usage'[c].type >= usage[c].type /\ usage'[c].type \in Int
  BY <1>3, <1>7, UsesTyped
<1>10. CodeHeld' /\ CodeAsked'
  BY <1>3, <1>8, <1>9, CodeStays
<1> QED BY <1>7, <1>10 DEF RomInv, CacheInv

LEMMA InterruptKeeps ==
  ASSUME RomInv, Interrupt
  PROVE RomInv'
<1>1. /\ req = None /\ pbr' = 0
      /\ UNCHANGED <<cart, pt, usage, status, cur, misses, fast, dbr, req>>
  BY DEF Interrupt
<1>2. CartOK /\ TypeOK /\ TableFine(pt) /\ BanksHeld /\ CacheInverse
      /\ PointersFine(pt, status) /\ SpeedFine(pt, fast)
  BY DEF RomInv
<1>3. /\ CartOK' = CartOK /\ CanonBanks' = CanonBanks /\ Chunks' = Chunks
      /\ (\A k : Canon(k)' = Canon(k) /\ WindowsOf(k)' = WindowsOf(k)) /\ FirstBank' = FirstBank
  BY <1>1, CartSame
<1>4. TypeOK'
  <2>1. 0 \in 0 .. 2 * Banks - 1
    BY <1>2, Geometry
  <2> QED BY <1>1, <1>2, <1>3, <2>1 DEF TypeOK
<1>5. TableFine(pt)' /\ SpeedFine(pt, fast)'
  BY <1>1, <1>2 DEF TableFine, SpeedFine
<1>6. PointersFine(pt, status)'
  BY <1>1, <1>2, <1>3 DEF PointersFine
<1>7. BanksHeld' /\ CacheInverse'
  BY <1>1, <1>2, <1>3 DEF BanksHeld, CacheInverse
<1>8. CodeHeld' /\ CodeAsked'
  BY <1>1 DEF CodeHeld, CodeAsked
<1> QED BY <1>2, <1>3, <1>4, <1>5, <1>6, <1>7, <1>8 DEF RomInv

(* A miss asks for a bank of the file, for no more than reading.           *)
LEMMA ReadKeeps ==
  ASSUME RomInv, NEW w \in ReadBanks \X {0, 1}, ReadUncached(w)
  PROVE RomInv'
<1> DEFINE bank == pt[w].at
           full == misses[bank] + 1 > MaxMisses
<1>1. CacheInv /\ CartOK /\ TypeOK /\ TableFine(pt)
  BY DEF RomInv, CacheInv
<1>2. /\ req = None /\ pbr' = pbr /\ dbr' = dbr /\ pt[w].kind = "file"
      /\ misses' = [misses EXCEPT ![bank] = IF full THEN 0 ELSE @ + 1]
      /\ UNCHANGED <<cart, pt, status, cur, fast>>
      /\ CacheBank(bank, Misses) \/ UNCHANGED <<usage, req>>
  BY DEF ReadUncached
<1>3. w \in Windows
  BY RomCacheAssumption DEF Windows
<1>4. bank \in RomBanks
  BY <1>1, <1>2, <1>3 DEF TableFine
<1>5. Canon(bank) \in CanonBanks
  BY <1>1, <1>4, FileBank
<1>6. misses' \in [RomBanks -> 0 .. MaxMisses]
  <2>1. misses \in [RomBanks -> 0 .. MaxMisses] /\ MaxMisses \in Nat
    BY <1>1, RomCacheAssumption DEF TypeOK
  <2>2. misses[bank] \in 0 .. MaxMisses
    BY <1>4, <2>1
  <2>3. (IF full THEN 0 ELSE misses[bank] + 1) \in 0 .. MaxMisses
    BY <2>1, <2>2
  <2>4. misses' = [misses EXCEPT ![bank] = IF full THEN 0 ELSE misses[bank] + 1]
    BY <1>2
  <2> HIDE DEF full, bank
  <2> QED BY <1>4, <2>1, <2>3, <2>4
<1>7. {pbr', dbr'} \subseteq 0 .. 2 * Banks - 1
  BY <1>1, <1>2 DEF TypeOK
<1>8. Misses \in {Misses, Dbr, Pbr}
  OBVIOUS
<1>9. CacheBank(bank, Misses) \/ UNCHANGED <<usage, req>>
  BY <1>2
<1> HIDE DEF bank, full
<1>10. /\ CacheInv'
       /\ \A c \in Chunks : usage'[c].type >= usage[c].type
       /\ req' # None => req' = [bank |-> Canon(bank), type |-> Misses]
  BY <1>1, <1>2, <1>5, <1>6, <1>7, <1>8, <1>9, AskKeeps
<1>11. req' # None => req'.type # Pbr
  BY <1>10 DEF Misses, Pbr
<1>12. \A c \in Chunks : usage'[c].type >= usage[c].type /\ usage'[c].type \in Int
  BY <1>2, <1>10, UsesTyped
<1>13. CodeHeld' /\ CodeAsked'
  BY <1>2, <1>11, <1>12, CodeStays
<1> QED BY <1>10, <1>13 DEF RomInv, CacheInv

(* The speed is given to every window of ROM there is above: those it does *)
(* not go over show the system area.                                       *)
LEMMA SpeedKeeps ==
  ASSUME RomInv, WriteSpeed
  PROVE RomInv'
<1> DEFINE Changed(w) == w[1] >= Banks + (IF w[2] = 1 THEN 0 ELSE Half)
<1>1. /\ req = None /\ fast' = ~fast
      /\ pt' = [w \in Windows |-> IF Changed(w) THEN [pt[w] EXCEPT !.slow = fast] ELSE pt[w]]
      /\ UNCHANGED <<cart, usage, status, cur, misses, pbr, dbr, req>>
  BY DEF WriteSpeed
<1>2. CartOK /\ TypeOK /\ TableFine(pt) /\ BanksHeld /\ CacheInverse
      /\ PointersFine(pt, status) /\ SpeedFine(pt, fast) /\ CodeHeld /\ CodeAsked
  BY DEF RomInv
<1>3. /\ CartOK' = CartOK /\ CanonBanks' = CanonBanks /\ Chunks' = Chunks
      /\ (\A k : Canon(k)' = Canon(k) /\ WindowsOf(k)' = WindowsOf(k)) /\ FirstBank' = FirstBank
  BY <1>1, CartSame
<1>4. fast \in BOOLEAN /\ pt \in [Windows -> Entries]
  BY <1>2 DEF TypeOK, TableFine
<1>5. \A w \in Windows :
        /\ pt'[w] \in Entries /\ pt'[w].kind = pt[w].kind /\ pt'[w].at = pt[w].at
        /\ Changed(w) => pt'[w].slow = fast
        /\ ~Changed(w) => pt'[w] = pt[w]
  <2> HIDE DEF Changed
  <2> SUFFICES ASSUME NEW w \in Windows
               PROVE /\ pt'[w] \in Entries /\ pt'[w].kind = pt[w].kind /\ pt'[w].at = pt[w].at
                     /\ Changed(w) => pt'[w].slow = fast
                     /\ ~Changed(w) => pt'[w] = pt[w]
    OBVIOUS
  <2>1. pt[w] \in Entries
    BY <1>4
  <2>2. CASE Changed(w)
    <3>1. pt'[w] = [pt[w] EXCEPT !.slow = fast]
      BY <1>1, <2>2
    <3> QED BY <1>4, <2>1, <2>2, <3>1 DEF Entries
  <2>3. CASE ~Changed(w)
    <3>1. pt'[w] = pt[w]
      BY <1>1, <2>3
    <3> QED BY <2>1, <2>3, <3>1
  <2> QED BY <2>2, <2>3
<1>6. pt' \in [Windows -> Entries] /\ DOMAIN pt' = Windows
  <2>1. pt' = [w \in Windows |-> pt'[w]]
    BY <1>1
  <2> QED BY <2>1, <1>5
<1>7. TableFine(pt)'
  <2>1. \A w \in Windows : pt'[w].kind = "file" => pt'[w].at \in RomBanks
    BY <1>2, <1>5 DEF TableFine
  <2>2. \A w \in Windows : w[2] = 0 /\ w[1] >= Banks /\ w[1] < Banks + Half
                            => pt'[w].kind = "system"
    BY <1>2, <1>5 DEF TableFine
  <2>3. \A b \in {WramBank, WramBank + 1} : pt'[<<b, 1>>].kind = "wram"
    <3> SUFFICES ASSUME NEW b \in {WramBank, WramBank + 1} PROVE pt'[<<b, 1>>].kind = "wram"
      OBVIOUS
    <3>1. <<b, 1>> \in Windows
      BY <1>2, Geometry DEF Windows
    <3> QED BY <3>1, <1>2, <1>5 DEF TableFine
  <2> QED BY <2>1, <2>2, <2>3, <1>6 DEF TableFine
<1>8. SpeedFine(pt, fast)'
  <2> SUFFICES ASSUME NEW w \in Windows, w[1] >= Banks, pt'[w].kind \in {"rom", "file"}
               PROVE pt'[w].slow = ~fast'
    BY DEF SpeedFine
  <2>1. pt[w].kind # "system"
    BY <1>5
  <2>2. w[1] \in Int /\ w[2] \in {0, 1}
    BY DEF Windows
  <2>3. ~(w[2] = 0 /\ w[1] < Banks + Half)
    BY <1>2, <2>1 DEF TableFine
  <2>4. Changed(w)
    BY <2>2, <2>3, <1>2, Geometry
  <2>5. pt'[w].slow = fast
    BY <1>5, <2>4
  <2>6. fast = ~fast'
    BY <1>1, <1>4
  <2> QED BY <2>5, <2>6
<1>9. TypeOK'
  <2>1. \A w \in Windows : pt'[w].kind \in Kinds
    BY <1>5 DEF Entries
  <2>2. fast' \in BOOLEAN
    BY <1>1
  <2> QED BY <1>1, <1>2, <1>3, <1>6, <2>1, <2>2 DEF TypeOK
<1>10. PointersFine(pt, status)'
  <2> SUFFICES ASSUME NEW b \in CanonBanks, NEW w \in WindowsOf(b)
               PROVE IF status[b] # None THEN pt'[w].kind = "rom" /\ pt'[w].at = status[b]
                     ELSE pt'[w].kind # "rom"
    BY <1>1, <1>3 DEF PointersFine
  <2>1. w \in Windows
    BY <1>2, WindowPlace
  <2>2. pt'[w].kind = pt[w].kind /\ pt'[w].at = pt[w].at
    BY <1>5, <2>1
  <2> QED BY <1>2, <2>2 DEF PointersFine
<1>11. BanksHeld' /\ CacheInverse'
  BY <1>1, <1>2, <1>3 DEF BanksHeld, CacheInverse
<1>12. CodeHeld' /\ CodeAsked'
  <2>1. Canon(pbr)' = Canon(pbr)
    BY <1>1 DEF Canon, NumBanks, HiROM
  <2> QED BY <1>1, <1>2, <2>1 DEF CodeHeld, CodeAsked
<1> QED BY <1>2, <1>3, <1>7, <1>8, <1>9, <1>10, <1>11, <1>12 DEF RomInv

(* A turn of the search: the chunk changes hands, and the windows of both  *)
(* banks with it.                                                          *)
LEMMA SearchKeeps ==
  ASSUME RomInv, Search
  PROVE RomInv'
<1>1. CartOK /\ TypeOK /\ TableFine(pt) /\ BanksHeld /\ CacheInverse
      /\ PointersFine(pt, status) /\ SpeedFine(pt, fast) /\ CodeHeld /\ CodeAsked
  BY DEF RomInv
<1>2. /\ usage \in [Chunks -> Uses] /\ status \in [RomBanks -> Chunks \cup {None}]
      /\ cur \in Chunks /\ fast \in BOOLEAN /\ None \notin Int
      /\ \A d \in Chunks : usage[d].type \in {0, 64, 128, 129, 255}
      /\ req # None => req \in Calls
  BY <1>1, Typing
<1>3. /\ req # None /\ cur' = NextChunk(cur)
      /\ UNCHANGED <<cart, misses, fast, pbr, dbr>>
  BY DEF Search
<1>4. /\ CartOK' = CartOK /\ CanonBanks' = CanonBanks /\ Chunks' = Chunks
      /\ (\A k : Canon(k)' = Canon(k) /\ WindowsOf(k)' = WindowsOf(k)) /\ FirstBank' = FirstBank
  BY <1>3, CartSame
<1>c. Canon(pbr)' = Canon(pbr)
  BY <1>3 DEF Canon, NumBanks, HiROM
<1>5. cur' \in Chunks
  <2>1. FirstChunk \in Chunks
    BY <1>1, Chunky
  <2>2. cart.chunks \in Int /\ cur \in 0 .. cart.chunks - 1
    BY <1>1, <1>2, Geometry DEF CartOK, Chunks
  <2>3. ~(cur + 1 >= cart.chunks) => cur + 1 \in Chunks
    BY <2>2 DEF Chunks
  <2> QED BY <1>3, <2>1, <2>3 DEF NextChunk
<1>6. CASE ~CanRemap(usage[cur].type, req.type)
  <2>1. UNCHANGED <<pt, status, usage, req>>
    BY <1>6 DEF Search
  <2>2. TypeOK'
    BY <1>1, <1>3, <1>4, <1>5, <2>1 DEF TypeOK
  <2>3. TableFine(pt)' /\ SpeedFine(pt, fast)'
    BY <1>1, <1>3, <2>1 DEF TableFine, SpeedFine
  <2>4. PointersFine(pt, status)'
    BY <1>1, <1>4, <2>1 DEF PointersFine
  <2>5. BanksHeld' /\ CacheInverse'
    BY <1>1, <1>4, <2>1 DEF BanksHeld, CacheInverse
  <2>6. CodeHeld' /\ CodeAsked'
    BY <1>1, <1>3, <1>c, <2>1 DEF CodeHeld, CodeAsked
  <2> QED BY <1>1, <1>4, <2>2, <2>3, <2>4, <2>5, <2>6 DEF RomInv
<1>7. CASE CanRemap(usage[cur].type, req.type)
  <2> DEFINE left == Evict(cur)
             new == req.bank
             old == usage[cur].bank
             held == usage[cur].type # Unused
  <2>1. /\ pt' = MapBankTo(left.table, new, "rom", cur)
        /\ status' = StatusSet(left.status, new, cur)
        /\ usage' = [usage EXCEPT ![cur] = req]
        /\ req' = None
    BY <1>7 DEF Search
  <2>2. req \in Calls /\ new \in CanonBanks /\ new \in RomBanks /\ status[new] = None
        /\ req.type \in {64, 128, 129}
    <3>1. req \in Calls /\ new \in CanonBanks /\ status[new] = None
      BY <1>1, <1>2, <1>3 DEF BanksHeld
    <3> QED BY <3>1, <1>1, CanonRange DEF Calls, Misses, Dbr, Pbr
  <2>3. cur \in RomBanks /\ cur # None /\ cur # 0
    <3>1. cur \in RomBanks /\ cur \in Int
      BY <1>1, <1>2, Chunky
    <3>2. usage[cur].type # Resident
      BY <1>7 DEF CanRemap
    <3>3. usage[0].type = Resident
      BY <1>1 DEF BanksHeld
    <3> QED BY <3>1, <3>2, <3>3, <1>2
  <2>4. held => /\ old \in CanonBanks /\ old \in RomBanks /\ status[old] = cur /\ old # new
                /\ old - FirstBank \in RomBanks
    <3> SUFFICES ASSUME held
                 PROVE /\ old \in CanonBanks /\ old \in RomBanks /\ status[old] = cur /\ old # new
                       /\ old - FirstBank \in RomBanks
      OBVIOUS
    <3>1. old \in CanonBanks /\ status[old] = cur
      BY <1>1, <1>2 DEF BanksHeld, CacheInverse
    <3>2. old \in RomBanks /\ old \in Int /\ old >= FirstBank
      BY <1>1, <3>1, CanonRange
    <3>3. old - FirstBank \in RomBanks
      BY <3>2, <1>1, Geometry DEF RomBanks
    <3> QED BY <3>1, <3>2, <3>3, <2>2, <2>3
  <2>5. /\ TableFine(left.table) /\ SpeedFine(left.table, fast)
        /\ left.status \in [RomBanks -> Chunks \cup {None}]
        /\ \A b \in RomBanks : left.status[b] = IF held /\ b = old THEN None ELSE status[b]
        /\ \A w \in Windows : IF held /\ w \in WindowsOf(old) THEN left.table[w].kind = "file"
                               ELSE left.table[w] = pt[w]
    <3>1. CASE ~held
      <4>1. left.table = pt /\ left.status = status
        BY <3>1 DEF Evict
      <4> HIDE DEF left, held
      <4> QED BY <3>1, <4>1, <1>1, <1>2
    <3>2. CASE held
      <4>1. left.table = MapBankTo(pt, old, "file", old - FirstBank)
            /\ left.status = [status EXCEPT ![old] = None]
        BY <2>4, <3>2 DEF Evict, StatusSet
      <4> DEFINE at == old - FirstBank
      <4>2. old \in CanonBanks /\ old \in RomBanks /\ at \in RomBanks
        BY <2>4, <3>2
      <4> HIDE DEF at, left, old
      <4>3. left.table = MapBankTo(pt, old, "file", at)
        BY <4>1 DEF at
      <4>4. /\ TableFine(MapBankTo(pt, old, "file", at))
            /\ SpeedFine(MapBankTo(pt, old, "file", at), fast)
            /\ \A w \in Windows : MapBankTo(pt, old, "file", at)[w] =
                 IF w \in WindowsOf(old) THEN Entry("file", at, SlowAt(w)) ELSE pt[w]
        BY <1>1, <1>2, <4>2, MapKeeps
      <4>5. \A w \in Windows : IF w \in WindowsOf(old) THEN left.table[w].kind = "file"
                               ELSE left.table[w] = pt[w]
        <5>1. \A w : Entry("file", at, SlowAt(w)).kind = "file"
          BY DEF Entry
        <5> QED BY <4>3, <4>4, <5>1
      <4>6. left.status \in [RomBanks -> Chunks \cup {None}]
            /\ \A b \in RomBanks : left.status[b] = IF b = old THEN None ELSE status[b]
        BY <4>1, <4>2, <1>2
      <4> HIDE DEF held
      <4> QED BY <3>2, <4>3, <4>4, <4>5, <4>6
    <3> QED BY <3>1, <3>2
  <2>6. held => /\ old \in CanonBanks /\ old \in RomBanks /\ status[old] = cur /\ old # new
    BY <2>4
  <2>7. held <=> usage[cur].type # Unused
    OBVIOUS
  <2>8. old = usage[cur].bank /\ req.bank = new
    OBVIOUS
  <2> DEFINE table == left.table
  <2>t. table = left.table
    OBVIOUS
  <2> HIDE DEF left, new, old, held, table
  <2>9. /\ TableFine(pt') /\ SpeedFine(pt', fast)
        /\ \A w \in Windows : pt'[w] = IF w \in WindowsOf(new) THEN Entry("rom", cur, SlowAt(w))
                                      ELSE table[w]
    <3>1. TableFine(table) /\ SpeedFine(table, fast)
      BY <2>5, <2>t
    <3>2. /\ TableFine(MapBankTo(table, new, "rom", cur))
          /\ SpeedFine(MapBankTo(table, new, "rom", cur), fast)
          /\ \A w \in Windows : MapBankTo(table, new, "rom", cur)[w] =
               IF w \in WindowsOf(new) THEN Entry("rom", cur, SlowAt(w)) ELSE table[w]
      BY <1>1, <1>2, <2>2, <2>3, <3>1, MapKeeps
    <3>3. pt' = MapBankTo(table, new, "rom", cur)
      BY <2>1, <2>t
    <3> QED BY <3>2, <3>3
  <2>r. status' = [left.status EXCEPT ![new] = cur]
    BY <2>1, <2>2 DEF StatusSet
  <2>10. /\ status' \in [RomBanks -> Chunks \cup {None}]
         /\ status'[new] = cur
         /\ held => status'[old] = None
         /\ \A b \in RomBanks : b # new /\ ~(held /\ b = old) => status'[b] = status[b]
    BY <1>2, <2>r, <2>2, <2>5, <2>6
  <2>11. /\ usage' \in [Chunks -> Uses] /\ usage'[cur] = req
         /\ \A d \in Chunks : d # cur => usage'[d] = usage[d]
    <3>1. req \in Uses
      BY <2>2 DEF Calls, Uses
    <3> QED BY <3>1, <1>2, <2>1
  <2>12. TypeOK'
    <3>1. DOMAIN pt' = Windows /\ \A w \in Windows : pt'[w].kind \in Kinds
      BY <2>9 DEF TableFine, Entries
    <3>2. usage' \in [Chunks -> [bank : AllBanks, type : {Unused, Misses, Dbr, Pbr, Resident}]]
      BY <2>11 DEF Uses
    <3> QED BY <1>1, <1>3, <1>4, <1>5, <2>1, <2>10, <3>1, <3>2 DEF TypeOK
  <2>13. TableFine(pt)' /\ SpeedFine(pt, fast)'
    BY <2>9, <1>3 DEF TableFine, SpeedFine
  <2>14. PointersFine(pt, status)'
    <3> SUFFICES ASSUME NEW b \in CanonBanks, NEW w \in WindowsOf(b)
                 PROVE IF status'[b] # None THEN pt'[w].kind = "rom" /\ pt'[w].at = status'[b]
                       ELSE pt'[w].kind # "rom"
      BY <1>4 DEF PointersFine
    <3>1. w \in Windows /\ b \in RomBanks
      BY <1>1, WindowPlace, CanonRange
    <3>2. CASE b = new
      <4>1. pt'[w] = Entry("rom", cur, SlowAt(w)) /\ status'[b] = cur
        BY <2>9, <2>10, <3>1, <3>2
      <4> QED BY <4>1, <2>3 DEF Entry
    <3>3. CASE b # new
      <4>1. w \notin WindowsOf(new)
        BY <1>1, <2>2, <3>3, OneOwner
      <4>2. pt'[w] = table[w]
        BY <2>9, <3>1, <4>1
      <4>3. CASE held /\ b = old
        <5>1. table[w].kind = "file"
          BY <2>5, <2>t, <3>1, <4>3
        <5>2. status'[b] = None
          BY <2>10, <4>3
        <5> QED BY <4>2, <5>1, <5>2
      <4>4. CASE ~(held /\ b = old)
        <5>1. ~(held /\ w \in WindowsOf(old))
          BY <1>1, <2>6, <4>4, OneOwner
        <5>2. table[w] = pt[w]
          BY <2>5, <2>t, <3>1, <5>1
        <5>3. status'[b] = status[b]
          BY <2>10, <3>1, <3>3, <4>4
        <5> QED BY <1>1, <4>2, <5>2, <5>3 DEF PointersFine
      <4> QED BY <4>3, <4>4
    <3> QED BY <3>2, <3>3
  <2>15. CacheInverse'
    <3>1. ASSUME NEW b \in RomBanks, status'[b] # None
          PROVE usage'[status'[b]].bank = b /\ usage'[status'[b]].type # Unused
      <4>1. CASE b = new
        BY <2>2, <2>8, <2>10, <2>11, <4>1 DEF Unused
      <4>2. CASE b # new
        <5>1. ~(held /\ b = old)
          BY <2>10, <3>1
        <5>2. status'[b] = status[b] /\ status[b] \in Chunks
          BY <2>10, <3>1, <4>2, <5>1, <1>2
        <5>3. usage[status[b]].bank = b /\ usage[status[b]].type # Unused
          BY <1>1, <3>1, <5>2 DEF CacheInverse
        <5>4. status[b] # cur
          BY <2>7, <2>8, <5>1, <5>3
        <5> QED BY <2>11, <5>2, <5>3, <5>4
      <4> QED BY <4>1, <4>2
    <3>2. ASSUME NEW d \in Chunks, usage'[d].type # Unused
          PROVE status'[usage'[d].bank] = d
      <4>1. CASE d = cur
        BY <2>8, <2>10, <2>11, <4>1
      <4>2. CASE d # cur
        <5>1. usage'[d] = usage[d] /\ usage[d].bank \in RomBanks
          BY <1>1, <2>11, <3>2, <4>2, CanonRange DEF BanksHeld
        <5>2. status[usage[d].bank] = d
          BY <1>1, <3>2, <5>1 DEF CacheInverse
        <5>3. d # None
          BY <1>1, <1>2, Chunky
        <5>4. usage[d].bank # new /\ ~(held /\ usage[d].bank = old)
          BY <2>2, <2>6, <4>2, <5>2, <5>3
        <5> QED BY <2>10, <5>1, <5>2, <5>4
      <4> QED BY <4>1, <4>2
    <3> QED BY <3>1, <3>2, <1>4 DEF CacheInverse
  <2>16. BanksHeld'
    <3>1. usage'[0] = [bank |-> FirstBank, type |-> Resident]
      <4>1. 0 \in Chunks
        BY <1>1, Chunky
      <4> QED BY <4>1, <1>1, <2>3, <2>11 DEF BanksHeld
    <3>2. \A d \in Chunks : usage'[d].type # Unused => usage'[d].bank \in CanonBanks
      <4> SUFFICES ASSUME NEW d \in Chunks, usage'[d].type # Unused
                   PROVE usage'[d].bank \in CanonBanks
        OBVIOUS
      <4>1. CASE d = cur
        BY <2>2, <2>8, <2>11, <4>1
      <4>2. CASE d # cur
        BY <1>1, <2>11, <4>2 DEF BanksHeld
      <4> QED BY <4>1, <4>2
    <3> QED BY <3>1, <3>2, <2>1, <1>4 DEF BanksHeld
  <2>17. CodeHeld' /\ CodeAsked'
    <3>1. CodeAsked'
      BY <2>1 DEF CodeAsked
    <3>2. CASE pbr \in {0, WramBank, WramBank + 1}
      BY <3>1, <3>2, <1>3 DEF CodeHeld
    <3>3. CASE pbr \notin {0, WramBank, WramBank + 1}
      <4> DEFINE b == Canon(pbr)
                 c == status[b]
      <4>1. b \in RomBanks
            /\ \/ c # None /\ usage[c].type >= Pbr
               \/ req.bank = b /\ req.type = Pbr
        BY <1>1, <3>3 DEF CodeHeld
      <4> HIDE DEF b
      <4>2. CASE req.bank = b /\ req.type = Pbr
        <5>1. status'[b] = cur /\ usage'[cur].type = Pbr
          BY <2>8, <2>10, <2>11, <4>2
        <5>2. status'[b] # None /\ usage'[status'[b]].type >= Pbr
          BY <5>1, <2>3 DEF Pbr
        <5> QED BY <3>1, <4>1, <5>2, <1>c DEF CodeHeld, b
      <4>3. CASE c # None /\ usage[c].type >= Pbr /\ ~(req.bank = b /\ req.type = Pbr)
        <5>1. c \in Chunks /\ usage[c].type \in {129, 255}
          BY <1>2, <4>1, <4>3 DEF Pbr
        <5>2. req.type # Pbr
          BY <1>1, <1>3, <4>3 DEF CodeAsked, b
        <5>3. c # cur
          BY <1>7, <5>1, <5>2, <2>2 DEF CanRemap, Pbr, Dbr, Resident
        <5>4. b # new
          BY <2>2, <4>3
        <5>5. ~(held /\ b = old)
          BY <2>6, <5>3
        <5>6. status'[b] = c /\ usage'[c] = usage[c]
          BY <2>10, <2>11, <4>1, <5>1, <5>3, <5>4, <5>5
        <5> QED BY <3>1, <4>1, <4>3, <5>6, <1>c DEF CodeHeld, b
      <4> QED BY <4>1, <4>2, <4>3
    <3> QED BY <3>2, <3>3
  <2> QED BY <1>1, <1>4, <2>12, <2>13, <2>14, <2>15, <2>16, <2>17 DEF RomInv
<1> QED BY <1>6, <1>7

(***************************************************************************)
(* The theorems                                                            *)
(***************************************************************************)

LEMMA NextInv == BanksFit /\ RomInv /\ [Next]_vars => RomInv'
<1> SUFFICES ASSUME BanksFit, RomInv, [Next]_vars PROVE RomInv'
  OBVIOUS
<1>1. CASE Search
  BY <1>1, SearchKeeps
<1>2. CASE Interrupt
  BY <1>2, InterruptKeeps
<1>3. CASE WriteSpeed
  BY <1>3, SpeedKeeps
<1>4. ASSUME NEW b \in CodeBanks, SetPBR(b) PROVE RomInv'
  BY <1>4, SetPBRKeeps
<1>5. ASSUME NEW b \in DataBanks, PLB(b) \/ BlockMove(b) PROVE RomInv'
  BY <1>5, PLBKeeps
<1>6. ASSUME NEW w \in ReadBanks \X {0, 1}, ReadUncached(w) PROVE RomInv'
  BY <1>6, ReadKeeps
<1>7. CASE UNCHANGED vars
  <2>1. CartOK /\ TypeOK /\ TableFine(pt) /\ BanksHeld /\ CacheInverse
        /\ PointersFine(pt, status) /\ SpeedFine(pt, fast) /\ CodeHeld /\ CodeAsked
    BY DEF RomInv
  <2>2. UNCHANGED <<cart, pt, usage, status, cur, misses, fast, pbr, dbr, req>>
    BY <1>7 DEF vars
  <2>3. /\ CartOK' = CartOK /\ CanonBanks' = CanonBanks /\ Chunks' = Chunks
        /\ (\A k : Canon(k)' = Canon(k) /\ WindowsOf(k)' = WindowsOf(k)) /\ FirstBank' = FirstBank
    BY <2>2, CartSame
  <2>4. TypeOK'
    BY <2>1, <2>2, <2>3 DEF TypeOK
  <2>5. TableFine(pt)' /\ SpeedFine(pt, fast)'
    BY <2>1, <2>2 DEF TableFine, SpeedFine
  <2>6. PointersFine(pt, status)'
    BY <2>1, <2>2, <2>3 DEF PointersFine
  <2>7. BanksHeld' /\ CacheInverse'
    BY <2>1, <2>2, <2>3 DEF BanksHeld, CacheInverse
  <2>8. Canon(pbr)' = Canon(pbr)
    BY <2>2 DEF Canon, NumBanks, HiROM
  <2>9. CodeHeld' /\ CodeAsked'
    BY <2>1, <2>2, <2>8 DEF CodeHeld, CodeAsked
  <2> QED BY <2>1, <2>3, <2>4, <2>5, <2>6, <2>7, <2>9 DEF RomInv
<1> QED BY <1>1, <1>2, <1>3, <1>4, <1>5, <1>6, <1>7 DEF Next

(* No step changes the cartridge.                                          *)
LEMMA CartStays == [Next]_vars => cart' = cart
  BY DEF Next, vars, Search, Interrupt, WriteSpeed, SetPBR, PLB, BlockMove, ReadUncached

(* The invariant holds of every cartridge whose banks fit the tables,      *)
(* whatever banks the game uses.                                           *)
THEOREM RomInvariance == Spec => [](BanksFit => RomInv)
<1>1. Init => (BanksFit => RomInv)
  BY InitInv
<1>2. (BanksFit => RomInv) /\ [Next]_vars => (BanksFit => RomInv)'
  <2> SUFFICES ASSUME BanksFit => RomInv, [Next]_vars, BanksFit' PROVE RomInv'
    OBVIOUS
  <2>1. BanksFit
    BY CartStays, CartSame
  <2> QED BY <2>1, NextInv
<1> QED BY <1>1, <1>2, PTL DEF Spec

(* The tables of the cache and the pointers the CPU reads through agree,   *)
(* for every cartridge whose banks fit the tables: a window of a cached    *)
(* bank leads to its chunk, in every mirror, and no window leads to a      *)
(* chunk that another bank has taken; the speed of the upper windows is    *)
(* the one selected last (rom.c:302-358).                                  *)
THEOREM CachesAreSound == Spec => []CacheSound
<1>1. (BanksFit => RomInv) => CacheSound
  <2> SUFFICES ASSUME BanksFit, RomInv PROVE TypeOK /\ CacheInverse /\ PointersRight
    BY DEF CacheSound
  <2>1. /\ CartOK /\ TypeOK /\ CacheInverse /\ PointersFine(pt, status) /\ SpeedFine(pt, fast)
    BY DEF RomInv
  <2>2. {Canon(k) : k \in AllBanks} \subseteq CanonBanks
    BY <2>1, FitBank
  <2>3. PointersRight
    BY <2>1, <2>2 DEF PointersRight, PointersFine, SpeedFine
  <2> QED BY <2>1, <2>3
<1> QED BY <1>1, RomInvariance, PTL

(* The program bank is in memory whenever the CPU runs a cartridge whose   *)
(* banks fit the tables: what is cached for data since has not taken its   *)
(* chunk (cpu.s:274, rom.c:287).                                           *)
THEOREM CodeStaysCached == Spec => []CodeCached
<1>1. (BanksFit => RomInv) => CodeCached
  <2> SUFFICES ASSUME RomInv, req = None PROVE pt[<<pbr, 1>>].kind \in {"rom", "wram"}
    BY DEF CodeCached, PrefetchCached
  <2>1. CartOK /\ TypeOK /\ TableFine(pt) /\ BanksHeld /\ CacheInverse
        /\ PointersFine(pt, status) /\ CodeHeld
    BY DEF RomInv
  <2>2. pbr \in 0 .. 2 * Banks - 1
    BY <2>1 DEF TypeOK
  <2>3. CASE pbr \in {WramBank, WramBank + 1}
    BY <2>1, <2>3 DEF TableFine
  <2>4. ASSUME NEW b \in CanonBanks, <<pbr, 1>> \in WindowsOf(b), status[b] # None
        PROVE pt[<<pbr, 1>>].kind = "rom"
    BY <2>1, <2>4 DEF PointersFine
  <2>5. CASE pbr = 0
    <3>1. 0 \in Chunks /\ usage[0] = [bank |-> FirstBank, type |-> Resident]
      BY <2>1, Chunky DEF BanksHeld
    <3>2. status[FirstBank] = 0 /\ FirstBank \in CanonBanks
      BY <2>1, <3>1 DEF BanksHeld, CacheInverse, Resident, Unused
    <3>3. Canon(0) = FirstBank /\ 0 \notin {WramBank, WramBank + 1}
      <4>1. NumBanks \in Nat \ {0} /\ 0 \in 0 .. NumBanks - 1 /\ Half >= 4
            /\ (HiROM => FirstBank = Half) /\ (~HiROM => FirstBank = 0)
            /\ WramBank = Banks - 2 /\ Banks = 2 * Half /\ Half \in Nat
        BY <2>1, Geometry
      <4>2. 0 % NumBanks = 0
        BY <4>1, SmallRemainder
      <4> QED BY <4>1, <4>2 DEF Canon
    <3>4. FirstBank \in RomBanks
      BY <2>1, <3>2, CanonRange
    <3>5. <<0, 1>> \in WindowsOf(FirstBank)
      BY <2>1, <2>2, <2>5, <3>3, <3>4, CodeWindow
    <3>6. 0 # None
      BY RomCacheAssumption
    <3> QED BY <2>4, <2>5, <3>2, <3>5, <3>6
  <2>6. CASE pbr \notin {0, WramBank, WramBank + 1}
    <3>1. Canon(pbr) \in RomBanks /\ status[Canon(pbr)] # None
      BY <2>1, <2>6 DEF CodeHeld
    <3>2. Canon(pbr) \in CanonBanks
      BY <2>2, <3>1 DEF CanonBanks
    <3>3. <<pbr, 1>> \in WindowsOf(Canon(pbr))
      BY <2>1, <2>2, <2>6, <3>1, CodeWindow
    <3> QED BY <2>4, <3>1, <3>2, <3>3
  <2> QED BY <2>3, <2>5, <2>6
<1> QED BY <1>1, RomInvariance, PTL
=============================================================================
