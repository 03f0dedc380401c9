---------------------------- MODULE SnesDmaProofs ----------------------------
(***************************************************************************)
(* Proofs about SnesDma, for words, tables, channels and games of any size *)
(* that SnesDmaAssumption allows: general transfers move the bytes they    *)
(* should, and HDMA implements HdmaTable.                                  *)
(***************************************************************************)
EXTENDS SnesDma, TLAPS

-----------------------------------------------------------------------------
(* The invariants.                                                         *)

(* How far a general transfer is from its start after n bytes, and how     *)
(* many bytes it has.                                                      *)
Distance(step, n) == IF step = "up" THEN n ELSE IF step = "down" THEN -n ELSE 0
Total(d) == IF d.length = 0 THEN Size ELSE d.length

(* The locals of DMA_Enable are functions of the bytes moved so far.       *)
TransferAt(d, ch) ==
  LET n == Len(Pattern(ch.mode))
  IN  /\ d.memaddr = (d.from + Distance(ch.step, d.sent)) % Size
      /\ d.i = (d.sent % n) + 1
      /\ d.bytecount = (d.length - d.sent) % Size
      /\ d.sent <= Total(d)
      /\ d.sent > 0 =>
           d.moved = <<(d.from + Distance(ch.step, d.sent - 1)) % Size,
                       ch.port + Pattern(ch.mode)[((d.sent - 1) % n) + 1]>>
TransferInv == dma # None => TransferAt(dma, chan[dma.c])

(* How many units of the entry have been transferred at a position.        *)
DoneAt(t, p) ==
  IF Hdma!Repeats(t.entries[p.entry].byte) THEN p.line ELSE IF p.line > 0 THEN 1 ELSE 0
Place(t, p) ==
  /\ p.entry \in 1 .. Len(t.entries)
  /\ p.line \in 0 .. Hdma!LinesOf(t.entries[p.entry].byte) - 1
  /\ p = [entry |-> p.entry, line |-> p.line]

(* The registers of a channel that is at the place p of its table; the     *)
(* address of the units of an indirect table is as far as they are.        *)
Registers(ch, t, p) ==
  /\ At(ch, t, p)
  /\ t.indirect =>
       ch.das = (t.entries[p.entry].pointer + DoneAt(t, p) * Hdma!UnitSize(t)) % Size
Stopped(ch) == ch.ntr = 0 /\ ~ch.pause
Placed(ch, t) == Stopped(ch) \/ \E p : Place(t, p) /\ Registers(ch, t, p)

ChannelInv(ch, t) ==
  /\ ch.mode = t.mode /\ ch.port = t.port /\ ch.a1 = t.at[1]
  /\ Hdma!Laid(t) /\ (t.indirect => t.mode # 0)
  /\ Placed(ch, t)
HdmaInv ==
  /\ DOMAIN tab = HdmaChans
  /\ \A c \in HdmaChans : ChannelInv(chan[c], tab[c])

-----------------------------------------------------------------------------
(* Remainders.                                                             *)

LEMMA DivMod ==
  ASSUME NEW n \in Nat \ {0}, NEW a \in Int
  PROVE  /\ a \div n \in Int /\ a % n \in 0 .. n - 1 /\ a % n \in Int
         /\ a = (n * (a \div n)) + (a % n)
  OBVIOUS

LEMMA DivUnique ==
  ASSUME NEW n \in Nat \ {0}, NEW q \in Int, NEW r \in Int, 0 <= r, r < n
  PROVE  ((n * q) + r) % n = r
  OBVIOUS

LEMMA Small ==
  ASSUME NEW n \in Nat \ {0}, NEW r \in Int, 0 <= r, r < n
  PROVE  r % n = r
  OBVIOUS

(* A remainder may be taken at any point of a sum.                         *)
LEMMA ModAdd ==
  ASSUME NEW n \in Nat \ {0}, NEW a \in Int, NEW b \in Int
  PROVE  ((a % n) + b) % n = (a + b) % n
<1> DEFINE s == (a % n) + b
<1>1. /\ a \div n \in Int /\ a % n \in Int /\ a = (n * (a \div n)) + (a % n)
  BY DivMod
<1>2. s \in Int
  BY <1>1
<1> HIDE DEF s
<1>3. s \div n \in Int /\ s % n \in 0 .. n - 1 /\ s = (n * (s \div n)) + (s % n)
  BY <1>2, DivMod
<1> DEFINE p == a \div n
           q == s \div n
           r == s % n
<1> HIDE DEF p, q, r
<1>4. p \in Int /\ q \in Int /\ r \in Int /\ 0 <= r /\ r < n
  BY <1>1, <1>3 DEF p, q, r
<1>5. a + b = (n * p) + s
  BY <1>1 DEF p, s
<1>6. s = (n * q) + r
  BY <1>3 DEF q, r
<1>7. n * p \in Int /\ n * q \in Int /\ (n * p) + (n * q) = n * (p + q)
  BY <1>4
<1>8. a + b = (n * (p + q)) + r
  BY <1>4, <1>5, <1>6, <1>7
<1>9. p + q \in Int
  BY <1>4
<1>10. (a + b) % n = r
  BY <1>4, <1>8, <1>9, DivUnique
<1> QED
  BY <1>10 DEF r, s

(* Equal sums have equal parts.                                            *)
LEMMA ModCancel ==
  ASSUME NEW n \in Nat \ {0}, NEW a \in Int, NEW b \in Int, NEW c \in Int,
         (a + c) % n = (b + c) % n
  PROVE  a % n = b % n
<1>1. a + c \in Int /\ b + c \in Int /\ -c \in Int
  OBVIOUS
<1>2. (((a + c) % n) + (-c)) % n = ((a + c) + (-c)) % n
  BY <1>1, ModAdd
<1>3. (((b + c) % n) + (-c)) % n = ((b + c) + (-c)) % n
  BY <1>1, ModAdd
<1>4. (a + c) + (-c) = a /\ (b + c) + (-c) = b
  OBVIOUS
<1> QED
  BY <1>2, <1>3, <1>4

(* The remainder of the next number.                                       *)
LEMMA ModNext ==
  ASSUME NEW n \in Nat \ {0}, NEW a \in Int
  PROVE  (a + 1) % n = IF a % n = n - 1 THEN 0 ELSE (a % n) + 1
<1>1. a % n \in 0 .. n - 1 /\ a % n \in Int
  BY DivMod
<1>2. ((a % n) + 1) % n = (a + 1) % n
  <2>1. 1 \in Int
    OBVIOUS
  <2> QED
    BY <2>1, ModAdd
<1>3. CASE a % n = n - 1
  <2>1. (n * 1) + 0 = (a % n) + 1
    BY <1>1, <1>3
  <2>2. ((n * 1) + 0) % n = 0
    BY DivUnique
  <2> QED
    BY <1>2, <1>3, <2>1, <2>2
<1>4. CASE a % n # n - 1
  <2>1. 0 <= (a % n) + 1 /\ (a % n) + 1 < n /\ (a % n) + 1 \in Int
    BY <1>1, <1>4
  <2>2. ((a % n) + 1) % n = (a % n) + 1
    BY <2>1, Small
  <2> QED
    BY <1>2, <1>4, <2>2
<1> QED
  BY <1>3, <1>4

(* The units of the modes.                                                 *)
LEMMA Patterns ==
  ASSUME NEW mode \in 0 .. 7
  PROVE  /\ Len(Pattern(mode)) \in {1, 2, 4} /\ (mode = 0 => Len(Pattern(mode)) = 1)
         /\ \A i \in 1 .. Len(Pattern(mode)) : Pattern(mode)[i] \in Nat
<1> DEFINE p == Pattern(mode)
<1>1. /\ mode = 0 => p = <<0>>
      /\ mode = 1 => p = <<0, 1>>
      /\ mode \in {2, 6} => p = <<0, 0>>
      /\ mode \in {3, 7} => p = <<0, 0, 1, 1>>
      /\ mode = 4 => p = <<0, 1, 2, 3>>
      /\ mode = 5 => p = <<0, 1, 0, 1>>
  BY DEF Pattern, Hdma!Pattern
<1> HIDE DEF p
<1>2. CASE mode = 0
  <2>1. Len(p) = 1 /\ p[1] = 0
    BY <1>1, <1>2
  <2> QED
    BY <1>2, <2>1 DEF p
<1>3. CASE mode \in {1, 2, 6}
  <2>1. Len(p) = 2 /\ p[1] \in Nat /\ p[2] \in Nat
    BY <1>1, <1>3
  <2> QED
    BY <1>3, <2>1 DEF p
<1>4. CASE mode \in {3, 4, 5, 7}
  <2>1. Len(p) = 4
    BY <1>1, <1>4
  <2>2. p[1] \in Nat /\ p[2] \in Nat /\ p[3] \in Nat /\ p[4] \in Nat
    BY <1>1, <1>4
  <2> QED
    BY <1>4, <2>1, <2>2 DEF p
<1> QED
  BY <1>2, <1>3, <1>4

LEMMA Constants ==
  /\ Size \in Nat \ {0} /\ 1 < Size /\ RepeatBit \in Nat /\ 1 < RepeatBit
  /\ HdmaChans \cap DmaChans = {} /\ Chans = HdmaChans \cup DmaChans
  /\ HdmaChans \subseteq Nat /\ DmaChans \subseteq Nat
  /\ Height \in Nat /\ TotalLines \in Nat /\ MaxStarts \in Nat
  BY SnesDmaAssumption DEF Chans

-----------------------------------------------------------------------------
(* General transfers.                                                      *)

LEMMA FirstIn ==
  ASSUME NEW S \in SUBSET DmaChans, S # {}
  PROVE  First(S) \in S
<1>1. S \subseteq 0 .. 7
  BY SnesDmaAssumption
<1>2. \E c \in S : \A d \in S : c <= d
  <2> SUFFICES ASSUME \A c \in S : \E d \in S : d < c PROVE FALSE
    BY <1>1
  <2>1. 0 \notin S
    BY <1>1
  <2>2. 1 \notin S /\ 2 \notin S
    BY <1>1, <2>1
  <2>3. 3 \notin S /\ 4 \notin S
    BY <1>1, <2>1, <2>2
  <2>4. 5 \notin S /\ 6 \notin S
    BY <1>1, <2>1, <2>2, <2>3
  <2>5. 7 \notin S
    BY <1>1, <2>1, <2>2, <2>3, <2>4
  <2>6. PICK c \in S : TRUE
    OBVIOUS
  <2>7. c \in 0 .. 7
    BY <1>1
  <2>8. c \in {0, 1, 2, 3, 4, 5, 6, 7}
    BY <2>7
  <2> QED
    BY <2>1, <2>2, <2>3, <2>4, <2>5, <2>6, <2>8
<1> QED
  BY <1>2 DEF First

(* A transfer that begins is at its start.                                 *)
LEMMA Begins ==
  ASSUME NEW c \in DmaChans, NEW todo \in SUBSET DmaChans, c \notin todo,
         chan \in [Chans -> Channel]
  PROVE  /\ Begin(c, todo) \in Transfer /\ Begin(c, todo).c = c
         /\ Begin(c, todo).todo = todo
         /\ Begin(c, todo).i <= Len(Pattern(chan[c].mode))
         /\ TransferAt(Begin(c, todo), chan[c])
<1> DEFINE ch == chan[c]
           d == Begin(c, todo)
           n == Len(Pattern(ch.mode))
<1>1. /\ ch \in Channel /\ ch.a1 \in 0 .. Size - 1 /\ ch.das \in 0 .. Size - 1 /\ ch.mode \in 0 .. 7
      /\ Size \in Nat \ {0}
  BY Constants DEF Channel
<1>2. n \in {1, 2, 4}
  BY <1>1, Patterns
<1>3. /\ d.c = c /\ d.todo = todo /\ d.memaddr = ch.a1 /\ d.bytecount = ch.das /\ d.i = 1
      /\ d.from = ch.a1 /\ d.length = ch.das /\ d.sent = 0 /\ d.moved = None
  BY DEF Begin
<1>4. d \in Transfer
  BY <1>1 DEF Begin, Transfer
<1>5. Distance(ch.step, 0) = 0
  <2>1. -0 = 0
    <3> DEFINE y == -0
    <3>1. y \in Int /\ 0 + y = 0
      OBVIOUS
    <3> HIDE DEF y
    <3>2. y = 0
      BY <3>1
    <3> QED
      BY <3>2 DEF y
  <2>2. ch.step \in {"up", "down", "fixed"}
    BY <1>1 DEF Channel
  <2> HIDE DEF ch
  <2>3. CASE ch.step = "up"
    BY <2>3 DEF Distance
  <2>4. CASE ch.step = "down"
    BY <2>1, <2>4 DEF Distance
  <2>5. CASE ch.step = "fixed"
    BY <2>5 DEF Distance
  <2> QED
    BY <2>2, <2>3, <2>4, <2>5
<1>6. ch.a1 % Size = ch.a1 /\ ch.das % Size = ch.das
  BY <1>1, Small
<1>7. 0 % n = 0
  <2>1. n \in Nat \ {0} /\ 0 < n /\ 0 \in Int
    BY <1>2, SMTT(30)
  <2> HIDE DEF n
  <2> QED
    BY <2>1, Small
<1>8. 0 <= Total(d)
  BY <1>1, <1>3 DEF Total
<1> HIDE DEF ch, d, n
<1>9. ch.a1 + 0 = ch.a1 /\ ch.das - 0 = ch.das
  BY <1>1
<1>10. TransferAt(d, ch)
  BY <1>3, <1>5, <1>6, <1>7, <1>8, <1>9 DEF TransferAt, n
<1> QED
  BY <1>2, <1>3, <1>4, <1>10 DEF ch, d, n

(* What is left of a transfer has wrapped to 0 exactly when it is done.    *)
LEMMA Done ==
  ASSUME NEW d \in Transfer, NEW ch \in Channel, TransferAt(d, ch), d.sent > 0
  PROVE  Finished(d) <=> d.sent = Total(d)
<1>1. /\ d.sent \in Nat /\ d.length \in 0 .. Size - 1 /\ d.sent <= Total(d)
      /\ d.bytecount = (d.length - d.sent) % Size /\ Size \in Nat \ {0}
      /\ 0 \in Int /\ -1 \in Int /\ 0 < Size
  BY Constants DEF Transfer, TransferAt
<1>2. CASE d.length = 0
  <2>1. CASE d.sent = Size
    <3>1. (Size * (-1)) + 0 = d.length - d.sent
      BY <1>1, <1>2, <2>1
    <3>2. ((Size * (-1)) + 0) % Size = 0
      BY <1>1, DivUnique, SMTT(30)
    <3> QED
      BY <1>1, <1>2, <2>1, <3>1, <3>2 DEF Finished, Total
  <2>2. CASE d.sent < Size
    <3>1. (Size * (-1)) + (Size - d.sent) = d.length - d.sent /\ Size - d.sent \in Int
          /\ 0 <= Size - d.sent /\ Size - d.sent < Size
      BY <1>1, <1>2, <2>2
    <3>2. ((Size * (-1)) + (Size - d.sent)) % Size = Size - d.sent
      BY <1>1, <3>1, DivUnique
    <3> QED
      BY <1>1, <1>2, <2>2, <3>1, <3>2 DEF Finished, Total
  <2> QED
    BY <1>1, <1>2, <2>1, <2>2 DEF Total
<1>3. CASE d.length # 0
  <2>1. 0 <= d.length - d.sent /\ d.length - d.sent < Size /\ d.length - d.sent \in Int
    BY <1>1, <1>3 DEF Total
  <2>2. d.bytecount = d.length - d.sent
    BY <1>1, <2>1, Small
  <2> QED
    BY <1>1, <1>3, <2>2 DEF Finished, Total
<1> QED
  BY <1>2, <1>3

(* One byte keeps the locals in step.                                      *)
LEMMA Moves ==
  ASSUME NEW d \in Transfer, NEW ch \in Channel, TransferAt(d, ch),
         d.i <= Len(Pattern(ch.mode)), d.sent = 0 \/ ~Finished(d)
  PROVE  LET e == Moved(d, ch.mode, ch.step, ch.port)
         IN  /\ e \in Transfer /\ e.c = d.c /\ e.todo = d.todo
             /\ e.i <= Len(Pattern(ch.mode)) /\ TransferAt(e, ch)
<1> DEFINE e == Moved(d, ch.mode, ch.step, ch.port)
           n == Len(Pattern(ch.mode))
           at == d.from + Distance(ch.step, d.sent)
           left == d.length - d.sent
<1>1. /\ d.sent \in Nat /\ d.sent \in Int /\ d.length \in 0 .. Size - 1 /\ d.from \in 0 .. Size - 1
      /\ d.memaddr \in 0 .. Size - 1 /\ d.i \in 1 .. 4 /\ d.i <= n
      /\ ch.mode \in 0 .. 7 /\ ch.port \in Nat /\ ch.step \in {"up", "down", "fixed"}
      /\ Size \in Nat \ {0} /\ 1 < Size /\ Size \in Int /\ -1 \in Int /\ 1 \in Int
  BY Constants DEF Transfer, Channel
<1>2. /\ d.memaddr = at % Size /\ d.i = (d.sent % n) + 1 /\ d.bytecount = left % Size
      /\ d.sent <= Total(d)
  BY DEF TransferAt
<1>3. /\ e.c = d.c /\ e.todo = d.todo /\ e.from = d.from /\ e.length = d.length
      /\ e.memaddr = (d.memaddr + Increment(ch.step)) % Size
      /\ e.bytecount = (d.bytecount - 1) % Size
      /\ e.i = IF d.i = n THEN 1 ELSE d.i + 1
      /\ e.sent = d.sent + 1
      /\ e.moved = <<d.memaddr, ch.port + Pattern(ch.mode)[d.i]>>
  BY DEF Moved, Transfer
<1>4. n \in {1, 2, 4} /\ Pattern(ch.mode)[d.i] \in Nat
  <2>1. n \in {1, 2, 4} /\ \A i \in 1 .. n : Pattern(ch.mode)[i] \in Nat
    BY <1>1, Patterns
  <2>2. d.i \in 1 .. n
    BY <1>1, <2>1
  <2> QED
    BY <2>1, <2>2
<1>5. at \in Int /\ left \in Int /\ Increment(ch.step) \in Int
  BY <1>1, SMTT(30) DEF Distance, Increment
<1>6. d.sent < Total(d)
  <2>1. CASE d.sent = 0
    BY <1>1, <2>1 DEF Total
  <2>2. CASE d.sent # 0
    <3>1. d.sent > 0 /\ ~Finished(d)
      BY <1>1, <2>2
    <3>2. d.sent # Total(d)
      BY <3>1, Done
    <3>3. Total(d) \in Int
      BY <1>1 DEF Total
    <3> QED
      BY <1>1, <1>2, <3>2, <3>3
  <2> QED
    BY <2>1, <2>2
<1>7. e.memaddr = (e.from + Distance(ch.step, e.sent)) % Size
  <2> HIDE DEF at
  <2>1. Increment(ch.step) \in Int
    BY <1>1 DEF Increment
  <2>2. e.memaddr = (at + Increment(ch.step)) % Size
    <3> DEFINE x == Increment(ch.step)
    <3>1. x \in Int /\ at \in Int /\ Size \in Nat \ {0}
      BY <1>1, <1>5, <2>1
    <3> HIDE DEF x
    <3>2. ((at % Size) + x) % Size = (at + x) % Size
      BY <3>1, ModAdd
    <3> QED
      BY <1>2, <1>3, <3>2 DEF x
  <2> DEFINE f == d.from
             s == d.sent
  <2>11. e.from = f /\ e.sent = s + 1 /\ f \in Int /\ s \in Int
    BY <1>1, <1>3
  <2>12. at = f + Distance(ch.step, s)
    BY DEF at
  <2> HIDE DEF e, f, s
  <2>3. CASE ch.step = "up"
    BY <2>11, <2>12, <2>2, <2>3 DEF Increment, Distance
  <2>4. CASE ch.step = "fixed"
    BY <1>1, <1>3, <2>2, <2>4 DEF Increment, Distance, at
  <2>5. CASE ch.step = "down"
    <3>1. at + Increment(ch.step) = (at - 1) + Size /\ at - 1 \in Int
      BY <1>1, <1>5, <2>5 DEF Increment
    <3>2. (Size * 1) + 0 = Size
      BY <1>1
    <3>3. Size % Size = 0
      BY <1>1, <3>2, DivUnique
    <3>4. ((Size % Size) + (at - 1)) % Size = (Size + (at - 1)) % Size
      BY <1>1, <3>1, ModAdd
    <3>5. Size + (at - 1) = (at - 1) + Size /\ 0 + (at - 1) = at - 1
      BY <1>1, <1>5
    <3>6. e.memaddr = (at - 1) % Size
      BY <2>2, <3>1, <3>3, <3>4, <3>5
    <3>7. at - 1 = e.from + Distance(ch.step, e.sent)
      BY <2>11, <2>12, <2>5 DEF Distance
    <3> QED
      BY <3>6, <3>7
  <2> QED
    BY <1>1, <2>3, <2>4, <2>5
<1>8. e.i = (e.sent % n) + 1 /\ e.i \in 1 .. n
  <2>1. n \in Nat \ {0} /\ d.sent \in Int
    BY <1>1, <1>4
  <2>2. (d.sent + 1) % n = IF d.sent % n = n - 1 THEN 0 ELSE (d.sent % n) + 1
    BY <2>1, ModNext
  <2>3. d.sent % n \in 0 .. n - 1
    BY <2>1, DivMod
  <2> HIDE DEF n
  <2> QED
    BY <1>2, <1>3, <2>1, <2>2, <2>3
<1>9. e.bytecount = (e.length - e.sent) % Size
  <2>1. ((left % Size) + (-1)) % Size = (left + (-1)) % Size
    BY <1>1, <1>5, ModAdd
  <2>2. left + (-1) = e.length - e.sent
    BY <1>1, <1>3
  <2>3. left % Size \in Int
    BY <1>1, <1>5, DivMod
  <2>4. (left % Size) + (-1) = d.bytecount - 1
    BY <1>2, <2>3
  <2> QED
    BY <1>3, <2>1, <2>2, <2>4
<1>10. e.sent <= Total(e) /\ Total(e) <= Size /\ Total(e) \in Nat
  BY <1>1, <1>3, <1>6 DEF Total
<1>11. e.sent - 1 = d.sent
  BY <1>1, <1>3
<1>12. e.moved = <<(e.from + Distance(ch.step, e.sent - 1)) % Size,
                   ch.port + Pattern(ch.mode)[((e.sent - 1) % n) + 1]>>
  BY <1>2, <1>3, <1>11
<1>13. TransferAt(e, ch)
  <2> HIDE DEF e
  <2> QED
    BY <1>7, <1>8, <1>9, <1>10, <1>12 DEF TransferAt
<1>14. e \in Transfer
  <2>1. e.memaddr \in 0 .. Size - 1
    <3> DEFINE x == d.memaddr + Increment(ch.step)
    <3>1. x \in Int
      BY <1>1, <1>5
    <3> HIDE DEF x
    <3>2. x % Size \in 0 .. Size - 1
      BY <1>1, <3>1, DivMod
    <3> QED
      BY <1>3, <3>2 DEF x
  <2>2. e.bytecount \in 0 .. Size - 1
    <3>1. d.bytecount - 1 \in Int
      BY DEF Transfer
    <3> QED
      BY <1>1, <1>3, <3>1, DivMod
  <2>3. e.moved \in (0 .. Size - 1) \X Nat
    <3>1. ch.port + Pattern(ch.mode)[d.i] \in Nat
      BY <1>1, <1>4
    <3> QED
      BY <1>1, <1>3, <3>1
  <2>4. e.i \in 1 .. 4
    <3> HIDE DEF e, n
    <3>1. n <= 4 /\ n \in Nat
      BY <1>4
    <3> QED
      BY <1>8, <3>1
  <2>5. e.sent \in 0 .. Size
    <3>1. d.sent \in Nat /\ e.sent = d.sent + 1
      BY <1>1, <1>3
    <3>2. e.sent <= Size
      <4> HIDE DEF e
      <4>1. e.sent \in Nat /\ Total(e) \in Nat
        BY <1>10, <3>1
      <4> QED
        BY <1>1, <1>10, <4>1
    <3> HIDE DEF e
    <3> QED
      BY <1>1, <3>1, <3>2
  <2>6. e = [d EXCEPT !.memaddr = e.memaddr, !.bytecount = e.bytecount, !.i = e.i,
                      !.sent = e.sent, !.moved = e.moved]
    BY DEF Moved, Transfer
  <2> HIDE DEF e
  <2> QED
    BY <2>1, <2>2, <2>3, <2>4, <2>5, <2>6 DEF Transfer
<1> HIDE DEF e
<1>15. /\ e \in Transfer /\ e.c = d.c /\ e.todo = d.todo
       /\ e.i <= Len(Pattern(ch.mode)) /\ TransferAt(e, ch)
  BY <1>3, <1>4, <1>8, <1>13, <1>14
<1> QED
  BY <1>15 DEF e

-----------------------------------------------------------------------------
(* The registers of HDMA stay in their ranges.                             *)

(* The bytes of a table in memory are bytes, its pointers are words.       *)
LEMMA Reads ==
  ASSUME NEW t, Hdma!Laid(t), NEW at
  PROVE  ByteAt(t, at) \in 0 .. 2 * RepeatBit - 1 /\ WordAfter(t, at) \in 0 .. Size - 1
<1> DEFINE k == CHOOSE k \in EntryThere(t, at) : TRUE
<1>1. RepeatBit \in Nat /\ 1 < RepeatBit /\ Size \in Nat /\ 1 < Size
  BY Constants
<1>2. t.entries \in Seq([byte : 1 .. 2 * RepeatBit - 1, pointer : 0 .. Size - 1])
  BY DEF Hdma!Laid, Hdma!Entries
<1>3. CASE EntryThere(t, at) # {}
  <2>1. k \in 1 .. Len(t.entries)
    BY <1>3 DEF EntryThere
  <2>2. t.entries[k] \in [byte : 1 .. 2 * RepeatBit - 1, pointer : 0 .. Size - 1]
    <3> DEFINE B == [byte : 1 .. 2 * RepeatBit - 1, pointer : 0 .. Size - 1]
               e == t.entries
    <3>1. e \in Seq(B) /\ k \in 1 .. Len(e)
      BY <1>2, <2>1
    <3> HIDE DEF B, e, k
    <3>2. e[k] \in B
      BY <3>1
    <3> QED
      BY <3>2 DEF B, e
  <2>3. ByteAt(t, at) = t.entries[k].byte /\ WordAfter(t, at) = t.entries[k].pointer
    BY <1>3 DEF ByteAt, WordAfter
  <2> HIDE DEF k
  <2> QED
    BY <1>1, <2>2, <2>3
<1>4. CASE EntryThere(t, at) = {}
  BY <1>1, <1>4 DEF ByteAt, WordAfter
<1> QED
  BY <1>3, <1>4

LEMMA NextTyped ==
  ASSUME NEW t, Hdma!Laid(t), NEW ch \in Channel, NEW at \in 0 .. Size - 1
  PROVE  /\ NextEntry(ch, t, at) \in Channel
         /\ [NextEntry(ch, t, at) EXCEPT !.pause = FALSE] \in Channel
<1>1. ByteAt(t, at) \in 0 .. 2 * RepeatBit - 1 /\ WordAfter(t, at) \in 0 .. Size - 1
  BY Reads
<1>2. /\ Size \in Nat \ {0}
      /\ at + 3 \in Int /\ at + 1 \in Int
  BY Constants
<1>3. (at + 3) % Size \in 0 .. Size - 1 /\ (at + 1) % Size \in 0 .. Size - 1
  BY <1>2, DivMod
<1>4. /\ NextEntry(ch, t, at).das \in 0 .. Size - 1 /\ NextEntry(ch, t, at).a2 \in 0 .. Size - 1
      /\ NextEntry(ch, t, at).ntr \in 0 .. 2 * RepeatBit - 1
  BY <1>1, <1>3 DEF NextEntry, Channel
<1> QED
  BY <1>4 DEF NextEntry, Channel

LEMMA UnitTyped ==
  ASSUME NEW t, Hdma!Laid(t), NEW ch \in Channel
  PROVE  AfterUnit(ch, t) \in Channel
<1>1. /\ ch.mode \in 0 .. 7 /\ ch.das \in 0 .. Size - 1 /\ ch.a2 \in 0 .. Size - 1
      /\ Size \in Nat \ {0}
  BY Constants DEF Channel
<1>2. Len(Pattern(ch.mode)) \in {1, 2, 4}
  BY <1>1, Patterns
<1>3. Source(ch, t) \in Int
  BY <1>1 DEF Source
<1>4. MemAfter(ch, t) + 1 \in Int /\ ch.a2 + Len(Pattern(ch.mode)) \in Int
  BY <1>1, <1>2, <1>3 DEF MemAfter
<1>5. /\ (MemAfter(ch, t) + 1) % Size \in 0 .. Size - 1
      /\ (ch.a2 + Len(Pattern(ch.mode))) % Size \in 0 .. Size - 1
  BY <1>1, <1>4, DivMod
<1> QED
  BY <1>5 DEF AfterUnit, Channel

LEMMA CountTyped ==
  ASSUME NEW t, Hdma!Laid(t), NEW ch \in Channel, ch.ntr # 0
  PROVE  CountLine(ch, t) \in Channel
<1>1. /\ ch.ntr \in 0 .. 2 * RepeatBit - 1 /\ ch.a2 \in 0 .. Size - 1
      /\ RepeatBit \in Nat
  BY Constants DEF Channel
<1>2. ch.ntr - 1 \in 0 .. 2 * RepeatBit - 1
  BY <1>1
<1>3. /\ NextEntry(ch, t, ch.a2) \in Channel
      /\ [NextEntry(ch, t, ch.a2) EXCEPT !.pause = FALSE] \in Channel
  BY <1>1, NextTyped
<1>4. /\ [ch EXCEPT !.ntr = ch.ntr - 1, !.pause = TRUE] \in Channel
      /\ [ch EXCEPT !.ntr = ch.ntr - 1] \in Channel
  BY <1>2 DEF Channel
<1> QED
  BY <1>3, <1>4 DEF CountLine

-----------------------------------------------------------------------------
(* Places in a table.                                                      *)

LEMMA Sizes ==
  ASSUME NEW t, Hdma!Laid(t)
  PROVE  /\ Hdma!UnitSize(t) \in {1, 2, 4} /\ Hdma!UnitSize(t) = Len(Pattern(t.mode))
         /\ Len(t.entries) \in Nat /\ t.indirect \in BOOLEAN /\ t.port \in Nat
         /\ t.mode \in 0 .. 7
<1>1. t.mode \in 0 .. 7 /\ t.entries \in Hdma!Entries /\ t.indirect \in BOOLEAN /\ t.port \in Nat
  BY DEF Hdma!Laid
<1>2. Len(Pattern(t.mode)) \in {1, 2, 4}
  BY <1>1, Patterns
<1>3. Hdma!UnitSize(t) = Len(Pattern(t.mode))
  BY DEF Hdma!UnitSize, Pattern
<1>4. Len(t.entries) \in Nat
  BY <1>1 DEF Hdma!Entries
<1> QED
  BY <1>1, <1>2, <1>3, <1>4

LEMMA EntryTyped ==
  ASSUME NEW t, Hdma!Laid(t), NEW k \in 1 .. Len(t.entries)
  PROVE  /\ t.entries[k].byte \in 1 .. 2 * RepeatBit - 1
         /\ t.entries[k].pointer \in 0 .. Size - 1
         /\ t.at[k] \in 0 .. Size - 1 /\ t.at[k + 1] \in 0 .. Size - 1
         /\ t.at[k + 1] = (t.at[k] + Hdma!EntryLength(t, k)) % Size
         /\ Hdma!Extent(t, k) = Hdma!EntryLength(t, k)
<1> DEFINE B == [byte : 1 .. 2 * RepeatBit - 1, pointer : 0 .. Size - 1]
           e == t.entries
           n == Len(e)
<1>1. /\ e \in Seq(B) /\ t.at \in [1 .. n + 1 -> 0 .. Size - 1]
      /\ \A j \in 1 .. n : t.at[j + 1] = (t.at[j] + Hdma!EntryLength(t, j)) % Size
  BY DEF Hdma!Laid, Hdma!Entries
<1>2. n \in Nat /\ k \in 1 .. n
  BY Sizes
<1>3. Hdma!Extent(t, k) = Hdma!EntryLength(t, k)
  BY <1>2 DEF Hdma!Extent
<1> HIDE DEF B, e, n
<1>4. e[k] \in B
  BY <1>1, <1>2 DEF n
<1>5. k \in 1 .. n + 1 /\ k + 1 \in 1 .. n + 1
  BY <1>2
<1>6. t.at[k] \in 0 .. Size - 1 /\ t.at[k + 1] \in 0 .. Size - 1
  BY <1>1, <1>5
<1>7. e[k].byte \in 1 .. 2 * RepeatBit - 1 /\ e[k].pointer \in 0 .. Size - 1
  BY <1>4 DEF B
<1> QED
  BY <1>1, <1>2, <1>3, <1>6, <1>7 DEF e

(* What is not in the same entry is not at the same address.               *)
LEMMA Apart ==
  ASSUME NEW t, Hdma!Laid(t), NEW j \in 1 .. Len(t.entries) + 1, NEW k \in 1 .. Len(t.entries) + 1,
         NEW a \in 0 .. Hdma!Extent(t, j) - 1, NEW b \in 0 .. Hdma!Extent(t, k) - 1,
         (t.at[j] + a) % Size = (t.at[k] + b) % Size
  PROVE  j = k
  BY DEF Hdma!Laid

(* Every entry and the end are at addresses of their own.                  *)
LEMMA Starts ==
  ASSUME NEW t, Hdma!Laid(t), NEW j \in 1 .. Len(t.entries) + 1, NEW k \in 1 .. Len(t.entries) + 1,
         t.at[j] = t.at[k]
  PROVE  j = k
<1> DEFINE L(i) == Hdma!Extent(t, i)
<1>1. \A i \in 1 .. Len(t.entries) + 1 : 0 \in 0 .. L(i) - 1
  <2> TAKE i \in 1 .. Len(t.entries) + 1
  <2>1. CASE i > Len(t.entries)
    BY <2>1 DEF Hdma!Extent
  <2>2. CASE ~(i > Len(t.entries))
    <3>1. Len(t.entries) \in Nat /\ i \in 1 .. Len(t.entries)
      BY <2>2, Sizes
    <3>2. L(i) = Hdma!EntryLength(t, i) /\ t.entries[i].byte \in 1 .. 2 * RepeatBit - 1
      BY <3>1, EntryTyped
    <3>3. Hdma!Units(t.entries[i].byte) \in Nat /\ Hdma!UnitSize(t) \in Nat
      BY <3>2, Sizes, Constants DEF Hdma!Units, Hdma!Repeats, Hdma!LinesOf
    <3>4. Hdma!Units(t.entries[i].byte) * Hdma!UnitSize(t) \in Nat
      BY <3>3
    <3>5. L(i) \in Nat /\ L(i) > 0
      BY <3>2, <3>4 DEF Hdma!EntryLength
    <3> QED
      BY <3>5
  <2> QED
    BY <2>1, <2>2
<1> HIDE DEF L
<1>2. 0 \in 0 .. L(j) - 1 /\ 0 \in 0 .. L(k) - 1
  BY <1>1
<1>3. (t.at[j] + 0) % Size = (t.at[k] + 0) % Size
  OBVIOUS
<1> QED
  BY <1>2, <1>3, Apart DEF L

(* How far the units of an entry are used up at a place in it.             *)
Offset(t, p) == IF t.indirect THEN 2 ELSE DoneAt(t, p) * Hdma!UnitSize(t)

LEMMA AtIs ==
  ASSUME NEW t, NEW ch, NEW p
  PROVE  At(ch, t, p) <=>
           /\ ch.ntr = t.entries[p.entry].byte - p.line
           /\ ch.pause = (p.line > 0 /\ ~Hdma!Repeats(t.entries[p.entry].byte))
           /\ ch.a2 = (t.at[p.entry] + 1 + Offset(t, p)) % Size
  BY DEF At, BytesLeft, Offset, DoneAt

LEMMA Places ==
  ASSUME NEW t, Hdma!Laid(t), NEW p, Place(t, p)
  PROVE  /\ p.entry \in 1 .. Len(t.entries) /\ p.line \in Nat
         /\ t.entries[p.entry].byte \in 1 .. 2 * RepeatBit - 1
         /\ p.line < Hdma!LinesOf(t.entries[p.entry].byte)
         /\ Hdma!LinesOf(t.entries[p.entry].byte) \in Nat
         /\ DoneAt(t, p) \in Nat /\ DoneAt(t, p) <= Hdma!Units(t.entries[p.entry].byte)
         /\ Offset(t, p) \in 0 .. Hdma!Extent(t, p.entry) - 1
<1> DEFINE b == t.entries[p.entry].byte
           u == Hdma!UnitSize(t)
<1>1. p.entry \in 1 .. Len(t.entries) /\ p.line \in 0 .. Hdma!LinesOf(b) - 1
  BY DEF Place
<1>2. /\ b \in 1 .. 2 * RepeatBit - 1 /\ RepeatBit \in Nat
      /\ Hdma!Extent(t, p.entry) = Hdma!EntryLength(t, p.entry)
  BY <1>1, EntryTyped, Constants
<1>3. u \in {1, 2, 4} /\ t.indirect \in BOOLEAN
  BY Sizes
<1> HIDE DEF u
<1>4. Hdma!LinesOf(b) \in Nat
  BY <1>2 DEF Hdma!LinesOf
<1>5. p.line \in Nat /\ p.line < Hdma!LinesOf(b)
  BY <1>1, <1>4
<1>6. /\ DoneAt(t, p) \in Nat /\ DoneAt(t, p) <= Hdma!Units(b) /\ Hdma!Units(b) \in Nat
  BY <1>4, <1>5 DEF DoneAt, Hdma!Units
<1>7. Offset(t, p) \in 0 .. Hdma!Extent(t, p.entry) - 1
  <2> DEFINE d == DoneAt(t, p)
             m == Hdma!Units(b)
  <2> HIDE DEF d, m
  <2>1. CASE t.indirect
    BY <1>2, <2>1 DEF Offset, Hdma!EntryLength
  <2>2. CASE ~t.indirect
    <3>1. Offset(t, p) = d * u /\ Hdma!Extent(t, p.entry) = 1 + (m * u)
      BY <1>2, <2>2 DEF Offset, Hdma!EntryLength, d, m, u
    <3>2. d \in Nat /\ m \in Nat /\ d <= m
      BY <1>6 DEF d, m
    <3>3. d * u \in Nat /\ m * u \in Nat /\ d * u <= m * u
      BY <1>3, <3>2
    <3> QED
      BY <3>1, <3>3
  <2> QED
    BY <1>3, <2>1, <2>2
<1> QED
  BY <1>1, <1>2, <1>4, <1>5, <1>6, <1>7

(* The registers tell the place.                                           *)
LEMMA OnePlace ==
  ASSUME NEW t, Hdma!Laid(t), NEW ch, NEW p, NEW q, Place(t, p), Place(t, q),
         At(ch, t, p), At(ch, t, q)
  PROVE  p = q
<1> DEFINE x == t.at[p.entry] + Offset(t, p)
           y == t.at[q.entry] + Offset(t, q)
<1>1. /\ p.entry \in 1 .. Len(t.entries) /\ p.line \in Nat
      /\ Offset(t, p) \in 0 .. Hdma!Extent(t, p.entry) - 1
      /\ t.entries[p.entry].byte \in 1 .. 2 * RepeatBit - 1
  BY Places
<1>2. /\ q.entry \in 1 .. Len(t.entries) /\ q.line \in Nat
      /\ Offset(t, q) \in 0 .. Hdma!Extent(t, q.entry) - 1
      /\ t.entries[q.entry].byte \in 1 .. 2 * RepeatBit - 1
  BY Places
<1>3. /\ t.at[p.entry] \in 0 .. Size - 1 /\ t.at[q.entry] \in 0 .. Size - 1
      /\ Size \in Nat \ {0} /\ Len(t.entries) \in Nat
  BY <1>1, <1>2, EntryTyped, Constants, Sizes
<1>4. x \in Int /\ y \in Int /\ 1 \in Int
  <2>1. Offset(t, p) \in Int /\ Offset(t, q) \in Int
    BY <1>1, <1>2
  <2> QED
    BY <1>3, <2>1
<1>5. /\ ch.ntr = t.entries[p.entry].byte - p.line
      /\ ch.ntr = t.entries[q.entry].byte - q.line
      /\ ch.a2 = (t.at[p.entry] + 1 + Offset(t, p)) % Size
      /\ ch.a2 = (t.at[q.entry] + 1 + Offset(t, q)) % Size
  BY AtIs
<1>6. t.at[p.entry] + 1 + Offset(t, p) = x + 1 /\ t.at[q.entry] + 1 + Offset(t, q) = y + 1
  <2>1. Offset(t, p) \in Int /\ Offset(t, q) \in Int
    BY <1>1, <1>2
  <2> QED
    BY <1>3, <2>1
<1>7. (x + 1) % Size = (y + 1) % Size
  BY <1>5, <1>6
<1>8. x % Size = y % Size
  <2> HIDE DEF x, y
  <2> QED
    BY <1>3, <1>4, <1>7, ModCancel, ZenonT(30)
<1>9. p.entry \in 1 .. Len(t.entries) + 1 /\ q.entry \in 1 .. Len(t.entries) + 1
  BY <1>1, <1>2, <1>3, SMTT(30)
<1>10. p.entry = q.entry
  BY <1>1, <1>2, <1>8, <1>9, Apart
<1>11. t.entries[p.entry].byte \in Int
  BY <1>1
<1>12. p.line = q.line
  BY <1>1, <1>2, <1>5, <1>10, <1>11
<1> QED
  BY <1>10, <1>12 DEF Place

(* posOf, for one channel.                                                 *)
PosOf(ch, t) ==
  IF Positions(ch, t) # {} THEN CHOOSE p \in Positions(ch, t) : TRUE
  ELSE [entry |-> IF Stopped(ch) THEN Len(t.entries) + 1 ELSE 0, line |-> 0]
LEMMA PosOfIs ==
  posOf = [c \in HdmaChans |-> PosOf(chan[c], tab[c])]
  BY DEF posOf, PosOf, Stopped

LEMMA PositionsAre ==
  ASSUME NEW t, NEW ch, NEW p
  PROVE  p \in Positions(ch, t) <=> Place(t, p) /\ At(ch, t, p)
  BY DEF Positions, Place

LEMMA PosAtPlace ==
  ASSUME NEW t, Hdma!Laid(t), NEW ch, NEW p, Place(t, p), At(ch, t, p)
  PROVE  PosOf(ch, t) = p
<1> DEFINE q == CHOOSE q \in Positions(ch, t) : TRUE
<1>1. p \in Positions(ch, t)
  BY PositionsAre
<1>2. q \in Positions(ch, t) /\ PosOf(ch, t) = q
  BY <1>1 DEF PosOf
<1> HIDE DEF q
<1>3. Place(t, q) /\ At(ch, t, q)
  BY <1>2, PositionsAre
<1>4. p = q
  BY <1>3, OnePlace
<1> QED
  BY <1>2, <1>4

LEMMA PosAtEnd ==
  ASSUME NEW t, Hdma!Laid(t), NEW ch, Stopped(ch)
  PROVE  PosOf(ch, t) = [entry |-> Len(t.entries) + 1, line |-> 0]
<1>1. ASSUME NEW p \in Positions(ch, t) PROVE FALSE
  <2>1. Place(t, p) /\ At(ch, t, p)
    BY <1>1, PositionsAre
  <2>2. /\ t.entries[p.entry].byte \in 1 .. 2 * RepeatBit - 1 /\ p.line \in Nat
        /\ p.line < Hdma!LinesOf(t.entries[p.entry].byte)
        /\ ch.ntr = t.entries[p.entry].byte - p.line /\ RepeatBit \in Nat /\ 1 < RepeatBit
    BY <2>1, Places, AtIs, Constants
  <2> QED
    BY <2>2 DEF Stopped, Hdma!LinesOf
<1>2. Positions(ch, t) = {}
  BY <1>1
<1> QED
  BY <1>2 DEF PosOf

(* A channel that reads the entry at the address k of its table.           *)
Entered(e, ch, t, k) ==
  /\ e = NextEntry(ch, t, t.at[k]) \/ e = [NextEntry(ch, t, t.at[k]) EXCEPT !.pause = FALSE]
  /\ e.pause = FALSE
LEMMA Enters ==
  ASSUME NEW t, Hdma!Laid(t), NEW ch \in Channel, NEW k \in 1 .. Len(t.entries) + 1,
         NEW e, Entered(e, ch, t, k)
  PROVE  /\ k \in 1 .. Len(t.entries) =>
              Place(t, [entry |-> k, line |-> 0]) /\ Registers(e, t, [entry |-> k, line |-> 0])
         /\ k = Len(t.entries) + 1 => Stopped(e)
         /\ PosOf(e, t) = [entry |-> k, line |-> 0]
         /\ e.mode = ch.mode /\ e.port = ch.port /\ e.a1 = ch.a1
<1> DEFINE p == [entry |-> k, line |-> 0]
<1>1. /\ Len(t.entries) \in Nat /\ t.indirect \in BOOLEAN /\ RepeatBit \in Nat /\ 1 < RepeatBit
      /\ Size \in Nat \ {0} /\ Hdma!UnitSize(t) \in {1, 2, 4}
  BY Sizes, Constants
<1>2. /\ e.ntr = ByteAt(t, t.at[k])
      /\ e.a2 = (t.at[k] + (IF t.indirect THEN 3 ELSE 1)) % Size
      /\ t.indirect => e.das = WordAfter(t, t.at[k])
      /\ e.mode = ch.mode /\ e.port = ch.port /\ e.a1 = ch.a1 /\ e.pause = FALSE
  BY DEF Entered, NextEntry, Channel
<1>3. \A j \in EntryThere(t, t.at[k]) : j = k
  <2> TAKE j \in EntryThere(t, t.at[k])
  <2>1. j \in 1 .. Len(t.entries) + 1 /\ t.at[j] = t.at[k]
    BY <1>1 DEF EntryThere
  <2> QED
    BY <2>1, Starts
<1>4. CASE k \in 1 .. Len(t.entries)
  <2>1. k \in EntryThere(t, t.at[k])
    BY <1>4 DEF EntryThere
  <2>2. (CHOOSE j \in EntryThere(t, t.at[k]) : TRUE) = k
    BY <1>3, <2>1
  <2>3. e.ntr = t.entries[k].byte /\ (t.indirect => e.das = t.entries[k].pointer)
    BY <1>2, <2>1, <2>2 DEF ByteAt, WordAfter
  <2>4. /\ t.entries[k].byte \in 1 .. 2 * RepeatBit - 1 /\ t.entries[k].pointer \in 0 .. Size - 1
        /\ t.at[k] \in 0 .. Size - 1
    BY <1>4, EntryTyped
  <2>5. p.entry = k /\ p.line = 0 /\ DoneAt(t, p) = 0
    BY DEF DoneAt
  <2>6. Hdma!LinesOf(t.entries[k].byte) \in Nat /\ Hdma!LinesOf(t.entries[k].byte) >= 1
    <3> DEFINE b == t.entries[k].byte
    <3>1. b \in Nat /\ b >= 1
      BY <1>1, <2>4
    <3> HIDE DEF b
    <3>2. Hdma!LinesOf(b) \in Nat /\ Hdma!LinesOf(b) >= 1
      BY <1>1, <3>1 DEF Hdma!LinesOf
    <3> QED
      BY <3>2 DEF b
  <2>7. Place(t, p)
    BY <1>4, <2>5, <2>6 DEF Place
  <2>8. At(e, t, p)
    <3>1. Offset(t, p) = IF t.indirect THEN 2 ELSE 0
      BY <1>1, <2>5 DEF Offset
    <3>2. t.at[k] + 1 + Offset(t, p) = t.at[k] + (IF t.indirect THEN 3 ELSE 1)
      BY <1>1, <2>4, <3>1
    <3>3. e.ntr = t.entries[k].byte - 0
      BY <2>3, <2>4
    <3>4. (p.line > 0 /\ ~Hdma!Repeats(t.entries[p.entry].byte)) = FALSE
      BY <2>5
    <3> HIDE DEF p
    <3>5. e.pause = (p.line > 0 /\ ~Hdma!Repeats(t.entries[p.entry].byte))
      BY <1>2, <3>4
    <3>6. e.a2 = (t.at[p.entry] + 1 + Offset(t, p)) % Size
      BY <1>2, <2>5, <3>2
    <3>7. e.ntr = t.entries[p.entry].byte - p.line
      BY <2>5, <3>3
    <3> QED
      BY <3>5, <3>6, <3>7, AtIs
  <2>9. t.indirect => e.das = (t.entries[k].pointer + DoneAt(t, p) * Hdma!UnitSize(t)) % Size
    <3>1. t.entries[k].pointer + DoneAt(t, p) * Hdma!UnitSize(t) = t.entries[k].pointer
      BY <1>1, <2>4, <2>5
    <3>2. t.entries[k].pointer % Size = t.entries[k].pointer
      <4> DEFINE a == t.entries[k].pointer
      <4>1. a \in Int /\ 0 <= a /\ a < Size
        BY <1>1, <2>4
      <4> HIDE DEF a
      <4>2. a % Size = a
        BY <1>1, <4>1, Small
      <4> QED
        BY <4>2 DEF a
    <3> QED
      BY <2>3, <3>1, <3>2
  <2> HIDE DEF p
  <2>10. Registers(e, t, p)
    BY <2>5, <2>8, <2>9 DEF Registers
  <2>11. PosOf(e, t) = p
    BY <2>7, <2>8, PosAtPlace
  <2>12. k # Len(t.entries) + 1
    BY <1>1, <1>4
  <2> QED
    BY <1>2, <2>7, <2>10, <2>11, <2>12 DEF p
<1>5. CASE k = Len(t.entries) + 1
  <2>1. EntryThere(t, t.at[k]) = {}
    <3>1. k \notin 1 .. Len(t.entries)
      BY <1>1, <1>5
    <3>2. EntryThere(t, t.at[k]) \subseteq 1 .. Len(t.entries)
      BY DEF EntryThere
    <3> QED
      BY <1>3, <3>1, <3>2
  <2>2. e.ntr = 0
    BY <1>2, <1>5, <2>1 DEF ByteAt
  <2>3. Stopped(e)
    BY <1>2, <2>2 DEF Stopped
  <2>4. PosOf(e, t) = [entry |-> Len(t.entries) + 1, line |-> 0]
    BY <2>3, PosAtEnd
  <2>5. k \notin 1 .. Len(t.entries)
    BY <1>1, <1>5
  <2> QED
    BY <1>2, <1>5, <2>3, <2>4, <2>5
<1> QED
  BY <1>1, <1>4, <1>5

-----------------------------------------------------------------------------
(* One line of a channel.                                                  *)

(* The units that are used up when the line of a place is over.            *)
DoneAfter(t, p) == IF Hdma!Repeats(t.entries[p.entry].byte) THEN p.line + 1 ELSE 1
OffsetAfter(t, p) == IF t.indirect THEN 2 ELSE DoneAfter(t, p) * Hdma!UnitSize(t)
LineAt(ch, t, p) ==
  /\ ch.ntr = t.entries[p.entry].byte - p.line
  /\ ch.pause = (p.line > 0 /\ ~Hdma!Repeats(t.entries[p.entry].byte))
Used(ch, t, p) ==
  /\ ch.a2 = (t.at[p.entry] + 1 + OffsetAfter(t, p)) % Size
  /\ t.indirect =>
       ch.das = (t.entries[p.entry].pointer + DoneAfter(t, p) * Hdma!UnitSize(t)) % Size
  /\ LineAt(ch, t, p)
Same(e, ch) == e.mode = ch.mode /\ e.port = ch.port /\ e.a1 = ch.a1

(* Within an entry, the count goes down to the next line.                  *)
LEMMA CountsOn ==
  ASSUME NEW t, Hdma!Laid(t), NEW ch \in Channel, NEW p, Place(t, p), Used(ch, t, p),
         p.line + 1 < Hdma!LinesOf(t.entries[p.entry].byte)
  PROVE  LET e == CountLine(ch, t)
         IN  Same(e, ch) /\ Placed(e, t)
             /\ PosOf(e, t) = [entry |-> p.entry, line |-> p.line + 1]
<1> DEFINE e == CountLine(ch, t)
           b == t.entries[p.entry].byte
           q == [entry |-> p.entry, line |-> p.line + 1]
<1>1. /\ p.entry \in 1 .. Len(t.entries) /\ p.line \in Nat /\ b \in 1 .. 2 * RepeatBit - 1
      /\ Hdma!LinesOf(b) \in Nat /\ RepeatBit \in Nat /\ 1 < RepeatBit
  BY Places, Constants
<1>2. ch.ntr - 1 = b - p.line - 1 /\ b - p.line - 1 = b - (p.line + 1)
  BY <1>1 DEF Used, LineAt
<1>3. q.entry = p.entry /\ q.line = p.line + 1
  OBVIOUS
<1>4. Place(t, q)
  BY <1>1, <1>3 DEF Place
<1>5. DoneAt(t, q) = DoneAfter(t, p)
  <2>1. p.line + 1 > 0
    BY <1>1
  <2> HIDE DEF q
  <2> QED
    BY <1>3, <2>1 DEF DoneAt, DoneAfter
<1>6. /\ e.ntr = b - (p.line + 1) /\ Same(e, ch) /\ e.a2 = ch.a2 /\ e.das = ch.das
      /\ e.pause = (~Hdma!Repeats(b))
  <2>3. p.line + 1 < Hdma!LinesOf(b) /\ ch.ntr \in Int
    BY DEF Channel
  <2> HIDE DEF b
  <2>1. CASE b > RepeatBit
    <3>1. ch.ntr - 1 # 0 /\ ~(ch.ntr - 1 < RepeatBit) /\ ch.ntr - 1 # RepeatBit
      BY <1>1, <1>2, <2>1, <2>3, SMTT(30) DEF Hdma!LinesOf
    <3>2. e = [ch EXCEPT !.ntr = ch.ntr - 1]
      BY <3>1 DEF CountLine
    <3>3. ch.pause = FALSE /\ ~Hdma!Repeats(b) = FALSE
      BY <2>1 DEF Used, LineAt, Hdma!Repeats, b
    <3> HIDE DEF e
    <3> QED
      BY <1>2, <3>2, <3>3 DEF Channel, Same
  <2>2. CASE ~(b > RepeatBit)
    <3>1. ch.ntr - 1 # 0 /\ ch.ntr - 1 < RepeatBit
      BY <1>1, <1>2, <2>2, <2>3 DEF Hdma!LinesOf
    <3>2. e = [ch EXCEPT !.ntr = ch.ntr - 1, !.pause = TRUE]
      BY <3>1 DEF CountLine
    <3>3. ~Hdma!Repeats(b) = TRUE
      BY <2>2 DEF Hdma!Repeats
    <3> HIDE DEF e
    <3> QED
      BY <1>2, <3>2, <3>3 DEF Channel, Same
  <2> QED
    BY <2>1, <2>2
<1> HIDE DEF e, q
<1>7. At(e, t, q)
  <2>1. e.ntr = t.entries[q.entry].byte - q.line
    BY <1>3, <1>6
  <2>2. (q.line > 0 /\ ~Hdma!Repeats(b)) = ~Hdma!Repeats(b)
    BY <1>1, <1>3
  <2>3. e.pause = (q.line > 0 /\ ~Hdma!Repeats(t.entries[q.entry].byte))
    BY <1>3, <1>6, <2>2
  <2>4. Offset(t, q) = OffsetAfter(t, p)
    BY <1>5 DEF Offset, OffsetAfter
  <2>5. e.a2 = (t.at[q.entry] + 1 + Offset(t, q)) % Size
    BY <1>3, <1>6, <2>4 DEF Used
  <2> QED
    BY <2>1, <2>3, <2>5, AtIs
<1>8. t.indirect =>
        e.das = (t.entries[q.entry].pointer + DoneAt(t, q) * Hdma!UnitSize(t)) % Size
  BY <1>3, <1>5, <1>6 DEF Used
<1>9. Registers(e, t, q)
  BY <1>7, <1>8 DEF Registers
<1>10. PosOf(e, t) = q
  BY <1>4, <1>7, PosAtPlace
<1> QED
  BY <1>4, <1>6, <1>9, <1>10 DEF Placed, e, q

(* At the end of an entry, the next one is read.                           *)
LEMMA CountsOver ==
  ASSUME NEW t, Hdma!Laid(t), NEW ch \in Channel, NEW p, Place(t, p), Used(ch, t, p),
         ~(p.line + 1 < Hdma!LinesOf(t.entries[p.entry].byte))
  PROVE  LET e == CountLine(ch, t)
         IN  Same(e, ch) /\ Placed(e, t)
             /\ PosOf(e, t) = [entry |-> p.entry + 1, line |-> 0]
<1> DEFINE e == CountLine(ch, t)
           b == t.entries[p.entry].byte
           k == p.entry
           n == NextEntry(ch, t, ch.a2)
<1>1. /\ k \in 1 .. Len(t.entries) /\ p.line \in Nat /\ b \in 1 .. 2 * RepeatBit - 1
      /\ Hdma!LinesOf(b) \in Nat /\ p.line < Hdma!LinesOf(b)
      /\ RepeatBit \in Nat /\ 1 < RepeatBit /\ Len(t.entries) \in Nat
  BY Places, Constants, Sizes
<1>2. p.line + 1 = Hdma!LinesOf(b)
  BY <1>1
<1>3. ch.ntr - 1 = b - p.line - 1 /\ ch.ntr \in Int
  <2>1. ch.ntr = b - p.line /\ ch.ntr \in 0 .. 2 * RepeatBit - 1
    BY DEF Used, LineAt, Channel
  <2> QED
    BY <1>1, <2>1
<1>4. DoneAfter(t, p) = Hdma!Units(b)
  BY <1>1, <1>2 DEF DoneAfter, Hdma!Units
<1>5. ch.a2 = t.at[k + 1]
  <2> DEFINE o == OffsetAfter(t, p)
  <2>1. t.at[k + 1] = (t.at[k] + Hdma!EntryLength(t, k)) % Size /\ t.at[k] \in 0 .. Size - 1
    BY <1>1, EntryTyped
  <2>2. Hdma!EntryLength(t, k) = 1 + o
    BY <1>4 DEF Hdma!EntryLength, OffsetAfter
  <2>3. o \in Int
    <3>1. DoneAfter(t, p) \in Int /\ Hdma!UnitSize(t) \in Int
      BY <1>1, Sizes DEF DoneAfter
    <3>2. DoneAfter(t, p) * Hdma!UnitSize(t) \in Int
      BY <3>1
    <3> QED
      BY <3>2 DEF OffsetAfter
  <2>4. ch.a2 = (t.at[k] + 1 + o) % Size
    BY DEF Used
  <2> HIDE DEF o, k
  <2>5. t.at[k] + 1 + o = t.at[k] + (1 + o)
    BY <2>1, <2>3
  <2> QED
    BY <2>1, <2>2, <2>4, <2>5
<1>6. /\ e = n \/ e = [n EXCEPT !.pause = FALSE]
      /\ e.pause = FALSE
  <2>1. CASE b > RepeatBit
    <3>1. ch.ntr - 1 = RepeatBit /\ ch.ntr - 1 # 0 /\ ~(ch.ntr - 1 < RepeatBit)
      <4> HIDE DEF b
      <4>1. Hdma!LinesOf(b) = b - RepeatBit
        BY <1>1, <2>1 DEF Hdma!LinesOf
      <4>3. b \in Int /\ RepeatBit \in Int /\ p.line \in Int
        BY <1>1
      <4>4. p.line + 1 = b - RepeatBit
        BY <1>2, <4>1
      <4>2. b - p.line - 1 = RepeatBit
        BY <4>3, <4>4
      <4> QED
        BY <1>1, <1>3, <4>2
    <3>2. e = n
      BY <3>1 DEF CountLine
    <3>3. ch.pause = FALSE
      BY <2>1 DEF Used, LineAt, Hdma!Repeats
    <3>4. n.pause = ch.pause
      BY DEF NextEntry, Channel
    <3> QED
      BY <3>2, <3>3, <3>4
  <2>2. CASE ~(b > RepeatBit)
    <3>1. ch.ntr - 1 = 0
      <4> HIDE DEF b
      <4>1. Hdma!LinesOf(b) = b
        BY <1>1, <2>2 DEF Hdma!LinesOf
      <4>2. b - p.line - 1 = 0
        BY <1>1, <1>2, <4>1
      <4> QED
        BY <1>3, <4>2
    <3>2. e = [n EXCEPT !.pause = FALSE]
      BY <3>1 DEF CountLine
    <3>3. [n EXCEPT !.pause = FALSE].pause = FALSE
      BY DEF NextEntry, Channel
    <3> QED
      BY <3>2, <3>3
  <2> QED
    BY <2>1, <2>2
<1>7. k + 1 \in 1 .. Len(t.entries) + 1
  BY <1>1
<1>8. Entered(e, ch, t, k + 1)
  BY <1>5, <1>6 DEF Entered
<1> HIDE DEF e, n
<1>9. /\ k + 1 \in 1 .. Len(t.entries) =>
              Place(t, [entry |-> k + 1, line |-> 0]) /\ Registers(e, t, [entry |-> k + 1, line |-> 0])
      /\ k + 1 = Len(t.entries) + 1 => Stopped(e)
      /\ PosOf(e, t) = [entry |-> k + 1, line |-> 0]
      /\ e.mode = ch.mode /\ e.port = ch.port /\ e.a1 = ch.a1
  <2> DEFINE m == k + 1
  <2>1. m \in 1 .. Len(t.entries) + 1
    BY <1>7
  <2>3. Entered(e, ch, t, m)
    BY <1>8
  <2> HIDE DEF m
  <2>2. /\ m \in 1 .. Len(t.entries) =>
              Place(t, [entry |-> m, line |-> 0]) /\ Registers(e, t, [entry |-> m, line |-> 0])
        /\ m = Len(t.entries) + 1 => Stopped(e)
        /\ PosOf(e, t) = [entry |-> m, line |-> 0]
        /\ e.mode = ch.mode /\ e.port = ch.port /\ e.a1 = ch.a1
    BY <2>1, <2>3, Enters
  <2> QED
    BY <2>2 DEF m
<1>10. k + 1 \in 1 .. Len(t.entries) \/ k + 1 = Len(t.entries) + 1
  BY <1>1
<1>11. Placed(e, t) /\ Same(e, ch)
  BY <1>9, <1>10 DEF Placed, Same
<1> QED
  BY <1>9, <1>11 DEF e

(* What the tables say, for a channel that has not ended.                  *)
LEMMA Counts ==
  ASSUME NEW t, Hdma!Laid(t), NEW ch \in Channel, NEW p, Place(t, p), Used(ch, t, p)
  PROVE  LET e == CountLine(ch, t)
         IN  Same(e, ch) /\ Placed(e, t) /\ PosOf(e, t) = Hdma!Following(t, p) /\ e \in Channel
<1> DEFINE e == CountLine(ch, t)
<1>1. /\ p.entry \in 1 .. Len(t.entries) /\ Len(t.entries) \in Nat /\ p.line \in Nat
      /\ t.entries[p.entry].byte \in 1 .. 2 * RepeatBit - 1 /\ RepeatBit \in Nat /\ 1 < RepeatBit
      /\ p.line < Hdma!LinesOf(t.entries[p.entry].byte)
  BY Places, Sizes, Constants
<1>2. ~Hdma!Ended(t, p)
  BY <1>1 DEF Hdma!Ended
<1>3. p = [entry |-> p.entry, line |-> p.line]
  BY DEF Place
<1>4. e \in Channel
  <2>1. ch.ntr # 0
    BY <1>1 DEF Used, LineAt, Hdma!LinesOf
  <2> QED
    BY <2>1, CountTyped
<1>5. CASE p.line + 1 < Hdma!LinesOf(t.entries[p.entry].byte)
  <2>1. Hdma!Following(t, p) = [p EXCEPT !.line = @ + 1]
    BY <1>2, <1>5 DEF Hdma!Following
  <2>2. [p EXCEPT !.line = @ + 1] = [entry |-> p.entry, line |-> p.line + 1]
    BY <1>3
  <2> QED
    BY <1>4, <1>5, <2>1, <2>2, CountsOn
<1>6. CASE ~(p.line + 1 < Hdma!LinesOf(t.entries[p.entry].byte))
  <2>1. Hdma!Following(t, p) = [entry |-> p.entry + 1, line |-> 0]
    BY <1>2, <1>6 DEF Hdma!Following
  <2> QED
    BY <1>4, <1>6, <2>1, CountsOver
<1> QED
  BY <1>5, <1>6

(* The unit that is moved is the one the table means, and it is used up.   *)
LEMMA UnitMoves ==
  ASSUME NEW t, Hdma!Laid(t), t.indirect => t.mode # 0, NEW ch \in Channel, NEW p,
         Place(t, p), Registers(ch, t, p), ~ch.pause, ch.mode = t.mode, ch.port = t.port
  PROVE  /\ UnitOf(ch, t) = Hdma!Unit(t, p.entry, p.line)
         /\ Hdma!Transfers(t, p) = Hdma!Unit(t, p.entry, p.line)
         /\ Used(AfterUnit(ch, t), t, p) /\ Same(AfterUnit(ch, t), ch)
<1> DEFINE u == Hdma!UnitSize(t)
           b == t.entries[p.entry].byte
           from == IF t.indirect THEN t.entries[p.entry].pointer ELSE t.at[p.entry] + 1
           e == AfterUnit(ch, t)
<1>1. /\ p.entry \in 1 .. Len(t.entries) /\ p.line \in Nat /\ Len(t.entries) \in Nat
      /\ t.entries[p.entry].pointer \in 0 .. Size - 1 /\ t.at[p.entry] \in 0 .. Size - 1
      /\ Size \in Nat \ {0}
  BY Places, Sizes, EntryTyped, Constants
<1>2. u \in {1, 2, 4} /\ u = Len(Pattern(ch.mode)) /\ u \in Nat
  BY Sizes
<1>3. At(ch, t, p)
  BY DEF Registers
<1>4. ~(p.line > 0 /\ ~Hdma!Repeats(b))
  BY <1>3, AtIs
<1>5. DoneAt(t, p) = p.line
  BY <1>1, <1>4 DEF DoneAt
<1>6. DoneAfter(t, p) = p.line + 1
  BY <1>1, <1>4 DEF DoneAfter
<1>7. from \in Int /\ p.line * u \in Nat /\ (p.line + 1) * u = (p.line * u) + u
  <2>1. from \in Int
    BY <1>1
  <2> HIDE DEF u
  <2>2. p.line * u \in Nat /\ (p.line + 1) * u = (p.line * u) + u
    BY <1>1, <1>2
  <2> QED
    BY <2>1, <2>2
<1>8. Source(ch, t) = (from + (p.line * u)) % Size
  <2>1. CASE t.indirect
    BY <1>5, <2>1 DEF Registers, Source
  <2>2. CASE ~t.indirect
    BY <1>3, <1>5, <2>2, AtIs DEF Source, Offset
  <2> QED
    BY <2>1, <2>2
<1> HIDE DEF from, u, e
<1>9. from + (p.line * u) \in Int
  BY <1>7
<1>10. \A x \in Int : (Source(ch, t) + x) % Size = ((from + (p.line * u)) + x) % Size
  BY <1>1, <1>8, <1>9, ModAdd
<1>11. Source(ch, t) \in Int
  BY <1>1, <1>8, <1>9, DivMod
<1>12. UnitOf(ch, t) = Hdma!Unit(t, p.entry, p.line)
  <2>1. \A i \in 1 .. u :
          (Source(ch, t) + i - 1) % Size = (from + p.line * u + i - 1) % Size
    <3> TAKE i \in 1 .. u
    <3>1. i - 1 \in Int
      OBVIOUS
    <3>2. (Source(ch, t) + (i - 1)) % Size = ((from + (p.line * u)) + (i - 1)) % Size
      BY <1>10, <3>1
    <3>3. Source(ch, t) + i - 1 = Source(ch, t) + (i - 1)
      BY <1>11
    <3>4. from + p.line * u + i - 1 = (from + (p.line * u)) + (i - 1)
      BY <1>7
    <3> QED
      BY <3>2, <3>3, <3>4
  <2>2. Pattern(ch.mode) = Hdma!Pattern(t.mode)
    BY DEF Pattern
  <2>3. Hdma!Unit(t, p.entry, p.line) =
          [i \in 1 .. u |->
             <<IF t.indirect THEN "indirect" ELSE "table",
               (from + p.line * u + i - 1) % Size, t.port + Hdma!Pattern(t.mode)[i]>>]
    BY DEF Hdma!Unit, from, u
  <2>4. UnitOf(ch, t) =
          [i \in 1 .. u |->
             <<IF t.indirect THEN "indirect" ELSE "table",
               (Source(ch, t) + i - 1) % Size, t.port + Hdma!Pattern(t.mode)[i]>>]
    BY <1>2, <2>2 DEF UnitOf
  <2> QED
    BY <2>1, <2>3, <2>4
<1>13. Hdma!Transfers(t, p) = Hdma!Unit(t, p.entry, p.line)
  <2>1. ~Hdma!Ended(t, p)
    BY <1>1 DEF Hdma!Ended
  <2> QED
    BY <1>4, <2>1 DEF Hdma!Transfers
<1>14. Same(e, ch) /\ LineAt(e, t, p)
  <2>1. Same(e, ch) /\ e.ntr = ch.ntr /\ e.pause = ch.pause
    BY DEF e, AfterUnit, Same, Channel
  <2> QED
    BY <1>3, <2>1, AtIs DEF LineAt
<1>15. Used(e, t, p)
  <2>1. CASE t.indirect
    <3>1. e.a2 = ch.a2
      BY <2>1 DEF e, AfterUnit, Channel
    <3>2. e.das = (MemAfter(ch, t) + 1) % Size
      BY <2>1 DEF e, AfterUnit, Channel
    <3>3. MemAfter(ch, t) + 1 = Source(ch, t) + u
      BY <1>2, <1>11, <2>1 DEF MemAfter
    <3>4. e.das = ((from + (p.line * u)) + u) % Size
      BY <1>2, <1>10, <3>2, <3>3
    <3>5. (from + (p.line * u)) + u = t.entries[p.entry].pointer + DoneAfter(t, p) * u
      <4>1. from = t.entries[p.entry].pointer
        BY <2>1 DEF from
      <4> QED
        BY <1>2, <1>6, <1>7, <4>1
    <3>6. OffsetAfter(t, p) = Offset(t, p)
      BY <2>1 DEF OffsetAfter, Offset
    <3>7. e.a2 = (t.at[p.entry] + 1 + OffsetAfter(t, p)) % Size
      BY <1>3, <3>1, <3>6, AtIs
    <3>8. e.das = (t.entries[p.entry].pointer + DoneAfter(t, p) * Hdma!UnitSize(t)) % Size
      BY <3>4, <3>5 DEF u
    <3> QED
      BY <1>14, <3>7, <3>8 DEF Used
  <2>2. CASE ~t.indirect
    <3>1. e.a2 = (ch.a2 + u) % Size
      BY <1>2, <2>2 DEF e, AfterUnit, Channel
    <3>2. e.a2 = ((from + (p.line * u)) + u) % Size
      BY <1>2, <1>10, <2>2, <3>1 DEF Source
    <3>3. (from + (p.line * u)) + u = t.at[p.entry] + 1 + OffsetAfter(t, p)
      <4>1. from = t.at[p.entry] + 1
        BY <2>2 DEF from
      <4>2. OffsetAfter(t, p) = (p.line + 1) * u
        BY <1>6, <2>2 DEF OffsetAfter, u
      <4> QED
        BY <1>2, <1>7, <4>1, <4>2
    <3>4. e.a2 = (t.at[p.entry] + 1 + OffsetAfter(t, p)) % Size
      BY <3>2, <3>3
    <3> QED
      BY <1>14, <2>2, <3>4 DEF Used
  <2> QED
    BY <2>1, <2>2
<1> QED
  BY <1>12, <1>13, <1>14, <1>15 DEF e

(* A line of a channel in HDMA is a line of its table.                     *)
LEMMA LineFollows ==
  ASSUME NEW t, NEW ch \in Channel, ChannelInv(ch, t)
  PROVE  /\ LineOf(ch, t) \in Channel /\ ChannelInv(LineOf(ch, t), t)
         /\ PosOf(LineOf(ch, t), t) = Hdma!Following(t, PosOf(ch, t))
         /\ (IF ~ch.pause /\ ch.ntr # 0 THEN UnitOf(ch, t) ELSE <<>>)
              = Hdma!Transfers(t, PosOf(ch, t))
<1> DEFINE e == LineOf(ch, t)
<1>1. /\ ch.mode = t.mode /\ ch.port = t.port /\ ch.a1 = t.at[1]
      /\ Hdma!Laid(t) /\ (t.indirect => t.mode # 0) /\ Placed(ch, t)
  BY DEF ChannelInv
<1>2. CASE Stopped(ch)
  <2>1. e = ch
    BY <1>2 DEF LineOf, Stopped
  <2>2. PosOf(ch, t) = [entry |-> Len(t.entries) + 1, line |-> 0]
    BY <1>1, <1>2, PosAtEnd
  <2>3. Hdma!Ended(t, PosOf(ch, t))
    <3>1. Len(t.entries) + 1 > Len(t.entries)
      BY <1>1, Sizes
    <3> QED
      BY <2>2, <3>1 DEF Hdma!Ended
  <2>4. Hdma!Following(t, PosOf(ch, t)) = PosOf(ch, t) /\ Hdma!Transfers(t, PosOf(ch, t)) = <<>>
    BY <2>3 DEF Hdma!Following, Hdma!Transfers
  <2> QED
    BY <1>2, <2>1, <2>4 DEF Stopped
<1>3. CASE ~Stopped(ch)
  <2>1. PICK p : Place(t, p) /\ Registers(ch, t, p)
    BY <1>1, <1>3 DEF Placed
  <2>2. At(ch, t, p)
    BY <2>1 DEF Registers
  <2>3. PosOf(ch, t) = p
    BY <1>1, <2>1, <2>2, PosAtPlace
  <2>4. /\ p.entry \in 1 .. Len(t.entries) /\ p.line \in Nat /\ Len(t.entries) \in Nat
        /\ t.entries[p.entry].byte \in 1 .. 2 * RepeatBit - 1 /\ RepeatBit \in Nat
        /\ p.line < Hdma!LinesOf(t.entries[p.entry].byte)
        /\ ch.ntr = t.entries[p.entry].byte - p.line
    BY <1>1, <2>1, <2>2, Places, Sizes, Constants, AtIs
  <2>5. CASE ch.pause
    <3>1. p.line > 0 /\ ~Hdma!Repeats(t.entries[p.entry].byte)
      BY <2>2, <2>5, AtIs
    <3>2. DoneAfter(t, p) = DoneAt(t, p) /\ OffsetAfter(t, p) = Offset(t, p)
      BY <3>1 DEF DoneAfter, DoneAt, OffsetAfter, Offset
    <3>3. LineAt(ch, t, p)
      BY <2>2, AtIs DEF LineAt
    <3>4. ch.a2 = (t.at[p.entry] + 1 + OffsetAfter(t, p)) % Size
      BY <2>2, <3>2, AtIs
    <3>5. Used(ch, t, p)
      BY <2>1, <3>2, <3>3, <3>4 DEF Used, Registers
    <3>6. e = CountLine(ch, t)
      BY <2>5 DEF LineOf
    <3>7. Same(e, ch) /\ Placed(e, t) /\ PosOf(e, t) = Hdma!Following(t, p) /\ e \in Channel
      BY <1>1, <2>1, <3>5, <3>6, Counts
    <3>8. Hdma!Transfers(t, p) = <<>>
      BY <3>1 DEF Hdma!Transfers
    <3>9. ChannelInv(e, t)
      BY <1>1, <3>7 DEF ChannelInv, Same
    <3> QED
      BY <2>3, <2>5, <3>7, <3>8, <3>9
  <2>6. CASE ~ch.pause
    <3> DEFINE f == AfterUnit(ch, t)
    <3>1. ch.ntr # 0
      BY <2>6, <1>3 DEF Stopped
    <3>2. /\ UnitOf(ch, t) = Hdma!Transfers(t, p) /\ Used(f, t, p) /\ Same(f, ch)
      BY <1>1, <2>1, <2>6, UnitMoves
    <3>3. f \in Channel
      BY <1>1, UnitTyped
    <3>4. e = CountLine(f, t)
      BY <2>6, <3>1 DEF LineOf
    <3> HIDE DEF f
    <3>5. Same(e, f) /\ Placed(e, t) /\ PosOf(e, t) = Hdma!Following(t, p) /\ e \in Channel
      BY <1>1, <2>1, <3>2, <3>3, <3>4, Counts
    <3>6. ChannelInv(e, t)
      BY <1>1, <3>2, <3>5 DEF ChannelInv, Same
    <3> QED
      BY <2>3, <2>6, <3>1, <3>2, <3>5, <3>6
  <2> QED
    BY <2>5, <2>6
<1> QED
  BY <1>2, <1>3

(* At the start of a frame, a channel reads the first entry.               *)
LEMMA Reloads ==
  ASSUME NEW t, NEW ch \in Channel, ChannelInv(ch, t)
  PROVE  LET e == [NextEntry(ch, t, ch.a1) EXCEPT !.pause = FALSE]
         IN  e \in Channel /\ ChannelInv(e, t) /\ PosOf(e, t) = [entry |-> 1, line |-> 0]
<1> DEFINE e == [NextEntry(ch, t, ch.a1) EXCEPT !.pause = FALSE]
<1>1. /\ ch.mode = t.mode /\ ch.port = t.port /\ ch.a1 = t.at[1]
      /\ Hdma!Laid(t) /\ (t.indirect => t.mode # 0)
  BY DEF ChannelInv
<1>2. 1 \in 1 .. Len(t.entries) + 1 /\ Len(t.entries) \in Nat
  BY <1>1, Sizes
<1>3. Entered(e, ch, t, 1)
  BY <1>1 DEF Entered, NextEntry, Channel
<1>4. e \in Channel
  <2>1. ch.a1 \in 0 .. Size - 1
    BY DEF Channel
  <2> QED
    BY <1>1, <2>1, NextTyped
<1> HIDE DEF e
<1>5. /\ 1 \in 1 .. Len(t.entries) =>
              Place(t, [entry |-> 1, line |-> 0]) /\ Registers(e, t, [entry |-> 1, line |-> 0])
      /\ 1 = Len(t.entries) + 1 => Stopped(e)
      /\ PosOf(e, t) = [entry |-> 1, line |-> 0]
      /\ e.mode = ch.mode /\ e.port = ch.port /\ e.a1 = ch.a1
  BY <1>1, <1>2, <1>3, Enters
<1>6. Placed(e, t)
  BY <1>2, <1>5 DEF Placed
<1>7. ChannelInv(e, t)
  BY <1>1, <1>5, <1>6 DEF ChannelInv
<1> QED
  BY <1>4, <1>5, <1>7 DEF e

-----------------------------------------------------------------------------
(* The invariant holds initially.                                          *)
Inv == TypeOK /\ TransferInv /\ HdmaInv

LEMMA NoTableLaid ==
  Hdma!Laid(NoTable) /\ ~NoTable.indirect
<1> DEFINE t == NoTable
<1>1. /\ t.entries = <<>> /\ t.at = <<0>> /\ t.mode = 0 /\ t.indirect = FALSE /\ t.port = 10
  BY DEF NoTable
<1> HIDE DEF t
<1>2. Len(t.entries) = 0 /\ t.entries \in Hdma!Entries
  BY <1>1 DEF Hdma!Entries
<1>3. 1 .. Len(t.entries) + 1 = {1} /\ 1 .. Len(t.entries) = {}
  BY <1>2
<1>4. t.at \in [{1} -> 0 .. Size - 1]
  <2>1. 0 \in 0 .. Size - 1
    BY Constants
  <2>2. t.at = [i \in {1} |-> 0]
    BY <1>1
  <2> QED
    BY <2>1, <2>2
<1>5. t.mode \in 0 .. 7 /\ t.indirect \in BOOLEAN /\ t.port \in Nat
  <2>1. 0 \in 0 .. 7 /\ 10 \in Nat /\ FALSE \in BOOLEAN
    OBVIOUS
  <2> QED
    BY <1>1, <2>1
<1>6. Hdma!Laid(t)
  BY <1>2, <1>3, <1>4, <1>5 DEF Hdma!Laid
<1> QED
  BY <1>1, <1>6 DEF t

LEMMA Initially == Init => Inv /\ Table!HInit
<1> SUFFICES ASSUME Init PROVE Inv /\ Table!HInit
  OBVIOUS
<1>1. /\ game \in DOMAIN Games /\ on = {} /\ vcount = TotalLines /\ dma = None /\ starts = 0
      /\ out = [c \in HdmaChans |-> <<>>]
      /\ chan \in [Chans -> UNION {SetUp(c) : c \in Chans}]
      /\ \A c \in Chans : chan[c] \in SetUp(c)
      /\ tab \in [HdmaChans -> Games[game].tables \cup {NoTable}]
  BY DEF Init
<1>2. /\ Games[game].modes \subseteq 0 .. 7 /\ Games[game].starts \subseteq 0 .. Size - 1
      /\ \A t \in Games[game].tables : Hdma!Laid(t) /\ (t.indirect => t.mode # 0)
  BY <1>1, SnesDmaAssumption
<1>3. \A c \in HdmaChans : Hdma!Laid(tab[c]) /\ (tab[c].indirect => tab[c].mode # 0)
  BY <1>1, <1>2, NoTableLaid
<1>4. \A c \in HdmaChans : tab[c].mode \in 0 .. 7 /\ tab[c].port \in Nat /\ tab[c].at[1] \in 0 .. Size - 1
  <2> TAKE c \in HdmaChans
  <2>1. Hdma!Laid(tab[c])
    BY <1>3
  <2>2. tab[c].mode \in 0 .. 7 /\ tab[c].port \in Nat /\ Len(tab[c].entries) \in Nat
    BY <2>1, Sizes
  <2>3. tab[c].at \in [1 .. Len(tab[c].entries) + 1 -> 0 .. Size - 1]
    BY <2>1 DEF Hdma!Laid
  <2>4. 1 \in 1 .. Len(tab[c].entries) + 1
    BY <2>2
  <2> QED
    BY <2>2, <2>3, <2>4
<1>5. \A m \in 0 .. 7, step \in {"up", "down", "fixed"}, p \in Nat, a \in 0 .. Size - 1, b \in BOOLEAN :
        Fresh(m, step, p, a, b) \in Channel
  <2>1. 0 \in 0 .. Size - 1 /\ 0 \in 0 .. 2 * RepeatBit - 1
    BY Constants
  <2> QED
    BY <2>1 DEF Fresh, Channel
<1>6. ASSUME NEW c \in HdmaChans
      PROVE  /\ chan[c] \in Channel /\ chan[c].mode = tab[c].mode /\ chan[c].port = tab[c].port
             /\ chan[c].a1 = tab[c].at[1] /\ Stopped(chan[c])
  <2>1. c \in Chans
    BY DEF Chans
  <2>2. PICK b \in BOOLEAN :
          chan[c] = Fresh(tab[c].mode, "up", tab[c].port, tab[c].at[1], b)
    <3> DEFINE F(b) == Fresh(tab[c].mode, "up", tab[c].port, tab[c].at[1], b)
    <3>1. chan[c] \in SetUp(c)
      BY <1>1, <2>1
    <3>2. SetUp(c) = {F(b) : b \in IF c \in Games[game].chans THEN BOOLEAN ELSE {FALSE}}
      BY DEF SetUp
    <3> HIDE DEF F
    <3>3. PICK b \in IF c \in Games[game].chans THEN BOOLEAN ELSE {FALSE} : chan[c] = F(b)
      BY <3>1, <3>2
    <3>4. b \in BOOLEAN
      BY <3>3
    <3> QED
      BY <3>3, <3>4 DEF F
  <2>3. chan[c] \in Channel
    BY <1>4, <1>5, <2>2
  <2> QED
    BY <2>2, <2>3 DEF Fresh, Stopped
<1>7. ASSUME NEW c \in DmaChans PROVE chan[c] \in Channel
  <2>1. c \in Chans /\ c \notin HdmaChans
    BY Constants DEF Chans
  <2>2. 0 \in 0 .. Size - 1 /\ 10 \in Nat /\ 0 \in 0 .. 7
    BY Constants
  <2>3. chan[c] \in SetUp(c)
    BY <1>1, <2>1
  <2>4. CASE c \in Games[game].chans
    <3>1. PICK m \in Games[game].modes, step \in {"up", "down", "fixed"}, a \in Games[game].starts :
            chan[c] = Fresh(m, step, 10, a, FALSE)
      <4> DEFINE F(m, step, a) == Fresh(m, step, 10, a, FALSE)
      <4>1. SetUp(c) = {F(m, step, a) : m \in Games[game].modes, step \in {"up", "down", "fixed"},
                                        a \in Games[game].starts}
        BY <2>1, <2>4 DEF SetUp
      <4> HIDE DEF F
      <4>2. \E m \in Games[game].modes, step \in {"up", "down", "fixed"}, a \in Games[game].starts :
              chan[c] = F(m, step, a)
        BY <2>3, <4>1
      <4> QED
        BY <4>2 DEF F
    <3>2. m \in 0 .. 7 /\ a \in 0 .. Size - 1 /\ FALSE \in BOOLEAN
      BY <1>2, <3>1
    <3> QED
      BY <1>5, <2>2, <3>1, <3>2
  <2>5. CASE c \notin Games[game].chans
    <3>1. chan[c] = Fresh(0, "up", 10, 0, FALSE)
      <4>1. SetUp(c) = {Fresh(0, "up", 10, 0, FALSE)}
        BY <2>1, <2>5 DEF SetUp
      <4> QED
        BY <2>3, <4>1
    <3> QED
      BY <1>5, <2>2, <3>1
  <2> QED
    BY <2>4, <2>5
<1>8. chan \in [Chans -> Channel]
  BY <1>1, <1>6, <1>7 DEF Chans
<1>9. TypeOK
  <2>1. 0 \in 0 .. MaxStarts /\ TotalLines \in 0 .. TotalLines
    BY Constants
  <2> QED
    BY <1>1, <1>8, <2>1 DEF TypeOK
<1>10. TransferInv
  BY <1>1 DEF TransferInv
<1>11. HdmaInv
  <2>1. \A c \in HdmaChans : ChannelInv(chan[c], tab[c])
    BY <1>3, <1>6 DEF ChannelInv, Placed
  <2>2. DOMAIN tab = HdmaChans
    BY <1>1
  <2> QED
    BY <2>1, <2>2 DEF HdmaInv
<1>12. posOf = [c \in HdmaChans |-> [entry |-> Len(tab[c].entries) + 1, line |-> 0]]
  <2>1. \A c \in HdmaChans :
          PosOf(chan[c], tab[c]) = [entry |-> Len(tab[c].entries) + 1, line |-> 0]
    BY <1>3, <1>6, PosAtEnd
  <2> QED
    BY <2>1, PosOfIs
<1>13. Table!HInit
  BY <1>1, <1>12 DEF Table!HInit
<1> QED
  BY <1>9, <1>10, <1>11, <1>13 DEF Inv

-----------------------------------------------------------------------------
(* The steps.  Each keeps the invariant, and is a step of HdmaTable or     *)
(* leaves its variables alone.                                             *)

LEMMA SameOperators ==
  ASSUME NEW t, NEW p
  PROVE  Table!Following(t, p) = Hdma!Following(t, p) /\ Table!Transfers(t, p) = Hdma!Transfers(t, p)
  BY DEF Table!Following, Hdma!Following, Table!Transfers, Hdma!Transfers, Table!Ended, Hdma!Ended,
         Table!LinesOf, Hdma!LinesOf, Table!Repeats, Hdma!Repeats, Table!Unit, Hdma!Unit,
         Table!UnitSize, Hdma!UnitSize, Table!Pattern, Hdma!Pattern

LEMMA PosOfNext ==
  posOf' = [c \in HdmaChans |-> PosOf(chan'[c], tab'[c])]
  BY DEF posOf, PosOf, Stopped

(* Steps that leave the channels of HDMA alone.                            *)
LEMMA OthersStep ==
  ASSUME HdmaInv, tab' = tab, \A c \in HdmaChans : chan'[c] = chan[c]
  PROVE  HdmaInv' /\ posOf' = posOf
<1>1. HdmaInv'
  BY DEF HdmaInv
<1>2. posOf' = posOf
  BY PosOfIs, PosOfNext
<1> QED
  BY <1>1, <1>2

LEMMA EnableStep ==
  ASSUME Inv, NEW S \in SUBSET (DmaChans \cap Games[game].chans), DMA_Enable(S)
  PROVE  Inv' /\ UNCHANGED Table!hvars
<1> DEFINE d == Begin(First(S), S \ {First(S)})
<1>1. /\ S # {} /\ starts < MaxStarts /\ starts' = starts + 1 /\ dma' = d
      /\ UNCHANGED <<game, chan, on, vcount, tab, out>>
  BY DEF DMA_Enable
<1>2. chan \in [Chans -> Channel] /\ game \in DOMAIN Games /\ starts \in 0 .. MaxStarts
      /\ on \subseteq HdmaChans /\ vcount \in 0 .. TotalLines
  BY DEF Inv, TypeOK
<1>3. First(S) \in S /\ First(S) \in DmaChans /\ S \ {First(S)} \in SUBSET DmaChans
  BY <1>1, FirstIn
<1>4. /\ d \in Transfer /\ d.c = First(S) /\ d.todo = S \ {First(S)}
      /\ d.i <= Len(Pattern(chan[First(S)].mode)) /\ TransferAt(d, chan[First(S)])
  BY <1>2, <1>3, Begins
<1> HIDE DEF d
<1>5. TypeOK'
  <2>1. starts' \in 0 .. MaxStarts
    BY <1>1, <1>2, Constants
  <2> QED
    BY <1>1, <1>2, <1>4, <2>1 DEF TypeOK
<1>6. TransferInv'
  BY <1>1, <1>4 DEF TransferInv
<1>7. HdmaInv' /\ posOf' = posOf
  BY <1>1, OthersStep DEF Inv
<1> QED
  BY <1>1, <1>5, <1>6, <1>7 DEF Inv, Table!hvars

LEMMA ByteStep ==
  ASSUME Inv, DmaByte
  PROVE  Inv' /\ UNCHANGED Table!hvars
<1> DEFINE ch == chan[dma.c]
           e == Moved(dma, ch.mode, ch.step, ch.port)
<1>1. /\ dma # None /\ (dma.sent = 0 \/ ~Finished(dma)) /\ dma' = e
      /\ UNCHANGED <<game, starts, chan, on, vcount, tab, out>>
  BY DEF DmaByte
<1>2. /\ chan \in [Chans -> Channel] /\ game \in DOMAIN Games /\ starts \in 0 .. MaxStarts
      /\ on \subseteq HdmaChans /\ vcount \in 0 .. TotalLines
      /\ dma \in Transfer /\ dma.c \notin dma.todo /\ dma.i <= Len(Pattern(ch.mode))
  BY <1>1 DEF Inv, TypeOK
<1>3. TransferAt(dma, ch)
  BY <1>1 DEF Inv, TransferInv
<1>4. ch \in Channel
  <2>1. dma.c \in Chans
    BY <1>2 DEF Transfer, Chans
  <2> QED
    BY <1>2, <2>1
<1>5. /\ e \in Transfer /\ e.c = dma.c /\ e.todo = dma.todo
      /\ e.i <= Len(Pattern(ch.mode)) /\ TransferAt(e, ch)
  <2> HIDE DEF ch
  <2> QED
    BY <1>1, <1>2, <1>3, <1>4, Moves
<1> HIDE DEF e
<1>6. TypeOK'
  BY <1>1, <1>2, <1>5 DEF TypeOK
<1>7. TransferInv'
  BY <1>1, <1>5 DEF TransferInv
<1>8. HdmaInv' /\ posOf' = posOf
  BY <1>1, OthersStep DEF Inv
<1> QED
  BY <1>1, <1>6, <1>7, <1>8 DEF Inv, Table!hvars

LEMMA ChannelDoneStep ==
  ASSUME Inv, DmaChannelDone
  PROVE  Inv' /\ UNCHANGED Table!hvars
<1> DEFINE n == First(dma.todo)
           d == Begin(n, dma.todo \ {n})
<1>1. /\ dma # None
      /\ chan' = [chan EXCEPT ![dma.c].a1 = dma.memaddr, ![dma.c].das = 0]
      /\ dma' = IF dma.todo = {} THEN None ELSE d
      /\ UNCHANGED <<game, starts, on, vcount, tab, out>>
  BY DEF DmaChannelDone
<1>2. /\ chan \in [Chans -> Channel] /\ game \in DOMAIN Games /\ starts \in 0 .. MaxStarts
      /\ on \subseteq HdmaChans /\ vcount \in 0 .. TotalLines
      /\ dma \in Transfer /\ dma.c \notin dma.todo
  BY <1>1 DEF Inv, TypeOK
<1>3. /\ dma.c \in DmaChans /\ dma.c \in Chans /\ dma.c \notin HdmaChans
      /\ dma.todo \in SUBSET DmaChans /\ dma.memaddr \in 0 .. Size - 1
  BY <1>2, Constants DEF Transfer, Chans
<1>4. chan' \in [Chans -> Channel] /\ \A c \in Chans : c # dma.c => chan'[c] = chan[c]
  <2> DEFINE e == [chan[dma.c] EXCEPT !.a1 = dma.memaddr, !.das = 0]
  <2>1. 0 \in 0 .. Size - 1
    BY Constants
  <2>2. e \in Channel
    <3> DEFINE f == chan[dma.c]
               a == dma.memaddr
    <3>1. f \in Channel /\ a \in 0 .. Size - 1
      BY <1>2, <1>3
    <3> HIDE DEF f, a
    <3>2. [f EXCEPT !.a1 = a, !.das = 0] \in Channel
      BY <2>1, <3>1 DEF Channel
    <3> QED
      BY <3>2 DEF f, a
  <2>3. chan' = [chan EXCEPT ![dma.c] = e]
    BY <1>1, <1>2, <1>3
  <2> HIDE DEF e
  <2> QED
    BY <1>2, <1>3, <2>2, <2>3
<1>5. dma.todo # {} =>
        /\ d \in Transfer /\ d.c = n /\ d.todo = dma.todo \ {n} /\ n \in dma.todo
        /\ d.i <= Len(Pattern(chan[n].mode)) /\ TransferAt(d, chan[n])
  <2> HAVE dma.todo # {}
  <2>1. n \in dma.todo /\ n \in DmaChans /\ dma.todo \ {n} \in SUBSET DmaChans
    BY <1>3, FirstIn
  <2> HIDE DEF n
  <2> QED
    BY <1>2, <2>1, Begins
<1>6. dma.todo # {} => chan'[n] = chan[n]
  BY <1>2, <1>3, <1>4, <1>5 DEF Chans
<1> HIDE DEF n, d
<1>7. TypeOK'
  BY <1>1, <1>2, <1>4, <1>5, <1>6 DEF TypeOK
<1>8. TransferInv'
  BY <1>1, <1>5, <1>6 DEF TransferInv
<1>9. \A c \in HdmaChans : chan'[c] = chan[c]
  BY <1>3, <1>4 DEF Chans
<1>10. HdmaInv' /\ posOf' = posOf
  BY <1>1, <1>9, OthersStep DEF Inv
<1> QED
  BY <1>1, <1>7, <1>8, <1>10 DEF Inv, Table!hvars

LEMMA LengthStep ==
  ASSUME Inv, NEW c \in DmaChans \cap Games[game].chans, NEW n \in Games[game].lengths,
         WriteLength(c, n)
  PROVE  Inv' /\ UNCHANGED Table!hvars
<1>1. /\ dma = None /\ chan' = [chan EXCEPT ![c].das = n]
      /\ UNCHANGED <<game, starts, on, vcount, dma, tab, out>>
  BY DEF WriteLength
<1>2. /\ chan \in [Chans -> Channel] /\ game \in DOMAIN Games /\ starts \in 0 .. MaxStarts
      /\ on \subseteq HdmaChans /\ vcount \in 0 .. TotalLines
  BY DEF Inv, TypeOK
<1>3. n \in 0 .. Size - 1 /\ c \in Chans /\ c \notin HdmaChans
  BY <1>2, SnesDmaAssumption, Constants DEF Chans
<1>4. chan' \in [Chans -> Channel] /\ \A k \in Chans : k # c => chan'[k] = chan[k]
  <2> DEFINE e == [chan[c] EXCEPT !.das = n]
  <2>1. e \in Channel
    BY <1>2, <1>3 DEF Channel
  <2>2. chan' = [chan EXCEPT ![c] = e]
    BY <1>1, <1>2, <1>3
  <2> HIDE DEF e
  <2> QED
    BY <1>2, <1>3, <2>1, <2>2
<1>5. TypeOK'
  BY <1>1, <1>2, <1>4 DEF TypeOK
<1>6. TransferInv'
  BY <1>1 DEF TransferInv
<1>7. \A k \in HdmaChans : chan'[k] = chan[k]
  BY <1>3, <1>4 DEF Chans
<1>8. HdmaInv' /\ posOf' = posOf
  BY <1>1, <1>7, OthersStep DEF Inv
<1> QED
  BY <1>1, <1>5, <1>6, <1>8 DEF Inv, Table!hvars

LEMMA BlankStep ==
  ASSUME Inv, BlankLine
  PROVE  Inv' /\ UNCHANGED Table!hvars
<1>1. /\ vcount \in Height .. TotalLines - 1 /\ vcount' = vcount + 1
      /\ UNCHANGED <<game, starts, chan, on, dma, tab, out>>
  BY DEF BlankLine
<1>2. vcount' \in 0 .. TotalLines
  BY <1>1, Constants
<1>3. TypeOK' /\ TransferInv'
  BY <1>1, <1>2 DEF Inv, TypeOK, TransferInv
<1>4. HdmaInv' /\ posOf' = posOf
  BY <1>1, OthersStep DEF Inv
<1> QED
  BY <1>1, <1>3, <1>4 DEF Inv, Table!hvars

LEMMA FlagStep ==
  ASSUME Inv, NEW S \in SUBSET (HdmaChans \cap Games[game].chans), WriteHdmaFlag(S)
  PROVE  Inv' /\ Table!HNext
<1>1. on' = S /\ UNCHANGED <<game, starts, chan, vcount, dma, tab, out>>
  BY DEF WriteHdmaFlag
<1>2. TypeOK' /\ TransferInv'
  BY <1>1 DEF Inv, TypeOK, TransferInv
<1>3. HdmaInv' /\ posOf' = posOf
  BY <1>1, OthersStep DEF Inv
<1>4. Table!Switch(S) /\ S \in SUBSET HdmaChans
  BY <1>1, <1>3 DEF Table!Switch
<1> QED
  BY <1>2, <1>3, <1>4 DEF Inv, Table!HNext

(* The channels of HDMA move on together.                                  *)
LEMMA ChannelsStep ==
  ASSUME Inv, dma = None, UNCHANGED <<game, starts, on, dma, tab>>, vcount' \in 0 .. TotalLines,
         DOMAIN chan' = Chans, \A c \in Chans : c \in on \/ chan'[c] = chan[c],
         chan' = [c \in Chans |-> chan'[c]],
         \A c \in on : chan'[c] \in Channel /\ ChannelInv(chan'[c], tab[c])
  PROVE  Inv'
<1>1. /\ chan \in [Chans -> Channel] /\ game \in DOMAIN Games /\ starts \in 0 .. MaxStarts
      /\ on \subseteq HdmaChans /\ DOMAIN tab = HdmaChans
      /\ \A c \in HdmaChans : ChannelInv(chan[c], tab[c])
  BY DEF Inv, TypeOK, HdmaInv
<1>2. chan' \in [Chans -> Channel]
  BY <1>1
<1>3. \A c \in HdmaChans : ChannelInv(chan'[c], tab[c])
  BY <1>1 DEF Chans
<1>4. TypeOK'
  BY <1>1, <1>2 DEF TypeOK
<1>5. TransferInv'
  BY DEF TransferInv
<1>6. HdmaInv'
  BY <1>1, <1>3 DEF HdmaInv
<1> QED
  BY <1>4, <1>5, <1>6 DEF Inv

LEMMA FrameStep ==
  ASSUME Inv, DMA_ReloadHDMA
  PROVE  Inv' /\ Table!HNext
<1> DEFINE e(c) == [NextEntry(chan[c], tab[c], chan[c].a1) EXCEPT !.pause = FALSE]
<1>1. /\ dma = None /\ vcount' = 0
      /\ chan' = [c \in Chans |-> IF c \in on THEN e(c) ELSE chan[c]]
      /\ out' = [c \in HdmaChans |-> <<>>]
      /\ UNCHANGED <<game, starts, on, dma, tab>>
  BY DEF DMA_ReloadHDMA
<1>2. /\ chan \in [Chans -> Channel] /\ on \subseteq HdmaChans
      /\ \A c \in HdmaChans : c \in Chans /\ ChannelInv(chan[c], tab[c])
  BY DEF Inv, TypeOK, HdmaInv, Chans
<1>3. \A c \in HdmaChans :
        e(c) \in Channel /\ ChannelInv(e(c), tab[c]) /\ PosOf(e(c), tab[c]) = [entry |-> 1, line |-> 0]
  <2> TAKE c \in HdmaChans
  <2>1. chan[c] \in Channel /\ ChannelInv(chan[c], tab[c])
    BY <1>2
  <2> QED
    BY <2>1, Reloads
<1> HIDE DEF e
<1>4. /\ \A c \in on : c \in HdmaChans /\ chan'[c] = e(c)
      /\ \A c \in Chans : c \in on \/ chan'[c] = chan[c]
      /\ chan' = [c \in Chans |-> chan'[c]] /\ DOMAIN chan' = Chans
  BY <1>1, <1>2
<1>5. vcount' \in 0 .. TotalLines
  BY <1>1, Constants
<1>6. \A c \in on : chan'[c] \in Channel /\ ChannelInv(chan'[c], tab[c])
  BY <1>3, <1>4
<1>7. Inv'
  BY <1>1, <1>4, <1>5, <1>6, ChannelsStep
<1>8. posOf' = [c \in HdmaChans |-> IF c \in on THEN [entry |-> 1, line |-> 0] ELSE posOf[c]]
  <2>1. \A c \in HdmaChans :
          PosOf(chan'[c], tab'[c]) = IF c \in on THEN [entry |-> 1, line |-> 0] ELSE posOf[c]
    <3> TAKE c \in HdmaChans
    <3>1. posOf[c] = PosOf(chan[c], tab[c])
      BY PosOfIs
    <3>2. CASE c \in on
      BY <1>1, <1>3, <1>4, <3>2
    <3>3. CASE c \notin on
      <4>1. chan'[c] = chan[c] /\ tab'[c] = tab[c]
        BY <1>1, <1>2, <1>4, <3>3
      <4> QED
        BY <3>1, <3>3, <4>1
    <3> QED
      BY <3>2, <3>3
  <2> QED
    BY <2>1, PosOfNext
<1>9. Table!StartFrame
  BY <1>1, <1>8 DEF Table!StartFrame
<1> QED
  BY <1>7, <1>9 DEF Table!HNext

LEMMA LineStep ==
  ASSUME Inv, DMA_DoHDMA
  PROVE  Inv' /\ Table!HNext
<1> DEFINE e(c) == LineOf(chan[c], tab[c])
           m(c) == IF ~chan[c].pause /\ chan[c].ntr # 0 THEN UnitOf(chan[c], tab[c]) ELSE <<>>
<1>1. /\ dma = None /\ vcount < Height /\ vcount' = vcount + 1
      /\ chan' = [c \in Chans |-> IF c \in on THEN e(c) ELSE chan[c]]
      /\ out' = [c \in HdmaChans |-> IF c \in on /\ ~chan[c].pause /\ chan[c].ntr # 0
                                     THEN UnitOf(chan[c], tab[c]) ELSE <<>>]
      /\ UNCHANGED <<game, starts, on, dma, tab>>
  BY DEF DMA_DoHDMA
<1>2. /\ chan \in [Chans -> Channel] /\ on \subseteq HdmaChans /\ vcount \in 0 .. TotalLines
      /\ \A c \in HdmaChans : c \in Chans /\ ChannelInv(chan[c], tab[c])
  BY DEF Inv, TypeOK, HdmaInv, Chans
<1>3. \A c \in HdmaChans :
        /\ e(c) \in Channel /\ ChannelInv(e(c), tab[c])
        /\ PosOf(e(c), tab[c]) = Table!Following(tab[c], posOf[c])
        /\ m(c) = Table!Transfers(tab[c], posOf[c])
  <2> TAKE c \in HdmaChans
  <2>1. chan[c] \in Channel /\ ChannelInv(chan[c], tab[c])
    BY <1>2
  <2>2. posOf[c] = PosOf(chan[c], tab[c])
    BY PosOfIs
  <2>3. /\ e(c) \in Channel /\ ChannelInv(e(c), tab[c])
        /\ PosOf(e(c), tab[c]) = Hdma!Following(tab[c], PosOf(chan[c], tab[c]))
        /\ m(c) = Hdma!Transfers(tab[c], PosOf(chan[c], tab[c]))
    BY <2>1, LineFollows
  <2> QED
    BY <2>2, <2>3, SameOperators
<1> HIDE DEF e
<1>4. /\ \A c \in on : c \in HdmaChans /\ chan'[c] = e(c)
      /\ \A c \in Chans : c \in on \/ chan'[c] = chan[c]
      /\ chan' = [c \in Chans |-> chan'[c]] /\ DOMAIN chan' = Chans
  BY <1>1, <1>2
<1>5. vcount' \in 0 .. TotalLines
  BY <1>1, <1>2, SnesDmaAssumption
<1>6. \A c \in on : chan'[c] \in Channel /\ ChannelInv(chan'[c], tab[c])
  BY <1>3, <1>4
<1>7. Inv'
  BY <1>1, <1>4, <1>5, <1>6, ChannelsStep
<1>8. posOf' = [c \in HdmaChans |-> IF c \in on THEN Table!Following(tab[c], posOf[c]) ELSE posOf[c]]
  <2>1. \A c \in HdmaChans :
          PosOf(chan'[c], tab'[c]) = IF c \in on THEN Table!Following(tab[c], posOf[c]) ELSE posOf[c]
    <3> TAKE c \in HdmaChans
    <3>1. posOf[c] = PosOf(chan[c], tab[c])
      BY PosOfIs
    <3>2. CASE c \in on
      BY <1>1, <1>3, <1>4, <3>2
    <3>3. CASE c \notin on
      <4>1. chan'[c] = chan[c] /\ tab'[c] = tab[c]
        BY <1>1, <1>2, <1>4, <3>3
      <4> QED
        BY <3>1, <3>3, <4>1
    <3> QED
      BY <3>2, <3>3
  <2> QED
    BY <2>1, PosOfNext
<1>9. out' = [c \in HdmaChans |-> IF c \in on THEN Table!Transfers(tab[c], posOf[c]) ELSE <<>>]
  <2>1. out' = [c \in HdmaChans |-> IF c \in on THEN m(c) ELSE <<>>]
    BY <1>1
  <2> HIDE DEF m
  <2> QED
    BY <1>3, <2>1
<1>10. Table!Line
  BY <1>1, <1>8, <1>9 DEF Table!Line
<1> QED
  BY <1>7, <1>10 DEF Table!HNext

LEMMA Steps ==
  ASSUME Inv, [Next]_vars
  PROVE  Inv' /\ [Table!HNext]_Table!hvars
<1>1. CASE DMA_ReloadHDMA
  BY <1>1, FrameStep
<1>2. CASE DMA_DoHDMA
  BY <1>2, LineStep
<1>3. CASE BlankLine
  BY <1>3, BlankStep
<1>4. CASE DmaByte
  BY <1>4, ByteStep
<1>5. CASE DmaChannelDone
  BY <1>5, ChannelDoneStep
<1>6. ASSUME NEW S \in SUBSET (HdmaChans \cap Games[game].chans), WriteHdmaFlag(S)
      PROVE  Inv' /\ [Table!HNext]_Table!hvars
  BY <1>6, FlagStep
<1>7. ASSUME NEW S \in SUBSET (DmaChans \cap Games[game].chans), DMA_Enable(S)
      PROVE  Inv' /\ [Table!HNext]_Table!hvars
  BY <1>7, EnableStep
<1>8. ASSUME NEW c \in DmaChans \cap Games[game].chans, NEW n \in Games[game].lengths,
             WriteLength(c, n)
      PROVE  Inv' /\ [Table!HNext]_Table!hvars
  BY <1>8, LengthStep
<1>9. CASE UNCHANGED vars
  <2>1. UNCHANGED <<game, chan, on, vcount, dma, starts, tab, out>>
    BY <1>9 DEF vars
  <2>2. HdmaInv' /\ posOf' = posOf
    BY <2>1, OthersStep DEF Inv
  <2>3. TypeOK' /\ TransferInv'
    BY <2>1 DEF Inv, TypeOK, TransferInv
  <2> QED
    BY <2>1, <2>2, <2>3 DEF Inv, Table!hvars
<1> QED
  BY <1>1, <1>2, <1>3, <1>4, <1>5, <1>6, <1>7, <1>8, <1>9 DEF Next

-----------------------------------------------------------------------------
(* The theorems.                                                           *)

(* The invariant: every variable is in its range, the locals of a general  *)
(* transfer are functions of the bytes it has moved, and the registers of  *)
(* each HDMA channel are at a place of its table or at its end.            *)
THEOREM DmaInvariance == Spec => []Inv
<1>1. Init => Inv
  BY Initially
<1>2. Inv /\ [Next]_vars => Inv'
  BY Steps
<1> QED
  BY <1>1, <1>2, PTL DEF Spec

(* General transfers move each byte between the right address and port and *)
(* as many as they were told to, for every mode, step, start and length    *)
(* (dma.c, DMA_Enable).                                                    *)
THEOREM TransfersAreRight == Spec => []TransfersRight
<1>1. Inv => TransfersRight
  <2> SUFFICES ASSUME Inv PROVE BytesRight
    BY DEF Inv, TransfersRight
  <2> SUFFICES ASSUME dma # None, dma.sent > 0
               PROVE  LET ch == chan[dma.c]
                          n == dma.sent - 1
                          p == Pattern(ch.mode)
                      IN  /\ dma.moved = <<(dma.from + Distance(ch.step, n)) % Size,
                                           ch.port + p[(n % Len(p)) + 1]>>
                          /\ dma.sent <= Total(dma)
                          /\ (Finished(dma) => dma.sent = Total(dma))
    BY DEF BytesRight, Distance, Total
  <2>1. TransferAt(dma, chan[dma.c]) /\ dma \in Transfer /\ chan[dma.c] \in Channel
    BY DEF Inv, TransferInv, TypeOK, Transfer, Chans
  <2>2. Finished(dma) => dma.sent = Total(dma)
    BY <2>1, Done
  <2> QED
    BY <2>1, <2>2 DEF TransferAt
<1> QED
  BY <1>1, DmaInvariance, PTL

(* HDMA does line by line what the tables mean (dma.c, DMA_ReloadHDMA and  *)
(* DMA_DoHDMA): every step maps to a step of HdmaTable or leaves its       *)
(* variables alone, with the positions read off the registers.             *)
THEOREM HdmaImplementsTable == Spec => ImplementsTable
<1>1. Init => Table!HInit
  BY Initially
<1>2. Inv /\ [Next]_vars => [Table!HNext]_Table!hvars
  BY Steps
<1> QED
  BY <1>1, <1>2, DmaInvariance, PTL DEF Spec, ImplementsTable, Table!HSpec
=============================================================================
