--------------------------- MODULE MailboxProofs ---------------------------
(***************************************************************************)
(* Proofs about Mailbox, for every capacity, set of messages and set of    *)
(* threads: its steps are steps of Kernel, so that the kernel's inductive  *)
(* invariant IInv holds; with it the ring and the semaphore agree, and the *)
(* mailbox is a bounded queue.                                             *)
(***************************************************************************)
EXTENDS Mailbox, KernelProofs, SequenceTheorems

(* Every step of the mailbox is a step of the kernel, or none.             *)
LEMMA KernelBelow == ASSUME [MNext]_mvars PROVE [Next]_vars
  <1> USE MailboxAssumption, KernelAssumption
  <1>1. CASE Mailbox_Create
    <2>1. 0 \in 0 .. MaxCount /\ CountSema \in Semas
      OBVIOUS
    <2>2. SemaOp
      BY <1>1, <2>1 DEF Mailbox_Create, SemaOp
    <2> QED
      BY <2>2 DEF Next
  <1>2. CASE Mailbox_Delete
    BY <1>2 DEF Mailbox_Delete, SemaOp, Next
  <1>3. CASE Mailbox_Free
    BY <1>3 DEF Mailbox_Free
  <1>4. ASSUME NEW d \in Msgs, Mailbox_Send(d) PROVE Next
    <2>1. 1 \in 1 .. MaxCount /\ CountSema \in Semas
      OBVIOUS
    <2>2. SemaOp
      BY <1>4, <2>1 DEF Mailbox_Send, SemaOp
    <2> QED
      BY <2>2 DEF Next
  <1>5. CASE Mailbox_Recv
    BY <1>5 DEF Mailbox_Recv, SemaOp, Next
  <1>6. CASE ReturnMailbox
    BY <1>6 DEF ReturnMailbox, Returns, Next
  <1>7. CASE KernelStep
    BY <1>7 DEF KernelStep, Returns, Next
  <1>8. CASE UNCHANGED mvars
    BY <1>8 DEF mvars
  <1> QED
    BY <1>1, <1>2, <1>3, <1>4, <1>5, <1>6, <1>7, <1>8 DEF MNext

(* The kernel under the mailbox is the kernel.                             *)
THEOREM KernelInvariant == MSpec => []IInv
  <1>1. MInit => IInv
    BY InitInv DEF MInit
  <1>2. IInv /\ [MNext]_mvars => IInv'
    BY NextInv, KernelBelow
  <1> QED
    BY <1>1, <1>2, PTL DEF MSpec

-----------------------------------------------------------------------------
(* Slots of the ring. *)

LEMMA SlotFacts ==
  ASSUME NEW p \in Slots
  PROVE  /\ Advance(p) \in Slots
         /\ SlotOf(p, 0) = p
         /\ \A k \in 0 .. Size : SlotOf(p, k) \in Slots
         /\ \A k \in 0 .. Size - 1 : SlotOf(p, k + 1) = Advance(SlotOf(p, k))
         /\ \A k \in 0 .. Size - 1 : SlotOf(Advance(p), k) = SlotOf(p, k + 1)
         /\ \A j, k \in 0 .. Size - 1 : SlotOf(p, j) = SlotOf(p, k) => j = k
  BY MailboxAssumption DEF SlotOf, Advance, Slots

BoxInv == BoxTypeOK /\ RingSound

LEMMA BoxInit == ASSUME MInit PROVE BoxInv
  BY MailboxAssumption, Distinct
  DEF MInit, Init, BoxInv, BoxTypeOK, RingSound, Slots, SlotOf

(* Steps that change neither the ring nor the semaphore.                   *)
LEMMA SameBox ==
  ASSUME BoxInv, UNCHANGED boxVars, UNCHANGED count,
         CountSema \in live' <=> CountSema \in live
  PROVE  BoxInv'
  BY DEF BoxInv, boxVars, BoxTypeOK, RingSound

(* Taking the oldest message, with the permit that was there for it.       *)
LEMMA TakeInv ==
  ASSUME BoxInv, TypeOK, box = "live", count[CountSema] # 0, TakeMessage,
         count' = [count EXCEPT ![CountSema] = @ - 1], UNCHANGED live
  PROVE  BoxInv'
  <1>0. BoxTypeOK /\ RingSound /\ readPtr \in Slots
    BY DEF BoxInv, BoxTypeOK
  <1>1. boxCount \in 1 .. Size /\ count[CountSema] = boxCount /\ Size \in Nat
    BY <1>0, MailboxAssumption DEF RingSound, BoxTypeOK
  <1>2. /\ got' = [got EXCEPT ![cur] = data[readPtr]]
        /\ readPtr' = Advance(readPtr) /\ boxCount' = boxCount - 1
        /\ UNCHANGED <<box, deleter, data, writePtr>>
    BY <1>1 DEF TakeMessage
  <1>3. BoxTypeOK'
    <2>1. readPtr' \in Slots
      BY <1>0, <1>2, SlotFacts
    <2>2. boxCount' \in 0 .. Size
      BY <1>1, <1>2
    <2>3. got' \in [Threads -> Msgs \cup {None}]
      BY <1>0, <1>2 DEF BoxTypeOK
    <2> QED
      BY <1>0, <1>2, <2>1, <2>2, <2>3 DEF BoxTypeOK
  <1>4. RingSound'
    <2>1. count'[CountSema] = boxCount'
      BY <1>1, <1>2, MailboxAssumption DEF TypeOK
    <2>2. writePtr' = SlotOf(readPtr', boxCount')
      <3>1. boxCount - 1 \in 0 .. Size - 1 /\ boxCount - 1 + 1 = boxCount
        BY <1>1
      <3>2. SlotOf(Advance(readPtr), boxCount - 1) = SlotOf(readPtr, boxCount)
        BY <1>0, <3>1, SlotFacts
      <3>3. writePtr = SlotOf(readPtr, boxCount)
        BY <1>0 DEF RingSound
      <3> QED
        BY <1>2, <3>2, <3>3
    <2>3. ASSUME NEW k \in 0 .. boxCount' - 1 PROVE data'[SlotOf(readPtr', k)] \in Msgs
      <3>1. k \in 0 .. Size - 1 /\ k + 1 \in 0 .. boxCount - 1
        BY <1>1, <1>2
      <3>2. SlotOf(Advance(readPtr), k) = SlotOf(readPtr, k + 1)
        BY <1>0, <3>1, SlotFacts
      <3>3. data[SlotOf(readPtr, k + 1)] \in Msgs
        BY <1>0, <3>1 DEF RingSound
      <3> QED
        BY <1>2, <3>2, <3>3
    <2> QED
      BY <1>0, <1>2, <2>1, <2>2, <2>3 DEF RingSound
  <1> QED
    BY <1>3, <1>4 DEF BoxInv

LEMMA SendInv ==
  ASSUME BoxInv, TypeOK, NEW d \in Msgs, Mailbox_Send(d) PROVE BoxInv'
  <1>0. BoxTypeOK /\ RingSound /\ readPtr \in Slots /\ writePtr \in Slots
    BY DEF BoxInv, BoxTypeOK
  <1>1. /\ boxCount \in 0 .. Size - 1 /\ boxCount' = boxCount + 1 /\ Size \in Nat
        /\ box = "live" /\ count[CountSema] = boxCount
        /\ writePtr = SlotOf(readPtr, boxCount)
        /\ writePtr' = Advance(writePtr)
        /\ data' = [data EXCEPT ![writePtr] = d]
        /\ UNCHANGED <<live, box, deleter, readPtr, got>>
        /\ count' = [count EXCEPT ![CountSema] = @ + 1]
    BY <1>0, MailboxAssumption DEF RingSound, BoxTypeOK, Mailbox_Send, Semaphore_Post
  <1>2. BoxTypeOK'
    <2>1. Advance(writePtr) \in Slots
      BY <1>0, SlotFacts
    <2>2. boxCount' \in 0 .. Size
      BY <1>1
    <2> QED
      BY <1>0, <1>1, <2>1, <2>2 DEF BoxTypeOK
  <1>3. RingSound'
    <2>1. count'[CountSema] = boxCount'
      BY <1>1, MailboxAssumption DEF TypeOK
    <2>2. writePtr' = SlotOf(readPtr', boxCount')
      BY <1>0, <1>1, SlotFacts, ZenonT(30)
    <2>3. ASSUME NEW k \in 0 .. boxCount' - 1 PROVE data'[SlotOf(readPtr', k)] \in Msgs
      <3>1. k \in 0 .. Size - 1 /\ k \in 0 .. Size
        BY <1>1
      <3>2. SlotOf(readPtr, k) \in Slots
        BY <1>0, <3>1, SlotFacts
      <3>3. CASE k = boxCount
        BY <1>0, <1>1, <3>2, <3>3 DEF BoxTypeOK
      <3>4. CASE k # boxCount
        <4>1. k \in 0 .. boxCount - 1
          BY <1>1, <3>1, <3>4
        <4>2. SlotOf(readPtr, k) # writePtr
          <5>1. SlotOf(readPtr, k) # SlotOf(readPtr, boxCount)
            BY <1>0, <1>1, <3>1, <3>4, SMTT(30) DEF SlotOf, Slots
          <5> QED
            BY <1>1, <5>1
        <4>3. data[SlotOf(readPtr, k)] \in Msgs
          BY <1>0, <4>1 DEF RingSound
        <4>4. data'[SlotOf(readPtr, k)] = data[SlotOf(readPtr, k)]
          BY <1>0, <1>1, <3>2, <4>2 DEF BoxTypeOK
        <4> QED
          BY <1>1, <4>3, <4>4
      <3> QED
        BY <3>3, <3>4
    <2> QED
      BY <1>0, <1>1, <2>1, <2>2, <2>3 DEF RingSound
  <1> QED
    BY <1>2, <1>3 DEF BoxInv

(* What the rest of the kernel does leaves the semaphore alone.            *)
LEMMA OtherSteps ==
  ASSUME KernelStep PROVE count' = count /\ (CountSema \in live' <=> CountSema \in live)
  <1> USE MailboxAssumption, Distinct
  <1>1. CASE ThreadOp
    BY <1>1 DEF ThreadOp, Thread_Create, Thread_Delete, Thread_Wait, Thread_Terminate,
                Thread_Sleep, Thread_Yield, WaitFor, NoTimeoutFree, objVars
  <1>2. CASE MutexOp
    BY <1>2 DEF MutexOp, Mutex_Create, Create, Mutex_Delete, Delete, Mutex_Acquire, Granted,
                Mutex_Release, WaitFor, NoTimeoutFree, objVars
  <1>3. CASE EventOp
    BY <1>3 DEF EventOp, EventMask_Create, Create, EventMask_Delete, Delete, EventMask_Wait,
                EventMask_Clear, EventMask_Signal, WaitFor, NoTimeoutFree, objVars
  <1>4. CASE Thread_Schedule \/ Irq
    BY <1>4 DEF Thread_Schedule, Irq, IrqEnter, Thread_Tick, Thread_PostIRQ, objVars
  <1>5. CASE ReturnMutex \/ ReturnOther
    BY <1>5 DEF ReturnMutex, ReturnOther, Granted, objVars
  <1> QED
    BY <1>1, <1>2, <1>3, <1>4, <1>5 DEF KernelStep

(* A thread that got through Semaphore_Wait after waiting finds a permit.  *)
LEMMA PermitThere ==
  ASSUME IInv, BoxInv, phase = "run", call[cur] = CountSema, cur \notin timedOut
  PROVE  box = "live" /\ count[CountSema] # 0 /\ boxCount >= 1
  <1>1. CountSema \in live /\ count[CountSema] # 0
    BY MailboxAssumption, Distinct DEF IInv, WakeSound, Grantable
  <1>2. box = "live" /\ count[CountSema] = boxCount
    BY <1>1 DEF BoxInv, RingSound
  <1> QED
    BY <1>1, <1>2 DEF BoxInv, BoxTypeOK

LEMMA BoxNext == ASSUME IInv, BoxInv, [MNext]_mvars PROVE BoxInv'
  <1> USE MailboxAssumption
  <1>0. TypeOK /\ cur \in Threads /\ None \notin Threads
    BY Distinct DEF IInv, TypeOK
  <1>1. CASE Mailbox_Create
    BY <1>0, <1>1 DEF Mailbox_Create, Semaphore_Create, Create, BoxInv, BoxTypeOK, RingSound,
                Slots, SlotOf, TypeOK
  <1>2. CASE Mailbox_Delete
    BY <1>0, <1>2 DEF Mailbox_Delete, Semaphore_Delete, Delete, BoxInv, BoxTypeOK, RingSound, SlotOf
  <1>3. CASE Mailbox_Free
    BY <1>0, <1>3 DEF Mailbox_Free, vars, objVars, BoxInv, BoxTypeOK, RingSound, SlotOf
  <1>4. CASE \E d \in Msgs : Mailbox_Send(d)
    BY <1>0, <1>4, SendInv
  <1>5. CASE Mailbox_Recv
    <2>1. CASE count[CountSema] # 0
      <3>1. count' = [count EXCEPT ![CountSema] = @ - 1] /\ UNCHANGED live /\ TakeMessage
        BY <1>5, <2>1 DEF Mailbox_Recv, Semaphore_Wait
      <3> QED
        BY <1>0, <1>5, <2>1, <3>1, TakeInv DEF Mailbox_Recv
    <2>2. CASE count[CountSema] = 0
      BY <1>5, <2>2, SameBox DEF Mailbox_Recv, Semaphore_Wait, WaitFor, NoTimeoutFree, objVars
    <2> QED
      BY <2>1, <2>2
  <1>6. CASE ReturnMailbox
    <2>1. phase = "run" /\ call[cur] = CountSema /\ UNCHANGED live
      BY <1>6 DEF ReturnMailbox, ReturnSemaphore, Return
    <2>2. CASE cur \in timedOut
      BY <1>6, <2>1, <2>2, SameBox DEF ReturnMailbox, ReturnSemaphore
    <2>3. CASE cur \notin timedOut
      <3>1. count' = [count EXCEPT ![CountSema] = @ - 1] /\ TakeMessage
        BY <1>6, <2>1, <2>3 DEF ReturnMailbox, ReturnSemaphore
      <3> QED
        BY <1>0, <2>1, <2>3, <3>1, PermitThere, TakeInv
    <2> QED
      BY <2>2, <2>3
  <1>7. CASE KernelStep
    BY <1>7, OtherSteps, SameBox DEF KernelStep
  <1>8. CASE UNCHANGED mvars
    BY <1>8, SameBox DEF mvars, vars, objVars
  <1> QED
    BY <1>1, <1>2, <1>3, <1>4, <1>5, <1>6, <1>7, <1>8 DEF MNext

(* The count of the semaphore is the number of messages in the ring.       *)
THEOREM RingAgrees == MSpec => []RingSound
  <1>1. MInit => BoxInv
    BY BoxInit
  <1>2. IInv /\ BoxInv /\ [MNext]_mvars => BoxInv'
    BY BoxNext
  <1>3. BoxInv => RingSound
    BY DEF BoxInv
  <1> QED
    BY <1>1, <1>2, <1>3, KernelInvariant, PTL DEF MSpec

(* The message "MAILBOX BROKEN" is never printed.                          *)
THEOREM MailboxNeverBroken == MSpec => []NeverBroken
  <1>1. MInit => BoxInv
    BY BoxInit
  <1>2. IInv /\ BoxInv /\ [MNext]_mvars => BoxInv'
    BY BoxNext
  <1>3. IInv /\ BoxInv => NeverBroken
    BY PermitThere DEF NeverBroken
  <1> QED
    BY <1>1, <1>2, <1>3, KernelInvariant, PTL DEF MSpec

-----------------------------------------------------------------------------
(* The mailbox implements the bounded queue.                               *)

(* n messages in the ring are a sequence of length n.                      *)
LEMMA PendingFacts ==
  ASSUME NEW d, NEW p, NEW n \in 0 .. Size,
         \A k \in 0 .. n - 1 : d[SlotOf(p, k)] \in Msgs
  PROVE  /\ Pending(d, p, n) \in Seq(Msgs) /\ Len(Pending(d, p, n)) = n
         /\ \A k \in 1 .. n : Pending(d, p, n)[k] = d[SlotOf(p, k - 1)]
  <1>1. n \in Nat
    BY MailboxAssumption
  <1>2. ASSUME NEW k \in 1 .. n PROVE d[SlotOf(p, k - 1)] \in Msgs
    <2>1. k - 1 \in 0 .. n - 1
      BY <1>1
    <2> QED
      BY <2>1
  <1>3. Pending(d, p, n) \in [1 .. n -> Msgs]
    BY <1>2 DEF Pending
  <1>4. Pending(d, p, n) \in Seq(Msgs) /\ Len(Pending(d, p, n)) = n
    BY <1>1, <1>3
  <1> QED
    BY <1>4 DEF Pending

(* A message written behind the others is appended.                        *)
LEMMA PendingAppend ==
  ASSUME NEW d, NEW e, NEW p, NEW n \in 0 .. Size - 1, NEW m \in Msgs,
         \A k \in 0 .. n - 1 : d[SlotOf(p, k)] \in Msgs,
         e[SlotOf(p, n)] = m,
         \A k \in 0 .. n - 1 : e[SlotOf(p, k)] = d[SlotOf(p, k)]
  PROVE  Pending(e, p, n + 1) = Append(Pending(d, p, n), m)
  <1>1. n \in 0 .. Size /\ n + 1 \in 0 .. Size /\ n \in Nat
    BY MailboxAssumption
  <1>2. \A k \in 0 .. (n + 1) - 1 : e[SlotOf(p, k)] \in Msgs
    BY <1>1
  <1>4. /\ Pending(e, p, n + 1) \in Seq(Msgs) /\ Len(Pending(e, p, n + 1)) = n + 1
        /\ \A k \in 1 .. n + 1 : Pending(e, p, n + 1)[k] = e[SlotOf(p, k - 1)]
    BY <1>1, <1>2, PendingFacts
  <1>5. /\ Pending(d, p, n) \in Seq(Msgs) /\ Len(Pending(d, p, n)) = n
        /\ \A k \in 1 .. n : Pending(d, p, n)[k] = d[SlotOf(p, k - 1)]
    BY <1>1, PendingFacts
  <1>6. ASSUME NEW k \in 1 .. n + 1
        PROVE  Pending(e, p, n + 1)[k] = Append(Pending(d, p, n), m)[k]
    <2>1. CASE k = n + 1
      <3>1. Pending(e, p, n + 1)[n + 1] = e[SlotOf(p, n)]
        <4>1. n + 1 \in 1 .. n + 1 /\ (n + 1) - 1 = n
          BY <1>1
        <4>2. Pending(e, p, n + 1)[n + 1] = e[SlotOf(p, (n + 1) - 1)]
          BY <1>4, <4>1
        <4> QED
          BY <4>1, <4>2
      <3>2. Append(Pending(d, p, n), m)[n + 1] = m
        BY <1>1, <1>5
      <3> QED
        BY <2>1, <3>1, <3>2
    <2>2. CASE k # n + 1
      <3>1. k \in 1 .. n /\ k - 1 \in 0 .. n - 1
        BY <1>1, <2>2
      <3>2. Pending(e, p, n + 1)[k] = d[SlotOf(p, k - 1)]
        BY <1>4, <3>1
      <3>3. Append(Pending(d, p, n), m)[k] = d[SlotOf(p, k - 1)]
        BY <1>5, <3>1
      <3> QED
        BY <3>2, <3>3
    <2> QED
      BY <2>1, <2>2
  <1>7. Append(Pending(d, p, n), m) \in Seq(Msgs) /\ Len(Append(Pending(d, p, n), m)) = n + 1
    BY <1>5
  <1> QED
    BY <1>4, <1>6, <1>7, SeqEqual

(* The message at the read pointer is the first, and the rest follow it.   *)
LEMMA PendingTail ==
  ASSUME NEW d, NEW p \in Slots, NEW n \in 1 .. Size,
         \A k \in 0 .. n - 1 : d[SlotOf(p, k)] \in Msgs
  PROVE  /\ Pending(d, p, n) # <<>> /\ Head(Pending(d, p, n)) = d[p]
         /\ Tail(Pending(d, p, n)) = Pending(d, Advance(p), n - 1)
  <1>1. /\ n \in 0 .. Size /\ n - 1 \in 0 .. Size /\ n \in Nat \ {0} /\ Advance(p) \in Slots
        /\ SlotOf(p, 0) = p
        /\ \A k \in 0 .. n - 2 : SlotOf(Advance(p), k) = SlotOf(p, k + 1)
    BY MailboxAssumption, SMTT(30) DEF SlotOf, Slots, Advance
  <1>2. \A k \in 0 .. (n - 1) - 1 : d[SlotOf(Advance(p), k)] \in Msgs
    <2> SUFFICES ASSUME NEW k \in 0 .. (n - 1) - 1 PROVE d[SlotOf(Advance(p), k)] \in Msgs
      OBVIOUS
    <2>1. k \in 0 .. n - 2 /\ k + 1 \in 0 .. n - 1
      BY <1>1
    <2> QED
      BY <1>1, <2>1
  <1>3. /\ Pending(d, p, n) \in Seq(Msgs) /\ Len(Pending(d, p, n)) = n
        /\ \A k \in 1 .. n : Pending(d, p, n)[k] = d[SlotOf(p, k - 1)]
    BY <1>1, PendingFacts
  <1>4. LET q == Pending(d, Advance(p), n - 1)
        IN  /\ q \in Seq(Msgs) /\ Len(q) = n - 1
            /\ \A k \in 1 .. n - 1 : q[k] = d[SlotOf(Advance(p), k - 1)]
    BY <1>1, <1>2, PendingFacts
  <1>5. Pending(d, p, n) # <<>>
    BY <1>1, <1>3
  <1>6. Head(Pending(d, p, n)) = d[p]
    BY <1>1, <1>3
  <1>7. /\ Tail(Pending(d, p, n)) \in Seq(Msgs) /\ Len(Tail(Pending(d, p, n))) = n - 1
        /\ \A k \in 1 .. n - 1 : Tail(Pending(d, p, n))[k] = Pending(d, p, n)[k + 1]
    BY <1>1, <1>3, <1>5, HeadTailProperties
  <1>8. ASSUME NEW k \in 1 .. n - 1
        PROVE  Tail(Pending(d, p, n))[k] = Pending(d, Advance(p), n - 1)[k]
    <2>1. k - 1 \in 0 .. n - 2 /\ k + 1 \in 1 .. n /\ (k + 1) - 1 = k /\ (k - 1) + 1 = k
      BY <1>1
    <2>2. Tail(Pending(d, p, n))[k] = d[SlotOf(p, k)]
      BY <1>3, <1>7, <2>1
    <2>3. Pending(d, Advance(p), n - 1)[k] = d[SlotOf(p, k)]
      BY <1>1, <1>4, <2>1
    <2> QED
      BY <2>2, <2>3
  <1>9. Tail(Pending(d, p, n)) = Pending(d, Advance(p), n - 1)
    BY <1>4, <1>7, <1>8, SeqEqual
  <1> QED
    BY <1>5, <1>6, <1>9

LEMMA FifoInit == MInit => Fifo!Init
  <1> SUFFICES ASSUME MInit PROVE Fifo!Init
    OBVIOUS
  <1>1. ~(box = "live") /\ got = [t \in Threads |-> None]
    BY DEF MInit
  <1> QED
    BY <1>1 DEF Fifo!Init

(* Steps that leave the ring alone.                                        *)
LEMMA SameFifo ==
  ASSUME UNCHANGED boxVars PROVE [Fifo!Next]_Fifo!vars
  BY DEF boxVars, Fifo!vars, Buffer, Pending, SlotOf

LEMMA FifoSend ==
  ASSUME BoxInv, NEW d \in Msgs, Mailbox_Send(d) PROVE Fifo!Next
  <1>0. /\ boxCount \in 0 .. Size - 1 /\ readPtr \in Slots /\ writePtr \in Slots
        /\ data \in [Slots -> Msgs \cup {None}]
        /\ \A k \in 0 .. boxCount - 1 : data[SlotOf(readPtr, k)] \in Msgs
        /\ writePtr = SlotOf(readPtr, boxCount)
    BY MailboxAssumption DEF BoxInv, BoxTypeOK, RingSound, Mailbox_Send
  <1>1. /\ box = "live" /\ box' = "live" /\ boxCount' = boxCount + 1
        /\ readPtr' = readPtr /\ got' = got /\ data' = [data EXCEPT ![writePtr] = d]
    BY DEF Mailbox_Send
  <1>2. data'[SlotOf(readPtr, boxCount)] = d
    BY <1>0, <1>1
  <1>3. ASSUME NEW k \in 0 .. boxCount - 1
        PROVE  data'[SlotOf(readPtr, k)] = data[SlotOf(readPtr, k)]
    <2>1. SlotOf(readPtr, k) \in Slots /\ SlotOf(readPtr, k) # SlotOf(readPtr, boxCount)
      BY <1>0, MailboxAssumption, SMTT(30) DEF SlotOf, Slots
    <2> QED
      BY <1>0, <1>1, <2>1
  <1>4. Pending(data', readPtr, boxCount + 1) = Append(Pending(data, readPtr, boxCount), d)
    <2>1. PICK e : e = data'
      OBVIOUS
    <2>2. /\ boxCount \in 0 .. Size - 1
          /\ \A k \in 0 .. boxCount - 1 : data[SlotOf(readPtr, k)] \in Msgs
          /\ e[SlotOf(readPtr, boxCount)] = d
          /\ \A k \in 0 .. boxCount - 1 : e[SlotOf(readPtr, k)] = data[SlotOf(readPtr, k)]
      BY <1>0, <1>2, <1>3, <2>1
    <2>3. Pending(e, readPtr, boxCount + 1) = Append(Pending(data, readPtr, boxCount), d)
      BY <2>2, PendingAppend
    <2> QED
      BY <2>1, <2>3
  <1>5. Buffer' = Append(Buffer, d)
    BY <1>1, <1>4 DEF Buffer
  <1>6. Len(Buffer) = boxCount
    BY <1>0, MailboxAssumption, PendingFacts DEF Buffer
  <1>7. Len(Buffer) < Size
    BY <1>0, <1>6, MailboxAssumption
  <1>8. Fifo!Send(d)
    BY <1>1, <1>5, <1>7 DEF Fifo!Send
  <1> QED
    BY <1>8 DEF Fifo!Next

LEMMA FifoTake ==
  ASSUME BoxInv, cur \in Threads, box = "live", boxCount >= 1, TakeMessage PROVE Fifo!Next
  <1>0. /\ boxCount \in 1 .. Size /\ readPtr \in Slots
        /\ \A k \in 0 .. boxCount - 1 : data[SlotOf(readPtr, k)] \in Msgs
    BY MailboxAssumption DEF BoxInv, BoxTypeOK, RingSound
  <1>1. /\ box' = "live" /\ data' = data /\ got' = [got EXCEPT ![cur] = data[readPtr]]
        /\ readPtr' = Advance(readPtr) /\ boxCount' = boxCount - 1
    BY <1>0 DEF TakeMessage
  <1>2. Buffer # <<>> /\ Head(Buffer) = data[readPtr]
    BY <1>0, PendingTail DEF Buffer
  <1>3. Tail(Buffer) = Buffer'
    BY <1>0, <1>1, PendingTail DEF Buffer
  <1>4. Fifo!Recv(cur)
    BY <1>1, <1>2, <1>3 DEF Fifo!Recv
  <1> QED
    BY <1>4 DEF Fifo!Next

LEMMA FifoNext ==
  ASSUME IInv, BoxInv, [MNext]_mvars PROVE [Fifo!Next]_Fifo!vars
  <1>0. cur \in Threads
    BY Distinct DEF IInv, TypeOK
  <1>1. CASE Mailbox_Create
    <2>1. boxCount' = 0 /\ Buffer' = <<>>
      BY <1>1 DEF Mailbox_Create, Buffer, Pending
    <2>2. Fifo!Create
      BY <1>1, <2>1 DEF Mailbox_Create, Fifo!Create
    <2> QED
      BY <2>2 DEF Fifo!Next
  <1>2. CASE Mailbox_Delete
    <2>1. Fifo!Delete
      BY <1>2 DEF Mailbox_Delete, Fifo!Delete
    <2> QED
      BY <2>1 DEF Fifo!Next
  <1>3. CASE Mailbox_Free
    <2>1. box = "dying" /\ box' = "none" /\ got' = got
      BY <1>0, <1>3, Distinct DEF Mailbox_Free, BoxInv, RingSound
    <2> QED
      BY <2>1 DEF Fifo!vars
  <1>4. CASE \E d \in Msgs : Mailbox_Send(d)
    BY <1>4, FifoSend
  <1>5. CASE Mailbox_Recv
    <2>1. CASE count[CountSema] # 0
      <3>1. box = "live" /\ TakeMessage
        BY <1>5, <2>1 DEF Mailbox_Recv
      <3>2. boxCount >= 1
        BY <2>1, <3>1 DEF BoxInv, BoxTypeOK, RingSound
      <3> QED
        BY <1>0, <3>1, <3>2, FifoTake
    <2>2. CASE count[CountSema] = 0
      BY <1>5, <2>2, SameFifo DEF Mailbox_Recv
    <2> QED
      BY <2>1, <2>2
  <1>6. CASE ReturnMailbox
    <2>1. phase = "run" /\ call[cur] = CountSema
      BY <1>6, MailboxAssumption DEF ReturnMailbox, ReturnSemaphore, Return
    <2>2. CASE cur \in timedOut
      BY <1>6, <2>2, SameFifo DEF ReturnMailbox
    <2>3. CASE cur \notin timedOut
      <3>1. TakeMessage
        BY <1>6, <2>3 DEF ReturnMailbox
      <3> QED
        BY <1>0, <2>1, <2>3, <3>1, PermitThere, FifoTake
    <2> QED
      BY <2>2, <2>3
  <1>7. CASE KernelStep
    BY <1>7, SameFifo DEF KernelStep
  <1>8. CASE UNCHANGED mvars
    BY <1>8, SameFifo DEF mvars
  <1> QED
    BY <1>1, <1>2, <1>3, <1>4, <1>5, <1>6, <1>7, <1>8 DEF MNext

(* The mailbox of thread.c is a bounded first-in first-out queue: every    *)
(* send and every receive is one, and nothing else touches its messages.   *)
THEOREM MailboxRefinement == MSpec => ImplementsFifo
  <1>1. MInit => BoxInv
    BY BoxInit
  <1>2. IInv /\ BoxInv /\ [MNext]_mvars => BoxInv'
    BY BoxNext
  <1>3. IInv /\ BoxInv /\ [MNext]_mvars => [Fifo!Next]_Fifo!vars
    BY FifoNext
  <1> QED
    BY <1>1, <1>2, <1>3, FifoInit, KernelInvariant, PTL DEF MSpec, ImplementsFifo, Fifo!Spec
=============================================================================
