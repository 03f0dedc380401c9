------------------------------ MODULE Mailbox ------------------------------
(***************************************************************************)
(* A mailbox of the thread kernel (thread.c), on top of Kernel: a ring of  *)
(* pointers with a semaphore that counts them.  Mailbox_Send and           *)
(* Mailbox_Recv mask interrupts around the semaphore call and the ring     *)
(* update, but the semaphore call may switch threads in the middle:        *)
(* Mailbox_Send has changed the ring by then, Mailbox_Recv not yet.        *)
(* Mailbox_Delete frees the semaphore first, and the ring only when it is  *)
(* switched to again.                                                      *)
(***************************************************************************)
EXTENDS Kernel

CONSTANTS
  CountSema,   (* the semaphore of the mailbox                             *)
  Msgs,        (* the pointers that are sent                               *)
  Size         (* capacity                                                 *)

ASSUME MailboxAssumption ==
  /\ Semas = {CountSema}
  /\ Size \in Nat \ {0} /\ Size <= MaxCount
  /\ None \notin Msgs

VARIABLES
  box,       (* "none", "live", or "dying": its semaphore is gone          *)
  deleter,   (* the thread inside of Mailbox_Delete                        *)
  data,      (* Data[]                                                     *)
  readPtr, writePtr, boxCount,   (* ReadPtr, WritePtr, Count               *)
  got        (* the last message Mailbox_Recv gave to each thread (history *)
             (* variable)                                                  *)

boxVars  == <<box, deleter, data, readPtr, writePtr, boxCount, got>>
mvars    == <<vars, boxVars>>

Slots == 0 .. Size - 1
Advance(p) == IF p + 1 >= Size THEN 0 ELSE p + 1

-----------------------------------------------------------------------------
MInit ==
  /\ Init
  /\ box = "none" /\ deleter = None
  /\ data = [i \in Slots |-> None]
  /\ readPtr = 0 /\ writePtr = 0 /\ boxCount = 0
  /\ got = [t \in Threads |-> None]

Mailbox_Create ==
  /\ box = "none"
  /\ Semaphore_Create(CountSema, 0)
  /\ box' = "live"
  /\ data' = [i \in Slots |-> None]
  /\ readPtr' = 0 /\ writePtr' = 0 /\ boxCount' = 0
  /\ UNCHANGED <<deleter, got>>

Mailbox_Delete ==
  /\ box = "live"
  /\ Semaphore_Delete(CountSema)
  /\ box' = "dying" /\ deleter' = cur
  /\ UNCHANGED <<data, readPtr, writePtr, boxCount, got>>

(* free() of the mailbox, once Semaphore_Delete has returned. *)
Mailbox_Free ==
  /\ Client(cur)
  /\ deleter = cur
  /\ box' = "none" /\ deleter' = None
  /\ UNCHANGED <<vars, data, readPtr, writePtr, boxCount, got>>

(* A full mailbox makes Mailbox_Send return 0 and changes nothing.         *)
(* (Variant: no test for a full ring.)                                     *)
Mailbox_Send_Unbounded(d) ==
  /\ box = "live"
  /\ Semaphore_Post(CountSema, 1)
  /\ data' = [data EXCEPT ![writePtr] = d]
  /\ writePtr' = Advance(writePtr)
  /\ boxCount' = boxCount + 1
  /\ UNCHANGED <<box, deleter, readPtr, got>>
Mailbox_Send(d) ==
  /\ box = "live"
  /\ boxCount < Size
  /\ Semaphore_Post(CountSema, 1)
  /\ data' = [data EXCEPT ![writePtr] = d]
  /\ writePtr' = Advance(writePtr)
  /\ boxCount' = boxCount + 1
  /\ UNCHANGED <<box, deleter, readPtr, got>>

(* What Mailbox_Recv does with a permit of the semaphore: it finds the     *)
(* ring empty and returns 0, or takes the oldest message.  (Variant:       *)
(* ReadPtr runs on past the end of Data.)                                  *)
TakeMessage_NoWrap ==
  /\ UNCHANGED <<box, deleter, data, writePtr>>
  /\ got' = [got EXCEPT ![cur] = data[readPtr]]
  /\ readPtr' = IF readPtr < Size - 1 THEN readPtr + 1 ELSE readPtr
  /\ boxCount' = boxCount - 1
TakeMessage ==
  /\ UNCHANGED <<box, deleter, data, writePtr>>
  /\ IF boxCount < 1
     THEN UNCHANGED <<readPtr, boxCount, got>>
     ELSE /\ got' = [got EXCEPT ![cur] = data[readPtr]]
          /\ readPtr' = Advance(readPtr)
          /\ boxCount' = boxCount - 1

(* (Variant: Mailbox_Recv does not look at what Semaphore_Wait returned    *)
(* to it.)                                                                 *)
ReturnMailbox_Always == ReturnSemaphore /\ TakeMessage

Mailbox_Recv ==
  /\ box = "live"
  /\ Semaphore_Wait(CountSema)
  /\ IF count[CountSema] # 0 THEN TakeMessage ELSE UNCHANGED boxVars

ReturnMailbox ==
  /\ ReturnSemaphore
  /\ IF cur \in timedOut THEN UNCHANGED boxVars ELSE TakeMessage

(* Everything else the kernel does.  The thread inside of Mailbox_Delete   *)
(* does nothing else before the free, unless interrupted.                  *)
KernelStep ==
  /\ \/ (deleter = cur => phase = "irq") /\ (ThreadOp \/ MutexOp \/ EventOp)
     \/ Thread_Schedule \/ ReturnMutex \/ ReturnOther \/ Irq
  /\ UNCHANGED boxVars

MNext ==
  \/ Mailbox_Create \/ Mailbox_Delete \/ Mailbox_Free
  \/ \E d \in Msgs : Mailbox_Send(d)
  \/ Mailbox_Recv \/ ReturnMailbox
  \/ KernelStep

MSpec == MInit /\ [][MNext]_mvars

-----------------------------------------------------------------------------
(* The values the variables of the mailbox range over. *)
BoxTypeOK ==
  /\ box \in {"none", "live", "dying"}
  /\ deleter \in Threads \cup {None}
  /\ data \in [Slots -> Msgs \cup {None}]
  /\ readPtr \in Slots /\ writePtr \in Slots
  /\ boxCount \in 0 .. Size
  /\ got \in [Threads -> Msgs \cup {None}]

(* The slot k places after slot p.                                         *)
SlotOf(p, k) == IF p + k >= Size THEN p + k - Size ELSE p + k

(* The messages in the n slots of the ring d from slot p, the oldest first. *)
Pending(d, p, n) == [k \in 1 .. n |-> d[SlotOf(p, k - 1)]]
Buffer == Pending(data, readPtr, boxCount)

(* The semaphore and the ring agree whenever a thread can look at them,    *)
(* although Mailbox_Send posts in the middle of its update and             *)
(* Mailbox_Recv takes from the two in two different steps.                 *)
RingSound ==
  /\ deleter # None <=> box = "dying"
  /\ box = "live" <=> CountSema \in live
  /\ box = "live" => count[CountSema] = boxCount
  /\ box = "live" => writePtr = SlotOf(readPtr, boxCount)
  /\ \A k \in 0 .. boxCount - 1 : data[SlotOf(readPtr, k)] \in Msgs

(* Mailbox_Recv never comes back from the semaphore with a permit to an    *)
(* empty ring (thread.c: "??? this should not happen").                    *)
NeverBroken ==
  phase = "run" /\ call[cur] = CountSema /\ cur \notin timedOut => boxCount >= 1

(* The mailbox is a bounded first-in first-out queue: no message is lost,  *)
(* duplicated or overtaken, whoever sends from whatever context.           *)
Fifo == INSTANCE BoundedFifo
          WITH open <- box = "live",
               buffer <- IF box = "live" THEN Buffer ELSE <<>>
ImplementsFifo == Fifo!Spec
=============================================================================
