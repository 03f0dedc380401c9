---------------------------- MODULE KernelProofs ----------------------------
(***************************************************************************)
(* Proofs about the thread kernel, for every set of threads and objects.   *)
(* IInv, the conjunction of the safety properties and of what ties the     *)
(* thread that runs to the call it is inside of, is inductive: one lemma   *)
(* per kernel function shows that the function preserves it.               *)
(***************************************************************************)
EXTENDS Kernel, SequenceTheorems, FiniteSetTheorems, TLAPS

(* None, Asleep, the threads and the objects are different things.         *)
LEMMA Distinct ==
  /\ None \notin Targets /\ Asleep \notin Targets /\ None # Asleep
  /\ Threads \subseteq Targets /\ Objects \subseteq Targets
  /\ Mutexes \subseteq Objects /\ Semas \subseteq Objects /\ Events \subseteq Objects
  /\ Mutexes \cap Semas = {} /\ Mutexes \cap Events = {} /\ Semas \cap Events = {}
  /\ Objects \cap Threads = {}
  /\ Main \in Threads /\ Idle \in Threads
  BY KernelAssumption DEF Targets, Objects

LEMMA InitInv == ASSUME Init PROVE IInv
  <1> USE KernelAssumption
  <1>1. TypeOK
    <2>1. queue \in [Priorities -> Seq(Threads)]
      <3>1. \A t \in Threads : <<t>> \in Seq(Threads)
        OBVIOUS
      <3>2. <<>> \in Seq(Threads)
        OBVIOUS
      <3> QED
        BY <3>1, <3>2 DEF Init
    <2>2. rr \in [Priorities -> Threads \cup {None}]
      BY DEF Init
    <2>3. status \in [Threads -> {"none", "created", "live", "terminated", "deleted"}]
      BY DEF Init
    <2> QED
      BY <2>1, <2>2, <2>3 DEF Init, TypeOK
  <1>2. Registered /\ NoLostWakeup /\ WakeSound /\ MutexHeld
    BY DEF Init, Registered, NoLostWakeup, WakeSound, MutexHeld, Targets, Objects
  <1>3. Woken /\ CurQueued
    BY Distinct DEF Init, Woken, CurQueued, Queued
  <1>4. InQueue
    <2> SUFFICES ASSUME NEW t \in Threads, Queued(t)
                 PROVE  \E i \in 1 .. Len(queue[Prio[t]]) : queue[Prio[t]][i] = t
      BY DEF InQueue
    <2>1. t \in {Main, Idle}
      BY DEF Init, Queued
    <2>2. queue[Prio[t]] = <<t>>
      BY <2>1 DEF Init, Priorities
    <2> QED
      BY <2>2
  <1> QED
    BY <1>1, <1>2, <1>3, <1>4 DEF IInv

-----------------------------------------------------------------------------
(* Steps that leave the wait tables and the objects alone. *)

LEMMA CreateThreadInv ==
  ASSUME IInv, NEW t \in Threads, Thread_Create(t) PROVE IInv'
  <1> USE DEF IInv, Thread_Create, cpuVars, waitVars, objVars
  <1>1. PICK p \in Priorities : p = Prio[t]
    BY KernelAssumption
  <1>2. queue[p] \in Seq(Threads) /\ Append(queue[p], t) \in Seq(Threads)
    BY <1>1 DEF TypeOK
  <1>3. TypeOK'
    <2>1. queue' \in [Priorities -> Seq(Threads)] /\ rr' \in [Priorities -> Threads \cup {None}]
      BY <1>1, <1>2 DEF TypeOK, Queue_Add
    <2> QED
      BY <2>1 DEF TypeOK
  <1>4. Registered' /\ WakeSound' /\ MutexHeld'
    BY DEF Registered, WakeSound, Grantable, MutexHeld
  <1>5. NoLostWakeup'
    BY DEF NoLostWakeup, Thread_CanWakeup, TypeOK
  <1>6. Woken' /\ CurQueued'
    BY DEF Woken, CurQueued, Queued, TypeOK
  <1>7. InQueue'
    <2> SUFFICES ASSUME NEW u \in Threads, Queued(u)'
                 PROVE  \E i \in 1 .. Len(queue'[Prio[u]]) : queue'[Prio[u]][i] = u
      BY DEF InQueue
    <2>1. CASE u = t
      <3>1. queue'[p] = Append(queue[p], t)
        BY <1>1 DEF Queue_Add, TypeOK
      <3> QED
        BY <1>1, <1>2, <2>1, <3>1
    <2>2. CASE u # t
      <3>1. PICK i \in 1 .. Len(queue[Prio[u]]) : queue[Prio[u]][i] = u
        BY <2>2 DEF InQueue, Queued, TypeOK
      <3>2. Prio[u] \in Priorities /\ queue[Prio[u]] \in Seq(Threads)
        BY KernelAssumption DEF TypeOK
      <3>3. queue'[Prio[u]] = queue[Prio[u]] \/ queue'[Prio[u]] = Append(queue[Prio[u]], t)
        BY <3>2 DEF Queue_Add, TypeOK
      <3> QED
        BY <3>1, <3>2, <3>3
    <2> QED
      BY <2>1, <2>2
  <1> QED
    BY <1>3, <1>4, <1>5, <1>6, <1>7

LEMMA DeleteThreadInv ==
  ASSUME IInv, NEW t \in Threads, Thread_Delete(t) PROVE IInv'
  <1> USE DEF IInv, Thread_Delete, cpuVars, waitVars, objVars
  <1>1. TypeOK'
    BY DEF TypeOK
  <1>2. Registered' /\ WakeSound' /\ MutexHeld'
    BY DEF Registered, WakeSound, Grantable, MutexHeld
  <1>3. NoLostWakeup'
    BY DEF NoLostWakeup, Thread_CanWakeup, TypeOK
  <1>4. Woken' /\ CurQueued' /\ InQueue'
    BY DEF Woken, CurQueued, InQueue, Queued, TypeOK
  <1> QED
    BY <1>1, <1>2, <1>3, <1>4

(* Thread_Yield, interrupt entry and exit only move phase.                 *)
LEMMA PhaseInv ==
  ASSUME IInv, Thread_Yield \/ IrqEnter \/ Thread_PostIRQ PROVE IInv'
  <1> USE DEF IInv, Thread_Yield, IrqEnter, Thread_PostIRQ, Client, taskVars, waitVars, objVars
  <1>1. TypeOK'
    BY DEF TypeOK
  <1>2. Registered' /\ MutexHeld'
    BY DEF Registered, MutexHeld
  <1>3. NoLostWakeup'
    BY DEF NoLostWakeup, Thread_CanWakeup
  <1>4. WakeSound'
    BY DEF WakeSound, Woken
  <1>5. Woken' /\ CurQueued' /\ InQueue'
    BY Distinct DEF Woken, CurQueued, InQueue, Queued
  <1> QED
    BY <1>1, <1>2, <1>3, <1>4, <1>5

-----------------------------------------------------------------------------
(* Waiting. *)

(* Registering with an object that does not have what is wanted keeps the  *)
(* books.                                                                  *)
LEMMA WaitForInv ==
  ASSUME IInv, Client(cur),
         NEW c \in Targets \cup {Asleep}, NEW m \in SUBSET Bits,
         c \in Objects => c \in live,
         c \in Threads => Queued(c),
         c \in Mutexes => acquired[c] # 0,
         c \in Semas => count[c] = 0,
         c \in Events => val[c] \cap m = {},
         NEW kind, ArmTimeout(kind), WaitFor(c, m)
  PROVE  IInv'
  <1> USE Distinct DEF IInv, Client, WaitFor, taskVars, objVars
  <1>1. /\ cur \in Threads /\ phase = "run" /\ call[cur] = None
        /\ phase' = "sched" /\ schedReq' = schedReq /\ cur' = cur
    BY DEF TypeOK, Thread_ReqReschedule
  <1>2. /\ waitTimeout' \in [Threads -> TimeoutIds \cup {None}]
        /\ timeout' \in [TimeoutIds -> Threads \cup {None}]
    <2>1. CASE Timeout_Add
      <3>1. PICK i \in TimeoutIds : /\ timeout' = [timeout EXCEPT ![i] = cur]
                                    /\ waitTimeout' = [waitTimeout EXCEPT ![cur] = i]
        BY <2>1 DEF Timeout_Add
      <3> QED
        BY <1>1, <3>1 DEF TypeOK
    <2>2. CASE waitTimeout' = [waitTimeout EXCEPT ![cur] = None] /\ UNCHANGED timeout
      BY <1>1, <2>2 DEF TypeOK
    <2> QED
      BY <2>1, <2>2 DEF ArmTimeout
  <1>3. TypeOK'
    <2>1. waiters' \in [Targets -> SUBSET Threads] /\ waitObj' \in [Threads -> Targets \cup {None}]
      BY <1>1 DEF TypeOK
    <2>2. call' \in [Threads -> Targets \cup {None, Asleep}] /\ mask' \in [Threads -> SUBSET Bits]
      BY <1>1 DEF TypeOK
    <2> QED
      BY <1>1, <1>2, <2>1, <2>2 DEF TypeOK
  <1>4. Registered'
    <2>1. waitObj[cur] = None /\ \A o \in Targets : cur \notin waiters[o]
      BY <1>1 DEF CurQueued, Registered, TypeOK
    <2>2. ASSUME NEW t \in Threads, NEW o \in Targets
          PROVE  t \in waiters'[o] <=> waitObj'[t] = o
      BY <1>1, <2>1 DEF Registered, TypeOK
    <2>3. ASSUME NEW t \in waiting'
          PROVE  call'[t] # None /\ waitObj'[t] = IF call'[t] = Asleep THEN None ELSE call'[t]
      BY <1>1 DEF Registered, TypeOK
    <2>4. ASSUME NEW t \in Threads, waitObj'[t] # None PROVE t \in waiting'
      BY <1>1, <2>4 DEF Registered, TypeOK
    <2>5. ASSUME NEW o \in Objects, waiters'[o] # {} PROVE o \in live'
      BY <1>1, <2>5 DEF Registered, TypeOK
    <2> QED
      BY <2>2, <2>3, <2>4, <2>5 DEF Registered
  <1>5. NoLostWakeup'
    <2> SUFFICES ASSUME NEW t \in waiting', Thread_CanWakeup(t)' PROVE t \in check'
      BY DEF NoLostWakeup
    <2>1. CASE t = cur
      BY <1>1, <2>1 DEF Thread_CanWakeup, TypeOK, Queued
    <2>2. CASE t # cur
      BY <1>1, <2>2 DEF NoLostWakeup, Thread_CanWakeup, TypeOK
    <2> QED
      BY <2>1, <2>2
  <1>6. WakeSound' /\ MutexHeld'
    BY <1>1 DEF WakeSound, MutexHeld
  <1>7. Woken' /\ CurQueued' /\ InQueue'
    BY <1>1 DEF Woken, CurQueued, InQueue, Queued, TypeOK
  <1> QED
    BY <1>3, <1>4, <1>5, <1>6, <1>7

LEMMA NoTimeoutFreeInv ==
  ASSUME IInv, NEW kind, NoTimeoutFree(kind) PROVE IInv'
  <1> USE DEF IInv, NoTimeoutFree, cpuVars, taskVars, objVars
  <1>1. TypeOK'
    BY DEF TypeOK
  <1>2. Registered' /\ WakeSound' /\ MutexHeld'
    BY DEF Registered, WakeSound, Grantable, MutexHeld
  <1>3. NoLostWakeup'
    BY DEF NoLostWakeup, Thread_CanWakeup
  <1>4. Woken' /\ CurQueued' /\ InQueue'
    BY DEF Woken, CurQueued, InQueue, Queued
  <1> QED
    BY <1>1, <1>2, <1>3, <1>4

LEMMA ThreadWaitInv ==
  ASSUME IInv, NEW t \in Threads, Thread_Wait(t) PROVE IInv'
  <1>1. CASE ArmTimeout("thread") /\ WaitFor(t, {})
    BY <1>1, WaitForInv, Distinct DEF Thread_Wait
  <1>2. CASE NoTimeoutFree("thread")
    BY <1>2, NoTimeoutFreeInv
  <1> QED
    BY <1>1, <1>2 DEF Thread_Wait

LEMMA SleepInv ==
  ASSUME IInv, Thread_Sleep PROVE IInv'
  <1>1. CASE ArmTimeout("sleep") /\ WaitFor(Asleep, {})
    BY <1>1, WaitForInv, Distinct DEF Thread_Sleep
  <1>2. CASE NoTimeoutFree("sleep")
    BY <1>2, NoTimeoutFreeInv
  <1> QED
    BY <1>1, <1>2 DEF Thread_Sleep

LEMMA SemaphoreWaitInv ==
  ASSUME IInv, NEW s \in Semas, Semaphore_Wait(s) PROVE IInv'
  <1>1. CASE count[s] = 0 /\ ArmTimeout(s) /\ WaitFor(s, {})
    BY <1>1, WaitForInv, Distinct DEF Semaphore_Wait
  <1>2. CASE NoTimeoutFree(s)
    BY <1>2, NoTimeoutFreeInv
  <1>3. CASE /\ count[s] # 0
             /\ count' = [count EXCEPT ![s] = @ - 1]
             /\ UNCHANGED <<cpuVars, taskVars, waitVars, live, acquired, owner, val, held>>
    <2> USE <1>3 DEF Semaphore_Wait, Client, IInv, cpuVars, taskVars, waitVars
    <2>1. TypeOK'
      BY DEF TypeOK
    <2>2. Registered' /\ WakeSound' /\ MutexHeld'
      BY DEF Registered, WakeSound, MutexHeld
    <2>3. NoLostWakeup'
      BY DEF NoLostWakeup, Thread_CanWakeup, TypeOK
    <2>4. Woken' /\ CurQueued' /\ InQueue'
      BY DEF Woken, CurQueued, InQueue, Queued
    <2> QED
      BY <2>1, <2>2, <2>3, <2>4
  <1> QED
    BY <1>1, <1>2, <1>3 DEF Semaphore_Wait

LEMMA EventWaitInv ==
  ASSUME IInv, NEW e \in Events, NEW m \in SUBSET Bits, EventMask_Wait(e, m) PROVE IInv'
  <1>1. CASE ArmTimeout(e) /\ WaitFor(e, m)
    BY <1>1, WaitForInv, Distinct DEF EventMask_Wait
  <1>2. CASE NoTimeoutFree(e)
    BY <1>2, NoTimeoutFreeInv
  <1> QED
    BY <1>1, <1>2 DEF EventMask_Wait

-----------------------------------------------------------------------------
(* Leaving a wait. *)

(* Thread_CancelWait of a set of waiting threads keeps the wait tables     *)
(* typed and consistent.                                                   *)
LEMMA CancelWaitBooks ==
  ASSUME TypeOK, Registered, NEW T \in SUBSET Threads, Thread_CancelWait(T),
         UNCHANGED <<call, mask, live>>
  PROVE  /\ Registered'
         /\ waiting' \subseteq Threads
         /\ waitObj' \in [Threads -> Targets \cup {None}]
         /\ waitTimeout' \in [Threads -> TimeoutIds \cup {None}]
         /\ waiters' \in [Targets -> SUBSET Threads]
         /\ timeout' \in [TimeoutIds -> Threads \cup {None}]
  <1> USE Distinct DEF Thread_CancelWait, Unregister, Timeout_Remove
  <1>1. /\ waiting' \subseteq Threads
        /\ waitObj' \in [Threads -> Targets \cup {None}]
        /\ waitTimeout' \in [Threads -> TimeoutIds \cup {None}]
        /\ waiters' \in [Targets -> SUBSET Threads]
        /\ timeout' \in [TimeoutIds -> Threads \cup {None}]
    BY DEF TypeOK
  <1>2. ASSUME NEW t \in Threads, NEW o \in Targets
        PROVE  t \in waiters'[o] <=> waitObj'[t] = o
    BY DEF Registered
  <1>3. ASSUME NEW t \in waiting'
        PROVE  call'[t] # None /\ waitObj'[t] = IF call'[t] = Asleep THEN None ELSE call'[t]
    BY DEF Registered, TypeOK
  <1>4. ASSUME NEW t \in Threads, waitObj'[t] # None PROVE t \in waiting'
    BY <1>4 DEF Registered
  <1>5. ASSUME NEW o \in Objects, waiters'[o] # {} PROVE o \in live'
    BY <1>5 DEF Registered
  <1> QED
    BY <1>1, <1>2, <1>3, <1>4, <1>5 DEF Registered

LEMMA TickInv == ASSUME IInv, Thread_Tick PROVE IInv'
  <1> USE DEF IInv, Thread_Tick, taskVars, objVars
  <1>1. PICK E \in SUBSET {i \in TimeoutIds : timeout[i] # None} :
          /\ timedOut' = timedOut \cup {timeout[i] : i \in E}
          /\ Thread_CancelWait({timeout[i] : i \in E})
    OBVIOUS
  <1> DEFINE T == {timeout[i] : i \in E}
  <1>2. T \in SUBSET Threads
    BY DEF TypeOK
  <1>3. phase = "irq" /\ phase' = "irq" /\ schedReq' = TRUE
    BY DEF Thread_ReqReschedule
  <1>4. timedOut' = timedOut \cup T /\ Thread_CancelWait(T)
    BY <1>1
  <1> HIDE DEF T
  <1>5. TypeOK' /\ Registered'
    <2>1. /\ Registered'
          /\ waiting' \subseteq Threads
          /\ waitObj' \in [Threads -> Targets \cup {None}]
          /\ waitTimeout' \in [Threads -> TimeoutIds \cup {None}]
          /\ waiters' \in [Targets -> SUBSET Threads]
          /\ timeout' \in [TimeoutIds -> Threads \cup {None}]
      BY <1>2, <1>4, CancelWaitBooks
    <2> QED
      BY <2>1, <1>2, <1>3, <1>4 DEF TypeOK
  <1>6. NoLostWakeup'
    BY <1>2, <1>4 DEF NoLostWakeup, Thread_CanWakeup, Thread_CancelWait, TypeOK
  <1>7. WakeSound' /\ MutexHeld'
    BY <1>3 DEF WakeSound, MutexHeld
  <1>8. Woken' /\ CurQueued' /\ InQueue'
    BY <1>2, <1>3, <1>4 DEF Woken, CurQueued, InQueue, Queued, Thread_CancelWait
  <1> QED
    BY <1>5, <1>6, <1>7, <1>8

(* The thread that Thread_Schedule wakes finds what it waits for.          *)
LEMMA ScheduleInv == ASSUME IInv, Thread_Schedule PROVE IInv'
  <1> USE DEF IInv, objVars
  <1>1. PICK t \in Threads :
          /\ Queued(t) /\ Ready(t)
          /\ check' = check \ {u \in waiting : u = t \/ ScannedBefore(u, t)}
          /\ \A u \in Threads : ScannedBefore(u, t) => ~Ready(u)
          /\ IF t \in waiting
             THEN Thread_CancelWait({t})
             ELSE UNCHANGED <<waiting, waiters, waitObj, timeout, waitTimeout>>
          /\ rr' = [rr EXCEPT ![Prio[t]] = t]
          /\ status' = [status EXCEPT ![t] = "live"]
          /\ cur' = t
    BY DEF Thread_Schedule
  <1>2. phase = "sched" /\ phase' = "run" /\ UNCHANGED <<schedReq, queue, timedOut, call, mask, objVars>>
    BY DEF Thread_Schedule
  <1>3. /\ Registered'
        /\ waiting' \subseteq Threads
        /\ waitObj' \in [Threads -> Targets \cup {None}]
        /\ waitTimeout' \in [Threads -> TimeoutIds \cup {None}]
        /\ waiters' \in [Targets -> SUBSET Threads]
        /\ timeout' \in [TimeoutIds -> Threads \cup {None}]
    <2>1. CASE t \in waiting
      BY <1>1, <1>2, <2>1, CancelWaitBooks
    <2>2. CASE t \notin waiting
      BY <1>1, <1>2, <2>2 DEF Registered, TypeOK
    <2> QED
      BY <2>1, <2>2
  <1>4. t \notin waiting' /\ \A u \in waiting' : u \in waiting /\ waitObj'[u] = waitObj[u]
    BY <1>1 DEF Thread_CancelWait, TypeOK
  <1>5. TypeOK'
    BY <1>1, <1>2, <1>3, KernelAssumption DEF TypeOK
  <1>6. \A u \in Threads : Queued(u)' <=> Queued(u)
    BY <1>1 DEF Queued, TypeOK
  <1>7. NoLostWakeup'
    <2> SUFFICES ASSUME NEW u \in waiting', Thread_CanWakeup(u)' PROVE u \in check'
      BY DEF NoLostWakeup
    <2>1. u \in waiting /\ u # t /\ u \in Threads
      BY <1>4 DEF TypeOK
    <2>2. Thread_CanWakeup(u)
      BY <1>1, <1>2, <1>4, <2>1 DEF Thread_CanWakeup, TypeOK, Queued
    <2>3. u \in check
      BY <2>1, <2>2 DEF NoLostWakeup
    <2>4. ~ScannedBefore(u, t)
      BY <1>1, <2>1, <2>2, <2>3 DEF Ready
    <2> QED
      BY <1>1, <2>1, <2>3, <2>4
  <1>8. WakeSound'
    <2> SUFFICES ASSUME call[t] # None, t \notin timedOut
                 PROVE  Grantable(call[t], mask[t])
      BY <1>1, <1>2 DEF WakeSound, Grantable
    <2>1. CASE t \in waiting
      <3>1. Thread_CanWakeup(t) /\ waitObj[t] = IF call[t] = Asleep THEN None ELSE call[t]
        BY <1>1, <2>1 DEF Ready, Registered
      <3>2. call[t] \in Objects => waitObj[t] = call[t] /\ t \in waiters[call[t]]
        BY <3>1, Distinct DEF Registered, TypeOK
      <3>3. call[t] \in Objects => call[t] \in live
        BY <3>2, Distinct DEF Registered
      <3> QED
        BY <3>1, <3>2, <3>3, Distinct DEF Thread_CanWakeup, Grantable
    <2>2. CASE t \notin waiting
      BY <1>2, <2>2, Distinct DEF Woken, Grantable
    <2> QED
      BY <2>1, <2>2
  <1>9. MutexHeld'
    BY <1>2 DEF MutexHeld
  <1>10. Woken'
    <2>1. \A u \in Threads : call[u] \in Objects /\ u \notin waiting' => u \in timedOut \/ u = t
      BY <1>1, <1>2, <1>4 DEF Woken, Thread_CancelWait
    <2> QED
      BY <1>1, <1>2, <2>1 DEF Woken
  <1>11. CurQueued' /\ InQueue'
    BY <1>1, <1>2, <1>4, <1>6 DEF CurQueued, InQueue
  <1> QED
    BY <1>3, <1>5, <1>7, <1>8, <1>9, <1>10, <1>11

-----------------------------------------------------------------------------
(* Thread_Terminate. *)

(* A sequence without its i-th element keeps all the others.               *)
LEMMA RemoveAt ==
  ASSUME NEW S, NEW q \in Seq(S), NEW i \in 1 .. Len(q)
  PROVE  LET r == SubSeq(q, 1, i - 1) \o SubSeq(q, i + 1, Len(q)) IN
         /\ r \in Seq(S)
         /\ Len(r) = Len(q) - 1
         /\ \A j \in 1 .. Len(q) : j # i => \E k \in 1 .. Len(r) : r[k] = q[j]
  <1> DEFINE f == SubSeq(q, 1, i - 1)
             g == SubSeq(q, i + 1, Len(q))
             r == f \o g
  <1>1. f \in Seq(S) /\ Len(f) = i - 1 /\ \A j \in 1 .. i - 1 : f[j] = q[j]
    BY SubSeqProperties
  <1>2. g \in Seq(S) /\ Len(g) = Len(q) - i /\ \A j \in 1 .. Len(q) - i : g[j] = q[i + j]
    BY SubSeqProperties
  <1> HIDE DEF f, g
  <1>3. /\ r \in Seq(S)
        /\ Len(r) = Len(f) + Len(g)
        /\ \A k \in 1 .. Len(f) + Len(g) :
             r[k] = IF k <= Len(f) THEN f[k] ELSE g[k - Len(f)]
    BY <1>1, <1>2, ConcatProperties
  <1> HIDE DEF r
  <1>4. Len(f) + Len(g) = Len(q) - 1
    BY <1>1, <1>2
  <1>5. ASSUME NEW j \in 1 .. Len(q), j # i PROVE \E k \in 1 .. Len(r) : r[k] = q[j]
    <2>1. CASE j < i
      <3>1. j \in 1 .. i - 1 /\ j \in 1 .. Len(f) + Len(g) /\ j <= Len(f)
        BY <1>1, <1>4, <2>1
      <3>2. r[j] = f[j] /\ f[j] = q[j]
        BY <1>1, <1>3, <3>1
      <3> QED
        BY <1>3, <3>1, <3>2
    <2>2. CASE j > i
      <3>1. /\ j - i \in 1 .. Len(q) - i
            /\ j - 1 \in 1 .. Len(q) - 1
            /\ ~(j - 1 <= i - 1)
            /\ j - 1 - (i - 1) = j - i
            /\ i + (j - i) = j
        BY <2>2
      <3>2. j - 1 \in 1 .. Len(f) + Len(g) /\ ~(j - 1 <= Len(f)) /\ j - 1 - Len(f) = j - i
        BY <1>1, <1>4, <3>1
      <3>3. r[j - 1] = g[j - i]
        BY <1>3, <3>2
      <3>4. g[j - i] = q[j]
        BY <1>2, <3>1
      <3> QED
        BY <1>3, <3>2, <3>3, <3>4
    <2> QED
      BY <1>5, <2>1, <2>2
  <1> QED
    BY <1>3, <1>4, <1>5 DEF r, f, g

LEMMA TerminateInv == ASSUME IInv, Thread_Terminate PROVE IInv'
  <1> USE DEF IInv
  <1> DEFINE J == waiters[cur]
             p == Prio[cur]
             i == Position(queue[p], cur)
             rest == SubSeq(queue[p], 1, i - 1) \o SubSeq(queue[p], i + 1, Len(queue[p]))
  <1>1. /\ cur \in Threads /\ phase = "run" /\ call[cur] = None /\ Queued(cur)
        /\ cur \notin waiting /\ J \in SUBSET Threads
    BY Distinct DEF Thread_Terminate, Client, TypeOK, CurQueued
  <1>2. /\ status' = [status EXCEPT ![cur] = "terminated"]
        /\ waiting' = waiting \ J
        /\ waitObj' = [t \in Threads |-> IF t \in J THEN None ELSE waitObj[t]]
        /\ waiters' = [waiters EXCEPT ![cur] = {}]
        /\ waitTimeout' = [waitTimeout EXCEPT ![cur] = None]
        /\ phase' = "sched" /\ UNCHANGED schedReq
        /\ UNCHANGED <<cur, check, timedOut, call, mask, objVars>>
    BY <1>1 DEF Thread_Terminate, Thread_ReqReschedule
  <1>3. timeout' \in [TimeoutIds -> Threads \cup {None}]
    BY DEF Thread_Terminate, Timeout_Remove, TypeOK
  <1>4. /\ p \in Priorities
        /\ queue[p] \in Seq(Threads)
        /\ i \in 1 .. Len(queue[p]) /\ queue[p][i] = cur
    <2>1. p \in Priorities /\ queue[p] \in Seq(Threads)
      BY <1>1, KernelAssumption DEF TypeOK
    <2>2. \E k \in 1 .. Len(queue[p]) : queue[p][k] = cur
      BY <1>1 DEF InQueue
    <2> QED
      BY <2>1, <2>2 DEF Position
  <1>5. /\ queue' = [queue EXCEPT ![p] = rest]
        /\ rr' = IF rr[p] # cur
                 THEN rr
                 ELSE [rr EXCEPT ![p] = IF rest = <<>> THEN None
                                        ELSE IF i <= Len(rest) THEN rest[i] ELSE rest[1]]
    BY DEF Thread_Terminate, Queue_Remove
  <1>6. /\ rest \in Seq(Threads) /\ Len(rest) = Len(queue[p]) - 1
        /\ \A j \in 1 .. Len(queue[p]) : j # i => \E k \in 1 .. Len(rest) : rest[k] = queue[p][j]
    BY <1>4, RemoveAt
  <1> HIDE DEF J, p, i, rest
  <1>7. TypeOK'
    <2>1. queue' \in [Priorities -> Seq(Threads)]
      BY <1>4, <1>5, <1>6 DEF TypeOK
    <2>2. rr' \in [Priorities -> Threads \cup {None}]
      <3>1. rest # <<>> => rest[1] \in Threads
        BY <1>6
      <3>2. i \in Nat /\ i >= 1 /\ Len(queue[p]) \in Nat
        BY <1>4
      <3>3. i <= Len(rest) => rest[i] \in Threads
        BY <1>6, <3>2
      <3> QED
        BY <1>4, <1>5, <3>1, <3>3 DEF TypeOK
    <2>3. status' \in [Threads -> {"none", "created", "live", "terminated", "deleted"}]
      BY <1>2 DEF TypeOK
    <2>4. waitObj' \in [Threads -> Targets \cup {None}] /\ waiters' \in [Targets -> SUBSET Threads]
      BY <1>2 DEF TypeOK
    <2>5. waitTimeout' \in [Threads -> TimeoutIds \cup {None}]
      BY <1>2 DEF TypeOK
    <2> QED
      BY <1>2, <1>3, <2>1, <2>2, <2>3, <2>4, <2>5 DEF TypeOK, objVars
  <1>8. Registered'
    <2>1. ASSUME NEW t \in Threads, NEW o \in Targets
          PROVE  t \in waiters'[o] <=> waitObj'[t] = o
      BY <1>1, <1>2, Distinct DEF Registered, TypeOK, J
    <2>2. ASSUME NEW t \in waiting'
          PROVE  call'[t] # None /\ waitObj'[t] = IF call'[t] = Asleep THEN None ELSE call'[t]
      BY <1>2 DEF Registered, TypeOK
    <2>3. ASSUME NEW t \in Threads, waitObj'[t] # None PROVE t \in waiting'
      BY <1>2, <2>3 DEF Registered
    <2>4. ASSUME NEW o \in Objects, waiters'[o] # {} PROVE o \in live'
      BY <1>1, <1>2, <2>4, Distinct DEF Registered, TypeOK, objVars
    <2> QED
      BY <2>1, <2>2, <2>3, <2>4 DEF Registered
  <1>9. NoLostWakeup'
    <2> SUFFICES ASSUME NEW t \in waiting', Thread_CanWakeup(t)' PROVE t \in check'
      BY DEF NoLostWakeup
    <2>1. t \in waiting /\ t \in Threads /\ t \notin J /\ waitObj'[t] = waitObj[t]
      BY <1>2 DEF TypeOK
    <2>2. waitObj[t] # cur
      BY <1>1, <2>1, Distinct DEF Registered, J
    <2>3. Thread_CanWakeup(t)
      BY <1>2, <2>1, <2>2 DEF Thread_CanWakeup, TypeOK, objVars
    <2> QED
      BY <1>2, <2>1, <2>3 DEF NoLostWakeup
  <1>10. WakeSound' /\ MutexHeld'
    BY <1>2 DEF WakeSound, MutexHeld, objVars
  <1>11. Woken' /\ CurQueued'
    <2>1. ASSUME NEW t \in J PROVE call[t] = cur
      <3>1. t \in Threads /\ waitObj[t] = cur /\ t \in waiting
        BY <1>1, Distinct DEF Registered, J
      <3> QED
        BY <1>1, <3>1, Distinct DEF Registered
    <2> QED
      BY <1>1, <1>2, <2>1, Distinct DEF Woken, CurQueued
  <1>12. InQueue'
    <2> SUFFICES ASSUME NEW t \in Threads, Queued(t)'
                 PROVE  \E k \in 1 .. Len(queue'[Prio[t]]) : queue'[Prio[t]][k] = t
      BY DEF InQueue
    <2>1. t # cur /\ Queued(t)
      BY <1>1, <1>2 DEF Queued, TypeOK
    <2>2. PICK j \in 1 .. Len(queue[Prio[t]]) : queue[Prio[t]][j] = t
      BY <2>1 DEF InQueue
    <2>3. CASE Prio[t] = p
      BY <1>4, <1>5, <1>6, <2>1, <2>2, <2>3 DEF TypeOK
    <2>4. CASE Prio[t] # p
      BY <1>5, <2>2, <2>4
    <2> QED
      BY <2>3, <2>4
  <1> QED
    BY <1>7, <1>8, <1>9, <1>10, <1>11, <1>12

-----------------------------------------------------------------------------
(* Creating and deleting objects. *)

LEMMA CreateInv ==
  ASSUME IInv, NEW o \in Objects, Create(o),
         \/ UNCHANGED count
         \/ o \in Semas /\ \E n \in 0 .. MaxCount : count' = [count EXCEPT ![o] = n]
  PROVE  IInv'
  <1> USE Distinct DEF IInv, Create, Client, cpuVars, taskVars, waitVars
  <1>1. TypeOK'
    <2>1. CASE UNCHANGED count
      BY <2>1 DEF TypeOK
    <2>2. CASE o \in Semas /\ \E n \in 0 .. MaxCount : count' = [count EXCEPT ![o] = n]
      <3>1. PICK n \in 0 .. MaxCount : count' = [count EXCEPT ![o] = n]
        BY <2>2
      <3>2. count' \in [Semas -> Nat]
        BY <2>2, <3>1, KernelAssumption DEF TypeOK
      <3> QED
        BY <3>2 DEF TypeOK
    <2> QED
      BY <2>1, <2>2
  <1>2. waiters[o] = {}
    BY DEF Registered
  <1>3. Registered' /\ WakeSound' /\ MutexHeld'
    BY DEF Registered, WakeSound, MutexHeld
  <1>4. \A t \in waiting : waitObj[t] # o
    BY <1>2 DEF Registered, TypeOK
  <1>5. NoLostWakeup'
    BY <1>4 DEF NoLostWakeup, Thread_CanWakeup, TypeOK
  <1>6. Woken' /\ CurQueued' /\ InQueue'
    BY DEF Woken, CurQueued, InQueue, Queued
  <1> QED
    BY <1>1, <1>3, <1>5, <1>6

(* Deleting object o wakes all its waiters with Flag_Timeout, so that      *)
(* nothing else may depend on its state.                                   *)
LEMMA DeleteInv ==
  ASSUME IInv, NEW o \in Objects, Delete(o),
         acquired' \in [Mutexes -> Nat], owner' \in [Mutexes -> Threads \cup {None}],
         count' \in [Semas -> Nat], val' \in [Events -> SUBSET Bits],
         held' \in [Mutexes -> [Threads -> Nat]],
         \A m \in Mutexes : m # o => acquired'[m] = acquired[m],
         \A s \in Semas : s # o => count'[s] = count[s],
         \A e \in Events : e # o => val'[e] = val[e],
         MutexHeld'
  PROVE  IInv'
  <1> USE Distinct DEF IInv, Client, taskVars
  <1>1. /\ cur \in Threads /\ phase = "run" /\ call[cur] = None /\ cur \notin waiting
        /\ waiters[o] \in SUBSET Threads /\ o \in Targets
    BY DEF Delete, TypeOK, CurQueued
  <1>2. /\ phase' = "sched" /\ UNCHANGED schedReq
        /\ live' = live \ {o}
        /\ waiting' = waiting \ waiters[o]
        /\ timedOut' = timedOut \cup waiters[o]
        /\ waitObj' = [t \in Threads |-> IF t \in waiters[o] THEN None ELSE waitObj[t]]
        /\ waiters' = [waiters EXCEPT ![o] = {}]
        /\ UNCHANGED <<cur, taskVars, check, waitTimeout, call, mask>>
    BY <1>1 DEF Delete, Evict, Thread_ReqReschedule
  <1>3. TypeOK'
    <2>1. timeout' \in [TimeoutIds -> Threads \cup {None}]
      BY DEF Delete, Evict, Timeout_Remove, TypeOK
    <2>2. waitObj' \in [Threads -> Targets \cup {None}] /\ waiters' \in [Targets -> SUBSET Threads]
      BY <1>2 DEF TypeOK
    <2> QED
      BY <1>1, <1>2, <2>1, <2>2 DEF TypeOK
  <1>4. Registered'
    <2>1. ASSUME NEW t \in Threads, NEW c \in Targets
          PROVE  t \in waiters'[c] <=> waitObj'[t] = c
      BY <1>1, <1>2 DEF Registered, TypeOK
    <2>2. ASSUME NEW t \in waiting'
          PROVE  call'[t] # None /\ waitObj'[t] = IF call'[t] = Asleep THEN None ELSE call'[t]
      BY <1>2 DEF Registered, TypeOK
    <2>3. ASSUME NEW t \in Threads, waitObj'[t] # None PROVE t \in waiting'
      BY <1>2, <2>3 DEF Registered
    <2>4. ASSUME NEW c \in Objects, waiters'[c] # {} PROVE c \in live'
      BY <1>1, <1>2, <2>4 DEF Registered, TypeOK
    <2> QED
      BY <2>1, <2>2, <2>3, <2>4 DEF Registered
  <1>5. NoLostWakeup'
    <2> SUFFICES ASSUME NEW t \in waiting', Thread_CanWakeup(t)' PROVE t \in check'
      BY DEF NoLostWakeup
    <2>1. t \in waiting /\ t \in Threads /\ t \notin waiters[o] /\ waitObj'[t] = waitObj[t]
      BY <1>2 DEF TypeOK
    <2>2. waitObj[t] # o
      BY <1>1, <2>1 DEF Registered
    <2>3. Thread_CanWakeup(t)
      BY <1>2, <2>1, <2>2 DEF Thread_CanWakeup
    <2> QED
      BY <1>2, <2>1, <2>3 DEF NoLostWakeup
  <1>6. WakeSound'
    BY <1>2 DEF WakeSound
  <1>7. Woken' /\ CurQueued' /\ InQueue'
    BY <1>1, <1>2 DEF Woken, CurQueued, InQueue, Queued
  <1> QED
    BY <1>3, <1>4, <1>5, <1>6, <1>7

LEMMA MutexDeleteInv == ASSUME IInv, NEW m \in Mutexes, Mutex_Delete(m) PROVE IInv'
  <1> USE DEF IInv, Mutex_Delete
  <1>1. /\ acquired' \in [Mutexes -> Nat] /\ owner' \in [Mutexes -> Threads \cup {None}]
        /\ held' \in [Mutexes -> [Threads -> Nat]]
        /\ count' \in [Semas -> Nat] /\ val' \in [Events -> SUBSET Bits]
    BY DEF TypeOK
  <1>2. \A k \in Mutexes : k # m => acquired'[k] = acquired[k]
    BY DEF TypeOK
  <1>3. MutexHeld'
    BY DEF MutexHeld, TypeOK
  <1> QED
    BY <1>1, <1>2, <1>3, Distinct, DeleteInv

LEMMA SemaphoreDeleteInv == ASSUME IInv, NEW s \in Semas, Semaphore_Delete(s) PROVE IInv'
  <1> USE DEF IInv, Semaphore_Delete
  <1>1. /\ acquired' \in [Mutexes -> Nat] /\ owner' \in [Mutexes -> Threads \cup {None}]
        /\ held' \in [Mutexes -> [Threads -> Nat]]
        /\ count' \in [Semas -> Nat] /\ val' \in [Events -> SUBSET Bits]
    BY DEF TypeOK
  <1>2. \A k \in Semas : k # s => count'[k] = count[k]
    BY DEF TypeOK
  <1>3. MutexHeld'
    BY DEF MutexHeld
  <1> QED
    BY <1>1, <1>2, <1>3, Distinct, DeleteInv

LEMMA EventDeleteInv == ASSUME IInv, NEW e \in Events, EventMask_Delete(e) PROVE IInv'
  <1> USE DEF IInv, EventMask_Delete
  <1>1. /\ acquired' \in [Mutexes -> Nat] /\ owner' \in [Mutexes -> Threads \cup {None}]
        /\ held' \in [Mutexes -> [Threads -> Nat]]
        /\ count' \in [Semas -> Nat] /\ val' \in [Events -> SUBSET Bits]
    BY DEF TypeOK
  <1>2. \A k \in Events : k # e => val'[k] = val[k]
    BY DEF TypeOK
  <1>3. MutexHeld'
    BY DEF MutexHeld
  <1> QED
    BY <1>1, <1>2, <1>3, Distinct, DeleteInv

-----------------------------------------------------------------------------
(* Mutexes. *)

(* A grant to the current thread of a mutex that is free, or its own.      *)
LEMMA GrantedInv ==
  ASSUME IInv, cur' = cur, NEW m \in Mutexes, NEW n \in Nat \ {0},
         \/ acquired[m] = 0 /\ n = 1
         \/ owner[m] = cur /\ n = acquired[m] + 1,
         Granted(m, n)
  PROVE  /\ acquired' \in [Mutexes -> Nat] /\ owner' \in [Mutexes -> Threads \cup {None}]
         /\ held' \in [Mutexes -> [Threads -> Nat]]
         /\ MutexHeld'
         /\ \A k \in Mutexes : acquired'[k] = 0 => acquired[k] = 0
  <1> USE DEF IInv, Granted
  <1>1. /\ acquired' \in [Mutexes -> Nat] /\ owner' \in [Mutexes -> Threads \cup {None}]
        /\ held' \in [Mutexes -> [Threads -> Nat]]
    BY DEF TypeOK
  <1>2. held[m][cur] + 1 = n
    BY DEF TypeOK, MutexHeld
  <1>3. MutexHeld'
    <2> SUFFICES ASSUME NEW k \in Mutexes, NEW t \in Threads
                 PROVE  held'[k][t] = IF owner'[k] = t THEN acquired'[k] ELSE 0
      BY DEF MutexHeld
    <2>1. CASE k = m /\ t = cur
      BY <1>2, <2>1 DEF TypeOK
    <2>2. CASE k = m /\ t # cur
      BY <2>2 DEF MutexHeld, TypeOK
    <2>3. CASE k # m
      BY <2>3 DEF MutexHeld, TypeOK
    <2> QED
      BY <2>1, <2>2, <2>3
  <1>4. \A k \in Mutexes : acquired'[k] = 0 => acquired[k] = 0
    BY DEF TypeOK
  <1> QED
    BY <1>1, <1>3, <1>4

LEMMA MutexAcquireInv == ASSUME IInv, NEW m \in Mutexes, Mutex_Acquire(m) PROVE IInv'
  <1>1. CASE acquired[m] # 0 /\ ArmTimeout(m) /\ WaitFor(m, {})
    BY <1>1, WaitForInv, Distinct DEF Mutex_Acquire
  <1>2. CASE NoTimeoutFree(m)
    BY <1>2, NoTimeoutFreeInv
  <1>3. CASE /\ \/ acquired[m] = 0 /\ Granted(m, 1)
                \/ owner[m] = cur /\ Granted(m, acquired[m] + 1)
             /\ UNCHANGED <<cpuVars, taskVars, waitVars>>
    <2>1. acquired[m] \in Nat /\ acquired[m] + 1 \in Nat \ {0} /\ 1 \in Nat \ {0} /\ cur' = cur
      BY <1>3 DEF IInv, TypeOK, cpuVars
    <2>2. /\ acquired' \in [Mutexes -> Nat] /\ owner' \in [Mutexes -> Threads \cup {None}]
          /\ held' \in [Mutexes -> [Threads -> Nat]]
          /\ MutexHeld'
          /\ \A k \in Mutexes : acquired'[k] = 0 => acquired[k] = 0
          /\ UNCHANGED <<live, count, val>>
      <3>1. PICK n \in Nat \ {0} : /\ \/ acquired[m] = 0 /\ n = 1
                                      \/ owner[m] = cur /\ n = acquired[m] + 1
                                   /\ Granted(m, n)
        BY <1>3, <2>1
      <3>2. /\ acquired' \in [Mutexes -> Nat] /\ owner' \in [Mutexes -> Threads \cup {None}]
            /\ held' \in [Mutexes -> [Threads -> Nat]]
            /\ MutexHeld'
            /\ \A k \in Mutexes : acquired'[k] = 0 => acquired[k] = 0
        BY <2>1, <3>1, GrantedInv
      <3> QED
        BY <3>1, <3>2 DEF Granted
    <2> USE DEF IInv, cpuVars, taskVars, waitVars
    <2>3. TypeOK'
      BY <1>3, <2>2 DEF TypeOK
    <2>4. Registered'
      BY <1>3, <2>2 DEF Registered
    <2>5. WakeSound'
      BY <1>3, <2>2 DEF WakeSound, Mutex_Acquire, Client
    <2>6. NoLostWakeup'
      BY <1>3, <2>2 DEF NoLostWakeup, Thread_CanWakeup, TypeOK
    <2>7. Woken' /\ CurQueued' /\ InQueue'
      BY <1>3, <2>2 DEF Woken, CurQueued, InQueue, Queued
    <2> QED
      BY <2>2, <2>3, <2>4, <2>5, <2>6, <2>7
  <1> QED
    BY <1>1, <1>2, <1>3 DEF Mutex_Acquire

(* The last release flags every waiter, so that none is lost.              *)
LEMMA MutexReleaseInv == ASSUME IInv, NEW m \in Mutexes, Mutex_Release(m) PROVE IInv'
  <1> USE DEF IInv, Mutex_Release, Client, taskVars
  <1>1. /\ cur \in Threads /\ phase = "run" /\ call[cur] = None
        /\ acquired[m] \in Nat \ {0} /\ held[m][cur] = acquired[m]
    BY DEF TypeOK, MutexHeld
  <1>2. TypeOK'
    <2>1. acquired' \in [Mutexes -> Nat] /\ held' \in [Mutexes -> [Threads -> Nat]]
      BY <1>1 DEF TypeOK
    <2>2. check' \subseteq Threads /\ phase' \in {"run", "sched"} /\ schedReq' \in BOOLEAN
      BY <1>1, Distinct DEF TypeOK, Thread_ReqReschedule
    <2> QED
      BY <2>1, <2>2 DEF TypeOK
  <1>3. Registered'
    BY DEF Registered
  <1>4. MutexHeld'
    <2> SUFFICES ASSUME NEW k \in Mutexes, NEW t \in Threads
                 PROVE  held'[k][t] = IF owner'[k] = t THEN acquired'[k] ELSE 0
      BY DEF MutexHeld
    <2>1. CASE k = m /\ t = cur
      BY <1>1, <2>1 DEF TypeOK
    <2>2. CASE k = m /\ t # cur
      BY <2>2 DEF MutexHeld, TypeOK
    <2>3. CASE k # m
      BY <2>3 DEF MutexHeld, TypeOK
    <2> QED
      BY <2>1, <2>2, <2>3
  <1>5. NoLostWakeup'
    <2> SUFFICES ASSUME NEW t \in waiting, Thread_CanWakeup(t)' PROVE t \in check'
      BY DEF NoLostWakeup
    <2>1. CASE waitObj[t] = m
      <3>1. t \in waiters[m] /\ acquired'[m] = 0
        BY <2>1, Distinct DEF Registered, TypeOK, Thread_CanWakeup
      <3>2. acquired[m] = 1
        BY <1>1, <3>1 DEF TypeOK
      <3> QED
        BY <3>1, <3>2
    <2>2. CASE waitObj[t] # m
      <3>1. Thread_CanWakeup(t)
        BY <2>2 DEF Thread_CanWakeup, TypeOK
      <3> QED
        BY <3>1 DEF NoLostWakeup
    <2> QED
      BY <2>1, <2>2
  <1>6. WakeSound'
    BY <1>1 DEF WakeSound
  <1>7. Woken' /\ CurQueued' /\ InQueue'
    BY <1>1, Distinct DEF Woken, CurQueued, InQueue, Queued, Thread_ReqReschedule
  <1> QED
    BY <1>2, <1>3, <1>4, <1>5, <1>6, <1>7

-----------------------------------------------------------------------------
(* Posting and signalling, from a thread or from an interrupt handler. *)

LEMMA SemaphorePostInv ==
  ASSUME IInv, NEW s \in Semas, NEW n \in 1 .. MaxCount, Semaphore_Post(s, n) PROVE IInv'
  <1> USE DEF IInv, Semaphore_Post, taskVars
  <1>1. phase' # "run" /\ (phase = "run" => call[cur] = None) /\ phase \in {"run", "irq"}
    BY DEF Caller, Client, Thread_ReqReschedule
  <1>2. TypeOK'
    <2>1. count' \in [Semas -> Nat]
      BY KernelAssumption DEF TypeOK
    <2>2. check' \subseteq Threads
      BY Distinct DEF TypeOK
    <2>3. phase' \in {"irq", "sched"} /\ schedReq' \in BOOLEAN
      BY <1>1 DEF TypeOK, Thread_ReqReschedule
    <2> QED
      BY <2>1, <2>2, <2>3 DEF TypeOK
  <1>3. Registered' /\ MutexHeld'
    BY DEF Registered, MutexHeld
  <1>4. NoLostWakeup'
    <2> SUFFICES ASSUME NEW t \in waiting, Thread_CanWakeup(t)' PROVE t \in check'
      BY DEF NoLostWakeup
    <2>1. CASE waitObj[t] = s
      BY <2>1, Distinct DEF Registered, TypeOK
    <2>2. CASE waitObj[t] # s
      BY <2>2 DEF NoLostWakeup, Thread_CanWakeup, TypeOK
    <2> QED
      BY <2>1, <2>2
  <1>5. WakeSound'
    BY <1>1 DEF WakeSound
  <1>6. Woken' /\ CurQueued' /\ InQueue'
    BY <1>1, Distinct DEF Woken, CurQueued, InQueue, Queued, Thread_ReqReschedule
  <1> QED
    BY <1>2, <1>3, <1>4, <1>5, <1>6

LEMMA EventClearInv ==
  ASSUME IInv, NEW e \in Events, NEW m \in SUBSET Bits, EventMask_Clear(e, m) PROVE IInv'
  <1> USE DEF IInv, EventMask_Clear, cpuVars, taskVars, waitVars
  <1>1. TypeOK'
    BY DEF TypeOK
  <1>2. Registered' /\ MutexHeld'
    BY DEF Registered, MutexHeld
  <1>3. NoLostWakeup'
    BY DEF NoLostWakeup, Thread_CanWakeup, TypeOK
  <1>4. WakeSound'
    BY DEF WakeSound, Caller, Client
  <1>5. Woken' /\ CurQueued' /\ InQueue'
    BY DEF Woken, CurQueued, InQueue, Queued
  <1> QED
    BY <1>1, <1>2, <1>3, <1>4, <1>5

LEMMA EventSignalInv ==
  ASSUME IInv, NEW e \in Events, NEW m \in SUBSET Bits, EventMask_Signal(e, m) PROVE IInv'
  <1> USE DEF IInv, EventMask_Signal, taskVars
  <1>1. phase' # "run" /\ (phase = "run" => call[cur] = None) /\ phase \in {"run", "irq"}
    BY DEF Caller, Client, Thread_ReqReschedule
  <1>2. TypeOK'
    <2>1. val' \in [Events -> SUBSET Bits]
      BY DEF TypeOK
    <2>2. check' \subseteq Threads
      BY Distinct DEF TypeOK
    <2>3. phase' \in {"irq", "sched"} /\ schedReq' \in BOOLEAN
      BY <1>1 DEF TypeOK, Thread_ReqReschedule
    <2> QED
      BY <2>1, <2>2, <2>3 DEF TypeOK
  <1>3. Registered' /\ MutexHeld'
    BY DEF Registered, MutexHeld
  <1>4. NoLostWakeup'
    <2> SUFFICES ASSUME NEW t \in waiting, Thread_CanWakeup(t)' PROVE t \in check'
      BY DEF NoLostWakeup
    <2>1. CASE waitObj[t] = e
      <3>1. val'[e] \cap mask[t] # {}
        BY <2>1, Distinct DEF Thread_CanWakeup
      <3>2. t \in waiters[e]
        BY <2>1, Distinct DEF Registered, TypeOK
      <3> QED
        BY <3>1, <3>2
    <2>2. CASE waitObj[t] # e
      BY <2>2 DEF NoLostWakeup, Thread_CanWakeup, TypeOK
    <2> QED
      BY <2>1, <2>2
  <1>5. WakeSound'
    BY <1>1 DEF WakeSound
  <1>6. Woken' /\ CurQueued' /\ InQueue'
    BY <1>1, Distinct DEF Woken, CurQueued, InQueue, Queued, Thread_ReqReschedule
  <1> QED
    BY <1>2, <1>3, <1>4, <1>5, <1>6

-----------------------------------------------------------------------------
(* The ends of waiting calls. *)

LEMMA ReturnInv ==
  ASSUME IInv, ReturnMutex \/ ReturnSemaphore \/ ReturnOther PROVE IInv'
  <1> USE DEF IInv, Return, cpuVars, taskVars
  <1>1. /\ phase = "run" /\ call[cur] # None /\ cur \in Threads /\ cur \notin waiting
        /\ call' = [call EXCEPT ![cur] = None] /\ mask' = [mask EXCEPT ![cur] = {}]
        /\ UNCHANGED <<cpuVars, taskVars, waiting, check, timedOut, waitObj, waitTimeout,
                       waiters, timeout>>
    BY DEF ReturnMutex, ReturnSemaphore, ReturnOther, TypeOK, CurQueued
  <1>2. /\ live' = live /\ val' = val
        /\ acquired' \in [Mutexes -> Nat] /\ owner' \in [Mutexes -> Threads \cup {None}]
        /\ held' \in [Mutexes -> [Threads -> Nat]] /\ count' \in [Semas -> Nat]
        /\ MutexHeld'
        /\ \A k \in Mutexes : acquired'[k] = 0 => acquired[k] = 0
        /\ \A s \in Semas : count'[s] # 0 => count[s] # 0
    <2>1. CASE UNCHANGED objVars
      BY <2>1 DEF objVars, TypeOK, MutexHeld
    <2>2. CASE ReturnMutex /\ cur \notin timedOut /\ Granted(call[cur], 1)
      <3>1. call[cur] \in Mutexes /\ acquired[call[cur]] = 0
        BY <1>1, <2>2, Distinct DEF ReturnMutex, WakeSound, Grantable
      <3>2. /\ acquired' \in [Mutexes -> Nat] /\ owner' \in [Mutexes -> Threads \cup {None}]
            /\ held' \in [Mutexes -> [Threads -> Nat]]
            /\ MutexHeld'
            /\ \A k \in Mutexes : acquired'[k] = 0 => acquired[k] = 0
        BY <1>1, <2>2, <3>1, GrantedInv
      <3> QED
        BY <2>2, <3>2 DEF Granted, TypeOK
    <2>3. CASE ReturnSemaphore
      <3>1. CASE cur \in timedOut
        BY <2>3, <3>1 DEF ReturnSemaphore, TypeOK, MutexHeld
      <3>2. CASE cur \notin timedOut
        <4>1. /\ call[cur] \in Semas
              /\ count[call[cur]] \in Nat \ {0}
              /\ count' = [count EXCEPT ![call[cur]] = @ - 1]
          BY <1>1, <2>3, <3>2, Distinct DEF ReturnSemaphore, WakeSound, Grantable, TypeOK
        <4>2. count' \in [Semas -> Nat] /\ \A s \in Semas : count'[s] # 0 => count[s] # 0
          BY <4>1 DEF TypeOK
        <4> QED
          BY <2>3, <4>2 DEF ReturnSemaphore, TypeOK, MutexHeld
      <3> QED
        BY <3>1, <3>2
    <2> QED
      BY <2>1, <2>2, <2>3 DEF ReturnMutex, ReturnOther
  <1>3. TypeOK'
    <2>1. call' \in [Threads -> Targets \cup {None, Asleep}] /\ mask' \in [Threads -> SUBSET Bits]
      BY <1>1 DEF TypeOK
    <2> QED
      BY <1>1, <1>2, <2>1 DEF TypeOK
  <1>4. Registered'
    BY <1>1, <1>2 DEF Registered, TypeOK
  <1>5. NoLostWakeup'
    BY <1>1, <1>2 DEF NoLostWakeup, Thread_CanWakeup, TypeOK
  <1>6. WakeSound'
    BY <1>1 DEF WakeSound, TypeOK
  <1>7. Woken' /\ CurQueued' /\ InQueue'
    BY <1>1, Distinct DEF Woken, CurQueued, InQueue, Queued, TypeOK
  <1> QED
    BY <1>2, <1>3, <1>4, <1>5, <1>6, <1>7

-----------------------------------------------------------------------------
(* The results. *)

LEMMA NextInv == ASSUME IInv, [Next]_vars PROVE IInv'
  <1>1. CASE ThreadOp
    BY <1>1, CreateThreadInv, DeleteThreadInv, ThreadWaitInv, TerminateInv, SleepInv, PhaseInv
    DEF ThreadOp
  <1>2. CASE MutexOp
    <2>1. PICK m \in Mutexes : \/ Mutex_Create(m) \/ Mutex_Delete(m)
                               \/ Mutex_Acquire(m) \/ Mutex_Release(m)
      BY <1>2 DEF MutexOp
    <2>2. CASE Mutex_Create(m)
      BY <2>2, CreateInv, Distinct DEF Mutex_Create
    <2> QED
      BY <2>1, <2>2, MutexDeleteInv, MutexAcquireInv, MutexReleaseInv
  <1>3. CASE SemaOp
    <2>1. PICK s \in Semas : \/ \E n \in 0 .. MaxCount : Semaphore_Create(s, n)
                             \/ Semaphore_Delete(s)
                             \/ Semaphore_Wait(s)
                             \/ \E n \in 1 .. MaxCount : Semaphore_Post(s, n)
      BY <1>3 DEF SemaOp
    <2>2. CASE \E n \in 0 .. MaxCount : Semaphore_Create(s, n)
      BY <2>2, CreateInv, Distinct DEF Semaphore_Create
    <2> QED
      BY <2>1, <2>2, SemaphoreDeleteInv, SemaphoreWaitInv, SemaphorePostInv
  <1>4. CASE EventOp
    <2>1. PICK e \in Events : \/ EventMask_Create(e) \/ EventMask_Delete(e)
                              \/ \E m \in SUBSET Bits \ {{}} :
                                   \/ EventMask_Wait(e, m)
                                   \/ EventMask_Clear(e, m)
                                   \/ EventMask_Signal(e, m)
      BY <1>4 DEF EventOp
    <2>2. CASE EventMask_Create(e)
      BY <2>2, CreateInv, Distinct DEF EventMask_Create
    <2> QED
      BY <2>1, <2>2, EventDeleteInv, EventWaitInv, EventClearInv, EventSignalInv
  <1>5. CASE Thread_Schedule
    BY <1>5, ScheduleInv
  <1>6. CASE Returns
    BY <1>6, ReturnInv DEF Returns
  <1>7. CASE Irq
    BY <1>7, PhaseInv, TickInv DEF Irq
  <1>8. CASE UNCHANGED vars
    <2> USE <1>8 DEF IInv, vars, cpuVars, taskVars, waitVars, objVars
    <2>1. TypeOK'
      BY DEF TypeOK
    <2>2. Registered' /\ WakeSound' /\ MutexHeld'
      BY DEF Registered, WakeSound, Grantable, MutexHeld
    <2>3. NoLostWakeup'
      BY DEF NoLostWakeup, Thread_CanWakeup
    <2>4. Woken' /\ CurQueued' /\ InQueue'
      BY DEF Woken, CurQueued, InQueue, Queued
    <2> QED
      BY <2>1, <2>2, <2>3, <2>4
  <1> QED
    BY <1>1, <1>2, <1>3, <1>4, <1>5, <1>6, <1>7, <1>8 DEF Next

(* The inductive invariant holds in every state the kernel reaches.        *)
THEOREM Invariance == Spec => []IInv
  <1>1. Init => IInv
    BY InitInv
  <1>2. IInv /\ [Next]_vars => IInv'
    BY NextInv
  <1> QED
    BY <1>1, <1>2, PTL DEF Spec

(* Every variable keeps to its range.                                      *)
THEOREM TypeCorrect == Spec => []TypeOK
  BY Invariance, PTL DEF IInv

(* The wait slots, WaitObject, Flag_Waiting and the blocking call of every *)
(* thread always agree.                                                    *)
THEOREM BooksAgree == Spec => []Registered
  BY Invariance, PTL DEF IInv

(* A thread whose wait condition holds is always flagged to be looked at.  *)
THEOREM NoWakeupIsLost == Spec => []NoLostWakeup
  BY Invariance, PTL DEF IInv

(* A waiting call that is not told of a timeout finds what it waited for.  *)
THEOREM WakesAreSound == Spec => []WakeSound
  BY Invariance, PTL DEF IInv

(* At most one thread holds a mutex, and it is the one the mutex names.    *)
THEOREM MutualExclusion == Spec => []MutexHeld
  BY Invariance, PTL DEF IInv

-----------------------------------------------------------------------------
(* Refinement of SyncObjects. *)

(* A step that touches no mutex and no semaphore is a stutter.             *)
LEMMA Stutter ==
  ASSUME live' \cap (Mutexes \cup Semas) = live \cap (Mutexes \cup Semas),
         UNCHANGED <<held, count>>
  PROVE  UNCHANGED Abstract!vars
  BY DEF Abstract!vars

(* Mutex_Acquire, at once or after waiting, takes a mutex nobody else has. *)
LEMMA LockStep ==
  ASSUME IInv, NEW m \in Mutexes, m \in live,
         acquired[m] = 0 \/ owner[m] = cur, NEW n, Granted(m, n)
  PROVE  Abstract!Lock(cur, m)
  <1>1. Abstract!Free(cur, m)
    BY DEF Abstract!Free, IInv, MutexHeld
  <1> QED
    BY <1>1 DEF Abstract!Lock, Granted

LEMMA MutexStep == ASSUME IInv, MutexOp PROVE [Abstract!Next]_(Abstract!vars)
  <1>1. PICK m \in Mutexes : \/ Mutex_Create(m) \/ Mutex_Delete(m)
                             \/ Mutex_Acquire(m) \/ Mutex_Release(m)
    BY DEF MutexOp
  <1>2. cur \in Threads
    BY DEF IInv, TypeOK
  <1>3. CASE Mutex_Create(m)
    <2>1. Abstract!CreateMutex(m)
      BY <1>3, Distinct DEF Mutex_Create, Create, Abstract!CreateMutex
    <2> QED
      BY <2>1 DEF Abstract!Next
  <1>4. CASE Mutex_Delete(m)
    <2>1. Abstract!Free(cur, m)
      BY <1>4 DEF Mutex_Delete, Abstract!Free, IInv, MutexHeld
    <2>2. Abstract!DeleteMutex(cur, m)
      BY <1>4, <2>1, Distinct DEF Mutex_Delete, Delete, Abstract!DeleteMutex
    <2> QED
      BY <1>2, <2>2 DEF Abstract!Next
  <1>5. CASE Mutex_Acquire(m)
    <2>1. CASE \/ acquired[m] = 0 /\ Granted(m, 1)
               \/ owner[m] = cur /\ Granted(m, acquired[m] + 1)
      <3>1. Abstract!Lock(cur, m)
        BY <1>5, <2>1, LockStep DEF Mutex_Acquire
      <3> QED
        BY <1>2, <3>1 DEF Abstract!Next
    <2>2. CASE WaitFor(m, {}) \/ NoTimeoutFree(m)
      BY <2>2, Stutter DEF WaitFor, NoTimeoutFree, objVars
    <2> QED
      BY <1>5, <2>1, <2>2 DEF Mutex_Acquire
  <1>6. CASE Mutex_Release(m)
    <2>1. held[m][cur] # 0
      BY <1>2, <1>6 DEF Mutex_Release, IInv, MutexHeld
    <2>2. Abstract!Unlock(cur, m)
      BY <1>6, <2>1 DEF Mutex_Release, Abstract!Unlock
    <2> QED
      BY <1>2, <2>2 DEF Abstract!Next
  <1> QED
    BY <1>1, <1>3, <1>4, <1>5, <1>6

LEMMA SemaStep == ASSUME IInv, SemaOp PROVE [Abstract!Next]_(Abstract!vars)
  <1>1. PICK s \in Semas : \/ \E n \in 0 .. MaxCount : Semaphore_Create(s, n)
                           \/ Semaphore_Delete(s)
                           \/ Semaphore_Wait(s)
                           \/ \E n \in 1 .. MaxCount : Semaphore_Post(s, n)
    BY DEF SemaOp
  <1>2. CASE \E n \in 0 .. MaxCount : Semaphore_Create(s, n)
    <2>1. PICK n \in 0 .. MaxCount : Semaphore_Create(s, n)
      BY <1>2
    <2>2. Abstract!CreateSemaphore(s, n)
      BY <2>1, Distinct DEF Semaphore_Create, Create, Abstract!CreateSemaphore
    <2> QED
      BY <2>2 DEF Abstract!Next
  <1>3. CASE Semaphore_Delete(s)
    <2>1. Abstract!DeleteSemaphore(s)
      BY <1>3, Distinct DEF Semaphore_Delete, Delete, Abstract!DeleteSemaphore
    <2> QED
      BY <2>1 DEF Abstract!Next
  <1>4. CASE Semaphore_Wait(s)
    <2>1. CASE /\ count[s] # 0
               /\ count' = [count EXCEPT ![s] = @ - 1]
               /\ UNCHANGED <<live, held>>
      <3>1. Abstract!Take(s)
        BY <1>4, <2>1 DEF Semaphore_Wait, Abstract!Take
      <3> QED
        BY <3>1 DEF Abstract!Next
    <2>2. CASE WaitFor(s, {}) \/ NoTimeoutFree(s)
      BY <2>2, Stutter DEF WaitFor, NoTimeoutFree, objVars
    <2> QED
      BY <1>4, <2>1, <2>2 DEF Semaphore_Wait
  <1>5. CASE \E n \in 1 .. MaxCount : Semaphore_Post(s, n)
    <2>1. PICK n \in 0 .. MaxCount : Semaphore_Post(s, n)
      BY <1>5, KernelAssumption
    <2>2. Abstract!Post(s, n)
      BY <2>1 DEF Semaphore_Post, Abstract!Post
    <2> QED
      BY <2>2 DEF Abstract!Next
  <1> QED
    BY <1>1, <1>2, <1>3, <1>4, <1>5

LEMMA EventStep == ASSUME EventOp PROVE UNCHANGED Abstract!vars
  <1>1. PICK e \in Events : \/ EventMask_Create(e) \/ EventMask_Delete(e)
                            \/ \E m \in SUBSET Bits \ {{}} :
                                 \/ EventMask_Wait(e, m)
                                 \/ EventMask_Clear(e, m)
                                 \/ EventMask_Signal(e, m)
    BY DEF EventOp
  <1>2. CASE EventMask_Create(e)
    BY <1>2, Distinct, Stutter DEF EventMask_Create, Create
  <1>3. CASE EventMask_Delete(e)
    BY <1>3, Distinct, Stutter DEF EventMask_Delete, Delete
  <1>4. ASSUME NEW m \in SUBSET Bits,
               EventMask_Wait(e, m) \/ EventMask_Clear(e, m) \/ EventMask_Signal(e, m)
        PROVE  UNCHANGED <<live, held, count>>
    BY <1>4 DEF EventMask_Wait, EventMask_Clear, EventMask_Signal, WaitFor, NoTimeoutFree, objVars
  <1> QED
    BY <1>1, <1>2, <1>3, <1>4, Stutter

LEMMA ReturnStep == ASSUME IInv, Returns PROVE [Abstract!Next]_(Abstract!vars)
  <1>1. cur \in Threads /\ phase = "run" /\ call[cur] # None
    BY DEF Returns, ReturnMutex, ReturnSemaphore, ReturnOther, Return, IInv, TypeOK
  <1>2. CASE UNCHANGED <<live, held, count>>
    BY <1>2, Stutter
  <1>3. CASE ReturnMutex /\ cur \notin timedOut
    <2>1. call[cur] \in Mutexes /\ call[cur] \in live /\ acquired[call[cur]] = 0
      BY <1>1, <1>3, Distinct DEF ReturnMutex, IInv, WakeSound, Grantable
    <2>2. Granted(call[cur], 1)
      BY <1>3 DEF ReturnMutex
    <2>3. Abstract!Lock(cur, call[cur])
      BY <2>1, <2>2, LockStep
    <2> QED
      BY <1>1, <2>1, <2>3 DEF Abstract!Next
  <1>4. CASE ReturnSemaphore /\ cur \notin timedOut
    <2>1. call[cur] \in Semas /\ call[cur] \in live /\ count[call[cur]] # 0
      BY <1>1, <1>4, Distinct DEF ReturnSemaphore, IInv, WakeSound, Grantable
    <2>2. Abstract!Take(call[cur])
      BY <1>4, <2>1 DEF ReturnSemaphore, Abstract!Take
    <2> QED
      BY <2>1, <2>2 DEF Abstract!Next
  <1> QED
    BY <1>2, <1>3, <1>4 DEF Returns, ReturnMutex, ReturnSemaphore, ReturnOther, objVars

LEMMA OtherStep ==
  ASSUME ThreadOp \/ Thread_Schedule \/ Irq \/ UNCHANGED vars PROVE UNCHANGED Abstract!vars
  <1>1. UNCHANGED <<live, held, count>>
    <2>1. CASE ThreadOp
      BY <2>1 DEF ThreadOp, Thread_Create, Thread_Delete, Thread_Wait, Thread_Terminate,
                  Thread_Sleep, Thread_Yield, WaitFor, NoTimeoutFree, objVars
    <2>2. CASE Thread_Schedule
      BY <2>2 DEF Thread_Schedule, objVars
    <2>3. CASE Irq
      BY <2>3 DEF Irq, IrqEnter, Thread_Tick, Thread_PostIRQ, objVars
    <2>4. CASE UNCHANGED vars
      BY <2>4 DEF vars, objVars
    <2> QED
      BY <2>1, <2>2, <2>3, <2>4
  <1> QED
    BY <1>1, Stutter

(* The kernel's mutexes and semaphores implement those of SyncObjects:     *)
(* mutual exclusion and no permit out of nothing, whatever scheduling,     *)
(* timeouts, deletions and interrupts do in between.                       *)
THEOREM Refinement == Spec => ImplementsSync
  <1>1. Init => Abstract!Init
    BY DEF Init, Abstract!Init
  <1>2. IInv /\ [Next]_vars => [Abstract!Next]_(Abstract!vars)
    BY MutexStep, SemaStep, EventStep, ReturnStep, OtherStep DEF Next
  <1> QED
    BY <1>1, <1>2, Invariance, PTL DEF Spec, ImplementsSync, Abstract!Spec

-----------------------------------------------------------------------------
(* The timeout table. *)

(* The steps by what they do to the three variables of a timed wait.       *)
LEMMA TimeoutSteps ==
  ASSUME [Next]_vars
  PROVE  \/ UNCHANGED <<waiting, waitTimeout, timeout>>
         \/ Client(cur) /\ \E kind, c, m : ArmTimeout(kind) /\ WaitFor(c, m)
         \/ Client(cur) /\ \E kind : NoTimeoutFree(kind)
         \/ Thread_Tick \/ Thread_Schedule \/ Thread_Terminate
         \/ \E o \in Objects : Delete(o)
  <1>1. CASE ThreadOp
    BY <1>1 DEF ThreadOp, Thread_Create, Thread_Delete, Thread_Wait, Thread_Sleep,
                Thread_Yield, waitVars
  <1>2. CASE MutexOp
    <2>1. PICK m \in Mutexes : \/ Mutex_Create(m) \/ Mutex_Delete(m)
                               \/ Mutex_Acquire(m) \/ Mutex_Release(m)
      BY <1>2 DEF MutexOp
    <2>2. CASE Mutex_Acquire(m)
      BY <2>2 DEF Mutex_Acquire, waitVars
    <2> QED
      BY <2>1, <2>2, Distinct DEF Mutex_Create, Create, Mutex_Delete, Mutex_Release, waitVars
  <1>3. CASE SemaOp
    <2>1. PICK s \in Semas : \/ \E n \in 0 .. MaxCount : Semaphore_Create(s, n)
                             \/ Semaphore_Delete(s)
                             \/ Semaphore_Wait(s)
                             \/ \E n \in 1 .. MaxCount : Semaphore_Post(s, n)
      BY <1>3 DEF SemaOp
    <2>2. CASE Semaphore_Wait(s)
      BY <2>2 DEF Semaphore_Wait, waitVars
    <2> QED
      BY <2>1, <2>2, Distinct DEF Semaphore_Create, Create, Semaphore_Delete, Semaphore_Post, waitVars
  <1>4. CASE EventOp
    <2>1. PICK e \in Events : \/ EventMask_Create(e) \/ EventMask_Delete(e)
                              \/ \E m \in SUBSET Bits \ {{}} :
                                   \/ EventMask_Wait(e, m)
                                   \/ EventMask_Clear(e, m)
                                   \/ EventMask_Signal(e, m)
      BY <1>4 DEF EventOp
    <2>2. CASE \E m \in SUBSET Bits \ {{}} : EventMask_Wait(e, m)
      BY <2>2 DEF EventMask_Wait
    <2>3. CASE \E m \in SUBSET Bits \ {{}} : EventMask_Clear(e, m) \/ EventMask_Signal(e, m)
      BY <2>3 DEF EventMask_Clear, EventMask_Signal, waitVars
    <2> QED
      BY <2>1, <2>2, <2>3, Distinct DEF EventMask_Create, Create, EventMask_Delete, waitVars
  <1>5. CASE Returns
    BY <1>5 DEF Returns, ReturnMutex, ReturnSemaphore, ReturnOther, Return
  <1>6. CASE Irq
    BY <1>6 DEF Irq, IrqEnter, Thread_PostIRQ, waitVars
  <1>7. CASE UNCHANGED vars
    BY <1>7 DEF vars, waitVars
  <1> QED
    BY <1>1, <1>2, <1>3, <1>4, <1>5, <1>6, <1>7 DEF Next

LEMMA CancelTimeouts ==
  ASSUME TypeOK, NoStrayTimeout, NEW T \in SUBSET Threads, Thread_CancelWait(T)
  PROVE  NoStrayTimeout'
  BY KernelAssumption DEF TypeOK, NoStrayTimeout, Thread_CancelWait, Timeout_Remove, Targets

LEMMA TimeoutsStep ==
  ASSUME IInv, NoStrayTimeout, [Next]_vars PROVE NoStrayTimeout'
  <1> USE Distinct DEF IInv
  <1>1. None \notin Threads
    OBVIOUS
  <1>2. CASE UNCHANGED <<waiting, waitTimeout, timeout>>
    BY <1>2 DEF NoStrayTimeout
  <1>3. CASE Client(cur) /\ \E kind, c, m : ArmTimeout(kind) /\ WaitFor(c, m)
    <2>1. cur \in Threads /\ cur \notin waiting /\ waiting' = waiting \cup {cur}
      BY <1>3 DEF Client, CurQueued, WaitFor, TypeOK
    <2>2. CASE waitTimeout' = [waitTimeout EXCEPT ![cur] = None] /\ UNCHANGED timeout
      BY <2>1, <2>2 DEF NoStrayTimeout, TypeOK
    <2>3. CASE Timeout_Add
      <3>1. PICK i \in TimeoutIds : /\ FirstFree(i)
                                    /\ timeout' = [timeout EXCEPT ![i] = cur]
                                    /\ waitTimeout' = [waitTimeout EXCEPT ![cur] = i]
        BY <2>3 DEF Timeout_Add
      <3> QED
        BY <2>1, <3>1 DEF NoStrayTimeout, TypeOK
    <2> QED
      BY <1>3, <2>2, <2>3 DEF ArmTimeout
  <1>4. CASE Client(cur) /\ \E kind : NoTimeoutFree(kind)
    <2>1. cur \notin waiting /\ UNCHANGED <<waiting, timeout>>
          /\ waitTimeout' = [waitTimeout EXCEPT ![cur] = None]
      BY <1>4 DEF Client, CurQueued, NoTimeoutFree
    <2> QED
      BY <2>1 DEF NoStrayTimeout, TypeOK
  <1>5. CASE Thread_Tick
    <2>1. PICK E \in SUBSET {i \in TimeoutIds : timeout[i] # None} :
            Thread_CancelWait({timeout[i] : i \in E})
      BY <1>5 DEF Thread_Tick
    <2>2. {timeout[i] : i \in E} \in SUBSET Threads
      BY DEF TypeOK
    <2> QED
      BY <2>1, <2>2, CancelTimeouts
  <1>6. CASE Thread_Schedule
    <2>1. PICK t \in Threads :
            IF t \in waiting
            THEN Thread_CancelWait({t})
            ELSE UNCHANGED <<waiting, waiters, waitObj, timeout, waitTimeout>>
      BY <1>6 DEF Thread_Schedule
    <2> QED
      BY <1>2, <2>1, CancelTimeouts
  <1>7. CASE Thread_Terminate
    <2>1. /\ cur \in Threads /\ cur \notin waiting
          /\ waiting' = waiting \ waiters[cur]
          /\ Timeout_Remove({waitTimeout[t] : t \in waiters[cur] \cup {cur}})
          /\ waitTimeout' = [waitTimeout EXCEPT ![cur] = None]
      BY <1>7 DEF Thread_Terminate, Client, CurQueued, TypeOK
    <2> QED
      BY <2>1 DEF NoStrayTimeout, Timeout_Remove, TypeOK
  <1>8. CASE \E o \in Objects : Delete(o)
    <2>1. PICK o \in Objects : Delete(o)
      BY <1>8
    <2>2. /\ waiting' = waiting \ waiters[o]
          /\ Timeout_Remove({waitTimeout[t] : t \in waiters[o]})
          /\ UNCHANGED waitTimeout
      BY <2>1 DEF Delete, Evict
    <2> QED
      BY <2>2 DEF NoStrayTimeout, Timeout_Remove, TypeOK
  <1> QED
    BY <1>2, <1>3, <1>4, <1>5, <1>6, <1>7, <1>8, TimeoutSteps

(* A timeout never acts on a thread that has moved on: every armed slot    *)
(* belongs to a thread that waits and names that slot.                     *)
THEOREM TimeoutsAreOwned == Spec => []NoStrayTimeout
  <1>1. Init => NoStrayTimeout
    BY DEF Init, NoStrayTimeout
  <1>2. IInv /\ NoStrayTimeout /\ [Next]_vars => NoStrayTimeout'
    BY TimeoutsStep
  <1> QED
    BY <1>1, <1>2, Invariance, PTL DEF Spec

-----------------------------------------------------------------------------
(* Priorities. *)

(* UrgentFirst, in interrupt handlers too as long as none has asked for a  *)
(* switch, which is the only time a request is pending.                    *)
UrgentInv ==
  /\ schedReq => phase = "irq"
  /\ phase # "sched" /\ ~schedReq =>
       \A t \in Threads : status[t] = "live" /\ Prio[t] < Prio[cur] => ~Ready(t)

(* A step that lets no thread but the current one become ready.            *)
Ended(t) == status[t] \in {"terminated", "deleted"}
Calm ==
  /\ UNCHANGED <<cur, waiting, check, waitObj>>
  /\ \A t \in Threads : /\ t # cur => mask'[t] = mask[t]
                        /\ status'[t] = "live" => status[t] = "live"
                        /\ Ended(t)' => Ended(t)
  /\ \A m \in Mutexes : acquired'[m] = 0 => acquired[m] = 0
  /\ \A s \in Semas, t \in Threads : waitObj[t] = s /\ count'[s] # 0 => count[s] # 0
  /\ \A e \in Events : val'[e] \subseteq val[e]

(* One that does and asks for a switch, one that waits for it, and the     *)
(* switch itself.                                                          *)
Asks == \/ phase' = "irq" /\ schedReq' = TRUE
        \/ phase = "run" /\ phase' = "sched" /\ UNCHANGED schedReq
Stays ==
  /\ Calm
  /\ \/ UNCHANGED <<phase, schedReq>>
     \/ phase = "run" /\ phase' = "irq" /\ UNCHANGED schedReq
     \/ phase = "irq" /\ schedReq' = FALSE /\ phase' = IF schedReq THEN "sched" ELSE "run"

LEMMA CallerAsks ==
  ASSUME TypeOK, Caller, Thread_ReqReschedule PROVE Asks
  BY DEF Caller, Client, Thread_ReqReschedule, Asks

LEMMA ClientAsks ==
  ASSUME Client(cur), Thread_ReqReschedule PROVE Asks
  BY DEF Client, Thread_ReqReschedule, Asks

LEMMA NoTimeoutStays ==
  ASSUME IInv, NEW kind, NoTimeoutFree(kind) PROVE Stays
  BY DEF NoTimeoutFree, Stays, Calm, Ended, cpuVars, taskVars, objVars

LEMMA WaitAsks ==
  ASSUME IInv, Client(cur), NEW c, NEW m, WaitFor(c, m) PROVE Asks
  BY ClientAsks DEF WaitFor

LEMMA ThreadOpUrgent == ASSUME IInv, ThreadOp PROVE Asks \/ Stays
  <1> USE DEF IInv
  <1>1. ASSUME NEW t \in Threads, Thread_Create(t) PROVE Stays
    BY <1>1 DEF Thread_Create, Stays, Calm, Ended, TypeOK, cpuVars, waitVars, objVars
  <1>2. ASSUME NEW t \in Threads, Thread_Delete(t) PROVE Stays
    BY <1>2 DEF Thread_Delete, Stays, Calm, Ended, TypeOK, cpuVars, waitVars, objVars
  <1>3. ASSUME NEW t \in Threads, Thread_Wait(t) PROVE Asks \/ Stays
    BY <1>3, WaitAsks, NoTimeoutStays DEF Thread_Wait
  <1>4. CASE Thread_Terminate
    BY <1>4, ClientAsks DEF Thread_Terminate
  <1>5. CASE Thread_Sleep
    BY <1>5, WaitAsks, NoTimeoutStays DEF Thread_Sleep
  <1>6. CASE Thread_Yield
    BY <1>6 DEF Thread_Yield, Client, Asks
  <1> QED
    BY <1>1, <1>2, <1>3, <1>4, <1>5, <1>6 DEF ThreadOp

LEMMA ObjectCreateStays ==
  ASSUME IInv, NEW o \in Objects, Create(o),
         UNCHANGED count \/ \E n : o \in Semas /\ count' = [count EXCEPT ![o] = n]
  PROVE  Stays
  <1>1. \A t \in Threads : waitObj[t] # o
    BY Distinct DEF IInv, TypeOK, Registered, Create
  <1>2. \A s \in Semas, t \in Threads : waitObj[t] = s => count'[s] = count[s]
    BY <1>1 DEF IInv, TypeOK
  <1> QED
    BY <1>2 DEF Create, Stays, Calm, Ended, cpuVars, taskVars, waitVars

LEMMA MutexOpUrgent == ASSUME IInv, MutexOp PROVE Asks \/ Stays
  <1> USE Distinct DEF IInv
  <1>1. PICK m \in Mutexes : \/ Mutex_Create(m) \/ Mutex_Delete(m)
                             \/ Mutex_Acquire(m) \/ Mutex_Release(m)
    BY DEF MutexOp
  <1>2. CASE Mutex_Create(m)
    BY <1>2, ObjectCreateStays DEF Mutex_Create
  <1>3. CASE Mutex_Delete(m)
    BY <1>3, ClientAsks DEF Mutex_Delete, Delete
  <1>4. CASE Mutex_Acquire(m)
    <2>1. ASSUME NEW n \in Nat \ {0}, Granted(m, n), UNCHANGED <<cpuVars, taskVars, waitVars>>
          PROVE  Stays
      BY <2>1 DEF Granted, Stays, Calm, Ended, TypeOK, cpuVars, taskVars, waitVars
    <2>2. acquired[m] \in Nat
      BY DEF TypeOK
    <2>3. acquired[m] + 1 \in Nat \ {0} /\ 1 \in Nat \ {0}
      BY <2>2
    <2>4. Client(cur)
      BY <1>4 DEF Mutex_Acquire
    <2> QED
      BY <1>4, <2>1, <2>3, <2>4, WaitAsks, NoTimeoutStays DEF Mutex_Acquire
  <1>5. CASE Mutex_Release(m)
    <2>1. CASE acquired[m] = 1
      BY <1>5, <2>1, ClientAsks DEF Mutex_Release
    <2>2. CASE acquired[m] # 1
      <3>1. acquired[m] \in Nat /\ acquired[m] - 1 # 0
        BY <2>2 DEF TypeOK
      <3> QED
        BY <1>5, <2>2, <3>1 DEF Mutex_Release, Stays, Calm, Ended, TypeOK, taskVars
    <2> QED
      BY <2>1, <2>2
  <1> QED
    BY <1>1, <1>2, <1>3, <1>4, <1>5

LEMMA SemaOpUrgent == ASSUME IInv, SemaOp PROVE Asks \/ Stays
  <1> USE Distinct DEF IInv
  <1>1. PICK s \in Semas : \/ \E n \in 0 .. MaxCount : Semaphore_Create(s, n)
                           \/ Semaphore_Delete(s)
                           \/ Semaphore_Wait(s)
                           \/ \E n \in 1 .. MaxCount : Semaphore_Post(s, n)
    BY DEF SemaOp
  <1>2. CASE \E n \in 0 .. MaxCount : Semaphore_Create(s, n)
    BY <1>2, ObjectCreateStays DEF Semaphore_Create
  <1>3. CASE Semaphore_Delete(s)
    BY <1>3, ClientAsks DEF Semaphore_Delete, Delete
  <1>4. CASE Semaphore_Wait(s)
    <2>1. CASE /\ count[s] # 0
               /\ count' = [count EXCEPT ![s] = @ - 1]
               /\ UNCHANGED <<cpuVars, taskVars, waitVars, live, acquired, owner, val, held>>
      BY <2>1 DEF Stays, Calm, Ended, TypeOK, cpuVars, taskVars, waitVars
    <2>2. Client(cur)
      BY <1>4 DEF Semaphore_Wait
    <2> QED
      BY <1>4, <2>1, <2>2, WaitAsks, NoTimeoutStays DEF Semaphore_Wait
  <1>5. CASE \E n \in 1 .. MaxCount : Semaphore_Post(s, n)
    BY <1>5, CallerAsks DEF Semaphore_Post
  <1> QED
    BY <1>1, <1>2, <1>3, <1>4, <1>5

LEMMA EventOpUrgent == ASSUME IInv, EventOp PROVE Asks \/ Stays
  <1> USE Distinct DEF IInv
  <1>1. PICK e \in Events : \/ EventMask_Create(e) \/ EventMask_Delete(e)
                            \/ \E m \in SUBSET Bits \ {{}} :
                                 \/ EventMask_Wait(e, m)
                                 \/ EventMask_Clear(e, m)
                                 \/ EventMask_Signal(e, m)
    BY DEF EventOp
  <1>2. CASE EventMask_Create(e)
    BY <1>2, ObjectCreateStays DEF EventMask_Create
  <1>3. CASE EventMask_Delete(e)
    BY <1>3, ClientAsks DEF EventMask_Delete, Delete
  <1>4. ASSUME NEW m, EventMask_Wait(e, m) PROVE Asks \/ Stays
    BY <1>4, WaitAsks, NoTimeoutStays DEF EventMask_Wait
  <1>5. ASSUME NEW m, EventMask_Clear(e, m) PROVE Stays
    BY <1>5 DEF EventMask_Clear, Stays, Calm, Ended, TypeOK, cpuVars, taskVars, waitVars
  <1>6. ASSUME NEW m, EventMask_Signal(e, m) PROVE Asks
    BY <1>6, CallerAsks DEF EventMask_Signal
  <1> QED
    BY <1>1, <1>2, <1>3, <1>4, <1>5, <1>6

LEMMA ReturnsUrgent == ASSUME IInv, Returns PROVE Stays
  <1> USE Distinct DEF IInv
  <1>1. /\ cur \in Threads /\ phase = "run" /\ call[cur] # None /\ Return
        /\ call[cur] \in Targets \cup {Asleep}
    BY DEF Returns, ReturnMutex, ReturnSemaphore, ReturnOther, Return, TypeOK
  <1>2. \A t \in Threads : t # cur => mask'[t] = mask[t]
    BY <1>1 DEF Return, TypeOK
  <1>3. \A m \in Mutexes : acquired'[m] = 0 => acquired[m] = 0
    BY <1>1 DEF Returns, ReturnMutex, ReturnSemaphore, ReturnOther, Granted, objVars, TypeOK
  <1>4. \A s \in Semas : count'[s] # 0 => count[s] # 0
    <2>1. CASE ReturnSemaphore /\ cur \notin timedOut
      <3>1. call[cur] \in Semas /\ count[call[cur]] # 0
        BY <1>1, <2>1 DEF ReturnSemaphore, WakeSound, Grantable
      <3> QED
        BY <2>1, <3>1 DEF ReturnSemaphore, TypeOK
    <2> QED
      BY <2>1 DEF Returns, ReturnMutex, ReturnSemaphore, ReturnOther, Granted, objVars
  <1>5. UNCHANGED val
    BY DEF Returns, ReturnMutex, ReturnSemaphore, ReturnOther, Granted, objVars
  <1> QED
    BY <1>1, <1>2, <1>3, <1>4, <1>5 DEF Return, Stays, Calm, Ended, cpuVars, taskVars

LEMMA IrqUrgent == ASSUME IInv, Irq PROVE Asks \/ Stays
  <1>1. CASE IrqEnter
    BY <1>1 DEF IrqEnter, Stays, Calm, Ended, taskVars, waitVars, objVars
  <1>2. CASE Thread_PostIRQ
    BY <1>2 DEF Thread_PostIRQ, Stays, Calm, Ended, taskVars, waitVars, objVars
  <1>3. CASE Thread_Tick
    BY <1>3 DEF Thread_Tick, Thread_ReqReschedule, Asks
  <1> QED
    BY <1>1, <1>2, <1>3 DEF Irq

(* Thread_Schedule passes only threads that are not ready, and they stay   *)
(* so.                                                                     *)
LEMMA ScheduleUrgent == ASSUME IInv, Thread_Schedule, UrgentInv PROVE UrgentInv'
  <1>1. PICK t \in Threads :
          /\ Queued(t) /\ Ready(t)
          /\ \A u \in Threads : ScannedBefore(u, t) => ~Ready(u)
          /\ check' = check \ {u \in waiting : u = t \/ ScannedBefore(u, t)}
          /\ IF t \in waiting
             THEN Thread_CancelWait({t})
             ELSE UNCHANGED <<waiting, waiters, waitObj, timeout, waitTimeout>>
          /\ status' = [status EXCEPT ![t] = "live"]
          /\ cur' = t
    BY DEF Thread_Schedule
  <1>2. phase = "sched" /\ phase' = "run" /\ UNCHANGED <<schedReq, mask, objVars>>
    BY DEF Thread_Schedule
  <1> SUFFICES ASSUME NEW u \in Threads, status'[u] = "live", Prio[u] < Prio[t]
               PROVE  ~Ready(u)'
    BY <1>1, <1>2 DEF UrgentInv
  <1>3. u # t /\ status[u] = "live"
    <2>1. Prio[t] \in Int
      BY KernelAssumption DEF Priorities
    <2> QED
      BY <1>1, <2>1 DEF IInv, TypeOK
  <1>4. ScannedBefore(u, t) /\ ~Ready(u)
    BY <1>1, <1>3 DEF ScannedBefore, Queued
  <1>5. u \in waiting' /\ waitObj'[u] = waitObj[u]
    BY <1>1, <1>3, <1>4 DEF Ready, Thread_CancelWait
  <1>6. Thread_CanWakeup(u)' => Thread_CanWakeup(u)
    <2>1. UNCHANGED <<acquired, count, val, mask>>
      BY <1>2 DEF objVars
    <2>2. \A o \in Threads : Ended(o)' => Ended(o)
      BY <1>1 DEF Ended, IInv, TypeOK
    <2> QED
      BY <1>5, <2>1, <2>2 DEF Thread_CanWakeup, Ended
  <1>7. u \notin check'
    BY <1>1, <1>4 DEF Ready
  <1> QED
    BY <1>5, <1>7 DEF Ready

LEMMA UrgentStep == ASSUME IInv, UrgentInv, [Next]_vars PROVE UrgentInv'
  <1>1. CASE Thread_Schedule
    BY <1>1, ScheduleUrgent
  <1>2. CASE Asks
    BY <1>2 DEF Asks, UrgentInv
  <1>3. CASE Stays
    <2>1. ASSUME NEW t \in Threads, t # cur, Ready(t)' PROVE Ready(t)
      <3>1. waitObj'[t] = waitObj[t] /\ mask'[t] = mask[t]
        BY <1>3, <2>1 DEF Stays, Calm
      <3>2. Thread_CanWakeup(t)' => Thread_CanWakeup(t)
        <4>1. \A o \in Threads : Ended(o)' => Ended(o)
          BY <1>3 DEF Stays, Calm
        <4>2. \A o \in Mutexes : acquired'[o] = 0 => acquired[o] = 0
          BY <1>3 DEF Stays, Calm
        <4>3. \A o \in Semas : waitObj[t] = o /\ count'[o] # 0 => count[o] # 0
          BY <1>3 DEF Stays, Calm
        <4>4. \A o \in Events : val'[o] \subseteq val[o]
          BY <1>3 DEF Stays, Calm
        <4> QED
          BY <3>1, <4>1, <4>2, <4>3, <4>4 DEF Thread_CanWakeup, Ended
      <3> QED
        BY <1>3, <2>1, <3>2 DEF Ready, Stays, Calm
    <2>2. schedReq' => phase' = "irq"
      BY <1>3 DEF Stays, UrgentInv
    <2>3. phase' # "sched" /\ ~schedReq' => phase # "sched" /\ ~schedReq
      BY <1>3 DEF Stays, IInv, TypeOK
    <2>4. Prio[cur] \in Int
      BY KernelAssumption DEF IInv, TypeOK, Priorities
    <2> QED
      BY <1>3, <2>1, <2>2, <2>3, <2>4 DEF UrgentInv, Stays, Calm
  <1>4. UNCHANGED vars => Stays
    BY DEF vars, Stays, Calm, Ended, cpuVars, taskVars, waitVars, objVars
  <1> QED
    BY <1>1, <1>2, <1>3, <1>4, ThreadOpUrgent, MutexOpUrgent, SemaOpUrgent, EventOpUrgent,
       ReturnsUrgent, IrqUrgent DEF Next

(* No thread runs while a more urgent one could.                           *)
THEOREM PrioritiesHold == Spec => []UrgentFirst
  <1>1. Init => UrgentInv
    BY KernelAssumption DEF Init, UrgentInv, Ready
  <1>2. IInv /\ UrgentInv /\ [Next]_vars => UrgentInv'
    BY UrgentStep
  <1>3. UrgentInv => UrgentFirst
    BY DEF UrgentInv, UrgentFirst
  <1> QED
    BY <1>1, <1>2, <1>3, Invariance, PTL DEF Spec

-----------------------------------------------------------------------------
(* The run queues. *)

(* What QueuesSound needs of every list: no thread is in it twice, and     *)
(* only threads of its priority that are alive are.                        *)
ListsClean ==
  \A p \in Priorities :
    /\ \A i, j \in 1 .. Len(queue[p]) : queue[p][i] = queue[p][j] => i = j
    /\ \A i \in 1 .. Len(queue[p]) : Queued(queue[p][i]) /\ Prio[queue[p][i]] = p
CursorsSound ==
  \A p \in Priorities :
    IF queue[p] = <<>> THEN rr[p] = None
    ELSE \E i \in 1 .. Len(queue[p]) : queue[p][i] = rr[p]
CurIsCursor == phase # "sched" => rr[Prio[cur]] = cur
QueuesInv == ListsClean /\ CursorsSound /\ CurIsCursor

(* What is in a sequence without its i-th element, and where it was.       *)
LEMMA RemoveAtFrom ==
  ASSUME NEW S, NEW q \in Seq(S), NEW i \in 1 .. Len(q)
  PROVE  LET r == SubSeq(q, 1, i - 1) \o SubSeq(q, i + 1, Len(q)) IN
         \A k \in 1 .. Len(r) : r[k] = q[IF k < i THEN k ELSE k + 1]
  <1> DEFINE f == SubSeq(q, 1, i - 1)
             g == SubSeq(q, i + 1, Len(q))
             r == f \o g
  <1>1. f \in Seq(S) /\ Len(f) = i - 1 /\ \A j \in 1 .. i - 1 : f[j] = q[j]
    BY SubSeqProperties
  <1>2. g \in Seq(S) /\ Len(g) = Len(q) - i /\ \A j \in 1 .. Len(q) - i : g[j] = q[i + j]
    BY SubSeqProperties
  <1> HIDE DEF f, g
  <1>3. /\ Len(r) = Len(f) + Len(g)
        /\ \A k \in 1 .. Len(f) + Len(g) :
             r[k] = IF k <= Len(f) THEN f[k] ELSE g[k - Len(f)]
    BY <1>1, <1>2, ConcatProperties
  <1> HIDE DEF r
  <1>4. ASSUME NEW k \in 1 .. Len(r) PROVE r[k] = q[IF k < i THEN k ELSE k + 1]
    <2>1. k \in 1 .. Len(q) - 1 /\ k \in 1 .. Len(f) + Len(g) /\ Len(f) = i - 1
      BY <1>1, <1>2, <1>3
    <2>2. CASE k < i
      BY <1>1, <1>3, <2>1, <2>2
    <2>3. CASE ~(k < i)
      <3>1. k - (i - 1) \in 1 .. Len(q) - i /\ i + (k - (i - 1)) = k + 1 /\ ~(k <= i - 1)
        BY <2>1, <2>3
      <3>2. r[k] = g[k - (i - 1)]
        BY <1>3, <2>1, <3>1
      <3>3. g[k - (i - 1)] = q[k + 1]
        BY <1>2, <3>1
      <3> QED
        BY <2>3, <3>2, <3>3
    <2> QED
      BY <2>2, <2>3
  <1> QED
    BY <1>4 DEF r, f, g

(* Only four functions touch the queues.                                   *)
LEMMA QueueSteps ==
  ASSUME [Next]_vars
  PROVE  \/ \E t \in Threads : Thread_Create(t) \/ Thread_Delete(t)
         \/ Thread_Terminate
         \/ Thread_Schedule
         \/ UNCHANGED <<cur, status, queue, rr>> /\ (phase' # "sched" => phase # "sched")
  <1> USE DEF taskVars, cpuVars
  <1>1. ASSUME NEW c, NEW m, WaitFor(c, m) PROVE UNCHANGED <<cur, status, queue, rr>>
    BY <1>1 DEF WaitFor
  <1>2. ASSUME NEW kind, NoTimeoutFree(kind) PROVE UNCHANGED <<cur, status, queue, rr, phase>>
    BY <1>2 DEF NoTimeoutFree
  <1>3. CASE ThreadOp
    BY <1>1, <1>2, <1>3 DEF ThreadOp, Thread_Wait, Thread_Sleep, Thread_Yield, Client
  <1>4. CASE MutexOp
    BY <1>1, <1>2, <1>4 DEF MutexOp, Mutex_Create, Create, Mutex_Delete, Delete,
      Mutex_Acquire, Mutex_Release, Client
  <1>5. CASE SemaOp
    BY <1>1, <1>2, <1>5 DEF SemaOp, Semaphore_Create, Create, Semaphore_Delete, Delete,
      Semaphore_Wait, Semaphore_Post, Client, Caller
  <1>6. CASE EventOp
    BY <1>1, <1>2, <1>6 DEF EventOp, EventMask_Create, Create, EventMask_Delete, Delete,
      EventMask_Wait, EventMask_Clear, EventMask_Signal, Client, Caller
  <1>7. CASE Returns
    BY <1>7 DEF Returns, ReturnMutex, ReturnSemaphore, ReturnOther, Return
  <1>8. CASE Irq
    BY <1>8 DEF Irq, IrqEnter, Thread_Tick, Thread_PostIRQ
  <1>9. CASE UNCHANGED vars
    BY <1>9 DEF vars
  <1> QED
    BY <1>3, <1>4, <1>5, <1>6, <1>7, <1>8, <1>9 DEF Next, ThreadOp

LEMMA CreateQueues ==
  ASSUME IInv, QueuesInv, NEW t \in Threads, Thread_Create(t) PROVE QueuesInv'
  <1> USE DEF QueuesInv
  <1> DEFINE p == Prio[t]
  <1>1. /\ p \in Priorities /\ queue[p] \in Seq(Threads) /\ ~Queued(t)
        /\ cur \in Threads /\ UNCHANGED <<cur, phase>> /\ phase = "run"
        /\ status' = [status EXCEPT ![t] = "created"]
        /\ queue' = [queue EXCEPT ![p] = Append(queue[p], t)]
        /\ rr' = IF queue[p] = <<>> THEN [rr EXCEPT ![p] = t] ELSE rr
    BY KernelAssumption DEF IInv, TypeOK, Thread_Create, Client, Queued, Queue_Add, cpuVars
  <1>2. \A u \in Threads : Queued(u) => Queued(u)'
    BY <1>1 DEF Queued, IInv, TypeOK
  <1>3. Queued(t)'
    BY <1>1 DEF Queued, IInv, TypeOK
  <1> HIDE DEF p
  <1>4. /\ Len(queue'[p]) = Len(queue[p]) + 1 /\ queue'[p] # <<>>
        /\ \A i \in 1 .. Len(queue[p]) : queue'[p][i] = queue[p][i]
        /\ queue'[p][Len(queue[p]) + 1] = t
        /\ \A o \in Priorities : o # p => queue'[o] = queue[o]
    BY <1>1 DEF IInv, TypeOK
  <1>5. \A o \in Priorities : queue[o] \in Seq(Threads) /\ Len(queue[o]) \in Nat
    BY DEF IInv, TypeOK
  <1>6. ListsClean'
    <2> SUFFICES ASSUME NEW o \in Priorities
                 PROVE  /\ \A i, j \in 1 .. Len(queue'[o]) : queue'[o][i] = queue'[o][j] => i = j
                        /\ \A i \in 1 .. Len(queue'[o]) :
                             /\ status'[queue'[o][i]] \in {"created", "live"}
                             /\ Prio[queue'[o][i]] = o
      BY DEF ListsClean, Queued
    <2>1. CASE o # p
      BY <1>2, <1>4, <1>5, <2>1 DEF ListsClean, Queued
    <2>2. CASE o = p
      <3>1. \A i \in 1 .. Len(queue[p]) : queue[p][i] # t
        BY <1>1 DEF ListsClean
      <3>2. \A i \in 1 .. Len(queue[p]) : queue[p][i] \in Threads
        BY <1>1
      <3>3. \A i \in 1 .. Len(queue'[p]) : i \in 1 .. Len(queue[p]) \/ i = Len(queue[p]) + 1
        BY <1>1, <1>4, <1>5
      <3>4. ASSUME NEW i \in 1 .. Len(queue'[p]), NEW j \in 1 .. Len(queue'[p]),
                   queue'[p][i] = queue'[p][j]
            PROVE  i = j
        BY <1>1, <1>4, <3>1, <3>3, <3>4 DEF ListsClean
      <3>5. ASSUME NEW i \in 1 .. Len(queue'[p])
            PROVE  /\ status'[queue'[p][i]] \in {"created", "live"}
                   /\ Prio[queue'[p][i]] = p
        BY <1>1, <1>2, <1>3, <1>4, <3>2, <3>3, <3>5 DEF ListsClean, Queued, p
      <3> QED
        BY <2>2, <3>4, <3>5
    <2> QED
      BY <2>1, <2>2
  <1>7. CursorsSound'
    <2> SUFFICES ASSUME NEW o \in Priorities
                 PROVE  IF queue'[o] = <<>> THEN rr'[o] = None
                        ELSE \E i \in 1 .. Len(queue'[o]) : queue'[o][i] = rr'[o]
      BY DEF CursorsSound
    <2>1. CASE o # p
      BY <1>1, <1>4, <2>1 DEF CursorsSound, IInv, TypeOK
    <2>2. CASE o = p /\ queue[p] = <<>>
      BY <1>1, <1>4, <2>2 DEF IInv, TypeOK
    <2>3. CASE o = p /\ queue[p] # <<>>
      <3>1. PICK i \in 1 .. Len(queue[p]) : queue[p][i] = rr[p]
        BY <1>1, <2>3 DEF CursorsSound
      <3>2. i \in 1 .. Len(queue'[p])
        BY <1>1, <1>4, <1>5
      <3> QED
        BY <1>1, <1>4, <2>3, <3>1, <3>2
    <2> QED
      BY <2>1, <2>2, <2>3
  <1>8. CurIsCursor'
    <2>1. rr[Prio[cur]] = cur /\ Prio[cur] \in Priorities
      BY <1>1, KernelAssumption DEF CurIsCursor
    <2>2. CASE queue[p] # <<>>
      BY <1>1, <2>1, <2>2 DEF CurIsCursor
    <2>3. CASE queue[p] = <<>>
      <3>1. Prio[cur] # p
        BY <1>1, <2>1, <2>3, Distinct, KernelAssumption DEF CursorsSound, QueuesInv, Targets
      <3> QED
        BY <1>1, <2>1, <2>3, <3>1 DEF CurIsCursor, IInv, TypeOK
    <2> QED
      BY <2>2, <2>3
  <1> QED
    BY <1>6, <1>7, <1>8 DEF QueuesInv

LEMMA TerminateQueues ==
  ASSUME IInv, QueuesInv, Thread_Terminate PROVE QueuesInv'
  <1> USE DEF QueuesInv
  <1> DEFINE p == Prio[cur]
             i == Position(queue[p], cur)
             rest == SubSeq(queue[p], 1, i - 1) \o SubSeq(queue[p], i + 1, Len(queue[p]))
  <1>1. /\ cur \in Threads /\ Queued(cur) /\ phase' = "sched"
        /\ status' = [status EXCEPT ![cur] = "terminated"]
    BY DEF Thread_Terminate, Client, Thread_ReqReschedule, CurQueued, IInv, TypeOK
  <1>2. /\ p \in Priorities /\ queue[p] \in Seq(Threads)
        /\ i \in 1 .. Len(queue[p]) /\ queue[p][i] = cur
    <2>1. p \in Priorities /\ queue[p] \in Seq(Threads)
      BY <1>1, KernelAssumption DEF IInv, TypeOK
    <2>2. \E k \in 1 .. Len(queue[p]) : queue[p][k] = cur
      BY <1>1 DEF InQueue, IInv
    <2> QED
      BY <2>1, <2>2 DEF Position
  <1>3. /\ queue' = [queue EXCEPT ![p] = rest]
        /\ rr' = IF rr[p] # cur
                 THEN rr
                 ELSE [rr EXCEPT ![p] = IF rest = <<>> THEN None
                                        ELSE IF i <= Len(rest) THEN rest[i] ELSE rest[1]]
    BY DEF Thread_Terminate, Queue_Remove
  <1>4. /\ rest \in Seq(Threads) /\ Len(rest) = Len(queue[p]) - 1
        /\ \A j \in 1 .. Len(queue[p]) : j # i => \E k \in 1 .. Len(rest) : rest[k] = queue[p][j]
        /\ \A k \in 1 .. Len(rest) : rest[k] = queue[p][IF k < i THEN k ELSE k + 1]
    BY <1>2, RemoveAt, RemoveAtFrom
  <1> HIDE DEF p, i, rest
  <1>5. /\ queue'[p] = rest /\ Len(rest) \in Nat /\ Len(queue[p]) \in Nat
        /\ \A o \in Priorities : o # p => queue'[o] = queue[o] /\ rr'[o] = rr[o]
    BY <1>2, <1>3, <1>4 DEF IInv, TypeOK
  <1>6. ListsClean'
    <2> SUFFICES ASSUME NEW o \in Priorities
                 PROVE  /\ \A j, k \in 1 .. Len(queue'[o]) : queue'[o][j] = queue'[o][k] => j = k
                        /\ \A k \in 1 .. Len(queue'[o]) :
                             /\ status'[queue'[o][k]] \in {"created", "live"}
                             /\ Prio[queue'[o][k]] = o
      BY DEF ListsClean, Queued
    <2>1. CASE o # p
      <3>1. \A k \in 1 .. Len(queue[o]) : queue[o][k] # cur
        BY <2>1 DEF ListsClean, p
      <3>2. queue[o] \in Seq(Threads)
        BY DEF IInv, TypeOK
      <3>3. \A k \in 1 .. Len(queue[o]) : queue[o][k] \in Threads
        BY <3>2
      <3> QED
        BY <1>1, <1>5, <2>1, <3>1, <3>3 DEF ListsClean, Queued, IInv, TypeOK
    <2>2. CASE o = p
      <3> DEFINE h(k) == IF k < i THEN k ELSE k + 1
      <3>1. \A k \in 1 .. Len(rest) :
              h(k) \in 1 .. Len(queue[p]) /\ h(k) # i /\ rest[k] = queue[p][h(k)]
        BY <1>2, <1>4, <1>5, SMTT(30)
      <3>2. \A j, k \in 1 .. Len(rest) : h(j) = h(k) => j = k
        BY <1>2, <1>5
      <3> HIDE DEF h
      <3>3. \A j, k \in 1 .. Len(rest) : rest[j] = rest[k] => j = k
        BY <1>2, <3>1, <3>2 DEF ListsClean
      <3>4. ASSUME NEW k \in 1 .. Len(rest)
            PROVE  status'[rest[k]] \in {"created", "live"} /\ Prio[rest[k]] = p
        <4>1. rest[k] # cur
          BY <1>2, <3>1 DEF ListsClean
        <4>2. rest[k] \in Threads
          BY <1>4
        <4>3. Queued(rest[k]) /\ Prio[rest[k]] = p
          BY <1>2, <3>1 DEF ListsClean
        <4> QED
          BY <1>1, <4>1, <4>2, <4>3 DEF Queued, IInv, TypeOK
      <3> QED
        BY <1>5, <2>2, <3>3, <3>4
    <2> QED
      BY <2>1, <2>2
  <1>7. CursorsSound'
    <2> SUFFICES ASSUME NEW o \in Priorities
                 PROVE  IF queue'[o] = <<>> THEN rr'[o] = None
                        ELSE \E k \in 1 .. Len(queue'[o]) : queue'[o][k] = rr'[o]
      BY DEF CursorsSound
    <2>1. CASE o # p
      BY <1>5, <2>1 DEF CursorsSound
    <2>2. CASE o = p /\ rr[p] # cur
      <3>1. queue[p] # <<>>
        BY <1>2
      <3>2. PICK j \in 1 .. Len(queue[p]) : queue[p][j] = rr[p]
        BY <1>2, <3>1 DEF CursorsSound
      <3>3. PICK k \in 1 .. Len(rest) : rest[k] = rr[p]
        BY <1>2, <1>4, <2>2, <3>2
      <3>4. rest # <<>> /\ rr' = rr
        BY <1>3, <1>4, <2>2, <3>3
      <3> QED
        BY <1>5, <2>2, <3>3, <3>4
    <2>3. CASE o = p /\ rr[p] = cur
      <3>1. rr'[p] = IF rest = <<>> THEN None
                     ELSE IF i <= Len(rest) THEN rest[i] ELSE rest[1]
        BY <1>2, <1>3, <2>3 DEF IInv, TypeOK
      <3>2. rest # <<>> => 1 \in 1 .. Len(rest)
        BY <1>4, <1>5
      <3>3. i <= Len(rest) => i \in 1 .. Len(rest)
        BY <1>2, <1>5
      <3> QED
        BY <1>5, <2>3, <3>1, <3>2, <3>3
    <2> QED
      BY <2>1, <2>2, <2>3
  <1>8. CurIsCursor'
    BY <1>1 DEF CurIsCursor
  <1> QED
    BY <1>6, <1>7, <1>8

LEMMA ScheduleQueues ==
  ASSUME IInv, QueuesInv, Thread_Schedule PROVE QueuesInv'
  <1> USE DEF QueuesInv
  <1>1. PICK t \in Threads :
          /\ Queued(t)
          /\ rr' = [rr EXCEPT ![Prio[t]] = t]
          /\ status' = [status EXCEPT ![t] = "live"]
          /\ cur' = t /\ UNCHANGED queue
    BY DEF Thread_Schedule
  <1>2. Prio[t] \in Priorities
    BY KernelAssumption
  <1>3. \A u \in Threads : status[u] \in {"created", "live"} => status'[u] \in {"created", "live"}
    BY <1>1 DEF IInv, TypeOK
  <1>4. ListsClean'
    <2>1. \A o \in Priorities : queue[o] \in Seq(Threads)
      BY DEF IInv, TypeOK
    <2>2. \A o \in Priorities : \A k \in 1 .. Len(queue[o]) : queue[o][k] \in Threads
      BY <2>1
    <2> QED
      BY <1>1, <1>3, <2>2 DEF ListsClean, Queued
  <1>5. CursorsSound'
    <2> SUFFICES ASSUME NEW o \in Priorities
                 PROVE  IF queue[o] = <<>> THEN rr'[o] = None
                        ELSE \E k \in 1 .. Len(queue[o]) : queue[o][k] = rr'[o]
      BY <1>1 DEF CursorsSound
    <2>1. CASE o # Prio[t]
      BY <1>1, <1>2, <2>1 DEF CursorsSound, IInv, TypeOK
    <2>2. CASE o = Prio[t]
      <3>1. PICK k \in 1 .. Len(queue[o]) : queue[o][k] = t
        BY <1>1, <2>2 DEF InQueue, IInv
      <3>2. queue[o] \in Seq(Threads) /\ queue[o] # <<>>
        BY <3>1 DEF IInv, TypeOK
      <3> QED
        BY <1>1, <1>2, <2>2, <3>1, <3>2 DEF IInv, TypeOK
    <2> QED
      BY <2>1, <2>2
  <1>6. CurIsCursor'
    BY <1>1, <1>2 DEF CurIsCursor, IInv, TypeOK
  <1> QED
    BY <1>4, <1>5, <1>6

LEMMA QueuesStep == ASSUME IInv, QueuesInv, [Next]_vars PROVE QueuesInv'
  <1>1. CASE \E t \in Threads : Thread_Create(t)
    BY <1>1, CreateQueues
  <1>2. CASE \E t \in Threads : Thread_Delete(t)
    <2>1. PICK t \in Threads : Thread_Delete(t)
      BY <1>2
    <2>2. \A o \in Priorities : \A k \in 1 .. Len(queue[o]) : queue[o][k] \in Threads
      BY DEF IInv, TypeOK
    <2>3. \A u \in Threads : status[u] \in {"created", "live"} => status'[u] \in {"created", "live"}
      BY <2>1 DEF Thread_Delete, IInv, TypeOK
    <2>4. UNCHANGED <<cur, phase, queue, rr>>
      BY <2>1 DEF Thread_Delete, cpuVars
    <2> QED
      BY <2>2, <2>3, <2>4 DEF QueuesInv, ListsClean, CursorsSound, CurIsCursor, Queued
  <1>3. CASE Thread_Terminate
    BY <1>3, TerminateQueues
  <1>4. CASE Thread_Schedule
    BY <1>4, ScheduleQueues
  <1>5. CASE UNCHANGED <<cur, status, queue, rr>> /\ (phase' # "sched" => phase # "sched")
    BY <1>5 DEF QueuesInv, ListsClean, CursorsSound, CurIsCursor, Queued
  <1> QED
    BY <1>1, <1>2, <1>3, <1>4, <1>5, QueueSteps

LEMMA QueuesInit == ASSUME Init PROVE QueuesInv
  <1> USE KernelAssumption
  <1>1. \A p \in Priorities : queue[p] = <<Main>> \/ queue[p] = <<Idle>> \/ queue[p] = <<>>
    BY DEF Init
  <1>2. ASSUME NEW p \in Priorities
        PROVE  /\ \A i, j \in 1 .. Len(queue[p]) : queue[p][i] = queue[p][j] => i = j
               /\ \A i \in 1 .. Len(queue[p]) : Queued(queue[p][i]) /\ Prio[queue[p][i]] = p
               /\ IF queue[p] = <<>> THEN rr[p] = None
                  ELSE \E i \in 1 .. Len(queue[p]) : queue[p][i] = rr[p]
    <2>1. CASE p = Prio[Main]
      <3>1. queue[p] = <<Main>> /\ rr[p] = Main /\ status[Main] = "live"
        BY <2>1 DEF Init
      <3> QED
        BY <2>1, <3>1 DEF Queued
    <2>2. CASE p = Prio[Idle] /\ p # Prio[Main]
      <3>1. queue[p] = <<Idle>> /\ rr[p] = Idle /\ status[Idle] = "created"
        BY <2>2 DEF Init
      <3> QED
        BY <2>2, <3>1 DEF Queued
    <2>3. CASE p # Prio[Idle] /\ p # Prio[Main]
      <3>1. queue[p] = <<>> /\ rr[p] = None
        BY <2>3 DEF Init
      <3> QED
        BY <3>1
    <2> QED
      BY <2>1, <2>2, <2>3
  <1>3. CurIsCursor
    BY DEF Init, CurIsCursor, Priorities
  <1> QED
    BY <1>2, <1>3 DEF QueuesInv, ListsClean, CursorsSound

LEMMA QueuesFollow == ASSUME IInv, QueuesInv PROVE QueuesSound
  <1> USE DEF QueuesInv
  <1>1. ASSUME NEW t \in Threads
        PROVE  Cardinality({i \in 1 .. Len(queue[Prio[t]]) : queue[Prio[t]][i] = t})
                 = IF Queued(t) THEN 1 ELSE 0
    <2>1. Prio[t] \in Priorities
      BY KernelAssumption
    <2>2. CASE Queued(t)
      <3>1. PICK i \in 1 .. Len(queue[Prio[t]]) : queue[Prio[t]][i] = t
        BY <2>2 DEF InQueue, IInv
      <3>2. {j \in 1 .. Len(queue[Prio[t]]) : queue[Prio[t]][j] = t} = {i}
        BY <2>1, <3>1 DEF ListsClean
      <3> QED
        BY <2>2, <3>2, FS_Singleton
    <2>3. CASE ~Queued(t)
      <3>1. {j \in 1 .. Len(queue[Prio[t]]) : queue[Prio[t]][j] = t} = {}
        BY <2>1, <2>3 DEF ListsClean
      <3> QED
        BY <2>3, <3>1, FS_EmptySet
    <2> QED
      BY <2>2, <2>3
  <1> QED
    BY <1>1 DEF QueuesSound, CursorsSound, CurIsCursor

(* Every live thread is linked in the list of its priority exactly once,   *)
(* and every cursor names a member of its list, so that scans end.         *)
THEOREM QueuesAreLinked == Spec => []QueuesSound
  <1>1. Init => QueuesInv
    BY QueuesInit
  <1>2. IInv /\ QueuesInv /\ [Next]_vars => QueuesInv'
    BY QueuesStep
  <1>3. IInv /\ QueuesInv => QueuesSound
    BY QueuesFollow
  <1> QED
    BY <1>1, <1>2, <1>3, Invariance, PTL DEF Spec
=============================================================================
